---------------------------- MODULE SharedServer ----------------------------
(***************************************************************************)
(* A server that shares its connections with child processes: net.Server   *)
(* of node/net.js, and the socket lists of node/child_process.js.          *)
(*                                                                         *)
(* A socket sent to a child is closed here and lives there.  The server    *)
(* may say 'close' only when the children it sent sockets to (its slaves)  *)
(* have none left: close() asks each of them, and a slave answers when its *)
(* list is empty.  A slave whose channel is disconnected, from either side,*)
(* counts as closed, and goes on with its sockets.  Messages travel in     *)
(* order (IpcChannel implements FifoChannel), and the socket of a message  *)
(* that waits for an acknowledgement still belongs to the server.  As in   *)
(* Cluster, an end that closes has written out what it sent, and closes    *)
(* at once.                                                                *)
(***************************************************************************)
EXTENDS Integers, Sequences, FiniteSets, SequencesExt

CONSTANTS
  Sockets,  \* connections the server may accept
  Slaves,   \* child processes
  LateSends \* are sockets sent after close()?

ASSUME SharedServerAssumption ==
  /\ IsFiniteSet(Sockets) /\ IsFiniteSet(Slaves)
  /\ Sockets \cap Slaves = {}
  /\ LateSends \in BOOLEAN

VARIABLES
  server,    \* the server
  channel,   \* of each slave, the server's end
  wire,      \* what the server has sent to each slave
  reply,     \* and each slave to the server
  list,      \* of each slave, its SocketListReceive
  place      \* of each socket

vars == <<server, channel, wire, reply, list, place>>

\* The fields of a server are those of the source; left is the count of close(),
\* ticks the emissions of 'close' that wait for the next tick, emitted those done;
\* thrown (history): has close() ended with an exception?
NewServer ==
  [listening |-> TRUE, connections |-> 0, slaves |-> {}, left |-> 0, ticks |-> 0, emitted |-> 0,
   thrown |-> FALSE]

\* connected, acking, queue: as in IpcChannel; open: is this end of the pipe open?
\* asked: does close() wait for an answer?
NewChannel ==
  [connected |-> TRUE, open |-> TRUE, acking |-> FALSE, queue |-> <<>>, asked |-> FALSE]

\* linked: is the slave's end of the channel open?  sockets: those the list counts;
\* waits: does it listen to 'empty'?
NewList == [linked |-> TRUE, sockets |-> {}, waits |-> FALSE]

\* What the server sends: a socket, or NODE_SOCKET_NOTIFY_CLOSE.
Notify == "NOTIFY_CLOSE"
AllClosed == "ALL_CLOSED"
Ack == "ACK"

\* Places of a socket: with the server, with a slave or on its way there, closed.
Places == {"none", "local", "closed"} \cup Slaves

Init ==
  /\ server = NewServer
  /\ channel = [s \in Slaves |-> NewChannel]
  /\ wire = [s \in Slaves |-> <<>>]
  /\ reply = [s \in Slaves |-> <<>>]
  /\ list = [s \in Slaves |-> NewList]
  /\ place = [c \in Sockets |-> "none"]

-----------------------------------------------------------------------------
(* The server. *)

\* _emitCloseIfDrained.
EmitCloseIfDrained(v) ==
  IF v.listening \/ v.connections # 0 THEN v ELSE [v EXCEPT !.ticks = @ + 1]

\* onSlaveClose of close().
OnSlaveClose(v) ==
  LET w == [v EXCEPT !.left = @ - 1]
  IN IF w.left # 0 THEN w ELSE EmitCloseIfDrained([w EXCEPT !.connections = 0])

-----------------------------------------------------------------------------
(* Sending.  A sender is the part of the state that target._send changes.  *)

Sender(s) ==
  [server |-> server, channel |-> channel[s], wire |-> wire[s], place |-> place]

Becomes(s, m) ==
  /\ server' = m.server
  /\ channel' = [channel EXCEPT ![s] = m.channel]
  /\ wire' = [wire EXCEPT ![s] = m.wire]
  /\ place' = m.place

\* Does the write succeed?  What is written to a slave that has closed its end is lost;
\* the write may fail, and here somebody listens for the 'error'.
Writes(s) == IF list[s].linked THEN {TRUE} ELSE BOOLEAN

\* handleConversion: the server lets go of a socket that it has not closed.
Convert(m, s, c) ==
  [m EXCEPT !.server.connections = @ - 1, !.server.slaves = @ \cup {s},
            !.place[c] = IF list[s].linked THEN s ELSE "closed"]

\* target._send of a message, or of a socket.
Transmit(m, s, item, ok) ==
  LET sent == IF list[s].linked THEN Append(m.wire, item) ELSE m.wire
  IN CASE m.channel.acking -> [m EXCEPT !.channel.queue = Append(@, item)]
       [] ~m.channel.acking /\ item \in Sockets ->
            IF m.place[item] # "local" THEN m
            ELSE [Convert(m, s, item) EXCEPT !.channel.acking = ok, !.wire = sent]
       [] OTHER -> [m EXCEPT !.wire = sent]

\* NODE_HANDLE_ACK: the queue is sent again, and waits again behind a socket.
Resend(m, s, ok) ==
  FoldLeft(LAMBDA n, item : Transmit(n, s, item, ok),
           [m EXCEPT !.channel.acking = FALSE, !.channel.queue = <<>>], m.channel.queue)

-----------------------------------------------------------------------------
(* Actions: the server's process. *)

\* onconnection.
Accept(c) ==
  /\ server.listening /\ place[c] = "none"
  /\ server' = [server EXCEPT !.connections = @ + 1]
  /\ place' = [place EXCEPT ![c] = "local"]
  /\ UNCHANGED <<channel, wire, reply, list>>

\* _destroy of a socket of the server.
Destroy(c) ==
  /\ place[c] = "local"
  /\ server' = EmitCloseIfDrained([server EXCEPT !.connections = @ - 1])
  /\ place' = [place EXCEPT ![c] = "closed"]
  /\ UNCHANGED <<channel, wire, reply, list>>

\* child.send(message, socket): a socket is sent once.
SendSocket(c, s) ==
  /\ server.listening \/ LateSends
  /\ place[c] = "local"
  /\ channel[s].connected
  /\ \A t \in Slaves : c \notin ToSet(channel[t].queue)
  /\ \E ok \in Writes(s) : Becomes(s, Transmit(Sender(s), s, c, ok))
  /\ UNCHANGED <<reply, list>>

\* A slave that is asked to close.
Asked(s) == [Transmit(Sender(s), s, Notify, TRUE) EXCEPT !.channel.asked = TRUE]

\* close() asks the slaves `polled`.  One that is not connected counts as closed before
\* the function returns.
Polls(polled) ==
  LET here == {s \in polled : channel[s].connected}
      polling == [server EXCEPT !.listening = FALSE, !.connections = @ + 1,
                                !.left = Cardinality(server.slaves)]
  IN /\ server' = [FoldLeft(LAMBDA v, s : OnSlaveClose(v), polling, SetToSeq(polled \ here))
                     EXCEPT !.thrown = polled # server.slaves]
     /\ channel' = [s \in Slaves |-> IF s \in here THEN Asked(s).channel ELSE channel[s]]
     /\ wire' = [s \in Slaves |-> IF s \in here THEN Asked(s).wire ELSE wire[s]]

\* May the write of close() to a slave fail?
Unwritable(s) == channel[s].connected /\ ~channel[s].acking /\ ~list[s].linked

\* close(), of a server that listens.  When the write to a slave fails and nobody
\* listens for its 'error', the exception leaves the slaves behind it unasked.
Close ==
  /\ server.listening
  /\ \/ server.slaves = {} /\ server' = EmitCloseIfDrained([server EXCEPT !.listening = FALSE])
                           /\ UNCHANGED <<channel, wire>>
     \/ server.slaves # {} /\ Polls(server.slaves)
     \/ \E s \in server.slaves : Unwritable(s) /\ \E before \in SUBSET (server.slaves \ {s}) : Polls(before)
  /\ UNCHANGED <<reply, list, place>>

EmitClose ==
  /\ server.ticks > 0
  /\ server' = [server EXCEPT !.ticks = @ - 1, !.emitted = @ + 1]
  /\ UNCHANGED <<channel, wire, reply, list, place>>

\* A message of a slave.
Due(s, message) ==
  /\ channel[s].open /\ reply[s] # <<>> /\ Head(reply[s]) = message
  /\ reply' = [reply EXCEPT ![s] = Tail(@)]

OnAck(s) ==
  /\ Due(s, Ack)
  /\ \E ok \in Writes(s) : Becomes(s, Resend(Sender(s), s, ok))
  /\ UNCHANGED list

\* (mutant: a request that was answered still listens to 'disconnect')
OnAllClosedOnly(s) ==
  /\ Due(s, AllClosed)
  /\ server' = OnSlaveClose(server)
  /\ UNCHANGED <<channel, wire, list, place>>

\* onreply of _request.
OnAllClosed(s) ==
  /\ Due(s, AllClosed)
  /\ server' = OnSlaveClose(server)
  /\ channel' = [channel EXCEPT ![s].asked = FALSE]
  /\ UNCHANGED <<wire, list, place>>

\* disconnect() of the child process.
Disconnect(s) ==
  /\ channel[s].connected
  /\ channel' = [channel EXCEPT ![s].connected = FALSE]
  /\ UNCHANGED <<server, wire, reply, list, place>>

\* This end closes, and 'disconnect' answers the request, if `told`.
Ends(s, told) ==
  LET answers == told /\ channel[s].asked
  IN /\ channel' = [channel EXCEPT ![s].connected = FALSE, ![s].open = FALSE,
                                   ![s].asked = @ /\ ~answers]
     /\ server' = IF answers THEN OnSlaveClose(server) ELSE server
     /\ UNCHANGED <<wire, reply, list, place>>

\* finish() of _disconnect, once nothing is queued.
Finish(s) ==
  /\ channel[s].open /\ ~channel[s].connected /\ ~channel[s].acking
  /\ Ends(s, TRUE)

\* The slave has closed its end.  'disconnect' does not come while a socket is
\* unacknowledged.
OnDisconnect(s) ==
  /\ channel[s].open /\ (channel[s].connected \/ channel[s].acking)
  /\ ~list[s].linked /\ reply[s] = <<>>
  /\ Ends(s, ~channel[s].acking)

-----------------------------------------------------------------------------
(* Actions: the slaves. *)

\* What a slave sends is lost when the server has closed its end.
Answer(s, messages) ==
  reply' = IF channel[s].open THEN [reply EXCEPT ![s] = @ \o messages] ELSE reply

\* NODE_HANDLE is acknowledged, and the socket added to the list.
ReceiveSocket(s) ==
  /\ list[s].linked /\ wire[s] # <<>> /\ Head(wire[s]) \in Sockets
  /\ wire' = [wire EXCEPT ![s] = Tail(@)]
  /\ list' = [list EXCEPT ![s].sockets = @ \cup {Head(wire[s])}]
  /\ Answer(s, <<Ack>>)
  /\ UNCHANGED <<server, channel, place>>

\* (mutant: the list does not wait for 'empty')
ReceiveNotifyAtOnce(s) ==
  /\ list[s].linked /\ wire[s] # <<>> /\ Head(wire[s]) = Notify
  /\ wire' = [wire EXCEPT ![s] = Tail(@)]
  /\ list' = list
  /\ Answer(s, <<AllClosed>>)
  /\ UNCHANGED <<server, channel, place>>

\* NODE_SOCKET_NOTIFY_CLOSE.
ReceiveNotify(s) ==
  LET empty == list[s].sockets = {}
  IN /\ list[s].linked /\ wire[s] # <<>> /\ Head(wire[s]) = Notify
     /\ wire' = [wire EXCEPT ![s] = Tail(@)]
     /\ list' = [list EXCEPT ![s].waits = ~empty]
     /\ Answer(s, IF empty THEN <<AllClosed>> ELSE <<>>)
     /\ UNCHANGED <<server, channel, place>>

\* (mutant: the last socket to close says nothing)
SlaveDestroyOnly(s, c) ==
  /\ c \in list[s].sockets
  /\ list' = [list EXCEPT ![s].sockets = @ \ {c}]
  /\ place' = [place EXCEPT ![c] = "closed"]
  /\ UNCHANGED <<server, channel, wire, reply>>

\* A socket of the list closes; the last one emits 'empty', and the slave answers if it
\* is connected.
SlaveDestroy(s, c) ==
  LET empty == list[s].sockets = {c}
  IN /\ c \in list[s].sockets
     /\ list' = [list EXCEPT ![s].sockets = @ \ {c}, ![s].waits = @ /\ ~empty]
     /\ place' = [place EXCEPT ![c] = "closed"]
     /\ Answer(s, IF empty /\ list[s].waits /\ list[s].linked THEN <<AllClosed>> ELSE <<>>)
     /\ UNCHANGED <<server, channel, wire>>

\* Sockets that are closed with a process, or on their way to it.
Closed(cs) == place' = [c \in Sockets |-> IF c \in cs THEN "closed" ELSE place[c]]

\* disconnect() of the slave: what it has not read is lost, the sockets of the list
\* stay open.
SlaveDisconnect(s) ==
  /\ list[s].linked
  /\ list' = [list EXCEPT ![s].linked = FALSE]
  /\ wire' = [wire EXCEPT ![s] = <<>>]
  /\ Closed(ToSet(wire[s]))
  /\ UNCHANGED <<server, channel, reply>>

\* The slave has read everything, and the server has closed its end.
SlaveEof(s) ==
  /\ list[s].linked /\ wire[s] = <<>> /\ ~channel[s].open
  /\ list' = [list EXCEPT ![s].linked = FALSE]
  /\ UNCHANGED <<server, channel, wire, reply, place>>

\* A slave ends, or does nothing any more: its sockets are closed, those on their way
\* to it too.
Die(s) ==
  /\ list[s].linked \/ list[s].sockets # {}
  /\ list' = [list EXCEPT ![s] = [NewList EXCEPT !.linked = FALSE]]
  /\ wire' = [wire EXCEPT ![s] = <<>>]
  /\ Closed({c \in Sockets : place[c] = s})
  /\ UNCHANGED <<server, channel, reply>>

-----------------------------------------------------------------------------

\* What the event loops do by themselves.
Step ==
  \/ EmitClose
  \/ \E s \in Slaves :
       \/ OnAck(s) \/ OnAllClosed(s) \/ Finish(s) \/ OnDisconnect(s)
       \/ ReceiveSocket(s) \/ ReceiveNotify(s) \/ SlaveEof(s)

Next ==
  \/ Step \/ Close
  \/ \E c \in Sockets : Accept(c) \/ Destroy(c)
  \/ \E s \in Slaves :
       \/ Disconnect(s) \/ SlaveDisconnect(s) \/ Die(s)
       \/ \E c \in Sockets : SendSocket(c, s) \/ SlaveDestroy(s, c)

Spec == Init /\ [][Next]_vars

FairSpec == Spec /\ WF_vars(Step)

Messages == Sockets \cup {Notify}

TypeOK ==
  /\ server \in [listening : BOOLEAN, connections : -Cardinality(Sockets) .. Cardinality(Sockets) + 1,
                 slaves : SUBSET Slaves, left : 0 .. Cardinality(Slaves),
                 ticks : 0 .. 1, emitted : 0 .. 1, thrown : BOOLEAN]
  /\ channel \in [Slaves -> [connected : BOOLEAN, open : BOOLEAN, acking : BOOLEAN,
                             queue : Seq(Messages), asked : BOOLEAN]]
  /\ wire \in [Slaves -> Seq(Messages)]
  /\ reply \in [Slaves -> Seq({Ack, AllClosed})]
  /\ list \in [Slaves -> [linked : BOOLEAN, sockets : SUBSET Sockets, waits : BOOLEAN]]
  /\ place \in [Sockets -> Places]

-----------------------------------------------------------------------------
(* Properties *)

Local == {c \in Sockets : place[c] = "local"}

\* A server that listens counts its own connections, those that wait in a queue
\* included.  'close' comes once, and then no slave that is still connected has a
\* connection of the server, nor is one on its way to it or queued for it; without
\* slaves the server has none either.  (With slaves it may: onSlaveClose of close() sets the count to
\* zero.  And a slave that was disconnected may: it counts as closed.)
Drained ==
  /\ server.listening => server.connections = Cardinality(Local)
  /\ server.ticks + server.emitted <= 1
  /\ server.ticks + server.emitted = 1 =>
       /\ \A s \in Slaves, c \in Sockets :
            channel[s].connected => place[c] # s /\ c \notin ToSet(channel[s].queue)
       /\ server.slaves = {} => Local = {}

\* A server that was closed says so once its connections are closed, wherever
\* they are, unless close() has thrown, or a slave went without 'disconnect'.
Closes ==
  []<>(\/ server.listening \/ server.thrown \/ server.emitted = 1
       \/ \E c \in Sockets : place[c] \in Slaves \cup {"local"}
       \/ \E s \in Slaves : channel[s].asked /\ channel[s].acking /\ ~channel[s].open)
=============================================================================
