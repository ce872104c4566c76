------------------------------ MODULE Cluster ------------------------------
(***************************************************************************)
(* node/cluster.js with round-robin scheduling: the master accepts the     *)
(* connections of one shared address and hands each of them to a worker    *)
(* over the channel of child_process, which keeps messages in order (see   *)
(* IpcChannel).  The workers listen, close, disconnect and die while       *)
(* connections are on their way to them, and a send to a worker that has   *)
(* gone may fail.  A process that closes its channel is taken to have      *)
(* written out what it sent, and to close it at once (IpcChannel has both  *)
(* exceptions: what a dying end loses, and the stale wait of _disconnect). *)
(***************************************************************************)
EXTENDS Naturals, Sequences, SequencesExt

CONSTANTS
  Workers,     \* ids of workers
  Conns,       \* connections
  NoConn,      \* in a message without one
  MaxListens,  \* bound on the calls of listen() by all workers
  Overlap,     \* may a worker listen again before the master has finished with its last server?
  ExitFirst    \* may 'exit' of a worker be noticed before the end of its channel?

ASSUME ClusterAssumption ==
  /\ NoConn \notin Conns
  /\ MaxListens \in Nat
  /\ {Overlap, ExitFirst} \subseteq BOOLEAN

VARIABLES
  master,   \* the master and what it has sent to the workers
  inbox,    \* messages of each worker to the master
  phase,    \* of each worker process: new, up, disconnected, dead
  server,   \* of each worker: its server does not listen, has asked, listens
  listens,  \* calls of listen() so far
  servedBy  \* history: the workers that have got a connection

vars == <<master, inbox, phase, server, listens, servedBy>>

\* workers: keys of cluster.workers; linked: the workers with a channel that has
\* not ended; told: those whose 'disconnect' was emitted.  on: is there a
\* RoundRobinHandle?  gen: how many there have been; all, free, handles: its
\* fields; out: messages to each worker that it has not read; dropped, orphans:
\* connections closed by remove(), or that nobody has: their handle is closed, or the
\* send has failed.  asked, answered: cluster.disconnect() and its callback; late
\* (history): workers forked after that call.  down: an assert has failed; thrown: an
\* 'error' of a worker that nobody listens for has ended the master.
NewMaster ==
  [workers |-> {}, linked |-> {}, told |-> {}, on |-> FALSE, gen |-> 0, all |-> {},
   free |-> <<>>, handles |-> <<>>, out |-> [w \in Workers |-> <<>>],
   dropped |-> {}, orphans |-> {}, asked |-> FALSE, answered |-> FALSE, late |-> {},
   down |-> FALSE, thrown |-> FALSE]

Message(act, c, gen) == [act |-> act, conn |-> c, gen |-> gen]
Plain(act) == Message(act, NoConn, 0)

\* sendHelper to a worker.
Sent(m, w, message) == [m EXCEPT !.out[w] = Append(@, message)]

\* sendHelper to the master.
Tells(w, messages) == inbox' = [inbox EXCEPT ![w] = @ \o messages]

\* An assert of the master fails, or it uses a handle that is gone.
Failed(m) == [m EXCEPT !.down = TRUE]

Has(messages, acts) == \E i \in DOMAIN messages : messages[i].act \in acts

-----------------------------------------------------------------------------
(* RoundRobinHandle, on the state m of the master. *)

\* (mutant: a connection handed over stays in the queue)
HandoffPeek(m, w) ==
  IF w \notin m.all THEN m
  ELSE IF m.handles = <<>> THEN [m EXCEPT !.free = Append(@, w)]
  ELSE Sent(m, w, Message("newconn", Head(m.handles), m.gen))

\* (mutant: a worker that finds no connection does not become ready)
HandoffOnce(m, w) ==
  IF w \notin m.all \/ m.handles = <<>> THEN m
  ELSE Sent([m EXCEPT !.handles = Tail(@)], w, Message("newconn", Head(m.handles), m.gen))

Handoff(m, w) ==
  IF w \notin m.all THEN m
  ELSE IF m.handles = <<>> THEN [m EXCEPT !.free = Append(@, w)]
  ELSE Sent([m EXCEPT !.handles = Tail(@)], w, Message("newconn", Head(m.handles), m.gen))

Distribute(m, c) ==
  LET n == [m EXCEPT !.handles = Append(@, c)]
  IN IF m.free = <<>> THEN n ELSE Handoff([n EXCEPT !.free = Tail(@)], Head(m.free))

\* (mutant: the handle is not forgotten with its last worker)
RemovedOpen(m, w) ==
  IF w \notin m.all THEN m
  ELSE [m EXCEPT !.all = @ \ {w}, !.free = Remove(@, w)]

\* remove(), and `delete handles[key]` if nobody is left.
Removed(m, w) ==
  IF w \notin m.all THEN m
  ELSE IF m.all = {w}
  THEN [m EXCEPT !.all = {}, !.free = <<>>, !.handles = <<>>, !.on = FALSE,
                 !.dropped = @ \cup ToSet(m.handles)]
  ELSE [m EXCEPT !.all = @ \ {w}, !.free = Remove(@, w)]

\* add(), once the address is bound.
Added(m, w) ==
  IF w \in m.all THEN Failed(m)
  ELSE Handoff(Sent([m EXCEPT !.all = @ \cup {w}], w, Plain("listening")), w)

\* The callback of a handoff: the handle it belongs to may be closed by now.
Replied(m, w, reply) ==
  IF reply.act = "accepted" THEN IF reply.gen = m.gen THEN Handoff(m, w) ELSE m
  ELSE IF reply.gen = m.gen /\ m.on THEN Handoff(Distribute(m, reply.conn), w)
  ELSE [m EXCEPT !.orphans = @ \cup {reply.conn}]

-----------------------------------------------------------------------------
(* The master. *)

Runs == ~master.down /\ ~master.thrown

\* The workers a step of the master writes to.
WrittenTo(n) == {w \in Workers : n.out[w] # master.out[w]}

\* Those whose process has ended or closed its channel.  send() emits 'error' once the
\* master has seen the channel end, and a write before that may fail; but behind a
\* handle that is not acknowledged the message is only queued.
MayFail(n) ==
  {w \in WrittenTo(n) : /\ phase[w] \in {"disconnected", "dead"}
                        /\ w \in master.linked => ~Has(master.out[w], {"newconn"})}

\* Nothing of what was written to these workers has been sent.
Unsent(n, ws) ==
  LET new(w) == ToSet(n.out[w]) \ ToSet(master.out[w])
  IN [n EXCEPT !.out = [w \in Workers |-> IF w \in ws THEN master.out[w] ELSE @[w]],
               !.orphans = @ \cup (UNION {{x.conn : x \in new(w)} : w \in ws} \cap Conns)]

\* The master gets to state n, sending.  When a send fails the worker emits 'error':
\* somebody listens for it, or it is thrown and the process ends with all it knew.
Sends(n) ==
  \/ \E ws \in SUBSET MayFail(n) :
       /\ WrittenTo(n) \ master.linked \subseteq ws
       /\ master' = Unsent(n, ws)
  \/ /\ MayFail(n) # {}
     /\ master' = [NewMaster EXCEPT !.thrown = TRUE]

Fork(w) ==
  /\ Runs /\ phase[w] = "new"
  /\ phase' = [phase EXCEPT ![w] = "up"]
  /\ master' = [master EXCEPT !.workers = @ \cup {w}, !.linked = @ \cup {w},
                              !.late = IF master.asked THEN @ \cup {w} ELSE @]
  /\ UNCHANGED <<inbox, server, listens, servedBy>>

\* The connections nobody has made.
Fresh ==
  {c \in Conns :
     /\ servedBy[c] = {} /\ c \notin ToSet(master.handles) \cup master.dropped \cup master.orphans
     /\ \A w \in Workers :
          c \notin {x.conn : x \in ToSet(master.out[w]) \cup ToSet(inbox[w])}}

\* A client connects: handle.onconnection is distribute.  Which connection comes first
\* makes no difference.
Connect(c) ==
  /\ Runs /\ master.on /\ Fresh # {} /\ c = CHOOSE d \in Fresh : TRUE
  /\ Sends(Distribute(master, c))
  /\ UNCHANGED <<inbox, phase, server, listens, servedBy>>

\* A message of a worker reaches the master.
FromWorker(w, acts) ==
  /\ Runs /\ inbox[w] # <<>> /\ Head(inbox[w]).act \in acts
  /\ inbox' = [inbox EXCEPT ![w] = Tail(@)]
  /\ UNCHANGED <<phase, server, listens, servedBy>>

\* The address may be in use when the first worker asks for it.
QueryServer(w) ==
  /\ FromWorker(w, {"queryServer"})
  /\ \/ master.on /\ Sends(Added(master, w))
     \/ ~master.on /\ Sends(Added([master EXCEPT !.on = TRUE, !.gen = @ + 1], w))
     \/ ~master.on /\ Sends(Sent(master, w, Plain("errno")))

Close(w) ==
  /\ FromWorker(w, {"close"})
  /\ master' = IF master.on THEN Removed(master, w) ELSE Failed(master)

Reply(w) ==
  /\ FromWorker(w, {"accepted", "refused"})
  /\ Sends(Replied(master, w, Head(inbox[w])))

\* (mutant: cluster.disconnect() asks nobody)
DisconnectAllQuiet ==
  /\ Runs /\ ~master.asked
  /\ master' = [master EXCEPT !.asked = TRUE, !.answered = master.workers = {}]
  /\ UNCHANGED <<inbox, phase, server, listens, servedBy>>

\* cluster.disconnect(callback).  (worker.disconnect() for one worker sends the same
\* message; the worker may take it at any moment, as in Disconnect.)
DisconnectAll ==
  /\ Runs /\ ~master.asked
  /\ Sends([master EXCEPT
       !.asked = TRUE,
       !.answered = master.workers = {},
       !.out = [w \in Workers |-> IF w \in master.workers
                                  THEN Append(@[w], Plain("disconnect")) ELSE @[w]]])
  /\ UNCHANGED <<inbox, phase, server, listens, servedBy>>

\* The 'disconnect' handlers: the worker is removed from the handle; when it was
\* the last worker no handle may be left, and cluster.disconnect() calls back.
OnDisconnect(m, w) ==
  LET n == Removed([m EXCEPT !.workers = @ \ {w}, !.told = @ \cup {w}], w)
  IN IF n.workers # {} THEN n
     ELSE IF n.on THEN Failed(n)
     ELSE [n EXCEPT !.answered = n.asked]

\* The channel of a worker has ended.  With a connection unacknowledged,
\* 'disconnect' is not emitted (see IpcChannel).
ChannelEnds(w) ==
  LET m == [master EXCEPT !.linked = @ \ {w}]
  IN /\ Runs /\ w \in master.linked /\ phase[w] \in {"disconnected", "dead"} /\ inbox[w] = <<>>
     /\ master' = IF Has(m.out[w], {"newconn"}) THEN m ELSE OnDisconnect(m, w)
     /\ UNCHANGED <<inbox, phase, server, listens, servedBy>>

\* 'exit' of a worker.
OnExit(w) ==
  /\ Runs /\ phase[w] = "dead" /\ w \in master.workers
  /\ ExitFirst \/ w \notin master.linked
  /\ master' = [master EXCEPT !.workers = @ \ {w}]
  /\ UNCHANGED <<inbox, phase, server, listens, servedBy>>

-----------------------------------------------------------------------------
(* A worker.  When the master has ended, its channel ends and the worker exits: nothing
   that follows is modelled. *)

Up(w) == Runs /\ phase[w] = "up"

\* The master takes the worker for listening, or waits for a reply of it.
Owes(w) ==
  \/ w \in master.all
  \/ Has(master.out[w], {"newconn"})
  \/ Has(inbox[w], {"accepted", "refused"})

\* server.listen: cluster._getServer.
Listen(w) ==
  /\ Up(w) /\ server[w] = "closed" /\ listens < MaxListens
  /\ Overlap \/ ~Owes(w)
  /\ listens' = listens + 1
  /\ server' = [server EXCEPT ![w] = "asked"]
  /\ Tells(w, <<Plain("queryServer")>>)
  /\ UNCHANGED <<master, phase, servedBy>>

\* server.close: close() of the faux handle.
CloseServer(w) ==
  /\ Up(w) /\ server[w] = "open"
  /\ server' = [server EXCEPT ![w] = "closed"]
  /\ Tells(w, <<Plain("close")>>)
  /\ UNCHANGED <<master, phase, listens, servedBy>>

\* A message of the master reaches a worker.
FromMaster(w, acts) ==
  /\ Up(w) /\ master.out[w] # <<>> /\ Head(master.out[w]).act \in acts
  /\ master' = [master EXCEPT !.out[w] = Tail(@)]

\* The reply to queryServer: rr().
OnListening(w) ==
  /\ FromMaster(w, {"listening", "errno"})
  /\ server' = [server EXCEPT ![w] = IF Head(master.out[w]).act = "errno" THEN "closed" ELSE "open"]
  /\ UNCHANGED <<inbox, phase, listens, servedBy>>

Accepts(w) == server[w] = "open"

OnConnection(w) ==
  LET c == Head(master.out[w]).conn gen == Head(master.out[w]).gen
  IN /\ FromMaster(w, {"newconn"})
     /\ \/ /\ Accepts(w)
           /\ servedBy' = [servedBy EXCEPT ![c] = @ \cup {w}]
           /\ Tells(w, <<Message("accepted", c, gen)>>)
        \/ /\ ~Accepts(w)
           /\ Tells(w, <<Message("refused", c, gen)>>)
           /\ UNCHANGED servedBy
     /\ UNCHANGED <<phase, server, listens>>

\* What worker.disconnect() sends for the server it closes.
Closes(w) == IF server[w] = "open" THEN <<Plain("close")>> ELSE <<>>

Leaves(w, how) ==
  /\ phase' = [phase EXCEPT ![w] = how]
  /\ server' = [server EXCEPT ![w] = "closed"]
  /\ UNCHANGED <<listens, servedBy>>

\* worker.disconnect() in the worker, asked for by the master or not.
OnDisconnectMessage(w) ==
  /\ FromMaster(w, {"disconnect"})
  /\ Tells(w, Closes(w))
  /\ Leaves(w, "disconnected")

Disconnect(w) ==
  /\ Up(w)
  /\ Tells(w, Closes(w))
  /\ Leaves(w, "disconnected")
  /\ UNCHANGED master

\* The process ends, is killed, or calls worker.destroy(), whose message to the
\* master only sets a flag.
Exit(w) ==
  /\ Runs /\ phase[w] \in {"up", "disconnected"}
  /\ Leaves(w, "dead")
  /\ UNCHANGED <<master, inbox>>

-----------------------------------------------------------------------------

Init ==
  /\ master = NewMaster
  /\ inbox = [w \in Workers |-> <<>>]
  /\ phase = [w \in Workers |-> "new"]
  /\ server = [w \in Workers |-> "closed"]
  /\ listens = 0
  /\ servedBy = [c \in Conns |-> {}]

MasterStep(w) ==
  QueryServer(w) \/ Close(w) \/ Reply(w) \/ ChannelEnds(w) \/ OnExit(w)

Answers(w) == OnListening(w) \/ OnConnection(w) \/ OnDisconnectMessage(w)

Next ==
  \/ DisconnectAll
  \/ \E c \in Conns : Connect(c)
  \/ \E w \in Workers :
       \/ Fork(w) \/ MasterStep(w)
       \/ Listen(w) \/ CloseServer(w) \/ Answers(w)
       \/ Disconnect(w) \/ Exit(w)

Spec == Init /\ [][Next]_vars

\* The processes read their channels.
FairSpec == Spec /\ \A w \in Workers : WF_vars(MasterStep(w)) /\ WF_vars(Answers(w))

Messages ==
  [act : {"queryServer", "close", "accepted", "refused", "listening", "errno",
          "newconn", "disconnect"},
   conn : Conns \cup {NoConn}, gen : Nat]

TypeOK ==
  /\ master \in [workers : SUBSET Workers, linked : SUBSET Workers, told : SUBSET Workers,
                 on : BOOLEAN, gen : Nat, all : SUBSET Workers, free : Seq(Workers),
                 handles : Seq(Conns), out : [Workers -> Seq(Messages)],
                 dropped : SUBSET Conns, orphans : SUBSET Conns,
                 asked : BOOLEAN, answered : BOOLEAN, late : SUBSET Workers,
                 down : BOOLEAN, thrown : BOOLEAN]
  /\ inbox \in [Workers -> Seq(Messages)]
  /\ phase \in [Workers -> {"new", "up", "disconnected", "dead"}]
  /\ server \in [Workers -> {"closed", "asked", "open"}]
  /\ listens \in 0 .. MaxListens
  /\ servedBy \in [Conns -> SUBSET Workers]
  /\ master.on <=> master.all # {}

-----------------------------------------------------------------------------
(* Properties *)

\* The workers whose channel ended with a connection they had not acknowledged.
Stuck == {w \in Workers : phase[w] # "new"} \ (master.linked \cup master.told)

Count(messages, c, acts) ==
  Len(SelectSeq(messages, LAMBDA x : x.act \in acts /\ x.conn = c))

\* How often a connection is on its way: waiting in the master, sent to a worker
\* or refused by one.
Copies(c) ==
  Cardinality({i \in DOMAIN master.handles : master.handles[i] = c})
    + MapThenSumSet(LAMBDA w : Count(master.out[w], c, {"newconn"})
                                 + Count(inbox[w], c, {"refused"}), Workers)

\* A connection is served by one worker at most, and while it is neither served
\* nor closed it is in one place: handles go back and forth between processes
\* without being doubled, also when workers refuse them, leave or die.
OnePlace ==
  \A c \in Conns :
    Copies(c) + Cardinality(servedBy[c])
      + Cardinality({s \in {"dropped", "orphans"} : c \in master[s]}) <= 1

\* A worker the master knows as listening is either ready or has one connection
\* to reply to (or it has gone, and the connection could not be sent), and no
\* connection waits while a worker is ready.  The asserts of the master hold, unless
\* a worker has died with a connection unread.
NoneIdle ==
  /\ \A w \in master.all :
       LET turns == Cardinality({i \in DOMAIN master.free : master.free[i] = w})
                      + Len(SelectSeq(master.out[w] \o inbox[w],
                          LAMBDA x : /\ x.act \in {"newconn", "accepted", "refused"}
                                     /\ x.gen = master.gen))
       IN turns <= 1 /\ (Up(w) => turns = 1)
  /\ ToSet(master.free) \subseteq master.all
  /\ master.handles # <<>> => master.free = <<>>
  /\ master.down => Stuck # {}

\* Connections are handed over one by one, to workers that are ready.
Dispatching == OnePlace /\ NoneIdle

\* A connection that waits is handed to a worker or closed, unless only workers are
\* left that died with a connection unread; and cluster.disconnect() calls back when
\* its workers have gone, unless one of them dies like that or another was forked
\* after the call.
Dispatched ==
  /\ \A c \in Conns :
       (c \in ToSet(master.handles)) ~>
         (c \notin ToSet(master.handles) \/ master.all \subseteq Stuck \/ ~Runs)
  /\ master.asked ~>
       (master.answered \/ Stuck # {} \/ ~Runs \/ master.late \cap master.workers # {})

\* What the assert at line 355 says of the handles when the last worker has
\* disconnected: 'Resource leak detected.'
NoLeak == ~master.down
=============================================================================
