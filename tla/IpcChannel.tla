----------------------------- MODULE IpcChannel -----------------------------
(***************************************************************************)
(* The channel between a process and its child: setupChannel of            *)
(* node/child_process.js, one copy at each end of a pipe.                  *)
(*                                                                         *)
(* A message that carries a handle must be acknowledged before anything    *)
(* else is sent, so both ends keep a queue; disconnect() waits for it.     *)
(* The pipe is read in chunks that hold several messages or pieces of one, *)
(* and user code runs between the messages of a chunk.  What an end has    *)
(* written waits in the handle until the pipe takes it: an end that closes *)
(* its pipe, or dies, may lose the last of its frames.                     *)
(***************************************************************************)
EXTENDS Naturals, Sequences, SequencesExt

CONSTANTS
  Ends,      \* the two ends
  MaxSends,  \* bound on the messages sent
  Splits,    \* may a chunk end in the middle of a message?
  Coalesce,  \* may a chunk hold messages ahead of one with a handle?
  Crashes    \* may a process die?

ASSUME IpcChannelAssumption ==
  /\ \E a, b \in Ends : a # b /\ Ends = {a, b}
  /\ MaxSends \in Nat
  /\ {Splits, Coalesce, Crashes} \subseteq BOOLEAN

VARIABLES
  end,   \* the state of each end
  wire,  \* frames written by each end and not read yet
  sent,  \* history: for each message accepted, does it carry a handle?
  got    \* history: the messages delivered at each end, by their numbers

vars == <<end, wire, sent, got>>

Other(e) == CHOOSE o \in Ends : o # e

\* connected, channel: target.connected, and is target._channel not null?
\* acking, queue: is _handleQueue an array, and what it holds; reading, chunk: does
\* onread run, and the messages of its chunk it has not come to; handler: does it
\* run a handler of the user; partial: does the chunk end within a message;
\* buffering: what onread noted of the chunk before; waits, tick: _disconnect()
\* waits for a message, or for the next tick; told: has 'disconnect' been emitted?  pipe: is the pipe open?  History: did the user of
\* this end call disconnect() (left), did it wait for a message that had come
\* already (stale), and were frames dropped when the pipe closed (lost)?
NewEnd ==
  [connected |-> TRUE, channel |-> TRUE, acking |-> FALSE, queue |-> <<>>,
   reading |-> FALSE, chunk |-> <<>>, handler |-> FALSE, partial |-> FALSE, buffering |-> FALSE,
   waits |-> FALSE, tick |-> FALSE, told |-> FALSE, pipe |-> TRUE, dead |-> FALSE,
   left |-> FALSE, stale |-> FALSE, lost |-> FALSE]

Frames == [k : {"message", "handle", "ack"}, n : Nat]

Frame(e, n) == [k |-> IF sent[e][n] THEN "handle" ELSE "message", n |-> n]
Ack == [k |-> "ack", n |-> 0]

Alive(e) == ~end[e].dead
Gone(e) == ~end[e].pipe

\* User code runs in a turn of its own or in the handler of a message.
UserRuns(e) == Alive(e) /\ (end[e].reading => end[e].handler)

Is(e, state) == end' = [end EXCEPT ![e] = state]

-----------------------------------------------------------------------------
(* Sending. *)

\* (mutant: only messages with handles wait in line)
MustQueueHandles(p, handle) == p.acking /\ handle

\* What is sent while a handle is unacknowledged is queued, "to avoid
\* out-of-order messages".
MustQueue(p, handle) == p.acking

\* A write to a pipe that nobody reads may fail at once.
Writes(e) == IF Gone(Other(e)) THEN BOOLEAN ELSE {TRUE}

\* target.send, on a connected target.
Send(e) ==
  LET p == end[e] n == Len(sent[e]) + 1
  IN /\ UserRuns(e) /\ p.connected /\ n + Len(sent[Other(e)]) <= MaxSends
     /\ \E handle \in BOOLEAN :
          /\ sent' = [sent EXCEPT ![e] = Append(@, handle)]
          /\ \/ /\ MustQueue(p, handle)
                /\ Is(e, [p EXCEPT !.queue = Append(@, n)])
                /\ UNCHANGED wire
             \/ /\ ~MustQueue(p, handle)
                /\ \E ok \in Writes(e) :
                     /\ Is(e, [p EXCEPT !.acking = @ \/ (handle /\ ok)])
                     /\ wire' = IF ok THEN [wire EXCEPT ![e] =
                          Append(@, [k |-> IF handle THEN "handle" ELSE "message", n |-> n])]
                        ELSE wire
     /\ UNCHANGED got

-----------------------------------------------------------------------------
(* Disconnecting. *)

\* target._disconnect: "If a message is being read, then wait for it to complete."
\* While onread runs, what it noted of the chunk before has come already.
Cut(p) == [p EXCEPT !.channel = FALSE, !.waits = p.buffering, !.tick = ~p.buffering,
                    !.stale = p.buffering /\ p.reading]

\* (mutant: disconnect() leaves `connected` as it is)
HungUpStill(p) == IF p.acking THEN p ELSE Cut(p)

\* target.disconnect, on a connected target.
HungUp(p) ==
  LET q == [p EXCEPT !.connected = FALSE]
  IN IF p.acking THEN q ELSE Cut(q)

\* How much of what an end wrote is out of its handle when the pipe closes.
Out(e) == IF Gone(e) THEN {Len(wire[e])} ELSE 0 .. Len(wire[e])

\* finish: close the pipe, emit 'disconnect'.
Finished(p) == [p EXCEPT !.waits = FALSE, !.tick = FALSE, !.pipe = FALSE, !.told = TRUE]

Finish(e, p) ==
  \E k \in Out(e) :
    /\ Is(e, [Finished(p) EXCEPT !.lost = @ \/ k < Len(wire[e])])
    /\ wire' = [wire EXCEPT ![e] = SubSeq(@, 1, k)]

Disconnect(e) ==
  /\ UserRuns(e) /\ end[e].connected
  /\ Is(e, [HungUp(end[e]) EXCEPT !.left = TRUE])
  /\ UNCHANGED <<wire, sent, got>>

RunTick(e) ==
  /\ Alive(e) /\ end[e].tick /\ ~end[e].reading
  /\ Finish(e, end[e])
  /\ UNCHANGED <<sent, got>>

-----------------------------------------------------------------------------
(* Reading. *)

MayRead(e) == Alive(e) /\ end[e].pipe /\ ~end[e].reading /\ ~end[e].tick

\* A chunk ends with a message that carries a handle, which is taken to come whole
\* (the code relies on one such message per chunk).
Chunk(frames, partial) ==
  LET k == Len(frames)
  IN \A i \in 1 .. k : frames[i].k = "handle" => i = k /\ ~partial /\ (Coalesce \/ k = 1)

\* The pipe gives the next chunk to channel.onread.  It may end with a piece of the
\* next frame, also of one whose rest was lost.
Read(e) ==
  LET w == wire[Other(e)]
  IN /\ MayRead(e)
     /\ \E k \in 0 .. Len(w), partial \in IF Splits THEN BOOLEAN ELSE {FALSE} :
          /\ Chunk(SubSeq(w, 1, k), partial)
          /\ k = 0 => partial /\ ~end[e].buffering
          /\ partial => IF k < Len(w) THEN w[k + 1].k # "handle" ELSE end[Other(e)].lost
          /\ Is(e, [end[e] EXCEPT !.reading = TRUE, !.chunk = SubSeq(w, 1, k),
                                  !.partial = partial])
          /\ wire' = [wire EXCEPT ![Other(e)] = SubSeq(w, k + 1, Len(w))]
     /\ UNCHANGED <<sent, got>>

\* (mutant: the disconnect that waits for a message never goes on)
EmittedOnly(e, p) == Is(e, p) /\ UNCHANGED wire

\* A message is emitted; what _disconnect() left to wait for one goes on.
Emitted(e, p) == IF p.waits THEN Finish(e, p) ELSE Is(e, p) /\ UNCHANGED wire

\* The next message of the chunk.
Due(e, kind) ==
  Alive(e) /\ end[e].reading /\ end[e].chunk # <<>> /\ Head(end[e].chunk).k = kind

Popped(e) == [end[e] EXCEPT !.chunk = Tail(@), !.handler = Head(end[e].chunk).k # "ack"]

Delivers(e) == got' = [got EXCEPT ![e] = Append(@, Head(end[e].chunk).n)]

OnMessage(e) ==
  /\ Due(e, "message")
  /\ Emitted(e, Popped(e))
  /\ Delivers(e)
  /\ UNCHANGED sent

\* NODE_HANDLE is acknowledged at once, past the queue.
OnHandle(e) ==
  /\ Due(e, "handle")
  /\ end[e].connected \/ end[e].channel
  /\ Is(e, Popped(e))
  /\ wire' = [wire EXCEPT ![e] = Append(@, Ack)]
  /\ Delivers(e)
  /\ UNCHANGED sent

Dead == [NewEnd EXCEPT !.dead = TRUE, !.pipe = FALSE, !.connected = FALSE, !.channel = FALSE]

Dies(e) ==
  /\ \E k \in Out(e) :
       /\ Is(e, [Dead EXCEPT !.lost = end[e].lost \/ k < Len(wire[e])])
       /\ wire' = [wire EXCEPT ![Other(e)] = <<>>, ![e] = SubSeq(@, 1, k)]
  /\ UNCHANGED <<sent, got>>

\* The assert of _send fails: the process ends with the exception.
OnHandleAsserts(e) ==
  /\ Due(e, "handle")
  /\ ~end[e].connected /\ ~end[e].channel
  /\ Dies(e)

\* (mutant: the disconnect that waited for the queue is forgotten)
FlushedOnly(p, rest, acking) == [p EXCEPT !.acking = acking, !.queue = rest]

\* (mutant: the next handle of the queue need not be acknowledged)
FlushedFree(p, rest, acking) ==
  LET q == [p EXCEPT !.acking = FALSE, !.queue = rest]
  IN IF ~p.connected /\ p.channel /\ ~acking THEN Cut(q) ELSE q

\* What is left of the queue stays, and a disconnect that waited goes on.
Flushed(p, rest, acking) ==
  LET q == [p EXCEPT !.acking = acking, !.queue = rest]
  IN IF ~p.connected /\ p.channel /\ ~acking THEN Cut(q) ELSE q

\* The place in a queue of the first message with a handle, or 0.
NextHandle(e, q) == SelectInSeq(q, LAMBDA n : sent[e][n])

\* NODE_HANDLE_ACK: the queue is sent, up to the next handle.
OnAck(e) ==
  LET p == Popped(e)
      q == p.queue
      first == NextHandle(e, q)
      last == IF first = 0 THEN Len(q) ELSE first
      out == [i \in 1 .. last |-> Frame(e, q[i])]
  IN /\ Due(e, "ack")
     /\ \E ok \in Writes(e) :
          IF ok
          THEN /\ Is(e, Flushed(p, SubSeq(q, last + 1, Len(q)), first # 0))
               /\ wire' = [wire EXCEPT ![e] = @ \o out]
          ELSE /\ Is(e, Flushed(p, <<>>, FALSE))
               /\ UNCHANGED wire
     /\ UNCHANGED <<sent, got>>

\* The loop of onread ends.
ChunkDone(e) ==
  /\ Alive(e) /\ end[e].reading /\ end[e].chunk = <<>>
  /\ Is(e, [end[e] EXCEPT !.reading = FALSE, !.handler = FALSE,
                      !.partial = FALSE, !.buffering = end[e].partial])
  /\ UNCHANGED <<wire, sent, got>>

\* The pipe has ended.  (On a target that was disconnected already, 'error' is
\* emitted; nothing else changes.)
Eof(e) ==
  LET p == [end[e] EXCEPT !.buffering = FALSE]
  IN /\ MayRead(e) /\ wire[Other(e)] = <<>> /\ Gone(Other(e))
     /\ Is(e, [(IF p.connected THEN HungUp(p) ELSE p) EXCEPT !.pipe = FALSE])
     /\ UNCHANGED <<wire, sent, got>>

Crash(e) == Crashes /\ Alive(e) /\ Dies(e)

-----------------------------------------------------------------------------

Init ==
  /\ end = [e \in Ends |-> NewEnd]
  /\ wire = [e \in Ends |-> <<>>]
  /\ sent = [e \in Ends |-> <<>>]
  /\ got = [e \in Ends |-> <<>>]

\* What an end does by itself.
Step(e) ==
  \/ RunTick(e) \/ Read(e) \/ OnMessage(e) \/ OnHandle(e) \/ OnHandleAsserts(e)
  \/ OnAck(e) \/ ChunkDone(e) \/ Eof(e)

Next == \E e \in Ends : Send(e) \/ Disconnect(e) \/ Crash(e) \/ Step(e)

Spec == Init /\ [][Next]_vars

\* The event loop of each process runs: it reads its pipe and its ticks.
FairSpec == Spec /\ \A e \in Ends : WF_vars(Step(e))

\* The three states of a target (child_process.js:494): never disconnected,
\* disconnected with a queue to flush, and without a channel.  The pipe is open in
\* the first, and whenever the target may have something to write.
ThreeStates ==
  \A e \in Ends :
    /\ end[e].connected => end[e].channel /\ end[e].pipe
    /\ end[e].channel => ~end[e].waits /\ ~end[e].tick /\ ~end[e].told
    /\ end[e].acking => end[e].channel
    /\ end[e].channel /\ end[e].reading => end[e].pipe

EndStates ==
  [connected : BOOLEAN, channel : BOOLEAN, acking : BOOLEAN, queue : Seq(Nat),
   reading : BOOLEAN, chunk : Seq(Frames), handler : BOOLEAN, partial : BOOLEAN, buffering : BOOLEAN,
   waits : BOOLEAN, tick : BOOLEAN, told : BOOLEAN, pipe : BOOLEAN, dead : BOOLEAN,
   left : BOOLEAN, stale : BOOLEAN, lost : BOOLEAN]

TypeOK ==
  /\ end \in [Ends -> EndStates]
  /\ wire \in [Ends -> Seq(Frames)]
  /\ sent \in [Ends -> Seq(BOOLEAN)]
  /\ got \in [Ends -> Seq(Nat)]
  /\ ThreeStates

-----------------------------------------------------------------------------
(* Properties *)

\* What an end has written and the other has not handled.
InFlight(e) == end[Other(e)].chunk \o wire[e]

At(frames, kind) == {i \in DOMAIN frames : frames[i].k = kind}

\* The assertions of the channel: an acknowledgement comes to an end that waits
\* for one, at most one handle is on its way in each direction or has its
\* acknowledgement on the way back, and what is queued waits for it.
OneHandleAtATime ==
  \A e \in Ends :
    LET handles == At(InFlight(e), "handle")
        acks == At(InFlight(Other(e)), "ack")
    IN Alive(e) =>
         /\ ~end[e].acking => end[e].queue = <<>> /\ handles = {} /\ acks = {}
         /\ handles = {} \/ acks = {}
         /\ \A i, j \in handles : i = j
         /\ \A i, j \in acks : i = j

\* The two ends behave as two queues: the messages delivered are the first ones
\* sent, in order, whatever waits for acknowledgements meanwhile, and nothing is
\* accepted after disconnect().
Fifo == INSTANCE FifoChannel WITH
          sent <- [e \in Ends |-> Len(sent[e])],
          got <- got,
          connected <- [e \in Ends |-> end[e].connected]

IsFifo == Fifo!Spec

\* Whatever was accepted is delivered, also what was queued when disconnect() was
\* called, unless the receiver disconnects or dies, the sender dies, or frames were
\* still in the sender's handle when it closed.
Delivered ==
  \A e \in Ends :
    []<>(\/ Len(got[Other(e)]) = Len(sent[e])
         \/ end[Other(e)].left \/ ~Alive(Other(e))
         \/ ~Alive(e) \/ end[e].lost)

\* disconnect() waits for a message that was complete when it began to wait, and
\* no other one is being read.
StaleWait(e) ==
  LET p == end[e]
  IN p.waits /\ p.stale /\ IF p.reading THEN p.chunk = <<>> /\ ~p.partial ELSE ~p.buffering

\* disconnect() is followed by 'disconnect', also when a message has to be read to
\* its end first, unless the other end goes while a handle is unacknowledged, the
\* rest of the message is lost with it, or the wait is a stale one.
Told ==
  \A e \in Ends :
    ~end[e].connected ~> \/ end[e].told \/ ~Alive(e)
                         \/ StaleWait(e)
                         \/ end[e].waits /\ end[Other(e)].lost
                         \/ end[e].acking /\ Gone(Other(e))

\* What the two ends owe their users once something was sent or disconnected.
Settles == Delivered /\ Told
=============================================================================
