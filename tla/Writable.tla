------------------------------ MODULE Writable ------------------------------
(***************************************************************************)
(* The writable side of a stream: node/_stream_writable.js.                *)
(*                                                                         *)
(* JavaScript is single threaded, but the stream calls back into user code *)
(* (write callbacks, 'drain', 'error', 'prefinish' and 'finish' handlers,  *)
(* the body of _write) in the middle of its own functions, and user code   *)
(* calls the stream again from there.  The call stack is therefore part of *)
(* the state: `todo` lists what is still to run in this turn, top of stack *)
(* first, one item per continuation point of the source; `ticks` is the    *)
(* queue of process.nextTick, which runs when the stack is empty.          *)
(***************************************************************************)
EXTENDS Integers, Sequences, FiniteSets

CONSTANTS
  HighWaterMarks,  \* values of options.highWaterMark
  Writevs,         \* does the stream have a _writev method?
  Uses,            \* lengths of chunks (zero is legal), and may the implementation fail?
  LateWrites,      \* may 'prefinish' and 'finish' handlers write before end() has returned?
  MaxCalls         \* bound on the user's calls of the stream

ASSUME WritableAssumption ==
  /\ HighWaterMarks \subseteq Nat
  /\ Writevs \subseteq BOOLEAN
  /\ Uses \subseteq [sizes : SUBSET Nat, fails : BOOLEAN]
  /\ LateWrites \in BOOLEAN
  /\ MaxCalls \in Nat

VARIABLES
  highWaterMark, writev, use,                     \* configuration
  length, needDrain, pendingcb,                   \* WritableState counters
  writing, writecb, writelen, sync,               \* the write in progress
  buffer, cursor, bufferProcessing, corked,       \* buffered writes
  ending, ended, finished, prefinished, errorEmitted,
  todo, ticks, calls,                             \* call stack, tick queue, calls made
  size, sunk, acked, finishes, failed             \* history

\* A write is named by its number: size[n] is the length of the n-th accepted
\* chunk.  writecb is the sequence of writes whose callbacks the write in
\* progress will run: none, one, or the batch given to _writev.  cursor is the
\* local c of clearBuffer: the entries of buffer already handed over.

config  == <<highWaterMark, writev, use>>
current == <<writing, writecb, writelen, sync>>
queue   == <<buffer, cursor, bufferProcessing>>
flags   == <<ending, ended, finished, prefinished, errorEmitted>>
vars    == <<config, length, needDrain, pendingcb, current, queue, corked,
             flags, todo, ticks, calls, size, sunk, acked, finishes, failed>>

-----------------------------------------------------------------------------
(* The call stack. *)

Handlers == {"user", "onprefinish", "onfinish"}

Kinds == Handlers \cup
  {"body", "unsync", "clear", "loop", "emptied", "defer", "after", "ack", "acks",
   "emitError", "rejected", "finishMaybe", "finish", "endUncork", "endWritable",
   "endTail"}

\* ids: the callbacks an item will run; fin: the local `finished` of onwrite.
Items == [k : Kinds, ids : Seq(Nat), fin : BOOLEAN]

Item(k) == [k |-> k, ids |-> <<>>, fin |-> FALSE]
ItemOf(k, ids) == [k |-> k, ids |-> ids, fin |-> FALSE]

Running(k) == todo # <<>> /\ Head(todo).k = k

\* User code runs: a fresh turn, a handler, or the body of _write.  (Transform
\* is the implementation whose body runs user code and has no _writev; those
\* with a _writev, like net.Socket, do not run user code in it.)
UserRuns ==
  \/ todo = <<>> /\ ticks = <<>>
  \/ \E h \in Handlers : Running(h)
  \/ Running("body") /\ ~writev

\* The caller that a call made now returns to.
Caller == IF todo = <<>> THEN <<Item("user")>> ELSE todo

\* A call by the user, within the bound.
Call == UserRuns /\ calls < MaxCalls /\ calls' = calls + 1

accepted == Len(size)

-----------------------------------------------------------------------------
(* Starting a write. *)

\* doWrite up to the call of the implementation.
DoWrite(ids, len) ==
  /\ writelen' = len
  /\ writecb' = ids
  /\ writing' = TRUE
  /\ sync' = TRUE
  /\ sunk' = sunk \o ids

\* (mutant: write() ignores cork)
MustBufferUncorked == writing

\* Something is ahead of a new chunk, or the user has corked the stream.
MustBuffer == writing \/ corked > 0

MayWrite ==
  /\ ~ended
  /\ (\E i \in DOMAIN todo : todo[i].k \in {"onprefinish", "onfinish"}) => LateWrites

\* write() of a chunk of length n that is accepted; `then` runs afterwards.
Accept(n, then) ==
  /\ MayWrite
  /\ pendingcb' = pendingcb + 1
  /\ size' = Append(size, n)
  /\ length' = length + n
  /\ needDrain' = (needDrain \/ length + n >= highWaterMark)
  /\ \/ /\ MustBuffer
        /\ buffer' = Append(buffer, accepted + 1)
        /\ todo' = then \o Caller
        /\ UNCHANGED <<current, sunk>>
     \/ /\ ~MustBuffer
        /\ DoWrite(<<accepted + 1>>, n)
        /\ todo' = <<Item("body")>> \o then \o Caller
        /\ UNCHANGED buffer
  /\ UNCHANGED <<config, cursor, bufferProcessing, corked, flags, ticks, acked,
                 finishes, failed>>

\* write() after end(), or of an invalid chunk: 'error' now, the callback later.
Reject(then) ==
  /\ todo' = <<Item("user"), Item("rejected")>> \o then \o Caller
  /\ UNCHANGED <<config, length, needDrain, pendingcb, current, queue, corked,
                 flags, ticks, size, sunk, acked, finishes, failed>>

Write == Call /\ \/ \E n \in use.sizes : Accept(n, <<>>)
                 \/ Reject(<<>>)

Rejected ==
  /\ Running("rejected")
  /\ ticks' = Append(ticks, Item("user"))
  /\ todo' = Tail(todo)
  /\ UNCHANGED <<config, length, needDrain, pendingcb, current, queue, corked,
                 flags, calls, size, sunk, acked, finishes, failed>>

Cork ==
  /\ Call
  /\ corked' = corked + 1
  /\ todo' = Caller
  /\ UNCHANGED <<config, length, needDrain, pendingcb, current, queue, flags,
                 ticks, size, sunk, acked, finishes, failed>>

\* (mutant: no test of state.corked)
LessCorkUnguarded(n) == n - 1

LessCork(n) == IF n = 0 THEN 0 ELSE n - 1

\* uncork() when corked is n; the stack below it is `rest`.
UncorkFrom(n, rest) ==
  /\ corked' = LessCork(n)
  /\ todo' = IF n = 1 /\ ~writing /\ ~finished /\ ~bufferProcessing /\ buffer # <<>>
             THEN <<Item("clear")>> \o rest
             ELSE rest
  /\ UNCHANGED <<config, length, needDrain, pendingcb, current, queue, flags,
                 ticks, size, sunk, acked, finishes, failed>>

Uncork == Call /\ UncorkFrom(corked, Caller)

-----------------------------------------------------------------------------
(* clearBuffer *)

\* Entries of the old buffer once the loop has stopped: slice(c).
Unwritten == SubSeq(buffer, cursor + 1, Len(buffer))

CountBatch == pendingcb + 1

ClearBuffer ==
  /\ Running("clear")
  /\ bufferProcessing' = TRUE
  /\ \/ /\ writev /\ Len(buffer) > 1
        /\ pendingcb' = CountBatch
        /\ DoWrite(buffer, length)
        /\ cursor' = Len(buffer)
        /\ todo' = <<Item("body"), Item("emptied")>> \o Tail(todo)
     \/ /\ ~(writev /\ Len(buffer) > 1)
        /\ todo' = <<Item("loop")>> \o Tail(todo)
        /\ UNCHANGED <<pendingcb, current, cursor, sunk>>
  /\ UNCHANGED <<config, length, needDrain, buffer, corked, flags, ticks, calls,
                 size, acked, finishes, failed>>

\* state.buffer = [] once _writev has returned.
Emptied ==
  /\ Running("emptied")
  /\ buffer' = <<>> /\ cursor' = 0 /\ bufferProcessing' = FALSE
  /\ todo' = Tail(todo)
  /\ UNCHANGED <<config, length, needDrain, pendingcb, current, corked, flags,
                 ticks, calls, size, sunk, acked, finishes, failed>>

\* The next buffered write, unless the last one is still in progress.
LoopWrite ==
  /\ Running("loop")
  /\ cursor < Len(buffer) /\ (cursor > 0 => ~writing)
  /\ DoWrite(<<buffer[cursor + 1]>>, size[buffer[cursor + 1]])
  /\ cursor' = cursor + 1
  /\ todo' = <<Item("body")>> \o todo
  /\ UNCHANGED <<config, length, needDrain, pendingcb, buffer, bufferProcessing,
                 corked, flags, ticks, calls, size, acked, finishes, failed>>

LoopExit ==
  /\ Running("loop")
  /\ cursor = Len(buffer) \/ (cursor > 0 /\ writing)
  /\ buffer' = Unwritten
  /\ cursor' = 0 /\ bufferProcessing' = FALSE
  /\ todo' = Tail(todo)
  /\ UNCHANGED <<config, length, needDrain, pendingcb, current, corked, flags,
                 ticks, calls, size, sunk, acked, finishes, failed>>

-----------------------------------------------------------------------------
(* Completing a write. *)

\* (mutant: the written chunk stays counted)
RemainingAll == length

Remaining == length - writelen

OnwriteStateUpdate ==
  /\ writing' = FALSE
  /\ writecb' = <<>>
  /\ length' = Remaining
  /\ writelen' = 0

\* (mutant: off by one)
ClearDueMany == corked = 0 /\ ~bufferProcessing /\ Len(buffer) > 1

\* Buffered writes are waiting that nobody is about to hand over.
ClearDue == corked = 0 /\ ~bufferProcessing /\ buffer # <<>>

\* onwrite() without an error; the stack below it is `rest`.
OnwriteDone(rest) ==
  LET done  == ending /\ length' = 0 /\ buffer = <<>> /\ ~finished
      clear == ~done /\ ClearDue
      settle == [k |-> IF sync THEN "defer" ELSE "after", ids |-> writecb, fin |-> done]
  IN /\ OnwriteStateUpdate
     /\ todo' = (IF clear THEN <<Item("clear")>> ELSE <<>>) \o <<settle>> \o rest
     /\ UNCHANGED <<ticks, failed, errorEmitted>>

\* onwrite(er): the callback gets the error, now or in a tick, then 'error'.
OnwriteError(rest) ==
  /\ use.fails
  /\ failed' = TRUE
  /\ OnwriteStateUpdate
  /\ \/ /\ sync
        /\ ticks' = Append(ticks, ItemOf("ack", writecb))
        /\ errorEmitted' = TRUE
        /\ todo' = <<Item("user")>> \o rest
     \/ /\ ~sync
        /\ todo' = <<ItemOf("ack", writecb), Item("emitError")>> \o rest
        /\ UNCHANGED <<ticks, errorEmitted>>

Onwrite(rest) ==
  /\ OnwriteDone(rest) \/ OnwriteError(rest)
  /\ UNCHANGED <<config, needDrain, pendingcb, queue, corked, sync, ending, ended,
                 finished, prefinished, calls, size, sunk, acked, finishes>>

EmitError ==
  /\ Running("emitError")
  /\ errorEmitted' = TRUE
  /\ todo' = <<Item("user")>> \o Tail(todo)
  /\ UNCHANGED <<config, length, needDrain, pendingcb, current, queue, corked,
                 ending, ended, finished, prefinished, ticks, calls, size, sunk,
                 acked, finishes, failed>>

\* The implementation calls back before _write returns, and does nothing else in it: no
\* user code runs in the rest of the body ...
CompleteInBody ==
  /\ Running("body") /\ writing
  /\ Onwrite(<<Item("unsync")>> \o Tail(todo))

\* ... or later, from the event loop or from some user code.
CompleteLater ==
  /\ UserRuns /\ writing /\ ~sync
  /\ Onwrite(Caller)

\* _write returns: state.sync = false.
BodyReturns ==
  /\ Running("body") \/ Running("unsync")
  /\ sync' = FALSE
  /\ todo' = Tail(todo)
  /\ UNCHANGED <<config, length, needDrain, pendingcb, writing, writecb, writelen,
                 queue, corked, flags, ticks, calls, size, sunk, acked, finishes,
                 failed>>

\* process.nextTick(afterWrite)
Defer ==
  /\ Running("defer")
  /\ ticks' = Append(ticks, [Head(todo) EXCEPT !.k = "after"])
  /\ todo' = Tail(todo)
  /\ UNCHANGED <<config, length, needDrain, pendingcb, current, queue, corked,
                 flags, calls, size, sunk, acked, finishes, failed>>

DrainDue(fin) == ~fin /\ length = 0 /\ needDrain

\* afterWrite: 'drain' if it is due, the callbacks, then finishMaybe.
AfterWrite ==
  LET rest == <<ItemOf("ack", Head(todo).ids), Item("finishMaybe")>> \o Tail(todo)
      drain == DrainDue(Head(todo).fin)
  IN /\ Running("after")
     /\ needDrain' = (needDrain /\ ~drain)
     /\ todo' = IF drain THEN <<Item("user")>> \o rest ELSE rest
     /\ UNCHANGED <<config, length, pendingcb, current, queue, corked, flags,
                    ticks, calls, size, sunk, acked, finishes, failed>>

\* state.pendingcb--; cb().  The callback of a batch has a loop of its own.
Ack ==
  /\ Running("ack")
  /\ pendingcb' = pendingcb - 1
  /\ \/ /\ Len(Head(todo).ids) = 1
        /\ acked' = acked \o Head(todo).ids
        /\ todo' = <<Item("user")>> \o Tail(todo)
     \/ /\ Len(Head(todo).ids) # 1
        /\ todo' = <<ItemOf("acks", Head(todo).ids)>> \o Tail(todo)
        /\ UNCHANGED acked
  /\ UNCHANGED <<config, length, needDrain, current, queue, corked, flags, ticks,
                 calls, size, sunk, finishes, failed>>

AckBatch ==
  /\ Running("acks")
  /\ \/ /\ Head(todo).ids = <<>>
        /\ todo' = Tail(todo)
        /\ UNCHANGED <<pendingcb, acked>>
     \/ /\ Head(todo).ids # <<>>
        /\ pendingcb' = pendingcb - 1
        /\ acked' = Append(acked, Head(Head(todo).ids))
        /\ todo' = <<Item("user"), ItemOf("acks", Tail(Head(todo).ids))>> \o Tail(todo)
  /\ UNCHANGED <<config, length, needDrain, current, queue, corked, flags, ticks,
                 calls, size, sunk, finishes, failed>>

-----------------------------------------------------------------------------
(* Ending the stream. *)

NeedFinish == ending /\ length = 0 /\ buffer = <<>> /\ ~finished /\ ~writing

\* (mutant: does not wait for the callbacks)
FinishDueEarly == NeedFinish

\* Every callback of a write has run.
FinishDue == NeedFinish /\ pendingcb = 0

FinishMaybe ==
  /\ Running("finishMaybe")
  /\ prefinished' = (prefinished \/ NeedFinish)
  /\ todo' = (IF NeedFinish /\ ~prefinished THEN <<Item("onprefinish")>> ELSE <<>>)
             \o (IF FinishDue THEN <<Item("finish")>> ELSE <<>>)
             \o Tail(todo)
  /\ UNCHANGED <<config, length, needDrain, pendingcb, current, queue, corked,
                 ending, ended, finished, errorEmitted, ticks, calls, size, sunk,
                 acked, finishes, failed>>

\* state.finished = true; 'finish' is emitted.
Finish ==
  /\ Running("finish")
  /\ finished' = TRUE
  /\ finishes' = finishes + 1
  /\ todo' = <<Item("onfinish")>> \o Tail(todo)
  /\ UNCHANGED <<config, length, needDrain, pendingcb, current, queue, corked,
                 ending, ended, prefinished, errorEmitted, ticks, calls, size,
                 sunk, acked, failed>>

\* end(): the last chunk if there is one, uncork fully, then endWritable.
End ==
  LET then == <<Item("endUncork"), Item("endWritable")>>
  IN Call /\ \/ \E n \in use.sizes : Accept(n, then)
             \/ Reject(then)
             \/ /\ todo' = then \o Caller
                /\ UNCHANGED <<config, length, needDrain, pendingcb, current, queue,
                               corked, flags, ticks, size, sunk, acked, finishes,
                               failed>>

EndUncork ==
  /\ Running("endUncork")
  /\ UncorkFrom(IF corked > 0 THEN 1 ELSE 0, Tail(todo))
  /\ UNCHANGED calls

EndWritable ==
  /\ Running("endWritable")
  /\ \/ /\ ending \/ finished
        /\ todo' = Tail(todo)
        /\ UNCHANGED ending
     \/ /\ ~ending /\ ~finished
        /\ ending' = TRUE
        /\ todo' = <<Item("finishMaybe"), Item("endTail")>> \o Tail(todo)
  /\ UNCHANGED <<config, length, needDrain, pendingcb, current, queue, corked,
                 ended, finished, prefinished, errorEmitted, ticks, calls, size,
                 sunk, acked, finishes, failed>>

\* The callback of end() is deferred if 'finish' has been emitted already.
EndTail ==
  /\ Running("endTail")
  /\ ended' = TRUE
  /\ ticks' = IF finished THEN Append(ticks, Item("user")) ELSE ticks
  /\ todo' = Tail(todo)
  /\ UNCHANGED <<config, length, needDrain, pendingcb, current, queue, corked,
                 ending, finished, prefinished, errorEmitted, calls, size, sunk,
                 acked, finishes, failed>>

-----------------------------------------------------------------------------
(* The turn. *)

\* User code returns to the stream or to the event loop.
Return ==
  /\ \E h \in Handlers : Running(h)
  /\ todo' = Tail(todo)
  /\ UNCHANGED <<config, length, needDrain, pendingcb, current, queue, corked,
                 flags, ticks, calls, size, sunk, acked, finishes, failed>>

RunTick ==
  /\ todo = <<>> /\ ticks # <<>>
  /\ todo' = <<Head(ticks)>>
  /\ ticks' = Tail(ticks)
  /\ UNCHANGED <<config, length, needDrain, pendingcb, current, queue, corked,
                 flags, calls, size, sunk, acked, finishes, failed>>

Init ==
  /\ highWaterMark \in HighWaterMarks /\ writev \in Writevs /\ use \in Uses
  /\ length = 0 /\ needDrain = FALSE /\ pendingcb = 0
  /\ writing = FALSE /\ writecb = <<>> /\ writelen = 0 /\ sync = TRUE
  /\ buffer = <<>> /\ cursor = 0 /\ bufferProcessing = FALSE /\ corked = 0
  /\ ending = FALSE /\ ended = FALSE /\ finished = FALSE
  /\ prefinished = FALSE /\ errorEmitted = FALSE
  /\ todo = <<>> /\ ticks = <<>> /\ calls = 0
  /\ size = <<>> /\ sunk = <<>> /\ acked = <<>> /\ finishes = 0 /\ failed = FALSE

UserCall == Write \/ Cork \/ Uncork \/ End

\* What the program does by itself once it has control.
Step ==
  \/ Rejected \/ ClearBuffer \/ Emptied \/ LoopWrite \/ LoopExit
  \/ EmitError \/ CompleteInBody \/ BodyReturns \/ Defer \/ AfterWrite
  \/ Ack \/ AckBatch \/ FinishMaybe \/ Finish \/ EndUncork \/ EndWritable
  \/ EndTail \/ Return \/ RunTick

Next == UserCall \/ CompleteLater \/ Step

Spec == Init /\ [][Next]_vars

\* Functions run to their end, ticks run, and the implementation calls back.
FairSpec == Spec /\ WF_vars(Step) /\ WF_vars(CompleteLater)

TypeOK ==
  /\ highWaterMark \in Nat /\ writev \in BOOLEAN /\ use \in Uses
  /\ length \in Int /\ needDrain \in BOOLEAN /\ pendingcb \in Int
  /\ writing \in BOOLEAN /\ writecb \in Seq(Nat) /\ writelen \in Nat /\ sync \in BOOLEAN
  /\ buffer \in Seq(Nat) /\ cursor \in Nat /\ bufferProcessing \in BOOLEAN
  /\ corked \in Nat
  /\ ending \in BOOLEAN /\ ended \in BOOLEAN /\ finished \in BOOLEAN
  /\ prefinished \in BOOLEAN /\ errorEmitted \in BOOLEAN
  /\ todo \in Seq(Items) /\ ticks \in Seq(Items) /\ calls \in 0 .. MaxCalls
  /\ size \in Seq(Nat) /\ sunk \in Seq(Nat) /\ acked \in Seq(Nat)
  /\ finishes \in Nat /\ failed \in BOOLEAN

(***************************************************************************)
(* Properties                                                              *)
(***************************************************************************)

\* The sum of the lengths of the writes ids.
Total(sizes, ids) ==
  LET sum[i \in 0 .. Len(ids)] == IF i = 0 THEN 0 ELSE sum[i - 1] + sizes[ids[i]]
  IN  sum[Len(ids)]

\* The sum kept in state.length is what is in progress and what is buffered
\* and not handed over: a wrong sum would hold back 'drain' and 'finish' or
\* emit them early.  (A chunk dropped after a failure stays counted.)
LengthAccounting ==
  ~(failed /\ writev) => length = Total(size, writecb) + Total(size, Unwritten)

\* Writes whose callbacks an item of the stack or of the tick queue is to run.
Batches(items) == {i \in DOMAIN items : items[i].k \in {"defer", "after", "ack"}
                                        /\ Len(items[i].ids) > 1}

\* The count of outstanding callbacks (line 115: "this must be 0 before 'finish'
\* can be emitted") is exact at every point of every interleaving: the accepted
\* writes not called back yet, and one for each batch under way; and no callback
\* runs twice.
CallbackLedger ==
  /\ pendingcb = accepted - Len(acked) + Cardinality(Batches(todo))
                 + Cardinality(Batches(ticks)) + (IF Len(writecb) > 1 THEN 1 ELSE 0)
  /\ \A i, j \in DOMAIN acked : i # j => acked[i] # acked[j]

\* Both counters of the stream agree with the writes they count, at every point
\* where user code or a completion can come in.
Accounting == LengthAccounting /\ CallbackLedger

\* An idle, uncorked stream on which nothing failed holds nothing back: no
\* chunk stays in the buffer, no callback and no 'drain' is owed, and if end()
\* was called 'finish' has been emitted.  Nothing would wake it up later.
Quiescent ==
  todo = <<>> /\ ticks = <<>> /\ ~writing /\ corked = 0 /\ ~failed =>
    /\ buffer = <<>> /\ length = 0 /\ pendingcb = 0
    /\ needDrain => ending
    /\ ending => finished /\ ended

\* 'finish' is emitted once, after every accepted write was handed over and
\* called back, with no callback outstanding.
FinishSettled ==
  [][finishes' # finishes =>
       /\ finishes = 0 /\ ending
       /\ pendingcb = 0 /\ ~writing /\ buffer = <<>>
       /\ Len(sunk) = accepted /\ Len(acked) = accepted]_vars

\* What the comment at line 115 says of pendingcb: "this must be 0 before
\* 'finish' can be emitted".
NoCallbackPendingAtFinish == [][finishes' # finishes => pendingcb = 0]_vars

\* If the user leaves the stream uncorked and nothing fails, every accepted
\* write is called back, a false return of write() is followed by 'drain'
\* unless the stream is being ended, and end() is followed by 'finish'.
Progress ==
  <>[](corked = 0 /\ ~failed) =>
    /\ []<>(Len(acked) = accepted)
    /\ needDrain ~> (~needDrain \/ ending)
    /\ ending ~> finished

\* The stream is an ordered sink: writes reach the implementation at most once
\* and, until one fails, in the order of the calls of write().
Sink == INSTANCE OrderedSink WITH accepted <- Len(size), sunk <- sunk, failed <- failed

OrderedDelivery == Sink!Spec

\* 'finish' comes when it is due, never before, and so do callbacks and 'drain'.
Settled == FinishSettled /\ Progress
=============================================================================
