------------------------------ MODULE Readable ------------------------------
(***************************************************************************)
(* The readable side of a stream and its pipes: node/_stream_readable.js.  *)
(*                                                                         *)
(* The functions of the source are functions from a state of the stream to *)
(* a state of the stream, a record with the fields of _readableState.      *)
(* Three more fields say what runs later: `todo` is the call stack of this *)
(* turn, top first, one item per point where other code may run in         *)
(* between; `ticks` is the queue of process.nextTick, which runs when the  *)
(* stack is empty; `wanted` says that _read was called and that the        *)
(* implementation has yet to push; `waits` that the user who reads was told *)
(* to wait for 'readable'; `eager` is the kind of the implementation.      *)
(*                                                                         *)
(* Data are bytes numbered in the order in which the implementation pushes *)
(* them.  A destination is a writable stream seen from outside: write()    *)
(* returns false when it holds destMark bytes, and 'drain' follows when it *)
(* holds none.                                                             *)
(***************************************************************************)
EXTENDS Integers, Sequences, FiniteSets, SequencesExt

CONSTANTS
  Dests,           \* destinations of pipe()
  User,            \* the user, as a listener of 'data'
  HighWaterMark,   \* options.highWaterMark
  DestMark,        \* the high-water mark of the destinations
  Lengths,         \* lengths of the chunks the implementation pushes
  ReadSizes,       \* arguments of read()
  Eagers,          \* does the implementation push until push() returns false (or once per _read)?
  Barge,           \* may the user make data flow past a destination that is not ready?
  MaxChunks,       \* bound on the chunks
  MaxCalls         \* bound on the user's calls

ASSUME ReadableAssumption ==
  /\ IsFiniteSet(Dests) /\ User \notin Dests
  /\ HighWaterMark \in Nat /\ DestMark \in Nat
  /\ Lengths \subseteq Nat \ {0} /\ ReadSizes \subseteq Nat
  /\ Eagers \subseteq BOOLEAN /\ Barge \in BOOLEAN
  /\ MaxChunks \in Nat /\ MaxCalls \in Nat

VARIABLES
  state,     \* _readableState, call stack and ticks
  listeners, \* of 'data', in the order they were added
  readable,  \* does the user listen to 'readable'?
  chunks,    \* pushed so far
  held, destNeedDrain, destEnded, broken,   \* destinations
  calls,
  pushed, taken, got, paused, steady        \* history

dest == <<held, destNeedDrain, destEnded, broken>>
hist == <<pushed, taken, got, paused, steady>>
vars == <<state, listeners, readable, chunks, dest, calls, hist>>

\* taken: the bytes that have left the stream, through read() or 'data'; got:
\* those written to each destination; paused: the user's last word was pause();
\* steady: destinations piped to before any byte was taken, and ever since.

\* read() without an argument.
All == -1

-----------------------------------------------------------------------------
(* Call stack and ticks. *)

Item(k) == [k |-> k, orig |-> 0, n |-> 0, to |-> <<>>, chunk |-> <<>>]

\* read() after the call of _read; did says whether there was one.
ReadRest(did, orig, n) == [Item(IF did THEN "afterRead" ELSE "rest") EXCEPT !.orig = orig, !.n = n]

\* read(0), called by the stream itself.
ReadZero == Item("read0")

Run(m, items) == [m EXCEPT !.todo = items \o @]
Later(m, item) == [m EXCEPT !.ticks = Append(@, item)]
Running(k) == state.todo # <<>> /\ Head(state.todo).k = k
Popped == [state EXCEPT !.todo = Tail(@)]
\* A turn or a tick has ended; all ticks have run too.
Idle == state.todo = <<>>
AtRest == Idle /\ state.ticks = <<>>

\* 'data' is emitted to the listeners there are now.
EmitData(m, chunk) == Run(m, <<[Item("data") EXCEPT !.to = listeners, !.chunk = chunk]>>)

-----------------------------------------------------------------------------
(* Functions of the source. *)

EmitReadable(m) ==
  LET first == [m EXCEPT !.needReadable = FALSE, !.emittedReadable = TRUE]
  IN CASE m.emittedReadable -> first
       [] ~m.emittedReadable /\ m.sync -> Later(first, Item("readable"))
       [] OTHER -> Run(first, <<Item("readable")>>)

\* A chunk that finds a flowing stream empty is not buffered.
EmitsAtOnce(m) == m.flowing = "true" /\ m.length = 0 /\ ~m.sync

MaybeReadMore(m) ==
  IF m.readingMore THEN m ELSE Later([m EXCEPT !.readingMore = TRUE], Item("more"))

EndReadable(m) ==
  IF m.endEmitted THEN m ELSE Later([m EXCEPT !.ended = TRUE], Item("end"))

NeedMoreData(m) ==
  /\ ~m.ended
  /\ m.needReadable \/ m.length < m.highWaterMark \/ m.length = 0

\* Powers of two up to MAX_HWM.
RoundUpToNextPowerOf2(n) ==
  CHOOSE p \in {2 ^ k : k \in 0 .. 23} :
    /\ p >= n \/ p = 2 ^ 23
    /\ p > 1 => p \div 2 < n

HowMuchToRead(n, m) ==
  CASE m.length = 0 /\ m.ended -> 0
    [] n = All /\ (m.length # 0 \/ ~m.ended) ->
         IF m.flowing = "true" /\ m.buffer # <<>> THEN Len(m.buffer[1]) ELSE m.length
    [] OTHER -> IF n <= m.length THEN n ELSE IF m.ended THEN m.length ELSE 0

\* What howMuchToRead does to the state: a reader who asks for more than there
\* is waits for 'readable', and raises the mark.
Demand(n, m) ==
  IF n <= 0 \/ (m.length = 0 /\ m.ended) THEN m
  ELSE [m EXCEPT !.highWaterMark = IF n > @ THEN RoundUpToNextPowerOf2(n) ELSE @,
                 !.needReadable = @ \/ (n > m.length /\ ~m.ended)]

\* read() returns null: a loop of flow() stops, a user who asked for bytes waits.
ReturnsNull(orig, m) ==
  LET caller == IF m.todo = <<>> THEN Item("user") ELSE Head(m.todo)
  IN CASE caller.k = "flow" -> [m EXCEPT !.todo = Tail(@)]
       [] caller.k = "user" /\ orig # 0 -> [m EXCEPT !.waits = TRUE]
       [] OTHER -> m

\* fromList: the first n bytes, or all, and what the buffer keeps.
FromList(n, m) ==
  CASE n = 0 -> <<>>
    [] n > 0 /\ n < m.length -> SubSeq(FlattenSeq(m.buffer), 1, n)
    [] OTHER -> FlattenSeq(m.buffer)

\* The bytes of the first k chunks, and the first chunk that is not taken whole.
Before(buffer, k) == FlattenSeq(SubSeq(buffer, 1, k))
Cut(n, buffer) == Min({k \in 1 .. Len(buffer) : Len(Before(buffer, k)) > n})

Kept(n, m) ==
  IF n >= m.length THEN <<>>
  ELSE LET k     == Cut(n, m.buffer)
           chunk == m.buffer[k]
       IN <<SubSeq(chunk, n - Len(Before(m.buffer, k - 1)) + 1, Len(chunk))>>
            \o SubSeq(m.buffer, k + 1, Len(m.buffer))

\* read() once _read has returned or was not called; n is what it is to return.
TakeFrom(orig, n, m) ==
  LET bytes == FromList(n, m)
      count == IF bytes = <<>> THEN 0 ELSE n
      rest  == [m EXCEPT !.buffer = Kept(n, m), !.length = @ - count,
                         !.needReadable = @ \/ bytes = <<>> \/ (m.length = count /\ ~m.ended)]
      past  == orig # count /\ m.ended /\ rest.length = 0
      done  == IF past THEN EndReadable(rest) ELSE rest
  IN IF bytes = <<>> THEN ReturnsNull(orig, done) ELSE EmitData(done, bytes)

CallRead(n, m) ==
  /\ ~m.ended /\ ~m.reading
  /\ m.needReadable \/ m.length = 0 \/ m.length - n < m.highWaterMark

\* read() up to the call of _read, or to its end.
Read(orig, m) ==
  LET begun  == [m EXCEPT !.emittedReadable = @ /\ orig = 0]
      n      == HowMuchToRead(orig, begun)
      asked  == Demand(orig, begun)
      called == [asked EXCEPT !.reading = TRUE, !.sync = TRUE, !.wanted = TRUE,
                              !.needReadable = @ \/ asked.length = 0]
  IN CASE orig = 0 /\ m.needReadable /\ (m.length >= m.highWaterMark \/ m.ended) ->
            IF m.length = 0 /\ m.ended THEN EndReadable(begun) ELSE EmitReadable(begun)
       [] OTHER ->
            CASE n = 0 /\ m.ended ->
                   ReturnsNull(orig, IF m.length = 0 THEN EndReadable(asked) ELSE asked)
              [] ~(n = 0 /\ m.ended) /\ CallRead(n, asked) ->
                   Run(called, <<Item("body"), ReadRest(TRUE, orig, n)>>)
              [] OTHER -> Run(asked, <<ReadRest(FALSE, orig, n)>>)

Resume(m) ==
  IF m.flowing = "true" THEN m
  ELSE IF m.resumeScheduled THEN [m EXCEPT !.flowing = "true"]
  ELSE Later([m EXCEPT !.flowing = "true", !.resumeScheduled = TRUE], Item("resume"))

Pause(m) == [m EXCEPT !.flowing = "false"]

\* (mutant: awaitDrain is not looked at before it is counted down)
CountDrainAlways(m) == [m EXCEPT !.awaitDrain = @ - 1]

CountDrain(m) == [m EXCEPT !.awaitDrain = IF @ > 0 THEN @ - 1 ELSE 0]

\* pipeOnDrain's listener, when `left` listen to 'data'.
OnDrain(m, left) ==
  LET fewer == CountDrain(m)
  IN IF fewer.awaitDrain = 0 /\ left # <<>>
     THEN Run([fewer EXCEPT !.flowing = "true"], <<Item("flow")>>)
     ELSE fewer

\* unpipe(): the 'unpipe' event then makes each destination clean up.
UnpipeFrom(ds, m) ==
  Run([m EXCEPT !.pipes = IF Len(ds) = Len(@) THEN <<>> ELSE RemoveFirst(@, Head(ds)),
                !.flowing = IF Len(ds) = Len(m.pipes) THEN "false" ELSE @],
      <<[Item("cleanup") EXCEPT !.to = ds]>>)

-----------------------------------------------------------------------------
(* The implementation: pushes in _read or later. *)

\* The call of push() returns; an eager implementation (net.Socket) goes on
\* pushing if it returns true, and stops if not.
Pushed ==
  /\ Running("pushed")
  /\ state' = [Popped EXCEPT !.wanted = IF state.eager THEN NeedMoreData(state) ELSE @]
  /\ UNCHANGED <<listeners, readable, chunks, dest, calls, hist>>

\* Within _read, or in a turn of its own; the _read of an eager implementation
\* only starts its source (readStart), which answers later.
MayPush ==
  /\ state.wanted
  /\ \/ Idle
     \/ Running("body") /\ ~state.eager

\* push(chunk) of n bytes.
Push(n) ==
  /\ MayPush /\ chunks < MaxChunks
  /\ chunks' = chunks + 1
  /\ pushed' = pushed + n
  /\ LET chunk == [i \in 1 .. n |-> pushed + i]
         told  == [state EXCEPT !.reading = FALSE, !.wanted = state.eager]
         kept  == [told EXCEPT !.length = @ + n, !.buffer = Append(@, chunk)]
         then  == Run(kept, <<Item("pushed")>>)
     IN \/ /\ EmitsAtOnce(state)
           /\ state' = EmitData(Run(told, <<ReadZero, Item("pushMore"), Item("pushed")>>), chunk)
           /\ taken' = taken \o chunk
        \/ /\ ~EmitsAtOnce(state)
           /\ state' = IF kept.needReadable
                       THEN EmitReadable(Run(then, <<Item("pushMore")>>))
                       ELSE MaybeReadMore(then)
           /\ UNCHANGED taken
  /\ UNCHANGED <<listeners, readable, dest, calls, got, paused, steady>>

\* push(null)
PushEof ==
  /\ MayPush /\ chunks = MaxChunks
  /\ LET told == [state EXCEPT !.reading = FALSE, !.wanted = FALSE]
     IN state' = IF state.ended THEN told ELSE EmitReadable([told EXCEPT !.ended = TRUE])
  /\ UNCHANGED <<listeners, readable, chunks, dest, calls, hist>>

PushMore ==
  /\ Running("pushMore")
  /\ state' = MaybeReadMore(Popped)
  /\ UNCHANGED <<listeners, readable, chunks, dest, calls, hist>>

\* _read returns, having pushed or not.
BodyReturns ==
  /\ Running("body")
  /\ state' = [Popped EXCEPT !.sync = FALSE]
  /\ UNCHANGED <<listeners, readable, chunks, dest, calls, hist>>

-----------------------------------------------------------------------------
(* What the stream goes on with. *)

Same == UNCHANGED <<listeners, readable, chunks, dest, calls, hist>>

ReadZeroRuns ==
  /\ Running("read0")
  /\ state' = Read(0, Popped)
  /\ Same

\* The loop of flow().
Flow ==
  /\ Running("flow")
  /\ state' = IF state.flowing = "true" THEN Read(All, state) ELSE Popped
  /\ Same

\* read() after the call of _read: if _read has pushed at once, what there is to
\* return is worked out again.
ReadReturns ==
  /\ Running("afterRead") \/ Running("rest")
  /\ LET item  == Head(state.todo)
         again == item.k = "afterRead" /\ ~state.reading
         n     == IF again THEN HowMuchToRead(item.orig, Popped) ELSE item.n
         m     == IF again THEN Demand(item.orig, Popped) ELSE Popped
     IN /\ state' = TakeFrom(item.orig, n, m)
        /\ taken' = taken \o FromList(n, m)
  /\ UNCHANGED <<listeners, readable, chunks, dest, calls, pushed, got, paused, steady>>

\* emitReadable_
EmitReadableEvent ==
  /\ Running("readable")
  /\ state' = Run([Popped EXCEPT !.waits = @ /\ ~readable],
                  (IF readable THEN <<Item("user")>> ELSE <<>>) \o <<Item("flow")>>)
  /\ Same

\* maybeReadMore_ reads ahead as long as that brings data.
MoreWanted ==
  ~state.reading /\ state.flowing # "true" /\ ~state.ended /\ state.length < state.highWaterMark

More ==
  /\ Running("more")
  /\ state' = IF MoreWanted
              THEN Read(0, Run(Popped, <<[Item("moreRead") EXCEPT !.n = state.length]>>))
              ELSE [Popped EXCEPT !.readingMore = FALSE]
  /\ Same

MoreRead ==
  /\ Running("moreRead")
  /\ state' = IF state.length = Head(state.todo).n
              THEN [Popped EXCEPT !.readingMore = FALSE]
              ELSE Run(Popped, <<Item("more")>>)
  /\ Same

\* resume_
ResumeTick ==
  /\ Running("resume")
  /\ LET m == Run(Popped, <<Item("resumed")>>)
     IN state' = IF state.reading THEN m ELSE Read(0, m)
  /\ Same

Resumed ==
  /\ Running("resumed")
  /\ state' = Run([Popped EXCEPT !.resumeScheduled = FALSE], <<Item("flow"), Item("resumeRest")>>)
  /\ Same

ResumeRest ==
  /\ Running("resumeRest")
  /\ state' = IF state.flowing = "true" /\ ~state.reading THEN Read(0, Popped) ELSE Popped
  /\ Same

\* (mutant: one last unshift is not looked for)
NothingLeftUnchecked == ~state.endEmitted

NothingLeft == ~state.endEmitted /\ state.length = 0

\* The tick of endReadable: 'end', which ends the destinations piped to.
End ==
  /\ Running("end")
  /\ \/ /\ NothingLeft
        /\ state' = Run([Popped EXCEPT !.endEmitted = TRUE], <<Item("user")>>)
        /\ destEnded' = destEnded \cup (ToSet(listeners) \ {User})
     \/ /\ ~NothingLeft
        /\ state' = Popped
        /\ UNCHANGED destEnded
  /\ UNCHANGED <<listeners, readable, chunks, held, destNeedDrain, broken, calls, hist>>

\* pipe() after 'end': the destination is ended in a tick.
EndLate ==
  /\ Running("endLate")
  /\ state' = Popped
  /\ destEnded' = destEnded \cup ToSet(Head(state.todo).to)
  /\ UNCHANGED <<listeners, readable, chunks, held, destNeedDrain, broken, calls, hist>>

\* 'data' reaches the next of its listeners: the user, or a destination, which
\* makes the source pause when it is full.
Data ==
  /\ Running("data")
  /\ LET item  == Head(state.todo)
         to    == item.to
         after == Run(Popped, <<[item EXCEPT !.to = Tail(to)]>>)
     IN \/ /\ to = <<>>
           /\ state' = Popped
           /\ UNCHANGED <<dest, got>>
        \/ /\ to # <<>> /\ Head(to) = User
           /\ state' = Run(after, <<Item("user")>>)
           /\ UNCHANGED <<dest, got>>
        \/ \E d \in Dests :
             /\ to # <<>> /\ Head(to) = d
             /\ held' = [held EXCEPT ![d] = @ + Len(item.chunk)]
             /\ got' = [got EXCEPT ![d] = @ \o item.chunk]
             /\ \/ /\ held'[d] < DestMark
                   /\ state' = after
                   /\ UNCHANGED destNeedDrain
                \/ /\ held'[d] >= DestMark
                   /\ destNeedDrain' = [destNeedDrain EXCEPT ![d] = TRUE]
                   /\ state' = Pause([after EXCEPT !.awaitDrain = @ + 1])
             /\ UNCHANGED <<destEnded, broken>>
  /\ UNCHANGED <<listeners, readable, chunks, calls, pushed, taken, paused, steady>>

\* (mutant: a destination that leaves is not counted out)
AwaitedNot(d) == FALSE

\* The source waits, perhaps for this destination.
Awaited(d) == state.awaitDrain > 0 /\ destNeedDrain[d]

\* cleanup() of a destination: if the source waits for it, it waits no more.
Cleanup ==
  /\ Running("cleanup")
  /\ LET item == Head(state.todo)
         d    == Head(item.to)
         rest == Run(Popped, IF Len(item.to) = 1 THEN <<>>
                             ELSE <<[item EXCEPT !.to = Tail(@)]>>)
     IN /\ listeners' = RemoveFirst(listeners, d)
        /\ steady' = steady \ {d}
        /\ state' = IF Awaited(d)
                    THEN OnDrain(rest, listeners') ELSE rest
  /\ UNCHANGED <<readable, chunks, dest, calls, pushed, taken, got, paused>>

UserReturns ==
  /\ Running("user")
  /\ state' = Popped
  /\ Same

RunTick ==
  /\ Idle /\ state.ticks # <<>>
  /\ state' = [state EXCEPT !.todo = <<Head(state.ticks)>>, !.ticks = Tail(@)]
  /\ Same

-----------------------------------------------------------------------------
(* Destinations. *)

\* d has written what it holds (a part of it makes no difference to a source that
\* waits for 'drain').
DestWrites(d) ==
  /\ Idle /\ held[d] > 0 /\ d \notin broken
  /\ held' = [held EXCEPT ![d] = 0]
  /\ \/ /\ destNeedDrain[d]
        /\ destNeedDrain' = [destNeedDrain EXCEPT ![d] = FALSE]
        /\ state' = IF Contains(listeners, d) THEN OnDrain(state, listeners) ELSE state
     \/ /\ ~destNeedDrain[d]
        /\ UNCHANGED <<destNeedDrain, state>>
  /\ UNCHANGED <<listeners, readable, chunks, destEnded, broken, calls, hist>>

Leaves(d) ==
  /\ Contains(state.pipes, d)
  /\ state' = UnpipeFrom(<<d>>, state)

\* 'finish': the source unpipes the destination.
DestFinishes(d) ==
  /\ AtRest /\ d \in destEnded /\ held[d] = 0
  /\ Leaves(d)
  /\ Same

\* 'error' or 'close'.
DestBreaks(d) ==
  /\ AtRest /\ d \notin broken
  /\ broken' = broken \cup {d}
  /\ Leaves(d)
  /\ UNCHANGED <<listeners, readable, chunks, held, destNeedDrain, destEnded, calls, hist>>

-----------------------------------------------------------------------------
(* The user's calls, from a turn of its own or from a handler. *)

Call ==
  /\ AtRest \/ Running("user")
  /\ calls < MaxCalls /\ calls' = calls + 1

Caller == IF AtRest THEN Run(state, <<Item("user")>>) ELSE state

\* A user who does not barge makes data flow only while no destination is full,
\* and touches neither the data nor the pipes from a 'data' handler that was
\* added before a destination, which has yet to get the chunk.
NoneFull == Barge \/ state.awaitDrain = 0
AllTold ==
  \/ Barge
  \/ \A i \in DOMAIN state.todo :
       state.todo[i].k = "data" => ToSet(state.todo[i].to) \subseteq {User}

UserRead ==
  /\ Call /\ NoneFull /\ AllTold
  /\ \E n \in ReadSizes \cup {All} : state' = Read(n, Caller)
  /\ UNCHANGED <<listeners, readable, chunks, dest, hist>>

UserPause ==
  /\ Call
  /\ state' = Pause(Caller)
  /\ paused' = TRUE
  /\ UNCHANGED <<listeners, readable, chunks, dest, pushed, taken, got, steady>>

UserResume ==
  /\ Call /\ NoneFull
  /\ state' = Resume(Caller)
  /\ paused' = FALSE
  /\ UNCHANGED <<listeners, readable, chunks, dest, pushed, taken, got, steady>>

\* on('data')
OnData ==
  /\ Call /\ ~Contains(listeners, User)
  /\ listeners' = Append(listeners, User)
  /\ state' = IF state.flowing = "false" THEN Caller ELSE Resume(Caller)
  /\ UNCHANGED <<readable, chunks, dest, hist>>

\* on('readable')
OnReadable ==
  /\ Call /\ AllTold /\ ~readable
  /\ readable' = TRUE
  /\ LET asked == [Caller EXCEPT !.emittedReadable = FALSE, !.needReadable = TRUE, !.waits = TRUE]
     IN state' = CASE ~state.reading -> Later(asked, ReadZero)
                   [] state.reading /\ state.length > 0 -> EmitReadable(asked)
                   [] OTHER -> asked
  /\ UNCHANGED <<listeners, chunks, dest, hist>>

\* (mutant: what is given back goes to the end of the buffer)
PutBackLast(chunk, buffer) == Append(buffer, chunk)

PutBack(chunk, buffer) == <<chunk>> \o buffer

\* The user gives back the last bytes taken, which no destination has seen.  (Not
\* in the middle of a push() of an eager implementation: push() would return
\* false though a read() has called _read meanwhile, and the implementation
\* would stop with `reading` set.)
Unshift ==
  /\ Call /\ ~state.endEmitted
  /\ state.eager => \A i \in DOMAIN state.todo : state.todo[i].k # "pushed"
  /\ \A d \in Dests : got[d] = <<>> /\ d \notin ToSet(listeners)
  /\ \A i \in DOMAIN state.todo : ToSet(state.todo[i].to) \subseteq {User}
  /\ \E n \in Lengths :
       /\ n <= Len(taken)
       /\ LET chunk == SubSeq(taken, Len(taken) - n + 1, Len(taken))
              kept  == [Caller EXCEPT !.length = @ + n, !.buffer = PutBack(chunk, @), !.waits = FALSE]
          IN \/ /\ EmitsAtOnce(state)
                /\ state' = EmitData(Run(Caller, <<ReadZero, Item("pushMore")>>), chunk)
                /\ UNCHANGED taken
             \/ /\ ~EmitsAtOnce(state)
                /\ taken' = SubSeq(taken, 1, Len(taken) - n)
                /\ state' = IF state.needReadable
                            THEN EmitReadable(Run(kept, <<Item("pushMore")>>))
                            ELSE MaybeReadMore(kept)
  /\ UNCHANGED <<listeners, readable, chunks, dest, pushed, got, paused, steady>>

Pipe(d) ==
  /\ Call /\ NoneFull
  /\ d \notin broken \cup destEnded /\ ~Contains(state.pipes, d) /\ ~Contains(listeners, d)
  /\ listeners' = Append(listeners, d)
  /\ LET piped == [Caller EXCEPT !.pipes = Append(@, d)]
     IN state' = Resume(IF state.endEmitted
                        THEN Later(piped, [Item("endLate") EXCEPT !.to = <<d>>]) ELSE piped)
  /\ paused' = FALSE
  /\ steady' = IF taken = <<>> THEN steady \cup {d} ELSE steady
  /\ UNCHANGED <<readable, chunks, dest, pushed, taken, got>>

\* unpipe(d), or unpipe() of all.
Unpipe ==
  /\ Call /\ AllTold /\ state.pipes # <<>>
  /\ \E ds \in {<<state.pipes[i]>> : i \in DOMAIN state.pipes} \cup {state.pipes} :
       state' = UnpipeFrom(ds, Caller)
  /\ UNCHANGED <<listeners, readable, chunks, dest, hist>>

-----------------------------------------------------------------------------

Init ==
  /\ \E eager \in Eagers :
       state = [eager |-> eager, buffer |-> <<>>, length |-> 0, highWaterMark |-> HighWaterMark,
                flowing |-> "null", ended |-> FALSE, endEmitted |-> FALSE,
                reading |-> FALSE, sync |-> TRUE, needReadable |-> FALSE,
                emittedReadable |-> FALSE, readingMore |-> FALSE,
                resumeScheduled |-> FALSE, awaitDrain |-> 0, pipes |-> <<>>,
                wanted |-> FALSE, waits |-> FALSE, todo |-> <<>>, ticks |-> <<>>]
  /\ listeners = <<>> /\ readable = FALSE /\ chunks = 0
  /\ held = [d \in Dests |-> 0] /\ destNeedDrain = [d \in Dests |-> FALSE]
  /\ destEnded = {} /\ broken = {}
  /\ calls = 0
  /\ pushed = 0 /\ taken = <<>> /\ got = [d \in Dests |-> <<>>]
  /\ paused = FALSE /\ steady = {}

UserCall ==
  \/ UserRead \/ UserPause \/ UserResume \/ OnData \/ OnReadable \/ Unshift
  \/ Unpipe \/ \E d \in Dests : Pipe(d)

\* The program goes on, and the implementation does what it was asked to.
Step ==
  \/ ReadZeroRuns \/ Flow \/ ReadReturns \/ EmitReadableEvent \/ More \/ MoreRead
  \/ ResumeTick \/ Resumed \/ ResumeRest \/ End \/ EndLate \/ Data \/ Cleanup
  \/ Pushed \/ PushMore \/ BodyReturns \/ UserReturns \/ RunTick

Source == PushEof \/ \E n \in Lengths : Push(n)

Next ==
  \/ UserCall \/ Step \/ Source
  \/ \E d \in Dests : DestWrites(d) \/ DestFinishes(d) \/ DestBreaks(d)

Spec == Init /\ [][Next]_vars

FairSpec ==
  /\ Spec /\ WF_vars(Step) /\ WF_vars(AtRest /\ Source)
  /\ \A d \in Dests : WF_vars(DestWrites(d)) /\ WF_vars(DestFinishes(d))

-----------------------------------------------------------------------------
(* Properties *)

Kinds == {"user", "read0", "afterRead", "rest", "flow", "readable", "more", "moreRead",
          "resume", "resumed", "resumeRest", "end", "endLate", "data", "cleanup",
          "body", "pushed", "pushMore"}

TypeOK ==
  /\ state.length \in Nat /\ state.awaitDrain \in Nat
  /\ state.flowing \in {"null", "true", "false"}
  /\ \A i \in DOMAIN state.todo : state.todo[i].k \in Kinds
  /\ \A i \in DOMAIN state.ticks : state.ticks[i].k \in {"read0", "readable", "more", "resume", "end", "endLate"}
  /\ \A i, j \in DOMAIN listeners : i # j => listeners[i] # listeners[j]
  /\ ToSet(state.pipes) \subseteq Dests
  /\ held \in [Dests -> Nat]

\* What has left the stream followed by what is buffered are the bytes pushed,
\* in order, and `length` counts the buffer; a destination gets bytes in order
\* and none twice, and one that was piped to all along gets each.
InOrder ==
  /\ taken \o FlattenSeq(state.buffer) = [i \in 1 .. pushed |-> i]
  /\ state.length = Len(FlattenSeq(state.buffer))
  /\ \A d \in Dests : \A i, j \in DOMAIN got[d] : i < j => got[d][i] < got[d][j]
  /\ AtRest => \A d \in steady : got[d] = taken

\* When nothing runs, a source that pipes and is not flowing, though the user has not
\* paused it, waits for the 'drain' of one that it pipes to.
DrainAwaited ==
  AtRest /\ state.pipes # <<>> /\ state.flowing # "true" /\ ~paused =>
    \E d \in ToSet(state.pipes) : destNeedDrain[d]

\* When nothing runs, a stream that owes something waits for something: a
\* reader who waits for 'readable' or 'data' waits for an answer to _read, 'end'
\* has come if all is read, and a source that pipes paused waits for a 'drain'.
NoStall ==
  AtRest =>
    /\ state.waits /\ readable /\ ~state.endEmitted => state.wanted
    /\ state.flowing = "true" /\ ~state.endEmitted => state.wanted /\ state.length = 0
    /\ DrainAwaited

\* 'end' comes when the implementation has ended and every byte was taken, and
\* nothing is taken after it; a destination is ended after its last byte.
EndLast ==
  [][/\ state'.endEmitted # state.endEmitted =>
          chunks = MaxChunks /\ taken = [i \in 1 .. pushed |-> i]
     /\ state.endEmitted => UNCHANGED <<taken, got>> /\ state'.endEmitted]_vars

\* A destination that is piped to gets everything and is ended, unless it
\* breaks, is unpiped, or the user pauses the source.
Piped ==
  \A d \in Dests :
    (d \in steady /\ ~paused) ~>
      \/ d \in destEnded /\ got[d] = [i \in 1 .. pushed |-> i]
      \/ d \notin steady \/ paused

\* What the comment at line 82 says of awaitDrain: "the number of writers that
\* are awaiting a drain event in .pipe()s".
WritersAwaited == state.awaitDrain <= Cardinality({d \in ToSet(listeners) \ {User} : destNeedDrain[d]})

\* Each reader gets all there is, and then its end.
Complete == EndLast /\ Piped
=============================================================================
