-------------------------------- MODULE Zlib --------------------------------
(***************************************************************************)
(* A compressing or decompressing stream: Zlib of node/zlib.js over        *)
(* Transform of node/_stream_transform.js, and the binding of              *)
(* js/bindings/delegates/zlib/binding.js.                                  *)
(*                                                                         *)
(* A transform is a writable and a readable stream that drive each other:  *)
(* a chunk is transformed when the reader wants data, and its callback     *)
(* lets the next one in.  The engine (pako, external) runs in a tick of    *)
(* its own, into a buffer of ChunkSize; what does not fit is asked for     *)
(* again.  User code runs between the calls of one tick, in the handlers   *)
(* of 'readable' and in the callbacks of writes.                           *)
(*                                                                         *)
(* The functions of the source are functions from a state of the stream to *)
(* a state of the stream.  Data are units, numbered as they are written;   *)
(* the engine gives them back in order, sooner or later.                   *)
(***************************************************************************)
EXTENDS Integers, Sequences, SequencesExt

CONSTANTS
  Inflates,       \* does the stream decompress?
  HighWaterMark,  \* options.highWaterMark, of both sides
  ChunkSize,      \* options.chunkSize
  Lengths,        \* lengths of the chunks the user writes
  Kinds,          \* arguments of flush()
  MaxUnits,       \* bound on the units written; if the stream inflates, all there are
  MaxFlushes      \* bound on the calls of flush()

NoFlush == 0
SyncFlush == 2
FullFlush == 3
Finish == 4

ASSUME ZlibAssumption ==
  /\ Inflates \in BOOLEAN
  /\ HighWaterMark \in Nat \ {0} /\ ChunkSize \in Nat \ {0}
  /\ Lengths \subseteq Nat \ {0}
  /\ Kinds \subseteq {SyncFlush, FullFlush}
  /\ MaxUnits \in Nat /\ MaxFlushes \in Nat

VARIABLES
  s,        \* the stream, its binding and its engine
  written,  \* units the user has written
  taken,    \* units the user has read
  marks     \* history, of each call of flush(): the units written before it

vars == <<s, written, taken, marks>>

\* A chunk; cb is the flush() that wrote it, or 0.
ChunkOf(bytes, cb) == [bytes |-> bytes, cb |-> cb]

\* A call of the binding's write(); final when _flush made it.
JobOf(bytes, flag, final) == [on |-> TRUE, bytes |-> bytes, flag |-> flag, final |-> final]
NoJob == [JobOf(<<>>, NoFlush, FALSE) EXCEPT !.on = FALSE]

\* queue .. prefinished: _writableState (buffer, writing with the chunk in hand,
\* length, needDrain, ending, prefinished); transforming, needTransform:
\* _transformState; buffer .. endEmitted: _readableState; flag, offset, hadError,
\* closed: the Zlib; job, clash: the call the binding will run next tick, and has
\* one of its checks failed?  held, last: what the engine holds back and its
\* last_flush; readMore, endTick: ticks; waiters: flushes that wait for 'drain';
\* phase: where the tick of the binding is (in push(), with or without a
\* handler of 'readable', or in the callback of a write), and again, todo: what push() returns
\* to; called: the flushes that called back; told: 'readable' was emitted and the
\* user has yet to read until null.
Init ==
  /\ s = [queue |-> <<>>, writing |-> FALSE, chunk |-> ChunkOf(<<>>, 0), length |-> 0,
          needDrain |-> FALSE, ending |-> FALSE, prefinished |-> FALSE,
          transforming |-> FALSE, needTransform |-> FALSE,
          buffer |-> <<>>, needReadable |-> TRUE, emittedReadable |-> FALSE,
          reading |-> FALSE, ended |-> FALSE, endEmitted |-> FALSE,
          flag |-> NoFlush, offset |-> 0, hadError |-> FALSE, closed |-> FALSE,
          job |-> NoJob, clash |-> FALSE, held |-> <<>>, last |-> NoFlush,
          readMore |-> FALSE, endTick |-> FALSE, waiters |-> <<>>,
          phase |-> "idle", again |-> FALSE, todo |-> NoJob, called |-> {}, told |-> FALSE]
  /\ written = 0
  /\ taken = <<>>
  /\ marks = <<>>

-----------------------------------------------------------------------------
(* The writable side and the transform. *)

\* The binding's write(): one call at a time, on an engine that is not closed.
HandleWrite(m, bytes, flag, final) ==
  [m EXCEPT !.job = JobOf(bytes, flag, final), !.clash = @ \/ m.job.on \/ m.closed]

\* Is the chunk the last one?
IsLast(m) == m.ending /\ m.length = Len(m.chunk.bytes)

\* (mutant: the flag is taken back before it is used)
ZTransformEarly(m) ==
  LET flag == IF IsLast(m) THEN Finish ELSE NoFlush
  IN HandleWrite([m EXCEPT !.flag = NoFlush], m.chunk.bytes, flag, FALSE)

\* Zlib's _transform: what was flushed last goes back to normal behaviour.
ZTransform(m) ==
  LET flag == IF IsLast(m) THEN Finish ELSE m.flag
      empties == ~IsLast(m) /\ Len(m.chunk.bytes) >= m.length
  IN HandleWrite([m EXCEPT !.flag = IF empties THEN NoFlush ELSE @], m.chunk.bytes, flag, FALSE)

\* (mutant: a chunk that is being transformed is transformed again)
TReadTwice(m) ==
  IF m.writing THEN ZTransform([m EXCEPT !.transforming = TRUE])
  ELSE [m EXCEPT !.needTransform = TRUE]

\* Transform's _read.
TRead(m) ==
  IF m.writing /\ ~m.transforming THEN ZTransform([m EXCEPT !.transforming = TRUE])
  ELSE [m EXCEPT !.needTransform = TRUE]

\* Does the reader want more?
Wants(m) == m.needReadable \/ Len(m.buffer) < HighWaterMark

\* Transform's _write.
TWrite(m, chunk) ==
  LET q == [m EXCEPT !.writing = TRUE, !.chunk = chunk]
  IN IF ~m.transforming /\ (m.needTransform \/ Wants(m)) THEN TRead(q) ELSE q

\* write().
WriteChunk(m, chunk) ==
  LET n == m.length + Len(chunk.bytes)
      q == [m EXCEPT !.length = n, !.needDrain = @ \/ n >= HighWaterMark]
  IN IF m.writing THEN [q EXCEPT !.queue = Append(@, chunk)] ELSE TWrite(q, chunk)

\* (mutant: the write in progress does not count)
NeedFinishQueue(m) == m.ending /\ m.queue = <<>>

NeedFinish(m) == m.ending /\ m.length = 0 /\ m.queue = <<>> /\ ~m.writing

\* finishMaybe: the 'prefinish' handler of Transform calls _flush.
FinishMaybe(m) ==
  IF NeedFinish(m) /\ ~m.prefinished
  THEN HandleWrite([m EXCEPT !.prefinished = TRUE], <<>>, Finish, TRUE)
  ELSE m

\* flush(), the i-th call of the user.
FlushChunk(m, kind, i) ==
  CASE m.ending -> [m EXCEPT !.called = @ \cup {i}]
    [] ~m.ending /\ m.needDrain -> [m EXCEPT !.waiters = Append(@, i)]
    [] OTHER -> WriteChunk([m EXCEPT !.flag = kind], ChunkOf(<<>>, i))

\* 'drain': the flushes that waited for it have lost their kind.
Drain(m) ==
  FoldLeft(LAMBDA q, i : FlushChunk(q, FullFlush, i),
           [m EXCEPT !.needDrain = FALSE, !.waiters = <<>>], m.waiters)

\* onwrite and afterWrite, up to the end of the callback.
OnWrite(m) ==
  LET done == [m EXCEPT !.writing = FALSE, !.length = @ - Len(m.chunk.bytes)]
      next == IF m.queue = <<>> THEN done
              ELSE TWrite([done EXCEPT !.queue = Tail(@)], Head(m.queue))
      drained == IF ~NeedFinish(done) /\ next.length = 0 /\ next.needDrain THEN Drain(next) ELSE next
  IN [drained EXCEPT !.called = @ \cup ({m.chunk.cb} \ {0})]

-----------------------------------------------------------------------------
(* The readable side. *)

EmitReadable(m) ==
  [m EXCEPT !.needReadable = FALSE, !.emittedReadable = TRUE, !.told = @ \/ ~m.emittedReadable]

\* push() of bytes; the stream is not flowing.
Push(m, bytes) ==
  LET q == [m EXCEPT !.needTransform = FALSE, !.reading = FALSE, !.buffer = @ \o bytes,
                     !.readMore = TRUE]
  IN IF bytes = <<>> THEN m ELSE IF m.needReadable THEN EmitReadable(q) ELSE q

\* (mutant: the end of the data is not announced)
PushNullQuiet(m) == [m EXCEPT !.needTransform = FALSE, !.reading = FALSE, !.ended = TRUE]

\* push(null).
PushNull(m) ==
  EmitReadable([m EXCEPT !.needTransform = FALSE, !.reading = FALSE, !.ended = TRUE])

\* The part of read() that calls _read; who reads all, or nothing when there is
\* room, leaves less than the high-water mark.
DoRead(m) ==
  IF m.ended \/ m.reading THEN m
  ELSE TRead([m EXCEPT !.reading = TRUE, !.needReadable = @ \/ m.buffer = <<>>])

\* read(0) of maybeReadMore_.
ReadZero(m) ==
  IF m.reading \/ m.ended \/ Len(m.buffer) >= HighWaterMark THEN m
  ELSE [DoRead(m) EXCEPT !.needReadable = TRUE]

-----------------------------------------------------------------------------
(* The engine: external, known by what the binding makes of it. *)

Room(m) == ChunkSize - m.offset

\* What one call may do: `out` of what it holds and is given (the first `used` of
\* the bytes) is output.  It stops when the room is exhausted; otherwise it takes
\* all it is given, and keeps back what it likes unless it is told to flush.
Runs(m) ==
  {r \in [out : 0 .. Room(m), used : 0 .. Len(m.job.bytes)] :
     LET given == Len(m.held) + r.used
     IN /\ r.out <= given
        /\ r.out < Room(m) =>
             /\ r.used = Len(m.job.bytes)
             /\ (m.job.flag # NoFlush \/ Inflates) => r.out = given}

\* Does the engine answer Z_BUF_ERROR?  deflate does when there is nothing to do
\* and the flush is no stronger than the one before; inflate when it could do
\* nothing, and, asked to finish, when it has not come to the end.
BufError(m, r) ==
  IF Inflates
  THEN /\ Len(taken) + Len(m.buffer) + r.out < MaxUnits
       /\ m.job.flag = Finish \/ r.out + r.used = 0
  ELSE m.job.bytes = <<>> /\ m.job.flag <= m.last /\ m.job.flag # Finish

-----------------------------------------------------------------------------
(* Actions: the tick of the binding. *)

\* _write(): what the engine was given and did not put out, it holds.
Given(m, r) == m.held \o SubSeq(m.job.bytes, 1, r.used)

Ran(m, r) ==
  [m EXCEPT !.job = NoJob, !.last = IF r.out = Room(m) THEN -1 ELSE m.job.flag,
            !.held = SubSeq(Given(m, r), r.out + 1, Len(Given(m, r)))]

\* onerror: there is no way to recover, and the callback returns at once.
Errs(m) == [m EXCEPT !.job = NoJob, !.hadError = TRUE]

\* The tick of the binding, and the callback of zlib.js up to push(), which may run
\* user code.  What push() returns to is in `todo` and `again`: the output buffer
\* was exhausted and the engine must be asked again.
RunEngine ==
  /\ s.job.on /\ s.phase = "idle" /\ ~s.readMore
  /\ \E r \in Runs(s) :
       LET full == r.out = Room(s)
           m == [Ran(s, r) EXCEPT !.offset = IF full THEN 0 ELSE @ + r.out]
       IN s' = IF BufError(s, r) THEN Errs(s)
               ELSE [Push(m, SubSeq(Given(s, r), 1, r.out)) EXCEPT
                       !.again = full,
                       !.phase = IF r.out > 0 /\ s.needReadable /\ ~s.emittedReadable
                                 THEN "handler" ELSE "pushed",
                       !.todo = [s.job EXCEPT !.bytes = SubSeq(@, r.used + 1, Len(@))]]
  /\ UNCHANGED <<written, taken, marks>>

Pushed == s.phase \in {"pushed", "handler"}
Popped == [s EXCEPT !.phase = "idle", !.again = FALSE, !.todo = NoJob]

\* "Not actually done.  Need to reprocess."
Reprocess ==
  /\ Pushed /\ s.again
  /\ s' = HandleWrite(Popped, s.todo.bytes, s.todo.flag, s.todo.final)
  /\ UNCHANGED <<written, taken, marks>>

\* afterTransform, up to the end of the callback of the write.
ChunkDone ==
  /\ Pushed /\ ~s.again /\ ~s.todo.final
  /\ s' = OnWrite([Popped EXCEPT !.transforming = FALSE, !.phase = "acked"])
  /\ UNCHANGED <<written, taken, marks>>

\* The rest of it: finishMaybe, and the next chunk if the reader wants it.
AfterTransform ==
  /\ s.phase = "acked"
  /\ LET m == FinishMaybe([s EXCEPT !.phase = "idle", !.reading = FALSE])
     IN s' = IF Wants(m) THEN TRead(m) ELSE m
  /\ UNCHANGED <<written, taken, marks>>

\* done: its two checks are checks of the program too.
Done ==
  /\ Pushed /\ ~s.again /\ s.todo.final
  /\ s' = PushNull([Popped EXCEPT !.clash = @ \/ s.length # 0 \/ s.transforming])
  /\ UNCHANGED <<written, taken, marks>>

\* The other ticks: maybeReadMore_, and 'end', which closes the binding.
RunReadMore ==
  /\ s.readMore /\ s.phase = "idle"
  /\ s' = ReadZero([s EXCEPT !.readMore = FALSE])
  /\ UNCHANGED <<written, taken, marks>>

RunEnd ==
  /\ s.endTick /\ s.phase = "idle"
  /\ s' = [s EXCEPT !.endTick = FALSE, !.endEmitted = TRUE, !.closed = TRUE]
  /\ UNCHANGED <<written, taken, marks>>

-----------------------------------------------------------------------------
(* Actions: the user. *)

\* User code runs in ticks of its own and in handlers.
UserRuns == s.phase # "pushed"

Write ==
  /\ UserRuns /\ ~s.ending
  /\ \E n \in Lengths :
       /\ written + n <= MaxUnits
       /\ s' = WriteChunk(s, ChunkOf([i \in 1 .. n |-> written + i], 0))
       /\ written' = written + n
  /\ UNCHANGED <<taken, marks>>

Flush ==
  /\ UserRuns /\ ~s.ending /\ Len(marks) < MaxFlushes
  /\ \E kind \in Kinds : s' = FlushChunk(s, kind, Len(marks) + 1)
  /\ marks' = Append(marks, written)
  /\ UNCHANGED <<written, taken>>

\* end(); what is given to inflate is a whole compressed stream.
End ==
  /\ UserRuns /\ ~s.ending
  /\ Inflates => written = MaxUnits
  /\ s' = FinishMaybe([s EXCEPT !.ending = TRUE])
  /\ UNCHANGED <<written, taken, marks>>

\* read() takes all there is.
Read ==
  LET m == [s EXCEPT !.emittedReadable = FALSE]
      none == m.buffer = <<>>
      q == DoRead(m)
  IN /\ UserRuns
     /\ taken' = taken \o m.buffer
     /\ s' = [q EXCEPT !.buffer = <<>>, !.needReadable = @ \/ ~m.ended,
                       !.told = @ /\ ~none, !.endTick = @ \/ (m.ended /\ ~m.endEmitted)]
     /\ UNCHANGED <<written, marks>>

-----------------------------------------------------------------------------

\* What the event loop does.
Tick ==
  \/ RunEngine \/ Reprocess \/ ChunkDone \/ AfterTransform \/ Done
  \/ RunReadMore \/ RunEnd

Next == Tick \/ Write \/ Flush \/ End \/ Read

Spec == Init /\ [][Next]_vars

\* Ticks run, and who was told 'readable' reads until there is nothing to read.
FairSpec == Spec /\ WF_vars(Tick) /\ WF_vars(s.told /\ Read)

Bytes == Seq(1 .. MaxUnits)
Chunks == [bytes : Bytes, cb : 0 .. MaxFlushes]
Jobs == [on : BOOLEAN, bytes : Bytes, flag : {NoFlush, SyncFlush, FullFlush, Finish},
         final : BOOLEAN]

\* The checks of the program hold: the engine is never called while it runs, nor
\* after it was closed, and the stream ends with nothing left to write.
TypeOK ==
  /\ s \in [queue : Seq(Chunks), writing : BOOLEAN, chunk : Chunks, length : 0 .. MaxUnits,
            needDrain : BOOLEAN, ending : BOOLEAN, prefinished : BOOLEAN,
            transforming : BOOLEAN, needTransform : BOOLEAN,
            buffer : Bytes, needReadable : BOOLEAN, emittedReadable : BOOLEAN,
            reading : BOOLEAN, ended : BOOLEAN, endEmitted : BOOLEAN,
            flag : {NoFlush} \cup Kinds \cup {FullFlush}, offset : 0 .. ChunkSize - 1,
            hadError : BOOLEAN, closed : BOOLEAN,
            job : Jobs, clash : {FALSE}, held : Bytes, last : -1 .. Finish,
            readMore : BOOLEAN, endTick : BOOLEAN, waiters : Seq(1 .. MaxFlushes),
            phase : {"idle", "pushed", "handler", "acked"}, again : BOOLEAN, todo : Jobs,
            called : SUBSET (1 .. MaxFlushes), told : BOOLEAN]
  /\ written \in 0 .. MaxUnits
  /\ taken \in Bytes
  /\ marks \in Seq(0 .. MaxUnits)

-----------------------------------------------------------------------------
(* Properties *)

pushed == Len(taken) + Len(s.buffer)

\* When a flush calls back, all that was written before it can be read; and where
\* the engine has an error for a flush, it had nothing left to give.
Flushed ==
  /\ \A i \in s.called : pushed >= marks[i]
  /\ s.hadError => s.held = <<>>

\* What is written is read in order, and 'end' comes after all of it.
Pipe == INSTANCE OrderedPipe WITH closed <- s.ending, ended <- s.endEmitted

IsPipe == Pipe!Spec

\* A stream that was ended comes to its end, and flushes call back, unless the
\* engine had an error; or end() came while a flush waited for 'drain'.
Ends ==
  /\ s.ending ~> s.endEmitted \/ s.hadError
  /\ \A i \in 1 .. MaxFlushes :
       i <= Len(marks) ~> \/ i \in s.called \/ s.hadError
                          \/ i \in ToSet(s.waiters) /\ s.ending

\* "Not actually done.  Need to reprocess." (zlib.js:580): an output
\* buffer that is exhausted is no error; without flush() there is none.
Reprocesses == marks = <<>> => ~s.hadError
=============================================================================
