-------------------------- MODULE EventLoopProofs --------------------------
(***************************************************************************)
(* Proofs about EventLoop: the types, TickOrder, and Kept, that no         *)
(* immediate that is set is lost or run twice.                             *)
(*                                                                         *)
(* TypeOK and TickOrder are inductive together: the loop of _tickCallback  *)
(* reads nextTickQueue[kIndex], which is an entry only because kLength is  *)
(* the length of the queue (TickOrder), and TickOrder counts with numbers  *)
(* (TypeOK).  The two operations on the tick queue, nextTick and tickDone, *)
(* have lemmas of their own; every other action either takes the next      *)
(* entry or leaves the ticks alone.                                        *)
(*                                                                         *)
(* Kept needs to know where every immediate is (Stored): each one that     *)
(* waits is in immediateQueue or in the local queue of a processImmediate  *)
(* on the call stack, and in one place only.  Known says that the host     *)
(* comes back for immediateQueue (needImmediate), except while an          *)
(* exception unwinds the stack: clearImmediate can stop the host though a  *)
(* local queue is not empty, but only an exception puts what is left of    *)
(* it back, and what catches the exception starts the host again.          *)
(***************************************************************************)
EXTENDS EventLoop, SequenceLemmas, TLAPS

-----------------------------------------------------------------------------
(* The tick queue *)

\* The part of TypeOK that TickOrder is about.
TickType ==
  /\ nextTickQueue \in Seq(Nat) /\ kIndex \in Nat /\ kLength \in Nat
  /\ posted \in Nat /\ ran \in Seq(Nat)

\* tickDone() drops the entries that have run and no other.
LEMMA TickDoneDrops ==
  ASSUME TickType, TickCount, TickDone
  PROVE  /\ kIndex' = 0 /\ nextTickQueue' \in Seq(Nat)
         /\ kLength' = Len(nextTickQueue')
         /\ kLength' = kLength - kIndex
         /\ \A i \in 1 .. kLength - kIndex : nextTickQueue'[i] = nextTickQueue[kIndex + i]
<1> USE DEF TickType, TickCount
<1>1. CASE kLength # 0 /\ kLength <= kIndex
  <2>1. nextTickQueue' = <<>> /\ kLength' = 0 /\ kIndex' = 0
    BY <1>1 DEF TickDone
  <2>2. kLength - kIndex = 0
    BY <1>1
  <2> QED
    BY <2>1, <2>2
<1>2. CASE kLength # 0 /\ kLength > kIndex
  <2>1. /\ nextTickQueue' = SubSeq(nextTickQueue, kIndex + 1, Len(nextTickQueue))
        /\ kLength' = Len(nextTickQueue') /\ kIndex' = 0
    BY <1>2 DEF TickDone
  <2> QED
    BY <1>2, <2>1
<1>3. CASE kLength = 0
  <2>1. nextTickQueue' = nextTickQueue /\ kLength' = kLength /\ kIndex' = 0
    BY <1>3 DEF TickDone
  <2>2. kIndex = 0
    BY <1>3
  <2>3. kLength' = kLength - kIndex
    BY <1>3, <2>1, <2>2
  <2>4. nextTickQueue' \in Seq(Nat)
    BY <2>1
  <2>5. kLength' = Len(nextTickQueue')
    BY <2>1
  <2>6. \A i \in 1 .. kLength - kIndex : nextTickQueue'[i] = nextTickQueue[kIndex + i]
    BY <1>3, <2>2
  <2> QED
    BY <2>1, <2>3, <2>4, <2>5, <2>6
<1> QED
  BY <1>1, <1>2, <1>3

\* tickDone() keeps the queue's type and the tick order: what it drops has run.
LEMMA TickDoneKeeps ==
  ASSUME TickType, TickOrder, TickDone, posted' = posted, ran' = ran
  PROVE  TickType' /\ TickOrder'
<1> TickCount
  BY DEF TickOrder
<1>1. kIndex' = 0 /\ nextTickQueue' \in Seq(Nat) /\ kLength' = Len(nextTickQueue')
  BY TickDoneDrops
<1>2. kLength' = kLength - kIndex
  BY TickDoneDrops
<1>3. \A i \in 1 .. kLength - kIndex : nextTickQueue'[i] = nextTickQueue[kIndex + i]
  BY TickDoneDrops
<1>4. TickType'
  BY <1>1 DEF TickType
<1>5. TickCount'
  BY <1>1, <1>2 DEF TickType, TickCount
<1>6. \A i \in 1 .. Len(ran') : ran'[i] = i
  BY DEF TickOrder
<1>7. \A i \in kIndex' + 1 .. kLength' : nextTickQueue'[i] = Len(ran') + i - kIndex'
  <2> SUFFICES ASSUME NEW i \in 1 .. kLength - kIndex
               PROVE  nextTickQueue'[i] = Len(ran) + i
    BY <1>1, <1>2 DEF TickType
  <2>1. kIndex + i \in kIndex + 1 .. kLength
    BY DEF TickType
  <2>2. nextTickQueue[kIndex + i] = Len(ran) + (kIndex + i) - kIndex
    BY <2>1 DEF TickOrder
  <2> QED
    BY <1>3, <2>2 DEF TickType
<1> QED
  BY <1>4, <1>5, <1>6, <1>7 DEF TickOrder

\* nextTick() appends one entry.
LEMMA NextTickKeeps ==
  ASSUME TickType, TickOrder, NEW b \in BOOLEAN, NextTick(b), ran' = ran
  PROVE  TickType' /\ TickOrder'
<1>1. CASE UNCHANGED tickq
  BY <1>1 DEF tickq, TickType, TickOrder, TickCount
<1>2. CASE ~ UNCHANGED tickq
  <2> TickCount
    BY DEF TickOrder
  <2>1. /\ nextTickQueue' = Append(nextTickQueue, posted + 1)
        /\ kLength' = kLength + 1 /\ posted' = posted + 1 /\ kIndex' = kIndex
    BY <1>2 DEF NextTick
  <2>2. TickType'
    BY <2>1 DEF TickType
  <2>3. TickCount'
    <3>1. Len(nextTickQueue') = Len(nextTickQueue) + 1 /\ Len(ran') = Len(ran)
      BY <2>1 DEF TickType
    <3> QED
      <4>1. Len(ran') + kLength' - kIndex' = posted'
        BY <2>1, <3>1 DEF TickType, TickCount
      <4>2. kIndex' <= kLength'
        BY <2>1, <3>1 DEF TickType, TickCount
      <4>3. kLength' = Len(nextTickQueue')
        BY <2>1, <3>1 DEF TickType, TickCount
      <4> QED
        BY <4>1, <4>2, <4>3 DEF TickCount
  <2>4. \A i \in 1 .. Len(ran') : ran'[i] = i
    BY DEF TickOrder
  <2>5. \A i \in kIndex' + 1 .. kLength' : nextTickQueue'[i] = Len(ran') + i - kIndex'
    <3> SUFFICES ASSUME NEW i \in kIndex + 1 .. kLength + 1
                 PROVE  nextTickQueue'[i] = Len(ran) + i - kIndex
      BY <2>1
    <3>1. CASE i \in kIndex + 1 .. kLength
      <4>1. nextTickQueue'[i] = nextTickQueue[i]
        BY <2>1, <3>1 DEF TickType, TickCount
      <4> QED
        BY <3>1, <4>1 DEF TickOrder
    <3>2. CASE i = kLength + 1
      BY <2>1, <3>2 DEF TickType, TickCount
    <3>3. i \in kIndex + 1 .. kLength \/ i = kLength + 1
      BY DEF TickType
    <3> QED
      BY <3>1, <3>2, <3>3
  <2> QED
    BY <2>2, <2>3, <2>4, <2>5 DEF TickOrder
<1> QED
  BY <1>1, <1>2

\* The loop of _tickCallback moves the next entry from the queue to what has run.
LEMMA TickNextKeeps ==
  ASSUME TickType, TickOrder, TickNext
  PROVE  TickType' /\ TickOrder'
<1> TickCount
  BY DEF TickOrder
<1>1. /\ kIndex < kLength /\ kIndex' = kIndex + 1
      /\ ran' = Append(ran, nextTickQueue[kIndex + 1])
      /\ nextTickQueue' = nextTickQueue /\ kLength' = kLength /\ posted' = posted
  BY DEF TickNext
<1>2. nextTickQueue[kIndex + 1] = Len(ran) + 1
  <2>1. kIndex + 1 \in kIndex + 1 .. kLength
    BY <1>1 DEF TickType
  <2>2. nextTickQueue[kIndex + 1] = Len(ran) + (kIndex + 1) - kIndex
    BY <2>1 DEF TickOrder
  <2> QED
    BY <2>2 DEF TickType
<1>3. ran' = Append(ran, Len(ran) + 1)
  BY <1>1, <1>2
<1>4. TickType'
  BY <1>1, <1>3 DEF TickType
<1>5. TickCount'
  <2>1. Len(ran') = Len(ran) + 1 /\ Len(ran) \in Nat
    BY <1>3 DEF TickType
  <2>2. kLength' - kIndex' = kLength - kIndex - 1 /\ kIndex' <= kLength'
    BY <1>1 DEF TickType
  <2> QED
    BY <1>1, <2>1, <2>2 DEF TickType, TickCount
<1>6. \A i \in 1 .. Len(ran') : ran'[i] = i
  <2>1. /\ Len(ran') = Len(ran) + 1 /\ ran'[Len(ran) + 1] = Len(ran) + 1
        /\ \A i \in 1 .. Len(ran) : ran'[i] = ran[i]
    BY <1>3 DEF TickType
  <2>2. Len(ran) \in Nat /\ \A i \in 1 .. Len(ran) : ran[i] = i
    BY DEF TickType, TickOrder
  <2> QED
    BY <2>1, <2>2
<1>7. \A i \in kIndex' + 1 .. kLength' : nextTickQueue'[i] = Len(ran') + i - kIndex'
  <2>1. Len(ran') = Len(ran) + 1
    BY <1>3 DEF TickType
  <2> QED
    BY <1>1, <2>1 DEF TickType, TickOrder
<1> QED
  BY <1>4, <1>5, <1>6, <1>7 DEF TickOrder

-----------------------------------------------------------------------------
(* Steps *)

IInv == TypeOK /\ TickOrder

\* The initial state has no tick, no frame and no immediate.
LEMMA InitIInv == Init => IInv
<1> SUFFICES ASSUME Init PROVE IInv
  OBVIOUS
<1>1. TypeOK
  <2>1. /\ nextTickQueue \in Seq(Nat) /\ immediateQueue \in Seq(Nat)
        /\ ran \in Seq(Nat) /\ ranImmediates \in Seq(Nat) /\ stack \in Seq(Frames)
    BY DEF Init
  <2>2. /\ userTicks \in 0 .. MaxTicks /\ userImmediates \in 0 .. MaxImmediates
        /\ throws \in 0 .. MaxThrows
    BY EventLoopAssumption DEF Init
  <2> QED
    BY <2>1, <2>2 DEF Init, TypeOK
<1>2. TickOrder
  BY DEF Init, TickOrder, TickCount
<1> QED
  BY <1>1, <1>2 DEF IInv

\* The actions that leave the ticks alone.
LEMMA OthersKeepTicks ==
  ASSUME TickType, TickOrder,
         \/ ImmNext \/ ImmEnd \/ UserSetImmediate \/ Throw \/ Return \/ Turn
         \/ RunImmediates \/ HostTicks \/ Unwind \/ FatalException
         \/ (\E n \in Nat : ClearImmediate(n)) \/ UNCHANGED vars
  PROVE  TickType' /\ TickOrder'
<1>1. UNCHANGED <<tickq, ran>>
  BY DEF ImmNext, ImmEnd, UserSetImmediate, Throw, Return, Turn, RunImmediates,
         HostTicks, Unwind, FatalException, ClearImmediate, vars, hist
<1> QED
  BY <1>1 DEF tickq, TickType, TickOrder, TickCount

\* Every step keeps the tick queue typed and the ticks in order.
LEMMA NextKeepsTicks ==
  ASSUME TickType, TickOrder, [Next]_vars
  PROVE  TickType' /\ TickOrder'
<1>1. CASE TickNext
  BY <1>1, TickNextKeeps
<1>2. CASE TockReturns
  <2>1. CASE TickDone
    BY <1>2, <2>1, TickDoneKeeps DEF TockReturns, hist
  <2>2. CASE UNCHANGED <<nextTickQueue, kIndex, kLength>>
    BY <1>2, <2>2 DEF TockReturns, hist, TickType, TickOrder, TickCount
  <2> QED
    BY <1>2, <2>1, <2>2 DEF TockReturns
<1>3. CASE TicksEnd
  BY <1>3, TickDoneKeeps DEF TicksEnd, hist
<1>4. CASE TockThrows
  BY <1>4, TickDoneKeeps DEF TockThrows, hist
<1>5. CASE ImmThrows
  <2>1. CASE UNCHANGED tickq
    BY <1>5, <2>1 DEF ImmThrows, hist, tickq, TickType, TickOrder, TickCount
  <2>2. CASE NextTick(TRUE)
    BY <1>5, <2>2, NextTickKeeps DEF ImmThrows, hist
  <2> QED
    BY <1>5, <2>1, <2>2 DEF ImmThrows
<1>6. CASE UserNextTick
  BY <1>6, NextTickKeeps DEF UserNextTick, hist
<1> QED
  BY <1>1, <1>2, <1>3, <1>4, <1>5, <1>6, OthersKeepTicks, EventLoopAssumption
  DEF Next, UserCall, Step

\* Pushing frames on a call stack, and popping one.
LEMMA FrameTypes ==
  /\ \A k \in {"user", "host", "ticks", "tock", "imm"} : Frame(k) \in Frames
  /\ \A q \in Seq(Nat) : Imm(q) \in Frames
BY DEF Frame, Imm, Frames

\* The frames a step pushes are frames, and popping a stack leaves one.
LEMMA StackTypes ==
  ASSUME stack \in Seq(Frames)
  PROVE  /\ stack # <<>> => Head(stack).q \in Seq(Nat) /\ Tail(stack) \in Seq(Frames)
         /\ stack # <<>> => \A f \in Frames : <<f>> \o Tail(stack) \in Seq(Frames)
         /\ stack # <<>> => \A f, g \in Frames : <<f, g>> \o Tail(stack) \in Seq(Frames)
<1> SUFFICES ASSUME stack # <<>>
             PROVE  /\ Head(stack).q \in Seq(Nat) /\ Tail(stack) \in Seq(Frames)
                    /\ \A f \in Frames : <<f>> \o Tail(stack) \in Seq(Frames)
                    /\ \A f, g \in Frames : <<f, g>> \o Tail(stack) \in Seq(Frames)
  OBVIOUS
<1>1. Head(stack) \in Frames /\ Tail(stack) \in Seq(Frames)
  OBVIOUS
<1>2. Head(stack).q \in Seq(Nat)
  BY <1>1 DEF Frames
<1>3. \A f \in Frames : <<f>> \in Seq(Frames)
  OBVIOUS
<1>4. \A f, g \in Frames : <<f, g>> \in Seq(Frames)
  OBVIOUS
<1> QED
  BY <1>1, <1>2, <1>3, <1>4

\* Every step leaves a call stack of frames.
LEMMA StackStep ==
  ASSUME TypeOK, TickOrder, Next
  PROVE  stack' \in Seq(Frames)
<1> stack \in Seq(Frames) /\ immediateQueue \in Seq(Nat)
  BY DEF TypeOK
<1> USE FrameTypes, StackTypes
<1>1. CASE TickNext
  BY <1>1 DEF TickNext, Run, Top
<1>2. CASE TockReturns \/ TicksEnd \/ TockThrows
  BY <1>2 DEF TockReturns, TicksEnd, TockThrows, Run, Top
<1>3. CASE ImmNext
  <2>1. stack # <<>> /\ Head(stack).q # <<>>
    BY <1>3 DEF ImmNext, Run, Top
  <2>2. Tail(Head(stack).q) \in Seq(Nat)
    BY <2>1
  <2>3. \E f \in Frames : stack' = <<f, Imm(Tail(Head(stack).q))>> \o Tail(stack)
    BY <1>3 DEF ImmNext
  <2> QED
    BY <2>1, <2>2, <2>3
<1>4. CASE ImmEnd \/ ImmThrows \/ Throw \/ Return \/ Unwind
  BY <1>4 DEF ImmEnd, ImmThrows, Throw, Return, Unwind, Run, Top
<1>5. CASE UserNextTick \/ UserSetImmediate \/ FatalException
  BY <1>5 DEF UserNextTick, UserSetImmediate, FatalException
<1>6. CASE \E n \in 1 .. MaxImmediates + MaxThrows : ClearImmediate(n)
  <2>1. PICK n : stack' = [i \in DOMAIN stack |-> [stack[i] EXCEPT !.q = RemoveFirst(@, n)]]
    BY <1>6 DEF ClearImmediate
  <2>2. \A f \in Frames : [f EXCEPT !.q = RemoveFirst(@, n)] \in Frames
    BY RemoveFirstElement DEF Frames
  <2>3. \A i \in 1 .. Len(stack) : stack[i] \in Frames
    OBVIOUS
  <2>4. stack' = [i \in 1 .. Len(stack) |-> [stack[i] EXCEPT !.q = RemoveFirst(@, n)]]
    BY <2>1
  <2> QED
    BY <2>2, <2>3, <2>4
<1>7. CASE Turn
  <2>1. Frame("user") \in Frames /\ Frame("host") \in Frames
    OBVIOUS
  <2> QED
    BY <1>7, <2>1 DEF Turn
<1>8. CASE RunImmediates
  <2>1. Imm(immediateQueue) \in Frames /\ Frame("host") \in Frames
    OBVIOUS
  <2> QED
    BY <1>8, <2>1 DEF RunImmediates
<1>9. CASE HostTicks
  <2>1. stack' = <<Frame("ticks")>> \o Tail(stack) \/ stack' = <<>> \o Tail(stack)
    BY <1>9 DEF HostTicks
  <2>2. stack # <<>>
    BY <1>9 DEF HostTicks, Run, Top
  <2>3. <<>> \in Seq(Frames) /\ Tail(stack) \in Seq(Frames)
    BY <2>2
  <2>4. <<>> \o Tail(stack) \in Seq(Frames)
    BY <2>3
  <2> QED
    BY <2>1, <2>2, <2>4
<1> QED
  BY <1>1, <1>2, <1>3, <1>4, <1>5, <1>6, <1>7, <1>8, <1>9 DEF Next, UserCall, Step

\* The rest of TypeOK: the immediates, the flags, what the user did.
ImmType ==
  /\ immediateQueue \in Seq(Nat) /\ needImmediate \in BOOLEAN
  /\ set \in Nat /\ runsTicks \subseteq Nat /\ cleared \subseteq Nat
  /\ ranImmediates \in Seq(Nat)

FlagType ==
  /\ exiting \in BOOLEAN /\ throwing \in BOOLEAN /\ resume \subseteq Nat
  /\ userTicks \in 0 .. MaxTicks /\ userImmediates \in 0 .. MaxImmediates
  /\ throws \in 0 .. MaxThrows

\* Every step keeps the flags Boolean and the counters within their bounds.
LEMMA FlagStep ==
  ASSUME TypeOK, Next
  PROVE  FlagType'
<1> USE EventLoopAssumption DEF FlagType, tickq, used
<1>a. FlagType /\ posted \in Nat
  BY DEF TypeOK
<1>1. CASE TickNext \/ TockReturns \/ TicksEnd \/ TockThrows
  BY <1>1, <1>a DEF TickNext, TockReturns, TicksEnd, TockThrows
<1>2. CASE ImmNext \/ ImmEnd
  BY <1>2, <1>a DEF ImmNext, ImmEnd
<1>b. ASSUME NEW b \in BOOLEAN, NextTick(b) PROVE resume' \subseteq Nat
  <2>1. resume' = resume \/ resume' = resume \cup {posted + 1}
    BY <1>b DEF NextTick
  <2>2. posted + 1 \in Nat /\ resume \subseteq Nat
    BY <1>a
  <2> QED
    BY <2>1, <2>2
<1>3. CASE ImmThrows
  <2>1. resume' \subseteq Nat
    BY <1>3, <1>a, <1>b DEF ImmThrows
  <2> QED
    BY <1>3, <1>a, <2>1 DEF ImmThrows
<1>4. CASE UserNextTick
  <2>1. resume' \subseteq Nat
    BY <1>4, <1>b DEF UserNextTick
  <2> QED
    BY <1>4, <1>a, <2>1 DEF UserNextTick
<1>5. CASE UserSetImmediate
  BY <1>5, <1>a DEF UserSetImmediate
<1>6. CASE Throw
  BY <1>6, <1>a DEF Throw
<1>7. CASE \E n \in 1 .. MaxImmediates + MaxThrows : ClearImmediate(n)
  BY <1>7, <1>a DEF ClearImmediate
<1>8. CASE Return \/ Turn \/ RunImmediates \/ HostTicks \/ Unwind
  BY <1>8, <1>a DEF Return, Turn, RunImmediates, HostTicks, Unwind
<1>9. CASE FatalException
  BY <1>9, <1>a DEF FatalException, Caught, Uncaught
<1> QED
  BY <1>1, <1>2, <1>3, <1>4, <1>5, <1>6, <1>7, <1>8, <1>9 DEF Next, UserCall, Step

\* setImmediate() appends to the queue.
LEMMA SetImmediateType ==
  ASSUME ImmType, NEW b \in BOOLEAN, SetImmediate(b), ranImmediates' = ranImmediates
  PROVE  ImmType'
BY DEF ImmType, SetImmediate

\* Every step keeps the immediates typed.
LEMMA ImmStep ==
  ASSUME TypeOK, Next
  PROVE  ImmType'
<1>a. ImmType /\ stack \in Seq(Frames) /\ nextTickQueue \in Seq(Nat)
  BY DEF TypeOK, ImmType
<1>b. stack # <<>> => Head(stack).q \in Seq(Nat)
  BY <1>a, StackTypes
<1>1. CASE TickNext
  <2>1. immediateQueue' = immediateQueue \/ immediateQueue' = <<>>
    BY <1>1 DEF TickNext
  <2>2. immediateQueue \in Seq(Nat) /\ <<>> \in Seq(Nat)
    BY <1>a DEF ImmType
  <2>3. immediateQueue' \in Seq(Nat)
    BY <2>1, <2>2
  <2> QED
    BY <1>1, <1>a, <2>3 DEF TickNext, ImmType
<1>2. CASE TockReturns \/ TicksEnd \/ TockThrows \/ UserNextTick \/ Throw \/ Return
           \/ Turn \/ HostTicks \/ Unwind
  <2>1. UNCHANGED <<immq, ranImmediates>>
    BY <1>2 DEF TockReturns, TicksEnd, TockThrows, UserNextTick, Throw, Return, Turn,
                HostTicks, Unwind, hist
  <2> QED
    BY <1>a, <2>1 DEF immq, ImmType
<1>3. CASE ImmNext
  <2>1. Head(stack).q # <<>> /\ stack # <<>>
    BY <1>3 DEF ImmNext, Run, Top
  <2>2. Head(Head(stack).q) \in Nat
    BY <1>b, <2>1
  <2>3. ranImmediates' = Append(ranImmediates, Head(Head(stack).q)) /\ UNCHANGED immq
    BY <1>3 DEF ImmNext
  <2> QED
    BY <1>a, <2>2, <2>3 DEF immq, ImmType
<1>4. CASE ImmEnd
  BY <1>4, <1>a DEF ImmEnd, StillNeeded, ImmType, hist
<1>5. CASE ImmThrows
  <2>1. stack # <<>>
    BY <1>5 DEF ImmThrows, Top
  <2>2. immediateQueue' = immediateQueue \/ immediateQueue' = Head(stack).q \o immediateQueue
    BY <1>5 DEF ImmThrows, Remaining
  <2>3. immediateQueue \in Seq(Nat) /\ Head(stack).q \in Seq(Nat)
    BY <1>a, <1>b, <2>1 DEF ImmType
  <2>4. Head(stack).q \o immediateQueue \in Seq(Nat)
    BY <2>3
  <2>5. immediateQueue' \in Seq(Nat)
    BY <2>2, <2>3, <2>4
  <2> QED
    BY <1>5, <1>a, <2>5 DEF ImmThrows, ImmType, hist
<1>6. CASE UserSetImmediate
  BY <1>6, <1>a, SetImmediateType DEF UserSetImmediate, hist
<1>7. CASE \E n \in 1 .. MaxImmediates + MaxThrows : ClearImmediate(n)
  <2>1. PICK n \in 1 .. MaxImmediates + MaxThrows : ClearImmediate(n)
    BY <1>7
  <2>2. RemoveFirst(immediateQueue, n) \in Seq(Nat)
    BY <1>a, RemoveFirstElement DEF ImmType
  <2>3. n \in Nat
    BY <2>1, EventLoopAssumption
  <2>4. cleared' \subseteq Nat /\ immediateQueue' \in Seq(Nat) /\ needImmediate' \in BOOLEAN
    BY <1>a, <2>1, <2>2, <2>3 DEF ClearImmediate, ImmType
  <2> QED
    BY <1>a, <2>1, <2>4 DEF ClearImmediate, ImmType, hist
<1>8. CASE RunImmediates
  <2>1. immediateQueue' \in Seq(Nat)
    BY <1>8 DEF RunImmediates
  <2> QED
    BY <1>8, <1>a, <2>1 DEF RunImmediates, ImmType, hist
<1>9. CASE FatalException
  <2>1. ranImmediates' = ranImmediates
    BY <1>9 DEF FatalException, hist
  <2>2. CASE Caught
    BY <1>a, <2>1, <2>2, SetImmediateType DEF Caught
  <2>3. CASE Uncaught
    BY <1>a, <2>1, <2>3 DEF Uncaught, immq, ImmType
  <2> QED
    BY <1>9, <2>2, <2>3 DEF FatalException
<1> QED
  BY <1>1, <1>2, <1>3, <1>4, <1>5, <1>6, <1>7, <1>8, <1>9 DEF Next, UserCall, Step

-----------------------------------------------------------------------------
(* Theorems *)

\* The inductive step: type and tick order together are kept by every step.
LEMMA NextIInv == IInv /\ [Next]_vars => IInv'
<1> SUFFICES ASSUME TypeOK, TickOrder, [Next]_vars PROVE TypeOK' /\ TickOrder'
  BY DEF IInv
<1>1. TickType
  BY DEF TypeOK, TickType
<1>2. TickType' /\ TickOrder'
  BY <1>1, NextKeepsTicks
<1>3. CASE Next
  BY <1>2, <1>3, FlagStep, ImmStep, StackStep DEF TickType, FlagType, ImmType, TypeOK
<1>4. CASE UNCHANGED vars
  BY <1>4 DEF vars, tickq, immq, hist, used, TypeOK, TickOrder, TickCount
<1> QED
  BY <1>2, <1>3, <1>4

\* The inductive invariant, type correctness with the tick order, always holds.
THEOREM IInvHolds == Spec => []IInv
BY InitIInv, NextIInv, PTL DEF Spec

\* Every variable keeps its type, in every execution.
THEOREM TypeCorrect == Spec => []TypeOK
BY IInvHolds, PTL DEF IInv

\* process.nextTick: callbacks run once each in the order they were posted and
\* none is lost, for any number of ticks and exceptions and any trimming limit.
THEOREM TicksInOrder == Spec => []TickOrder
BY IInvHolds, PTL DEF IInv

-----------------------------------------------------------------------------
(* Immediates *)

\* The immediates in the local queues of a call stack.
Held(st) == UNION {ToSet(st[f].q) : f \in DOMAIN st}

\* No immediate is twice in a queue q or in the local queues of a call stack st;
\* only processImmediate has a local queue.
Apart(st, q) ==
  /\ IsInjective(q)
  /\ \A f \in DOMAIN st :
       /\ IsInjective(st[f].q) /\ ToSet(st[f].q) \cap ToSet(q) = {}
       /\ st[f].k # "imm" => st[f].q = <<>>
  /\ \A f, g \in DOMAIN st : f # g => ToSet(st[f].q) \cap ToSet(st[g].q) = {}

\* The immediates that have been set and have neither run nor been cleared.
Waiting == (1 .. set) \ (ToSet(ranImmediates) \cup cleared)

\* An immediate runs once and is not cleared as well.
Fates ==
  /\ IsInjective(ranImmediates)
  /\ ToSet(ranImmediates) \subseteq 1 .. set /\ cleared \subseteq 1 .. set
  /\ runsTicks \subseteq 1 .. set
  /\ ToSet(ranImmediates) \cap cleared = {}

\* The immediates that wait are the ones in some queue, each in one place.
Stored ==
  /\ Fates
  /\ Apart(stack, immediateQueue)
  /\ Held(stack) \cup ToSet(immediateQueue) = Waiting

\* A turn began in the host; below everything on the stack is the host, or the
\* loop of _tickCallback that took its place.
Bottom(st) == st # <<>> => st[Len(st)].k \in {"host", "ticks", "tock"}

\* While no exception unwinds the stack the host knows of the queue.  Ticks that
\* an exception left behind have an immediate that runs them.
Known ==
  /\ Bottom(stack)
  /\ exiting => stack = <<>> /\ ~throwing
  /\ ~throwing /\ ~exiting /\ immediateQueue # <<>> => needImmediate
  /\ stack = <<>> /\ ~throwing /\ ~exiting /\ kLength > 0 =>
       \E n \in ToSet(immediateQueue) : n \in runsTicks

Places == Stored /\ Known

\* The places of a stack with one more frame.
LEMMA PushPlaces ==
  ASSUME NEW a \in Frames, NEW T \in Seq(Frames)
  PROVE  /\ <<a>> \o T \in Seq(Frames)
         /\ DOMAIN (<<a>> \o T) = 1 .. Len(T) + 1 /\ Len(<<a>> \o T) = Len(T) + 1
         /\ (<<a>> \o T)[1] = a
         /\ \A f \in DOMAIN T : f + 1 \in DOMAIN (<<a>> \o T) /\ (<<a>> \o T)[f + 1] = T[f]
         /\ \A f \in DOMAIN (<<a>> \o T) : f # 1 => f - 1 \in DOMAIN T /\ (<<a>> \o T)[f] = T[f - 1]
<1>1. <<a>> \in Seq(Frames) /\ Len(<<a>>) = 1 /\ <<a>>[1] = a
  OBVIOUS
<1> DEFINE u == <<a>>
<1>2. u \in Seq(Frames) /\ Len(u) = 1 /\ u[1] = a
  BY <1>1
<1> HIDE DEF u
<1> DEFINE v == u \o T
<1>3. v \in Seq(Frames) /\ Len(v) = Len(u) + Len(T)
      /\ \A i \in 1 .. Len(u) + Len(T) : v[i] = IF i <= Len(u) THEN u[i] ELSE T[i - Len(u)]
  BY <1>2, ConcatProperties
<1> HIDE DEF v
<1>a. Len(v) = Len(T) + 1 /\ DOMAIN v = 1 .. Len(T) + 1
  BY <1>2, <1>3
<1>4. v[1] = a
  BY <1>2, <1>3
<1>5. \A f \in DOMAIN T : f + 1 \in DOMAIN v /\ v[f + 1] = T[f]
  BY <1>2, <1>3, <1>a
<1>6. \A f \in DOMAIN v : f # 1 => f - 1 \in DOMAIN T /\ v[f] = T[f - 1]
  BY <1>2, <1>3, <1>a
<1> QED
  BY <1>3, <1>a, <1>4, <1>5, <1>6 DEF u, v

\* What a stack with one more frame holds.
LEMMA HeldPush ==
  ASSUME NEW a \in Frames, NEW T \in Seq(Frames)
  PROVE  Held(<<a>> \o T) = ToSet(a.q) \cup Held(T)
<1> DEFINE st == <<a>> \o T
<1>1. /\ 1 \in DOMAIN st /\ st[1] = a
      /\ \A f \in DOMAIN T : f + 1 \in DOMAIN st /\ st[f + 1] = T[f]
      /\ \A f \in DOMAIN st : f # 1 => f - 1 \in DOMAIN T /\ st[f] = T[f - 1]
  BY PushPlaces
<1> HIDE DEF st
<1>2. ASSUME NEW n \in Held(st) PROVE n \in ToSet(a.q) \cup Held(T)
  <2>1. PICK f \in DOMAIN st : n \in ToSet(st[f].q)
    BY DEF Held
  <2>2. CASE f = 1
    BY <1>1, <2>1, <2>2
  <2>3. CASE f # 1
    BY <1>1, <2>1, <2>3 DEF Held
  <2> QED
    BY <2>2, <2>3
<1>3. ToSet(a.q) \subseteq Held(st)
  BY <1>1 DEF Held
<1>4. ASSUME NEW n \in Held(T) PROVE n \in Held(st)
  <2>1. PICK f \in DOMAIN T : n \in ToSet(T[f].q)
    BY DEF Held
  <2> QED
    BY <1>1, <2>1 DEF Held
<1>5. Held(st) = ToSet(a.q) \cup Held(T)
  BY <1>2, <1>3, <1>4
<1> QED
  BY <1>5 DEF st

\* When a stack with one more frame has every immediate in one place.
LEMMA ApartPush ==
  ASSUME NEW a \in Frames, NEW T \in Seq(Frames), NEW q
  PROVE  Apart(<<a>> \o T, q) <=>
           /\ Apart(T, q)
           /\ IsInjective(a.q) /\ (a.k # "imm" => a.q = <<>>)
           /\ ToSet(a.q) \cap (Held(T) \cup ToSet(q)) = {}
<1> DEFINE st == <<a>> \o T
<1>1. /\ 1 \in DOMAIN st /\ st[1] = a
      /\ \A f \in DOMAIN T : f + 1 \in DOMAIN st /\ st[f + 1] = T[f] /\ f \in Nat /\ f > 0
      /\ \A f \in DOMAIN st : f # 1 => f - 1 \in DOMAIN T /\ st[f] = T[f - 1]
      /\ DOMAIN st \subseteq Int
  BY PushPlaces
<1> HIDE DEF st
<1>2. ASSUME Apart(st, q)
      PROVE  /\ Apart(T, q) /\ IsInjective(a.q) /\ (a.k # "imm" => a.q = <<>>)
             /\ ToSet(a.q) \cap (Held(T) \cup ToSet(q)) = {}
  <2>1. IsInjective(a.q) /\ (a.k # "imm" => a.q = <<>>) /\ ToSet(a.q) \cap ToSet(q) = {}
    BY <1>1, <1>2 DEF Apart
  <2>2. \A f \in DOMAIN T : ToSet(a.q) \cap ToSet(T[f].q) = {}
    <3> TAKE f \in DOMAIN T
    <3>1. f + 1 \in DOMAIN st /\ st[f + 1] = T[f] /\ 1 # f + 1
      BY <1>1
    <3> QED
      BY <1>1, <1>2, <3>1 DEF Apart
  <2>3. ToSet(a.q) \cap Held(T) = {}
    BY <2>2 DEF Held
  <2>4. \A f \in DOMAIN T :
          /\ IsInjective(T[f].q) /\ ToSet(T[f].q) \cap ToSet(q) = {}
          /\ T[f].k # "imm" => T[f].q = <<>>
    BY <1>1, <1>2 DEF Apart
  <2>5. \A f, g \in DOMAIN T : f # g => ToSet(T[f].q) \cap ToSet(T[g].q) = {}
    <3> SUFFICES ASSUME NEW f \in DOMAIN T, NEW g \in DOMAIN T, f # g
                 PROVE  ToSet(T[f].q) \cap ToSet(T[g].q) = {}
      OBVIOUS
    <3>1. f + 1 # g + 1 /\ f + 1 \in DOMAIN st /\ g + 1 \in DOMAIN st
      BY <1>1
    <3>2. ToSet(st[f + 1].q) \cap ToSet(st[g + 1].q) = {}
      BY <1>2, <3>1 DEF Apart
    <3> QED
      BY <1>1, <3>2
  <2>6. IsInjective(q)
    BY <1>2 DEF Apart
  <2> QED
    BY <2>1, <2>3, <2>4, <2>5, <2>6 DEF Apart
<1>3. ASSUME Apart(T, q), IsInjective(a.q), a.k # "imm" => a.q = <<>>,
             ToSet(a.q) \cap (Held(T) \cup ToSet(q)) = {}
      PROVE  Apart(st, q)
  <2>1. ASSUME NEW f \in DOMAIN st
        PROVE  /\ IsInjective(st[f].q) /\ ToSet(st[f].q) \cap ToSet(q) = {}
               /\ st[f].k # "imm" => st[f].q = <<>>
    <3>1. CASE f = 1
      BY <1>1, <1>3, <3>1
    <3>2. CASE f # 1
      BY <1>1, <1>3, <3>2 DEF Apart
    <3> QED
      BY <3>1, <3>2
  <2>2. ASSUME NEW f \in DOMAIN T PROVE ToSet(a.q) \cap ToSet(T[f].q) = {}
    BY <1>3 DEF Held
  <2>3. ASSUME NEW f \in DOMAIN st, NEW g \in DOMAIN st, f # g
        PROVE  ToSet(st[f].q) \cap ToSet(st[g].q) = {}
    <3>1. CASE f = 1
      BY <1>1, <2>2, <2>3, <3>1
    <3>2. CASE g = 1
      BY <1>1, <2>2, <2>3, <3>2
    <3>3. CASE f # 1 /\ g # 1
      <4>1. f - 1 # g - 1 /\ f - 1 \in DOMAIN T /\ g - 1 \in DOMAIN T
        BY <1>1, <2>3, <3>3
      <4>2. ToSet(T[f - 1].q) \cap ToSet(T[g - 1].q) = {}
        BY <1>3, <4>1 DEF Apart
      <4> QED
        BY <1>1, <3>3, <4>2
    <3> QED
      BY <3>1, <3>2, <3>3
  <2>4. IsInjective(q)
    BY <1>3 DEF Apart
  <2> QED
    BY <2>1, <2>3, <2>4 DEF Apart
<1>4. Apart(st, q) <=> /\ Apart(T, q)
                       /\ IsInjective(a.q) /\ (a.k # "imm" => a.q = <<>>)
                       /\ ToSet(a.q) \cap (Held(T) \cup ToSet(q)) = {}
  BY <1>2, <1>3
<1> QED
  BY <1>4 DEF st

\* What is below everything when a frame is pushed.
LEMMA BottomPush ==
  ASSUME NEW a \in Frames, NEW T \in Seq(Frames)
  PROVE  Bottom(<<a>> \o T) <=>
           IF T = <<>> THEN a.k \in {"host", "ticks", "tock"} ELSE Bottom(T)
<1> DEFINE st == <<a>> \o T
<1>1. /\ 1 \in DOMAIN st /\ st[1] = a /\ Len(st) = Len(T) + 1 /\ st \in Seq(Frames)
      /\ \A f \in DOMAIN T : f + 1 \in DOMAIN st /\ st[f + 1] = T[f]
  BY PushPlaces
<1> HIDE DEF st
<1>2. CASE T = <<>>
  BY <1>1, <1>2 DEF Bottom
<1>3. CASE T # <<>>
  <2>1. Len(T) \in DOMAIN T
    BY <1>3
  <2>2. st[Len(st)] = T[Len(T)] /\ st # <<>>
    BY <1>1, <2>1
  <2> QED
    BY <1>3, <2>2 DEF Bottom, st
<1> QED
  BY <1>2, <1>3 DEF st

\* The empty stack.
LEMMA NoFrames ==
  ASSUME NEW q
  PROVE  Held(<<>>) = {} /\ Bottom(<<>>) /\ (Apart(<<>>, q) <=> IsInjective(q))
BY DEF Held, Bottom, Apart

\* A stack that is not empty is a frame on a stack; the forms the steps give it.
LEMMA TopFrame ==
  ASSUME stack \in Seq(Frames), stack # <<>>
  PROVE  \E a \in Frames : \E T \in Seq(Frames) :
           /\ a = Head(stack) /\ T = Tail(stack) /\ stack = <<a>> \o T
<1> WITNESS Head(stack) \in Frames
<1> WITNESS Tail(stack) \in Seq(Frames)
<1> QED
  OBVIOUS

\* Two frames on a stack.
LEMMA TwoFrames ==
  ASSUME NEW a \in Frames, NEW b \in Frames, NEW T \in Seq(Frames)
  PROVE  <<a, b>> \o T = <<a>> \o (<<b>> \o T)
<1> DEFINE u == <<a>>  v == <<b>>  w == <<a, b>>
<1>1. u \in Seq(Frames) /\ v \in Seq(Frames) /\ w = u \o v
  <2>1. /\ u \in Seq(Frames) /\ Len(u) = 1 /\ u[1] = a
        /\ v \in Seq(Frames) /\ Len(v) = 1 /\ v[1] = b
        /\ w \in Seq(Frames) /\ Len(w) = 2 /\ w[1] = a /\ w[2] = b
    OBVIOUS
  <2> HIDE DEF u, v, w
  <2>2. /\ u \o v \in Seq(Frames) /\ Len(u \o v) = Len(u) + Len(v)
        /\ \A i \in 1 .. Len(u) + Len(v) :
             (u \o v)[i] = IF i <= Len(u) THEN u[i] ELSE v[i - Len(u)]
    BY <2>1, ConcatProperties, Zenon
  <2> DEFINE c == u \o v
  <2> HIDE DEF c
  <2>3. c \in Seq(Frames) /\ Len(c) = 2 /\ c[1] = a /\ c[2] = b
    BY <2>1, <2>2 DEF c
  <2>4. w = c
    BY <2>1, <2>3, SeqEqual
  <2> QED
    BY <2>1, <2>4 DEF c
<1>2. \A r, s, t \in Seq(Frames) : (r \o s) \o t = r \o (s \o t)
  BY ConcatAssociative
<1> HIDE DEF u, v, w
<1>3. (u \o v) \o T = u \o (v \o T)
  BY <1>1, <1>2
<1> QED
  BY <1>1, <1>3 DEF u, v, w

\* a is the top frame of the call stack and T what is below it, and every
\* immediate is in one place.
OnTop(a, T) ==
  /\ a = Head(stack) /\ T = Tail(stack) /\ stack = <<a>> \o T
  /\ Held(stack) = ToSet(a.q) \cup Held(T)
  /\ Apart(T, immediateQueue)
  /\ IsInjective(a.q) /\ (a.k # "imm" => a.q = <<>>)
  /\ ToSet(a.q) \cap (Held(T) \cup ToSet(immediateQueue)) = {}
  /\ Bottom(T) /\ (T = <<>> => a.k \in {"host", "ticks", "tock"})

\* A call stack that is not empty has a top frame.
LEMMA TopPlaces ==
  ASSUME TypeOK, Places, stack # <<>>
  PROVE  \E a \in Frames, T \in Seq(Frames) : OnTop(a, T)
<1>1. PICK a \in Frames : \E T \in Seq(Frames) :
        a = Head(stack) /\ T = Tail(stack) /\ stack = <<a>> \o T
  BY TopFrame DEF TypeOK
<1>2. PICK T \in Seq(Frames) : a = Head(stack) /\ T = Tail(stack) /\ stack = <<a>> \o T
  BY <1>1
<1>3. Held(stack) = ToSet(a.q) \cup Held(T)
  BY <1>2, HeldPush
<1>4. Apart(<<a>> \o T, immediateQueue) /\ Bottom(<<a>> \o T)
  BY <1>2 DEF Places, Stored, Known
<1>5. /\ Apart(T, immediateQueue)
      /\ IsInjective(a.q) /\ (a.k # "imm" => a.q = <<>>)
      /\ ToSet(a.q) \cap (Held(T) \cup ToSet(immediateQueue)) = {}
  BY <1>4, ApartPush
<1>6. Bottom(T) /\ (T = <<>> => a.k \in {"host", "ticks", "tock"})
  BY <1>4, BottomPush DEF Bottom
<1> QED
  BY <1>2, <1>3, <1>5, <1>6 DEF OnTop

\* A frame without a local queue changes no place.
LEMMA PushEmpty ==
  ASSUME NEW k \in {"user", "host", "ticks", "tock"}, NEW T \in Seq(Frames), NEW q
  PROVE  /\ Frame(k) \in Frames /\ <<Frame(k)>> \o T \in Seq(Frames) /\ <<Frame(k)>> \o T # <<>>
         /\ Held(<<Frame(k)>> \o T) = Held(T)
         /\ Apart(<<Frame(k)>> \o T, q) <=> Apart(T, q)
         /\ Bottom(<<Frame(k)>> \o T) <=>
              IF T = <<>> THEN k \in {"host", "ticks", "tock"} ELSE Bottom(T)
<1>1. Frame(k) \in Frames
  BY FrameTypes
<1>2. Frame(k).q = <<>> /\ Frame(k).k = k
  BY DEF Frame
<1>3. ToSet(<<>>) = {} /\ IsInjective(<<>>)
  BY EmptySequence
<1> DEFINE f == Frame(k)
<1>4. f \in Frames /\ f.q = <<>> /\ f.k = k
  BY <1>1, <1>2
<1> HIDE DEF f
<1>5. <<f>> \o T \in Seq(Frames) /\ <<f>> \o T # <<>>
  BY <1>4, PushPlaces
<1>6. Held(<<f>> \o T) = Held(T)
  BY <1>3, <1>4, HeldPush
<1>7. Apart(<<f>> \o T, q) <=> Apart(T, q)
  <2>1. Apart(<<f>> \o T, q) <=>
           /\ Apart(T, q)
           /\ IsInjective(f.q) /\ (f.k # "imm" => f.q = <<>>)
           /\ ToSet(f.q) \cap (Held(T) \cup ToSet(q)) = {}
    BY <1>4, ApartPush
  <2> QED
    BY <1>3, <1>4, <2>1
<1>8. Bottom(<<f>> \o T) <=> IF T = <<>> THEN k \in {"host", "ticks", "tock"} ELSE Bottom(T)
  BY <1>4, BottomPush
<1> QED
  BY <1>4, <1>5, <1>6, <1>7, <1>8 DEF f

\* processImmediate takes over a queue.
LEMMA PushImm ==
  ASSUME NEW r \in Seq(Nat), NEW T \in Seq(Frames), NEW q, T # <<>>
  PROVE  /\ Imm(r) \in Frames /\ <<Imm(r)>> \o T \in Seq(Frames) /\ <<Imm(r)>> \o T # <<>>
         /\ Held(<<Imm(r)>> \o T) = ToSet(r) \cup Held(T)
         /\ Apart(<<Imm(r)>> \o T, q) <=>
              Apart(T, q) /\ IsInjective(r) /\ ToSet(r) \cap (Held(T) \cup ToSet(q)) = {}
         /\ Bottom(<<Imm(r)>> \o T) <=> Bottom(T)
<1> DEFINE f == Imm(r)
<1>1. f \in Frames
  BY FrameTypes
<1>2. f.q = r /\ f.k = "imm"
  BY DEF Imm
<1> HIDE DEF f
<1>3. <<f>> \o T \in Seq(Frames) /\ <<f>> \o T # <<>>
  BY <1>1, PushPlaces
<1>4. Held(<<f>> \o T) = ToSet(r) \cup Held(T)
  BY <1>1, <1>2, HeldPush
<1>5. Apart(<<f>> \o T, q) <=>
        Apart(T, q) /\ IsInjective(r) /\ ToSet(r) \cap (Held(T) \cup ToSet(q)) = {}
  <2>1. Apart(<<f>> \o T, q) <=>
           /\ Apart(T, q)
           /\ IsInjective(f.q) /\ (f.k # "imm" => f.q = <<>>)
           /\ ToSet(f.q) \cap (Held(T) \cup ToSet(q)) = {}
    BY <1>1, ApartPush
  <2> QED
    BY <1>2, <2>1
<1>6. Bottom(<<f>> \o T) <=> Bottom(T)
  BY <1>1, BottomPush
<1> QED
  BY <1>1, <1>3, <1>4, <1>5, <1>6 DEF f

\* A step that changes no immediate and leaves every local queue somewhere.
LEMMA KeepStored ==
  ASSUME Stored, UNCHANGED <<immediateQueue, set, runsTicks, cleared, ranImmediates>>,
         Held(stack') = Held(stack), Apart(stack', immediateQueue)
  PROVE  Stored'
<1>1. Fates'
  BY DEF Stored, Fates
<1>2. Waiting' = Waiting
  BY DEF Waiting
<1>3. Held(stack)' = Held(stack') /\ Apart(stack, immediateQueue)' = Apart(stack', immediateQueue')
  BY DEF Held, Apart
<1> QED
  BY <1>1, <1>2, <1>3 DEF Stored

\* The steps that pop the frame of a call, replace it, or call from it, and leave
\* the immediates alone.
LEMMA CallsKeepPlaces ==
  ASSUME TypeOK, Places,
         \/ TockReturns \/ TicksEnd \/ TockThrows \/ Throw \/ Return \/ Unwind
         \/ HostTicks \/ (TickNext /\ nextTickQueue[kIndex + 1] \notin resume)
  PROVE  Places'
<1>a. stack # <<>> /\ Head(stack).k # "imm"
  BY DEF TockReturns, TicksEnd, TockThrows, Throw, Return, Unwind, HostTicks, TickNext,
         Run, Top
<1>1. PICK a \in Frames, T \in Seq(Frames) : OnTop(a, T)
  BY <1>a, TopPlaces
<1>2. /\ a = Head(stack) /\ T = Tail(stack) /\ a.q = <<>>
      /\ Held(stack) = ToSet(a.q) \cup Held(T)
      /\ Apart(T, immediateQueue)
      /\ Bottom(T) /\ (T = <<>> => a.k \in {"host", "ticks", "tock"})
  BY <1>a, <1>1 DEF OnTop
<1>3. Held(T) = Held(stack)
  BY <1>2, EmptySequence
<1>4. /\ UNCHANGED <<immediateQueue, set, runsTicks, cleared, ranImmediates>>
      /\ UNCHANGED <<needImmediate, exiting>>
      /\ throwing' = throwing \/ throwing' = TRUE
  BY DEF TockReturns, TicksEnd, TockThrows, Throw, Return, Unwind, HostTicks, TickNext,
         immq, hist
<1>5. \/ stack' = T
      \/ stack' = <<Frame("ticks")>> \o T
      \/ stack' = <<Frame("user"), Frame("tock")>> \o T
  <2>1. <<>> \o T = T
    BY <1>2, ConcatEmptySeq
  <2> QED
    BY <1>2, <2>1 DEF TockReturns, TicksEnd, TockThrows, Throw, Return, Unwind, HostTicks, TickNext
<1>b. /\ <<Frame("ticks")>> \o T # <<>>
      /\ <<Frame("user"), Frame("tock")>> \o T # <<>>
  <2>1. \A k \in {"ticks", "user", "tock"} : \A U \in Seq(Frames) :
          <<Frame(k)>> \o U \in Seq(Frames) /\ <<Frame(k)>> \o U # <<>>
    BY PushPlaces, FrameTypes
  <2> QED
    BY <2>1, TwoFrames, FrameTypes
<1>6. Held(stack') = Held(stack) /\ Apart(stack', immediateQueue) /\ Bottom(stack')
  <2>1. CASE stack' = T
    BY <1>2, <1>3, <2>1
  <2>2. CASE stack' = <<Frame("ticks")>> \o T
    BY <1>2, <1>3, <2>2, PushEmpty
  <2>3. CASE stack' = <<Frame("user"), Frame("tock")>> \o T
    <3> DEFINE U == <<Frame("tock")>> \o T
    <3>1. U \in Seq(Frames) /\ Held(U) = Held(T) /\ Apart(U, immediateQueue) /\ Bottom(U)
      BY <1>2, PushEmpty
    <3>2. U # <<>>
      BY PushPlaces, PushEmpty
    <3>3. stack' = <<Frame("user")>> \o U
      BY <2>3, TwoFrames, PushEmpty
    <3> HIDE DEF U
    <3> QED
      BY <1>3, <3>1, <3>2, <3>3, PushEmpty
  <2> QED
    BY <1>5, <2>1, <2>2, <2>3
<1>7. Stored'
  BY <1>4, <1>6, KeepStored DEF Places
<1>8. Known'
  <2>1. ~exiting /\ ~exiting'
    BY <1>a, <1>4 DEF Places, Known
  <2>2. Bottom(stack)'
    BY <1>6 DEF Bottom
  <2>3. ~throwing' /\ ~exiting' /\ immediateQueue' # <<>> => needImmediate'
    BY <1>4, <2>1 DEF Places, Known
  <2>4. ASSUME stack' = <<>>, ~throwing', kLength' > 0
        PROVE  FALSE
    <3>1. ~throwing
      BY <1>4, <2>4
    <3>2. T = <<>>
      BY <1>5, <1>b, <2>4
    <3>3. HostTicks \/ TicksEnd
      <4>1. ~TockReturns
        BY <1>2, <1>b, <2>4 DEF TockReturns
      <4>2. ~(TickNext /\ nextTickQueue[kIndex + 1] \notin resume)
        BY <1>2, <1>b, <2>4 DEF TickNext
      <4>3. ~(TockThrows \/ Unwind \/ Throw)
        BY <2>4, <3>1 DEF TockThrows, Unwind, Throw
      <4>4. ~Return
        BY <1>2, <3>2 DEF Return, Run, Top
      <4> QED
        BY <4>1, <4>2, <4>3, <4>4
    <3>4. CASE HostTicks
      <4>1. kLength > 0
        BY <2>4, <3>4 DEF HostTicks, tickq
      <4>2. stack' = <<Frame("ticks")>> \o T
        BY <1>2, <3>4, <4>1 DEF HostTicks
      <4> QED
        BY <1>b, <2>4, <4>2
    <3>5. CASE TicksEnd
      <4>1. kIndex >= kLength /\ kIndex \in Nat /\ kLength \in Nat
        BY <3>5 DEF TicksEnd, TypeOK
      <4>2. kLength' = 0
        BY <3>5, <4>1 DEF TicksEnd, TickDone
      <4> QED
        BY <2>4, <4>2
    <3> QED
      BY <3>3, <3>4, <3>5
  <2> QED
    BY <2>1, <2>2, <2>3, <2>4 DEF Known
<1> QED
  BY <1>7, <1>8 DEF Places

\* A callback runs; its call of process.nextTick queues no immediate.
LEMMA UserNextTickKeepsPlaces ==
  ASSUME TypeOK, Places, UserNextTick
  PROVE  Places'
<1>1. UNCHANGED <<immq, exiting, throwing, stack, ranImmediates>> /\ stack # <<>>
  BY DEF UserNextTick, Run, Top, hist
<1>2. Stored'
  BY <1>1, KeepStored DEF Places, Stored, immq
<1>3. Known'
  BY <1>1 DEF Places, Known, Bottom, immq
<1> QED
  BY <1>2, <1>3 DEF Places

\* A tick calls processImmediate, which takes the queue over.
LEMMA ResumeKeepsPlaces ==
  ASSUME TypeOK, Places, TickNext, nextTickQueue[kIndex + 1] \in resume
  PROVE  Places'
<1>a. stack # <<>> /\ Head(stack).k # "imm" /\ ~throwing
  BY DEF TickNext, Run, Top
<1>1. PICK a \in Frames, T \in Seq(Frames) : OnTop(a, T)
  BY <1>a, TopPlaces
<1>2. /\ T = Tail(stack) /\ a.q = <<>>
      /\ Held(stack) = ToSet(a.q) \cup Held(T)
      /\ Apart(T, immediateQueue) /\ Bottom(T)
  BY <1>a, <1>1 DEF OnTop
<1>3. Held(T) = Held(stack) /\ immediateQueue \in Seq(Nat)
  BY <1>2, EmptySequence DEF TypeOK
<1>4. /\ UNCHANGED <<set, runsTicks, cleared, ranImmediates, needImmediate, exiting, throwing>>
      /\ immediateQueue' = <<>>
      /\ stack' = <<Imm(immediateQueue), Frame("tock")>> \o T
  BY <1>2 DEF TickNext
<1> DEFINE U == <<Frame("tock")>> \o T
<1>5. /\ U \in Seq(Frames) /\ Held(U) = Held(T) /\ Bottom(U)
      /\ Apart(U, immediateQueue) /\ U # <<>>
  BY <1>2, PushEmpty
<1>6. stack' = <<Imm(immediateQueue)>> \o U
  BY <1>3, <1>4, TwoFrames, FrameTypes
<1> HIDE DEF U
<1>7. ToSet(<<>>) = {} /\ IsInjective(<<>>)
  BY EmptySequence
<1>8. Apart(U, <<>>)
  BY <1>5, <1>7 DEF Apart
<1>9. IsInjective(immediateQueue) /\ ToSet(immediateQueue) \cap Held(U) = {}
  <2>1. \A f \in DOMAIN U : ToSet(U[f].q) \cap ToSet(immediateQueue) = {}
    BY <1>5 DEF Apart
  <2> QED
    BY <1>5, <2>1 DEF Apart, Held
<1>10. /\ Held(stack') = ToSet(immediateQueue) \cup Held(stack)
       /\ Apart(stack', <<>>) /\ Bottom(stack') /\ stack' # <<>>
  <2> DEFINE r == immediateQueue
             e == <<>>
  <2>1. /\ r \in Seq(Nat) /\ IsInjective(r) /\ ToSet(r) \cap Held(U) = {}
        /\ Apart(U, e) /\ ToSet(e) = {}
    BY <1>3, <1>7, <1>8, <1>9
  <2> HIDE DEF e, r
  <2>2. /\ <<Imm(r)>> \o U # <<>>
        /\ Held(<<Imm(r)>> \o U) = ToSet(r) \cup Held(U)
        /\ Apart(<<Imm(r)>> \o U, e)
        /\ Bottom(<<Imm(r)>> \o U)
    BY <1>5, <2>1, PushImm
  <2> QED
    BY <1>3, <1>5, <1>6, <2>2 DEF r, e
<1>11. Fates' /\ Waiting' = Waiting
  BY <1>4 DEF Places, Stored, Fates, Waiting
<1>12. Held(stack)' \cup ToSet(immediateQueue)' = Waiting'
  <2>1. Held(stack)' = Held(stack') /\ ToSet(immediateQueue)' = {}
    BY <1>4, <1>7 DEF Held
  <2> QED
    BY <1>10, <1>11, <2>1 DEF Places, Stored
<1>13. Apart(stack, immediateQueue)'
  BY <1>4, <1>10 DEF Apart
<1>14. Known'
  BY <1>a, <1>4, <1>10 DEF Places, Known, Bottom
<1> QED
  BY <1>11, <1>12, <1>13, <1>14 DEF Places, Stored

\* The loop of processImmediate moves an immediate from its queue to those that ran.
LEMMA ImmNextKeepsPlaces ==
  ASSUME TypeOK, Places, ImmNext
  PROVE  Places'
<1>a. stack # <<>> /\ Head(stack).q # <<>> /\ ~throwing
  BY DEF ImmNext, Run, Top
<1>1. PICK a \in Frames, T \in Seq(Frames) : OnTop(a, T)
  BY <1>a, TopPlaces
<1>2. /\ a = Head(stack) /\ T = Tail(stack) /\ a.q # <<>> /\ a.q \in Seq(Nat)
      /\ Held(stack) = ToSet(a.q) \cup Held(T)
      /\ Apart(T, immediateQueue) /\ Bottom(T) /\ T # <<>>
      /\ IsInjective(a.q) /\ ToSet(a.q) \cap (Held(T) \cup ToSet(immediateQueue)) = {}
  BY <1>a, <1>1 DEF OnTop, Frames
<1>3. PICK h, r : /\ h = Head(a.q) /\ r = Tail(a.q) /\ r \in Seq(Nat) /\ h \in Nat
                  /\ ToSet(a.q) = {h} \cup ToSet(r) /\ IsInjective(r) /\ h \notin ToSet(r)
  BY <1>2, TailElements
<1>4. PICK k \in {"ticks", "user"} :
        /\ ranImmediates' = Append(ranImmediates, h)
        /\ stack' = <<Frame(k), Imm(r)>> \o T
        /\ UNCHANGED <<immediateQueue, set, runsTicks, cleared, needImmediate, exiting, throwing>>
  BY <1>2, <1>3 DEF ImmNext, immq
<1> DEFINE U == <<Imm(r)>> \o T
<1>5. /\ U \in Seq(Frames) /\ U # <<>> /\ Held(U) = ToSet(r) \cup Held(T)
      /\ Apart(U, immediateQueue) /\ Bottom(U)
  <2>1. ToSet(r) \cap (Held(T) \cup ToSet(immediateQueue)) = {}
    BY <1>2, <1>3
  <2> QED
    BY <1>2, <1>3, <2>1, PushImm
<1>6. stack' = <<Frame(k)>> \o U
  <2>1. Frame(k) \in Frames /\ Imm(r) \in Frames
    BY <1>3, FrameTypes
  <2> QED
    BY <1>4, <2>1, TwoFrames
<1> HIDE DEF U
<1>7. /\ Held(stack') = Held(U) /\ Apart(stack', immediateQueue) /\ Bottom(stack')
      /\ stack' # <<>>
  BY <1>5, <1>6, PushEmpty, PushPlaces
<1>8. /\ h \in Waiting /\ h \notin ToSet(immediateQueue) /\ h \notin Held(U)
  BY <1>2, <1>3, <1>5 DEF Places, Stored
<1>9. /\ ToSet(ranImmediates') = ToSet(ranImmediates) \cup {h}
      /\ IsInjective(ranImmediates')
  <2>1. ranImmediates \in Seq(Nat) /\ IsInjective(ranImmediates) /\ h \notin ToSet(ranImmediates)
    BY <1>8 DEF TypeOK, Places, Stored, Fates, Waiting
  <2> QED
    BY <1>3, <1>4, <2>1, AppendElement
<1>10. Fates'
  <2>1. ToSet(ranImmediates)' = ToSet(ranImmediates')
    BY DEF ToSet
  <2> QED
    BY <1>4, <1>8, <1>9, <2>1 DEF Places, Stored, Fates, Waiting
<1>11. Waiting' = Waiting \ {h}
  BY <1>4, <1>9 DEF Waiting
<1>12. Held(stack)' \cup ToSet(immediateQueue)' = Waiting'
  <2>1. Held(stack)' = Held(stack') /\ ToSet(immediateQueue)' = ToSet(immediateQueue)
    BY <1>4 DEF Held
  <2>2. Held(stack) \cup ToSet(immediateQueue) = Waiting
    BY DEF Places, Stored
  <2>3. Held(stack) = Held(U) \cup {h}
    BY <1>2, <1>3, <1>5
  <2> QED
    BY <1>7, <1>8, <1>11, <2>1, <2>2, <2>3
<1>13. Apart(stack, immediateQueue)'
  BY <1>4, <1>7 DEF Apart
<1>14. Known'
  BY <1>a, <1>4, <1>7 DEF Places, Known, Bottom
<1> QED
  BY <1>10, <1>12, <1>13, <1>14 DEF Places, Stored

\* processImmediate ends when its queue is empty, and looks whether the host's is.
LEMMA ImmEndKeepsPlaces ==
  ASSUME TypeOK, Places, ImmEnd
  PROVE  Places'
<1>a. stack # <<>> /\ Head(stack).q = <<>> /\ Head(stack).k = "imm" /\ ~throwing
  BY DEF ImmEnd, Run, Top
<1>1. PICK a \in Frames, T \in Seq(Frames) : OnTop(a, T)
  BY <1>a, TopPlaces
<1>2. /\ T = Tail(stack) /\ a.q = <<>> /\ Held(stack) = ToSet(a.q) \cup Held(T)
      /\ Apart(T, immediateQueue) /\ Bottom(T) /\ T # <<>>
  BY <1>a, <1>1 DEF OnTop
<1>3. Held(T) = Held(stack)
  BY <1>2, EmptySequence
<1>4. /\ stack' = T /\ needImmediate' = (needImmediate /\ immediateQueue # <<>>)
      /\ UNCHANGED <<immediateQueue, set, runsTicks, cleared, ranImmediates, exiting, throwing>>
  BY <1>2 DEF ImmEnd, StillNeeded, hist
<1>5. Stored'
  BY <1>2, <1>3, <1>4, KeepStored DEF Places
<1>6. Known'
  BY <1>a, <1>2, <1>4 DEF Places, Known, Bottom
<1> QED
  BY <1>5, <1>6 DEF Places

\* An exception leaves processImmediate; what its queue still holds goes to the
\* front of the host's.
LEMMA ImmThrowsKeepsPlaces ==
  ASSUME TypeOK, Places, ImmThrows
  PROVE  Places'
<1>a. stack # <<>> /\ Head(stack).k = "imm" /\ throwing
  BY DEF ImmThrows, Top
<1>1. PICK a \in Frames, T \in Seq(Frames) : OnTop(a, T)
  BY <1>a, TopPlaces
<1>2. /\ a = Head(stack) /\ T = Tail(stack) /\ a.q \in Seq(Nat)
      /\ Held(stack) = ToSet(a.q) \cup Held(T)
      /\ Apart(T, immediateQueue) /\ Bottom(T) /\ IsInjective(a.q)
      /\ ToSet(a.q) \cap (Held(T) \cup ToSet(immediateQueue)) = {}
  BY <1>1 DEF OnTop, Frames
<1>3. /\ stack' = T /\ UNCHANGED <<set, runsTicks, cleared, ranImmediates, exiting, throwing>>
      /\ \/ a.q = <<>> /\ immediateQueue' = immediateQueue
         \/ immediateQueue' = a.q \o immediateQueue
  BY <1>2 DEF ImmThrows, Remaining, hist
<1>4. immediateQueue \in Seq(Nat) /\ IsInjective(immediateQueue)
  BY DEF TypeOK, Places, Stored, Apart
<1>5. /\ ToSet(immediateQueue') = ToSet(a.q) \cup ToSet(immediateQueue)
      /\ IsInjective(immediateQueue')
  <2>1. CASE a.q = <<>> /\ immediateQueue' = immediateQueue
    BY <1>4, <2>1, EmptySequence
  <2>2. CASE immediateQueue' = a.q \o immediateQueue
    <3> DEFINE r == a.q
               s == immediateQueue
    <3>1. /\ r \in Seq(Nat) /\ s \in Seq(Nat) /\ IsInjective(r) /\ IsInjective(s)
          /\ ToSet(r) \cap ToSet(s) = {}
      BY <1>2, <1>4
    <3>2. immediateQueue' = r \o s
      BY <2>2
    <3> HIDE DEF r, s
    <3>3. ToSet(r \o s) = ToSet(r) \cup ToSet(s) /\ IsInjective(r \o s)
      BY <3>1, ConcatElements, InjectiveConcat
    <3>4. ToSet(immediateQueue') = ToSet(r) \cup ToSet(s) /\ IsInjective(immediateQueue')
      BY <3>2, <3>3
    <3> QED
      BY <3>4 DEF r, s
  <2> QED
    BY <1>3, <2>1, <2>2
<1>6. Fates' /\ Waiting' = Waiting
  BY <1>3 DEF Places, Stored, Fates, Waiting
<1>7. Held(stack)' \cup ToSet(immediateQueue)' = Waiting'
  <2>1. Held(stack)' = Held(T) /\ ToSet(immediateQueue)' = ToSet(immediateQueue')
    BY <1>3 DEF Held, ToSet
  <2>2. Held(stack) \cup ToSet(immediateQueue) = Waiting
    BY DEF Places, Stored
  <2> QED
    BY <1>2, <1>5, <1>6, <2>1, <2>2
<1>8. Apart(T, immediateQueue')
  <2>1. \A f \in DOMAIN T : ToSet(T[f].q) \subseteq Held(T)
    BY DEF Held
  <2>2. \A f \in DOMAIN T : ToSet(T[f].q) \cap ToSet(immediateQueue) = {}
    BY <1>2 DEF Apart
  <2>3. \A f \in DOMAIN T : ToSet(T[f].q) \cap ToSet(immediateQueue') = {}
    BY <1>2, <1>5, <2>1, <2>2
  <2> QED
    BY <1>2, <1>5, <2>3 DEF Apart
<1>9. Apart(stack, immediateQueue)'
  BY <1>3, <1>8 DEF Apart
<1>10. Known'
  BY <1>a, <1>2, <1>3 DEF Places, Known, Bottom
<1> QED
  BY <1>6, <1>7, <1>9, <1>10 DEF Places, Stored

\* setImmediate() puts a new immediate at the end of the host's queue.
LEMMA SetImmediateStores ==
  ASSUME TypeOK, Stored, NEW b \in BOOLEAN, SetImmediate(b), stack' = stack,
         ranImmediates' = ranImmediates
  PROVE  /\ Stored' /\ needImmediate'
         /\ set + 1 \in ToSet(immediateQueue') /\ (b => set + 1 \in runsTicks')
         /\ runsTicks \subseteq runsTicks' /\ ToSet(immediateQueue) \subseteq ToSet(immediateQueue')
<1> DEFINE n == set + 1
<1>1. /\ set' = set + 1 /\ immediateQueue' = Append(immediateQueue, n) /\ needImmediate'
      /\ runsTicks' = (IF b THEN runsTicks \cup {n} ELSE runsTicks) /\ cleared' = cleared
  BY DEF SetImmediate
<1>2. set \in Nat /\ n \in Nat /\ immediateQueue \in Seq(Nat)
  BY DEF TypeOK
<1>3. 1 .. set' = (1 .. set) \cup {n} /\ n \notin 1 .. set
  BY <1>1, <1>2
<1> HIDE DEF n
<1>4. Waiting \subseteq 1 .. set
  BY DEF Waiting
<1>5. n \notin ToSet(immediateQueue) /\ n \notin Held(stack) /\ n \notin ToSet(ranImmediates) \cup cleared
  BY <1>3, <1>4 DEF Stored, Fates
<1>6. /\ ToSet(immediateQueue') = ToSet(immediateQueue) \cup {n}
      /\ IsInjective(immediateQueue')
  <2>1. IsInjective(immediateQueue)
    BY DEF Stored, Apart
  <2> QED
    BY <1>1, <1>2, <1>5, <2>1, AppendElement
<1>7. Fates'
  BY <1>1, <1>3 DEF Stored, Fates
<1>8. Waiting' = Waiting \cup {n}
  BY <1>1, <1>3, <1>5 DEF Waiting
<1>9. Held(stack)' \cup ToSet(immediateQueue)' = Waiting'
  <2>1. Held(stack)' = Held(stack) /\ ToSet(immediateQueue)' = ToSet(immediateQueue')
    BY DEF Held, ToSet
  <2> QED
    BY <1>6, <1>8, <2>1 DEF Stored
<1>10. Apart(stack, immediateQueue)'
  <2>1. \A f \in DOMAIN stack : ToSet(stack[f].q) \cap ToSet(immediateQueue') = {}
    <3> TAKE f \in DOMAIN stack
    <3>1. n \notin ToSet(stack[f].q)
      BY <1>5 DEF Held
    <3>2. ToSet(stack[f].q) \cap ToSet(immediateQueue) = {}
      BY DEF Stored, Apart
    <3> QED
      BY <1>6, <3>1, <3>2
  <2>2. Apart(stack, immediateQueue)
    BY DEF Stored
  <2> QED
    BY <1>6, <2>1, <2>2 DEF Apart
<1>11. Stored'
  BY <1>7, <1>9, <1>10 DEF Stored
<1> QED
  BY <1>1, <1>6, <1>11 DEF n

\* A callback sets an immediate.
LEMMA UserSetImmediateKeepsPlaces ==
  ASSUME TypeOK, Places, UserSetImmediate
  PROVE  Places'
<1>1. SetImmediate(FALSE) /\ UNCHANGED <<tickq, exiting, throwing, stack, ranImmediates>> /\ stack # <<>>
  BY DEF UserSetImmediate, Run, Top, hist
<1>2. Stored' /\ needImmediate'
  BY <1>1, SetImmediateStores DEF Places
<1>3. Known'
  BY <1>1, <1>2 DEF Places, Known, Bottom
<1> QED
  BY <1>2, <1>3 DEF Places

\* An exception nobody catches on the stack: the process ends, or an immediate is
\* set that runs the ticks left.
LEMMA FatalExceptionKeepsPlaces ==
  ASSUME TypeOK, Places, FatalException
  PROVE  Places'
<1>1. throwing /\ stack = <<>> /\ stack' = stack /\ ranImmediates' = ranImmediates
  BY DEF FatalException, hist
<1>2. CASE Caught
  <2>1. SetImmediate(TRUE) /\ throwing' = FALSE /\ exiting' = exiting
    BY <1>2 DEF Caught
  <2>2. Stored' /\ needImmediate' /\ set + 1 \in ToSet(immediateQueue') /\ set + 1 \in runsTicks'
    BY <1>1, <2>1, SetImmediateStores DEF Places
  <2>3. Known'
    <3>1. ToSet(immediateQueue)' = ToSet(immediateQueue')
      BY DEF ToSet
    <3> QED
      BY <1>1, <2>1, <2>2, <3>1 DEF Places, Known, Bottom
  <2> QED
    BY <2>2, <2>3 DEF Places
<1>3. CASE Uncaught
  <2>1. exiting' /\ ~throwing' /\ UNCHANGED immq
    BY <1>3 DEF Uncaught
  <2>2. Stored'
    BY <1>1, <2>1, KeepStored DEF Places, Stored, immq
  <2>3. Known'
    BY <1>1, <2>1 DEF Known, Bottom
  <2> QED
    BY <2>2, <2>3 DEF Places
<1> QED
  BY <1>2, <1>3 DEF FatalException

\* The host calls user code, or processImmediate with the queue.
LEMMA TurnKeepsPlaces ==
  ASSUME TypeOK, Places, Turn \/ RunImmediates
  PROVE  Places'
<1>1. /\ stack = <<>> /\ ~exiting /\ ~throwing
      /\ UNCHANGED <<set, runsTicks, cleared, ranImmediates, needImmediate, exiting, throwing>>
  BY DEF Turn, RunImmediates, immq, hist
<1>2. Held(stack) = {} /\ IsInjective(immediateQueue) /\ immediateQueue \in Seq(Nat)
  BY <1>1, NoFrames DEF TypeOK, Places, Stored, Apart
<1> DEFINE E == <<>>
           U == <<Frame("host")>> \o E
<1>3. E \in Seq(Frames) /\ E = <<>> /\ ToSet(E) = {} /\ IsInjective(E)
  BY EmptySequence
<1>4. \A f \in Frames : <<f>> \o E = <<f>>
  <2> TAKE f \in Frames
  <2>1. <<f>> \in Seq(Frames)
    OBVIOUS
  <2> DEFINE s == <<f>>
  <2>2. s \in Seq(Frames)
    BY <2>1
  <2> HIDE DEF s
  <2>3. s \o E = s
    BY <2>2, ConcatEmptySeq
  <2> QED
    BY <2>3 DEF s
<1> HIDE DEF E
<1>5. /\ U \in Seq(Frames) /\ U # <<>> /\ Held(U) = {} /\ Bottom(U)
      /\ \A q : IsInjective(q) => Apart(U, q)
  <2>1. \A q : /\ U \in Seq(Frames) /\ U # <<>> /\ Held(U) = Held(E)
               /\ Apart(U, q) <=> Apart(E, q)
               /\ Bottom(U)
    BY <1>3, PushEmpty
  <2>2. \A q : Held(E) = {} /\ (Apart(E, q) <=> IsInjective(q))
    BY <1>3, NoFrames
  <2> QED
    BY <2>1, <2>2
<1>6. U = <<Frame("host")>>
  BY <1>4, FrameTypes
<1>7. \A f \in Frames : <<f, Frame("host")>> = <<f>> \o U
  <2> TAKE f \in Frames
  <2>1. <<f, Frame("host")>> \in Seq(Frames) /\ Frame("host") \in Frames
    BY FrameTypes
  <2>2. <<f, Frame("host")>> \o E = <<f>> \o (<<Frame("host")>> \o E)
    BY <1>3, <2>1, TwoFrames
  <2> DEFINE s == <<f, Frame("host")>>
  <2>3. s \in Seq(Frames) /\ s \o E = <<f>> \o U
    BY <2>1, <2>2
  <2> HIDE DEF s, U
  <2>4. s \o E = s
    BY <1>3, <2>3, ConcatEmptySeq
  <2>5. s = <<f>> \o U
    BY <2>3, <2>4
  <2> QED
    BY <2>5 DEF s
<1> HIDE DEF U
<1>8. CASE Turn
  <2>1. stack' = <<Frame("user")>> \o U /\ immediateQueue' = immediateQueue
    BY <1>7, <1>8, FrameTypes DEF Turn, immq
  <2>2. /\ Held(stack') = {} /\ Apart(stack', immediateQueue) /\ Bottom(stack') /\ stack' # <<>>
    BY <1>2, <1>5, <2>1, PushEmpty, SMTT(60)
  <2>3. Stored'
    BY <1>1, <1>2, <2>1, <2>2, KeepStored DEF Places
  <2>4. Known'
    BY <1>1, <2>1, <2>2 DEF Places, Known, Bottom
  <2> QED
    BY <2>3, <2>4 DEF Places
<1>9. CASE RunImmediates
  <2>1. stack' = <<Imm(immediateQueue)>> \o U /\ immediateQueue' = <<>>
    BY <1>2, <1>7, <1>9, FrameTypes DEF RunImmediates
  <2> DEFINE r == immediateQueue
  <2>2. r \in Seq(Nat) /\ IsInjective(r) /\ stack' = <<Imm(r)>> \o U /\ immediateQueue' = E
    BY <1>2, <1>3, <2>1
  <2> HIDE DEF r
  <2>3. /\ Held(stack') = ToSet(r) /\ Apart(stack', E) /\ Bottom(stack') /\ stack' # <<>>
    <3>1. ToSet(r) \cap (Held(U) \cup ToSet(E)) = {} /\ Apart(U, E)
      BY <1>3, <1>5
    <3>2. /\ <<Imm(r)>> \o U # <<>> /\ Held(<<Imm(r)>> \o U) = ToSet(r) \cup Held(U)
          /\ Apart(<<Imm(r)>> \o U, E) /\ Bottom(<<Imm(r)>> \o U)
      BY <1>5, <2>2, <3>1, PushImm
    <3> QED
      BY <1>5, <2>2, <3>2
  <2>4. Fates' /\ Waiting' = Waiting
    BY <1>1 DEF Places, Stored, Fates, Waiting
  <2>5. Held(stack)' \cup ToSet(immediateQueue)' = Waiting'
    <3>1. Held(stack)' = Held(stack') /\ ToSet(immediateQueue)' = ToSet(immediateQueue')
      BY DEF Held, ToSet
    <3>2. Held(stack) \cup ToSet(immediateQueue) = Waiting
      BY DEF Places, Stored
    <3> QED
      BY <1>2, <1>3, <2>2, <2>3, <2>4, <3>1, <3>2 DEF r
  <2>6. Apart(stack, immediateQueue)'
    BY <2>2, <2>3 DEF Apart
  <2>7. Known'
    BY <1>1, <1>3, <2>2, <2>3 DEF Places, Known, Bottom
  <2> QED
    BY <2>4, <2>5, <2>6, <2>7 DEF Places, Stored
<1> QED
  BY <1>8, <1>9

\* clearImmediate() takes the immediate out of the queue that holds it.
LEMMA ClearKeepsPlaces ==
  ASSUME TypeOK, Places, NEW n \in Nat \ {0}, ClearImmediate(n)
  PROVE  Places'
<1>1. /\ stack # <<>> /\ n <= set /\ n \notin runsTicks
      /\ cleared' = (IF HasRun(n) THEN cleared ELSE cleared \cup {n})
      /\ immediateQueue' = RemoveFirst(immediateQueue, n)
      /\ stack' = [i \in DOMAIN stack |-> [stack[i] EXCEPT !.q = RemoveFirst(@, n)]]
      /\ needImmediate' = (needImmediate /\ immediateQueue' # <<>>)
      /\ UNCHANGED <<set, runsTicks, ranImmediates, exiting, throwing>>
  BY DEF ClearImmediate, Run, Top, hist
<1>2. /\ immediateQueue \in Seq(Nat) /\ stack \in Seq(Frames) /\ ranImmediates \in Seq(Nat)
      /\ set \in Nat
  BY DEF TypeOK
<1>3. HasRun(n) <=> n \in ToSet(ranImmediates)
  BY <1>2, ToSetPlaces DEF HasRun
<1>4. /\ IsInjective(immediateQueue)
      /\ \A f \in DOMAIN stack :
           /\ IsInjective(stack[f].q) /\ ToSet(stack[f].q) \cap ToSet(immediateQueue) = {}
           /\ stack[f].k # "imm" => stack[f].q = <<>>
      /\ \A f, g \in DOMAIN stack : f # g => ToSet(stack[f].q) \cap ToSet(stack[g].q) = {}
  BY DEF Places, Stored, Apart
<1>5. IsInjective(immediateQueue') /\ ToSet(immediateQueue') = ToSet(immediateQueue) \ {n}
  BY <1>1, <1>2, <1>4, RemoveFirstElement
<1>6. \A f \in DOMAIN stack : stack[f] \in Frames /\ stack[f].q \in Seq(Nat)
  <2>1. \A f \in DOMAIN stack : stack[f] \in Frames
    BY <1>2
  <2>2. \A x \in Frames : x.q \in Seq(Nat)
    BY DEF Frames
  <2> QED
    BY <2>1, <2>2
<1>7. DOMAIN stack' = DOMAIN stack
  BY <1>1
<1>8. \A f \in DOMAIN stack : /\ stack'[f].k = stack[f].k
                              /\ stack'[f].q = RemoveFirst(stack[f].q, n)
  BY <1>1, <1>6 DEF Frames
<1>9. \A f \in DOMAIN stack :
        /\ IsInjective(stack'[f].q) /\ ToSet(stack'[f].q) = ToSet(stack[f].q) \ {n}
        /\ stack'[f].k # "imm" => stack'[f].q = <<>>
  <2> TAKE f \in DOMAIN stack
  <2>1. stack[f].q \in Seq(Nat) /\ IsInjective(stack[f].q)
    BY <1>4, <1>6
  <2>2. IsInjective(RemoveFirst(stack[f].q, n)) /\ ToSet(RemoveFirst(stack[f].q, n)) = ToSet(stack[f].q) \ {n}
    BY <2>1, RemoveFirstElement
  <2>3. stack[f].k # "imm" => RemoveFirst(stack[f].q, n) = <<>>
    <3>1. n \notin ToSet(stack[f].q) => RemoveFirst(stack[f].q, n) = stack[f].q
      BY <2>1, RemoveFirstElement
    <3>2. stack[f].q = <<>> => n \notin ToSet(stack[f].q)
      BY EmptySequence
    <3> QED
      BY <1>4, <3>1, <3>2
  <2> QED
    BY <1>8, <2>2, <2>3
<1>10. Apart(stack, immediateQueue)'
  <2>1. \A f \in DOMAIN stack : ToSet(stack'[f].q) \cap ToSet(immediateQueue') = {}
    BY <1>4, <1>5, <1>9
  <2>2. \A f, g \in DOMAIN stack : f # g => ToSet(stack'[f].q) \cap ToSet(stack'[g].q) = {}
    BY <1>4, <1>9
  <2>3. Apart(stack', immediateQueue')
    BY <1>5, <1>7, <1>9, <2>1, <2>2 DEF Apart
  <2> QED
    BY <2>3 DEF Apart
<1>11. Held(stack') = Held(stack) \ {n}
  <2> DEFINE A == [f \in DOMAIN stack |-> ToSet(stack[f].q)]
             B == [f \in DOMAIN stack |-> ToSet(stack'[f].q)]
  <2>1. \A f \in DOMAIN stack : B[f] = A[f] \ {n}
    BY <1>9
  <2>2. Held(stack) = UNION {A[f] : f \in DOMAIN stack} /\ Held(stack') = UNION {B[f] : f \in DOMAIN stack}
    BY <1>7 DEF Held
  <2> HIDE DEF A, B
  <2> QED
    BY <2>1, <2>2
<1>12. Fates'
  BY <1>1, <1>2, <1>3 DEF Places, Stored, Fates
<1>13. Waiting' = Waiting \ {n}
  BY <1>1, <1>3 DEF Waiting
<1>14. Held(stack)' \cup ToSet(immediateQueue)' = Waiting'
  <2>1. Held(stack)' = Held(stack') /\ ToSet(immediateQueue)' = ToSet(immediateQueue')
    BY DEF Held, ToSet
  <2>2. Held(stack) \cup ToSet(immediateQueue) = Waiting
    BY DEF Places, Stored
  <2> QED
    BY <1>5, <1>11, <1>13, <2>1, <2>2
<1>15. Known'
  <2>1. Len(stack') = Len(stack) /\ Len(stack) \in DOMAIN stack /\ stack' # <<>>
    BY <1>1, <1>2
  <2>2. Bottom(stack)'
    BY <1>1, <1>8, <2>1 DEF Places, Known, Bottom
  <2>3. ~exiting /\ ~exiting'
    BY <1>1 DEF Places, Known
  <2>4. ~throwing' /\ ~exiting' /\ immediateQueue' # <<>> => needImmediate'
    <3>1. immediateQueue' # <<>> => immediateQueue # <<>>
      BY <1>2, <1>1, EmptySequence, RemoveFirstElement
    <3> QED
      BY <1>1, <2>3, <3>1 DEF Places, Known
  <2> QED
    BY <2>1, <2>2, <2>3, <2>4 DEF Known
<1> QED
  BY <1>10, <1>12, <1>14, <1>15 DEF Places, Stored

\* The initial state: nothing is set, nothing runs.
LEMMA InitPlaces == Init => Places
<1> SUFFICES ASSUME Init PROVE Places
  OBVIOUS
<1>1. /\ immediateQueue = <<>> /\ stack = <<>> /\ ranImmediates = <<>> /\ set = 0
      /\ cleared = {} /\ runsTicks = {} /\ kLength = 0 /\ exiting = FALSE /\ throwing = FALSE
  BY DEF Init
<1>2. ToSet(<<>>) = {} /\ IsInjective(<<>>)
  BY EmptySequence
<1>3. Held(stack) = {} /\ Apart(stack, immediateQueue) /\ Bottom(stack)
  BY <1>1, <1>2, NoFrames
<1>4. Fates /\ Waiting = {}
  BY <1>1, <1>2 DEF Fates, Waiting
<1>5. Stored
  BY <1>1, <1>2, <1>3, <1>4 DEF Stored
<1>6. Known
  BY <1>1, <1>3 DEF Known
<1> QED
  BY <1>5, <1>6 DEF Places

\* Every step keeps every immediate in one place and the host informed.
LEMMA NextKeepsPlaces ==
  ASSUME TypeOK, Places, [Next]_vars
  PROVE  Places'
<1>1. CASE TickNext
  BY <1>1, CallsKeepPlaces, ResumeKeepsPlaces
<1>2. CASE TockReturns \/ TicksEnd \/ TockThrows \/ Throw \/ Return \/ Unwind \/ HostTicks
  BY <1>2, CallsKeepPlaces
<1>3. CASE ImmNext \/ ImmEnd \/ ImmThrows
  BY <1>3, ImmNextKeepsPlaces, ImmEndKeepsPlaces, ImmThrowsKeepsPlaces
<1>4. CASE UserNextTick \/ UserSetImmediate \/ FatalException
  BY <1>4, UserNextTickKeepsPlaces, UserSetImmediateKeepsPlaces, FatalExceptionKeepsPlaces
<1>5. CASE Turn \/ RunImmediates
  BY <1>5, TurnKeepsPlaces
<1>6. CASE \E n \in 1 .. MaxImmediates + MaxThrows : ClearImmediate(n)
  <2>1. PICK n \in 1 .. MaxImmediates + MaxThrows : ClearImmediate(n)
    BY <1>6
  <2>2. n \in Nat \ {0}
    BY EventLoopAssumption
  <2> QED
    BY <2>1, <2>2, ClearKeepsPlaces
<1>7. CASE UNCHANGED vars
  <2>1. UNCHANGED <<immq, exiting, throwing, stack, ranImmediates, kLength>>
    BY <1>7 DEF vars, hist, tickq
  <2>2. Stored'
    BY <2>1, KeepStored DEF Places, Stored, immq
  <2>3. Known'
    BY <2>1 DEF Places, Known, Bottom, immq
  <2> QED
    BY <2>2, <2>3 DEF Places
<1> QED
  BY <1>1, <1>2, <1>3, <1>4, <1>5, <1>6, <1>7 DEF Next, UserCall, Step

\* What the invariant says of the property of the runs.
LEMMA PlacesKept ==
  ASSUME TypeOK, Places
  PROVE  Kept
<1>1. /\ stack \in Seq(Frames) /\ ranImmediates \in Seq(Nat) /\ immediateQueue \in Seq(Nat)
      /\ set \in Nat
  BY DEF TypeOK
<1>2. Queued = Waiting
  BY DEF Queued, Held, Places, Stored
<1>3. \A n : HasRun(n) <=> n \in ToSet(ranImmediates)
  BY <1>1, ToSetPlaces DEF HasRun
<1>4. ImmediateOnce
  <2>1. ASSUME NEW i \in DOMAIN ranImmediates, NEW j \in DOMAIN ranImmediates, i # j
        PROVE  ranImmediates[i] # ranImmediates[j]
    BY <1>1, <2>1, InjectivePlaces DEF Places, Stored, Fates
  <2>2. ASSUME NEW n \in 1 .. set
        PROVE  /\ HasRun(n) => n \notin Queued \cup cleared
               /\ n \in Queued => n \notin cleared
               /\ ~HasRun(n) /\ n \notin cleared => n \in Queued
    BY <1>2, <1>3 DEF Waiting, Places, Stored, Fates
  <2> QED
    BY <2>1, <2>2 DEF ImmediateOnce
<1>5. NothingForgotten
  <2>1. ToSet(immediateQueue) \subseteq Queued
    BY DEF Queued
  <2> QED
    BY <2>1 DEF NothingForgotten, Places, Known
<1> QED
  BY <1>4, <1>5 DEF Kept

\* Every immediate is in one place and the host informed, in every execution.
LEMMA PlacesHold == Spec => []Places
<1>1. TypeOK /\ Places /\ [Next]_vars => Places'
  BY NextKeepsPlaces
<1> QED
  BY <1>1, InitPlaces, TypeCorrect, PTL DEF Spec

\* setImmediate: every immediate runs once, is cleared, or waits in one queue, and
\* the host is told of what waits, for any number of immediates, clears and
\* exceptions, also through processImmediate and _tickCallback inside each other.
THEOREM ImmediatesKept == Spec => []Kept
BY PlacesHold, TypeCorrect, PlacesKept, PTL

=============================================================================
