----------------------------- MODULE EventLoop -----------------------------
(***************************************************************************)
(* The two queues that run callbacks "later": process.nextTick and         *)
(* process._fatalException of js/node.js, setImmediate of node/timers.js,  *)
(* and the host that calls them.  Any callback may throw; an exception     *)
(* unwinds the stack through the `finally` blocks of the loops it crosses. *)
(***************************************************************************)
EXTENDS Integers, Sequences, SequencesExt

CONSTANTS
  MaxIndex,       \* 1e4 in _tickCallback: the queue is trimmed beyond it
  MaxTicks,       \* bound on the ticks the user posts
  MaxImmediates,  \* bound on the immediates the user sets
  MaxThrows       \* bound on the exceptions the user throws

ASSUME EventLoopAssumption ==
  MaxIndex \in Nat /\ MaxTicks \in Nat /\ MaxImmediates \in Nat /\ MaxThrows \in Nat

VARIABLES
  nextTickQueue, kIndex, kLength,    \* tick queue and tickInfo
  immediateQueue, needImmediate,     \* process._needImmediateCallback
  exiting, throwing,                 \* process._exiting; an exception is in flight
  stack,                             \* call stack, top first
  posted, resume,                    \* ticks posted so far; those that call processImmediate
  set, runsTicks,                    \* immediates set so far; those that call _tickCallback
  cleared,                           \* immediates cleared before they ran
  ran, ranImmediates,                \* history: what has run, in order
  userTicks, userImmediates, throws  \* what the user did, for the bounds

tickq == <<nextTickQueue, kIndex, kLength, posted, resume>>
immq  == <<immediateQueue, needImmediate, set, runsTicks, cleared>>
hist  == <<ran, ranImmediates>>
used  == <<userTicks, userImmediates, throws>>
vars  == <<tickq, immq, exiting, throwing, stack, hist, used>>

\* Ticks and immediates are numbered from 1 in the order of posting.

-----------------------------------------------------------------------------
(* Frames of the call stack. *)

\* user: a callback, or a turn of its own; host: the host, which runs the ticks
\* when the callback it made returns; ticks: the loop of _tickCallback; tock: a
\* call made by that loop; imm: processImmediate with its local queue.
Frame(k) == [k |-> k, q |-> <<>>]
Imm(q) == [k |-> "imm", q |-> q]

Frames == [k : {"user", "host", "ticks", "tock", "imm"}, q : Seq(Nat)]

Top(k) == stack # <<>> /\ Head(stack).k = k
Run(k) == Top(k) /\ ~throwing

-----------------------------------------------------------------------------
(* process.nextTick *)

\* nextTick(callback); nothing is queued on the way out.
NextTick(isResume) ==
  \/ exiting /\ UNCHANGED tickq
  \/ /\ ~exiting
     /\ posted' = posted + 1
     /\ nextTickQueue' = Append(nextTickQueue, posted + 1)
     /\ kLength' = kLength + 1
     /\ resume' = IF isResume THEN resume \cup {posted + 1} ELSE resume
     /\ UNCHANGED kIndex

\* (mutant: the index is moved back by the length)
TickDoneBack ==
  /\ nextTickQueue' = <<>> /\ kLength' = 0
  /\ kIndex' = kIndex - kLength

\* (mutant: entries that are still to run are thrown away)
TickDoneReset ==
  /\ nextTickQueue' = <<>> /\ kLength' = 0
  /\ kIndex' = 0

\* tickDone()
TickDone ==
  /\ \/ /\ kLength # 0 /\ kLength <= kIndex
        /\ nextTickQueue' = <<>> /\ kLength' = 0
     \/ /\ kLength # 0 /\ kLength > kIndex
        /\ nextTickQueue' = SubSeq(nextTickQueue, kIndex + 1, Len(nextTickQueue))
        /\ kLength' = Len(nextTickQueue')
     \/ /\ kLength = 0
        /\ UNCHANGED <<nextTickQueue, kLength>>
  /\ kIndex' = 0

\* The loop of _tickCallback takes the next entry and calls it.
TickNext ==
  /\ Run("ticks") /\ kIndex < kLength
  /\ kIndex' = kIndex + 1
  /\ LET tock == nextTickQueue[kIndex + 1]
     IN /\ ran' = Append(ran, tock)
        /\ IF tock \in resume
           THEN /\ stack' = <<Imm(immediateQueue), Frame("tock")>> \o Tail(stack)
                /\ immediateQueue' = <<>>
           ELSE /\ stack' = <<Frame("user"), Frame("tock")>> \o Tail(stack)
                /\ UNCHANGED immediateQueue
  /\ UNCHANGED <<nextTickQueue, kLength, posted, resume, needImmediate, set,
                 runsTicks, cleared, exiting, throwing, ranImmediates, used>>

\* The callback has returned; a long queue is trimmed.
TockReturns ==
  /\ Run("tock")
  /\ \/ MaxIndex < kIndex /\ TickDone
     \/ MaxIndex >= kIndex /\ UNCHANGED <<nextTickQueue, kIndex, kLength>>
  /\ stack' = <<Frame("ticks")>> \o Tail(stack)
  /\ UNCHANGED <<posted, resume, immq, exiting, throwing, hist, used>>

TicksEnd ==
  /\ Run("ticks") /\ kIndex >= kLength
  /\ TickDone
  /\ stack' = Tail(stack)
  /\ UNCHANGED <<posted, resume, immq, exiting, throwing, hist, used>>

\* finally { if (threw) tickDone(); }
TockThrows ==
  /\ throwing /\ Top("tock")
  /\ TickDone
  /\ stack' = Tail(stack)
  /\ UNCHANGED <<posted, resume, immq, exiting, throwing, hist, used>>

-----------------------------------------------------------------------------
(* setImmediate *)

\* setImmediate(callback)
SetImmediate(isTicks) ==
  /\ set' = set + 1
  /\ immediateQueue' = Append(immediateQueue, set + 1)
  /\ needImmediate' = TRUE
  /\ runsTicks' = IF isTicks THEN runsTicks \cup {set + 1} ELSE runsTicks
  /\ UNCHANGED cleared

HasRun(n) == \E i \in DOMAIN ranImmediates : ranImmediates[i] = n

\* The loop of processImmediate.
ImmNext ==
  /\ Run("imm") /\ Head(stack).q # <<>>
  /\ LET q == Head(stack).q
         callee == IF Head(q) \in runsTicks THEN Frame("ticks") ELSE Frame("user")
     IN /\ ranImmediates' = Append(ranImmediates, Head(q))
        /\ stack' = <<callee, Imm(Tail(q))>> \o Tail(stack)
  /\ UNCHANGED <<tickq, immq, exiting, throwing, ran, used>>

\* (mutant: immediates set meanwhile are forgotten)
StillNeededNot == FALSE

StillNeeded == needImmediate /\ immediateQueue # <<>>

ImmEnd ==
  /\ Run("imm") /\ Head(stack).q = <<>>
  /\ needImmediate' = StillNeeded
  /\ stack' = Tail(stack)
  /\ UNCHANGED <<tickq, immediateQueue, set, runsTicks, cleared, exiting, throwing,
                 hist, used>>

\* (mutant: immediates set while the queue ran replace what is left of it)
RemainingDropped(q) == immediateQueue

\* What is left of the local queue comes first.
Remaining(q) == q \o immediateQueue

\* finally: what remains of the queue is run by a tick.
ImmThrows ==
  /\ throwing /\ Top("imm")
  /\ \/ Head(stack).q = <<>> /\ UNCHANGED <<tickq, immediateQueue>>
     \/ /\ Head(stack).q # <<>>
        /\ immediateQueue' = Remaining(Head(stack).q)
        /\ NextTick(TRUE)
  /\ stack' = Tail(stack)
  /\ UNCHANGED <<needImmediate, set, runsTicks, cleared, exiting, throwing, hist,
                 used>>

-----------------------------------------------------------------------------
(* User code *)

UserNextTick ==
  /\ Run("user") /\ userTicks < MaxTicks
  /\ userTicks' = userTicks + 1
  /\ NextTick(FALSE)
  /\ UNCHANGED <<immq, exiting, throwing, stack, hist, userImmediates, throws>>

UserSetImmediate ==
  /\ Run("user") /\ userImmediates < MaxImmediates
  /\ userImmediates' = userImmediates + 1
  /\ SetImmediate(FALSE)
  /\ UNCHANGED <<tickq, exiting, throwing, stack, hist, userTicks, throws>>

\* clearImmediate(n): the immediate leaves whatever queue it is in; it may have
\* run already.
ClearImmediate(n) ==
  /\ Run("user") /\ n <= set /\ n \notin runsTicks
  /\ cleared' = IF HasRun(n) THEN cleared ELSE cleared \cup {n}
  /\ immediateQueue' = RemoveFirst(immediateQueue, n)
  /\ stack' = [i \in DOMAIN stack |-> [stack[i] EXCEPT !.q = RemoveFirst(@, n)]]
  /\ needImmediate' = (needImmediate /\ immediateQueue' # <<>>)
  /\ UNCHANGED <<tickq, set, runsTicks, exiting, throwing, hist, used>>

Throw ==
  /\ Run("user") /\ throws < MaxThrows
  /\ throws' = throws + 1
  /\ throwing' = TRUE
  /\ stack' = Tail(stack)
  /\ UNCHANGED <<tickq, immq, exiting, hist, userTicks, userImmediates>>

Return ==
  /\ Run("user")
  /\ stack' = Tail(stack)
  /\ UNCHANGED <<tickq, immq, exiting, throwing, hist, used>>

-----------------------------------------------------------------------------
(* The host *)

\* An event runs some user code.
Turn ==
  /\ stack = <<>> /\ ~exiting /\ ~throwing
  /\ userTicks < MaxTicks \/ userImmediates < MaxImmediates \/ throws < MaxThrows
  /\ stack' = <<Frame("user"), Frame("host")>>
  /\ UNCHANGED <<tickq, immq, exiting, throwing, hist, used>>

\* process._immediateCallback, while process._needImmediateCallback.
RunImmediates ==
  /\ stack = <<>> /\ ~exiting /\ ~throwing /\ needImmediate
  /\ stack' = <<Imm(immediateQueue), Frame("host")>>
  /\ immediateQueue' = <<>>
  /\ UNCHANGED <<tickq, needImmediate, set, runsTicks, cleared, exiting, throwing,
                 hist, used>>

\* After a callback the host runs the ticks, if there are any.
HostTicks ==
  /\ Run("host")
  /\ stack' = (IF kLength > 0 THEN <<Frame("ticks")>> ELSE <<>>) \o Tail(stack)
  /\ UNCHANGED <<tickq, immq, exiting, throwing, hist, used>>

\* An exception passes through a frame without a handler.
Unwind ==
  /\ throwing /\ (Top("host") \/ Top("ticks"))
  /\ stack' = Tail(stack)
  /\ UNCHANGED <<tickq, immq, exiting, throwing, hist, used>>

\* Somebody handled the exception: the ticks left are run by an immediate.
Caught ==
  /\ throwing' = FALSE
  /\ SetImmediate(TRUE)
  /\ UNCHANGED exiting

\* Nobody did: 'exit' is emitted and the process ends.
Uncaught ==
  /\ exiting' = TRUE
  /\ throwing' = FALSE
  /\ UNCHANGED immq

\* process._fatalException
FatalException ==
  /\ throwing /\ stack = <<>>
  /\ Caught \/ Uncaught
  /\ UNCHANGED <<tickq, stack, hist, used>>

-----------------------------------------------------------------------------

Init ==
  /\ nextTickQueue = <<>> /\ kIndex = 0 /\ kLength = 0
  /\ immediateQueue = <<>> /\ needImmediate = FALSE
  /\ exiting = FALSE /\ throwing = FALSE
  /\ stack = <<>>
  /\ posted = 0 /\ resume = {}
  /\ set = 0 /\ runsTicks = {} /\ cleared = {}
  /\ ran = <<>> /\ ranImmediates = <<>>
  /\ userTicks = 0 /\ userImmediates = 0 /\ throws = 0

UserCall ==
  \/ UserNextTick \/ UserSetImmediate \/ Throw
  \/ \E n \in 1 .. MaxImmediates + MaxThrows : ClearImmediate(n)

\* The program and the host carry on.
Step ==
  \/ TickNext \/ TockReturns \/ TicksEnd \/ TockThrows
  \/ ImmNext \/ ImmEnd \/ ImmThrows
  \/ Return \/ RunImmediates \/ HostTicks \/ Unwind \/ FatalException

Next == UserCall \/ Step \/ Turn

Spec == Init /\ [][Next]_vars

\* Code runs to its end; the host looks at _needImmediateCallback in every
\* iteration of its loop, whatever other events come.
FairSpec == Spec /\ WF_vars(Step) /\ SF_vars(RunImmediates)

-----------------------------------------------------------------------------
(* Properties *)

TypeOK ==
  /\ nextTickQueue \in Seq(Nat) /\ kIndex \in Nat /\ kLength \in Nat
  /\ immediateQueue \in Seq(Nat) /\ needImmediate \in BOOLEAN
  /\ exiting \in BOOLEAN /\ throwing \in BOOLEAN
  /\ stack \in Seq(Frames)
  /\ posted \in Nat /\ resume \subseteq Nat
  /\ set \in Nat /\ runsTicks \subseteq Nat /\ cleared \subseteq Nat
  /\ ran \in Seq(Nat) /\ ranImmediates \in Seq(Nat)
  /\ userTicks \in 0 .. MaxTicks /\ userImmediates \in 0 .. MaxImmediates
  /\ throws \in 0 .. MaxThrows

\* As many ticks are left as have not run.
TickCount ==
  /\ kLength = Len(nextTickQueue) /\ kIndex <= kLength
  /\ Len(ran) + kLength - kIndex = posted

\* Ticks run once each and in the order they were posted, and none is lost,
\* however callbacks throw, trim the queue, or run the loop inside itself: what
\* has run followed by what is left of the queue is 1, 2, ..., posted.
TickOrder ==
  /\ TickCount
  /\ \A i \in 1 .. Len(ran) : ran[i] = i
  /\ \A i \in kIndex + 1 .. kLength : nextTickQueue[i] = Len(ran) + i - kIndex

\* The immediates that some queue still holds.
Queued == ToSet(immediateQueue) \cup UNION {ToSet(stack[f].q) : f \in DOMAIN stack}

\* Every immediate is in exactly one place: run once, cleared, or in a queue.
ImmediateOnce ==
  /\ \A i, j \in DOMAIN ranImmediates : i # j => ranImmediates[i] # ranImmediates[j]
  /\ \A n \in 1 .. set :
       /\ HasRun(n) => n \notin Queued \cup cleared
       /\ n \in Queued => n \notin cleared
       /\ ~HasRun(n) /\ n \notin cleared => n \in Queued

\* When the stack is empty and the process lives, immediates that wait are known
\* to the host, and ticks that wait (an exception left them) will be run by one.
NothingForgotten ==
  stack = <<>> /\ ~throwing /\ ~exiting =>
    /\ immediateQueue # <<>> => needImmediate
    /\ kLength > 0 => \E n \in Queued : n \in runsTicks

\* Nothing is lost or run twice while the queues are taken apart and put together
\* again, and the host comes back for what is left.
Kept == ImmediateOnce /\ NothingForgotten

\* Every tick and every immediate eventually runs, unless it is cleared or an
\* uncaught exception ends the process.
AllRun ==
  /\ \A n \in 1 .. MaxTicks + MaxThrows :
       (posted >= n) ~> (exiting \/ Len(ran) >= n)
  /\ \A n \in 1 .. MaxImmediates + MaxThrows :
       (set >= n) ~> (exiting \/ n \in cleared \/ HasRun(n))
=============================================================================
