--------------------------- MODULE WritableProofs ---------------------------
(***************************************************************************)
(* Proofs about Writable: it implements OrderedSink, its counters are      *)
(* exact, it owes nothing when it is idle, and 'finish' comes when all is  *)
(* settled.                                                                *)
(*                                                                         *)
(* Delivery says where the accepted writes are: handed over, or in the     *)
(* part of the buffer that clearBuffer has not reached, and, until a write *)
(* fails, in this order.  A write that finds the stream idle is handed     *)
(* over at once, so the order rests on the buffer being empty then.  That  *)
(* depends on what is on the call stack: Clearing says that one            *)
(* clearBuffer runs at a time, that user code finds it only inside the     *)
(* body of a write in progress, and that buffered writes nobody is in      *)
(* charge of have a clearBuffer on top of the stack.  Closing says why     *)
(* nothing is written once end() has been called: until end() returns,     *)
(* only the handlers of 'prefinish' and 'finish' run, which do not write   *)
(* (LateWrites).                                                           *)
(*                                                                         *)
(* Books says what the counters count.  LedgerOf follows every write that  *)
(* was handed over: it is in progress, or named by one item of the stack   *)
(* or of the tick queue that is to run its callback, or called back; an    *)
(* item that names several, and the batch in progress, count once more.    *)
(* SumsOf follows the lengths: state.length is what is in progress and     *)
(* what is buffered and not written; after a failed _writev, whose batch   *)
(* is dropped and stays counted, it is not less.                           *)
(*                                                                         *)
(* Wakeful says what is still to come.  While a 'drain' or a 'finish' is   *)
(* owed, a write is in progress or buffered, or an afterWrite or a         *)
(* finishMaybe is on its way.  Between the decision to emit 'finish' and   *)
(* 'finish' only the handler of 'prefinish' runs, and it cannot write, so  *)
(* what was settled stays so (Nested).                                     *)
(***************************************************************************)
EXTENDS Writable, SequenceLemmas

LoopKinds == {"loop", "emptied"}

\* What the calls made in the body of _write put on the stack.
NestKinds == {"user", "rejected", "endUncork", "endWritable", "finishMaybe", "endTail"}

-----------------------------------------------------------------------------
(* The shape of the call stack *)

Top(td) == IF td = <<>> THEN "none" ELSE Head(td).k

Has(td, k) == \E i \in 1 .. Len(td) : td[i].k = k

\* At most one clearBuffer is in its loop.
OneLoop(td) ==
  \A i, j \in 1 .. Len(td) : td[i].k \in LoopKinds /\ td[j].k \in LoopKinds => i = j

ClearOnTop(td) == \A i \in 1 .. Len(td) : td[i].k = "clear" => i = 1

\* Above a body is only what its own calls put there.
BodyNest(td) ==
  \A i \in 1 .. Len(td) : td[i].k = "body" => \A j \in 1 .. i - 1 : td[j].k \in NestKinds

\* The loop has called _write, which has not returned ...
InBody(td) ==
  \E i \in 1 .. Len(td) :
    /\ td[i].k = "body"
    /\ i + 1 <= Len(td) /\ td[i + 1].k \in LoopKinds

\* ... or which has called back, and returns now.
Between(td) ==
  \/ Top(td) \in LoopKinds
  \/ Top(td) = "unsync" /\ Top(Tail(td)) \in LoopKinds
  \/ /\ Top(td) = "defer" /\ Top(Tail(td)) = "unsync"
     /\ Top(Tail(Tail(td))) \in LoopKinds

\* end() is about to return, ...
AtTail(td) ==
  \/ Top(td) = "endTail"
  \/ Top(td) = "finish" /\ Top(Tail(td)) = "endTail"

\* ... once a handler returns, ...
Held(td) ==
  \E i \in 1 .. Len(td) :
    /\ td[i].k \in {"onprefinish", "onfinish"}
    /\ i + 1 <= Len(td)
    /\ \/ td[i + 1].k = "endTail"
       \/ td[i + 1].k = "finish" /\ i + 2 <= Len(td) /\ td[i + 2].k = "endTail"

\* ... or is about to see whether the stream has finished.
Closing(td) ==
  \/ AtTail(td) \/ Held(td)
  \/ Top(td) = "finishMaybe" /\ Top(Tail(td)) = "endTail"

-----------------------------------------------------------------------------
(* The invariant *)

\* Of a stack and of writev, writing, sync, bufferProcessing and failed; done:
\* the buffer has no unwritten entry; owing: it has some, and the stream is idle
\* and uncorked.
Clearing(td, wv, wr, sy, bp, fl, done, owing) ==
  /\ OneLoop(td) /\ BodyNest(td) /\ ClearOnTop(td)
  /\ Has(td, "clear") => ~bp
  /\ (Has(td, "loop") \/ Has(td, "emptied")) => bp
  /\ Has(td, "emptied") => wv /\ (~fl => done)
  /\ Has(td, "body") => wr /\ sy /\ (wv => Top(td) = "body")
  /\ bp /\ ~fl => InBody(td) \/ Between(td)
  /\ owing => \/ Top(td) = "clear"
              \/ bp /\ Top(td) \in {"loop", "unsync", "defer"}

\* Of a stack and of ending, ended and finished; empty: the buffer is.
Ending(td, en, ed, fi, empty) ==
  /\ (fi \/ Has(td, "finish")) => en /\ empty
  /\ en /\ ~ed => Closing(td)

\* n writes were accepted; sk are handed over, bf is the buffer and cu the cursor.
Delivery(sk, bf, cu, n, fl) ==
  /\ cu \in Nat /\ n \in Nat /\ cu <= Len(bf) /\ sk \in Seq(Nat) /\ bf \in Seq(Nat)
  /\ \A i \in 1 .. Len(sk) : sk[i] \in 1 .. n
  /\ \A i \in cu + 1 .. Len(bf) : bf[i] \in 1 .. n
  /\ \A i, j \in 1 .. Len(sk) : sk[i] = sk[j] => i = j
  /\ \A i, j \in cu + 1 .. Len(bf) : bf[i] = bf[j] => i = j
  /\ \A i \in 1 .. Len(sk), j \in cu + 1 .. Len(bf) : sk[i] # bf[j]
  /\ ~fl => /\ \A i \in 1 .. Len(sk) : sk[i] = i
            /\ \A i \in cu + 1 .. Len(bf) : bf[i] = Len(sk) + i - cu
            /\ n = Len(sk) + Len(bf) - cu

Owing == ~failed /\ ~writing /\ corked = 0 /\ cursor # Len(buffer)

\* The types but for the sign of writelen, which rests on the sum of the lengths
\* of the buffered writes.
Types ==
  /\ highWaterMark \in Nat /\ writev \in BOOLEAN /\ use \in Uses
  /\ length \in Int /\ needDrain \in BOOLEAN /\ pendingcb \in Int
  /\ writing \in BOOLEAN /\ writecb \in Seq(Nat) /\ writelen \in Int /\ sync \in BOOLEAN
  /\ bufferProcessing \in BOOLEAN /\ corked \in Nat
  /\ ending \in BOOLEAN /\ ended \in BOOLEAN /\ finished \in BOOLEAN
  /\ prefinished \in BOOLEAN /\ errorEmitted \in BOOLEAN
  /\ todo \in Seq(Items) /\ ticks \in Seq(Items) /\ calls \in 0 .. MaxCalls
  /\ size \in Seq(Nat) /\ acked \in Seq(Nat) /\ finishes \in Nat /\ failed \in BOOLEAN

TickKinds == {"user", "ack", "after"}

IInv ==
  /\ Types
  /\ Delivery(sunk, buffer, cursor, Len(size), failed)
  /\ Clearing(todo, writev, writing, sync, bufferProcessing, failed,
              cursor = Len(buffer), Owing)
  /\ Ending(todo, ending, ended, finished, buffer = <<>>)
  /\ ~bufferProcessing => cursor = 0
  /\ \A i \in 1 .. Len(ticks) : ticks[i].k \in TickKinds

-----------------------------------------------------------------------------
(* Pushing on the call stack, and popping from it *)

Push(x, s) == <<x>> \o s

\* What is on top, and next.
LEMMA TopPlaces ==
  ASSUME NEW s \in Seq(Items)
  PROVE  /\ Len(s) \in Nat
         /\ Len(s) = 0 => Top(s) = "none"
         /\ Len(s) >= 1 => Top(s) = s[1].k
         /\ Len(s) = 1 => Top(Tail(s)) = "none"
         /\ Len(s) >= 2 => Top(Tail(s)) = s[2].k
<1>1. Len(s) \in Nat /\ (Len(s) = 0 <=> s = <<>>) /\ (s # <<>> => Head(s) = s[1])
  OBVIOUS
<1> DEFINE u == Tail(s)
<1>2. s # <<>> => /\ u \in Seq(Items) /\ Len(u) = Len(s) - 1
                  /\ \A i \in 1 .. Len(u) : u[i] = s[i + 1]
  OBVIOUS
<1> HIDE DEF u
<1>3. u \in Seq(Items) => (Len(u) = 0 <=> u = <<>>) /\ (u # <<>> => Head(u) = u[1])
  OBVIOUS
<1>4. Len(s) = 1 => u = <<>>
  BY <1>1, <1>2, <1>3
<1>5. Len(s) >= 2 => u # <<>> /\ Head(u) = s[2]
  <2>1. Len(s) >= 2 => Len(u) # 0 /\ 1 \in 1 .. Len(u) /\ 1 + 1 = 2
    BY <1>1, <1>2
  <2> QED
    BY <1>1, <1>2, <1>3, <2>1
<1> QED
  BY <1>1, <1>4, <1>5 DEF Top, u

\* The shape of a stack with one more item.
LEMMA PushShape ==
  ASSUME NEW x \in Items, NEW s \in Seq(Items)
  PROVE  /\ Push(x, s) \in Seq(Items) /\ Push(x, s) # <<>>
         /\ Head(Push(x, s)) = x /\ Tail(Push(x, s)) = s /\ Top(Push(x, s)) = x.k
         /\ \A k : Has(Push(x, s), k) <=> x.k = k \/ Has(s, k)
         /\ OneLoop(Push(x, s)) <=>
              /\ OneLoop(s)
              /\ x.k \in LoopKinds => ~Has(s, "loop") /\ ~Has(s, "emptied")
         /\ BodyNest(Push(x, s)) <=> BodyNest(s) /\ (Has(s, "body") => x.k \in NestKinds)
         /\ ClearOnTop(Push(x, s)) <=> ~Has(s, "clear")
         /\ InBody(Push(x, s)) <=> \/ InBody(s)
                                   \/ x.k = "body" /\ Top(s) \in LoopKinds
         /\ Held(Push(x, s)) <=> \/ Held(s)
                                 \/ x.k \in {"onprefinish", "onfinish"} /\ AtTail(s)
<1> DEFINE t == Push(x, s)
<1>1. /\ t \in Seq(Items) /\ t # <<>> /\ Head(t) = x /\ Tail(t) = s
      /\ Len(s) \in Nat /\ Len(t) = Len(s) + 1 /\ t[1] = x
      /\ \A i \in 1 .. Len(s) : t[i + 1] = s[i]
  BY DEF Push
<1> HIDE DEF t
<1>2. \A i \in 1 .. Len(s) : i + 1 \in 1 .. Len(t) /\ i + 1 # 1
  BY <1>1
<1>3. \A i \in 1 .. Len(t) : i # 1 => i - 1 \in 1 .. Len(s) /\ s[i - 1] = t[i]
  BY <1>1
<1>4. 1 \in 1 .. Len(t)
  BY <1>1
<1>5. Top(t) = x.k
  BY <1>1 DEF Top
<1>6. \A k : Has(t, k) <=> x.k = k \/ Has(s, k)
  BY <1>1, <1>2, <1>3, <1>4 DEF Has
<1>7. OneLoop(t) <=> /\ OneLoop(s)
                     /\ x.k \in LoopKinds => ~Has(s, "loop") /\ ~Has(s, "emptied")
  <2>1. ASSUME OneLoop(t) PROVE OneLoop(s)
    <3> SUFFICES ASSUME NEW i \in 1 .. Len(s), NEW j \in 1 .. Len(s),
                        s[i].k \in LoopKinds, s[j].k \in LoopKinds
                 PROVE  i = j
      BY DEF OneLoop
    <3>1. t[i + 1] = s[i] /\ t[j + 1] = s[j] /\ i + 1 \in 1 .. Len(t) /\ j + 1 \in 1 .. Len(t)
      BY <1>1, <1>2
    <3>2. i + 1 = j + 1
      BY <2>1, <3>1 DEF OneLoop
    <3> QED
      BY <3>2
  <2>2. ASSUME OneLoop(t), x.k \in LoopKinds, NEW i \in 1 .. Len(s)
        PROVE  s[i].k \notin LoopKinds
    <3>1. t[i + 1] = s[i] /\ i + 1 \in 1 .. Len(t) /\ i + 1 # 1
      BY <1>1, <1>2
    <3> QED
      BY <1>1, <1>4, <2>2, <3>1 DEF OneLoop
  <2>3. (\A i \in 1 .. Len(s) : s[i].k \notin LoopKinds)
          <=> ~Has(s, "loop") /\ ~Has(s, "emptied")
    BY DEF Has, LoopKinds
  <2>4. ASSUME OneLoop(s), x.k \in LoopKinds => \A i \in 1 .. Len(s) : s[i].k \notin LoopKinds
        PROVE  OneLoop(t)
    <3> SUFFICES ASSUME NEW i \in 1 .. Len(t), NEW j \in 1 .. Len(t),
                        t[i].k \in LoopKinds, t[j].k \in LoopKinds
                 PROVE  i = j
      BY DEF OneLoop
    <3>1. CASE i # 1 /\ j # 1
      <4>1. i - 1 = j - 1
        BY <1>3, <2>4, <3>1 DEF OneLoop
      <4> QED
        BY <4>1
    <3>2. CASE i = 1 /\ j # 1
      BY <1>1, <1>3, <2>4, <3>2
    <3>3. CASE i # 1 /\ j = 1
      BY <1>1, <1>3, <2>4, <3>3
    <3> QED
      BY <3>1, <3>2, <3>3
  <2> QED
    BY <2>1, <2>2, <2>3, <2>4
<1>8. BodyNest(t) <=> BodyNest(s) /\ (Has(s, "body") => x.k \in NestKinds)
  <2>1. ASSUME BodyNest(t), NEW i \in 1 .. Len(s), s[i].k = "body"
        PROVE  x.k \in NestKinds /\ \A j \in 1 .. i - 1 : s[j].k \in NestKinds
    <3>1. t[i + 1].k = "body" /\ i + 1 \in 1 .. Len(t)
      BY <1>1, <1>2, <2>1
    <3>2. \A j \in 1 .. (i + 1) - 1 : t[j].k \in NestKinds
      BY <2>1, <3>1 DEF BodyNest
    <3>3. 1 \in 1 .. (i + 1) - 1
          /\ \A j \in 1 .. i - 1 : j \in 1 .. Len(s) /\ j + 1 \in 1 .. (i + 1) - 1
      BY <1>1
    <3> QED
      BY <1>1, <3>2, <3>3
  <2>2. ASSUME BodyNest(s), Has(s, "body") => x.k \in NestKinds,
               NEW i \in 1 .. Len(t), t[i].k = "body", NEW j \in 1 .. i - 1
        PROVE  t[j].k \in NestKinds
    <3>1. i # 1 /\ i - 1 \in 1 .. Len(s) /\ s[i - 1].k = "body"
      BY <1>3, <2>2
    <3>2. Has(s, "body")
      BY <3>1 DEF Has
    <3>3. CASE j = 1
      BY <1>1, <2>2, <3>2, <3>3
    <3>4. CASE j # 1
      <4>1. j \in 1 .. Len(t) /\ j - 1 \in 1 .. (i - 1) - 1
        BY <1>1, <3>1, <3>4
      <4>2. s[j - 1].k \in NestKinds
        BY <2>2, <3>1, <4>1 DEF BodyNest
      <4> QED
        BY <1>3, <3>4, <4>1, <4>2
    <3> QED
      BY <3>3, <3>4
  <2>3. BodyNest(t) => BodyNest(s) /\ (Has(s, "body") => x.k \in NestKinds)
    BY <2>1 DEF BodyNest, Has
  <2>4. BodyNest(s) /\ (Has(s, "body") => x.k \in NestKinds) => BodyNest(t)
    BY <2>2 DEF BodyNest
  <2> QED
    BY <2>3, <2>4
<1>9. ClearOnTop(t) <=> ~Has(s, "clear")
  BY <1>1, <1>2, <1>3 DEF ClearOnTop, Has
<1>10. Len(s) >= 1 => 1 \in 1 .. Len(s) /\ t[2] = s[1] /\ Top(s) = s[1].k
  <2>1. Len(s) >= 1 => 1 \in 1 .. Len(s) /\ t[1 + 1] = s[1]
    BY <1>1
  <2> QED
    BY <2>1, TopPlaces
<1>11. InBody(t) <=> InBody(s) \/ (x.k = "body" /\ Top(s) \in LoopKinds)
  <2>1. ASSUME NEW i \in 1 .. Len(s), s[i].k = "body", i + 1 <= Len(s), s[i + 1].k \in LoopKinds
        PROVE  InBody(t)
    <3>1. /\ i + 1 \in 1 .. Len(s) /\ i + 1 \in 1 .. Len(t) /\ (i + 1) + 1 <= Len(t)
          /\ t[i + 1] = s[i] /\ t[(i + 1) + 1] = s[i + 1]
      BY <1>1, <2>1
    <3> QED
      BY <2>1, <3>1 DEF InBody
  <2>2. ASSUME x.k = "body", Top(s) \in LoopKinds
        PROVE  InBody(t)
    <3>1. Len(s) >= 1
      BY <1>1, <2>2, TopPlaces DEF LoopKinds
    <3>2. 1 + 1 <= Len(t) /\ t[1 + 1].k \in LoopKinds
      BY <1>1, <1>10, <2>2, <3>1
    <3> QED
      BY <1>1, <1>4, <2>2, <3>2 DEF InBody
  <2>3. ASSUME NEW i \in 1 .. Len(t), t[i].k = "body", i + 1 <= Len(t), t[i + 1].k \in LoopKinds
        PROVE  InBody(s) \/ (x.k = "body" /\ Top(s) \in LoopKinds)
    <3>1. CASE i = 1
      <4>1. Len(s) >= 1 /\ i + 1 = 2
        BY <1>1, <2>3, <3>1
      <4> QED
        BY <1>1, <1>10, <2>3, <3>1, <4>1
    <3>2. CASE i # 1
      <4>1. /\ i - 1 \in 1 .. Len(s) /\ (i - 1) + 1 = i /\ i \in 1 .. Len(s)
            /\ s[i - 1] = t[i] /\ s[i] = t[i + 1]
        BY <1>1, <1>3, <2>3, <3>2
      <4> QED
        BY <2>3, <4>1 DEF InBody
    <3> QED
      BY <3>1, <3>2
  <2> QED
    BY <2>1, <2>2, <2>3 DEF InBody
<1> DEFINE H == {"onprefinish", "onfinish"}
           At(q, i) == /\ i + 1 <= Len(q)
                       /\ \/ q[i + 1].k = "endTail"
                          \/ q[i + 1].k = "finish" /\ i + 2 <= Len(q) /\ q[i + 2].k = "endTail"
<1>12. /\ Held(s) <=> \E i \in 1 .. Len(s) : s[i].k \in H /\ At(s, i)
       /\ Held(t) <=> \E i \in 1 .. Len(t) : t[i].k \in H /\ At(t, i)
  BY DEF Held
<1>13. \A i \in 1 .. Len(s) : At(s, i) <=> At(t, i + 1)
  <2> SUFFICES ASSUME NEW i \in 1 .. Len(s) PROVE At(s, i) <=> At(t, i + 1)
    OBVIOUS
  <2>1. /\ i + 1 <= Len(s) <=> (i + 1) + 1 <= Len(t)
        /\ i + 2 <= Len(s) <=> (i + 1) + 2 <= Len(t)
    BY <1>1
  <2>2. i + 1 <= Len(s) => t[(i + 1) + 1] = s[i + 1]
    <3>1. i + 1 <= Len(s) => i + 1 \in 1 .. Len(s)
      BY <1>1
    <3> QED
      BY <1>1, <3>1
  <2>3. i + 2 <= Len(s) => t[(i + 1) + 2] = s[i + 2]
    <3>1. i + 2 <= Len(s) => i + 2 \in 1 .. Len(s) /\ (i + 2) + 1 = (i + 1) + 2
      BY <1>1
    <3> QED
      BY <1>1, <3>1
  <2> QED
    BY <2>1, <2>2, <2>3
<1>14. At(t, 1) <=> AtTail(s)
  <2>1. /\ 1 + 1 <= Len(t) <=> Len(s) >= 1
        /\ 1 + 2 <= Len(t) <=> Len(s) >= 2
    BY <1>1
  <2>2. Len(s) >= 1 => t[1 + 1] = s[1]
    BY <1>1
  <2>3. Len(s) >= 2 => t[1 + 2] = s[2]
    <3>1. Len(s) >= 2 => 2 \in 1 .. Len(s) /\ 2 + 1 = 1 + 2
      BY <1>1
    <3> QED
      BY <1>1, <3>1
  <2>4. /\ Len(s) = 0 \/ Len(s) = 1 \/ Len(s) >= 2
        /\ Len(s) >= 2 => Len(s) >= 1
    BY <1>1
  <2> QED
    BY <2>1, <2>2, <2>3, <2>4, TopPlaces DEF AtTail
<1> HIDE DEF At, H
<1>15. Held(t) <=> Held(s) \/ (x.k \in H /\ AtTail(s))
  <2>1. ASSUME NEW i \in 1 .. Len(s), s[i].k \in H, At(s, i)
        PROVE  \E j \in 1 .. Len(t) : t[j].k \in H /\ At(t, j)
    BY <1>1, <1>2, <1>13, <2>1
  <2>2. ASSUME x.k \in H, AtTail(s)
        PROVE  \E j \in 1 .. Len(t) : t[j].k \in H /\ At(t, j)
    BY <1>1, <1>4, <1>14, <2>2
  <2>3. ASSUME NEW i \in 1 .. Len(t), t[i].k \in H, At(t, i)
        PROVE  \/ \E j \in 1 .. Len(s) : s[j].k \in H /\ At(s, j)
               \/ x.k \in H /\ AtTail(s)
    <3>1. CASE i = 1
      BY <1>1, <1>14, <2>3, <3>1
    <3>2. CASE i # 1
      <4>1. i - 1 \in 1 .. Len(s) /\ s[i - 1] = t[i] /\ (i - 1) + 1 = i
        BY <1>3, <3>2
      <4>2. At(s, i - 1)
        BY <1>13, <2>3, <4>1
      <4> QED
        BY <2>3, <4>1, <4>2
    <3> QED
      BY <3>1, <3>2
  <2> QED
    BY <1>12, <2>1, <2>2, <2>3
<1> QED
  BY <1>1, <1>5, <1>6, <1>7, <1>8, <1>9, <1>11, <1>15 DEF t, H

\* A stack is empty, or an item on the rest.
LEMMA PopShape ==
  ASSUME NEW s \in Seq(Items)
  PROVE  /\ s # <<>> => \E x \in Items, u \in Seq(Items) :
                          s = Push(x, u) /\ Tail(s) = u /\ Top(s) = x.k
         /\ s = <<>> => /\ Top(s) = "none" /\ \A k : ~Has(s, k)
                        /\ OneLoop(s) /\ BodyNest(s) /\ ClearOnTop(s)
                        /\ ~InBody(s) /\ ~Held(s)
<1>1. s # <<>> => Head(s) \in Items /\ Tail(s) \in Seq(Items) /\ s = <<Head(s)>> \o Tail(s)
  OBVIOUS
<1>2. s = <<>> => 1 .. Len(s) = {}
  OBVIOUS
<1> QED
  BY <1>1, <1>2 DEF Push, Top, Has, OneLoop, BodyNest, ClearOnTop, InBody, Held

\* A stack on which user code may run: no clearBuffer is about to start, one in
\* its loop waits for a body, and nothing is owed.
Idling(td, wv, wr, sy, bp, fl, done) ==
  /\ Clearing(td, wv, wr, sy, bp, fl, done, FALSE)
  /\ ~Has(td, "clear")
  /\ bp /\ ~fl => InBody(td)

\* It is one when the item on top is not a part of clearBuffer.
LEMMA IsIdling ==
  ASSUME NEW td \in Seq(Items), NEW wv, NEW wr, NEW sy, NEW bp, NEW fl, NEW done, NEW owing,
         Clearing(td, wv, wr, sy, bp, fl, done, owing),
         Top(td) \notin LoopKinds \cup {"clear", "unsync", "defer"}
  PROVE  Idling(td, wv, wr, sy, bp, fl, done) /\ ~owing
<1>1. ~Has(td, "clear")
  <2>1. CASE td = <<>>
    BY <2>1, PopShape
  <2>2. CASE td # <<>>
    <3>1. PICK x \in Items, s \in Seq(Items) : td = Push(x, s) /\ Tail(td) = s /\ Top(td) = x.k
      BY <2>2, PopShape
    <3>2. x.k # "clear" /\ ClearOnTop(td)
      BY <3>1 DEF Clearing
    <3> QED
      BY <3>1, <3>2, PushShape
  <2> QED
    BY <2>1, <2>2
<1>2. ~owing
  BY DEF Clearing, LoopKinds
<1>3. ~Between(td)
  BY DEF Between, LoopKinds
<1> QED
  BY <1>1, <1>2, <1>3 DEF Idling, Clearing

\* An item that is no part of clearBuffer nor a body leaves.
LEMMA PopIdling ==
  ASSUME NEW td \in Seq(Items), NEW wv, NEW wr, NEW sy, NEW bp, NEW fl, NEW done,
         Idling(td, wv, wr, sy, bp, fl, done), td # <<>>,
         Top(td) \notin LoopKinds \cup {"body"}
  PROVE  Idling(Tail(td), wv, wr, sy, bp, fl, done)
<1>1. PICK x \in Items, s \in Seq(Items) : td = Push(x, s) /\ Tail(td) = s /\ Top(td) = x.k
  BY PopShape
<1>2. x.k \notin LoopKinds /\ x.k # "body"
  BY <1>1
<1>3. /\ \A k : Has(td, k) <=> x.k = k \/ Has(s, k)
      /\ OneLoop(td) => OneLoop(s)
      /\ BodyNest(td) => BodyNest(s)
      /\ InBody(td) <=> InBody(s)
      /\ ClearOnTop(s)
  <2>1. ~Has(s, "clear")
    BY <1>1, PushShape DEF Idling
  <2>2. ClearOnTop(s)
    BY <2>1 DEF ClearOnTop, Has
  <2> QED
    BY <1>1, <1>2, <2>2, PushShape
<1>4. Idling(s, wv, wr, sy, bp, fl, done)
  BY <1>1, <1>2, <1>3 DEF Idling, Clearing
<1> QED
  BY <1>1, <1>4

\* Such an item comes; above a body, only one that its calls may put there.
LEMMA PushIdling ==
  ASSUME NEW s \in Seq(Items), NEW wv, NEW wr, NEW sy, NEW bp, NEW fl, NEW done,
         Idling(s, wv, wr, sy, bp, fl, done), NEW x \in Items,
         x.k \notin LoopKinds \cup {"body", "clear"},
         Has(s, "body") => x.k \in NestKinds /\ ~wv
  PROVE  Idling(Push(x, s), wv, wr, sy, bp, fl, done)
<1> DEFINE t == Push(x, s)
<1>1. /\ \A k : Has(t, k) <=> x.k = k \/ Has(s, k)
      /\ OneLoop(s) => OneLoop(t)
      /\ BodyNest(s) => BodyNest(t)
      /\ InBody(t) <=> InBody(s)
      /\ ClearOnTop(t) <=> ~Has(s, "clear")
  BY PushShape
<1> HIDE DEF t
<1>2. x.k # "loop" /\ x.k # "emptied" /\ x.k # "body" /\ x.k # "clear"
  BY DEF LoopKinds
<1>3. Idling(t, wv, wr, sy, bp, fl, done)
  BY <1>1, <1>2 DEF Idling, Clearing
<1> QED
  BY <1>3 DEF t

\* Nothing more is needed of a stack where user code may run.
LEMMA IdlingSuffices ==
  ASSUME NEW td, NEW wv, NEW wr, NEW sy, NEW bp, NEW fl, NEW done, NEW owing,
         Idling(td, wv, wr, sy, bp, fl, done), ~owing
  PROVE  Clearing(td, wv, wr, sy, bp, fl, done, owing)
<1> QED
  BY DEF Idling, Clearing

\* Under anything but a body and what its calls put there, there is no body.
LEMMA NoBody ==
  ASSUME NEW td \in Seq(Items), BodyNest(td), Top(td) \notin NestKinds \cup {"body"}
  PROVE  ~Has(td, "body")
<1>1. CASE td = <<>>
  BY <1>1, PopShape
<1>2. CASE td # <<>>
  <2>1. PICK x \in Items, s \in Seq(Items) : td = Push(x, s) /\ Tail(td) = s /\ Top(td) = x.k
    BY <1>2, PopShape
  <2> QED
    BY <2>1, PushShape
<1> QED
  BY <1>1, <1>2

\* A stack on which user code may run, while end() has not returned: a handler
\* is on it.
Waiting(td, en, ed, fi, empty) ==
  /\ (fi \/ Has(td, "finish")) => en /\ empty
  /\ en /\ ~ed => Held(td)

\* It is one when end() is not at its tail.
LEMMA IsWaiting ==
  ASSUME NEW td, NEW en, NEW ed, NEW fi, NEW empty, Ending(td, en, ed, fi, empty),
         Top(td) \notin {"endTail", "finish", "finishMaybe"}
  PROVE  Waiting(td, en, ed, fi, empty)
<1> QED
  BY DEF Ending, Waiting, Closing, AtTail

\* An item that is no handler leaves.
LEMMA PopWaiting ==
  ASSUME NEW td \in Seq(Items), NEW en, NEW ed, NEW fi, NEW empty,
         Waiting(td, en, ed, fi, empty), td # <<>>, Top(td) \notin {"onprefinish", "onfinish"}
  PROVE  Waiting(Tail(td), en, ed, fi, empty)
<1>1. PICK x \in Items, s \in Seq(Items) : td = Push(x, s) /\ Tail(td) = s /\ Top(td) = x.k
  BY PopShape
<1>2. /\ \A k : Has(td, k) <=> x.k = k \/ Has(s, k)
      /\ Held(td) <=> Held(s)
  BY <1>1, PushShape
<1> QED
  BY <1>1, <1>2 DEF Waiting

\* A handler leaves: end() may be at its tail.
LEMMA PopHandler ==
  ASSUME NEW td \in Seq(Items), NEW en, NEW ed, NEW fi, NEW empty,
         Waiting(td, en, ed, fi, empty), td # <<>>
  PROVE  Ending(Tail(td), en, ed, fi, empty)
<1>1. PICK x \in Items, s \in Seq(Items) : td = Push(x, s) /\ Tail(td) = s /\ Top(td) = x.k
  BY PopShape
<1>2. /\ \A k : Has(td, k) <=> x.k = k \/ Has(s, k)
      /\ Held(td) => Held(s) \/ AtTail(s)
  BY <1>1, PushShape
<1> QED
  BY <1>1, <1>2 DEF Waiting, Ending, Closing

\* An item other than finish comes.
LEMMA PushWaiting ==
  ASSUME NEW s \in Seq(Items), NEW en, NEW ed, NEW fi, NEW empty,
         Waiting(s, en, ed, fi, empty), NEW x \in Items, x.k # "finish"
  PROVE  Waiting(Push(x, s), en, ed, fi, empty)
<1>1. /\ \A k : Has(Push(x, s), k) <=> x.k = k \/ Has(s, k)
      /\ Held(s) => Held(Push(x, s))
  BY PushShape
<1> QED
  BY <1>1 DEF Waiting

\* Nothing more is needed of it.
LEMMA WaitingSuffices ==
  ASSUME NEW td, NEW en, NEW ed, NEW fi, NEW empty, Waiting(td, en, ed, fi, empty)
  PROVE  Ending(td, en, ed, fi, empty)
<1> QED
  BY DEF Ending, Waiting, Closing

-----------------------------------------------------------------------------
(* Where the accepted writes are *)

\* One more element at the end.
LEMMA OneMore ==
  ASSUME NEW sk \in Seq(Nat), NEW x \in Nat
  PROVE  /\ sk \o <<x>> \in Seq(Nat) /\ Len(sk \o <<x>>) = Len(sk) + 1 /\ Len(sk) \in Nat
         /\ (sk \o <<x>>)[Len(sk) + 1] = x
         /\ \A i \in 1 .. Len(sk) : (sk \o <<x>>)[i] = sk[i]
         /\ \A i \in 1 .. Len(sk \o <<x>>) :
              \/ i \in 1 .. Len(sk) /\ (sk \o <<x>>)[i] = sk[i]
              \/ i = Len(sk) + 1 /\ (sk \o <<x>>)[i] = x
         /\ (/\ \A i, j \in 1 .. Len(sk) : sk[i] = sk[j] => i = j
             /\ \A i \in 1 .. Len(sk) : sk[i] # x)
            => \A i, j \in 1 .. Len(sk \o <<x>>) :
                 (sk \o <<x>>)[i] = (sk \o <<x>>)[j] => i = j
<1> DEFINE t == sk \o <<x>>
<1>1. /\ t \in Seq(Nat) /\ Len(t) = Len(sk) + 1 /\ Len(sk) \in Nat
      /\ t[Len(sk) + 1] = x
      /\ \A i \in 1 .. Len(sk) : t[i] = sk[i]
  OBVIOUS
<1> HIDE DEF t
<1>2. \A i \in 1 .. Len(t) : \/ i \in 1 .. Len(sk) /\ t[i] = sk[i]
                             \/ i = Len(sk) + 1 /\ t[i] = x
  BY <1>1
<1>3. ASSUME \A i, j \in 1 .. Len(sk) : sk[i] = sk[j] => i = j,
             \A i \in 1 .. Len(sk) : sk[i] # x,
             NEW i \in 1 .. Len(t), NEW j \in 1 .. Len(t), t[i] = t[j]
      PROVE  i = j
  <2>1. CASE i \in 1 .. Len(sk) /\ t[i] = sk[i] /\ j \in 1 .. Len(sk) /\ t[j] = sk[j]
    BY <1>3, <2>1
  <2>2. CASE i = Len(sk) + 1 /\ t[i] = x /\ j = Len(sk) + 1 /\ t[j] = x
    BY <2>2
  <2>3. CASE i \in 1 .. Len(sk) /\ t[i] = sk[i] /\ j = Len(sk) + 1 /\ t[j] = x
    BY <1>3, <2>3
  <2>4. CASE i = Len(sk) + 1 /\ t[i] = x /\ j \in 1 .. Len(sk) /\ t[j] = sk[j]
    BY <1>3, <2>4
  <2> QED
    BY <1>2, <2>1, <2>2, <2>3, <2>4
<1> QED
  BY <1>1, <1>2, <1>3 DEF t

\* A write that finds the stream idle is handed over: nothing waits before it.
LEMMA DeliverAtOnce ==
  ASSUME NEW sk, NEW bf, NEW cu, NEW n, NEW fl, Delivery(sk, bf, cu, n, fl),
         fl \/ cu = Len(bf)
  PROVE  Delivery(sk \o <<n + 1>>, bf, cu, n + 1, fl)
<1> DEFINE t == sk \o <<n + 1>>
<1>1. /\ cu \in Nat /\ n \in Nat /\ cu <= Len(bf) /\ sk \in Seq(Nat) /\ bf \in Seq(Nat)
      /\ n + 1 \in Nat
  BY DEF Delivery
<1>2. /\ t \in Seq(Nat) /\ Len(t) = Len(sk) + 1 /\ Len(sk) \in Nat /\ t[Len(sk) + 1] = n + 1
      /\ \A i \in 1 .. Len(sk) : t[i] = sk[i]
  BY <1>1, OneMore
<1>3. \A i \in 1 .. Len(t) : \/ i \in 1 .. Len(sk) /\ t[i] = sk[i]
                             \/ i = Len(sk) + 1 /\ t[i] = n + 1
  BY <1>1, OneMore
<1>4. /\ \A i \in 1 .. Len(sk) : sk[i] \in 1 .. n + 1 /\ sk[i] # n + 1
      /\ \A i \in cu + 1 .. Len(bf) : bf[i] \in 1 .. n + 1 /\ bf[i] # n + 1
      /\ n + 1 \in 1 .. n + 1
  BY <1>1 DEF Delivery
<1>5. /\ \A i \in 1 .. Len(t) : t[i] \in 1 .. n + 1
      /\ \A i, j \in 1 .. Len(t) : t[i] = t[j] => i = j
      /\ \A i \in 1 .. Len(t), j \in cu + 1 .. Len(bf) : t[i] # bf[j]
  <2>1. \A i, j \in 1 .. Len(sk) : sk[i] = sk[j] => i = j
    BY DEF Delivery
  <2>2. \A i, j \in 1 .. Len(t) : t[i] = t[j] => i = j
    BY <1>1, <1>4, <2>1, OneMore
  <2> HIDE DEF t
  <2>3. \A i \in 1 .. Len(t) : t[i] \in 1 .. n + 1
    BY <1>3, <1>4
  <2>4. \A i \in 1 .. Len(t), j \in cu + 1 .. Len(bf) : t[i] # bf[j]
    BY <1>3, <1>4 DEF Delivery
  <2> QED
    BY <2>2, <2>3, <2>4
<1> HIDE DEF t
<1>6. ~fl => /\ \A i \in 1 .. Len(t) : t[i] = i
             /\ \A i \in cu + 1 .. Len(bf) : bf[i] = Len(t) + i - cu
             /\ n + 1 = Len(t) + Len(bf) - cu
  <2> SUFFICES ASSUME ~fl PROVE /\ \A i \in 1 .. Len(t) : t[i] = i
                                /\ \A i \in cu + 1 .. Len(bf) : bf[i] = Len(t) + i - cu
                                /\ n + 1 = Len(t) + Len(bf) - cu
    OBVIOUS
  <2>1. cu = Len(bf) /\ n = Len(sk)
    BY <1>1, <1>2 DEF Delivery
  <2>2. \A i \in 1 .. Len(t) : t[i] = i
    BY <1>2, <1>3, <2>1 DEF Delivery
  <2> QED
    BY <1>1, <1>2, <2>1, <2>2
<1>7. Delivery(t, bf, cu, n + 1, fl)
  BY <1>1, <1>2, <1>4, <1>5, <1>6 DEF Delivery
<1> QED
  BY <1>7 DEF t

\* A write is buffered.
LEMMA DeliverLater ==
  ASSUME NEW sk, NEW bf, NEW cu, NEW n, NEW fl, Delivery(sk, bf, cu, n, fl)
  PROVE  Delivery(sk, Append(bf, n + 1), cu, n + 1, fl)
<1> DEFINE b == Append(bf, n + 1)
<1>1. /\ cu \in Nat /\ n \in Nat /\ cu <= Len(bf) /\ sk \in Seq(Nat) /\ bf \in Seq(Nat)
      /\ n + 1 \in Nat
  BY DEF Delivery
<1>2. /\ b \in Seq(Nat) /\ Len(b) = Len(bf) + 1 /\ Len(bf) \in Nat /\ b[Len(bf) + 1] = n + 1
      /\ \A i \in 1 .. Len(bf) : b[i] = bf[i]
  BY <1>1
<1> HIDE DEF b
<1>3. /\ \A i \in cu + 1 .. Len(b) : i \in cu + 1 .. Len(bf) \/ i = Len(bf) + 1
      /\ \A i \in cu + 1 .. Len(bf) : i \in 1 .. Len(bf)
      /\ cu <= Len(b)
  BY <1>1, <1>2
<1>4. /\ \A i \in 1 .. Len(sk) : sk[i] \in 1 .. n + 1 /\ sk[i] # n + 1
      /\ \A i \in cu + 1 .. Len(bf) : bf[i] \in 1 .. n + 1 /\ bf[i] # n + 1
      /\ n + 1 \in 1 .. n + 1
  BY <1>1 DEF Delivery
<1>5. /\ \A i \in cu + 1 .. Len(b) : b[i] \in 1 .. n + 1
      /\ \A i, j \in cu + 1 .. Len(b) : b[i] = b[j] => i = j
      /\ \A i \in 1 .. Len(sk), j \in cu + 1 .. Len(b) : sk[i] # b[j]
  BY <1>2, <1>3, <1>4, ZenonT(60) DEF Delivery
<1>6. ~fl => /\ \A i \in cu + 1 .. Len(b) : b[i] = Len(sk) + i - cu
             /\ n + 1 = Len(sk) + Len(b) - cu
  <2> SUFFICES ASSUME ~fl PROVE /\ \A i \in cu + 1 .. Len(b) : b[i] = Len(sk) + i - cu
                                /\ n + 1 = Len(sk) + Len(b) - cu
    OBVIOUS
  <2>1. n = Len(sk) + Len(bf) - cu /\ Len(sk) \in Nat
    BY <1>1 DEF Delivery
  <2>2. n + 1 = Len(sk) + (Len(bf) + 1) - cu
    BY <1>1, <1>2, <2>1
  <2>3. \A i \in cu + 1 .. Len(bf) : b[i] = Len(sk) + i - cu
    BY <1>2, <1>3 DEF Delivery
  <2> QED
    BY <1>2, <1>3, <2>2, <2>3
<1>7. Delivery(sk, b, cu, n + 1, fl)
  BY <1>1, <1>2, <1>3, <1>4, <1>5, <1>6 DEF Delivery
<1> QED
  BY <1>7 DEF b

\* The whole buffer is handed to _writev.
LEMMA DeliverBatch ==
  ASSUME NEW sk, NEW bf, NEW n, NEW fl, Delivery(sk, bf, 0, n, fl)
  PROVE  Delivery(sk \o bf, bf, Len(bf), n, fl)
<1> DEFINE t == sk \o bf
<1>1. n \in Nat /\ sk \in Seq(Nat) /\ bf \in Seq(Nat)
  BY DEF Delivery
<1>2. /\ t \in Seq(Nat) /\ Len(t) = Len(sk) + Len(bf) /\ Len(sk) \in Nat /\ Len(bf) \in Nat
      /\ \A i \in 1 .. Len(sk) : t[i] = sk[i]
      /\ \A i \in 1 .. Len(bf) : t[Len(sk) + i] = bf[i]
  BY <1>1
<1> HIDE DEF t
<1>3. \A i \in 1 .. Len(t) : \/ i \in 1 .. Len(sk)
                             \/ i - Len(sk) \in 1 .. Len(bf) /\ Len(sk) + (i - Len(sk)) = i
  BY <1>2
<1>4. /\ \A i \in 1 .. Len(t) : i \notin 1 .. Len(sk) => t[i] = bf[i - Len(sk)]
      /\ \A i \in 1 .. Len(bf) : i \in 0 + 1 .. Len(bf)
  <2>1. \A i \in 1 .. Len(t) : i \notin 1 .. Len(sk) => t[i] = bf[i - Len(sk)]
    <3> SUFFICES ASSUME NEW i \in 1 .. Len(t), i \notin 1 .. Len(sk) PROVE t[i] = bf[i - Len(sk)]
      OBVIOUS
    <3>1. i - Len(sk) \in 1 .. Len(bf) /\ Len(sk) + (i - Len(sk)) = i
      BY <1>3
    <3>2. t[Len(sk) + (i - Len(sk))] = bf[i - Len(sk)]
      BY <1>2, <3>1
    <3> QED
      BY <3>1, <3>2
  <2>2. \A i \in 1 .. Len(bf) : i \in 0 + 1 .. Len(bf)
    BY <1>2
  <2> QED
    BY <2>1, <2>2
<1>5. \A i \in 1 .. Len(t) : t[i] \in 1 .. n
  BY <1>2, <1>3, <1>4 DEF Delivery
<1>6. ASSUME NEW i \in 1 .. Len(t), NEW j \in 1 .. Len(t), t[i] = t[j]
      PROVE  i = j
  <2>1. CASE i \in 1 .. Len(sk) /\ j \in 1 .. Len(sk)
    BY <1>2, <1>6, <2>1 DEF Delivery
  <2>2. CASE i \notin 1 .. Len(sk) /\ j \notin 1 .. Len(sk)
    <3>1. i - Len(sk) = j - Len(sk)
      BY <1>3, <1>4, <1>6, <2>2 DEF Delivery
    <3> QED
      BY <1>2, <3>1
  <2>3. CASE i \in 1 .. Len(sk) /\ j \notin 1 .. Len(sk)
    <3>1. t[i] = sk[i] /\ t[j] = bf[j - Len(sk)] /\ j - Len(sk) \in 0 + 1 .. Len(bf)
      BY <1>2, <1>3, <1>4, <2>3
    <3> QED
      BY <1>6, <2>3, <3>1 DEF Delivery
  <2>4. CASE i \notin 1 .. Len(sk) /\ j \in 1 .. Len(sk)
    <3>1. t[j] = sk[j] /\ t[i] = bf[i - Len(sk)] /\ i - Len(sk) \in 0 + 1 .. Len(bf)
      BY <1>2, <1>3, <1>4, <2>4
    <3> QED
      BY <1>6, <2>4, <3>1 DEF Delivery
  <2> QED
    BY <2>1, <2>2, <2>3, <2>4
<1>7. ~fl => (\A i \in 1 .. Len(t) : t[i] = i) /\ n = Len(t) + Len(bf) - Len(bf)
  <2> SUFFICES ASSUME ~fl
               PROVE  (\A i \in 1 .. Len(t) : t[i] = i) /\ n = Len(t) + Len(bf) - Len(bf)
    OBVIOUS
  <2>1. /\ \A i \in 1 .. Len(sk) : sk[i] = i
        /\ \A i \in 1 .. Len(bf) : bf[i] = Len(sk) + i
        /\ n = Len(sk) + Len(bf)
    BY <1>2, <1>4 DEF Delivery
  <2>2. \A i \in 1 .. Len(t) : t[i] = i
    BY <1>2, <1>3, <1>4, <2>1
  <2> QED
    BY <1>2, <2>1, <2>2
<1>8. ~(Len(bf) + 1 <= Len(bf)) /\ \A i \in Len(bf) + 1 .. Len(bf) : FALSE
  BY <1>2
<1>9. Delivery(t, bf, Len(bf), n, fl)
  BY <1>1, <1>2, <1>5, <1>6, <1>7, <1>8 DEF Delivery
<1> QED
  BY <1>9 DEF t

\* The next buffered write is handed over.
LEMMA DeliverNext ==
  ASSUME NEW sk, NEW bf, NEW cu, NEW n, NEW fl, Delivery(sk, bf, cu, n, fl), cu < Len(bf)
  PROVE  Delivery(sk \o <<bf[cu + 1]>>, bf, cu + 1, n, fl)
<1> DEFINE x == bf[cu + 1]
           t == sk \o <<x>>
<1>1. /\ cu \in Nat /\ n \in Nat /\ cu < Len(bf) /\ sk \in Seq(Nat) /\ bf \in Seq(Nat)
      /\ Len(bf) \in Nat /\ cu + 1 \in cu + 1 .. Len(bf) /\ cu + 1 \in Nat /\ cu + 1 <= Len(bf)
      /\ \A i \in (cu + 1) + 1 .. Len(bf) : i \in cu + 1 .. Len(bf) /\ i # cu + 1
  BY DEF Delivery
<1>2. x \in 1 .. n /\ x \in Nat
  BY <1>1 DEF Delivery
<1>3. /\ \A i \in 1 .. Len(sk) : sk[i] # x
      /\ \A i \in (cu + 1) + 1 .. Len(bf) : bf[i] # x
  BY <1>1 DEF Delivery
<1>4. ~fl => x = Len(sk) + 1
  <2>1. ~fl => x = Len(sk) + (cu + 1) - cu
    BY <1>1 DEF Delivery
  <2>2. Len(sk) \in Nat
    BY <1>1
  <2> QED
    BY <1>1, <2>1, <2>2
<1> HIDE DEF x
<1>5. /\ t \in Seq(Nat) /\ Len(t) = Len(sk) + 1 /\ Len(sk) \in Nat /\ t[Len(sk) + 1] = x
      /\ \A i \in 1 .. Len(sk) : t[i] = sk[i]
  BY <1>1, <1>2, OneMore
<1>6. \A i \in 1 .. Len(t) : \/ i \in 1 .. Len(sk) /\ t[i] = sk[i]
                             \/ i = Len(sk) + 1 /\ t[i] = x
  BY <1>1, <1>2, OneMore
<1>7. /\ \A i \in 1 .. Len(t) : t[i] \in 1 .. n
      /\ \A i, j \in 1 .. Len(t) : t[i] = t[j] => i = j
      /\ \A i \in 1 .. Len(t), j \in (cu + 1) + 1 .. Len(bf) : t[i] # bf[j]
  <2>1. \A i, j \in 1 .. Len(sk) : sk[i] = sk[j] => i = j
    BY DEF Delivery
  <2>2. \A i, j \in 1 .. Len(t) : t[i] = t[j] => i = j
    BY <1>1, <1>2, <1>3, <2>1, OneMore
  <2> HIDE DEF t
  <2>3. \A i \in 1 .. Len(t) : t[i] \in 1 .. n
    BY <1>2, <1>6 DEF Delivery
  <2>4. \A i \in 1 .. Len(t), j \in (cu + 1) + 1 .. Len(bf) : t[i] # bf[j]
    BY <1>1, <1>3, <1>6 DEF Delivery
  <2> QED
    BY <2>2, <2>3, <2>4
<1> HIDE DEF t
<1>8. ~fl => /\ \A i \in 1 .. Len(t) : t[i] = i
             /\ \A i \in (cu + 1) + 1 .. Len(bf) : bf[i] = Len(t) + i - (cu + 1)
             /\ n = Len(t) + Len(bf) - (cu + 1)
  <2> SUFFICES ASSUME ~fl PROVE /\ \A i \in 1 .. Len(t) : t[i] = i
                                /\ \A i \in (cu + 1) + 1 .. Len(bf) : bf[i] = Len(t) + i - (cu + 1)
                                /\ n = Len(t) + Len(bf) - (cu + 1)
    OBVIOUS
  <2>1. \A i \in 1 .. Len(t) : t[i] = i
    BY <1>4, <1>5, <1>6 DEF Delivery
  <2>2. \A i \in (cu + 1) + 1 .. Len(bf) : bf[i] = Len(sk) + i - cu
    BY <1>1 DEF Delivery
  <2>3. n = Len(sk) + Len(bf) - cu
    BY DEF Delivery
  <2> QED
    BY <1>1, <1>5, <2>1, <2>2, <2>3
<1>9. \A i, j \in (cu + 1) + 1 .. Len(bf) : bf[i] = bf[j] => i = j
  BY <1>1 DEF Delivery
<1>10. \A i \in (cu + 1) + 1 .. Len(bf) : bf[i] \in 1 .. n
  BY <1>1 DEF Delivery
<1>11. Delivery(t, bf, cu + 1, n, fl)
  BY <1>1, <1>5, <1>7, <1>8, <1>9, <1>10 DEF Delivery
<1> QED
  BY <1>11 DEF t, x

\* The loop ends: slice(c).
LEMMA DeliverSlice ==
  ASSUME NEW sk, NEW bf, NEW cu, NEW n, NEW fl, Delivery(sk, bf, cu, n, fl)
  PROVE  Delivery(sk, SubSeq(bf, cu + 1, Len(bf)), 0, n, fl)
<1> DEFINE b == SubSeq(bf, cu + 1, Len(bf))
<1>1. /\ cu \in Nat /\ n \in Nat /\ cu <= Len(bf) /\ sk \in Seq(Nat) /\ bf \in Seq(Nat)
      /\ Len(bf) \in Nat /\ Len(sk) \in Nat
  BY DEF Delivery
<1>2. /\ b \in Seq(Nat) /\ Len(b) = Len(bf) - cu
      /\ \A i \in 1 .. Len(b) : b[i] = bf[cu + i]
  BY <1>1
<1> HIDE DEF b
<1>3. \A i \in 1 .. Len(b) : cu + i \in cu + 1 .. Len(bf)
  BY <1>1, <1>2
<1>4. \A i \in 1 .. Len(b) : b[i] \in 1 .. n
  BY <1>2, <1>3 DEF Delivery
<1>5. ASSUME NEW i \in 1 .. Len(b), NEW j \in 1 .. Len(b), b[i] = b[j]
      PROVE  i = j
  <2>0. /\ bf[cu + i] = bf[cu + j]
        /\ cu + i \in cu + 1 .. Len(bf) /\ cu + j \in cu + 1 .. Len(bf)
    BY <1>2, <1>3, <1>5
  <2>1. cu + i = cu + j
    BY <2>0 DEF Delivery
  <2> QED
    BY <1>1, <2>1
<1>6. ASSUME NEW i \in 1 .. Len(sk), NEW j \in 1 .. Len(b)
      PROVE  sk[i] # b[j]
  <2>1. b[j] = bf[cu + j] /\ cu + j \in cu + 1 .. Len(bf)
    BY <1>2, <1>3
  <2> QED
    BY <2>1 DEF Delivery
<1>7. ~fl => /\ \A i \in 1 .. Len(b) : b[i] = Len(sk) + i - 0
             /\ n = Len(sk) + Len(b) - 0
  <2> SUFFICES ASSUME ~fl PROVE /\ \A i \in 1 .. Len(b) : b[i] = Len(sk) + i - 0
                                /\ n = Len(sk) + Len(b) - 0
    OBVIOUS
  <2>1. \A i \in 1 .. Len(b) : b[i] = Len(sk) + (cu + i) - cu
    BY <1>2, <1>3 DEF Delivery
  <2>2. n = Len(sk) + Len(bf) - cu
    BY DEF Delivery
  <2> QED
    BY <1>1, <1>2, <2>1, <2>2
<1>8. 0 \in Nat /\ 0 <= Len(b) /\ 0 + 1 = 1
  BY <1>1, <1>2
<1>9. Delivery(sk, b, 0, n, fl)
  BY <1>1, <1>2, <1>4, <1>5, <1>6, <1>7, <1>8 DEF Delivery
<1> QED
  BY <1>9 DEF b

\* After _writev the buffer is emptied: nothing came in between, unless the write
\* failed.
LEMMA DeliverEmptied ==
  ASSUME NEW sk, NEW bf, NEW cu, NEW n, NEW fl, Delivery(sk, bf, cu, n, fl),
         fl \/ cu = Len(bf)
  PROVE  Delivery(sk, <<>>, 0, n, fl)
<1>1. n \in Nat /\ sk \in Seq(Nat) /\ Len(sk) \in Nat /\ Len(bf) \in Nat
  BY DEF Delivery
<1>2. <<>> \in Seq(Nat) /\ Len(<<>>) = 0 /\ 0 + 1 .. 0 = {} /\ 0 \in Nat /\ 0 <= 0
  OBVIOUS
<1>3. ~fl => n = Len(sk) + 0 - 0
  BY <1>1 DEF Delivery
<1> QED
  BY <1>1, <1>2, <1>3 DEF Delivery

-----------------------------------------------------------------------------
(* What an action leaves on the stack *)

\* The items that actions push are items, of the kinds their names say.
LEMMA NewItems ==
  /\ \A k \in Kinds : Item(k) \in Items /\ Item(k).k = k
  /\ \A k \in Kinds, ids \in Seq(Nat) : ItemOf(k, ids) \in Items /\ ItemOf(k, ids).k = k
  /\ \A x \in Items : x.ids \in Seq(Nat) /\ x.k \in Kinds /\ x.fin \in BOOLEAN
<1>1. <<>> \in Seq(Nat)
  OBVIOUS
<1> QED
  BY <1>1 DEF Item, ItemOf, Items

\* Several items pushed at once are pushed one by one.
LEMMA PushMany ==
  ASSUME NEW a \in Items, NEW b \in Items, NEW s \in Seq(Items)
  PROVE  /\ <<>> \o s = s
         /\ <<a>> \o s = Push(a, s)
         /\ <<a, b>> \o s = Push(a, Push(b, s))
         /\ (<<a>> \o <<b>>) \o s = Push(a, Push(b, s))
         /\ (<<>> \o <<b>>) \o s = Push(b, s)
         /\ (<<a>> \o <<>>) \o s = Push(a, s)
         /\ (<<>> \o <<>>) \o s = s
<1>0. <<a>> \in Seq(Items) /\ <<b>> \in Seq(Items) /\ <<>> \in Seq(Items)
  OBVIOUS
<1>1. /\ <<a, b>> = <<a>> \o <<b>>
      /\ <<>> \o <<>> = <<>> /\ <<>> \o <<b>> = <<b>> /\ <<a>> \o <<>> = <<a>>
  <2>1. <<a, b>> = <<a>> \o <<b>>
    <3> DEFINE u == <<a>> \o <<b>>
               v == <<a, b>>
    <3>1. /\ u \in Seq(Items) /\ Len(u) = 2 /\ u[1] = a /\ u[2] = b
          /\ v \in Seq(Items) /\ Len(v) = 2 /\ v[1] = a /\ v[2] = b
      OBVIOUS
    <3> HIDE DEF u, v
    <3>2. \A i \in 1 .. 2 : u[i] = v[i]
      BY <3>1
    <3>3. u = v
      BY <3>1, <3>2, SeqEqual
    <3> QED
      BY <3>3 DEF u, v
  <2>2. <<>> \o <<>> = <<>> /\ <<>> \o <<b>> = <<b>> /\ <<a>> \o <<>> = <<a>>
    BY <1>0, ConcatEmptySeq
  <2> QED
    BY <2>1, <2>2
<1>2. (<<a>> \o <<b>>) \o s = <<a>> \o (<<b>> \o s)
  BY <1>0, ConcatAssociative
<1>3. <<>> \o s = s
  OBVIOUS
<1> QED
  BY <1>1, <1>2, <1>3 DEF Push

\* The stack s may run user code: clearBuffer is at rest on it, and end() is not
\* at its tail.
Calm(s) ==
  /\ s \in Seq(Items)
  /\ Idling(s, writev, writing, sync, bufferProcessing, failed, cursor = Len(buffer))
  /\ Has(s, "body") => ~writev

Quiet(s) == Waiting(s, ending, ended, finished, buffer = <<>>)

\* Items that calls of the user, or the stream outside of a body, put on a calm
\* stack.
Fits(x, s) ==
  /\ x \in Items
  /\ x.k \notin LoopKinds \cup {"body", "clear", "finish"}
  /\ Has(s, "body") => x.k \in NestKinds

\* A calm stack stays calm.
LEMMA PushCalm ==
  ASSUME NEW s, Calm(s), NEW x, Fits(x, s)
  PROVE  /\ Calm(Push(x, s))
         /\ Quiet(s) => Quiet(Push(x, s))
         /\ Has(Push(x, s), "body") <=> Has(s, "body")
<1>1. s \in Seq(Items) /\ x \in Items /\ x.k # "finish" /\ x.k # "body"
  BY DEF Calm, Fits
<1>2. /\ Push(x, s) \in Seq(Items)
      /\ Has(Push(x, s), "body") <=> Has(s, "body")
  BY <1>1, PushShape
<1>3. Idling(Push(x, s), writev, writing, sync, bufferProcessing, failed, cursor = Len(buffer))
  <2> DEFINE done == cursor = Len(buffer)
  <2>1. /\ Idling(s, writev, writing, sync, bufferProcessing, failed, done)
        /\ Has(s, "body") => ~writev
    BY DEF Calm
  <2>2. /\ x.k \notin LoopKinds \cup {"body", "clear"}
        /\ Has(s, "body") => x.k \in NestKinds /\ ~writev
    BY <2>1 DEF Fits
  <2> HIDE DEF done
  <2>3. Idling(Push(x, s), writev, writing, sync, bufferProcessing, failed, done)
    BY <1>1, <2>1, <2>2, PushIdling
  <2> QED
    BY <2>3 DEF done
<1>4. Quiet(s) => Quiet(Push(x, s))
  BY <1>1, PushWaiting DEF Quiet
<1> QED
  BY <1>2, <1>3, <1>4 DEF Calm

\* On a calm stack no batch is being cleared, unless a write failed; a body means
\* that a write is in progress, and so does a clearBuffer in its loop.
LEMMA CalmShape ==
  ASSUME NEW s, Calm(s)
  PROVE  /\ ~failed => ~Has(s, "emptied")
         /\ Has(s, "body") => writing /\ sync
         /\ bufferProcessing /\ ~failed => Has(s, "body")
         /\ ~Has(s, "clear")
<1>1. InBody(s) => Has(s, "body")
  BY DEF InBody, Has
<1> QED
  BY <1>1 DEF Calm, Idling, Clearing

\* A calm stack is all that the invariant asks of the stack when the stream owes
\* nothing, whatever became of the buffer.
LEMMA CalmSuffices ==
  ASSUME NEW s, Calm(s), NEW done
  PROVE  Clearing(s, writev, writing, sync, bufferProcessing, failed, done, FALSE)
<1>1. ~failed => ~Has(s, "emptied")
  BY CalmShape
<1> QED
  BY <1>1 DEF Calm, Idling, Clearing

\* An item that is no part of clearBuffer, end() or a body returns to a calm stack.
LEMMA PopCalm ==
  ASSUME IInv, todo # <<>>, Top(todo) \notin LoopKinds \cup {"clear", "unsync", "defer", "body"}
  PROVE  /\ Calm(Tail(todo)) /\ ~Owing
         /\ Top(todo) \notin NestKinds => ~Has(Tail(todo), "body")
         /\ Top(todo) \notin {"endTail", "finish", "finishMaybe"} =>
              /\ Ending(Tail(todo), ending, ended, finished, buffer = <<>>)
              /\ Top(todo) \notin {"onprefinish", "onfinish"} => Quiet(Tail(todo))
<1> DEFINE done == cursor = Len(buffer)
           empty == buffer = <<>>
           owing == Owing
<1>1. /\ todo \in Seq(Items) /\ Tail(todo) \in Seq(Items)
      /\ Clearing(todo, writev, writing, sync, bufferProcessing, failed, done, owing)
      /\ Ending(todo, ending, ended, finished, empty)
  BY DEF IInv, Types
<1> HIDE DEF done, empty, owing
<1>2. Idling(todo, writev, writing, sync, bufferProcessing, failed, done) /\ ~owing
  BY <1>1, IsIdling
<1>3. Idling(Tail(todo), writev, writing, sync, bufferProcessing, failed, done)
  BY <1>1, <1>2, PopIdling
<1>4. PICK x \in Items, s \in Seq(Items) : todo = Push(x, s) /\ Tail(todo) = s /\ Top(todo) = x.k
  BY <1>1, PopShape
<1>5. Has(todo, "body") <=> Has(Tail(todo), "body")
  BY <1>4, PushShape
<1>6. Has(Tail(todo), "body") => ~writev
  BY <1>1, <1>5 DEF Clearing
<1>7. Top(todo) \notin NestKinds => ~Has(Tail(todo), "body")
  BY <1>1, <1>5, NoBody DEF Clearing
<1>8. Top(todo) \notin {"endTail", "finish", "finishMaybe"} =>
        Waiting(todo, ending, ended, finished, empty)
  BY <1>1, IsWaiting
<1>9. Top(todo) \notin {"endTail", "finish", "finishMaybe"} =>
        Ending(Tail(todo), ending, ended, finished, empty)
  BY <1>1, <1>8, PopHandler
<1>10. Top(todo) \notin {"endTail", "finish", "finishMaybe", "onprefinish", "onfinish"} =>
         Waiting(Tail(todo), ending, ended, finished, empty)
  BY <1>1, <1>8, PopWaiting
<1> QED
  BY <1>1, <1>2, <1>3, <1>6, <1>7, <1>9, <1>10 DEF Calm, Quiet, done, empty, owing

\* User code runs on a calm stack, and a write that it makes comes before end().
LEMMA UserStack ==
  ASSUME IInv, UserRuns
  PROVE  /\ Calm(Caller) /\ Quiet(Caller) /\ ~Owing
         /\ LateWrites = FALSE /\ MayWrite => ~ending
<1> DEFINE done == cursor = Len(buffer)
           empty == buffer = <<>>
           owing == Owing
<1>1. /\ todo \in Seq(Items)
      /\ Clearing(todo, writev, writing, sync, bufferProcessing, failed, done, owing)
      /\ Ending(todo, ending, ended, finished, empty)
  BY DEF IInv, Types
<1>2. \/ todo = <<>> /\ Top(todo) = "none"
      \/ Top(todo) \in Handlers
      \/ Top(todo) = "body" /\ ~writev
  BY DEF UserRuns, Running, Top
<1> HIDE DEF done, empty, owing
<1>3. Idling(todo, writev, writing, sync, bufferProcessing, failed, done) /\ ~owing
  BY <1>1, <1>2, IsIdling DEF Handlers, LoopKinds
<1>4. Waiting(todo, ending, ended, finished, empty)
  BY <1>1, <1>2, IsWaiting DEF Handlers
<1>5. Has(todo, "body") => ~writev
  <2>1. todo = <<>> => ~Has(todo, "body")
    BY <1>1, PopShape
  <2> QED
    BY <1>1, <1>2, <2>1 DEF Clearing, Handlers
<1>6. Calm(todo) /\ Quiet(todo)
  BY <1>1, <1>3, <1>4, <1>5 DEF Calm, Quiet, done, empty
<1>7. Calm(Caller) /\ Quiet(Caller)
  <2>1. CASE todo = <<>>
    <3>1. Item("user") \in Items /\ Item("user").k = "user"
      BY NewItems DEF Kinds, Handlers
    <3>2. Fits(Item("user"), todo)
      BY <3>1 DEF Fits, LoopKinds, NestKinds
    <3>3. Calm(Push(Item("user"), todo)) /\ Quiet(Push(Item("user"), todo))
      BY <1>6, <3>2, PushCalm
    <3>4. Push(Item("user"), todo) = Caller
      BY <2>1 DEF Push, Caller
    <3> QED
      BY <3>3, <3>4
  <2>2. CASE todo # <<>>
    BY <1>6, <2>2 DEF Caller
  <2> QED
    BY <2>1, <2>2
<1>8. LateWrites = FALSE /\ MayWrite => ~ending
  BY <1>4 DEF Waiting, Held, MayWrite
<1> QED
  BY <1>3, <1>7, <1>8 DEF owing

-----------------------------------------------------------------------------
(* One lemma per action *)

\* Where the writes are, and what clearBuffer looks at.
places == <<writev, writing, sync, queue, failed, size, sunk>>

\* What the order of delivery depends on, but for the stack.
delivery == <<places, ending, ended, finished>>

\* An action that leaves the writes where they are, and a stack where none is owed.
LEMMA InPlace ==
  ASSUME IInv, UNCHANGED places, Calm(todo'),
         Ending(todo', ending', ended', finished', buffer' = <<>>),
         ~Owing', Types', \A i \in 1 .. Len(ticks') : ticks'[i].k \in TickKinds
  PROVE  IInv'
<1>1. Clearing(todo', writev, writing, sync, bufferProcessing, failed,
               cursor = Len(buffer), FALSE)
  BY CalmSuffices
<1>2. Clearing(todo', writev', writing', sync', bufferProcessing', failed',
               cursor' = Len(buffer'), Owing')
  BY <1>1 DEF places, queue, Clearing
<1>3. Delivery(sunk', buffer', cursor', Len(size'), failed')
  BY DEF IInv, places, queue
<1>4. ~bufferProcessing' => cursor' = 0
  BY DEF IInv, places, queue
<1> QED
  BY <1>2, <1>3, <1>4 DEF IInv

\* The same when end() did not advance either.
LEMMA Unmoved ==
  ASSUME IInv, UNCHANGED delivery, Calm(todo'),
         Ending(todo', ending, ended, finished, buffer = <<>>),
         ~Owing', Types', \A i \in 1 .. Len(ticks') : ticks'[i].k \in TickKinds
  PROVE  IInv'
<1>1. UNCHANGED places /\ Ending(todo', ending', ended', finished', buffer' = <<>>)
  BY DEF delivery, places, queue
<1> QED
  BY <1>1, InPlace

\* One more tick.
LEMMA MoreTicks ==
  ASSUME NEW q \in Seq(Items), \A i \in 1 .. Len(q) : q[i].k \in TickKinds,
         NEW x \in Items, x.k \in TickKinds
  PROVE  /\ Append(q, x) \in Seq(Items)
         /\ \A i \in 1 .. Len(Append(q, x)) : Append(q, x)[i].k \in TickKinds
<1>1. /\ Append(q, x) \in Seq(Items)
      /\ \A i \in 1 .. Len(Append(q, x)) : Append(q, x)[i] = IF i <= Len(q) THEN q[i] ELSE x
      /\ \A i \in 1 .. Len(Append(q, x)) : i <= Len(q) => i \in 1 .. Len(q)
  OBVIOUS
<1> QED
  BY <1>1

\* The kinds of the items that actions push.
LEMMA NewKinds ==
  /\ \A k \in {"user", "rejected", "endUncork", "endWritable", "finishMaybe", "endTail"} :
       Item(k) \in Items /\ Item(k).k = k /\ k \in NestKinds
                         /\ k \notin LoopKinds \cup {"body", "clear", "finish"}
  /\ \A k \in {"body", "unsync", "clear", "loop", "emptied", "emitError", "onprefinish",
               "onfinish", "finish"} :
       Item(k) \in Items /\ Item(k).k = k
  /\ \A k \in {"ack", "acks"}, ids \in Seq(Nat) :
       ItemOf(k, ids) \in Items /\ ItemOf(k, ids).k = k
<1>1. \A k \in {"user", "rejected", "endUncork", "endWritable", "finishMaybe", "endTail", "body",
                "unsync", "clear", "loop", "emptied", "emitError", "onprefinish", "onfinish",
                "finish", "ack", "acks"} : k \in Kinds
  BY DEF Kinds, Handlers
<1> QED
  BY <1>1, NewItems DEF NestKinds, LoopKinds

\* What the calls of the user put on the stack fits.
LEMMA CallsFit ==
  ASSUME NEW s, Calm(s), Quiet(s),
         NEW k \in {"user", "rejected", "endUncork", "endWritable", "finishMaybe", "endTail"}
  PROVE  /\ Calm(Push(Item(k), s)) /\ Quiet(Push(Item(k), s))
         /\ Has(Push(Item(k), s), "body") <=> Has(s, "body")
<1>1. Fits(Item(k), s)
  BY NewKinds DEF Fits
<1> QED
  BY <1>1, PushCalm

\* A handler or a callback returns to the stream.
LEMMA Step_Return ==
  ASSUME IInv, Return PROVE IInv'
<1>1. todo # <<>> /\ Top(todo) \in Handlers
  BY DEF Return, Running, Top
<1>2. /\ Calm(Tail(todo)) /\ ~Owing
      /\ Ending(Tail(todo), ending, ended, finished, buffer = <<>>)
  BY <1>1, PopCalm DEF Handlers, LoopKinds
<1>3. /\ UNCHANGED delivery /\ todo' = Tail(todo)
      /\ ticks' = ticks /\ ~Owing'
  BY <1>2 DEF Return, delivery, places, config, current, queue, flags, Owing
<1>4. Types'
  BY <1>2, <1>3 DEF Return, Calm, IInv, Types, config, current, queue, flags
<1> QED
  BY <1>2, <1>3, <1>4, Unmoved DEF IInv

\* The item that an action runs is on top of the stack.
LEMMA TopItem ==
  ASSUME IInv, NEW k, Running(k)
  PROVE  /\ todo # <<>> /\ Top(todo) = k
         /\ todo \in Seq(Items) /\ Head(todo) \in Items /\ Head(todo).ids \in Seq(Nat)
         /\ Head(todo).ids # <<>> => /\ Tail(Head(todo).ids) \in Seq(Nat)
                                     /\ Head(Head(todo).ids) \in Nat
<1>1. todo # <<>> /\ Top(todo) = k /\ todo \in Seq(Items)
  BY DEF Running, Top, IInv, Types
<1>2. Head(todo) \in Items
  BY <1>1
<1>3. Head(todo).ids \in Seq(Nat)
  BY <1>2, NewItems
<1> DEFINE ids == Head(todo).ids
<1> HIDE DEF ids
<1>4. ids \in Seq(Nat) /\ ids # <<>> => Tail(ids) \in Seq(Nat) /\ Head(ids) \in Nat
  OBVIOUS
<1> QED
  BY <1>1, <1>2, <1>3, <1>4 DEF ids

\* A rejected write defers its callback: the stack below is calm.
LEMMA Step_Rejected ==
  ASSUME IInv, Rejected PROVE IInv'
<1>1. todo # <<>> /\ Top(todo) = "rejected"
  BY TopItem DEF Rejected
<1>2. /\ Calm(Tail(todo)) /\ ~Owing
      /\ Ending(Tail(todo), ending, ended, finished, buffer = <<>>)
  BY <1>1, PopCalm DEF LoopKinds
<1>3. /\ UNCHANGED delivery /\ todo' = Tail(todo) /\ ~Owing'
  BY <1>2 DEF Rejected, delivery, places, config, current, queue, flags, Owing
<1>4. /\ ticks' \in Seq(Items)
      /\ \A i \in 1 .. Len(ticks') : ticks'[i].k \in TickKinds
  BY NewKinds, MoreTicks DEF Rejected, IInv, Types, TickKinds
<1>5. Types'
  BY <1>2, <1>3, <1>4 DEF Rejected, Calm, IInv, Types, config, current, queue, flags
<1> QED
  BY <1>2, <1>3, <1>4, <1>5, Unmoved

\* 'error' is emitted: its handlers are put on a calm stack.
LEMMA Step_EmitError ==
  ASSUME IInv, EmitError PROVE IInv'
<1> DEFINE s == Tail(todo)
           t == Push(Item("user"), s)
<1>1. todo # <<>> /\ Top(todo) = "emitError"
  BY TopItem DEF EmitError
<1>2. Calm(s) /\ Quiet(s) /\ ~Owing
  BY <1>1, PopCalm DEF LoopKinds
<1>3. Calm(t) /\ Quiet(t) /\ todo' = t
  BY <1>2, CallsFit DEF EmitError, Push
<1> HIDE DEF s, t
<1>4. Ending(todo', ending, ended, finished, buffer = <<>>)
  BY <1>3, WaitingSuffices DEF Quiet
<1>5. UNCHANGED delivery /\ ticks' = ticks /\ ~Owing'
  BY <1>2 DEF EmitError, delivery, places, config, current, queue, flags, Owing
<1>6. Types'
  BY <1>3 DEF EmitError, Calm, IInv, Types, config, current, queue, flags
<1> QED
  BY <1>3, <1>4, <1>5, <1>6, Unmoved DEF IInv

\* No body is below an afterWrite, so the callbacks may run on the rest.
LEMMA Step_AfterWrite ==
  ASSUME IInv, AfterWrite PROVE IInv'
<1> DEFINE s == Tail(todo)
           ids == Head(todo).ids
           t == Push(ItemOf("ack", ids), Push(Item("finishMaybe"), s))
<1>1. todo # <<>> /\ Top(todo) = "after" /\ ids \in Seq(Nat)
  BY TopItem DEF AfterWrite
<1>2. Calm(s) /\ Quiet(s) /\ ~Owing /\ ~Has(s, "body")
  BY <1>1, PopCalm DEF LoopKinds, NestKinds
<1>3. /\ Calm(Push(Item("finishMaybe"), s)) /\ Quiet(Push(Item("finishMaybe"), s))
      /\ ~Has(Push(Item("finishMaybe"), s), "body")
  BY <1>2, CallsFit
<1>4. Fits(ItemOf("ack", ids), Push(Item("finishMaybe"), s))
  BY <1>1, <1>3, NewKinds DEF Fits, LoopKinds
<1>5. Calm(t) /\ Quiet(t)
  BY <1>3, <1>4, PushCalm
<1>6. <<ItemOf("ack", ids), Item("finishMaybe")>> \o s = t
  <2>1. ItemOf("ack", ids) \in Items /\ Item("finishMaybe") \in Items /\ s \in Seq(Items)
    BY <1>1, <1>2, NewKinds DEF Calm
  <2> QED
    BY <2>1, PushMany
<1> HIDE DEF t
<1>7. todo' = t \/ todo' = Push(Item("user"), t)
  BY <1>6 DEF AfterWrite, Push
<1>8. Calm(todo') /\ Quiet(todo')
  BY <1>5, <1>7, CallsFit
<1> HIDE DEF s, ids
<1>9. Ending(todo', ending, ended, finished, buffer = <<>>)
  BY <1>8, WaitingSuffices DEF Quiet
<1>10. UNCHANGED delivery /\ ticks' = ticks /\ ~Owing'
  BY <1>2 DEF AfterWrite, delivery, places, config, current, queue, flags, Owing
<1>11. needDrain' \in BOOLEAN
  BY DEF AfterWrite
<1>12. Types'
  BY <1>8, <1>11 DEF AfterWrite, Calm, IInv, Types, config, current, queue, flags
<1> QED
  BY <1>8, <1>9, <1>10, <1>12, Unmoved DEF IInv

\* A callback runs, on a stack that is calm without a body.
LEMMA Step_Ack ==
  ASSUME IInv, Ack PROVE IInv'
<1> DEFINE s == Tail(todo)
           ids == Head(todo).ids
<1>1. todo # <<>> /\ Top(todo) = "ack" /\ ids \in Seq(Nat)
  BY TopItem DEF Ack
<1>2. Calm(s) /\ Quiet(s) /\ ~Owing /\ ~Has(s, "body")
  BY <1>1, PopCalm DEF LoopKinds, NestKinds
<1>3. Calm(Push(Item("user"), s)) /\ Quiet(Push(Item("user"), s))
  BY <1>2, CallsFit
<1>4. Fits(ItemOf("acks", ids), s)
  BY <1>1, <1>2, NewKinds DEF Fits, LoopKinds
<1>5. Calm(Push(ItemOf("acks", ids), s)) /\ Quiet(Push(ItemOf("acks", ids), s))
  BY <1>2, <1>4, PushCalm
<1>6. todo' = Push(Item("user"), s) \/ todo' = Push(ItemOf("acks", ids), s)
  BY DEF Ack, Push
<1>7. Calm(todo') /\ Quiet(todo')
  BY <1>3, <1>5, <1>6
<1>8. acked' \in Seq(Nat)
  <2>1. acked' = acked \/ acked' = acked \o ids
    BY DEF Ack
  <2>2. acked \in Seq(Nat)
    BY DEF IInv, Types
  <2>3. acked \o ids \in Seq(Nat)
    BY <1>1, <2>2, ConcatProperties
  <2> QED
    BY <2>1, <2>2, <2>3
<1> HIDE DEF s, ids
<1>9. Ending(todo', ending, ended, finished, buffer = <<>>)
  BY <1>7, WaitingSuffices DEF Quiet
<1>10. UNCHANGED delivery /\ ticks' = ticks /\ ~Owing'
  BY <1>2 DEF Ack, delivery, places, config, current, queue, flags, Owing
<1>11. pendingcb' \in Int
  BY DEF Ack, IInv, Types
<1>12. Types'
  BY <1>7, <1>8, <1>11 DEF Ack, Calm, IInv, Types, config, current, queue, flags
<1> QED
  BY <1>7, <1>9, <1>10, <1>12, Unmoved DEF IInv

\* So do those of a batch.
LEMMA Step_AckBatch ==
  ASSUME IInv, AckBatch PROVE IInv'
<1> DEFINE s == Tail(todo)
           ids == Head(todo).ids
           more == ItemOf("acks", Tail(ids))
<1>1. /\ todo # <<>> /\ Top(todo) = "acks" /\ ids \in Seq(Nat)
      /\ ids # <<>> => Tail(ids) \in Seq(Nat) /\ Head(ids) \in Nat
  BY TopItem DEF AckBatch
<1>2. Calm(s) /\ Quiet(s) /\ ~Owing /\ ~Has(s, "body")
  BY <1>1, PopCalm DEF LoopKinds, NestKinds
<1>3. ids # <<>> => Fits(more, s) /\ more \in Items
  BY <1>1, <1>2, NewKinds DEF Fits, LoopKinds
<1>4. ids # <<>> => Calm(Push(more, s)) /\ Quiet(Push(more, s))
  BY <1>2, <1>3, PushCalm
<1>5. ids # <<>> => /\ Calm(Push(Item("user"), Push(more, s)))
                    /\ Quiet(Push(Item("user"), Push(more, s)))
  BY <1>4, CallsFit
<1>6. ids # <<>> => <<Item("user"), more>> \o s = Push(Item("user"), Push(more, s))
  <2>1. Item("user") \in Items /\ s \in Seq(Items) /\ (ids # <<>> => more \in Items)
    BY <1>2, <1>3, NewKinds DEF Calm
  <2> HIDE DEF more, s, ids
  <2> QED
    BY <2>1, PushMany
<1>7. \/ todo' = s
      \/ ids # <<>> /\ todo' = <<Item("user"), more>> \o s
  BY DEF AckBatch
<1>8. Calm(todo') /\ Quiet(todo')
  BY <1>2, <1>5, <1>6, <1>7
<1>9. acked' \in Seq(Nat)
  <2>1. acked' = acked \/ (ids # <<>> /\ acked' = Append(acked, Head(ids)))
    BY DEF AckBatch
  <2>2. acked \in Seq(Nat)
    BY DEF IInv, Types
  <2> HIDE DEF ids
  <2>3. ids # <<>> => Head(ids) \in Nat
    BY <1>1
  <2> QED
    BY <2>1, <2>2, <2>3
<1> HIDE DEF s, ids, more
<1>10. Ending(todo', ending, ended, finished, buffer = <<>>)
  BY <1>8, WaitingSuffices DEF Quiet
<1>11. UNCHANGED delivery /\ ticks' = ticks /\ ~Owing'
  BY <1>2 DEF AckBatch, delivery, places, config, current, queue, flags, Owing
<1>12. pendingcb' \in Int
  BY DEF AckBatch, IInv, Types
<1>13. Types'
  BY <1>8, <1>9, <1>12 DEF AckBatch, Calm, IInv, Types, config, current, queue, flags
<1> QED
  BY <1>8, <1>10, <1>11, <1>13, Unmoved DEF IInv

\* What a call of the user leaves to do: nothing, or the rest of end().
Thens == {<<>>, <<Item("endUncork"), Item("endWritable")>>}

\* The rest of end() waits on the caller's stack.
LEMMA ThenCalm ==
  ASSUME IInv, UserRuns, NEW then \in Thens
  PROVE  then \in Seq(Items) /\ Calm(then \o Caller) /\ Quiet(then \o Caller)
<1>1. Calm(Caller) /\ Quiet(Caller) /\ Caller \in Seq(Items)
  BY UserStack DEF Calm
<1>2. Item("endUncork") \in Items /\ Item("endWritable") \in Items
  BY NewKinds
<1>3. /\ <<>> \o Caller = Caller
      /\ <<Item("endUncork"), Item("endWritable")>> \o Caller
           = Push(Item("endUncork"), Push(Item("endWritable"), Caller))
  BY <1>1, <1>2, PushMany
<1>4. Calm(Push(Item("endWritable"), Caller)) /\ Quiet(Push(Item("endWritable"), Caller))
  BY <1>1, CallsFit
<1>5. /\ Calm(Push(Item("endUncork"), Push(Item("endWritable"), Caller)))
      /\ Quiet(Push(Item("endUncork"), Push(Item("endWritable"), Caller)))
  BY <1>4, CallsFit
<1>6. <<>> \in Seq(Items) /\ <<Item("endUncork"), Item("endWritable")>> \in Seq(Items)
  BY <1>2
<1>7. CASE then = <<>>
  BY <1>1, <1>3, <1>6, <1>7
<1>8. CASE then = <<Item("endUncork"), Item("endWritable")>>
  BY <1>3, <1>5, <1>6, <1>8
<1> QED
  BY <1>7, <1>8 DEF Thens

\* A call is one of the bounded number of calls, made by user code.
LEMMA CallCounts ==
  ASSUME IInv, Call PROVE UserRuns /\ calls' \in 0 .. MaxCalls
<1> QED
  BY WritableAssumption DEF Call, IInv, Types

\* A write after end() or of an invalid chunk changes only the stack.
LEMMA Step_Reject ==
  ASSUME IInv, Call, NEW then \in Thens, Reject(then) PROVE IInv'
<1> DEFINE s == then \o Caller
           t == Push(Item("user"), Push(Item("rejected"), s))
<1>1. UserRuns /\ calls' \in 0 .. MaxCalls
  BY CallCounts
<1>2. then \in Seq(Items) /\ Calm(s) /\ Quiet(s) /\ ~Owing /\ Caller \in Seq(Items)
  BY <1>1, ThenCalm, UserStack DEF Calm
<1>3. Calm(Push(Item("rejected"), s)) /\ Quiet(Push(Item("rejected"), s))
  BY <1>2, CallsFit
<1>4. Calm(t) /\ Quiet(t)
  BY <1>3, CallsFit
<1>5. Item("user") \in Items /\ Item("rejected") \in Items /\ s \in Seq(Items)
  BY <1>2, NewKinds DEF Calm
<1>6. todo' = t
  <2> DEFINE u == <<Item("user"), Item("rejected")>>
  <2>1. u \in Seq(Items)
    BY <1>5
  <2>2. u \o s = t
    BY <1>5, PushMany
  <2>3. todo' = (u \o then) \o Caller
    BY DEF Reject
  <2> HIDE DEF u
  <2>4. (u \o then) \o Caller = u \o (then \o Caller)
    BY <1>2, <2>1, ConcatAssociative
  <2> QED
    BY <2>2, <2>3, <2>4
<1> HIDE DEF s, t
<1>7. Calm(todo') /\ Quiet(todo') /\ Ending(todo', ending, ended, finished, buffer = <<>>)
  BY <1>4, <1>6, WaitingSuffices DEF Quiet
<1>8. UNCHANGED delivery /\ ticks' = ticks /\ ~Owing'
  BY <1>2 DEF Reject, delivery, places, config, current, queue, flags, Owing
<1>9. Types'
  BY <1>1, <1>7 DEF Reject, Calm, IInv, Types, config, current, queue, flags
<1> QED
  BY <1>7, <1>8, <1>9, Unmoved DEF IInv

\* A corked stream owes nothing.
LEMMA Step_Cork ==
  ASSUME IInv, Cork PROVE IInv'
<1>1. UserRuns /\ calls' \in 0 .. MaxCalls
  BY CallCounts DEF Cork
<1>2. Calm(Caller) /\ Quiet(Caller) /\ todo' = Caller
  BY <1>1, UserStack DEF Cork
<1>3. Ending(todo', ending, ended, finished, buffer = <<>>) /\ Calm(todo')
  BY <1>2, WaitingSuffices DEF Quiet
<1>4. corked' \in Nat /\ corked' # 0
  BY DEF Cork, IInv, Types
<1>5. UNCHANGED delivery /\ ticks' = ticks /\ ~Owing'
  BY <1>4 DEF Cork, delivery, places, config, current, queue, flags, Owing
<1>6. Types'
  BY <1>1, <1>3, <1>4 DEF Cork, Calm, IInv, Types, config, current, queue, flags
<1> QED
  BY <1>3, <1>5, <1>6, Unmoved DEF IInv

\* end() without a chunk.
PlainEnd ==
  /\ Call
  /\ todo' = <<Item("endUncork"), Item("endWritable")>> \o Caller
  /\ UNCHANGED <<config, length, needDrain, pendingcb, current, queue, corked, flags,
                 ticks, size, sunk, acked, finishes, failed>>

\* Nothing is moved before endUncork runs.
LEMMA Step_PlainEnd ==
  ASSUME IInv, PlainEnd PROVE IInv'
<1>1. UserRuns /\ calls' \in 0 .. MaxCalls
  BY CallCounts DEF PlainEnd
<1>2. Calm(todo') /\ Quiet(todo') /\ ~Owing
  BY <1>1, ThenCalm, UserStack DEF PlainEnd, Thens
<1>3. Ending(todo', ending, ended, finished, buffer = <<>>)
  BY <1>2, WaitingSuffices DEF Quiet
<1>4. UNCHANGED delivery /\ ticks' = ticks /\ ~Owing'
  BY <1>2 DEF PlainEnd, delivery, places, config, current, queue, flags, Owing
<1>5. Types'
  BY <1>1, <1>2 DEF PlainEnd, Calm, IInv, Types, config, current, queue, flags
<1> QED
  BY <1>2, <1>3, <1>4, <1>5, Unmoved DEF IInv

\* A tick starts on the empty stack, which is calm.
LEMMA Step_RunTick ==
  ASSUME IInv, RunTick PROVE IInv'
<1> DEFINE x == Head(ticks)
<1>1. /\ todo = <<>> /\ ticks # <<>> /\ ticks \in Seq(Items)
      /\ \A i \in 1 .. Len(ticks) : ticks[i].k \in TickKinds
  BY DEF RunTick, IInv, Types
<1>2. x \in Items /\ x.k \in TickKinds /\ todo' = Push(x, todo)
  <2>1. x = ticks[1] /\ 1 \in 1 .. Len(ticks)
    BY <1>1
  <2>2. todo' = <<x>> /\ <<x>> = <<x>> \o <<>>
    BY DEF RunTick
  <2> QED
    BY <1>1, <2>1, <2>2 DEF Push
<1>3. \A i \in 1 .. Len(Tail(ticks)) : Tail(ticks)[i].k \in TickKinds
  <2>1. \A i \in 1 .. Len(Tail(ticks)) : i + 1 \in 1 .. Len(ticks) /\ Tail(ticks)[i] = ticks[i + 1]
    BY <1>1
  <2> QED
    BY <1>1, <2>1
<1>4. Calm(todo) /\ Quiet(todo) /\ ~Owing /\ ~Has(todo, "body")
  <2> DEFINE done == cursor = Len(buffer)
             empty == buffer = <<>>
             owing == Owing
  <2>1. /\ todo \in Seq(Items) /\ Top(todo) = "none" /\ ~Has(todo, "body")
        /\ Clearing(todo, writev, writing, sync, bufferProcessing, failed, done, owing)
        /\ Ending(todo, ending, ended, finished, empty)
    BY <1>1, PopShape DEF IInv, Types
  <2> HIDE DEF done, empty, owing
  <2>2. Idling(todo, writev, writing, sync, bufferProcessing, failed, done) /\ ~owing
    BY <2>1, IsIdling DEF LoopKinds
  <2>3. Waiting(todo, ending, ended, finished, empty)
    BY <2>1, IsWaiting
  <2> QED
    BY <2>1, <2>2, <2>3 DEF Calm, Quiet, done, empty, owing
<1>5. Fits(x, todo)
  BY <1>2, <1>4 DEF Fits, TickKinds, LoopKinds
<1>6. Calm(todo') /\ Quiet(todo')
  BY <1>2, <1>4, <1>5, PushCalm
<1> HIDE DEF x
<1>7. Ending(todo', ending, ended, finished, buffer = <<>>)
  BY <1>6, WaitingSuffices DEF Quiet
<1>8. UNCHANGED delivery /\ ticks' = Tail(ticks) /\ ~Owing'
  BY <1>4 DEF RunTick, delivery, places, config, current, queue, flags, Owing
<1>9. Tail(ticks) \in Seq(Items)
  BY <1>1
<1>10. Types'
  BY <1>6, <1>8, <1>9 DEF RunTick, Calm, IInv, Types, config, current, queue, flags
<1> QED
  BY <1>3, <1>6, <1>7, <1>8, <1>10, Unmoved

\* end() returns: it is not asked any more who would finish the stream.
LEMMA Step_EndTail ==
  ASSUME IInv, EndTail PROVE IInv'
<1> DEFINE s == Tail(todo)
           empty == buffer = <<>>
<1>1. todo # <<>> /\ Top(todo) = "endTail" /\ todo \in Seq(Items)
  BY TopItem DEF EndTail
<1>2. Calm(s) /\ ~Owing
  BY <1>1, PopCalm DEF LoopKinds
<1>3. Ending(todo, ending, ended, finished, empty)
  BY DEF IInv
<1>4. Ending(s, ending, TRUE, finished, empty)
  <2>1. PICK x \in Items, u \in Seq(Items) : todo = Push(x, u) /\ s = u /\ Top(todo) = x.k
    BY <1>1, PopShape
  <2>2. Has(s, "finish") => Has(todo, "finish")
    BY <2>1, PushShape
  <2> QED
    BY <1>3, <2>2 DEF Ending
<1> HIDE DEF s
<1>5. UNCHANGED places /\ todo' = s /\ ended' = TRUE /\ ~Owing'
      /\ UNCHANGED <<ending, finished, buffer>>
  BY <1>2 DEF EndTail, places, config, current, queue, s, Owing
<1>6. Ending(todo', ending', ended', finished', buffer' = <<>>)
  BY <1>4, <1>5
<1>7. /\ ticks' \in Seq(Items)
      /\ \A i \in 1 .. Len(ticks') : ticks'[i].k \in TickKinds
  BY NewKinds, MoreTicks DEF EndTail, IInv, Types, TickKinds
<1>8. Types'
  BY <1>2, <1>5, <1>7 DEF EndTail, Calm, IInv, Types, config, current, queue
<1> QED
  BY <1>2, <1>5, <1>6, <1>7, <1>8, InPlace

\* end() starts to close the stream, and looks at once whether it is finished.
LEMMA Step_EndWritable ==
  ASSUME IInv, EndWritable PROVE IInv'
<1> DEFINE s == Tail(todo)
           empty == buffer = <<>>
           u == Push(Item("endTail"), s)
           t == Push(Item("finishMaybe"), u)
<1>1. todo # <<>> /\ Top(todo) = "endWritable" /\ todo \in Seq(Items)
  BY TopItem DEF EndWritable
<1>2. Calm(s) /\ Quiet(s) /\ ~Owing /\ s \in Seq(Items)
  BY <1>1, PopCalm DEF LoopKinds, Calm
<1>3. Calm(u) /\ Calm(t)
  <2>1. Calm(u) /\ Quiet(u)
    BY <1>2, CallsFit
  <2> QED
    BY <2>1, CallsFit
<1>4. Item("endTail") \in Items /\ Item("finishMaybe") \in Items /\ u \in Seq(Items)
      /\ Item("endTail").k = "endTail" /\ Item("finishMaybe").k = "finishMaybe"
  BY <1>3, NewKinds DEF Calm
<1>5. <<Item("finishMaybe"), Item("endTail")>> \o s = t
  BY <1>2, <1>4, PushMany
<1>6. CASE ending \/ finished
  <2>1. todo' = s /\ ending' = ending /\ UNCHANGED delivery /\ ticks' = ticks /\ ~Owing'
    BY <1>2, <1>6 DEF EndWritable, delivery, places, config, current, queue, Owing
  <2>2. Ending(todo', ending, ended, finished, buffer = <<>>) /\ Calm(todo')
    BY <1>2, <2>1, WaitingSuffices DEF Quiet
  <2>3. Types'
    BY <1>2, <2>1 DEF EndWritable, Calm, IInv, Types, config, current, queue
  <2> QED
    BY <2>1, <2>2, <2>3, Unmoved DEF IInv
<1>7. CASE ~ending /\ ~finished
  <2> HIDE DEF s, u, t
  <2>1. /\ todo' = t /\ ending' = TRUE /\ UNCHANGED <<places, ended, finished, ticks, buffer>>
        /\ ~Owing'
    BY <1>2, <1>5, <1>7 DEF EndWritable, places, config, current, queue, Owing, s
  <2>2. ~Has(s, "finish")
    BY <1>2, <1>7 DEF Quiet, Waiting
  <2>3. ~Has(t, "finish") /\ Top(t) = "finishMaybe" /\ Top(Tail(t)) = "endTail"
    <3>1. /\ \A k : Has(u, k) <=> Item("endTail").k = k \/ Has(s, k)
          /\ Top(u) = "endTail"
      BY <1>2, <1>4, PushShape DEF u
    <3>2. /\ \A k : Has(t, k) <=> Item("finishMaybe").k = k \/ Has(u, k)
          /\ Top(t) = "finishMaybe" /\ Tail(t) = u
      BY <1>4, PushShape DEF t
    <3> QED
      BY <1>4, <2>2, <3>1, <3>2
  <2>4. Ending(todo', ending', ended', finished', buffer' = <<>>)
    BY <1>7, <2>1, <2>3 DEF Ending, Closing
  <2>5. Types'
    BY <1>3, <2>1 DEF EndWritable, Calm, IInv, Types, config, current, queue
  <2> QED
    BY <1>3, <2>1, <2>4, <2>5, InPlace DEF IInv
<1> QED
  BY <1>6, <1>7 DEF EndWritable

\* The handlers of 'finish' run above end(), if end() has not returned.
LEMMA Step_Finish ==
  ASSUME IInv, Finish PROVE IInv'
<1> DEFINE s == Tail(todo)
           empty == buffer = <<>>
           t == Push(Item("onfinish"), s)
<1>1. todo # <<>> /\ Top(todo) = "finish" /\ todo \in Seq(Items)
  BY TopItem DEF Finish
<1>2. Calm(s) /\ ~Owing /\ ~Has(s, "body") /\ s \in Seq(Items)
  BY <1>1, PopCalm DEF LoopKinds, NestKinds, Calm
<1>3. Item("onfinish") \in Items /\ Item("onfinish").k = "onfinish"
  BY NewKinds
<1>4. Calm(t)
  <2>1. Fits(Item("onfinish"), s)
    BY <1>2, <1>3 DEF Fits, LoopKinds
  <2> QED
    BY <1>2, <2>1, PushCalm
<1>5. Ending(todo, ending, ended, finished, empty)
  BY DEF IInv
<1>6. Ending(t, ending, ended, TRUE, empty)
  <2>1. PICK x \in Items, v \in Seq(Items) : todo = Push(x, v) /\ s = v /\ Top(todo) = x.k
    BY <1>1, PopShape
  <2>2. /\ Has(todo, "finish") /\ (Has(s, "finish") => Has(todo, "finish"))
        /\ Held(todo) => Held(s)
    BY <1>1, <2>1, PushShape
  <2>3. /\ Held(t) <=> Held(s) \/ AtTail(s)
    BY <1>2, <1>3, PushShape
  <2>4. Closing(todo) => Held(s) \/ AtTail(s)
    BY <1>1, <2>2 DEF Closing, AtTail
  <2> QED
    BY <1>5, <2>2, <2>3, <2>4 DEF Ending, Closing
<1>7. todo' = t
  BY DEF Finish, Push
<1> HIDE DEF s, t
<1>8. UNCHANGED <<places, ending, ended, ticks, buffer>> /\ finished' = TRUE /\ ~Owing'
  BY <1>2 DEF Finish, places, config, current, queue, Owing
<1>9. Ending(todo', ending', ended', finished', buffer' = <<>>)
  BY <1>6, <1>7, <1>8
<1>10. finishes' \in Nat /\ todo' \in Seq(Items)
  <2>1. finishes' = finishes + 1 /\ finishes \in Nat
    BY DEF Finish, IInv, Types
  <2> QED
    BY <1>4, <1>7, <2>1 DEF Calm
<1>11. Types'
  BY <1>8, <1>10 DEF Finish, IInv, Types, config, current, queue
<1> QED
  BY <1>4, <1>7, <1>8, <1>9, <1>11, InPlace DEF IInv

\* The handlers of 'prefinish' and 'finish' come above end(), with no write in progress.
LEMMA Step_FinishMaybe ==
  ASSUME IInv, FinishMaybe PROVE IInv'
<1> DEFINE s == Tail(todo)
           empty == buffer = <<>>
           pre == Item("onprefinish")
           fin == Item("finish")
<1>1. todo # <<>> /\ Top(todo) = "finishMaybe" /\ todo \in Seq(Items)
  BY TopItem DEF FinishMaybe
<1>2. Calm(s) /\ ~Owing /\ s \in Seq(Items)
  BY <1>1, PopCalm DEF LoopKinds, Calm
<1>3. Ending(todo, ending, ended, finished, empty)
  BY DEF IInv
<1>4. /\ pre \in Items /\ pre.k = "onprefinish"
      /\ fin \in Items /\ fin.k = "finish"
  BY NewKinds
<1>5. /\ (finished \/ Has(s, "finish")) => ending /\ empty
      /\ ending /\ ~ended => Held(s) \/ Top(s) = "endTail"
  <2>1. PICK x \in Items, v \in Seq(Items) : todo = Push(x, v) /\ s = v /\ Top(todo) = x.k
    BY <1>1, PopShape
  <2>2. /\ Has(s, "finish") => Has(todo, "finish")
        /\ Held(todo) => Held(s)
    BY <1>1, <2>1, PushShape
  <2> QED
    BY <1>1, <1>3, <2>2 DEF Ending, Closing, AtTail
<1>6. NeedFinish => ~Has(s, "body") /\ ending /\ empty
  BY <1>2, CalmShape DEF NeedFinish
<1> DEFINE u == Push(fin, s)
<1>7. NeedFinish => Calm(u)
  <2>1. ASSUME NeedFinish PROVE Calm(u)
    <3> DEFINE done == cursor = Len(buffer)
    <3>1. Idling(s, writev, writing, sync, bufferProcessing, failed, done) /\ ~Has(s, "body")
      BY <1>2, <1>6, <2>1 DEF Calm
    <3>2. fin.k \notin LoopKinds \cup {"body", "clear"}
      BY <1>4 DEF LoopKinds
    <3> HIDE DEF done, s, fin
    <3>3. Idling(u, writev, writing, sync, bufferProcessing, failed, done)
      BY <1>2, <1>4, <3>1, <3>2, PushIdling
    <3>4. u \in Seq(Items) /\ ~Has(u, "body")
      BY <1>2, <1>4, <3>1, PushShape
    <3> QED
      BY <3>3, <3>4 DEF Calm, done
  <2> QED
    BY <2>1
<1>8. NeedFinish => ~Has(u, "body") /\ (Held(s) => Held(u)) /\ Top(u) = "finish" /\ Tail(u) = s
  BY <1>2, <1>4, <1>6, PushShape
<1>9. todo' \in {s, Push(pre, s), u, Push(pre, u)} /\ (todo' # s => NeedFinish)
      /\ u \in Seq(Items)
  <2>1. u \in Seq(Items)
    BY <1>2, <1>4, PushShape
  <2> DEFINE a == IF NeedFinish /\ ~prefinished THEN <<pre>> ELSE <<>>
             b == IF FinishDue THEN <<fin>> ELSE <<>>
  <2>2. todo' = (a \o b) \o s
    BY DEF FinishMaybe
  <2>3. /\ (<<>> \o <<>>) \o s = s /\ (<<pre>> \o <<>>) \o s = Push(pre, s)
        /\ (<<>> \o <<fin>>) \o s = u /\ (<<pre>> \o <<fin>>) \o s = Push(pre, u)
    BY <1>2, <1>4, PushMany
  <2>4. FinishDue => NeedFinish
    BY DEF FinishDue
  <2> HIDE DEF s, u, pre, fin
  <2>5. /\ a = <<>> \/ (a = <<pre>> /\ NeedFinish)
        /\ b = <<>> \/ (b = <<fin>> /\ NeedFinish)
    BY <2>4
  <2> HIDE DEF a, b
  <2> QED
    BY <2>1, <2>2, <2>3, <2>5
<1> HIDE DEF pre, fin, s, u
<1>10. NeedFinish => Calm(Push(pre, s)) /\ Calm(Push(pre, u))
  BY <1>2, <1>4, <1>6, <1>7, <1>8, PushCalm DEF Fits, LoopKinds
<1>11. Calm(todo')
  BY <1>2, <1>7, <1>9, <1>10
<1>12. Ending(todo', ending, ended, finished, empty)
  <2>1. ending /\ ~ended /\ NeedFinish => Held(u) \/ AtTail(u)
    BY <1>5, <1>8 DEF AtTail
  <2>2. /\ NeedFinish /\ (Held(u) \/ AtTail(u)) => Held(Push(pre, u))
        /\ Held(s) \/ AtTail(s) => Held(Push(pre, s))
        /\ Has(Push(pre, s), "finish") => Has(s, "finish")
    BY <1>2, <1>4, <1>9, PushShape
  <2>3. Top(s) = "endTail" => AtTail(s)
    BY DEF AtTail
  <2>4. ending /\ ~ended => Closing(todo')
    BY <1>5, <1>9, <2>1, <2>2, <2>3 DEF Closing
  <2>5. finished \/ Has(todo', "finish") => ending /\ empty
    BY <1>5, <1>6, <1>9
  <2> QED
    BY <2>4, <2>5 DEF Ending
<1>13. UNCHANGED delivery /\ ticks' = ticks /\ ~Owing'
  BY <1>2 DEF FinishMaybe, delivery, places, config, current, queue, Owing
<1>14. prefinished' \in BOOLEAN
  BY DEF FinishMaybe, IInv, Types, NeedFinish
<1>15. Types'
  BY <1>11, <1>13, <1>14 DEF FinishMaybe, Calm, IInv, Types, config, current, queue
<1> QED
  BY <1>11, <1>12, <1>13, <1>15, Unmoved DEF IInv

\* uncork() when corked is n, or 1 at most when end() calls it; rest is calm.
LEMMA Step_UncorkFrom ==
  ASSUME IInv, NEW n, NEW rest, UncorkFrom(n, rest), calls' \in 0 .. MaxCalls,
         n = corked \/ n = (IF corked > 0 THEN 1 ELSE 0),
         Calm(rest), Quiet(rest), ~Owing
  PROVE  IInv'
<1> DEFINE done == cursor = Len(buffer)
           t == Push(Item("clear"), rest)
<1>1. /\ corked \in Nat /\ n \in Nat /\ rest \in Seq(Items)
      /\ cursor \in Nat /\ cursor <= Len(buffer) /\ buffer \in Seq(Nat)
  BY DEF IInv, Types, Calm, Delivery
<1>2. /\ corked' \in Nat
      /\ corked' = 0 => n = 1 \/ (n = 0 /\ corked = 0)
  BY <1>1 DEF UncorkFrom, LessCork
<1>3. UNCHANGED delivery /\ ticks' = ticks
  BY DEF UncorkFrom, delivery, places, config, current, queue, flags
<1>4. todo' \in Seq(Items) => Types'
  BY <1>2 DEF UncorkFrom, IInv, Types, config, current, queue, flags
<1> DEFINE due == n = 1 /\ ~writing /\ ~finished /\ ~bufferProcessing /\ buffer # <<>>
<1>5. CASE ~due
  <2>1. todo' = rest
    BY <1>5 DEF UncorkFrom
  <2>2. ~Owing'
    <3> SUFFICES ASSUME corked' = 0, ~failed, ~writing, ~done PROVE FALSE
      BY <1>3 DEF Owing, delivery, places, queue
    <3>1. CASE n = 0 /\ corked = 0
      BY <3>1 DEF Owing
    <3>2. CASE n = 1
      <4>1. finished \/ bufferProcessing \/ buffer = <<>>
        BY <1>5, <3>2
      <4>2. finished => buffer = <<>>
        BY DEF Quiet, Waiting
      <4>3. ~bufferProcessing
        BY CalmShape
      <4>4. buffer # <<>>
        BY <1>1
      <4> QED
        BY <4>1, <4>2, <4>3, <4>4
    <3> QED
      BY <1>2, <3>1, <3>2
  <2>3. Ending(todo', ending, ended, finished, buffer = <<>>)
    BY <2>1, WaitingSuffices DEF Quiet
  <2> QED
    BY <1>1, <1>3, <1>4, <2>1, <2>2, <2>3, Unmoved DEF IInv
<1>6. CASE due
  <2>1. todo' = t
    BY <1>6 DEF UncorkFrom, Push
  <2>2. /\ Idling(rest, writev, writing, sync, bufferProcessing, failed, done)
        /\ ~Has(rest, "body")
    BY <1>6, CalmShape DEF Calm
  <2>3. Item("clear") \in Items /\ Item("clear").k = "clear"
    BY NewKinds
  <2> DEFINE owing == Owing'
  <2>4. Clearing(t, writev, writing, sync, bufferProcessing, failed, done, owing)
    <3> HIDE DEF done, owing
    <3>1. /\ \A k : Has(t, k) <=> Item("clear").k = k \/ Has(rest, k)
          /\ OneLoop(t) <=> OneLoop(rest)
          /\ BodyNest(t) <=> BodyNest(rest)
          /\ ClearOnTop(t) <=> ~Has(rest, "clear")
          /\ Top(t) = "clear"
      <4>1. "clear" \notin LoopKinds
        BY DEF LoopKinds
      <4> HIDE DEF t
      <4> QED
        BY <1>1, <2>2, <2>3, <4>1, PushShape DEF t
    <3>2. ~bufferProcessing
      BY <1>6
    <3> HIDE DEF t
    <3> QED
      BY <2>2, <2>3, <3>1, <3>2 DEF Idling, Clearing
  <2>5. Clearing(todo', writev', writing', sync', bufferProcessing', failed',
                 cursor' = Len(buffer'), Owing')
    BY <1>3, <2>1, <2>4 DEF delivery, places, queue
  <2>6. Ending(todo', ending', ended', finished', buffer' = <<>>)
    <3> DEFINE empty == buffer = <<>>
    <3>1. Waiting(rest, ending, ended, finished, empty)
      BY DEF Quiet
    <3> HIDE DEF empty
    <3>2. Ending(t, ending, ended, finished, empty)
      BY <1>1, <2>3, <3>1, PushWaiting, WaitingSuffices
    <3> QED
      BY <1>3, <2>1, <3>2 DEF delivery, places, queue, empty
  <2>7. Delivery(sunk', buffer', cursor', Len(size'), failed')
    BY <1>3 DEF IInv, delivery, places, queue
  <2>8. ~bufferProcessing' => cursor' = 0
    BY <1>3 DEF IInv, delivery, places, queue
  <2>9. Types'
    BY <1>1, <1>4, <2>1, <2>3, PushShape
  <2> QED
    BY <1>3, <2>5, <2>6, <2>7, <2>8, <2>9 DEF IInv
<1> QED
  BY <1>5, <1>6

\* uncork() by the user.
LEMMA Step_Uncork ==
  ASSUME IInv, Uncork PROVE IInv'
<1>1. UserRuns /\ calls' \in 0 .. MaxCalls
  BY CallCounts DEF Uncork
<1>2. Calm(Caller) /\ Quiet(Caller) /\ ~Owing
  BY <1>1, UserStack
<1> QED
  BY <1>1, <1>2, Step_UncorkFrom DEF Uncork

\* uncork() by end().
LEMMA Step_EndUncork ==
  ASSUME IInv, EndUncork PROVE IInv'
<1>1. todo # <<>> /\ Top(todo) = "endUncork"
  BY TopItem DEF EndUncork
<1>2. Calm(Tail(todo)) /\ Quiet(Tail(todo)) /\ ~Owing
  BY <1>1, PopCalm DEF LoopKinds
<1>3. calls' \in 0 .. MaxCalls
  BY DEF EndUncork, IInv, Types
<1> QED
  BY <1>2, <1>3, Step_UncorkFrom DEF EndUncork

\* The stack below a clearBuffer: no other one, and no body.
Below(s) ==
  /\ s \in Seq(Items) /\ OneLoop(s) /\ BodyNest(s) /\ ClearOnTop(s)
  /\ ~Has(s, "body") /\ ~Has(s, "clear") /\ ~Has(s, "loop") /\ ~Has(s, "emptied")

\* While clearBuffer runs, there is no other one and no body below.
LEMMA UnderClear ==
  ASSUME IInv, todo # <<>>, Top(todo) \in LoopKinds \cup {"clear"}
  PROVE  Below(Tail(todo)) /\ Quiet(Tail(todo)) /\ Has(todo, Top(todo))
<1> DEFINE empty == buffer = <<>>
<1>1. /\ todo \in Seq(Items) /\ OneLoop(todo) /\ BodyNest(todo) /\ ClearOnTop(todo)
      /\ Has(todo, "clear") => ~bufferProcessing
      /\ (Has(todo, "loop") \/ Has(todo, "emptied")) => bufferProcessing
  BY DEF IInv, Types, Clearing
<1>2. PICK x \in Items, s \in Seq(Items) : todo = Push(x, s) /\ Tail(todo) = s /\ Top(todo) = x.k
  BY <1>1, PopShape
<1>3. ~Has(todo, "body")
  BY <1>1, NoBody DEF LoopKinds, NestKinds
<1>4. Below(s) /\ Has(todo, x.k)
  <2>1. /\ \A k : Has(todo, k) <=> x.k = k \/ Has(s, k)
        /\ OneLoop(s) /\ BodyNest(s)
        /\ x.k \in LoopKinds => ~Has(s, "loop") /\ ~Has(s, "emptied")
        /\ ~Has(s, "clear")
    BY <1>1, <1>2, PushShape
  <2>2. ClearOnTop(s)
    BY <2>1 DEF ClearOnTop, Has
  <2>3. x.k = "clear" => ~Has(s, "loop") /\ ~Has(s, "emptied")
    BY <1>1, <2>1
  <2> QED
    BY <1>2, <1>3, <2>1, <2>2, <2>3 DEF Below
<1>5. Ending(todo, ending, ended, finished, empty)
  BY DEF IInv
<1> HIDE DEF empty
<1>6. Waiting(todo, ending, ended, finished, empty)
  BY <1>1, <1>5, IsWaiting DEF LoopKinds
<1>7. Waiting(Tail(todo), ending, ended, finished, empty)
  BY <1>1, <1>6, PopWaiting DEF LoopKinds
<1> QED
  BY <1>2, <1>4, <1>7 DEF Quiet, empty

\* clearBuffer is over: nothing is asked of the stack below it but that nothing is owed.
LEMMA ClearOver ==
  ASSUME NEW s, Below(s), NEW wv, NEW wr, NEW sy, NEW fl, NEW done
  PROVE  Clearing(s, wv, wr, sy, FALSE, fl, done, FALSE)
<1> QED
  BY DEF Below, Clearing

\* The buffer is emptied after _writev: what came in between was not buffered, or failed.
LEMMA Step_Emptied ==
  ASSUME IInv, Emptied PROVE IInv'
<1> DEFINE s == Tail(todo)
<1>1. todo # <<>> /\ Top(todo) = "emptied"
  BY TopItem DEF Emptied
<1>2. Below(s) /\ Quiet(s) /\ Has(todo, "emptied") /\ s \in Seq(Items)
  BY <1>1, UnderClear DEF LoopKinds, Below
<1> HIDE DEF s
<1>3. /\ todo' = s /\ buffer' = <<>> /\ cursor' = 0 /\ bufferProcessing' = FALSE
      /\ UNCHANGED <<writev, writing, sync, corked, failed, ending, ended, finished, size,
                     sunk, ticks>>
  BY DEF Emptied, config, current, flags, s
<1>4. failed \/ cursor = Len(buffer)
  BY <1>2 DEF IInv, Clearing
<1>5. Delivery(sunk', buffer', cursor', Len(size'), failed')
  BY <1>3, <1>4, DeliverEmptied DEF IInv
<1>6. ~Owing'
  BY <1>3 DEF Owing
<1>7. Clearing(todo', writev', writing', sync', bufferProcessing', failed',
               cursor' = Len(buffer'), Owing')
  <2> DEFINE done == cursor' = Len(buffer')
             owing == Owing'
  <2>1. owing = FALSE
    BY <1>6 DEF Owing
  <2> HIDE DEF done, owing
  <2>2. Clearing(s, writev, writing, sync, FALSE, failed, done, FALSE)
    BY <1>2, ClearOver
  <2>3. Clearing(todo', writev', writing', sync', bufferProcessing', failed', done, owing)
    BY <1>3, <2>1, <2>2
  <2> QED
    BY <2>3 DEF done, owing
<1>8. Ending(todo', ending', ended', finished', buffer' = <<>>)
  BY <1>2, <1>3 DEF Quiet, Waiting, Ending, Closing
<1>9. Types'
  BY <1>2, <1>3 DEF Emptied, IInv, Types, config, current, flags
<1> QED
  BY <1>3, <1>5, <1>7, <1>8, <1>9 DEF IInv

\* clearBuffer keeps what it has not handed over, for the write in progress to resume.
LEMMA Step_LoopExit ==
  ASSUME IInv, LoopExit PROVE IInv'
<1> DEFINE s == Tail(todo)
<1>1. todo # <<>> /\ Top(todo) = "loop"
  BY TopItem DEF LoopExit
<1>2. Below(s) /\ Quiet(s) /\ s \in Seq(Items)
  BY <1>1, UnderClear DEF LoopKinds, Below
<1> HIDE DEF s
<1>3. /\ todo' = s /\ buffer' = Unwritten /\ cursor' = 0 /\ bufferProcessing' = FALSE
      /\ UNCHANGED <<writev, writing, sync, corked, failed, ending, ended, finished, size,
                     sunk, ticks>>
  BY DEF LoopExit, config, current, flags, s
<1>4. /\ cursor \in Nat /\ buffer \in Seq(Nat) /\ cursor <= Len(buffer) /\ Len(buffer) \in Nat
      /\ Delivery(sunk, buffer, cursor, Len(size), failed)
  BY DEF IInv, Delivery
<1>5. Delivery(sunk', buffer', cursor', Len(size'), failed')
  BY <1>3, <1>4, DeliverSlice DEF Unwritten
<1>6. Len(Unwritten) = Len(buffer) - cursor /\ (buffer = <<>> => Unwritten = <<>>)
      /\ Unwritten \in Seq(Nat)
  <2>1. Len(Unwritten) = Len(buffer) - cursor /\ Unwritten \in Seq(Nat)
    BY <1>4 DEF Unwritten
  <2> HIDE DEF Unwritten
  <2>2. buffer = <<>> => Len(Unwritten) = 0
    BY <1>4, <2>1
  <2> QED
    BY <2>1, <2>2
<1>7. ~Owing'
  <2>1. cursor = Len(buffer) \/ writing
    BY DEF LoopExit
  <2>2. Len(buffer') = Len(buffer) - cursor
    BY <1>3, <1>6
  <2> QED
    BY <1>3, <1>4, <2>1, <2>2 DEF Owing
<1>8. Clearing(todo', writev', writing', sync', bufferProcessing', failed',
               cursor' = Len(buffer'), Owing')
  <2> DEFINE done == cursor' = Len(buffer')
             owing == Owing'
  <2>1. owing = FALSE
    BY <1>7 DEF Owing
  <2> HIDE DEF done, owing
  <2>2. Clearing(s, writev, writing, sync, FALSE, failed, done, FALSE)
    BY <1>2, ClearOver
  <2>3. Clearing(todo', writev', writing', sync', bufferProcessing', failed', done, owing)
    BY <1>3, <2>1, <2>2
  <2> QED
    BY <2>3 DEF done, owing
<1>9. Ending(todo', ending', ended', finished', buffer' = <<>>)
  BY <1>2, <1>3, <1>6 DEF Quiet, Waiting, Ending, Closing
<1>10. Types'
  BY <1>2, <1>3, <1>6 DEF LoopExit, IInv, Types, config, current, flags
<1> QED
  BY <1>3, <1>5, <1>8, <1>9, <1>10 DEF IInv

\* A body is put on its loop.
LEMMA BodyOnLoop ==
  ASSUME NEW s, Below(s), NEW x \in Items, x.k \in LoopKinds, NEW y \in Items, y.k = "body",
         NEW wv, x.k = "emptied" => wv, NEW fl, NEW done, x.k = "emptied" => done
  PROVE  Clearing(Push(y, Push(x, s)), wv, TRUE, TRUE, TRUE, fl, done, FALSE)
<1> DEFINE u == Push(x, s)
           t == Push(y, u)
<1>1. /\ s \in Seq(Items) /\ OneLoop(s) /\ BodyNest(s) /\ ClearOnTop(s)
      /\ ~Has(s, "body") /\ ~Has(s, "clear") /\ ~Has(s, "loop") /\ ~Has(s, "emptied")
      /\ x.k # "body" /\ x.k # "clear" /\ y.k \notin LoopKinds
  BY DEF Below, LoopKinds
<1>2. /\ u \in Seq(Items) /\ OneLoop(u) /\ BodyNest(u) /\ Top(u) = x.k
      /\ \A k : Has(u, k) <=> x.k = k \/ Has(s, k)
  BY <1>1, PushShape
<1> HIDE DEF u
<1>3. /\ OneLoop(t) /\ BodyNest(t) /\ ClearOnTop(t) /\ InBody(t) /\ Top(t) = "body"
      /\ \A k : Has(t, k) <=> y.k = k \/ Has(u, k)
  BY <1>1, <1>2, PushShape
<1> HIDE DEF t
<1>4. Clearing(t, wv, TRUE, TRUE, TRUE, fl, done, FALSE)
  BY <1>1, <1>2, <1>3 DEF Clearing
<1> QED
  BY <1>4 DEF t, u

\* clearBuffer hands over the next write, in the order of the buffer.
LEMMA Step_LoopWrite ==
  ASSUME IInv, LoopWrite PROVE IInv'
<1> DEFINE s == Tail(todo)
           y == Item("body")
           t == Push(y, todo)
<1>1. todo # <<>> /\ Top(todo) = "loop" /\ todo \in Seq(Items)
  BY TopItem DEF LoopWrite
<1>2. Below(s) /\ Quiet(s) /\ s \in Seq(Items) /\ Has(todo, "loop")
  BY <1>1, UnderClear DEF LoopKinds, Below
<1>3. PICK x \in Items : todo = Push(x, s) /\ x.k = "loop"
  BY <1>1, PopShape
<1>4. y \in Items /\ y.k = "body"
  BY NewKinds
<1> HIDE DEF s, y
<1>5. /\ todo' = t /\ writing' = TRUE /\ sync' = TRUE /\ cursor' = cursor + 1
      /\ writecb' = <<buffer[cursor + 1]>> /\ writelen' = size[buffer[cursor + 1]]
      /\ sunk' = sunk \o <<buffer[cursor + 1]>>
      /\ UNCHANGED <<writev, buffer, bufferProcessing, corked, failed, ending, ended,
                     finished, size, ticks>>
  BY DEF LoopWrite, DoWrite, config, flags, Push, y
<1>6. /\ cursor \in Nat /\ cursor < Len(buffer) /\ buffer \in Seq(Nat) /\ size \in Seq(Nat)
      /\ Delivery(sunk, buffer, cursor, Len(size), failed)
  BY DEF LoopWrite, IInv, Types, Delivery
<1>7. Delivery(sunk', buffer', cursor', Len(size'), failed')
  BY <1>5, <1>6, DeliverNext
<1>8. bufferProcessing
  BY <1>2 DEF IInv, Clearing
<1>9. Clearing(todo', writev', writing', sync', bufferProcessing', failed',
               cursor' = Len(buffer'), Owing')
  <2> DEFINE done == cursor' = Len(buffer')
             owing == Owing'
  <2>1. owing = FALSE
    BY <1>5 DEF Owing
  <2> HIDE DEF done, owing
  <2>2. Clearing(Push(y, Push(x, s)), writev, TRUE, TRUE, TRUE, failed, done, FALSE)
    BY <1>2, <1>3, <1>4, BodyOnLoop DEF LoopKinds
  <2>3. Clearing(todo', writev', writing', sync', bufferProcessing', failed', done, owing)
    <3>1. bufferProcessing' = TRUE
      BY <1>5, <1>8 DEF IInv, Types
    <3> QED
      BY <1>3, <1>5, <2>1, <2>2, <3>1
  <2> QED
    BY <2>3 DEF done, owing
<1>10. Ending(todo', ending', ended', finished', buffer' = <<>>)
  <2> DEFINE empty == buffer = <<>>
  <2>1. Waiting(s, ending, ended, finished, empty)
    BY <1>2 DEF Quiet
  <2> HIDE DEF empty
  <2>2. Waiting(todo, ending, ended, finished, empty)
    BY <1>2, <1>3, <2>1, PushWaiting
  <2>3. Ending(t, ending, ended, finished, empty)
    BY <1>1, <1>4, <2>2, PushWaiting, WaitingSuffices
  <2> QED
    BY <1>5, <2>3 DEF empty
<1>11. todo' \in Seq(Items)
  BY <1>1, <1>4, <1>5, PushShape
<1>12. writelen' \in Int /\ writecb' \in Seq(Nat)
  <2>1. cursor + 1 \in cursor + 1 .. Len(buffer) /\ cursor + 1 \in 1 .. Len(buffer)
    BY <1>6
  <2>2. buffer[cursor + 1] \in 1 .. Len(size) /\ buffer[cursor + 1] \in Nat
    BY <1>6, <2>1 DEF Delivery
  <2>3. size[buffer[cursor + 1]] \in Nat
    BY <1>6, <2>2
  <2> QED
    BY <1>5, <2>2, <2>3
<1>13. Types'
  BY <1>5, <1>11, <1>12 DEF LoopWrite, IInv, Types, config, flags
<1>14. bufferProcessing'
  BY <1>5, <1>8
<1> QED
  BY <1>5, <1>7, <1>9, <1>10, <1>13, <1>14 DEF IInv

\* clearBuffer starts, with the whole buffer in front of it.
LEMMA Step_ClearBuffer ==
  ASSUME IInv, ClearBuffer PROVE IInv'
<1> DEFINE s == Tail(todo)
           y == Item("body")
           e == Item("emptied")
           l == Item("loop")
<1>1. todo # <<>> /\ Top(todo) = "clear" /\ todo \in Seq(Items)
  BY TopItem DEF ClearBuffer
<1>2. Below(s) /\ Quiet(s) /\ s \in Seq(Items) /\ Has(todo, "clear")
  BY <1>1, UnderClear DEF Below
<1>3. /\ y \in Items /\ y.k = "body" /\ e \in Items /\ e.k = "emptied"
      /\ l \in Items /\ l.k = "loop"
  BY NewKinds
<1>4. ~bufferProcessing /\ cursor = 0
  BY <1>2 DEF IInv, Clearing
<1>5. /\ buffer \in Seq(Nat) /\ Len(buffer) \in Nat
      /\ Delivery(sunk, buffer, cursor, Len(size), failed)
  BY DEF IInv, Delivery
<1>6. bufferProcessing' = TRUE
      /\ UNCHANGED <<writev, buffer, corked, failed, ending, ended, finished, size, ticks>>
  BY DEF ClearBuffer, config, flags
<1>7. Waiting(s, ending, ended, finished, buffer = <<>>)
  BY <1>2 DEF Quiet
<1>8. CASE writev /\ Len(buffer) > 1
  <2> DEFINE u == Push(e, s)
             t == Push(y, u)
  <2>1. /\ writing' = TRUE /\ sync' = TRUE /\ cursor' = Len(buffer) /\ sunk' = sunk \o buffer
        /\ writecb' = buffer /\ writelen' = length
        /\ todo' = <<y, e>> \o s /\ pendingcb' = pendingcb + 1
    BY <1>8 DEF ClearBuffer, DoWrite, CountBatch
  <2> HIDE DEF s, y, e
  <2>2. todo' = t
    BY <1>2, <1>3, <2>1, PushMany
  <2>3. Delivery(sunk', buffer', cursor', Len(size'), failed')
    BY <1>4, <1>5, <1>6, <2>1, DeliverBatch
  <2>4. Clearing(todo', writev', writing', sync', bufferProcessing', failed',
                 cursor' = Len(buffer'), Owing')
    <3> DEFINE done == cursor' = Len(buffer')
               owing == Owing'
    <3>1. owing = FALSE /\ done
      BY <1>6, <2>1 DEF Owing
    <3> HIDE DEF done, owing
    <3>2. Clearing(t, writev, TRUE, TRUE, TRUE, failed, done, FALSE)
      BY <1>2, <1>3, <1>8, <3>1, BodyOnLoop DEF LoopKinds
    <3>3. Clearing(todo', writev', writing', sync', bufferProcessing', failed', done, owing)
      BY <1>6, <2>1, <2>2, <3>1, <3>2
    <3> QED
      BY <3>3 DEF done, owing
  <2>5. Ending(todo', ending', ended', finished', buffer' = <<>>) /\ todo' \in Seq(Items)
    <3> DEFINE empty == buffer = <<>>
    <3>1. Waiting(s, ending, ended, finished, empty)
      BY <1>7
    <3> HIDE DEF empty
    <3>2. Waiting(u, ending, ended, finished, empty) /\ u \in Seq(Items)
      BY <1>2, <1>3, <3>1, PushWaiting, PushShape
    <3> HIDE DEF u
    <3>3. Ending(t, ending, ended, finished, empty) /\ t \in Seq(Items)
      BY <1>3, <3>2, PushWaiting, WaitingSuffices, PushShape
    <3> QED
      BY <1>6, <2>2, <3>3 DEF empty
  <2>6. Types'
    BY <1>5, <1>6, <2>1, <2>5 DEF ClearBuffer, IInv, Types, config, flags
  <2> QED
    BY <1>6, <2>3, <2>4, <2>5, <2>6 DEF IInv
<1>9. CASE ~(writev /\ Len(buffer) > 1)
  <2> DEFINE t == Push(l, s)
  <2>1. UNCHANGED <<writing, sync, cursor, sunk, writecb, writelen, pendingcb>> /\ todo' = t
    BY <1>9 DEF ClearBuffer, current, Push
  <2> HIDE DEF s, l
  <2>2. Delivery(sunk', buffer', cursor', Len(size'), failed')
    BY <1>5, <1>6, <2>1
  <2>3. Clearing(todo', writev', writing', sync', bufferProcessing', failed',
                 cursor' = Len(buffer'), Owing')
    <3> DEFINE done == cursor' = Len(buffer')
               owing == Owing'
    <3> HIDE DEF done, owing
    <3>1. /\ \A k : Has(t, k) <=> l.k = k \/ Has(s, k)
          /\ OneLoop(t) /\ BodyNest(t) /\ ClearOnTop(t) /\ Top(t) = "loop"
      BY <1>2, <1>3, PushShape DEF Below
    <3> HIDE DEF t
    <3>2. Clearing(t, writev, writing, sync, TRUE, failed, done, owing)
      BY <1>2, <1>3, <3>1 DEF Below, Clearing, Between, LoopKinds
    <3>3. Clearing(todo', writev', writing', sync', bufferProcessing', failed', done, owing)
      BY <1>6, <2>1, <3>2
    <3> QED
      BY <3>3 DEF done, owing
  <2>4. Ending(todo', ending', ended', finished', buffer' = <<>>) /\ todo' \in Seq(Items)
    <3> DEFINE empty == buffer = <<>>
    <3>1. Waiting(s, ending, ended, finished, empty)
      BY <1>7
    <3> HIDE DEF empty
    <3>2. Ending(t, ending, ended, finished, empty) /\ t \in Seq(Items)
      BY <1>2, <1>3, <3>1, PushWaiting, WaitingSuffices, PushShape
    <3> QED
      BY <1>6, <2>1, <3>2 DEF empty
  <2>5. Types'
    BY <1>6, <2>1, <2>4 DEF ClearBuffer, IInv, Types, config, flags
  <2> QED
    BY <1>6, <2>2, <2>3, <2>4, <2>5 DEF IInv
<1> QED
  BY <1>8, <1>9

\* A stack without a body: clearBuffer may be in its loop there, but is not about
\* to start.
Loops(s) ==
  /\ s \in Seq(Items) /\ OneLoop(s) /\ BodyNest(s) /\ ClearOnTop(s)
  /\ ~Has(s, "body") /\ ~Has(s, "clear")
  /\ (Has(s, "loop") \/ Has(s, "emptied")) => bufferProcessing
  /\ Has(s, "emptied") => writev /\ (~failed => cursor = Len(buffer))

\* Such a stack takes items that are no part of clearBuffer.
LEMMA PushLoops ==
  ASSUME NEW s, Loops(s), NEW x \in Items, x.k \notin LoopKinds \cup {"body", "clear"}
  PROVE  Loops(Push(x, s))
<1> DEFINE t == Push(x, s)
<1>1. /\ \A k : Has(t, k) <=> x.k = k \/ Has(s, k)
      /\ t \in Seq(Items) /\ OneLoop(t) /\ BodyNest(t) /\ ClearOnTop(t)
  BY PushShape DEF Loops
<1>2. x.k # "body" /\ x.k # "clear" /\ x.k # "loop" /\ x.k # "emptied"
  BY DEF LoopKinds
<1> HIDE DEF t
<1>3. Loops(t)
  BY <1>1, <1>2 DEF Loops
<1> QED
  BY <1>3 DEF t

\* A calm stack without a body is one.
LEMMA CalmLoops ==
  ASSUME NEW s, Calm(s), ~Has(s, "body")
  PROVE  Loops(s)
<1> QED
  BY DEF Calm, Idling, Clearing, Loops

\* What the invariant asks besides, when clearBuffer is where it was ...
LEMMA LoopsSuffice ==
  ASSUME NEW s, Loops(s), NEW wr, NEW sy, NEW fl, failed => fl, NEW owing,
         bufferProcessing /\ ~fl => Between(s),
         owing => bufferProcessing /\ Top(s) \in {"loop", "unsync", "defer"}
  PROVE  Clearing(s, writev, wr, sy, bufferProcessing, fl, cursor = Len(buffer), owing)
<1> QED
  BY DEF Loops, Clearing

\* ... and when it is about to start.
LEMMA LoopsClear ==
  ASSUME NEW s, Loops(s), ~bufferProcessing, NEW wr, NEW sy, NEW fl, NEW owing
  PROVE  Clearing(Push(Item("clear"), s), writev, wr, sy, bufferProcessing, fl,
                  cursor = Len(buffer), owing)
<1> DEFINE t == Push(Item("clear"), s)
           done == cursor = Len(buffer)
<1>1. Item("clear") \in Items /\ Item("clear").k = "clear" /\ "clear" \notin LoopKinds
  BY NewKinds DEF LoopKinds
<1>2. /\ \A k : Has(t, k) <=> Item("clear").k = k \/ Has(s, k)
      /\ OneLoop(t) /\ BodyNest(t) /\ ClearOnTop(t) /\ Top(t) = "clear"
  BY <1>1, PushShape DEF Loops
<1> HIDE DEF t
<1>3. Clearing(t, writev, wr, sy, bufferProcessing, fl, done, owing)
  BY <1>1, <1>2 DEF Loops, Clearing
<1> QED
  BY <1>3 DEF t

\* Below a body, or what it has called back and not returned from.
LEMMA UnderBody ==
  ASSUME IInv, todo # <<>>, Top(todo) \in {"body", "unsync", "defer"}
  PROVE  /\ Loops(Tail(todo)) /\ Quiet(Tail(todo))
         /\ Top(todo) = "body" => writing /\ sync /\ ~Owing
         /\ Top(todo) = "body" /\ bufferProcessing /\ ~failed =>
              Top(Tail(todo)) \in LoopKinds
         /\ Top(todo) # "body" /\ bufferProcessing /\ ~failed => Between(Tail(todo))
<1> DEFINE s == Tail(todo)
           empty == buffer = <<>>
           done == cursor = Len(buffer)
           owing == Owing
<1>1. /\ todo \in Seq(Items)
      /\ Clearing(todo, writev, writing, sync, bufferProcessing, failed, done, owing)
      /\ Ending(todo, ending, ended, finished, empty)
  BY DEF IInv, Types
<1> HIDE DEF empty, owing
<1>2. PICK x \in Items, u \in Seq(Items) : todo = Push(x, u) /\ s = u /\ Top(todo) = x.k
  BY <1>1, PopShape
<1>3. /\ \A k : Has(todo, k) <=> x.k = k \/ Has(s, k)
      /\ OneLoop(s) /\ BodyNest(s) /\ ~Has(s, "clear")
      /\ InBody(todo) => InBody(s) \/ (x.k = "body" /\ Top(s) \in LoopKinds)
  BY <1>1, <1>2, PushShape DEF Clearing
<1> HIDE DEF s
<1>4. ~Has(s, "body")
  <2>1. x.k \notin NestKinds
    BY <1>2 DEF NestKinds
  <2> QED
    BY <1>1, <1>2, <2>1, PushShape DEF Clearing
<1>5. ClearOnTop(s)
  BY <1>3 DEF ClearOnTop, Has
<1>6. Loops(s)
  <2>1. /\ (Has(s, "loop") \/ Has(s, "emptied")) => bufferProcessing
        /\ Has(s, "emptied") => writev /\ (~failed => done)
    BY <1>1, <1>3 DEF Clearing
  <2> QED
    BY <1>2, <1>3, <1>4, <1>5, <2>1 DEF Loops
<1>7. Waiting(s, ending, ended, finished, empty)
  BY <1>1, <1>2, IsWaiting, PopWaiting DEF s
<1>8. ~InBody(s)
  BY <1>4 DEF InBody, Has
<1>9. bufferProcessing /\ ~failed => InBody(todo) \/ Between(todo)
  BY <1>1 DEF Clearing
<1>10. x.k = "body" => writing /\ sync /\ ~owing /\ ~Between(todo)
  BY <1>1, <1>2, <1>3 DEF Clearing, Between, LoopKinds
<1>11. x.k # "body" /\ bufferProcessing /\ ~failed => Between(s)
  BY <1>2, <1>3, <1>8, <1>9 DEF Between, LoopKinds, s
<1> QED
  BY <1>2, <1>3, <1>6, <1>7, <1>8, <1>9, <1>10, <1>11 DEF Quiet, s, empty, owing

\* If writes are owed while a write returns, its clearBuffer goes on.
LEMMA StillOwing ==
  ASSUME IInv, todo # <<>>, Top(todo) \in {"body", "unsync", "defer"}, Owing
  PROVE  bufferProcessing /\ Top(Tail(todo)) \in {"loop", "unsync", "defer"}
<1> DEFINE s == Tail(todo)
<1>1. /\ Loops(s) /\ s \in Seq(Items)
      /\ Top(todo) = "body" => ~Owing
      /\ Top(todo) # "body" /\ bufferProcessing /\ ~failed => Between(s)
  BY UnderBody DEF Loops
<1>2. bufferProcessing /\ ~failed /\ cursor # Len(buffer)
  BY <1>1 DEF IInv, Clearing, Owing
<1> HIDE DEF s
<1>3. Top(s) # "emptied"
  <2> SUFFICES ASSUME Top(s) = "emptied" PROVE FALSE
    OBVIOUS
  <2>1. s # <<>>
    BY DEF Top
  <2>2. PICK x \in Items, u \in Seq(Items) : s = Push(x, u) /\ Top(s) = x.k
    BY <1>1, <2>1, PopShape
  <2>3. Has(s, "emptied")
    BY <2>2, PushShape
  <2> QED
    BY <1>1, <1>2, <2>3 DEF Loops
<1>4. Top(s) \in {"loop", "unsync", "defer"}
  BY <1>1, <1>2, <1>3 DEF Between, LoopKinds
<1> QED
  BY <1>2, <1>4 DEF s

\* _write returns, to its clearBuffer if it has one.
LEMMA Step_BodyReturns ==
  ASSUME IInv, BodyReturns PROVE IInv'
<1> DEFINE s == Tail(todo)
<1>1. todo # <<>> /\ Top(todo) \in {"body", "unsync"}
  BY TopItem DEF BodyReturns
<1>2. /\ Loops(s) /\ Quiet(s) /\ s \in Seq(Items)
      /\ Top(todo) = "body" => ~Owing
      /\ bufferProcessing /\ ~failed => Between(s)
  BY <1>1, UnderBody DEF Loops, Between
<1>3. Owing => bufferProcessing /\ Top(s) \in {"loop", "unsync", "defer"}
  BY <1>1, StillOwing
<1> HIDE DEF s
<1>4. /\ todo' = s /\ sync' = FALSE
      /\ UNCHANGED <<writev, writing, buffer, cursor, bufferProcessing, corked, failed,
                     ending, ended, finished, size, sunk, ticks>>
  BY DEF BodyReturns, config, queue, flags, s
<1>5. Clearing(todo', writev', writing', sync', bufferProcessing', failed',
               cursor' = Len(buffer'), Owing')
  <2> DEFINE done == cursor = Len(buffer)
             owing == Owing
  <2>1. Clearing(s, writev, writing, FALSE, bufferProcessing, failed, done, owing)
    BY <1>2, <1>3, LoopsSuffice
  <2>2. Owing' = owing /\ (cursor' = Len(buffer')) = done
    BY <1>4 DEF Owing
  <2> HIDE DEF done, owing
  <2>3. Clearing(todo', writev', writing', sync', bufferProcessing', failed', done, owing)
    BY <1>4, <2>1
  <2> QED
    BY <2>2, <2>3
<1>6. Ending(todo', ending', ended', finished', buffer' = <<>>)
  BY <1>2, <1>4, WaitingSuffices DEF Quiet
<1>7. Delivery(sunk', buffer', cursor', Len(size'), failed')
      /\ (~bufferProcessing' => cursor' = 0)
  BY <1>4 DEF IInv
<1>8. Types'
  BY <1>2, <1>4 DEF BodyReturns, IInv, Types, config, queue, flags
<1> QED
  BY <1>4, <1>5, <1>6, <1>7, <1>8 DEF IInv

\* afterWrite is deferred: _write is about to return.
LEMMA Step_Defer ==
  ASSUME IInv, Defer PROVE IInv'
<1> DEFINE s == Tail(todo)
<1>1. todo # <<>> /\ Top(todo) = "defer" /\ Head(todo) \in Items
  BY TopItem DEF Defer
<1>2. /\ Loops(s) /\ Quiet(s) /\ s \in Seq(Items)
      /\ bufferProcessing /\ ~failed => Between(s)
  BY <1>1, UnderBody DEF Loops
<1>3. Owing => bufferProcessing /\ Top(s) \in {"loop", "unsync", "defer"}
  BY <1>1, StillOwing
<1>4. /\ ticks' \in Seq(Items)
      /\ \A i \in 1 .. Len(ticks') : ticks'[i].k \in TickKinds
  <2> DEFINE y == [Head(todo) EXCEPT !.k = "after"]
  <2>1. y \in Items /\ y.k = "after"
    BY <1>1 DEF Items, Kinds
  <2>2. ticks' = Append(ticks, y)
    BY DEF Defer
  <2> HIDE DEF y
  <2> QED
    BY <2>1, <2>2, MoreTicks DEF IInv, Types, TickKinds
<1>5. /\ todo' = s
      /\ UNCHANGED <<writev, writing, sync, buffer, cursor, bufferProcessing, corked, failed,
                     ending, ended, finished, size, sunk>>
  BY DEF Defer, config, current, queue, flags
<1> HIDE DEF s
<1>6. Clearing(todo', writev', writing', sync', bufferProcessing', failed',
               cursor' = Len(buffer'), Owing')
  <2> DEFINE done == cursor = Len(buffer)
             owing == Owing
  <2>1. Clearing(s, writev, writing, sync, bufferProcessing, failed, done, owing)
    BY <1>2, <1>3, LoopsSuffice
  <2>2. Owing' = owing /\ (cursor' = Len(buffer')) = done
    BY <1>5 DEF Owing
  <2> HIDE DEF done, owing
  <2>3. Clearing(todo', writev', writing', sync', bufferProcessing', failed', done, owing)
    BY <1>5, <2>1
  <2> QED
    BY <2>2, <2>3
<1>7. Ending(todo', ending', ended', finished', buffer' = <<>>)
  BY <1>2, <1>5, WaitingSuffices DEF Quiet
<1>8. Delivery(sunk', buffer', cursor', Len(size'), failed')
      /\ (~bufferProcessing' => cursor' = 0)
  BY <1>5 DEF IInv
<1>9. Types'
  BY <1>2, <1>4, <1>5 DEF Defer, IInv, Types, config, current, queue, flags
<1> QED
  BY <1>4, <1>6, <1>7, <1>8, <1>9 DEF IInv

\* After a failure the order is not promised any more.
LEMMA DeliverFailed ==
  ASSUME NEW sk, NEW bf, NEW cu, NEW n, NEW fl, Delivery(sk, bf, cu, n, fl)
  PROVE  Delivery(sk, bf, cu, n, TRUE)
<1> QED
  BY DEF Delivery

\* The write in progress calls back, from its body when clearBuffer waits for it.
LEMMA Step_OnwriteDone ==
  ASSUME IInv, NEW rest, Onwrite(rest), OnwriteDone(rest), Loops(rest), Quiet(rest),
         bufferProcessing /\ ~failed => /\ sync /\ Top(rest) = "unsync"
                                        /\ Top(Tail(rest)) \in LoopKinds
  PROVE  IInv'
<1> DEFINE fin == ending /\ length' = 0 /\ buffer = <<>> /\ ~finished
           due == ~fin /\ ClearDue
           x == [k |-> IF sync THEN "defer" ELSE "after", ids |-> writecb, fin |-> fin]
           c == Item("clear")
           t == Push(x, rest)
           empty == buffer = <<>>
           done == cursor = Len(buffer)
<1>1. x \in Items /\ x.k = (IF sync THEN "defer" ELSE "after") /\ c \in Items /\ c.k = "clear"
  BY NewKinds DEF Items, Kinds, IInv, Types
<1>2. rest \in Seq(Items)
  BY DEF Loops
<1>3. todo' = (IF due THEN Push(c, t) ELSE t)
  <2>1. todo' = ((IF due THEN <<c>> ELSE <<>>) \o <<x>>) \o rest
    BY DEF OnwriteDone
  <2>2. (<<c>> \o <<x>>) \o rest = Push(c, t) /\ (<<>> \o <<x>>) \o rest = t
    <3> HIDE DEF x, c
    <3> QED
      BY <1>1, <1>2, PushMany
  <2> HIDE DEF due, x, c, t
  <2> QED
    BY <2>1, <2>2
<1>4. /\ writing' = FALSE /\ writecb' = <<>> /\ writelen' = 0 /\ length' = length - writelen
      /\ UNCHANGED <<writev, sync, buffer, cursor, bufferProcessing, corked, failed, ending,
                     ended, finished, size, sunk, ticks, errorEmitted>>
  BY DEF Onwrite, OnwriteDone, OnwriteStateUpdate, Remaining, config, queue
<1>5. due => ~bufferProcessing
  BY DEF ClearDue
<1>6. ~due => (Owing' => bufferProcessing /\ ~failed)
  <2>1. buffer = <<>> => cursor = Len(buffer)
    BY DEF IInv, Delivery
  <2> QED
    BY <1>4, <2>1 DEF Owing, ClearDue
<1> HIDE DEF fin, due, x, c
<1>7. Loops(t) /\ t \in Seq(Items) /\ Top(t) = x.k /\ Tail(t) = rest
  <2>1. x.k \notin LoopKinds \cup {"body", "clear"}
    BY <1>1 DEF LoopKinds
  <2> QED
    BY <1>1, <1>2, <2>1, PushLoops, PushShape
<1>8. bufferProcessing /\ ~failed => Between(t) /\ Top(t) = "defer"
  BY <1>1, <1>7 DEF Between
<1> DEFINE owing == Owing'
<1> HIDE DEF t
<1>9. Clearing(todo', writev, FALSE, sync, bufferProcessing, failed, done, owing)
  <2>1. CASE due
    <3>1. Clearing(Push(c, t), writev, FALSE, sync, bufferProcessing, failed, done, owing)
      BY <1>5, <1>7, <2>1, LoopsClear DEF c
    <3> QED
      BY <1>3, <2>1, <3>1
  <2>2. CASE ~due
    <3>1. Clearing(t, writev, FALSE, sync, bufferProcessing, failed, done, owing)
      BY <1>6, <1>7, <1>8, <2>2, LoopsSuffice
    <3> QED
      BY <1>3, <2>2, <3>1
  <2> QED
    BY <2>1, <2>2
<1>10. Clearing(todo', writev', writing', sync', bufferProcessing', failed',
                cursor' = Len(buffer'), Owing')
  <2>1. (cursor' = Len(buffer')) = done
    BY <1>4
  <2> HIDE DEF done, owing
  <2>2. Clearing(todo', writev', writing', sync', bufferProcessing', failed', done, owing)
    BY <1>4, <1>9
  <2> QED
    BY <2>1, <2>2 DEF owing
<1>11. Ending(todo', ending', ended', finished', buffer' = <<>>) /\ todo' \in Seq(Items)
  <2>1. Waiting(rest, ending, ended, finished, empty)
    BY DEF Quiet
  <2>2. (buffer' = <<>>) = empty
    BY <1>4
  <2> HIDE DEF empty
  <2>3. Waiting(t, ending, ended, finished, empty)
    BY <1>1, <1>2, <2>1, PushWaiting DEF t
  <2>4. Waiting(Push(c, t), ending, ended, finished, empty) /\ Push(c, t) \in Seq(Items)
    BY <1>1, <1>7, <2>3, PushWaiting, PushShape
  <2>5. Waiting(todo', ending, ended, finished, empty) /\ todo' \in Seq(Items)
    BY <1>3, <1>7, <2>3, <2>4
  <2>6. Ending(todo', ending, ended, finished, empty)
    BY <2>5, WaitingSuffices
  <2> QED
    BY <1>4, <2>2, <2>5, <2>6
<1>12. Delivery(sunk', buffer', cursor', Len(size'), failed')
       /\ (~bufferProcessing' => cursor' = 0)
  BY <1>4 DEF IInv
<1>13. Types'
  <2>1. writecb' \in Seq(Nat) /\ length' \in Int /\ writelen' \in Int /\ writing' \in BOOLEAN
    <3>1. length \in Int /\ writelen \in Int
      BY DEF IInv, Types
    <3>2. length' = length - writelen
      BY <1>4
    <3>3. length' \in Int
      BY <3>1, <3>2
    <3>4. <<>> \in Seq(Nat)
      OBVIOUS
    <3>5. writecb' \in Seq(Nat)
      BY <1>4, <3>4, Zenon
    <3>6. writelen' \in Int
      BY <1>4
    <3>7. FALSE \in BOOLEAN /\ TRUE \in BOOLEAN
      OBVIOUS
    <3> QED
      BY <1>4, <3>3, <3>5, <3>6, <3>7, Zenon
  <2>2. UNCHANGED <<highWaterMark, writev, use, needDrain, pendingcb, corked, sync, prefinished,
                    calls, size, acked, finishes, bufferProcessing>>
    BY DEF Onwrite, config, queue
  <2> QED
    BY <1>4, <1>11, <2>1, <2>2 DEF IInv, Types
<1> QED
  BY <1>4, <1>10, <1>11, <1>12, <1>13 DEF IInv

\* The write in progress fails: its callback and 'error' come now or in a tick.
LEMMA Step_OnwriteError ==
  ASSUME IInv, NEW rest, Onwrite(rest), OnwriteError(rest), Loops(rest), Quiet(rest)
  PROVE  IInv'
<1> DEFINE empty == buffer = <<>>
           done == cursor = Len(buffer)
           x == Item("user")
           y == ItemOf("ack", writecb)
           z == Item("emitError")
<1>1. /\ x \in Items /\ x.k = "user" /\ y \in Items /\ y.k = "ack"
      /\ z \in Items /\ z.k = "emitError"
  BY NewKinds DEF IInv, Types
<1>2. rest \in Seq(Items)
  BY DEF Loops
<1>3. \/ todo' = Push(x, rest) /\ ticks' = Append(ticks, y) /\ errorEmitted' = TRUE
      \/ todo' = <<y, z>> \o rest /\ ticks' = ticks /\ errorEmitted' = errorEmitted
  BY DEF OnwriteError, Push
<1>4. /\ writing' = FALSE /\ writecb' = <<>> /\ writelen' = 0 /\ length' = length - writelen
      /\ failed' = TRUE
      /\ UNCHANGED <<writev, sync, buffer, cursor, bufferProcessing, corked, ending, ended,
                     finished, size, sunk>>
  BY DEF Onwrite, OnwriteError, OnwriteStateUpdate, Remaining, config, queue
<1> HIDE DEF x, y, z
<1>5. <<y, z>> \o rest = Push(y, Push(z, rest))
  BY <1>1, <1>2, PushMany
<1>6. todo' = Push(x, rest) \/ todo' = Push(y, Push(z, rest))
  BY <1>3, <1>5
<1>7. /\ Loops(Push(x, rest)) /\ Loops(Push(z, rest)) /\ Loops(Push(y, Push(z, rest)))
      /\ Push(z, rest) \in Seq(Items)
  <2>1. Loops(Push(x, rest)) /\ Loops(Push(z, rest))
    BY <1>1, PushLoops DEF LoopKinds
  <2>2. Loops(Push(y, Push(z, rest)))
    BY <1>1, <2>1, PushLoops DEF LoopKinds
  <2> QED
    BY <2>1, <2>2 DEF Loops
<1>8. Loops(todo') /\ todo' \in Seq(Items)
  BY <1>6, <1>7 DEF Loops
<1>9. /\ ticks' \in Seq(Items) /\ errorEmitted' \in BOOLEAN
      /\ \A i \in 1 .. Len(ticks') : ticks'[i].k \in TickKinds
  BY <1>1, <1>3, MoreTicks DEF IInv, Types, TickKinds
<1>10. Clearing(todo', writev', writing', sync', bufferProcessing', failed',
                cursor' = Len(buffer'), Owing')
  <2>1. (cursor' = Len(buffer')) = done /\ Owing' = FALSE
    BY <1>4 DEF Owing
  <2>2. Clearing(todo', writev, FALSE, sync, bufferProcessing, TRUE, done, FALSE)
    BY <1>8, LoopsSuffice
  <2> DEFINE owing == Owing'
  <2> HIDE DEF done, owing
  <2>3. Clearing(todo', writev', writing', sync', bufferProcessing', failed', done, FALSE)
    BY <1>4, <2>2
  <2> QED
    BY <2>1, <2>3
<1>11. Ending(todo', ending', ended', finished', buffer' = <<>>)
  <2>1. Waiting(rest, ending, ended, finished, empty)
    BY DEF Quiet
  <2>2. (buffer' = <<>>) = empty
    BY <1>4
  <2> HIDE DEF empty
  <2>3. /\ Waiting(Push(x, rest), ending, ended, finished, empty)
        /\ Waiting(Push(z, rest), ending, ended, finished, empty)
    BY <1>1, <1>2, <2>1, PushWaiting
  <2>4. Waiting(Push(y, Push(z, rest)), ending, ended, finished, empty)
    BY <1>1, <1>7, <2>3, PushWaiting
  <2>5. Ending(todo', ending, ended, finished, empty)
    BY <1>6, <2>3, <2>4, WaitingSuffices
  <2> QED
    BY <1>4, <2>2, <2>5
<1>12. Delivery(sunk', buffer', cursor', Len(size'), failed')
       /\ (~bufferProcessing' => cursor' = 0)
  <2>1. Delivery(sunk, buffer, cursor, Len(size), TRUE)
    BY DeliverFailed DEF IInv
  <2> QED
    BY <1>4, <2>1 DEF IInv
<1>13. Types'
  <2>1. writecb' \in Seq(Nat) /\ length' \in Int /\ writelen' \in Int /\ writing' \in BOOLEAN
        /\ failed' \in BOOLEAN
    <3>1. length \in Int /\ writelen \in Int
      BY DEF IInv, Types
    <3>2. length' = length - writelen
      BY <1>4
    <3>3. length' \in Int
      BY <3>1, <3>2
    <3>4. <<>> \in Seq(Nat)
      OBVIOUS
    <3>5. writecb' \in Seq(Nat)
      BY <1>4, <3>4, Zenon
    <3>6. writelen' \in Int
      BY <1>4
    <3>7. FALSE \in BOOLEAN /\ TRUE \in BOOLEAN
      OBVIOUS
    <3> QED
      BY <1>4, <3>3, <3>5, <3>6, <3>7, Zenon
  <2>2. UNCHANGED <<highWaterMark, writev, use, needDrain, pendingcb, corked, sync, prefinished,
                    calls, size, acked, finishes, bufferProcessing>>
    BY DEF Onwrite, config, queue
  <2> QED
    BY <1>4, <1>8, <1>9, <2>1, <2>2 DEF IInv, Types
<1> QED
  BY <1>9, <1>10, <1>11, <1>12, <1>13 DEF IInv

\* The implementation calls back before _write returns.
LEMMA Step_CompleteInBody ==
  ASSUME IInv, CompleteInBody PROVE IInv'
<1> DEFINE s == Tail(todo)
           x == Item("unsync")
           rest == Push(x, s)
<1>1. todo # <<>> /\ Top(todo) = "body"
  BY TopItem DEF CompleteInBody
<1>2. /\ Loops(s) /\ Quiet(s) /\ s \in Seq(Items) /\ sync
      /\ bufferProcessing /\ ~failed => Top(s) \in LoopKinds
  BY <1>1, UnderBody DEF Loops
<1>3. x \in Items /\ x.k = "unsync"
  BY NewKinds
<1>4. Onwrite(rest)
  BY DEF CompleteInBody, Push
<1> HIDE DEF s, x
<1>5. Loops(rest) /\ Top(rest) = "unsync" /\ Tail(rest) = s
  <2>1. x.k \notin LoopKinds \cup {"body", "clear"}
    BY <1>3 DEF LoopKinds
  <2> QED
    BY <1>2, <1>3, <2>1, PushLoops, PushShape
<1>6. Quiet(rest)
  <2> DEFINE empty == buffer = <<>>
  <2>1. Waiting(s, ending, ended, finished, empty)
    BY <1>2 DEF Quiet
  <2> HIDE DEF empty
  <2>2. Waiting(rest, ending, ended, finished, empty)
    BY <1>2, <1>3, <2>1, PushWaiting
  <2> QED
    BY <2>2 DEF Quiet, empty
<1> HIDE DEF rest
<1>7. CASE OnwriteDone(rest)
  BY <1>2, <1>4, <1>5, <1>6, <1>7, Step_OnwriteDone
<1>8. CASE OnwriteError(rest)
  BY <1>4, <1>5, <1>6, <1>8, Step_OnwriteError
<1> QED
  BY <1>4, <1>7, <1>8 DEF Onwrite

\* The implementation calls back later: then no body is on the stack, and no
\* clearBuffer waits in its loop.
LEMMA Step_CompleteLater ==
  ASSUME IInv, CompleteLater PROVE IInv'
<1>1. UserRuns /\ ~sync /\ Onwrite(Caller)
  BY DEF CompleteLater
<1>2. Calm(Caller) /\ Quiet(Caller)
  BY <1>1, UserStack
<1>3. ~Has(Caller, "body") /\ (bufferProcessing => failed)
  BY <1>1, <1>2, CalmShape DEF IInv, Types
<1>4. Loops(Caller)
  BY <1>2, <1>3, CalmLoops
<1>5. CASE OnwriteDone(Caller)
  BY <1>1, <1>2, <1>3, <1>4, <1>5, Step_OnwriteDone
<1>6. CASE OnwriteError(Caller)
  BY <1>1, <1>2, <1>4, <1>6, Step_OnwriteError
<1> QED
  BY <1>1, <1>5, <1>6 DEF Onwrite

\* A write comes before end() is called, so nothing is finished.
LEMMA Step_Accept ==
  ASSUME IInv, LateWrites = FALSE, Call, NEW n \in Nat, NEW then \in Thens, Accept(n, then)
  PROVE  IInv'
<1> DEFINE s == then \o Caller
           y == Item("body")
           t == Push(y, s)
           empty == buffer = <<>>
           done == cursor = Len(buffer)
<1>1. UserRuns /\ calls' \in 0 .. MaxCalls
  BY CallCounts
<1>2. /\ then \in Seq(Items) /\ Calm(s) /\ Quiet(s) /\ ~Owing /\ ~ending
      /\ Caller \in Seq(Items) /\ s \in Seq(Items)
  <2>1. MayWrite
    BY DEF Accept
  <2>2. ~Owing /\ ~ending /\ Calm(Caller)
    BY <1>1, <2>1, UserStack
  <2>3. then \in Seq(Items) /\ Calm(s) /\ Quiet(s)
    BY <1>1, ThenCalm
  <2> QED
    BY <2>2, <2>3 DEF Calm
<1>3. y \in Items /\ y.k = "body"
  BY NewKinds
<1>4. /\ size \in Seq(Nat) /\ cursor \in Nat /\ buffer \in Seq(Nat)
      /\ Delivery(sunk, buffer, cursor, Len(size), failed)
      /\ ~bufferProcessing => cursor = 0
  BY DEF IInv, Types, Delivery
<1>5. /\ size' = Append(size, n) /\ length' = length + n
      /\ UNCHANGED <<writev, cursor, bufferProcessing, corked, failed, ending, ended,
                     finished, ticks>>
  BY DEF Accept, config, flags
<1>6. Len(size') = Len(size) + 1 /\ size' \in Seq(Nat)
  BY <1>4, <1>5
<1>7. /\ needDrain' \in BOOLEAN /\ pendingcb' \in Int /\ length' \in Int
      /\ UNCHANGED <<highWaterMark, use, prefinished, errorEmitted, acked, finishes>>
  BY DEF Accept, IInv, Types, config, flags
<1> HIDE DEF s, y
\* With end() not called, no stack is asked to wait for it.
<1>8. ~finished /\ ~Has(s, "finish")
  BY <1>2 DEF Quiet, Waiting
<1>9. CASE /\ MustBuffer
           /\ buffer' = Append(buffer, accepted + 1)
           /\ todo' = then \o Caller
           /\ UNCHANGED <<current, sunk>>
  <2>1. todo' = s /\ UNCHANGED <<writing, writecb, writelen, sync, sunk>>
    BY <1>9 DEF current, s
  <2>2. Delivery(sunk', buffer', cursor', Len(size'), failed')
    BY <1>4, <1>5, <1>6, <1>9, <2>1, DeliverLater DEF accepted
  <2>3. ~Owing'
    <3>1. writing \/ corked > 0
      BY <1>9 DEF MustBuffer
    <3>2. corked > 0 => corked # 0
      BY DEF IInv, Types
    <3> QED
      BY <1>5, <2>1, <3>1, <3>2 DEF Owing
  <2>4. Clearing(todo', writev', writing', sync', bufferProcessing', failed',
                 cursor' = Len(buffer'), Owing')
    <3> DEFINE done1 == cursor' = Len(buffer')
               owing == Owing'
    <3>1. owing = FALSE
      BY <2>3 DEF Owing
    <3> HIDE DEF done1, owing
    <3>2. Clearing(s, writev, writing, sync, bufferProcessing, failed, done1, FALSE)
      BY <1>2, CalmSuffices
    <3>3. Clearing(todo', writev', writing', sync', bufferProcessing', failed', done1, owing)
      BY <1>5, <2>1, <3>1, <3>2
    <3> QED
      BY <3>3 DEF done1, owing
  <2>5. Ending(todo', ending', ended', finished', buffer' = <<>>)
    BY <1>2, <1>5, <1>8, <2>1 DEF Ending
  <2>6. Types'
    BY <1>1, <1>2, <1>5, <1>6, <1>7, <2>1 DEF IInv, Types
  <2> QED
    BY <1>4, <1>5, <2>2, <2>4, <2>5, <2>6 DEF IInv
<1>10. CASE /\ ~MustBuffer
            /\ DoWrite(<<accepted + 1>>, n)
            /\ todo' = <<Item("body")>> \o then \o Caller
            /\ UNCHANGED buffer
  <2>1. todo' = t
    <3>1. <<y>> \in Seq(Items)
      BY <1>3
    <3>2. todo' = (<<y>> \o then) \o Caller
      BY <1>10 DEF y
    <3>3. (<<y>> \o then) \o Caller = <<y>> \o (then \o Caller)
      BY <1>2, <3>1, ConcatAssociative
    <3> QED
      BY <3>2, <3>3 DEF Push, s
  <2>2. /\ writing' = TRUE /\ sync' = TRUE /\ writecb' = <<Len(size) + 1>> /\ writelen' = n
        /\ sunk' = sunk \o <<Len(size) + 1>> /\ buffer' = buffer
    BY <1>10 DEF DoWrite, accepted
  <2>3. failed \/ cursor = Len(buffer)
    <3>1. ~writing /\ corked = 0
      BY <1>10 DEF MustBuffer, IInv, Types
    <3> QED
      BY <1>2, <3>1 DEF Owing
  <2>4. Delivery(sunk', buffer', cursor', Len(size'), failed')
    BY <1>4, <1>5, <1>6, <2>2, <2>3, DeliverAtOnce
  <2>5. ~Has(s, "body")
    BY <1>2, <1>10, CalmShape DEF MustBuffer
  <2>6. Clearing(todo', writev', writing', sync', bufferProcessing', failed',
                 cursor' = Len(buffer'), Owing')
    <3> DEFINE owing == Owing'
    <3>1. owing = FALSE /\ (cursor' = Len(buffer')) = done
      BY <1>5, <2>2 DEF Owing
    <3>2. /\ Loops(s) /\ (bufferProcessing => failed)
      BY <1>2, <2>5, CalmLoops, CalmShape
    <3>3. /\ (Has(s, "loop") \/ Has(s, "emptied")) => bufferProcessing
          /\ Has(s, "emptied") => writev /\ (~failed => done)
      BY <3>2 DEF Loops
    <3> HIDE DEF done, owing
    <3>4. /\ OneLoop(t) /\ BodyNest(t) /\ ClearOnTop(t) /\ Top(t) = "body"
          /\ \A k : Has(t, k) <=> y.k = k \/ Has(s, k)
      <4>1. y.k \notin LoopKinds
        BY <1>3 DEF LoopKinds
      <4> QED
        BY <1>2, <1>3, <2>5, <3>2, <4>1, PushShape DEF Loops
    <3> HIDE DEF t
    <3>5. Clearing(t, writev, TRUE, TRUE, bufferProcessing, failed, done, FALSE)
      BY <1>3, <2>5, <3>2, <3>3, <3>4 DEF Loops, Clearing
    <3>6. Clearing(todo', writev', writing', sync', bufferProcessing', failed', done, owing)
      BY <1>5, <2>1, <2>2, <3>1, <3>5
    <3> QED
      BY <3>1, <3>6 DEF owing
  <2>7. ~Has(t, "finish") /\ t \in Seq(Items)
    BY <1>2, <1>3, <1>8, PushShape
  <2>8. Ending(todo', ending', ended', finished', buffer' = <<>>)
    BY <1>2, <1>5, <1>8, <2>1, <2>7 DEF Ending
  <2>9. writecb' \in Seq(Nat) /\ writelen' \in Int
    <3>1. Len(size) + 1 \in Nat
      BY <1>4
    <3> QED
      BY <2>2, <3>1
  <2>10. Types'
    BY <1>1, <1>5, <1>6, <1>7, <2>1, <2>2, <2>7, <2>9 DEF IInv, Types
  <2> QED
    BY <1>4, <1>5, <2>4, <2>6, <2>8, <2>10 DEF IInv
<1> QED
  BY <1>9, <1>10 DEF Accept

\* Chunks have a length.
LEMMA Sizes ==
  ASSUME IInv, NEW n \in use.sizes PROVE n \in Nat
<1> QED
  BY WritableAssumption DEF IInv, Types

\* write() of a chunk that is accepted, or not.
LEMMA Step_Write ==
  ASSUME IInv, LateWrites = FALSE, Write PROVE IInv'
<1>1. <<>> \in Thens
  BY DEF Thens
<1>2. CASE Call /\ \E n \in use.sizes : Accept(n, <<>>)
  BY <1>1, <1>2, Sizes, Step_Accept
<1>3. CASE Call /\ Reject(<<>>)
  BY <1>1, <1>3, Step_Reject
<1> QED
  BY <1>2, <1>3 DEF Write

\* end() with a chunk that is accepted, or not, or without.
LEMMA Step_End ==
  ASSUME IInv, LateWrites = FALSE, End PROVE IInv'
<1> DEFINE then == <<Item("endUncork"), Item("endWritable")>>
<1>1. then \in Thens
  BY DEF Thens
<1>2. \/ Call /\ \E n \in use.sizes : Accept(n, then)
      \/ Call /\ Reject(then)
      \/ PlainEnd
  BY DEF End, PlainEnd
<1> HIDE DEF then
<1>3. CASE Call /\ \E n \in use.sizes : Accept(n, then)
  BY <1>1, <1>3, Sizes, Step_Accept
<1>4. CASE Call /\ Reject(then)
  BY <1>1, <1>4, Step_Reject
<1> QED
  BY <1>2, <1>3, <1>4, Step_PlainEnd

-----------------------------------------------------------------------------
(* The specification *)

\* Nothing is written, nothing is on the stack.
LEMMA Initially == Init => IInv
<1> SUFFICES ASSUME Init PROVE IInv
  OBVIOUS
<1>1. /\ todo = <<>> /\ ticks = <<>> /\ buffer = <<>> /\ sunk = <<>> /\ size = <<>>
      /\ writecb = <<>> /\ acked = <<>> /\ cursor = 0 /\ corked = 0
      /\ ~bufferProcessing /\ ~ending /\ ~finished /\ ~failed /\ ~writing
  BY DEF Init
<1>2. \A S : <<>> \in Seq(S)
  OBVIOUS
<1>3. Len(<<>>) = 0 /\ 1 .. 0 = {} /\ 0 + 1 .. 0 = {}
  OBVIOUS
<1>4. Types
  <2>1. /\ todo \in Seq(Items) /\ ticks \in Seq(Items) /\ size \in Seq(Nat)
        /\ writecb \in Seq(Nat) /\ acked \in Seq(Nat)
    BY <1>1, <1>2
  <2>2. /\ highWaterMark \in Nat /\ writev \in BOOLEAN /\ use \in Uses
        /\ length \in Int /\ pendingcb \in Int /\ writelen \in Int
        /\ corked \in Nat /\ finishes \in Nat /\ calls \in 0 .. MaxCalls
    BY WritableAssumption DEF Init
  <2>3. /\ needDrain \in BOOLEAN /\ writing \in BOOLEAN /\ sync \in BOOLEAN
        /\ bufferProcessing \in BOOLEAN /\ ending \in BOOLEAN /\ ended \in BOOLEAN
        /\ finished \in BOOLEAN /\ prefinished \in BOOLEAN
        /\ errorEmitted \in BOOLEAN /\ failed \in BOOLEAN
    BY DEF Init
  <2> QED
    BY <2>1, <2>2, <2>3 DEF Types
<1>5. Delivery(sunk, buffer, cursor, Len(size), failed)
  BY <1>1, <1>2, <1>3 DEF Delivery
<1>6. /\ todo \in Seq(Items) /\ Top(todo) = "none" /\ (\A k : ~Has(todo, k))
      /\ OneLoop(todo) /\ BodyNest(todo) /\ ClearOnTop(todo)
  BY <1>1, <1>2, PopShape
<1>7. ~Owing
  BY <1>1, <1>3 DEF Owing
<1>8. Clearing(todo, writev, writing, sync, bufferProcessing, failed,
               cursor = Len(buffer), Owing)
  BY <1>1, <1>6, <1>7 DEF Clearing
<1>9. Ending(todo, ending, ended, finished, buffer = <<>>)
  BY <1>1, <1>6 DEF Ending
<1> QED
  BY <1>1, <1>3, <1>4, <1>5, <1>8, <1>9 DEF IInv

\* Every step preserves the invariant.
LEMMA Inductive ==
  ASSUME LateWrites = FALSE, IInv, [Next]_vars
  PROVE  IInv'
<1>1. CASE UNCHANGED vars
  BY <1>1 DEF vars, config, current, queue, flags, IInv, Types, Owing
<1>2. CASE UserCall
  BY <1>2, Step_Write, Step_Cork, Step_Uncork, Step_End DEF UserCall
<1>3. CASE CompleteLater
  BY <1>3, Step_CompleteLater
<1>4. CASE Step
  BY <1>4, Step_Rejected, Step_ClearBuffer, Step_Emptied, Step_LoopWrite, Step_LoopExit,
     Step_EmitError, Step_CompleteInBody, Step_BodyReturns, Step_Defer, Step_AfterWrite,
     Step_Ack, Step_AckBatch, Step_FinishMaybe, Step_Finish, Step_EndUncork,
     Step_EndWritable, Step_EndTail, Step_Return, Step_RunTick DEF Step
<1> QED
  BY <1>1, <1>2, <1>3, <1>4 DEF Next

\* What a step does to the writes handed over, and to their number.
LEMMA StepOfSink ==
  ASSUME IInv, [Next]_vars
  PROVE  /\ size' = size \/ \E n : size' = Append(size, n)
         /\ sunk' = sunk \/ (failed' = failed /\ \E ids \in Seq(Nat) : sunk' = sunk \o ids)
         /\ failed => failed'
<1>1. CASE UNCHANGED vars
  BY <1>1 DEF vars
<1>2. ASSUME NEW n, NEW then, Accept(n, then)
      PROVE  /\ size' = Append(size, n) /\ failed' = failed
             /\ sunk' = sunk \/ \E ids \in Seq(Nat) : sunk' = sunk \o ids
  <2>1. <<accepted + 1>> \in Seq(Nat)
    BY DEF IInv, Types, accepted
  <2> QED
    BY <1>2, <2>1 DEF Accept, DoWrite
<1>3. ASSUME NEW rest, Onwrite(rest)
      PROVE  size' = size /\ sunk' = sunk /\ (failed => failed')
  BY <1>3 DEF Onwrite, OnwriteDone, OnwriteError
<1> DEFINE Same == size' = size /\ sunk' = sunk /\ failed' = failed
<1>4. CASE UserCall
  <2>1. ASSUME NEW then, Reject(then) PROVE Same
    BY <2>1 DEF Reject
  <2>2. ASSUME NEW n, NEW rest, UncorkFrom(n, rest) PROVE Same
    BY <2>2 DEF UncorkFrom
  <2>3. Write => Same \/ \E n, then : Accept(n, then)
    BY <2>1 DEF Write
  <2>4. Cork \/ Uncork => Same
    BY <2>2 DEF Cork, Uncork
  <2>5. End => Same \/ \E n, then : Accept(n, then)
    BY <2>1 DEF End
  <2>6. Same \/ \E n, then : Accept(n, then)
    BY <1>4, <2>3, <2>4, <2>5 DEF UserCall
  <2> QED
    BY <1>2, <2>6
<1>5. CASE CompleteLater \/ CompleteInBody
  BY <1>3, <1>5 DEF CompleteLater, CompleteInBody
<1>6. CASE ClearBuffer
  <2>1. buffer \in Seq(Nat)
    BY DEF IInv, Delivery
  <2> QED
    BY <1>6, <2>1 DEF ClearBuffer, DoWrite
<1>7. CASE LoopWrite
  <2>1. buffer \in Seq(Nat) /\ cursor \in Nat /\ cursor < Len(buffer)
    BY <1>7 DEF IInv, Delivery, LoopWrite
  <2>2. cursor + 1 \in 1 .. Len(buffer)
    BY <2>1
  <2>3. <<buffer[cursor + 1]>> \in Seq(Nat)
    BY <2>1, <2>2
  <2> QED
    BY <1>7, <2>3 DEF LoopWrite, DoWrite
<1>8. CASE Rejected \/ Emptied \/ LoopExit \/ EmitError \/ BodyReturns \/ Defer \/ AfterWrite
  BY <1>8 DEF Rejected, Emptied, LoopExit, EmitError, BodyReturns, Defer, AfterWrite
<1>9. CASE Ack \/ AckBatch \/ FinishMaybe \/ Finish
  <2>1. Ack => Same
    BY DEF Ack
  <2>2. AckBatch => Same
    BY DEF AckBatch
  <2>3. FinishMaybe => Same
    BY DEF FinishMaybe
  <2>4. Finish => Same
    BY DEF Finish
  <2> QED
    BY <1>9, <2>1, <2>2, <2>3, <2>4
<1>10. CASE EndUncork \/ EndWritable \/ EndTail \/ Return \/ RunTick
  <2>1. ASSUME NEW n, NEW rest, UncorkFrom(n, rest) PROVE Same
    BY <2>1 DEF UncorkFrom
  <2>2. EndUncork => Same
    BY <2>1 DEF EndUncork
  <2>3. EndWritable \/ EndTail \/ Return \/ RunTick => Same
    BY DEF EndWritable, EndTail, Return, RunTick
  <2> QED
    BY <1>10, <2>2, <2>3
<1> QED
  BY <1>1, <1>4, <1>5, <1>6, <1>7, <1>8, <1>9, <1>10 DEF Next, Step

\* A step of the stream is one of the sink, or none.
LEMMA SinkStep ==
  ASSUME IInv, IInv', [Next]_vars
  PROVE  [Sink!Next]_Sink!vars
<1>1. /\ size' = size \/ \E n : size' = Append(size, n)
      /\ sunk' = sunk \/ (failed' = failed /\ \E ids \in Seq(Nat) : sunk' = sunk \o ids)
      /\ failed => failed'
  BY StepOfSink
<1>2. Len(size') = Len(size) + 1 \/ Len(size') = Len(size)
  <2>1. size \in Seq(Nat) /\ size' \in Seq(Nat)
    BY DEF IInv, Types
  <2>2. ASSUME NEW n, size' = Append(size, n) PROVE Len(size') = Len(size) + 1
    BY <2>1, <2>2
  <2> QED
    BY <1>1, <2>2
<1>3. Delivery(sunk', buffer', cursor', Len(size'), failed') /\ sunk \in Seq(Nat)
  BY DEF IInv, Delivery
<1>4. ASSUME NEW ids \in Seq(Nat), sunk' = sunk \o ids, failed' = failed
      PROVE  Sink!Sink
  <2>1. /\ Len(sunk') >= Len(sunk)
        /\ \A i \in 1 .. Len(sunk) : sunk'[i] = sunk[i]
    BY <1>3, <1>4
  <2>2. /\ \A i \in 1 .. Len(sunk') : sunk'[i] \in 1 .. Len(size')
        /\ \A i, j \in 1 .. Len(sunk') : i # j => sunk'[i] # sunk'[j]
    BY <1>3 DEF Delivery
  <2>3. ~failed => \A i \in 1 .. Len(sunk') : sunk'[i] = i
    BY <1>3, <1>4 DEF Delivery
  <2> QED
    BY <2>1, <2>2, <2>3 DEF Sink!Sink
<1>5. Sink!Sink \/ UNCHANGED sunk
  BY <1>1, <1>4
<1>6. Sink!Accept \/ UNCHANGED Len(size)
  BY <1>2 DEF Sink!Accept
<1>7. Sink!Next
  BY <1>1, <1>5, <1>6 DEF Sink!Next
<1> QED
  BY <1>7

\* Writes are handed over at most once and, until one fails, in the order in
\* which they were accepted: whatever the chunks, the number of calls, the cork
\* and the points at which user code calls write(), as long as the handlers of
\* 'prefinish' and 'finish' do not write while end() has not returned.
THEOREM Implements ==
  ASSUME LateWrites = FALSE
  PROVE  Spec => OrderedDelivery
<1>1. Init => IInv
  BY Initially
<1>2. IInv /\ [Next]_vars => IInv'
  BY Inductive
<1>3. Init => Sink!Init
  <2>1. Len(<<>>) = 0
    OBVIOUS
  <2> QED
    BY <2>1 DEF Init, Sink!Init
<1>4. IInv /\ IInv' /\ [Next]_vars => [Sink!Next]_Sink!vars
  BY SinkStep
<1> QED
  BY <1>1, <1>2, <1>3, <1>4, PTL DEF Spec, OrderedDelivery, Sink!Spec

-----------------------------------------------------------------------------
(* Sums of lengths *)

\* All the writes ids have a length.
Sized(sizes, ids) == sizes \in Seq(Nat) /\ ids \in Seq(1 .. Len(sizes))

\* f[i] is the sum of the lengths of the first i writes of ids, up to n.
IsSum(f, sizes, ids, n) ==
  /\ f \in [0 .. n -> Nat] /\ f[0] = 0
  /\ \A i \in 1 .. n : f[i] = f[i - 1] + sizes[ids[i]]

\* Writes that have a length, one by one.
LEMMA SizedPlaces ==
  ASSUME NEW sizes, NEW ids, Sized(sizes, ids)
  PROVE  /\ Len(ids) \in Nat /\ ids \in Seq(Nat)
         /\ \A i \in 1 .. Len(ids) : ids[i] \in 1 .. Len(sizes) /\ sizes[ids[i]] \in Nat
<1>1. sizes \in Seq(Nat) /\ ids \in Seq(1 .. Len(sizes))
  BY DEF Sized
<1> DEFINE R == 1 .. Len(sizes)
<1>2. R \subseteq Nat /\ \A n \in R : sizes[n] \in Nat
  BY <1>1
<1>3. ids \in Seq(R)
  BY <1>1
<1> HIDE DEF R
<1>4. Len(ids) \in Nat /\ \A i \in 1 .. Len(ids) : ids[i] \in R
  BY <1>3
<1>5. ids \in [1 .. Len(ids) -> R]
  BY <1>3
<1>6. ids \in [1 .. Len(ids) -> Nat]
  BY <1>2, <1>5
<1>7. ids \in Seq(Nat)
  BY <1>4, <1>6, SeqDef
<1> QED
  BY <1>2, <1>4, <1>7 DEF R

\* There is one such function.
LEMMA SumExists ==
  ASSUME NEW sizes, NEW ids, Sized(sizes, ids), NEW n \in 0 .. Len(ids)
  PROVE  \E f : IsSum(f, sizes, ids, n)
<1> DEFINE I == {m \in 0 .. Len(ids) : ~ \E f : IsSum(f, sizes, ids, m)}
<1>0. /\ Len(ids) \in Nat
      /\ \A i \in 1 .. Len(ids) : sizes[ids[i]] \in Nat
  BY SizedPlaces
<1>1. I = {}
  <2> SUFFICES ASSUME I # {} PROVE FALSE
    OBVIOUS
  <2>1. I \in SUBSET Nat
    BY <1>0
  <2>2. PICK m \in I : \A y \in I : m =< y
    BY <2>1, LeastNumber
  <2>3. m \in 0 .. Len(ids)
    OBVIOUS
  <2>4. CASE m = 0
    <3>1. 1 .. 0 = {} /\ 0 \in 0 .. 0
      OBVIOUS
    <3>2. IsSum([i \in 0 .. 0 |-> 0], sizes, ids, 0)
      BY <3>1 DEF IsSum
    <3> QED
      BY <2>2, <2>4, <3>2
  <2>5. CASE m # 0
    <3>0. m - 1 \in 0 .. Len(ids) /\ ~(m =< m - 1)
      BY <1>0, <2>3, <2>5
    <3>1. m - 1 \in 0 .. Len(ids) /\ m - 1 \notin I
      <4> HIDE DEF I
      <4> QED
        BY <2>2, <3>0
    <3>2. PICK g : IsSum(g, sizes, ids, m - 1)
      BY <3>1
    <3> DEFINE last == g[m - 1] + sizes[ids[m]]
               f == [i \in 0 .. m |-> IF i = m THEN last ELSE g[i]]
    <3>3. m - 1 \in 0 .. m - 1 /\ m \in 1 .. Len(ids)
      BY <1>0, <2>3, <2>5
    <3>4. g[m - 1] \in Nat /\ sizes[ids[m]] \in Nat
      BY <1>0, <3>2, <3>3 DEF IsSum
    <3>5. last \in Nat
      BY <3>4
    <3>6. \A i \in 0 .. m : i # m => i \in 0 .. m - 1
      BY <2>3
    <3>7. last = g[m - 1] + sizes[ids[m]]
      OBVIOUS
    <3> HIDE DEF last
    <3>8. f \in [0 .. m -> Nat]
      BY <3>2, <3>5, <3>6 DEF IsSum
    <3>9. f[0] = 0
      <4>1. 0 \in 0 .. m /\ 0 # m
        BY <2>3, <2>5
      <4> QED
        BY <3>2, <4>1 DEF IsSum
    <3>10. ASSUME NEW i \in 1 .. m PROVE f[i] = f[i - 1] + sizes[ids[i]]
      <4>1. i \in 0 .. m /\ i - 1 \in 0 .. m /\ i - 1 # m /\ (i # m => i \in 1 .. m - 1)
        BY <2>3
      <4>2. f[i - 1] = g[i - 1]
        BY <4>1
      <4>3. CASE i = m
        <5>1. f[i] = last
          BY <4>1, <4>3
        <5> QED
          BY <3>7, <4>2, <4>3, <5>1
      <4>4. CASE i # m
        <5>1. f[i] = g[i]
          BY <4>1, <4>4
        <5> QED
          BY <3>2, <4>1, <4>2, <4>4, <5>1 DEF IsSum
      <4> QED
        BY <4>3, <4>4
    <3> HIDE DEF f
    <3>11. IsSum(f, sizes, ids, m)
      BY <3>8, <3>9, <3>10 DEF IsSum
    <3> QED
      BY <2>2, <3>11
  <2> QED
    BY <2>4, <2>5
<1> QED
  BY <1>1

\* Its last value is what Total returns.
LEMMA TotalValue ==
  ASSUME NEW sizes, NEW ids, Sized(sizes, ids), NEW g, IsSum(g, sizes, ids, Len(ids))
  PROVE  Total(sizes, ids) = g[Len(ids)] /\ Total(sizes, ids) \in Nat
<1> DEFINE N == Len(ids)
           body(f) == [i \in 0 .. N |-> IF i = 0 THEN 0 ELSE f[i - 1] + sizes[ids[i]]]
           f == CHOOSE f : f = body(f)
<1>1. N \in Nat /\ N \in 0 .. N
  BY SizedPlaces
<1>2. Total(sizes, ids) = f[N]
  BY DEF Total
<1>3. g = body(g)
  BY <1>1 DEF IsSum
<1>4. f = body(f)
  <2> HIDE DEF body
  <2> QED
    BY <1>3
<1> HIDE DEF f
<1>5. DOMAIN f = 0 .. N /\ \A i \in 0 .. N : f[i] = IF i = 0 THEN 0 ELSE f[i - 1] + sizes[ids[i]]
  <2>1. \A i \in 0 .. N : body(f)[i] = IF i = 0 THEN 0 ELSE f[i - 1] + sizes[ids[i]]
    OBVIOUS
  <2>2. DOMAIN body(f) = 0 .. N
    OBVIOUS
  <2> HIDE DEF body
  <2> QED
    BY <1>4, <2>1, <2>2
<1> HIDE DEF body
<1>6. \A i \in 0 .. N : f[i] = g[i]
  <2> DEFINE I == {i \in 0 .. N : f[i] # g[i]}
  <2> SUFFICES ASSUME I # {} PROVE FALSE
    OBVIOUS
  <2>1. I \in SUBSET Nat
    BY <1>1
  <2>2. PICK i \in I : \A y \in I : i =< y
    BY <2>1, LeastNumber
  <2>3. i \in 0 .. N /\ f[i] # g[i]
    OBVIOUS
  <2>4. i # 0 => i - 1 \in 0 .. N /\ ~(i =< i - 1) /\ i \in 1 .. N
    BY <1>1, <2>3
  <2>5. i # 0 => f[i - 1] = g[i - 1]
    BY <2>2, <2>4
  <2> HIDE DEF I
  <2>6. f[i] = IF i = 0 THEN 0 ELSE f[i - 1] + sizes[ids[i]]
    BY <1>5, <2>3
  <2>7. g[i] = IF i = 0 THEN 0 ELSE g[i - 1] + sizes[ids[i]]
    BY <2>3, <2>4 DEF IsSum
  <2> QED
    BY <2>3, <2>5, <2>6, <2>7
<1> HIDE DEF N
<1>7. f[N] = g[N] /\ g[N] \in Nat
  BY <1>1, <1>6 DEF IsSum, N
<1> QED
  BY <1>2, <1>7 DEF N

\* A sum of lengths is a number.
LEMMA TotalNumber ==
  ASSUME NEW sizes, NEW ids, Sized(sizes, ids)
  PROVE  /\ Total(sizes, ids) \in Nat
         /\ \E f : IsSum(f, sizes, ids, Len(ids)) /\ Total(sizes, ids) = f[Len(ids)]
<1>1. Len(ids) \in 0 .. Len(ids)
  BY SizedPlaces
<1>2. PICK f : IsSum(f, sizes, ids, Len(ids))
  BY <1>1, SumExists
<1> QED
  BY <1>2, TotalValue

\* Nothing sums to nothing.
LEMMA TotalNone ==
  ASSUME NEW sizes \in Seq(Nat)
  PROVE  Sized(sizes, <<>>) /\ Total(sizes, <<>>) = 0
<1>1. <<>> \in Seq(1 .. Len(sizes)) /\ Len(<<>>) = 0
  BY EmptySequence
<1>2. Sized(sizes, <<>>)
  BY <1>1 DEF Sized
<1>3. PICK f : IsSum(f, sizes, <<>>, 0) /\ Total(sizes, <<>>) = f[0]
  BY <1>1, <1>2, TotalNumber
<1> QED
  BY <1>2, <1>3 DEF IsSum

\* One more write at the end.
LEMMA TotalAppend ==
  ASSUME NEW sizes, NEW ids, Sized(sizes, ids), NEW x \in 1 .. Len(sizes)
  PROVE  /\ Sized(sizes, Append(ids, x))
         /\ Total(sizes, Append(ids, x)) = Total(sizes, ids) + sizes[x]
<1> DEFINE t == Append(ids, x)
           N == Len(ids)
<1>1. N \in Nat /\ sizes \in Seq(Nat) /\ sizes[x] \in Nat
  BY SizedPlaces DEF Sized
<1>2. Sized(sizes, t) /\ Len(t) = N + 1 /\ t[N + 1] = x /\ \A i \in 1 .. N : t[i] = ids[i]
  <2> PICK R : R = 1 .. Len(sizes)
    OBVIOUS
  <2>1. ids \in Seq(R) /\ x \in R
    BY DEF Sized
  <2>2. t \in Seq(R) /\ Len(t) = N + 1 /\ t[N + 1] = x /\ \A i \in 1 .. N : t[i] = ids[i]
    BY <2>1
  <2> QED
    BY <1>1, <2>2 DEF Sized
<1>3. PICK f : IsSum(f, sizes, ids, N) /\ Total(sizes, ids) = f[N]
  BY TotalNumber
<1> DEFINE last == f[N] + sizes[x]
           g == [i \in 0 .. N + 1 |-> IF i = N + 1 THEN last ELSE f[i]]
<1> HIDE DEF t, N
<1>4. f[N] \in Nat /\ last \in Nat
  BY <1>1, <1>3 DEF IsSum
<1>5. last = f[N] + sizes[x]
  OBVIOUS
<1> HIDE DEF last
<1>6. \A i \in 0 .. N + 1 : i # N + 1 => i \in 0 .. N
  BY <1>1
<1>7. g \in [0 .. N + 1 -> Nat]
  BY <1>3, <1>4, <1>6 DEF IsSum
<1>8. g[0] = 0 /\ g[N] = f[N] /\ g[N + 1] = last
  <2>1. 0 \in 0 .. N + 1 /\ 0 # N + 1 /\ N \in 0 .. N + 1 /\ N # N + 1 /\ N + 1 \in 0 .. N + 1
    BY <1>1
  <2> QED
    BY <1>3, <2>1 DEF IsSum
<1>9. ASSUME NEW i \in 1 .. N + 1 PROVE g[i] = g[i - 1] + sizes[t[i]]
  <2>1. CASE i = N + 1
    <3>1. i - 1 = N
      BY <1>1, <2>1
    <3> QED
      BY <1>2, <1>5, <1>8, <2>1, <3>1
  <2>2. CASE i # N + 1
    <3>1. /\ i \in 1 .. N /\ i \in 0 .. N + 1
          /\ i - 1 \in 0 .. N + 1 /\ i - 1 # N + 1
      BY <1>1, <2>2
    <3>2. g[i] = f[i] /\ g[i - 1] = f[i - 1]
      BY <2>2, <3>1
    <3> QED
      BY <1>2, <1>3, <3>1, <3>2 DEF IsSum
  <2> QED
    BY <2>1, <2>2
<1> HIDE DEF g
<1>10. IsSum(g, sizes, t, N + 1)
  BY <1>7, <1>8, <1>9 DEF IsSum
<1>11. Total(sizes, t) = g[N + 1]
  BY <1>2, <1>10, TotalValue
<1> QED
  BY <1>2, <1>3, <1>5, <1>8, <1>11 DEF t

\* One more write at the beginning.
LEMMA TotalPush ==
  ASSUME NEW sizes, NEW ids, Sized(sizes, ids), NEW x \in 1 .. Len(sizes)
  PROVE  /\ Sized(sizes, <<x>> \o ids)
         /\ Total(sizes, <<x>> \o ids) = sizes[x] + Total(sizes, ids)
<1> DEFINE t == <<x>> \o ids
           N == Len(ids)
<1>1. N \in Nat /\ sizes \in Seq(Nat) /\ sizes[x] \in Nat
  BY SizedPlaces DEF Sized
<1>2. Sized(sizes, t) /\ Len(t) = N + 1 /\ t[1] = x /\ \A i \in 1 .. N : t[i + 1] = ids[i]
  <2> PICK R : R = 1 .. Len(sizes)
    OBVIOUS
  <2>1. ids \in Seq(R) /\ x \in R
    BY DEF Sized
  <2>2. t \in Seq(R) /\ Len(t) = N + 1 /\ t[1] = x /\ \A i \in 1 .. N : t[i + 1] = ids[i]
    BY <2>1
  <2> QED
    BY <1>1, <2>2 DEF Sized
<1>3. PICK f : IsSum(f, sizes, ids, N) /\ Total(sizes, ids) = f[N]
  BY TotalNumber
<1> DEFINE g == [i \in 0 .. N + 1 |-> IF i = 0 THEN 0 ELSE sizes[x] + f[i - 1]]
<1> HIDE DEF t, N
<1>4. \A i \in 1 .. N + 1 : i - 1 \in 0 .. N /\ f[i - 1] \in Nat
  BY <1>1, <1>3 DEF IsSum
<1>5. g \in [0 .. N + 1 -> Nat]
  <2>1. \A i \in 0 .. N + 1 : i # 0 => i \in 1 .. N + 1
    BY <1>1
  <2>2. \A a \in Nat : sizes[x] + a \in Nat
    BY <1>1
  <2> QED
    BY <1>4, <2>1, <2>2
<1>6. g[0] = 0 /\ g[N + 1] = sizes[x] + f[N]
  <2>1. 0 \in 0 .. N + 1 /\ N + 1 \in 0 .. N + 1 /\ N + 1 # 0 /\ (N + 1) - 1 = N
    BY <1>1
  <2> QED
    BY <2>1
<1>7. ASSUME NEW i \in 1 .. N + 1 PROVE g[i] = g[i - 1] + sizes[t[i]]
  <2>1. i \in 0 .. N + 1 /\ i # 0 /\ i - 1 \in 0 .. N + 1
    BY <1>1
  <2>2. g[i] = sizes[x] + f[i - 1]
    BY <2>1
  <2>3. CASE i = 1
    <3>1. i - 1 = 0 /\ f[i - 1] = 0 /\ g[i - 1] = 0
      BY <1>3, <1>6, <2>3 DEF IsSum
    <3> QED
      BY <1>1, <1>2, <2>2, <2>3, <3>1
  <2>4. CASE i # 1
    <3>1. i - 1 \in 1 .. N /\ i - 1 # 0 /\ (i - 1) + 1 = i /\ (i - 1) - 1 \in 0 .. N
      BY <1>1, <2>4
    <3>2. g[i - 1] = sizes[x] + f[(i - 1) - 1]
      BY <2>1, <3>1
    <3>3. f[i - 1] = f[(i - 1) - 1] + sizes[ids[i - 1]]
      BY <1>3, <3>1 DEF IsSum
    <3>4. t[i] = ids[i - 1]
      BY <1>2, <3>1
    <3>5. f[(i - 1) - 1] \in Nat /\ sizes[ids[i - 1]] \in Nat
      BY <1>3, <3>1, SizedPlaces DEF IsSum, N
    <3> HIDE DEF g
    <3>6. \A a, b, c \in Nat : a + (b + c) = (a + b) + c
      OBVIOUS
    <3> QED
      BY <1>1, <2>2, <3>2, <3>3, <3>4, <3>5, <3>6
  <2> QED
    BY <2>3, <2>4
<1> HIDE DEF g
<1>8. IsSum(g, sizes, t, N + 1)
  BY <1>5, <1>6, <1>7 DEF IsSum
<1>9. Total(sizes, t) = g[N + 1]
  BY <1>2, <1>8, TotalValue
<1> QED
  BY <1>2, <1>3, <1>6, <1>9 DEF t

\* The length of another write does not matter.
LEMMA TotalGrown ==
  ASSUME NEW sizes, NEW ids, Sized(sizes, ids), NEW n \in Nat
  PROVE  /\ Sized(Append(sizes, n), ids)
         /\ Total(Append(sizes, n), ids) = Total(sizes, ids)
<1> DEFINE t == Append(sizes, n)
           N == Len(ids)
<1>1. /\ t \in Seq(Nat) /\ Len(t) = Len(sizes) + 1 /\ Len(sizes) \in Nat
      /\ \A i \in 1 .. Len(sizes) : t[i] = sizes[i]
  BY DEF Sized
<1>2. ids \in Seq(1 .. Len(t))
  <2>1. 1 .. Len(sizes) \subseteq 1 .. Len(t)
    <3> HIDE DEF t
    <3> QED
      BY <1>1
  <2>2. ids \in Seq(1 .. Len(sizes))
    BY DEF Sized
  <2> HIDE DEF t
  <2> QED
    BY <2>1, <2>2, SeqMonotonic
<1> HIDE DEF t
<1>3. Sized(t, ids)
  BY <1>1, <1>2 DEF Sized
<1>4. PICK f : IsSum(f, sizes, ids, N) /\ Total(sizes, ids) = f[N]
  BY TotalNumber
<1>5. \A i \in 1 .. N : ids[i] \in 1 .. Len(sizes)
  BY SizedPlaces
<1>6. IsSum(f, t, ids, N)
  BY <1>1, <1>4, <1>5 DEF IsSum
<1>7. Total(t, ids) = f[N]
  BY <1>3, <1>6, TotalValue
<1> QED
  BY <1>3, <1>4, <1>7 DEF t

-----------------------------------------------------------------------------
(* The callbacks that items are to run *)

\* The items that take one callback off the count before they run those of their
\* writes.
Owed == {"defer", "after", "ack"}

\* An item with callbacks to run, and no other, names writes.
Good(x) ==
  /\ x.k \in Owed => x.ids # <<>>
  /\ x.ids # <<>> => x.k \in Owed \cup {"acks"}

AllGood(s) == \A i \in 1 .. Len(s) : Good(s[i])

Ids(s) == UNION {ToSet(s[i].ids) : i \in 1 .. Len(s)}

\* No write is named twice.
Apart(s) ==
  /\ \A i \in 1 .. Len(s) : IsInjective(s[i].ids)
  /\ \A i, j \in 1 .. Len(s) : i # j => ToSet(s[i].ids) \cap ToSet(s[j].ids) = {}

Batch(x) == x.k \in Owed /\ Len(x.ids) > 1

\* t has x at place p and the items of s at the others, as m says.
Inserted(x, s, t, p, m) ==
  /\ p \in 1 .. Len(t) /\ t[p] = x
  /\ m \in [1 .. Len(s) -> 1 .. Len(t)]
  /\ \A i \in 1 .. Len(s) : m[i] # p /\ t[m[i]] = s[i]
  /\ \A i, j \in 1 .. Len(s) : m[i] = m[j] => i = j
  /\ \A j \in 1 .. Len(t) : j # p => \E i \in 1 .. Len(s) : m[i] = j

\* What a list of items is to run, when it has x and the items of s.
LEMMA OneMoreItem ==
  ASSUME NEW x \in Items, NEW s \in Seq(Items), NEW t \in Seq(Items),
         NEW p, NEW m, Inserted(x, s, t, p, m)
  PROVE  /\ AllGood(t) <=> Good(x) /\ AllGood(s)
         /\ Ids(t) = ToSet(x.ids) \cup Ids(s)
         /\ Apart(t) <=> /\ IsInjective(x.ids) /\ Apart(s)
                         /\ ToSet(x.ids) \cap Ids(s) = {}
         /\ Cardinality(Batches(s)) \in Nat
         /\ Cardinality(Batches(t)) = Cardinality(Batches(s)) + (IF Batch(x) THEN 1 ELSE 0)
<1>0. /\ p \in 1 .. Len(t) /\ t[p] = x
      /\ m \in [1 .. Len(s) -> 1 .. Len(t)]
      /\ \A i \in 1 .. Len(s) : m[i] # p /\ t[m[i]] = s[i]
      /\ \A i, j \in 1 .. Len(s) : m[i] = m[j] => i = j
      /\ \A j \in 1 .. Len(t) : j # p => \E i \in 1 .. Len(s) : m[i] = j
      /\ \A i \in 1 .. Len(s) : m[i] \in 1 .. Len(t)
  BY DEF Inserted
<1>1. AllGood(t) <=> Good(x) /\ AllGood(s)
  <2>1. ASSUME \A j \in 1 .. Len(t) : Good(t[j])
        PROVE  Good(x) /\ \A i \in 1 .. Len(s) : Good(s[i])
    BY <1>0, <2>1
  <2>2. ASSUME Good(x), \A i \in 1 .. Len(s) : Good(s[i]), NEW j \in 1 .. Len(t)
        PROVE  Good(t[j])
    BY <1>0, <2>2
  <2> QED
    BY <2>1, <2>2 DEF AllGood
<1>2. Ids(t) = ToSet(x.ids) \cup Ids(s)
  <2>1. \A y : y \in Ids(t) <=> \E i \in 1 .. Len(t) : y \in ToSet(t[i].ids)
    BY DEF Ids
  <2>2. \A y : y \in Ids(s) <=> \E i \in 1 .. Len(s) : y \in ToSet(s[i].ids)
    BY DEF Ids
  <2>3. ASSUME NEW y \in Ids(t) PROVE y \in ToSet(x.ids) \cup Ids(s)
    <3>1. PICK j \in 1 .. Len(t) : y \in ToSet(t[j].ids)
      BY <2>1, <2>3
    <3>2. j # p => \E i \in 1 .. Len(s) : t[j] = s[i]
      BY <1>0
    <3> QED
      BY <1>0, <2>2, <3>1, <3>2
  <2>4. ASSUME NEW y \in ToSet(x.ids) \cup Ids(s) PROVE y \in Ids(t)
    BY <1>0, <2>1, <2>2
  <2> QED
    BY <2>3, <2>4
<1>3. Apart(t) <=> /\ IsInjective(x.ids) /\ Apart(s)
                   /\ ToSet(x.ids) \cap Ids(s) = {}
  <2> DEFINE disjoint(a, b) == ToSet(a.ids) \cap ToSet(b.ids) = {}
  <2>0. \A a, b : disjoint(a, b) <=> disjoint(b, a)
    OBVIOUS
  <2>1. ToSet(x.ids) \cap Ids(s) = {} <=> \A i \in 1 .. Len(s) : disjoint(x, s[i])
    BY DEF Ids
  <2>2. /\ Apart(t) <=> /\ \A i \in 1 .. Len(t) : IsInjective(t[i].ids)
                        /\ \A i, j \in 1 .. Len(t) : i # j => disjoint(t[i], t[j])
        /\ Apart(s) <=> /\ \A i \in 1 .. Len(s) : IsInjective(s[i].ids)
                        /\ \A i, j \in 1 .. Len(s) : i # j => disjoint(s[i], s[j])
    BY DEF Apart
  <2> HIDE DEF disjoint
  <2>3. (\A i \in 1 .. Len(t) : IsInjective(t[i].ids))
          <=> IsInjective(x.ids) /\ \A i \in 1 .. Len(s) : IsInjective(s[i].ids)
    <3> DEFINE inj(a) == IsInjective(a.ids)
    <3> HIDE DEF inj
    <3>1. ASSUME \A j \in 1 .. Len(t) : inj(t[j])
          PROVE  inj(x) /\ \A i \in 1 .. Len(s) : inj(s[i])
      BY <1>0, <3>1
    <3>2. ASSUME inj(x), \A i \in 1 .. Len(s) : inj(s[i]), NEW j \in 1 .. Len(t)
          PROVE  inj(t[j])
      BY <1>0, <3>2
    <3> QED
      BY <3>1, <3>2 DEF inj
  <2>4. ASSUME \A i, j \in 1 .. Len(t) : i # j => disjoint(t[i], t[j])
        PROVE  /\ \A i, j \in 1 .. Len(s) : i # j => disjoint(s[i], s[j])
               /\ \A i \in 1 .. Len(s) : disjoint(x, s[i])
    <3>1. ASSUME NEW i \in 1 .. Len(s), NEW j \in 1 .. Len(s), i # j
          PROVE  disjoint(s[i], s[j])
      <4>1. m[i] # m[j] /\ t[m[i]] = s[i] /\ t[m[j]] = s[j]
        BY <1>0, <3>1
      <4> QED
        BY <1>0, <2>4, <4>1
    <3>2. ASSUME NEW i \in 1 .. Len(s) PROVE disjoint(x, s[i])
      <4>1. p # m[i] /\ t[m[i]] = s[i] /\ t[p] = x
        BY <1>0
      <4> QED
        BY <1>0, <2>4, <4>1
    <3> QED
      BY <3>1, <3>2
  <2>5. ASSUME \A i, j \in 1 .. Len(s) : i # j => disjoint(s[i], s[j]),
               \A i \in 1 .. Len(s) : disjoint(x, s[i]),
               NEW i \in 1 .. Len(t), NEW j \in 1 .. Len(t), i # j
        PROVE  disjoint(t[i], t[j])
    <3>1. CASE i = p
      BY <1>0, <2>5, <3>1
    <3>2. CASE j = p
      BY <1>0, <2>0, <2>5, <3>2
    <3>3. CASE i # p /\ j # p
      <4>1. PICK a \in 1 .. Len(s) : m[a] = i
        BY <1>0, <3>3
      <4>2. PICK b \in 1 .. Len(s) : m[b] = j
        BY <1>0, <3>3
      <4>3. a # b /\ s[a] = t[i] /\ s[b] = t[j]
        BY <1>0, <2>5, <4>1, <4>2
      <4> QED
        BY <2>5, <4>3
    <3> QED
      BY <3>1, <3>2, <3>3
  <2> QED
    BY <2>1, <2>2, <2>3, <2>4, <2>5
<1>4. /\ Cardinality(Batches(s)) \in Nat
      /\ Cardinality(Batches(t)) = Cardinality(Batches(s)) + (IF Batch(x) THEN 1 ELSE 0)
  <2> DEFINE B == {i \in 1 .. Len(s) : Batch(s[i])}
             C == {j \in 1 .. Len(t) : Batch(t[j])}
             D == {j \in C : j # p}
             f == [i \in B |-> m[i]]
  <2>1. Batches(s) = B /\ Batches(t) = C
    BY DEF Batches, Batch, Owed
  <2>2. f \in Bijection(B, D)
    <3>1. \A i \in B : m[i] \in D
      BY <1>0
    <3>2. f \in Injection(B, D)
      <4>1. f \in [B -> D]
        BY <3>1
      <4>2. \A a, b \in B : f[a] = f[b] => a = b
        BY <1>0
      <4> HIDE DEF B, D, f
      <4> QED
        BY <4>1, <4>2 DEF Injection, IsInjective
    <3>3. \A j \in D : \E i \in B : f[i] = j
      BY <1>0
    <3> HIDE DEF B, D, f
    <3>4. f \in Surjection(B, D)
      BY <3>2, <3>3 DEF Surjection, Injection
    <3> QED
      BY <3>2, <3>4 DEF Bijection
  <2>3. IsFiniteSet(B) /\ Cardinality(B) \in Nat
    <3>1. IsFiniteSet(1 .. Len(s)) /\ B \subseteq 1 .. Len(s)
      BY FS_Interval
    <3> HIDE DEF B
    <3> QED
      BY <3>1, FS_Subset, FS_CardinalityType
  <2> HIDE DEF f, B
  <2>4. IsFiniteSet(D) /\ Cardinality(D) = Cardinality(B)
    <3> HIDE DEF D
    <3> QED
      BY <2>2, <2>3, FS_Bijection DEF ExistsBijection
  <2>5. CASE Batch(x)
    <3>1. C = D \cup {p} /\ p \notin D
      BY <1>0, <2>5
    <3> HIDE DEF C, D
    <3>2. Cardinality(C) = Cardinality(D) + 1
      BY <2>4, <3>1, FS_AddElement
    <3>3. Cardinality(C) = Cardinality(B) + 1
      BY <2>4, <3>2
    <3> QED
      BY <2>1, <2>3, <2>5, <3>3
  <2>6. CASE ~Batch(x)
    <3>1. C = D
      BY <1>0, <2>6
    <3> HIDE DEF C, D
    <3> QED
      BY <2>1, <2>3, <2>4, <2>6, <3>1
  <2> QED
    BY <2>5, <2>6
<1> QED
  BY <1>1, <1>2, <1>3, <1>4

\* No items, nothing to run.
LEMMA NoItems ==
  AllGood(<<>>) /\ Ids(<<>>) = {} /\ Apart(<<>>) /\ Cardinality(Batches(<<>>)) = 0
<1>1. Len(<<>>) = 0 /\ 1 .. 0 = {} /\ DOMAIN <<>> = {}
  OBVIOUS
<1>2. Batches(<<>>) = {}
  BY <1>1 DEF Batches
<1> QED
  BY <1>1, <1>2, FS_EmptySet DEF AllGood, Ids, Apart

\* An item is put on the stack.
LEMMA PushWork ==
  ASSUME NEW x \in Items, NEW s \in Seq(Items)
  PROVE  /\ AllGood(Push(x, s)) <=> Good(x) /\ AllGood(s)
         /\ Ids(Push(x, s)) = ToSet(x.ids) \cup Ids(s)
         /\ Apart(Push(x, s)) <=> /\ IsInjective(x.ids) /\ Apart(s)
                                  /\ ToSet(x.ids) \cap Ids(s) = {}
         /\ Cardinality(Batches(s)) \in Nat
         /\ Cardinality(Batches(Push(x, s)))
              = Cardinality(Batches(s)) + (IF Batch(x) THEN 1 ELSE 0)
<1> DEFINE t == Push(x, s)
           m == [i \in 1 .. Len(s) |-> i + 1]
<1>1. /\ t \in Seq(Items) /\ Len(s) \in Nat /\ Len(t) = Len(s) + 1 /\ t[1] = x
      /\ \A i \in 1 .. Len(s) : t[i + 1] = s[i]
  BY DEF Push
<1> HIDE DEF t
<1>2. 1 \in 1 .. Len(t) /\ \A i \in 1 .. Len(s) : i + 1 \in 1 .. Len(t) /\ i + 1 # 1
  BY <1>1
<1>3. m \in [1 .. Len(s) -> 1 .. Len(t)] /\ \A i \in 1 .. Len(s) : m[i] = i + 1
  BY <1>2
<1> HIDE DEF m
<1>4. \A i, j \in 1 .. Len(s) : m[i] = m[j] => i = j
  BY <1>1, <1>3
<1>5. \A j \in 1 .. Len(t) : j # 1 => \E i \in 1 .. Len(s) : m[i] = j
  <2>1. \A j \in 1 .. Len(t) : j # 1 => j - 1 \in 1 .. Len(s) /\ (j - 1) + 1 = j
    BY <1>1
  <2> QED
    BY <1>3, <2>1
<1>6. \A i \in 1 .. Len(s) : m[i] # 1 /\ t[m[i]] = s[i]
  BY <1>1, <1>2, <1>3
<1> DEFINE p == 1
<1>7. /\ p \in 1 .. Len(t) /\ t[p] = x
      /\ \A i \in 1 .. Len(s) : m[i] # p /\ t[m[i]] = s[i]
      /\ \A j \in 1 .. Len(t) : j # p => \E i \in 1 .. Len(s) : m[i] = j
  BY <1>1, <1>2, <1>5, <1>6
<1> HIDE DEF p
<1>8. Inserted(x, s, t, p, m)
  BY <1>3, <1>4, <1>7 DEF Inserted
<1>9. /\ AllGood(t) <=> Good(x) /\ AllGood(s)
      /\ Ids(t) = ToSet(x.ids) \cup Ids(s)
      /\ Apart(t) <=> /\ IsInjective(x.ids) /\ Apart(s)
                      /\ ToSet(x.ids) \cap Ids(s) = {}
      /\ Cardinality(Batches(s)) \in Nat
      /\ Cardinality(Batches(t)) = Cardinality(Batches(s)) + (IF Batch(x) THEN 1 ELSE 0)
  BY <1>1, <1>8, OneMoreItem
<1> QED
  BY <1>9 DEF t

\* An item is put at the end of the queue.
LEMMA AppendWork ==
  ASSUME NEW x \in Items, NEW s \in Seq(Items)
  PROVE  /\ AllGood(Append(s, x)) <=> Good(x) /\ AllGood(s)
         /\ Ids(Append(s, x)) = ToSet(x.ids) \cup Ids(s)
         /\ Apart(Append(s, x)) <=> /\ IsInjective(x.ids) /\ Apart(s)
                                    /\ ToSet(x.ids) \cap Ids(s) = {}
         /\ Cardinality(Batches(s)) \in Nat
         /\ Cardinality(Batches(Append(s, x)))
              = Cardinality(Batches(s)) + (IF Batch(x) THEN 1 ELSE 0)
<1> DEFINE t == Append(s, x)
           m == [i \in 1 .. Len(s) |-> i]
           p == Len(s) + 1
<1>1. /\ t \in Seq(Items) /\ Len(s) \in Nat /\ Len(t) = Len(s) + 1 /\ t[p] = x
      /\ \A i \in 1 .. Len(s) : t[i] = s[i]
  OBVIOUS
<1> HIDE DEF t
<1>2. p \in 1 .. Len(t) /\ \A i \in 1 .. Len(s) : i \in 1 .. Len(t) /\ i # p
  BY <1>1
<1>3. m \in [1 .. Len(s) -> 1 .. Len(t)] /\ \A i \in 1 .. Len(s) : m[i] = i
  BY <1>2
<1> HIDE DEF m
<1>4. \A j \in 1 .. Len(t) : j # p => j \in 1 .. Len(s)
  BY <1>1
<1> HIDE DEF p
<1>5. \A j \in 1 .. Len(t) : j # p => \E i \in 1 .. Len(s) : m[i] = j
  BY <1>3, <1>4
<1>6. /\ \A i \in 1 .. Len(s) : m[i] # p /\ t[m[i]] = s[i]
      /\ \A i, j \in 1 .. Len(s) : m[i] = m[j] => i = j
  BY <1>1, <1>2, <1>3
<1>7. Inserted(x, s, t, p, m)
  BY <1>1, <1>2, <1>3, <1>5, <1>6 DEF Inserted
<1>8. /\ AllGood(t) <=> Good(x) /\ AllGood(s)
      /\ Ids(t) = ToSet(x.ids) \cup Ids(s)
      /\ Apart(t) <=> /\ IsInjective(x.ids) /\ Apart(s)
                      /\ ToSet(x.ids) \cap Ids(s) = {}
      /\ Cardinality(Batches(s)) \in Nat
      /\ Cardinality(Batches(t)) = Cardinality(Batches(s)) + (IF Batch(x) THEN 1 ELSE 0)
  BY <1>1, <1>7, OneMoreItem
<1> QED
  BY <1>8 DEF t

\* The same writes are to be called back by both.
SameWork(s, t) ==
  /\ AllGood(s) <=> AllGood(t)
  /\ Ids(s) = Ids(t)
  /\ Apart(s) <=> Apart(t)
  /\ Cardinality(Batches(s)) = Cardinality(Batches(t))

\* Items with nothing to run.
Plain(x) == x \in Items /\ x.ids = <<>> /\ x.k \notin Owed

\* They change nothing.
LEMMA PlainWork ==
  ASSUME NEW s \in Seq(Items), NEW x, Plain(x)
  PROVE  SameWork(Push(x, s), s) /\ SameWork(Append(s, x), s)
<1>1. /\ x \in Items /\ x.ids = <<>> /\ x.k \notin Owed /\ Good(x)
      /\ ToSet(<<>>) = {} /\ IsInjective(<<>>)
  BY EmptySequence DEF Plain, Good
<1>2. ~Batch(x)
  BY <1>1 DEF Batch
<1>3. SameWork(Push(x, s), s)
  <2> DEFINE t == Push(x, s)
  <2>1. /\ AllGood(t) <=> Good(x) /\ AllGood(s)
        /\ Ids(t) = ToSet(x.ids) \cup Ids(s)
        /\ Apart(t) <=> /\ IsInjective(x.ids) /\ Apart(s)
                        /\ ToSet(x.ids) \cap Ids(s) = {}
        /\ Cardinality(Batches(s)) \in Nat
        /\ Cardinality(Batches(t)) = Cardinality(Batches(s)) + (IF Batch(x) THEN 1 ELSE 0)
    BY <1>1, PushWork
  <2> HIDE DEF t
  <2>2. SameWork(t, s)
    BY <1>1, <1>2, <2>1 DEF SameWork
  <2> QED
    BY <2>2 DEF t
<1>4. SameWork(Append(s, x), s)
  <2> DEFINE t == Append(s, x)
  <2>1. /\ AllGood(t) <=> Good(x) /\ AllGood(s)
        /\ Ids(t) = ToSet(x.ids) \cup Ids(s)
        /\ Apart(t) <=> /\ IsInjective(x.ids) /\ Apart(s)
                        /\ ToSet(x.ids) \cap Ids(s) = {}
        /\ Cardinality(Batches(s)) \in Nat
        /\ Cardinality(Batches(t)) = Cardinality(Batches(s)) + (IF Batch(x) THEN 1 ELSE 0)
    BY <1>1, AppendWork
  <2> HIDE DEF t
  <2>2. SameWork(t, s)
    BY <1>1, <1>2, <2>1 DEF SameWork
  <2> QED
    BY <2>2 DEF t
<1> QED
  BY <1>3, <1>4

-----------------------------------------------------------------------------
(* Where the writes handed over are, and the count of their callbacks *)

\* The parts are disjoint, and S is what they make up.
Covers(A, B, C, D, S) ==
  /\ A \cap B = {} /\ A \cap C = {} /\ A \cap D = {}
  /\ B \cap C = {} /\ B \cap D = {} /\ C \cap D = {}
  /\ S = A \cup B \cup C \cup D

\* Of the stack, the ticks, acked, writecb, sunk, the number of writes accepted and
\* pendingcb.
LedgerOf(td, tk, ak, cb, sk, n, p) ==
  /\ AllGood(td) /\ AllGood(tk) /\ Apart(td) /\ Apart(tk)
  /\ IsInjective(ak) /\ IsInjective(cb)
  /\ Covers(Ids(td), Ids(tk), ToSet(ak), ToSet(cb), ToSet(sk))
  /\ p = n - Len(ak) + Cardinality(Batches(td)) + Cardinality(Batches(tk))
           + (IF Len(cb) > 1 THEN 1 ELSE 0)

\* The writes stay where they are.
LEMMA LedgerSame ==
  ASSUME NEW td, NEW tk, NEW ak, NEW cb, NEW sk, NEW n, NEW p, NEW td2, NEW tk2,
         LedgerOf(td, tk, ak, cb, sk, n, p), SameWork(td, td2), SameWork(tk, tk2)
  PROVE  LedgerOf(td2, tk2, ak, cb, sk, n, p)
<1> QED
  BY DEF LedgerOf, SameWork

\* A write is accepted, and its callback owed.
LEMMA LedgerAccept ==
  ASSUME NEW td, NEW tk, NEW ak, NEW cb, NEW sk, NEW n \in Nat, NEW p,
         LedgerOf(td, tk, ak, cb, sk, n, p), ak \in Seq(Nat),
         Cardinality(Batches(td)) \in Nat, Cardinality(Batches(tk)) \in Nat
  PROVE  LedgerOf(td, tk, ak, cb, sk, n + 1, p + 1)
<1>1. Len(ak) \in Nat
  OBVIOUS
<1>2. \A a, b, c, d, e \in Nat : a + 1 - b + c + d + e = (a - b + c + d + e) + 1
  OBVIOUS
<1> QED
  BY <1>1, <1>2 DEF LedgerOf

\* The write in progress is over, and an item on the stack or in the queue is to
\* run its callbacks.
LEMMA LedgerSettle ==
  ASSUME NEW td \in Seq(Items), NEW tk \in Seq(Items), NEW ak, NEW cb \in Seq(Nat), NEW sk,
         NEW n, NEW p, LedgerOf(td, tk, ak, cb, sk, n, p),
         NEW x \in Items, x.k \in Owed, x.ids = cb, cb # <<>>,
         n - Len(ak) \in Int
  PROVE  /\ LedgerOf(Push(x, td), tk, ak, <<>>, sk, n, p)
         /\ LedgerOf(td, Append(tk, x), ak, <<>>, sk, n, p)
<1> DEFINE d == IF Len(cb) > 1 THEN 1 ELSE 0
<1>1. /\ AllGood(td) /\ AllGood(tk) /\ Apart(td) /\ Apart(tk)
      /\ IsInjective(ak) /\ IsInjective(cb)
      /\ Covers(Ids(td), Ids(tk), ToSet(ak), ToSet(cb), ToSet(sk))
      /\ p = n - Len(ak) + Cardinality(Batches(td)) + Cardinality(Batches(tk))
               + d
  BY DEF LedgerOf
<1>2. Good(x) /\ (Batch(x) <=> Len(cb) > 1)
  BY DEF Good, Batch
<1>0. Cardinality(Batches(td)) \in Nat /\ Cardinality(Batches(tk)) \in Nat /\ d \in Nat
  BY PushWork
<1>3. ToSet(<<>>) = {} /\ IsInjective(<<>>) /\ ~(Len(<<>>) > 1)
  BY EmptySequence
<1>4. LedgerOf(Push(x, td), tk, ak, <<>>, sk, n, p)
  <2> DEFINE t == Push(x, td)
  <2>1. /\ AllGood(t) <=> Good(x) /\ AllGood(td)
        /\ Ids(t) = ToSet(cb) \cup Ids(td)
        /\ Apart(t) <=> IsInjective(cb) /\ Apart(td) /\ ToSet(cb) \cap Ids(td) = {}
        /\ Cardinality(Batches(t)) = Cardinality(Batches(td)) + d
    BY <1>2, PushWork
  <2> HIDE DEF t, d
  <2>2. Covers(Ids(t), Ids(tk), ToSet(ak), {}, ToSet(sk)) /\ ToSet(cb) \cap Ids(td) = {}
    BY <1>1, <2>1 DEF Covers
  <2>3. p = n - Len(ak) + Cardinality(Batches(t)) + Cardinality(Batches(tk)) + 0
    BY <1>0, <1>1, <2>1
  <2>4. LedgerOf(t, tk, ak, <<>>, sk, n, p)
    BY <1>1, <1>2, <1>3, <2>1, <2>2, <2>3 DEF LedgerOf
  <2> QED
    BY <2>4 DEF t
<1>5. LedgerOf(td, Append(tk, x), ak, <<>>, sk, n, p)
  <2> DEFINE t == Append(tk, x)
  <2>1. /\ AllGood(t) <=> Good(x) /\ AllGood(tk)
        /\ Ids(t) = ToSet(cb) \cup Ids(tk)
        /\ Apart(t) <=> IsInjective(cb) /\ Apart(tk) /\ ToSet(cb) \cap Ids(tk) = {}
        /\ Cardinality(Batches(t)) = Cardinality(Batches(tk)) + d
    BY <1>2, AppendWork
  <2> HIDE DEF t, d
  <2>2. Covers(Ids(td), Ids(t), ToSet(ak), {}, ToSet(sk)) /\ ToSet(cb) \cap Ids(tk) = {}
    BY <1>1, <2>1 DEF Covers
  <2>3. p = n - Len(ak) + Cardinality(Batches(td)) + Cardinality(Batches(t)) + 0
    BY <1>0, <1>1, <2>1
  <2>4. LedgerOf(td, t, ak, <<>>, sk, n, p)
    BY <1>1, <1>2, <1>3, <2>1, <2>2, <2>3 DEF LedgerOf
  <2> QED
    BY <2>4 DEF t
<1> QED
  BY <1>4, <1>5

\* Writes are handed over; a batch counts once more.
LEMMA LedgerStart ==
  ASSUME NEW td, NEW tk, NEW ak, NEW sk \in Seq(Nat), NEW n, NEW p,
         LedgerOf(td, tk, ak, <<>>, sk, n, p),
         NEW ids \in Seq(Nat), IsInjective(sk \o ids),
         n - Len(ak) + Cardinality(Batches(td)) + Cardinality(Batches(tk)) \in Int
  PROVE  LedgerOf(td, tk, ak, ids, sk \o ids, n, p + (IF Len(ids) > 1 THEN 1 ELSE 0))
<1>1. ToSet(<<>>) = {} /\ ~(Len(<<>>) > 1)
  BY EmptySequence
<1>2. ToSet(sk \o ids) = ToSet(sk) \cup ToSet(ids)
  BY ConcatElements
<1>3. IsInjective(ids) /\ ToSet(ids) \cap ToSet(sk) = {}
  <2> DEFINE c == sk \o ids
  <2>1. /\ c \in Seq(Nat) /\ Len(c) = Len(sk) + Len(ids) /\ Len(sk) \in Nat /\ Len(ids) \in Nat
        /\ \A i \in 1 .. Len(sk) : c[i] = sk[i]
        /\ \A i \in 1 .. Len(ids) : c[Len(sk) + i] = ids[i]
    OBVIOUS
  <2>2. IsInjective(c)
    OBVIOUS
  <2> HIDE DEF c
  <2>3. \A i, j \in 1 .. Len(c) : c[i] = c[j] => i = j
    BY <2>1, <2>2, InjectivePlaces
  <2>4. ASSUME NEW i \in 1 .. Len(ids), NEW j \in 1 .. Len(ids), ids[i] = ids[j] PROVE i = j
    <3>1. Len(sk) + i \in 1 .. Len(c) /\ Len(sk) + j \in 1 .. Len(c)
      BY <2>1
    <3>2. Len(sk) + i = Len(sk) + j
      BY <2>1, <2>3, <2>4, <3>1
    <3> QED
      BY <2>1, <3>2
  <2>5. ASSUME NEW i \in 1 .. Len(ids), NEW j \in 1 .. Len(sk) PROVE ids[i] # sk[j]
    <3>1. Len(sk) + i \in 1 .. Len(c) /\ j \in 1 .. Len(c) /\ Len(sk) + i # j
      BY <2>1, SMTT(60)
    <3> QED
      BY <2>1, <2>3, <3>1
  <2>6. IsInjective(ids)
    BY <2>4, InjectivePlaces
  <2>7. /\ \A y : y \in ToSet(ids) <=> \E i \in 1 .. Len(ids) : ids[i] = y
        /\ \A y : y \in ToSet(sk) <=> \E i \in 1 .. Len(sk) : sk[i] = y
    BY ToSetPlaces
  <2> QED
    BY <2>5, <2>6, <2>7
<1>4. Covers(Ids(td), Ids(tk), ToSet(ak), ToSet(ids), ToSet(sk \o ids))
  <2>1. Covers(Ids(td), Ids(tk), ToSet(ak), {}, ToSet(sk))
    BY <1>1 DEF LedgerOf
  <2> QED
    BY <1>2, <1>3, <2>1 DEF Covers
<1>5. p = n - Len(ak) + Cardinality(Batches(td)) + Cardinality(Batches(tk))
  <2>1. p = n - Len(ak) + Cardinality(Batches(td)) + Cardinality(Batches(tk)) + 0
    BY <1>1 DEF LedgerOf
  <2> QED
    BY <2>1
<1> QED
  BY <1>3, <1>4, <1>5 DEF LedgerOf

\* The item on top of the stack runs later, or as another one.
LEMMA LedgerMove ==
  ASSUME NEW s \in Seq(Items), NEW tk \in Seq(Items), NEW ak, NEW cb, NEW sk,
         NEW n, NEW p, NEW x \in Items, LedgerOf(Push(x, s), tk, ak, cb, sk, n, p),
         NEW y \in Items, y.ids = x.ids, x.k \in Owed, y.k \in Owed,
         n - Len(ak) \in Int
  PROVE  /\ LedgerOf(s, Append(tk, y), ak, cb, sk, n, p)
         /\ LedgerOf(Push(y, s), tk, ak, cb, sk, n, p)
<1> DEFINE t == Push(x, s)
           d == IF Batch(x) THEN 1 ELSE 0
<1>1. /\ AllGood(t) <=> Good(x) /\ AllGood(s)
      /\ Ids(t) = ToSet(x.ids) \cup Ids(s)
      /\ Apart(t) <=> IsInjective(x.ids) /\ Apart(s) /\ ToSet(x.ids) \cap Ids(s) = {}
      /\ Cardinality(Batches(t)) = Cardinality(Batches(s)) + d
      /\ Cardinality(Batches(s)) \in Nat /\ Cardinality(Batches(tk)) \in Nat
  BY PushWork
<1>2. /\ AllGood(t) /\ AllGood(tk) /\ Apart(t) /\ Apart(tk)
      /\ IsInjective(ak) /\ IsInjective(cb)
      /\ Covers(Ids(t), Ids(tk), ToSet(ak), ToSet(cb), ToSet(sk))
      /\ p = n - Len(ak) + Cardinality(Batches(t)) + Cardinality(Batches(tk))
               + (IF Len(cb) > 1 THEN 1 ELSE 0)
  BY DEF LedgerOf
<1> HIDE DEF t
<1>3. Good(y) /\ (Batch(y) <=> Batch(x)) /\ d \in Nat
  BY <1>1, <1>2 DEF Good, Batch
<1>4. LedgerOf(s, Append(tk, y), ak, cb, sk, n, p)
  <2> DEFINE q == Append(tk, y)
  <2>1. /\ AllGood(q) <=> Good(y) /\ AllGood(tk)
        /\ Ids(q) = ToSet(x.ids) \cup Ids(tk)
        /\ Apart(q) <=> IsInjective(x.ids) /\ Apart(tk) /\ ToSet(x.ids) \cap Ids(tk) = {}
        /\ Cardinality(Batches(q)) = Cardinality(Batches(tk)) + d
    BY <1>3, AppendWork
  <2> HIDE DEF q, d
  <2>2. Covers(Ids(s), Ids(q), ToSet(ak), ToSet(cb), ToSet(sk)) /\ ToSet(x.ids) \cap Ids(tk) = {}
    BY <1>1, <1>2, <2>1 DEF Covers
  <2>3. p = n - Len(ak) + Cardinality(Batches(s)) + Cardinality(Batches(q))
              + (IF Len(cb) > 1 THEN 1 ELSE 0)
    BY <1>1, <1>2, <1>3, <2>1
  <2>4. LedgerOf(s, q, ak, cb, sk, n, p)
    BY <1>1, <1>2, <1>3, <2>1, <2>2, <2>3 DEF LedgerOf
  <2> QED
    BY <2>4 DEF q
<1>5. LedgerOf(Push(y, s), tk, ak, cb, sk, n, p)
  <2> DEFINE q == Push(y, s)
  <2>1. /\ AllGood(q) <=> Good(y) /\ AllGood(s)
        /\ Ids(q) = ToSet(x.ids) \cup Ids(s)
        /\ Apart(q) <=> IsInjective(x.ids) /\ Apart(s) /\ ToSet(x.ids) \cap Ids(s) = {}
        /\ Cardinality(Batches(q)) = Cardinality(Batches(s)) + d
    BY <1>3, PushWork
  <2> HIDE DEF q, d
  <2>2. LedgerOf(q, tk, ak, cb, sk, n, p)
    BY <1>1, <1>2, <1>3, <2>1 DEF LedgerOf
  <2> QED
    BY <2>2 DEF q
<1> QED
  BY <1>4, <1>5

\* A tick runs.
LEMMA LedgerTick ==
  ASSUME NEW x \in Items, NEW q \in Seq(Items), NEW ak, NEW cb, NEW sk, NEW n, NEW p,
         LedgerOf(<<>>, Push(x, q), ak, cb, sk, n, p), n - Len(ak) \in Int
  PROVE  LedgerOf(Push(x, <<>>), q, ak, cb, sk, n, p)
<1> DEFINE t == Push(x, q)
           u == Push(x, <<>>)
           e == <<>>
           d == IF Batch(x) THEN 1 ELSE 0
<1>0. e \in Seq(Items) /\ AllGood(e) /\ Ids(e) = {} /\ Apart(e) /\ Cardinality(Batches(e)) = 0
  BY NoItems
<1>1. /\ AllGood(t) <=> Good(x) /\ AllGood(q)
      /\ Ids(t) = ToSet(x.ids) \cup Ids(q)
      /\ Apart(t) <=> IsInjective(x.ids) /\ Apart(q) /\ ToSet(x.ids) \cap Ids(q) = {}
      /\ Cardinality(Batches(t)) = Cardinality(Batches(q)) + d
      /\ Cardinality(Batches(q)) \in Nat
  BY PushWork
<1>2. /\ AllGood(u) <=> Good(x) /\ AllGood(e)
      /\ Ids(u) = ToSet(x.ids) \cup Ids(e)
      /\ Apart(u) <=> IsInjective(x.ids) /\ Apart(e) /\ ToSet(x.ids) \cap Ids(e) = {}
      /\ Cardinality(Batches(u)) = Cardinality(Batches(e)) + d
  BY <1>0, PushWork
<1>3. /\ AllGood(t) /\ Apart(t) /\ IsInjective(ak) /\ IsInjective(cb)
      /\ Covers(Ids(e), Ids(t), ToSet(ak), ToSet(cb), ToSet(sk))
      /\ p = n - Len(ak) + Cardinality(Batches(e)) + Cardinality(Batches(t))
               + (IF Len(cb) > 1 THEN 1 ELSE 0)
  BY DEF LedgerOf
<1>4. d \in Nat
  OBVIOUS
<1> HIDE DEF t, u, d, e
<1>5. Covers(Ids(u), Ids(q), ToSet(ak), ToSet(cb), ToSet(sk))
  BY <1>0, <1>1, <1>2, <1>3 DEF Covers
<1>6. p = n - Len(ak) + Cardinality(Batches(u)) + Cardinality(Batches(q))
            + (IF Len(cb) > 1 THEN 1 ELSE 0)
  BY <1>0, <1>1, <1>2, <1>3, <1>4
<1>7. LedgerOf(u, q, ak, cb, sk, n, p)
  BY <1>0, <1>1, <1>2, <1>3, <1>5, <1>6 DEF LedgerOf
<1> QED
  BY <1>7 DEF u

\* The callback of one write runs.
LEMMA LedgerAckOne ==
  ASSUME NEW s \in Seq(Items), NEW tk \in Seq(Items), NEW ak \in Seq(Nat), NEW cb, NEW sk,
         NEW n \in Nat, NEW p, NEW x \in Items, LedgerOf(Push(x, s), tk, ak, cb, sk, n, p),
         x.k \in Owed, x.ids \in Seq(Nat), Len(x.ids) = 1
  PROVE  LedgerOf(s, tk, ak \o x.ids, cb, sk, n, p - 1)
<1> DEFINE t == Push(x, s)
           ids == x.ids
           a2 == ak \o ids
           c == IF Len(cb) > 1 THEN 1 ELSE 0
<1>1. /\ AllGood(t) <=> Good(x) /\ AllGood(s)
      /\ Ids(t) = ToSet(ids) \cup Ids(s)
      /\ Apart(t) <=> IsInjective(ids) /\ Apart(s) /\ ToSet(ids) \cap Ids(s) = {}
      /\ Cardinality(Batches(t)) = Cardinality(Batches(s)) + (IF Batch(x) THEN 1 ELSE 0)
      /\ Cardinality(Batches(s)) \in Nat /\ Cardinality(Batches(tk)) \in Nat
  BY PushWork
<1>2. /\ AllGood(t) /\ AllGood(tk) /\ Apart(t) /\ Apart(tk)
      /\ IsInjective(ak) /\ IsInjective(cb)
      /\ Covers(Ids(t), Ids(tk), ToSet(ak), ToSet(cb), ToSet(sk))
      /\ p = n - Len(ak) + Cardinality(Batches(t)) + Cardinality(Batches(tk)) + c
  BY DEF LedgerOf
<1>3. ~Batch(x) /\ c \in Nat
  BY DEF Batch
<1> HIDE DEF t, ids, c
<1>4. ids \in Seq(Nat) /\ Len(ids) = 1
  BY DEF ids
<1>5. Len(a2) = Len(ak) + 1 /\ Len(ak) \in Nat
  <2>1. Len(a2) = Len(ak) + Len(ids)
    BY <1>4, ConcatProperties
  <2> QED
    BY <1>4, <2>1, LenProperties
<1>6. ToSet(a2) = ToSet(ak) \cup ToSet(ids)
  BY <1>4, ConcatElements
<1>7. IsInjective(a2)
  <2>1. ToSet(ak) \cap ToSet(ids) = {} /\ IsInjective(ids)
    BY <1>1, <1>2 DEF Covers
  <2> QED
    BY <1>2, <1>4, <2>1, InjectiveConcat
<1> HIDE DEF a2
<1>8. Covers(Ids(s), Ids(tk), ToSet(a2), ToSet(cb), ToSet(sk))
  BY <1>1, <1>2, <1>6 DEF Covers
<1>9. p - 1 = n - Len(a2) + Cardinality(Batches(s)) + Cardinality(Batches(tk)) + c
  BY <1>1, <1>2, <1>3, <1>5
<1>10. LedgerOf(s, tk, a2, cb, sk, n, p - 1)
  BY <1>1, <1>2, <1>7, <1>8, <1>9 DEF LedgerOf, c
<1> QED
  BY <1>10 DEF a2, ids

\* The callback of a batch runs, which is to run those of its writes.
LEMMA LedgerAckBatch ==
  ASSUME NEW s \in Seq(Items), NEW tk \in Seq(Items), NEW ak \in Seq(Nat), NEW cb, NEW sk,
         NEW n \in Nat, NEW p, NEW x \in Items, LedgerOf(Push(x, s), tk, ak, cb, sk, n, p),
         x.k \in Owed, x.ids \in Seq(Nat), Len(x.ids) # 1,
         NEW y \in Items, y.k = "acks", y.ids = x.ids
  PROVE  LedgerOf(Push(y, s), tk, ak, cb, sk, n, p - 1)
<1> DEFINE t == Push(x, s)
           u == Push(y, s)
           c == IF Len(cb) > 1 THEN 1 ELSE 0
<1>1. /\ AllGood(t) <=> Good(x) /\ AllGood(s)
      /\ Ids(t) = ToSet(x.ids) \cup Ids(s)
      /\ Apart(t) <=> IsInjective(x.ids) /\ Apart(s) /\ ToSet(x.ids) \cap Ids(s) = {}
      /\ Cardinality(Batches(t)) = Cardinality(Batches(s)) + (IF Batch(x) THEN 1 ELSE 0)
      /\ Cardinality(Batches(s)) \in Nat /\ Cardinality(Batches(tk)) \in Nat
  BY PushWork
<1>2. /\ AllGood(u) <=> Good(y) /\ AllGood(s)
      /\ Ids(u) = ToSet(x.ids) \cup Ids(s)
      /\ Apart(u) <=> IsInjective(x.ids) /\ Apart(s) /\ ToSet(x.ids) \cap Ids(s) = {}
      /\ Cardinality(Batches(u)) = Cardinality(Batches(s)) + (IF Batch(y) THEN 1 ELSE 0)
  BY PushWork
<1>3. /\ AllGood(t) /\ AllGood(tk) /\ Apart(t) /\ Apart(tk)
      /\ IsInjective(ak) /\ IsInjective(cb)
      /\ Covers(Ids(t), Ids(tk), ToSet(ak), ToSet(cb), ToSet(sk))
      /\ p = n - Len(ak) + Cardinality(Batches(t)) + Cardinality(Batches(tk)) + c
  BY DEF LedgerOf
<1>4. /\ Len(ak) \in Nat /\ c \in Nat
      /\ Len(x.ids) > 1 \/ x.ids = <<>>
  <2>1. \A ids \in Seq(Nat) : Len(ids) \in Nat /\ (Len(ids) = 0 => ids = <<>>)
    OBVIOUS
  <2>2. c \in Nat
    OBVIOUS
  <2> HIDE DEF c
  <2>3. Len(x.ids) \in Nat /\ (Len(x.ids) = 0 => x.ids = <<>>) /\ Len(ak) \in Nat
    BY <2>1
  <2>4. \A l \in Nat : l # 0 /\ l # 1 => l > 1
    OBVIOUS
  <2>5. Len(x.ids) = 0 \/ Len(x.ids) > 1
    BY <2>3, <2>4
  <2> QED
    BY <2>2, <2>3, <2>5
<1> HIDE DEF t, u, c
<1>5. Good(y) /\ ~Batch(y) /\ Batch(x)
  BY <1>1, <1>3, <1>4 DEF Good, Batch, Owed
<1>6. p - 1 = n - Len(ak) + Cardinality(Batches(u)) + Cardinality(Batches(tk)) + c
  BY <1>1, <1>2, <1>3, <1>4, <1>5
<1>7. LedgerOf(u, tk, ak, cb, sk, n, p - 1)
  BY <1>1, <1>2, <1>3, <1>5, <1>6 DEF LedgerOf, c
<1> QED
  BY <1>7 DEF u

\* The callback of the next write of a batch runs.
LEMMA LedgerAckNext ==
  ASSUME NEW s \in Seq(Items), NEW tk \in Seq(Items), NEW ak \in Seq(Nat), NEW cb, NEW sk,
         NEW n \in Nat, NEW p, NEW x \in Items, LedgerOf(Push(x, s), tk, ak, cb, sk, n, p),
         x.k = "acks", x.ids \in Seq(Nat), x.ids # <<>>,
         NEW y \in Items, y.k = "acks", y.ids = Tail(x.ids)
  PROVE  LedgerOf(Push(y, s), tk, Append(ak, Head(x.ids)), cb, sk, n, p - 1)
<1> DEFINE t == Push(x, s)
           u == Push(y, s)
           ids == x.ids
           c == IF Len(cb) > 1 THEN 1 ELSE 0
<1>1. /\ AllGood(t) <=> Good(x) /\ AllGood(s)
      /\ Ids(t) = ToSet(ids) \cup Ids(s)
      /\ Apart(t) <=> IsInjective(ids) /\ Apart(s) /\ ToSet(ids) \cap Ids(s) = {}
      /\ Cardinality(Batches(t)) = Cardinality(Batches(s)) + (IF Batch(x) THEN 1 ELSE 0)
      /\ Cardinality(Batches(s)) \in Nat /\ Cardinality(Batches(tk)) \in Nat
  BY PushWork
<1>2. /\ AllGood(u) <=> Good(y) /\ AllGood(s)
      /\ Ids(u) = ToSet(y.ids) \cup Ids(s)
      /\ Apart(u) <=> IsInjective(y.ids) /\ Apart(s) /\ ToSet(y.ids) \cap Ids(s) = {}
      /\ Cardinality(Batches(u)) = Cardinality(Batches(s)) + (IF Batch(y) THEN 1 ELSE 0)
  BY PushWork
<1>3. /\ AllGood(t) /\ AllGood(tk) /\ Apart(t) /\ Apart(tk)
      /\ IsInjective(ak) /\ IsInjective(cb)
      /\ Covers(Ids(t), Ids(tk), ToSet(ak), ToSet(cb), ToSet(sk))
      /\ p = n - Len(ak) + Cardinality(Batches(t)) + Cardinality(Batches(tk)) + c
  BY DEF LedgerOf
<1>4. Good(y) /\ ~Batch(y) /\ ~Batch(x)
  BY DEF Good, Batch, Owed
<1> HIDE DEF t, u, c, ids
<1> DEFINE h == Head(ids)
           a2 == Append(ak, h)
<1>5. ids \in Seq(Nat) /\ ids # <<>> /\ y.ids = Tail(ids)
  BY DEF ids
<1>6. /\ h \in Nat /\ ToSet(ids) = {h} \cup ToSet(y.ids)
      /\ IsInjective(ids) => IsInjective(y.ids) /\ h \notin ToSet(y.ids)
  <2>1. /\ h \in Nat /\ ToSet(ids) = {h} \cup ToSet(Tail(ids))
        /\ IsInjective(ids) => IsInjective(Tail(ids)) /\ h \notin ToSet(Tail(ids))
    BY <1>5, TailElements
  <2> QED
    BY <1>5, <2>1
<1> HIDE DEF h
<1>7. h \notin ToSet(ak)
  BY <1>1, <1>3, <1>6 DEF Covers
<1>8. /\ ToSet(a2) = ToSet(ak) \cup {h} /\ IsInjective(a2)
      /\ Len(a2) = Len(ak) + 1 /\ Len(ak) \in Nat
  BY <1>3, <1>6, <1>7, AppendElement
<1> HIDE DEF a2
<1>9. Covers(Ids(u), Ids(tk), ToSet(a2), ToSet(cb), ToSet(sk)) /\ ToSet(y.ids) \cap Ids(s) = {}
  BY <1>1, <1>2, <1>3, <1>6, <1>8, SMTT(60) DEF Covers
<1>10. p - 1 = n - Len(a2) + Cardinality(Batches(u)) + Cardinality(Batches(tk)) + c
  <2>1. c \in Nat
    BY DEF c
  <2> QED
    BY <1>1, <1>2, <1>3, <1>4, <1>8, <2>1
<1>11. LedgerOf(u, tk, a2, cb, sk, n, p - 1)
  BY <1>1, <1>2, <1>3, <1>4, <1>6, <1>8, <1>9, <1>10 DEF LedgerOf, c
<1> QED
  BY <1>11 DEF u, a2, h, ids

-----------------------------------------------------------------------------
(* The invariant of the counters *)

\* A clearBuffer that has handed over nothing yet finds no write in progress.
\* (first: the cursor is at the first entry.)
Starting(td, wr, first) ==
  /\ Has(td, "clear") => ~wr
  /\ Has(td, "loop") /\ first => Top(td) = "loop" /\ ~wr

\* Of writing, writecb, writelen, length, the entries not written and size; lost:
\* entries of the buffer may have been dropped.
SumsOf(wr, cb, wl, ln, un, sz, lost) ==
  /\ wr <=> cb # <<>>
  /\ wl \in Nat /\ (~wr => wl = 0)
  /\ Sized(sz, cb)
  /\ ln - wl - Total(sz, un) \in Nat
  /\ ~lost => wl = Total(sz, cb) /\ ln = wl + Total(sz, un)

Books ==
  /\ SumsOf(writing, writecb, writelen, length, Unwritten, size, failed /\ writev)
  /\ Starting(todo, writing, cursor = 0)
  /\ LedgerOf(todo, ticks, acked, writecb, sunk, Len(size), pendingcb)

\* The entries of the buffer that are not written have a length.
LEMMA UnwrittenSized ==
  ASSUME NEW sk, NEW bf, NEW cu, NEW sz \in Seq(Nat), NEW fl,
         Delivery(sk, bf, cu, Len(sz), fl)
  PROVE  /\ Sized(sz, SubSeq(bf, cu + 1, Len(bf)))
         /\ cu # Len(bf) => /\ cu + 1 \in 1 .. Len(bf) /\ bf[cu + 1] \in 1 .. Len(sz)
                            /\ Sized(sz, SubSeq(bf, cu + 2, Len(bf)))
                            /\ SubSeq(bf, cu + 1, Len(bf))
                                 = <<bf[cu + 1]>> \o SubSeq(bf, cu + 2, Len(bf))
         /\ cu = Len(bf) => SubSeq(bf, cu + 1, Len(bf)) = <<>>
         /\ cu = 0 => SubSeq(bf, cu + 1, Len(bf)) = bf
<1>1. /\ cu \in Nat /\ cu <= Len(bf) /\ bf \in Seq(Nat)
      /\ \A i \in cu + 1 .. Len(bf) : bf[i] \in 1 .. Len(sz)
  BY DEF Delivery
<1> DEFINE R == 1 .. Len(sz)
<1> HIDE DEF R
<1>2. \A i \in cu + 1 .. Len(bf) : bf[i] \in R
  BY <1>1 DEF R
<1>3. ASSUME NEW a \in Nat, a >= cu + 1, a <= Len(bf) + 1
      PROVE  SubSeq(bf, a, Len(bf)) \in Seq(R)
  <2> DEFINE u == SubSeq(bf, a, Len(bf))
  <2>1. u \in Seq(Nat) /\ Len(u) = Len(bf) - a + 1 /\ Len(bf) \in Nat
        /\ \A i \in 1 .. Len(u) : u[i] = bf[a + i - 1]
    BY <1>1, <1>3
  <2> HIDE DEF u
  <2>2. \A i \in 1 .. Len(u) : a + i - 1 \in cu + 1 .. Len(bf)
    BY <1>1, <1>3, <2>1
  <2>3. \A i \in 1 .. Len(u) : u[i] \in R
    BY <1>2, <2>1, <2>2
  <2>4. u = [i \in 1 .. Len(u) |-> u[i]] /\ Len(u) \in Nat
    BY <2>1
  <2>5. u \in [1 .. Len(u) -> R]
    BY <2>3, <2>4
  <2>6. u \in Seq(R)
    BY <2>4, <2>5, SeqDef
  <2> QED
    BY <2>6 DEF u
<1>4. Sized(sz, SubSeq(bf, cu + 1, Len(bf)))
  <2>1. cu + 1 \in Nat /\ cu + 1 >= cu + 1 /\ cu + 1 <= Len(bf) + 1
    BY <1>1
  <2> QED
    BY <1>3, <2>1 DEF Sized, R
<1>5. ASSUME cu # Len(bf)
      PROVE  /\ cu + 1 \in 1 .. Len(bf) /\ bf[cu + 1] \in 1 .. Len(sz)
             /\ Sized(sz, SubSeq(bf, cu + 2, Len(bf)))
             /\ SubSeq(bf, cu + 1, Len(bf)) = <<bf[cu + 1]>> \o SubSeq(bf, cu + 2, Len(bf))
  <2>1. /\ cu + 1 \in 1 .. Len(bf) /\ cu + 1 \in cu + 1 .. Len(bf)
        /\ cu + 2 \in Nat /\ cu + 2 >= cu + 1 /\ cu + 2 <= Len(bf) + 1 /\ Len(bf) \in Nat
    BY <1>1, <1>5
  <2>2. Sized(sz, SubSeq(bf, cu + 2, Len(bf))) /\ SubSeq(bf, cu + 2, Len(bf)) \in Seq(Nat)
    <3>1. Sized(sz, SubSeq(bf, cu + 2, Len(bf)))
      BY <1>3, <2>1 DEF Sized, R
    <3> QED
      BY <3>1, SizedPlaces
  <2> DEFINE u == SubSeq(bf, cu + 1, Len(bf))
             v == SubSeq(bf, cu + 2, Len(bf))
             w == <<bf[cu + 1]>> \o v
  <2>3. /\ u \in Seq(Nat) /\ Len(u) = Len(bf) - cu
        /\ \A i \in 1 .. Len(u) : u[i] = bf[cu + i]
    BY <1>1, <2>1
  <2>4. /\ v \in Seq(Nat) /\ Len(v) = Len(bf) - cu - 1
        /\ \A i \in 1 .. Len(v) : v[i] = bf[cu + 1 + i]
    BY <1>1, <2>1
  <2>5. bf[cu + 1] \in Nat
    BY <1>1, <2>1
  <2> HIDE DEF u, v
  <2>6. /\ w \in Seq(Nat) /\ Len(w) = Len(v) + 1 /\ w[1] = bf[cu + 1]
        /\ \A i \in 1 .. Len(v) : w[i + 1] = v[i]
    BY <2>4, <2>5
  <2> HIDE DEF w
  <2>7. ASSUME NEW i \in 1 .. Len(u) PROVE u[i] = w[i]
    <3>1. CASE i = 1
      BY <2>3, <2>6, <3>1
    <3>2. CASE i # 1
      <4>1. i - 1 \in 1 .. Len(v) /\ (i - 1) + 1 = i /\ cu + 1 + (i - 1) = cu + i
        BY <1>1, <2>1, <2>3, <2>4, <3>2
      <4>2. w[i] = v[i - 1] /\ v[i - 1] = bf[cu + i] /\ u[i] = bf[cu + i]
        <5>1. w[(i - 1) + 1] = v[i - 1] /\ v[i - 1] = bf[cu + 1 + (i - 1)] /\ u[i] = bf[cu + i]
          BY <2>3, <2>4, <2>6, <4>1
        <5> QED
          BY <4>1, <5>1
      <4> QED
        BY <4>2
    <3> QED
      BY <3>1, <3>2
  <2>8. Len(u) = Len(w)
    BY <1>1, <2>1, <2>3, <2>4, <2>6
  <2>9. u = w
    BY <2>3, <2>6, <2>7, <2>8, SeqEqual
  <2> QED
    BY <1>1, <2>1, <2>2, <2>9 DEF u, v, w
<1>6. cu = Len(bf) => SubSeq(bf, cu + 1, Len(bf)) = <<>>
  BY <1>1
<1>7. cu = 0 => SubSeq(bf, cu + 1, Len(bf)) = bf
  <2>1. 0 + 1 = 1
    OBVIOUS
  <2>2. SubSeq(bf, 1, Len(bf)) = bf
    BY <1>1
  <2> QED
    BY <2>1, <2>2
<1> QED
  BY <1>4, <1>5, <1>6, <1>7

-----------------------------------------------------------------------------
(* Steps that leave the counters alone *)

\* What the counters are about, but for the stack and the ticks.
counters == <<length, writing, writecb, writelen, buffer, cursor, size, sunk, acked,
              pendingcb, failed, writev>>

\* The stack s has as much to run as the one there is, and no clearBuffer at its
\* start.
Even(s) ==
  /\ s \in Seq(Items) /\ SameWork(todo, s)
  /\ ~Has(s, "clear") /\ (cursor = 0 => ~Has(s, "loop"))

\* A stack with something else on top, and what is below it.
LEMMA EvenTop ==
  ASSUME IInv, Books, Top(todo) \notin {"clear", "loop"}
  PROVE  /\ Even(todo)
         /\ todo # <<>> /\ Top(todo) \notin Owed \cup {"acks"} => Even(Tail(todo))
         /\ Running("acks") /\ Head(todo).ids = <<>> => Even(Tail(todo))
<1>1. /\ todo \in Seq(Items) /\ ClearOnTop(todo)
      /\ Starting(todo, writing, cursor = 0) /\ AllGood(todo)
  BY DEF IInv, Types, Clearing, Books, LedgerOf
<1>2. ~Has(todo, "clear")
  <2>1. CASE todo = <<>>
    BY <1>1, <2>1, PopShape
  <2>2. CASE todo # <<>>
    <3>1. PICK x \in Items, s \in Seq(Items) : todo = Push(x, s) /\ Tail(todo) = s /\ Top(todo) = x.k
      BY <1>1, <2>2, PopShape
    <3>2. x.k # "clear" /\ ClearOnTop(Push(x, s))
      BY <1>1, <3>1
    <3> QED
      BY <3>1, <3>2, PushShape
  <2> QED
    BY <2>1, <2>2
<1>3. cursor = 0 => ~Has(todo, "loop")
  BY <1>1 DEF Starting
<1>4. Even(todo)
  BY <1>1, <1>2, <1>3 DEF Even, SameWork
<1>5. ASSUME todo # <<>>, Top(todo) \notin Owed,
             Top(todo) # "acks" \/ Head(todo).ids = <<>>
      PROVE  Even(Tail(todo))
  <2>0. PICK x \in Items, s \in Seq(Items) :
          todo = Push(x, s) /\ Tail(todo) = s /\ Top(todo) = x.k
    BY <1>1, <1>5, PopShape
  <2>1. todo = Push(x, s) /\ Tail(todo) = s /\ Top(todo) = x.k /\ Head(todo) = x
    BY <2>0, PushShape
  <2>2. Good(x)
    BY <1>1, <2>1, PushWork
  <2>3. Plain(x)
    BY <1>5, <2>1, <2>2 DEF Good, Plain
  <2>4. SameWork(Push(x, s), s)
    BY <2>3, PlainWork
  <2>5. \A k : Has(s, k) => Has(todo, k)
    BY <2>1, PushShape
  <2> QED
    BY <1>2, <1>3, <2>1, <2>4, <2>5 DEF Even
<1>6. Running("acks") => todo # <<>> /\ Top(todo) = "acks" /\ "acks" \notin Owed
  BY DEF Running, Top, Owed
<1> QED
  BY <1>4, <1>5, <1>6

\* The items without callbacks that actions push.
LEMMA PlainItems ==
  \A k \in Kinds : k \notin Owed => Plain(Item(k)) /\ Item(k).k = k
<1> QED
  BY NewItems DEF Plain, Item

\* Such an item is pushed.
LEMMA EvenPush ==
  ASSUME NEW s, Even(s), NEW x, Plain(x), x.k \notin {"clear", "loop"}
  PROVE  Even(Push(x, s))
<1>1. s \in Seq(Items) /\ x \in Items
  BY DEF Even, Plain
<1>2. /\ Push(x, s) \in Seq(Items) /\ SameWork(Push(x, s), s)
      /\ \A k : Has(Push(x, s), k) <=> x.k = k \/ Has(s, k)
  BY <1>1, PushShape, PlainWork
<1> QED
  BY <1>2 DEF Even, SameWork

\* Its kind is all that matters.
LEMMA EvenItem ==
  ASSUME NEW s, Even(s), NEW k \in Kinds, k \notin Owed \cup {"clear", "loop"}
  PROVE  Even(Push(Item(k), s))
<1> QED
  BY EvenPush, PlainItems

\* User code runs on such a stack.
LEMMA EvenCaller ==
  ASSUME IInv, Books, UserRuns
  PROVE  Even(Caller)
<1>1. Top(todo) \notin {"clear", "loop"}
  BY DEF UserRuns, Running, Top, Handlers
<1>2. Even(todo)
  BY <1>1, EvenTop
<1>3. CASE todo = <<>>
  <2>1. Even(Push(Item("user"), todo))
    BY <1>2, EvenItem DEF Kinds, Handlers, Owed
  <2>2. Push(Item("user"), todo) = Caller
    BY <1>3 DEF Push, Caller
  <2> QED
    BY <2>1, <2>2
<1> QED
  BY <1>2, <1>3 DEF Caller

\* The rest of end() waits on it.
LEMMA EvenThen ==
  ASSUME IInv, Books, UserRuns, NEW then \in Thens
  PROVE  Even(then \o Caller) /\ then \in Seq(Items) /\ Caller \in Seq(Items)
<1>1. Even(Caller) /\ Caller \in Seq(Items)
  BY EvenCaller DEF Even
<1> DEFINE a == Item("endUncork")
           b == Item("endWritable")
<1>2. Plain(a) /\ a.k = "endUncork" /\ Plain(b) /\ b.k = "endWritable"
  BY PlainItems DEF Kinds, Owed
<1>3. <<>> \o Caller = Caller /\ <<>> \in Seq(Items)
  BY <1>1
<1>4. ASSUME then = <<a, b>> PROVE Even(then \o Caller) /\ then \in Seq(Items)
  <2> HIDE DEF a, b
  <2>1. a \in Items /\ b \in Items
    BY <1>2 DEF Plain
  <2>2. <<a, b>> \o Caller = Push(a, Push(b, Caller))
    BY <1>1, <2>1, PushMany
  <2>3. Even(Push(a, Push(b, Caller)))
    <3>1. Even(Push(b, Caller))
      BY <1>1, <1>2, EvenPush
    <3> QED
      BY <1>2, <3>1, EvenPush
  <2>4. <<a, b>> \in Seq(Items)
    BY <2>1
  <2> QED
    BY <1>4, <2>2, <2>3, <2>4
<1> QED
  BY <1>1, <1>3, <1>4 DEF Thens

\* A step to such a stack that touches no counter.
LEMMA EvenStep ==
  ASSUME Books, UNCHANGED counters, Even(todo'), SameWork(ticks, ticks')
  PROVE  Books'
<1>1. Unwritten' = Unwritten
  BY DEF counters, Unwritten
<1>2. SumsOf(writing, writecb, writelen, length, Unwritten, size, failed /\ writev)'
  BY <1>1 DEF Books, counters
<1>3. Starting(todo, writing, cursor = 0)'
  BY DEF Even, Starting, counters
<1>4. LedgerOf(todo, ticks, acked, writecb, sunk, Len(size), pendingcb)'
  <2>1. LedgerOf(todo', ticks', acked, writecb, sunk, Len(size), pendingcb)
    BY LedgerSame DEF Books, Even
  <2> QED
    BY <2>1 DEF counters
<1> QED
  BY <1>2, <1>3, <1>4 DEF Books

\* One more tick with nothing to run, or none.
LEMMA EvenTicks ==
  ASSUME IInv
  PROVE  SameWork(ticks, ticks) /\ SameWork(ticks, Append(ticks, Item("user")))
<1>1. ticks \in Seq(Items)
  BY DEF IInv, Types
<1>2. Plain(Item("user"))
  BY PlainItems DEF Kinds, Handlers, Owed
<1>3. SameWork(Append(ticks, Item("user")), ticks)
  BY <1>1, <1>2, PlainWork
<1> QED
  BY <1>3 DEF SameWork

\* A handler returns, 'error' is emitted, a body returns.
LEMMA Books_Return ==
  ASSUME IInv, Books, Return \/ EmitError \/ BodyReturns PROVE Books'
<1> DEFINE k == Head(todo).k
<1>1. /\ todo # <<>> /\ Top(todo) = k
      /\ k \in Handlers \cup {"emitError", "body", "unsync"}
  BY DEF Return, EmitError, BodyReturns, Running, Top
<1> HIDE DEF k
<1>2. Even(Tail(todo))
  BY <1>1, EvenTop DEF Handlers, Owed
<1>3. Even(Push(Item("user"), Tail(todo)))
  BY <1>2, EvenItem DEF Kinds, Handlers, Owed
<1>4. todo' = Tail(todo) \/ todo' = Push(Item("user"), Tail(todo))
  BY DEF Return, EmitError, BodyReturns, Push
<1>5. UNCHANGED counters /\ ticks' = ticks
  BY DEF Return, EmitError, BodyReturns, counters, config, current, queue
<1> QED
  BY <1>2, <1>3, <1>4, <1>5, EvenStep, EvenTicks

\* A rejected write defers its callback.
LEMMA Books_Rejected ==
  ASSUME IInv, Books, Rejected PROVE Books'
<1>1. todo # <<>> /\ Top(todo) = "rejected"
  BY DEF Rejected, Running, Top
<1>2. Even(Tail(todo))
  BY <1>1, EvenTop DEF Owed
<1>3. UNCHANGED counters /\ ticks' = Append(ticks, Item("user")) /\ todo' = Tail(todo)
  BY DEF Rejected, counters, config, current, queue
<1> QED
  BY <1>2, <1>3, EvenStep, EvenTicks

\* A write is rejected.
LEMMA Books_Reject ==
  ASSUME IInv, Books, UserRuns, NEW then \in Thens, Reject(then) PROVE Books'
<1>1. Even(then \o Caller) /\ then \in Seq(Items) /\ Caller \in Seq(Items)
  BY EvenThen
<1> DEFINE s == then \o Caller
           a == Item("user")
           b == Item("rejected")
<1>2. /\ s \in Seq(Items) /\ Even(s)
      /\ Plain(a) /\ a.k = "user" /\ Plain(b) /\ b.k = "rejected"
  BY <1>1, PlainItems DEF Even, Kinds, Handlers, Owed
<1>3. Even(Push(a, Push(b, s)))
  <2> HIDE DEF a, b, s
  <2>1. Even(Push(b, s))
    BY <1>2, EvenPush
  <2> QED
    BY <1>2, <2>1, EvenPush
<1>4. todo' = Push(a, Push(b, s))
  <2>1. a \in Items /\ b \in Items
    BY <1>2 DEF Plain
  <2>2. todo' = (<<a, b>> \o then) \o Caller
    BY DEF Reject
  <2>3. <<a, b>> \in Seq(Items)
    <3> HIDE DEF a, b
    <3> QED
      BY <2>1
  <2> HIDE DEF a, b
  <2>4. todo' = <<a, b>> \o (then \o Caller)
    BY <1>1, <2>2, <2>3, ConcatAssociative
  <2>5. todo' = <<a, b>> \o s
    BY <2>4
  <2> HIDE DEF s
  <2> QED
    BY <1>2, <2>1, <2>5, PushMany
<1>5. UNCHANGED counters /\ ticks' = ticks
  BY DEF Reject, counters, config, current, queue
<1> HIDE DEF s, a, b
<1> QED
  BY <1>3, <1>4, <1>5, EvenStep, EvenTicks

\* A call that only changes corked, and end() without a chunk.
LEMMA Books_Cork ==
  ASSUME IInv, Books, Cork \/ PlainEnd PROVE Books'
<1>1. UserRuns /\ UNCHANGED counters /\ ticks' = ticks
  BY DEF Cork, PlainEnd, Call, counters, config, current, queue
<1>2. Cork => Even(todo')
  BY <1>1, EvenCaller DEF Cork
<1>3. PlainEnd => Even(todo')
  BY <1>1, EvenThen DEF PlainEnd, Thens
<1> QED
  BY <1>1, <1>2, <1>3, EvenStep, EvenTicks

\* The handlers of 'prefinish' and 'finish' may come on the stack.
LEMMA Books_FinishMaybe ==
  ASSUME IInv, Books, FinishMaybe PROVE Books'
<1> DEFINE s == Tail(todo)
           a == Item("onprefinish")
           b == Item("finish")
<1>1. todo # <<>> /\ Top(todo) = "finishMaybe"
  BY DEF FinishMaybe, Running, Top
<1>2. Even(s) /\ s \in Seq(Items)
  BY <1>1, EvenTop DEF Even, Owed
<1>3. Plain(a) /\ a.k = "onprefinish" /\ Plain(b) /\ b.k = "finish"
  BY PlainItems DEF Kinds, Handlers, Owed
<1>4. todo' \in {s, Push(a, s), Push(b, s), Push(a, Push(b, s))}
  <2>1. \/ todo' = (<<a>> \o <<b>>) \o s \/ todo' = (<<a>> \o <<>>) \o s
        \/ todo' = (<<>> \o <<b>>) \o s \/ todo' = (<<>> \o <<>>) \o s
    BY DEF FinishMaybe
  <2>2. a \in Items /\ b \in Items
    BY <1>3 DEF Plain
  <2> HIDE DEF a, b, s
  <2> QED
    BY <1>2, <2>1, <2>2, PushMany
<1> HIDE DEF a, b, s
<1>5. Even(Push(a, s)) /\ Even(Push(b, s)) /\ Even(Push(a, Push(b, s)))
  <2>1. Even(Push(a, s)) /\ Even(Push(b, s))
    BY <1>2, <1>3, EvenPush
  <2> QED
    BY <1>3, <2>1, EvenPush
<1>6. UNCHANGED counters /\ ticks' = ticks
  BY DEF FinishMaybe, counters, config, current, queue
<1>7. Even(todo')
  BY <1>2, <1>4, <1>5
<1> QED
  BY <1>6, <1>7, EvenStep, EvenTicks

\* 'finish' is emitted; end() advances.
LEMMA Books_Finish ==
  ASSUME IInv, Books, Finish \/ EndWritable \/ EndTail PROVE Books'
<1> DEFINE s == Tail(todo)
<1>1. todo # <<>> /\ Top(todo) \in {"finish", "endWritable", "endTail"}
  BY DEF Finish, EndWritable, EndTail, Running, Top
<1>2. Even(s) /\ s \in Seq(Items)
  BY <1>1, EvenTop DEF Even, Owed
<1>3. Even(Push(Item("onfinish"), s))
  BY <1>2, EvenItem DEF Kinds, Handlers, Owed
<1>4. Even(Push(Item("finishMaybe"), Push(Item("endTail"), s)))
  <2>1. Even(Push(Item("endTail"), s))
    BY <1>2, EvenItem DEF Kinds, Owed
  <2> QED
    BY <2>1, EvenItem DEF Kinds, Owed
<1>5. \/ todo' = s \/ todo' = Push(Item("onfinish"), s)
      \/ todo' = Push(Item("finishMaybe"), Push(Item("endTail"), s))
  <2>1. /\ Item("finishMaybe") \in Items /\ Item("endTail") \in Items
    BY NewKinds
  <2>2. <<Item("finishMaybe"), Item("endTail")>> \o s
          = Push(Item("finishMaybe"), Push(Item("endTail"), s))
    BY <1>2, <2>1, PushMany
  <2>3. Finish => todo' = Push(Item("onfinish"), s)
    BY DEF Finish, Push
  <2>4. EndTail => todo' = s
    BY DEF EndTail
  <2>5. EndWritable => todo' = s \/ todo' = <<Item("finishMaybe"), Item("endTail")>> \o s
    BY DEF EndWritable
  <2> QED
    BY <2>2, <2>3, <2>4, <2>5
<1> HIDE DEF s
<1>6. Even(todo')
  BY <1>2, <1>3, <1>4, <1>5
<1>7. /\ UNCHANGED counters
      /\ ticks' = ticks \/ ticks' = Append(ticks, Item("user"))
  <2>1. Finish => UNCHANGED counters /\ ticks' = ticks
    BY DEF Finish, counters, config, current, queue
  <2>2. EndWritable => UNCHANGED counters /\ ticks' = ticks
    BY DEF EndWritable, counters, config, current, queue
  <2>3. EndTail => UNCHANGED counters /\ (ticks' = ticks \/ ticks' = Append(ticks, Item("user")))
    BY DEF EndTail, counters, config, current, queue
  <2> QED
    BY <2>1, <2>2, <2>3
<1> QED
  BY <1>6, <1>7, EvenStep, EvenTicks

\* uncork() may start a clearBuffer, when no write is in progress.
LEMMA Books_UncorkFrom ==
  ASSUME IInv, Books, NEW n, NEW rest, Even(rest), UncorkFrom(n, rest) PROVE Books'
<1>1. UNCHANGED counters /\ ticks' = ticks
  BY DEF UncorkFrom, counters, config, current, queue
<1> DEFINE a == Item("clear")
           t == Push(a, rest)
<1>2. todo' = rest \/ (todo' = t /\ ~writing)
  BY DEF UncorkFrom, Push
<1>3. Plain(a) /\ a.k = "clear" /\ rest \in Seq(Items)
  BY PlainItems DEF Even, Kinds, Owed
<1> HIDE DEF a
<1>4. CASE todo' = rest
  BY <1>1, <1>4, EvenStep, EvenTicks
<1>5. CASE todo' = t /\ ~writing
  <2>1. SameWork(todo, t)
    <3>1. SameWork(t, rest)
      BY <1>3, PlainWork
    <3> QED
      BY <3>1 DEF Even, SameWork
  <2>2. \A k : Has(t, k) <=> a.k = k \/ Has(rest, k)
    BY <1>3, PushShape DEF Plain
  <2> HIDE DEF t
  <2>3. Unwritten' = Unwritten
    BY <1>1 DEF counters, Unwritten
  <2>4. SumsOf(writing, writecb, writelen, length, Unwritten, size, failed /\ writev)'
    BY <1>1, <2>3 DEF Books, counters
  <2>5. Starting(todo, writing, cursor = 0)'
    BY <1>1, <1>3, <1>5, <2>2 DEF Even, Starting, counters
  <2>6. LedgerOf(todo, ticks, acked, writecb, sunk, Len(size), pendingcb)'
    <3>1. LedgerOf(t, ticks, acked, writecb, sunk, Len(size), pendingcb)
      BY <2>1, EvenTicks, LedgerSame DEF Books
    <3> QED
      BY <1>1, <1>5, <3>1 DEF counters
  <2> QED
    BY <2>4, <2>5, <2>6 DEF Books
<1> QED
  BY <1>2, <1>4, <1>5

\* uncork(), called by the user or by end().
LEMMA Books_Uncork ==
  ASSUME IInv, Books, Uncork \/ EndUncork PROVE Books'
<1>1. ASSUME Uncork PROVE Books'
  BY <1>1, EvenCaller, Books_UncorkFrom DEF Uncork, Call
<1>2. ASSUME EndUncork PROVE Books'
  <2>1. todo # <<>> /\ Top(todo) = "endUncork"
    BY <1>2 DEF EndUncork, Running, Top
  <2>2. Even(Tail(todo))
    BY <2>1, EvenTop DEF Owed
  <2> QED
    BY <1>2, <2>2, Books_UncorkFrom DEF EndUncork
<1> QED
  BY <1>1, <1>2

-----------------------------------------------------------------------------
(* Steps that run callbacks *)

\* No clearBuffer at its start.
NoStart(s) == s \in Seq(Items) /\ ~Has(s, "clear") /\ (cursor = 0 => ~Has(s, "loop"))

\* The item on top, and the stack below it.
LEMMA TopParts ==
  ASSUME IInv, Books, todo # <<>>, Top(todo) \notin {"clear", "loop"}
  PROVE  \E x \in Items, s \in Seq(Items) :
           /\ todo = Push(x, s) /\ Tail(todo) = s /\ Head(todo) = x /\ Top(todo) = x.k
           /\ NoStart(s) /\ Good(x) /\ x.ids \in Seq(Nat)
<1>1. Even(todo) /\ todo \in Seq(Items) /\ AllGood(todo)
  BY EvenTop DEF Even, Books, LedgerOf
<1>2. PICK x \in Items, s \in Seq(Items) :
        todo = Push(x, s) /\ Tail(todo) = s /\ Top(todo) = x.k
  BY <1>1, PopShape
<1>3. Head(todo) = x
  BY <1>2, PushShape
<1>4. \A k : Has(s, k) => Has(todo, k)
  BY <1>2, PushShape
<1>5. NoStart(s)
  BY <1>1, <1>4 DEF NoStart, Even
<1>6. Good(x)
  BY <1>1, <1>2, PushWork
<1> QED
  BY <1>2, <1>3, <1>5, <1>6, NewItems

\* Anything else may be put there.
LEMMA NoStartPush ==
  ASSUME NEW s, NoStart(s), NEW x \in Items, x.k \notin {"clear", "loop"}
  PROVE  NoStart(Push(x, s))
<1> QED
  BY PushShape DEF NoStart

\* The kinds of the variables.
LEMMA BookTypes ==
  ASSUME IInv
  PROVE  /\ todo \in Seq(Items) /\ ticks \in Seq(Items) /\ acked \in Seq(Nat)
         /\ size \in Seq(Nat) /\ sunk \in Seq(Nat) /\ buffer \in Seq(Nat)
         /\ writecb \in Seq(Nat) /\ Len(size) \in Nat /\ Len(acked) \in Nat
         /\ Len(size) - Len(acked) \in Int /\ cursor \in Nat
         /\ Cardinality(Batches(todo)) \in Nat /\ Cardinality(Batches(ticks)) \in Nat
<1>1. /\ todo \in Seq(Items) /\ ticks \in Seq(Items) /\ acked \in Seq(Nat)
      /\ size \in Seq(Nat) /\ sunk \in Seq(Nat) /\ buffer \in Seq(Nat)
      /\ writecb \in Seq(Nat) /\ cursor \in Nat
  BY DEF IInv, Types, Delivery
<1>2. Len(size) \in Nat /\ Len(acked) \in Nat
  BY <1>1
<1>3. Len(size) - Len(acked) \in Int
  BY <1>2
<1>4. \A s \in Seq(Items) : Cardinality(Batches(s)) \in Nat
  <2>1. Item("user") \in Items
    BY NewKinds
  <2> QED
    BY <2>1, PushWork
<1> QED
  BY <1>1, <1>2, <1>3, <1>4

\* All but the callbacks stays.
moved == <<length, writing, writecb, writelen, buffer, cursor, size, failed, writev, sunk>>

\* A step that only moves callbacks.
LEMMA CallbackStep ==
  ASSUME Books, UNCHANGED moved, NoStart(todo'),
         LedgerOf(todo', ticks', acked', writecb, sunk, Len(size), pendingcb')
  PROVE  Books'
<1>1. Unwritten' = Unwritten
  BY DEF moved, Unwritten
<1>2. SumsOf(writing, writecb, writelen, length, Unwritten, size, failed /\ writev)'
  BY <1>1 DEF Books, moved
<1>3. Starting(todo, writing, cursor = 0)'
  BY DEF NoStart, Starting, moved
<1>4. LedgerOf(todo, ticks, acked, writecb, sunk, Len(size), pendingcb)'
  BY DEF moved
<1> QED
  BY <1>2, <1>3, <1>4 DEF Books

\* process.nextTick(afterWrite)
LEMMA Books_Defer ==
  ASSUME IInv, Books, Defer PROVE Books'
<1>1. todo # <<>> /\ Top(todo) = "defer"
  BY DEF Defer, Running, Top
<1>2. PICK x \in Items, s \in Seq(Items) :
        /\ todo = Push(x, s) /\ Tail(todo) = s /\ Head(todo) = x /\ Top(todo) = x.k
        /\ NoStart(s) /\ Good(x) /\ x.ids \in Seq(Nat)
  BY <1>1, TopParts
<1> DEFINE y == [x EXCEPT !.k = "after"]
<1>3. y \in Items /\ y.k = "after" /\ y.ids = x.ids /\ x.k = "defer"
  BY <1>1, <1>2 DEF Items, Kinds
<1>4. /\ UNCHANGED moved /\ todo' = s /\ ticks' = Append(ticks, y)
      /\ acked' = acked /\ pendingcb' = pendingcb
  BY <1>2 DEF Defer, moved, config, current, queue
<1> HIDE DEF y
<1>5. LedgerOf(Push(x, s), ticks, acked, writecb, sunk, Len(size), pendingcb)
  BY <1>2 DEF Books
<1>6. LedgerOf(s, Append(ticks, y), acked, writecb, sunk, Len(size), pendingcb)
  BY <1>3, <1>5, BookTypes, LedgerMove DEF Owed
<1> QED
  BY <1>2, <1>4, <1>6, CallbackStep

\* A tick runs on the empty stack.
LEMMA Books_RunTick ==
  ASSUME IInv, Books, RunTick PROVE Books'
<1>1. todo = <<>> /\ ticks # <<>> /\ ticks \in Seq(Items)
  BY BookTypes DEF RunTick
<1>2. PICK x \in Items, s \in Seq(Items) :
        ticks = Push(x, s) /\ Tail(ticks) = s /\ Top(ticks) = x.k
  BY <1>1, PopShape
<1>3. Head(ticks) = x
  BY <1>2, PushShape
<1>4. /\ UNCHANGED moved /\ todo' = Push(x, <<>>) /\ ticks' = s
      /\ acked' = acked /\ pendingcb' = pendingcb
  BY <1>2, <1>3 DEF RunTick, moved, config, current, queue, Push
<1>5. x.k \in TickKinds
  <2>1. ticks[1] = x /\ 1 \in 1 .. Len(ticks)
    BY <1>1, <1>3
  <2> QED
    BY <2>1 DEF IInv
<1>6. NoStart(<<>>)
  <2>1. <<>> \in Seq(Items)
    BY EmptySequence
  <2> QED
    BY <2>1, PopShape DEF NoStart
<1>7. NoStart(Push(x, <<>>))
  BY <1>5, <1>6, NoStartPush DEF TickKinds
<1>8. LedgerOf(<<>>, Push(x, s), acked, writecb, sunk, Len(size), pendingcb)
  BY <1>1, <1>2 DEF Books
<1>9. LedgerOf(Push(x, <<>>), s, acked, writecb, sunk, Len(size), pendingcb)
  BY <1>8, BookTypes, LedgerTick
<1> QED
  BY <1>4, <1>7, <1>9, CallbackStep

\* The callback of a write, or of a batch.
LEMMA Books_Ack ==
  ASSUME IInv, Books, Ack PROVE Books'
<1>1. todo # <<>> /\ Top(todo) = "ack"
  BY DEF Ack, Running, Top
<1>2. PICK x \in Items, s \in Seq(Items) :
        /\ todo = Push(x, s) /\ Tail(todo) = s /\ Head(todo) = x /\ Top(todo) = x.k
        /\ NoStart(s) /\ Good(x) /\ x.ids \in Seq(Nat)
  BY <1>1, TopParts
<1>3. LedgerOf(Push(x, s), ticks, acked, writecb, sunk, Len(size), pendingcb)
  BY <1>2 DEF Books
<1>4. UNCHANGED moved /\ ticks' = ticks /\ pendingcb' = pendingcb - 1
  BY DEF Ack, moved, config, current, queue
<1>5. x.k \in Owed
  BY <1>1, <1>2 DEF Owed
<1> DEFINE u == Item("user")
           y == ItemOf("acks", x.ids)
<1>6. /\ u \in Items /\ u.k = "user" /\ Plain(u)
      /\ y \in Items /\ y.k = "acks" /\ y.ids = x.ids
  BY <1>2, NewItems, PlainItems DEF Kinds, Handlers, Owed, ItemOf
<1>7. CASE Len(x.ids) = 1
  <2>1. todo' = Push(u, s) /\ acked' = acked \o x.ids
    BY <1>2, <1>7 DEF Ack, Push
  <2> HIDE DEF u
  <2>2. LedgerOf(s, ticks, acked \o x.ids, writecb, sunk, Len(size), pendingcb - 1)
    BY <1>2, <1>3, <1>5, <1>7, BookTypes, LedgerAckOne
  <2>3. SameWork(s, Push(u, s)) /\ SameWork(ticks, ticks)
    <3>1. SameWork(Push(u, s), s)
      BY <1>6, PlainWork
    <3> QED
      BY <3>1, EvenTicks DEF SameWork
  <2>4. LedgerOf(Push(u, s), ticks, acked \o x.ids, writecb, sunk, Len(size), pendingcb - 1)
    BY <2>2, <2>3, LedgerSame
  <2>5. NoStart(Push(u, s))
    BY <1>2, <1>6, NoStartPush
  <2> QED
    BY <1>4, <2>1, <2>4, <2>5, CallbackStep
<1>8. CASE Len(x.ids) # 1
  <2>1. todo' = Push(y, s) /\ acked' = acked
    BY <1>2, <1>8 DEF Ack, Push
  <2> HIDE DEF y
  <2>2. LedgerOf(Push(y, s), ticks, acked, writecb, sunk, Len(size), pendingcb - 1)
    BY <1>2, <1>3, <1>5, <1>6, <1>8, BookTypes, LedgerAckBatch
  <2>3. NoStart(Push(y, s))
    BY <1>2, <1>6, NoStartPush
  <2> QED
    BY <1>4, <2>1, <2>2, <2>3, CallbackStep
<1> QED
  BY <1>7, <1>8

\* The callbacks of a batch, one by one.
LEMMA Books_AckBatch ==
  ASSUME IInv, Books, AckBatch PROVE Books'
<1>1. todo # <<>> /\ Top(todo) = "acks"
  BY DEF AckBatch, Running, Top
<1>2. PICK x \in Items, s \in Seq(Items) :
        /\ todo = Push(x, s) /\ Tail(todo) = s /\ Head(todo) = x /\ Top(todo) = x.k
        /\ NoStart(s) /\ Good(x) /\ x.ids \in Seq(Nat)
  BY <1>1, TopParts
<1>3. LedgerOf(Push(x, s), ticks, acked, writecb, sunk, Len(size), pendingcb)
  BY <1>2 DEF Books
<1>4. UNCHANGED moved /\ ticks' = ticks
  BY DEF AckBatch, moved, config, current, queue
<1>5. CASE x.ids = <<>>
  <2>1. todo' = s /\ acked' = acked /\ pendingcb' = pendingcb
    BY <1>2, <1>5 DEF AckBatch
  <2>2. Plain(x)
    BY <1>1, <1>2, <1>5 DEF Plain, Owed
  <2>3. SameWork(Push(x, s), s) /\ SameWork(ticks, ticks)
    BY <2>2, PlainWork, EvenTicks
  <2>4. LedgerOf(s, ticks, acked, writecb, sunk, Len(size), pendingcb)
    BY <1>3, <2>3, LedgerSame
  <2> QED
    BY <1>2, <1>4, <2>1, <2>4, CallbackStep
<1>6. CASE x.ids # <<>>
  <2> DEFINE u == Item("user")
             y == ItemOf("acks", Tail(x.ids))
             t == Push(y, s)
             a2 == Append(acked, Head(x.ids))
  <2>1. /\ u \in Items /\ u.k = "user" /\ Plain(u)
        /\ y \in Items /\ y.k = "acks" /\ y.ids = Tail(x.ids)
    <3>1. Tail(x.ids) \in Seq(Nat)
      BY <1>2, <1>6
    <3>2. u \in Items /\ u.k = "user" /\ Plain(u)
      BY NewItems, PlainItems DEF Kinds, Handlers, Owed
    <3>3. y \in Items /\ y.k = "acks"
      BY <3>1, NewItems DEF Kinds
    <3>4. y.ids = Tail(x.ids)
      BY DEF ItemOf
    <3> QED
      BY <3>2, <3>3, <3>4
  <2>2. todo' = <<u, y>> \o s /\ acked' = a2 /\ pendingcb' = pendingcb - 1
    BY <1>2, <1>6 DEF AckBatch
  <2> HIDE DEF u, y
  <2>3. todo' = Push(u, t)
    BY <2>1, <2>2, PushMany
  <2>4. LedgerOf(t, ticks, a2, writecb, sunk, Len(size), pendingcb - 1)
    BY <1>1, <1>2, <1>3, <1>6, <2>1, BookTypes, LedgerAckNext
  <2>5. NoStart(t)
    BY <1>2, <2>1, NoStartPush
  <2> HIDE DEF t, a2
  <2>6. SameWork(t, Push(u, t)) /\ SameWork(ticks, ticks)
    <3>1. SameWork(Push(u, t), t)
      BY <2>1, <2>5, PlainWork DEF NoStart
    <3> QED
      BY <3>1, EvenTicks DEF SameWork
  <2>7. LedgerOf(Push(u, t), ticks, a2, writecb, sunk, Len(size), pendingcb - 1)
    BY <2>4, <2>6, LedgerSame
  <2>8. NoStart(Push(u, t))
    BY <2>1, <2>5, NoStartPush
  <2> QED
    BY <1>4, <2>2, <2>3, <2>7, <2>8, CallbackStep
<1> QED
  BY <1>5, <1>6

\* Under an item, what is to run may be replaced.
LEMMA PushSame ==
  ASSUME NEW x \in Items, NEW s \in Seq(Items), NEW t \in Seq(Items), SameWork(s, t)
  PROVE  SameWork(Push(x, s), Push(x, t))
<1> DEFINE u == Push(x, s)
           v == Push(x, t)
           d == IF Batch(x) THEN 1 ELSE 0
<1>1. /\ AllGood(u) <=> Good(x) /\ AllGood(s)
      /\ Ids(u) = ToSet(x.ids) \cup Ids(s)
      /\ Apart(u) <=> IsInjective(x.ids) /\ Apart(s) /\ ToSet(x.ids) \cap Ids(s) = {}
      /\ Cardinality(Batches(u)) = Cardinality(Batches(s)) + d
  BY PushWork
<1>2. /\ AllGood(v) <=> Good(x) /\ AllGood(t)
      /\ Ids(v) = ToSet(x.ids) \cup Ids(t)
      /\ Apart(v) <=> IsInjective(x.ids) /\ Apart(t) /\ ToSet(x.ids) \cap Ids(t) = {}
      /\ Cardinality(Batches(v)) = Cardinality(Batches(t)) + d
  BY PushWork
<1> HIDE DEF u, v, d
<1>3. SameWork(u, v)
  BY <1>1, <1>2 DEF SameWork
<1> QED
  BY <1>3 DEF u, v

\* afterWrite
LEMMA Books_AfterWrite ==
  ASSUME IInv, Books, AfterWrite PROVE Books'
<1>1. todo # <<>> /\ Top(todo) = "after"
  BY DEF AfterWrite, Running, Top
<1>2. PICK x \in Items, s \in Seq(Items) :
        /\ todo = Push(x, s) /\ Tail(todo) = s /\ Head(todo) = x /\ Top(todo) = x.k
        /\ NoStart(s) /\ Good(x) /\ x.ids \in Seq(Nat)
  BY <1>1, TopParts
<1> DEFINE u == Item("user")
           f == Item("finishMaybe")
           y == ItemOf("ack", x.ids)
           w == Push(f, s)
           t == Push(y, w)
<1>3. /\ u \in Items /\ u.k = "user" /\ Plain(u) /\ f \in Items /\ f.k = "finishMaybe" /\ Plain(f)
      /\ y \in Items /\ y.k = "ack" /\ y.ids = x.ids
  BY <1>2, NewItems, PlainItems DEF Kinds, Handlers, Owed, ItemOf
<1>4. todo' = t \/ todo' = Push(u, t)
  <2>1. todo' = <<y, f>> \o s \/ todo' = <<u>> \o (<<y, f>> \o s)
    BY <1>2 DEF AfterWrite
  <2> HIDE DEF u, f, y
  <2> QED
    BY <1>3, <2>1, PushMany DEF Push
<1>5. /\ UNCHANGED moved /\ ticks' = ticks /\ acked' = acked /\ pendingcb' = pendingcb
  BY DEF AfterWrite, moved, config, current, queue
<1> HIDE DEF u, f, y
<1>6. NoStart(w) /\ NoStart(t) /\ NoStart(Push(u, t))
  <2>1. NoStart(w)
    BY <1>2, <1>3, NoStartPush
  <2>2. NoStart(t)
    BY <1>3, <2>1, NoStartPush
  <2> QED
    BY <1>3, <2>1, <2>2, NoStartPush
<1>7. SameWork(Push(x, s), Push(x, w))
  <2>1. SameWork(w, s)
    BY <1>3, PlainWork
  <2>2. SameWork(s, w) /\ w \in Seq(Items)
    BY <1>6, <2>1 DEF SameWork, NoStart
  <2> QED
    BY <2>2, PushSame
<1>8. LedgerOf(Push(x, w), ticks, acked, writecb, sunk, Len(size), pendingcb)
  <2>1. LedgerOf(Push(x, s), ticks, acked, writecb, sunk, Len(size), pendingcb)
    BY <1>2 DEF Books
  <2> QED
    BY <1>7, <2>1, EvenTicks, LedgerSame
<1>9. w \in Seq(Items) /\ t \in Seq(Items)
  BY <1>6 DEF NoStart
<1> HIDE DEF w
<1>10. LedgerOf(t, ticks, acked, writecb, sunk, Len(size), pendingcb)
  BY <1>1, <1>2, <1>3, <1>8, <1>9, BookTypes, LedgerMove DEF Owed
<1> HIDE DEF t
<1>11. LedgerOf(Push(u, t), ticks, acked, writecb, sunk, Len(size), pendingcb)
  <2>1. SameWork(Push(u, t), t)
    BY <1>3, <1>9, PlainWork
  <2>2. SameWork(t, Push(u, t))
    BY <2>1 DEF SameWork
  <2> QED
    BY <1>10, <2>2, EvenTicks, LedgerSame
<1>12. NoStart(todo') /\ LedgerOf(todo', ticks', acked', writecb, sunk, Len(size), pendingcb')
  BY <1>4, <1>5, <1>6, <1>10, <1>11
<1> QED
  BY <1>5, <1>12, CallbackStep

-----------------------------------------------------------------------------
(* Steps that start or complete a write *)

\* A write is over: its length is taken off the sum.
LEMMA SumsSettle ==
  ASSUME NEW wr, NEW cb, NEW wl, NEW ln \in Int, NEW un, NEW sz, NEW lost, NEW lost2,
         SumsOf(wr, cb, wl, ln, un, sz, lost), Sized(sz, un), lost => lost2
  PROVE  SumsOf(FALSE, <<>>, 0, ln - wl, un, sz, lost2)
<1>1. /\ wl \in Nat /\ ln - wl - Total(sz, un) \in Nat
      /\ ~lost => wl = Total(sz, cb) /\ ln = wl + Total(sz, un)
  BY DEF SumsOf
<1>2. Total(sz, un) \in Nat
  BY TotalNumber
<1>3. sz \in Seq(Nat)
  BY DEF Sized
<1>4. Sized(sz, <<>>) /\ Total(sz, <<>>) = 0
  BY <1>3, TotalNone
<1>5. ln - wl - 0 - Total(sz, un) \in Nat
  BY <1>1, <1>2
<1>6. ~lost2 => ln - wl = 0 + Total(sz, un)
  BY <1>1, <1>2
<1> QED
  BY <1>4, <1>5, <1>6 DEF SumsOf

\* One is started, and everything else that was counted stays so.
LEMMA SumsStart ==
  ASSUME NEW wl, NEW ln \in Int, NEW un, NEW sz, NEW lost,
         SumsOf(FALSE, <<>>, wl, ln, un, sz, lost), Sized(sz, un),
         NEW ids, ids # <<>>, Sized(sz, ids), NEW un2, Sized(sz, un2), NEW w \in Nat,
         Total(sz, un) = Total(sz, ids) + Total(sz, un2) \/ lost,
         ln - w - Total(sz, un2) \in Nat,
         ~lost => w = Total(sz, ids)
  PROVE  SumsOf(TRUE, ids, w, ln, un2, sz, lost)
<1>1. wl = 0 /\ (~lost => ln = wl + Total(sz, un))
  BY DEF SumsOf
<1>2. Total(sz, un) \in Nat /\ Total(sz, un2) \in Nat /\ Total(sz, ids) \in Nat
  BY TotalNumber
<1>3. ~lost => ln = w + Total(sz, un2)
  BY <1>1, <1>2
<1> QED
  BY <1>3 DEF SumsOf

\* The sum of one length.
LEMMA TotalOne ==
  ASSUME NEW sz \in Seq(Nat), NEW x \in 1 .. Len(sz)
  PROVE  Sized(sz, <<x>>) /\ Total(sz, <<x>>) = sz[x] /\ sz[x] \in Nat
<1>1. Sized(sz, <<>>) /\ Total(sz, <<>>) = 0
  BY TotalNone
<1>2. Sized(sz, Append(<<>>, x)) /\ Total(sz, Append(<<>>, x)) = 0 + sz[x]
  BY <1>1, TotalAppend
<1>3. Append(<<>>, x) = <<x>> /\ sz[x] \in Nat
  OBVIOUS
<1> QED
  BY <1>2, <1>3

\* The entries that are not written, in every state.
LEMMA NotWritten ==
  ASSUME IInv
  PROVE  /\ Sized(size, Unwritten)
         /\ cursor # Len(buffer) =>
              /\ buffer[cursor + 1] \in 1 .. Len(size)
              /\ Sized(size, SubSeq(buffer, cursor + 2, Len(buffer)))
              /\ Unwritten = <<buffer[cursor + 1]>> \o SubSeq(buffer, cursor + 2, Len(buffer))
         /\ cursor = Len(buffer) => Unwritten = <<>>
         /\ cursor = 0 => Unwritten = buffer
<1>1. Delivery(sunk, buffer, cursor, Len(size), failed) /\ size \in Seq(Nat)
  BY DEF IInv, Types
<1> QED
  BY <1>1, UnwrittenSized, ZenonT(60) DEF Unwritten

\* Writes that were never handed over are, on a stack with the same callbacks.
LEMMA StartedLedger ==
  ASSUME IInv, IInv', Books, ~writing, NEW ids \in Seq(Nat), sunk' = sunk \o ids,
         NEW s \in Seq(Items), NEW n \in Nat, NEW p,
         LedgerOf(s, ticks, acked, writecb, sunk, n, p)
  PROVE  LedgerOf(s, ticks, acked, ids, sunk', n, p + (IF Len(ids) > 1 THEN 1 ELSE 0))
<1>1. writecb = <<>>
  BY DEF Books, SumsOf
<1>2. sunk' \in Seq(Nat) /\ \A i, j \in 1 .. Len(sunk') : sunk'[i] = sunk'[j] => i = j
  BY DEF IInv, Delivery
<1>3. IsInjective(sunk')
  BY <1>2, InjectivePlaces
<1>4. n - Len(acked) + Cardinality(Batches(s)) + Cardinality(Batches(ticks)) \in Int
  <2>1. Item("user") \in Items
    BY NewKinds
  <2>2. Cardinality(Batches(s)) \in Nat
    BY <2>1, PushWork
  <2>3. Len(acked) \in Nat /\ Cardinality(Batches(ticks)) \in Nat
    BY BookTypes
  <2> QED
    BY <2>2, <2>3
<1>5. LedgerOf(s, ticks, acked, <<>>, sunk, n, p) /\ IsInjective(sunk \o ids) /\ sunk \in Seq(Nat)
  BY <1>1, <1>3, BookTypes
<1>6. LedgerOf(s, ticks, acked, ids, sunk \o ids, n, p + (IF Len(ids) > 1 THEN 1 ELSE 0))
  BY ONLY <1>4, <1>5, LedgerStart
<1> QED
  BY <1>6

\* Completion without an error.
LEMMA Books_OnwriteDone ==
  ASSUME IInv, Books, writing, NEW rest, Even(rest), OnwriteDone(rest),
         UNCHANGED <<config, pendingcb, queue, size, sunk, acked>>
  PROVE  Books'
<1>1. /\ writing' = FALSE /\ writecb' = <<>> /\ length' = length - writelen /\ writelen' = 0
      /\ Unwritten' = Unwritten /\ size' = size /\ failed' = failed /\ writev' = writev
      /\ cursor' = cursor /\ ticks' = ticks /\ acked' = acked /\ sunk' = sunk
      /\ pendingcb' = pendingcb
  BY DEF OnwriteDone, OnwriteStateUpdate, Remaining, config, queue, Unwritten
<1>2. SumsOf(writing, writecb, writelen, length, Unwritten, size, failed /\ writev)'
  <2>1. length \in Int /\ Sized(size, Unwritten)
    BY NotWritten DEF IInv, Types
  <2>2. SumsOf(FALSE, <<>>, 0, length - writelen, Unwritten, size, failed /\ writev)
    BY <2>1, SumsSettle DEF Books
  <2> QED
    BY <1>1, <2>2
<1>3. LedgerOf(rest, ticks, acked, writecb, sunk, Len(size), pendingcb)
  BY EvenTicks, LedgerSame DEF Books, Even
<1>4. PICK x \in Items : /\ x.k \in {"defer", "after"} /\ x.ids = writecb
                         /\ \/ todo' = <<>> \o <<x>> \o rest
                            \/ todo' = <<Item("clear")>> \o <<x>> \o rest
  <2> DEFINE done == ending /\ length' = 0 /\ buffer = <<>> /\ ~finished
             x == [k |-> IF sync THEN "defer" ELSE "after", ids |-> writecb, fin |-> done]
  <2>1. writecb \in Seq(Nat)
    BY BookTypes
  <2>2. done \in BOOLEAN
    BY DEF IInv, Types
  <2> HIDE DEF done
  <2>3. x \in Items /\ x.k \in {"defer", "after"} /\ x.ids = writecb
    BY <2>1, <2>2 DEF Items, Kinds
  <2>4. todo' = <<>> \o <<x>> \o rest \/ todo' = <<Item("clear")>> \o <<x>> \o rest
    BY DEF OnwriteDone, done
  <2> HIDE DEF x
  <2> QED
    BY <2>3, <2>4
<1> DEFINE t == Push(x, rest)
           c == Item("clear")
<1>5. rest \in Seq(Items) /\ Plain(c) /\ c.k = "clear" /\ c \in Items
  BY PlainItems DEF Even, Plain, Kinds, Owed
<1> HIDE DEF c
<1>6. todo' = t \/ todo' = Push(c, t)
  <2>1. (<<>> \o <<x>>) \o rest = Push(x, rest)
    BY <1>5, PushMany
  <2>2. (<<c>> \o <<x>>) \o rest = Push(c, Push(x, rest))
    BY <1>5, PushMany
  <2> QED
    BY <1>4, <2>1, <2>2 DEF c
<1>7. LedgerOf(t, ticks, acked, <<>>, sunk, Len(size), pendingcb)
  <2>1. writecb # <<>> /\ x.k \in Owed
    BY <1>4 DEF Books, SumsOf, Owed
  <2> QED
    BY <1>3, <1>4, <1>5, <2>1, BookTypes, LedgerSettle
<1>8. t \in Seq(Items) /\ ~Has(t, "clear") /\ (cursor = 0 => ~Has(t, "loop"))
  BY <1>4, <1>5, PushShape DEF Even
<1> HIDE DEF t
<1>9. LedgerOf(Push(c, t), ticks, acked, <<>>, sunk, Len(size), pendingcb)
  <2>1. SameWork(Push(c, t), t)
    BY <1>5, <1>8, PlainWork
  <2>2. SameWork(t, Push(c, t))
    BY <2>1 DEF SameWork
  <2> QED
    BY <1>7, <2>2, EvenTicks, LedgerSame
<1>10. cursor = 0 => ~Has(Push(c, t), "loop")
  BY <1>5, <1>8, PushShape
<1>11. Starting(todo, writing, cursor = 0)'
  BY <1>1, <1>6, <1>8, <1>10 DEF Starting
<1>12. LedgerOf(todo, ticks, acked, writecb, sunk, Len(size), pendingcb)'
  BY <1>1, <1>6, <1>7, <1>9
<1> QED
  BY <1>2, <1>11, <1>12 DEF Books

\* Completion with one.
LEMMA Books_OnwriteError ==
  ASSUME IInv, Books, writing, NEW rest, Even(rest), OnwriteError(rest),
         UNCHANGED <<config, pendingcb, queue, size, sunk, acked>>
  PROVE  Books'
<1>1. /\ writing' = FALSE /\ writecb' = <<>> /\ length' = length - writelen /\ writelen' = 0
      /\ Unwritten' = Unwritten /\ size' = size /\ failed' = TRUE /\ writev' = writev
      /\ cursor' = cursor /\ acked' = acked /\ sunk' = sunk
      /\ pendingcb' = pendingcb
  BY DEF OnwriteError, OnwriteStateUpdate, Remaining, config, queue, Unwritten
<1>2. SumsOf(writing, writecb, writelen, length, Unwritten, size, failed /\ writev)'
  <2>1. length \in Int /\ Sized(size, Unwritten)
    BY NotWritten DEF IInv, Types
  <2>2. SumsOf(FALSE, <<>>, 0, length - writelen, Unwritten, size, TRUE /\ writev)
    BY <2>1, SumsSettle DEF Books
  <2> QED
    BY <1>1, <2>2
<1>3. LedgerOf(rest, ticks, acked, writecb, sunk, Len(size), pendingcb)
  BY EvenTicks, LedgerSame DEF Books, Even
<1> DEFINE a == ItemOf("ack", writecb)
           u == Item("user")
           e == Item("emitError")
           w == Push(e, rest)
<1>4. a \in Items /\ a.k = "ack"
  BY BookTypes, NewItems DEF Kinds
<1>5. a.ids = writecb
  BY DEF ItemOf
<1>6. Plain(u) /\ u.k = "user" /\ Plain(e) /\ e.k = "emitError" /\ rest \in Seq(Items)
  BY PlainItems DEF Even, Kinds, Handlers, Owed
<1>7. \/ todo' = Push(u, rest) /\ ticks' = Append(ticks, a)
      \/ todo' = Push(a, w) /\ ticks' = ticks
  <2>1. \/ todo' = <<u>> \o rest /\ ticks' = Append(ticks, a)
        \/ todo' = <<a, e>> \o rest /\ ticks' = ticks
    BY DEF OnwriteError
  <2>2. u \in Items /\ e \in Items
    BY <1>6 DEF Plain
  <2> HIDE DEF a, u, e
  <2> QED
    BY <1>4, <1>6, <2>1, <2>2, PushMany
<1> HIDE DEF a, u, e
<1>8. Even(Push(u, rest)) /\ Even(w)
  BY <1>6, EvenPush
<1>9. w \in Seq(Items)
  BY <1>8 DEF Even
<1>10. writecb # <<>> /\ a.k \in Owed
  BY <1>4 DEF Books, SumsOf, Owed
<1>11. CASE todo' = Push(u, rest) /\ ticks' = Append(ticks, a)
  <2>1. LedgerOf(rest, Append(ticks, a), acked, <<>>, sunk, Len(size), pendingcb)
    BY <1>3, <1>4, <1>5, <1>6, <1>10, BookTypes, LedgerSettle
  <2>2. SameWork(Push(u, rest), rest)
    BY <1>6, PlainWork
  <2>3. SameWork(rest, Push(u, rest)) /\ SameWork(Append(ticks, a), Append(ticks, a))
    BY <2>2 DEF SameWork
  <2>4. LedgerOf(Push(u, rest), Append(ticks, a), acked, <<>>, sunk, Len(size), pendingcb)
    BY <2>1, <2>3, LedgerSame
  <2>5. LedgerOf(todo, ticks, acked, writecb, sunk, Len(size), pendingcb)'
    BY <1>1, <1>11, <2>4
  <2>6. Starting(todo, writing, cursor = 0)'
    BY <1>1, <1>8, <1>11 DEF Starting, Even
  <2> QED
    BY <1>2, <2>5, <2>6 DEF Books
<1>12. CASE todo' = Push(a, w) /\ ticks' = ticks
  <2>1. LedgerOf(w, ticks, acked, writecb, sunk, Len(size), pendingcb)
    <3>1. SameWork(w, rest)
      BY <1>6, PlainWork
    <3>2. SameWork(rest, w)
      BY <3>1 DEF SameWork
    <3> QED
      BY <1>3, <3>2, EvenTicks, LedgerSame
  <2>0. ~Has(w, "clear") /\ (cursor = 0 => ~Has(w, "loop"))
    BY <1>8 DEF Even
  <2> HIDE DEF w
  <2>2. LedgerOf(Push(a, w), ticks, acked, <<>>, sunk, Len(size), pendingcb)
    BY <1>4, <1>5, <1>9, <1>10, <2>1, BookTypes, LedgerSettle
  <2>3. LedgerOf(todo, ticks, acked, writecb, sunk, Len(size), pendingcb)'
    BY <1>1, <1>12, <2>2
  <2>4. ~Has(Push(a, w), "clear") /\ (cursor = 0 => ~Has(Push(a, w), "loop"))
    BY <1>4, <1>9, <2>0, PushShape
  <2>5. Starting(todo, writing, cursor = 0)'
    BY <1>1, <1>12, <2>4 DEF Starting
  <2> QED
    BY <1>2, <2>3, <2>5 DEF Books
<1> QED
  BY <1>7, <1>11, <1>12

\* The implementation calls back, inside _write or later.
LEMMA Books_Complete ==
  ASSUME IInv, Books, CompleteInBody \/ CompleteLater PROVE Books'
<1>1. ASSUME NEW rest, Even(rest), writing, Onwrite(rest) PROVE Books'
  <2>1. UNCHANGED <<config, pendingcb, queue, size, sunk, acked>>
    BY <1>1 DEF Onwrite
  <2>2. CASE OnwriteDone(rest)
    BY <1>1, <2>1, <2>2, Books_OnwriteDone
  <2>3. CASE OnwriteError(rest)
    BY <1>1, <2>1, <2>3, Books_OnwriteError
  <2> QED
    BY <1>1, <2>2, <2>3 DEF Onwrite
<1>2. CASE CompleteInBody
  <2>1. todo # <<>> /\ Top(todo) = "body"
    BY <1>2 DEF CompleteInBody, Running, Top
  <2>2. Even(Tail(todo))
    BY <2>1, EvenTop DEF Owed
  <2>3. Even(Push(Item("unsync"), Tail(todo)))
    BY <2>2, EvenItem DEF Kinds, Owed
  <2>4. Onwrite(Push(Item("unsync"), Tail(todo))) /\ writing
    BY <1>2 DEF CompleteInBody, Push
  <2> QED
    BY <1>1, <2>3, <2>4
<1>3. CASE CompleteLater
  BY <1>1, <1>3, EvenCaller DEF CompleteLater
<1> QED
  BY <1>2, <1>3

\* The batch is handed to _writev, or the loop begins.
LEMMA Books_ClearBuffer ==
  ASSUME IInv, IInv', Books, ClearBuffer PROVE Books'
<1>1. todo # <<>> /\ Top(todo) = "clear" /\ todo \in Seq(Items)
  BY BookTypes DEF ClearBuffer, Running, Top
<1>2. PICK x \in Items, s \in Seq(Items) : todo = Push(x, s) /\ Tail(todo) = s /\ Top(todo) = x.k
  BY <1>1, PopShape
<1>3. ~Has(s, "clear") /\ Has(todo, "clear") /\ ClearOnTop(todo)
  <2>1. ClearOnTop(todo)
    BY DEF IInv, Clearing
  <2> QED
    BY <1>1, <1>2, <2>1, PushShape
<1>4. ~writing /\ cursor = 0 /\ Unwritten = buffer
  <2>1. ~writing
    BY <1>3 DEF Books, Starting
  <2>2. ~bufferProcessing
    BY <1>3 DEF IInv, Clearing
  <2>3. cursor = 0
    BY <2>2 DEF IInv
  <2> QED
    BY <2>1, <2>3, NotWritten
<1>5. Good(x) /\ x.ids = <<>> /\ Plain(x)
  <2>1. AllGood(todo)
    BY DEF Books, LedgerOf
  <2>2. Good(x)
    BY <1>2, <2>1, PushWork
  <2>3. x.k \notin Owed /\ x.k # "acks"
    BY <1>1, <1>2 DEF Owed
  <2> QED
    BY <2>2, <2>3 DEF Good, Plain
<1>6. LedgerOf(s, ticks, acked, writecb, sunk, Len(size), pendingcb)
  <2>1. SameWork(todo, s)
    BY <1>2, <1>5, PlainWork
  <2> QED
    BY <2>1, EvenTicks, LedgerSame DEF Books
<1> DEFINE b == Item("body")
           e == Item("emptied")
           l == Item("loop")
<1>7. /\ Plain(b) /\ b.k = "body" /\ Plain(e) /\ e.k = "emptied" /\ Plain(l) /\ l.k = "loop"
      /\ b \in Items /\ e \in Items /\ l \in Items
  BY PlainItems DEF Kinds, Owed, Plain
<1>8. /\ size' = size /\ length' = length /\ buffer' = buffer /\ failed' = failed
      /\ writev' = writev /\ ticks' = ticks /\ acked' = acked
  BY DEF ClearBuffer, config
<1>9. CASE /\ writev /\ Len(buffer) > 1
           /\ pendingcb' = CountBatch
           /\ DoWrite(buffer, length)
           /\ cursor' = Len(buffer)
           /\ todo' = <<b, e>> \o Tail(todo)
  <2>1. /\ writing' = TRUE /\ writecb' = buffer /\ writelen' = length
        /\ sunk' = sunk \o buffer /\ pendingcb' = pendingcb + 1
    BY <1>9 DEF DoWrite, CountBatch
  <2> HIDE DEF b, e
  <2> DEFINE w == Push(e, s)
  <2>2. todo' = Push(b, w)
    <3>1. todo' = <<b, e>> \o s
      BY <1>2, <1>9
    <3>2. <<b, e>> \o s = Push(b, Push(e, s))
      BY <1>7, PushMany
    <3> QED
      BY <3>1, <3>2
  <2>3. Unwritten' = <<>>
    <3>1. IInv' => (cursor' = Len(buffer') => Unwritten' = <<>>)
      <4>1. Delivery(sunk', buffer', cursor', Len(size'), failed') /\ size' \in Seq(Nat)
        BY DEF IInv, Types
      <4> QED
        BY <4>1, UnwrittenSized DEF Unwritten
    <3> QED
      BY <1>8, <1>9, <3>1
  <2>4. SumsOf(TRUE, buffer, length, length, <<>>, size, failed /\ writev)
    <3>1. SumsOf(FALSE, <<>>, writelen, length, buffer, size, failed /\ writev)
      BY <1>4 DEF Books, SumsOf
    <3>2. Sized(size, buffer) /\ Total(size, buffer) \in Nat
      BY <1>4, NotWritten, TotalNumber
    <3>3. Sized(size, <<>>) /\ Total(size, <<>>) = 0
      BY BookTypes, TotalNone
    <3>4. buffer # <<>>
      BY <1>9
    <3>5. length \in Int
      BY DEF IInv, Types
    <3>6. length - 0 - Total(size, buffer) \in Nat
      BY <3>1 DEF SumsOf
    <3>7. length \in Nat
      BY <3>2, <3>5, <3>6
    <3>8. ~(failed /\ writev) => length = Total(size, buffer)
      <4>1. ~(failed /\ writev) => length = 0 + Total(size, buffer)
        BY <3>1 DEF SumsOf
      <4> QED
        BY <3>2, <4>1
    <3>9. /\ Total(size, buffer) = Total(size, buffer) + Total(size, <<>>)
          /\ length - length - Total(size, <<>>) \in Nat
      BY <3>2, <3>3, <3>7
    <3> QED
      BY ONLY <3>1, <3>2, <3>3, <3>4, <3>5, <3>7, <3>8, <3>9, SumsStart
  <2>5. SumsOf(writing, writecb, writelen, length, Unwritten, size, failed /\ writev)'
    BY <1>8, <2>1, <2>3, <2>4
  <2>6. w \in Seq(Items) /\ ~Has(w, "clear") /\ ~Has(Push(b, w), "clear")
    BY <1>3, <1>7, PushShape
  <2>7. SameWork(s, Push(b, w))
    <3>1. SameWork(w, s)
      BY <1>7, PlainWork
    <3> HIDE DEF w
    <3>2. SameWork(Push(b, w), w)
      BY <1>7, <2>6, PlainWork
    <3> QED
      BY <3>1, <3>2 DEF SameWork
  <2> HIDE DEF w
  <2>8. LedgerOf(Push(b, w), ticks, acked, writecb, sunk, Len(size), pendingcb)
    BY <1>6, <2>7, EvenTicks, LedgerSame
  <2>9. Push(b, w) \in Seq(Items)
    BY <1>7, <2>6, PushShape
  <2>10. LedgerOf(Push(b, w), ticks, acked, buffer, sunk', Len(size),
                  pendingcb + (IF Len(buffer) > 1 THEN 1 ELSE 0))
    BY <1>4, <2>1, <2>8, <2>9, BookTypes, StartedLedger
  <2>11. LedgerOf(todo, ticks, acked, writecb, sunk, Len(size), pendingcb)'
    BY <1>8, <1>9, <2>1, <2>2, <2>10
  <2>12. Starting(todo, writing, cursor = 0)'
    <3>1. cursor' # 0
      BY <1>9
    <3> QED
      BY <2>2, <2>6, <3>1 DEF Starting
  <2> QED
    BY <2>5, <2>11, <2>12 DEF Books
<1>10. CASE /\ ~(writev /\ Len(buffer) > 1)
            /\ todo' = <<l>> \o Tail(todo)
            /\ UNCHANGED <<pendingcb, current, cursor, sunk>>
  <2>1. todo' = Push(l, s) /\ UNCHANGED <<pendingcb, writing, writecb, writelen, cursor, sunk>>
    BY <1>2, <1>10 DEF Push, current
  <2> HIDE DEF l
  <2>2. Unwritten' = Unwritten
    BY <1>8, <2>1 DEF Unwritten
  <2>3. SumsOf(writing, writecb, writelen, length, Unwritten, size, failed /\ writev)'
    BY <1>8, <2>1, <2>2 DEF Books
  <2>4. Top(Push(l, s)) = "loop" /\ ~Has(Push(l, s), "clear")
    BY <1>3, <1>7, PushShape
  <2>5. Starting(todo, writing, cursor = 0)'
    BY <1>4, <2>1, <2>4 DEF Starting
  <2>6. LedgerOf(Push(l, s), ticks, acked, writecb, sunk, Len(size), pendingcb)
    <3>1. SameWork(Push(l, s), s)
      BY <1>7, PlainWork
    <3>2. SameWork(s, Push(l, s))
      BY <3>1 DEF SameWork
    <3> QED
      BY <1>6, <3>2, EvenTicks, LedgerSame
  <2>7. LedgerOf(todo, ticks, acked, writecb, sunk, Len(size), pendingcb)'
    BY <1>8, <2>1, <2>6
  <2> QED
    BY <2>3, <2>5, <2>7 DEF Books
<1> QED
  BY <1>9, <1>10 DEF ClearBuffer

\* A clearBuffer is over: it was the only one.
LEMMA LoopBelow ==
  ASSUME IInv, Books, todo # <<>>, Top(todo) \in LoopKinds
  PROVE  /\ Tail(todo) \in Seq(Items) /\ SameWork(todo, Tail(todo))
         /\ ~Has(Tail(todo), "clear") /\ ~Has(Tail(todo), "loop") /\ ~Has(todo, "clear")
<1>1. todo \in Seq(Items)
  BY BookTypes
<1>2. PICK x \in Items, s \in Seq(Items) : todo = Push(x, s) /\ Tail(todo) = s /\ Top(todo) = x.k
  BY <1>1, PopShape
<1>3. OneLoop(todo) /\ ClearOnTop(todo) /\ AllGood(todo)
  BY DEF IInv, Clearing, Books, LedgerOf
<1>4. ~Has(s, "clear") /\ ~Has(s, "loop") /\ Good(x)
  BY <1>2, <1>3, PushShape, PushWork
<1>5. x.k # "clear" /\ x.k \notin Owed \cup {"acks"}
  BY <1>2 DEF LoopKinds, Owed
<1>6. ~Has(todo, "clear")
  BY <1>2, <1>4, <1>5, PushShape
<1>7. Plain(x)
  BY <1>4, <1>5 DEF Good, Plain
<1>8. SameWork(todo, s)
  BY <1>2, <1>7, PlainWork
<1> QED
  BY <1>2, <1>4, <1>6, <1>8

\* What a failed _writev leaves in the buffer is dropped.
LEMMA Books_Emptied ==
  ASSUME IInv, Books, Emptied PROVE Books'
<1>1. todo # <<>> /\ Top(todo) = "emptied" /\ todo \in Seq(Items)
  BY BookTypes DEF Emptied, Running, Top
<1>2. /\ Tail(todo) \in Seq(Items) /\ SameWork(todo, Tail(todo))
      /\ ~Has(Tail(todo), "clear") /\ ~Has(Tail(todo), "loop")
  BY <1>1, LoopBelow DEF LoopKinds
<1>3. /\ buffer' = <<>> /\ cursor' = 0 /\ todo' = Tail(todo)
      /\ UNCHANGED <<writing, writecb, writelen, length, size, failed, writev, ticks, acked,
                     sunk, pendingcb>>
  BY DEF Emptied, config, current
<1>4. Unwritten' = <<>>
  <2>1. SubSeq(<<>>, 0 + 1, Len(<<>>)) = <<>>
    OBVIOUS
  <2> QED
    BY <1>3, <2>1 DEF Unwritten
<1>5. Has(todo, "emptied")
  <2>1. PICK x \in Items, s \in Seq(Items) : todo = Push(x, s) /\ Tail(todo) = s /\ Top(todo) = x.k
    BY <1>1, PopShape
  <2> QED
    BY <1>1, <2>1, PushShape
<1>6. writev /\ (~failed => cursor = Len(buffer))
  BY <1>5 DEF IInv, Clearing
<1>7. ~failed => Unwritten = <<>>
  BY <1>6, NotWritten
<1>8. Sized(size, <<>>) /\ Total(size, <<>>) = 0
  BY BookTypes, TotalNone
<1>9. Total(size, Unwritten) \in Nat
  BY NotWritten, TotalNumber
<1>10. SumsOf(writing, writecb, writelen, length, <<>>, size, failed /\ writev)
  <2>1. SumsOf(writing, writecb, writelen, length, Unwritten, size, failed /\ writev)
    BY DEF Books
  <2>2. length - writelen - Total(size, Unwritten) \in Nat /\ writelen \in Nat
    BY <2>1 DEF SumsOf
  <2>3. length \in Int
    BY DEF IInv, Types
  <2>4. length - writelen - Total(size, <<>>) \in Nat
    BY <1>8, <1>9, <2>2, <2>3
  <2>5. ~(failed /\ writev) => Unwritten = <<>>
    BY <1>6, <1>7
  <2> QED
    BY <2>1, <2>4, <2>5 DEF SumsOf
<1>11. SumsOf(writing, writecb, writelen, length, Unwritten, size, failed /\ writev)'
  BY <1>3, <1>4, <1>10
<1>12. Starting(todo, writing, cursor = 0)'
  BY <1>2, <1>3 DEF Starting
<1>13. LedgerOf(todo, ticks, acked, writecb, sunk, Len(size), pendingcb)'
  <2>1. LedgerOf(Tail(todo), ticks, acked, writecb, sunk, Len(size), pendingcb)
    BY <1>2, EvenTicks, LedgerSame DEF Books
  <2> QED
    BY <1>3, <2>1
<1> QED
  BY <1>11, <1>12, <1>13 DEF Books

\* The loop stops, and keeps what it has not written.
LEMMA Books_LoopExit ==
  ASSUME IInv, Books, LoopExit PROVE Books'
<1>1. todo # <<>> /\ Top(todo) = "loop"
  BY DEF LoopExit, Running, Top
<1>2. /\ Tail(todo) \in Seq(Items) /\ SameWork(todo, Tail(todo))
      /\ ~Has(Tail(todo), "clear") /\ ~Has(Tail(todo), "loop")
  BY <1>1, LoopBelow DEF LoopKinds
<1>3. /\ buffer' = Unwritten /\ cursor' = 0 /\ todo' = Tail(todo)
      /\ UNCHANGED <<writing, writecb, writelen, length, size, failed, writev, ticks, acked,
                     sunk, pendingcb>>
  BY DEF LoopExit, config, current
<1>4. Unwritten' = Unwritten
  <2>1. Unwritten \in Seq(Nat)
    BY NotWritten, SizedPlaces
  <2>2. \A u \in Seq(Nat) : SubSeq(u, 0 + 1, Len(u)) = u
    OBVIOUS
  <2>3. Unwritten' = SubSeq(Unwritten, 0 + 1, Len(Unwritten))
    BY <1>3 DEF Unwritten
  <2> QED
    BY <2>1, <2>2, <2>3
<1>5. SumsOf(writing, writecb, writelen, length, Unwritten, size, failed /\ writev)'
  BY <1>3, <1>4 DEF Books
<1>6. Starting(todo, writing, cursor = 0)'
  BY <1>2, <1>3 DEF Starting
<1>7. LedgerOf(todo, ticks, acked, writecb, sunk, Len(size), pendingcb)'
  <2>1. LedgerOf(Tail(todo), ticks, acked, writecb, sunk, Len(size), pendingcb)
    BY <1>2, EvenTicks, LedgerSame DEF Books
  <2> QED
    BY <1>3, <2>1
<1> QED
  BY <1>5, <1>6, <1>7 DEF Books

\* The next entry is handed over, with no write in progress.
LEMMA Books_LoopWrite ==
  ASSUME IInv, IInv', Books, LoopWrite PROVE Books'
<1>1. todo # <<>> /\ Top(todo) = "loop" /\ todo \in Seq(Items)
  BY BookTypes DEF LoopWrite, Running, Top
<1>2. ~Has(todo, "clear")
  BY <1>1, LoopBelow DEF LoopKinds
<1>3. ~writing
  <2>1. Has(todo, "loop")
    <3>1. PICK x \in Items, s \in Seq(Items) : todo = Push(x, s) /\ Tail(todo) = s /\ Top(todo) = x.k
      BY <1>1, PopShape
    <3> QED
      BY <1>1, <3>1, PushShape
  <2>2. cursor = 0 => ~writing
    BY <2>1 DEF Books, Starting
  <2>3. cursor > 0 => ~writing
    BY DEF LoopWrite
  <2> QED
    BY <2>2, <2>3, BookTypes
<1> DEFINE k == buffer[cursor + 1]
           b == Item("body")
           rest == SubSeq(buffer, cursor + 2, Len(buffer))
<1>4. cursor # Len(buffer) /\ cursor \in Nat
  BY BookTypes DEF LoopWrite
<1>5. k \in 1 .. Len(size) /\ Sized(size, rest) /\ Unwritten = <<k>> \o rest
  BY <1>4, NotWritten
<1>6. Plain(b) /\ b.k = "body" /\ b \in Items
  BY PlainItems DEF Kinds, Owed, Plain
<1>7. /\ writing' = TRUE /\ writecb' = <<k>> /\ writelen' = size[k] /\ sunk' = sunk \o <<k>>
      /\ cursor' = cursor + 1 /\ todo' = Push(b, todo)
      /\ UNCHANGED <<length, size, buffer, failed, writev, ticks, acked, pendingcb>>
  BY DEF LoopWrite, DoWrite, config, Push
<1>8. Unwritten' = rest
  <2>1. cursor + 1 + 1 = cursor + 2
    BY <1>4
  <2>2. Unwritten' = SubSeq(buffer, cursor + 1 + 1, Len(buffer))
    BY <1>7 DEF Unwritten
  <2> QED
    BY <2>1, <2>2
<1> HIDE DEF k, b, rest
<1>9. SumsOf(TRUE, <<k>>, size[k], length, rest, size, failed /\ writev)
  <2>1. SumsOf(FALSE, <<>>, writelen, length, Unwritten, size, failed /\ writev)
    BY <1>3 DEF Books, SumsOf
  <2>2. Sized(size, <<k>>) /\ Total(size, <<k>>) = size[k] /\ size[k] \in Nat
    BY <1>5, BookTypes, TotalOne
  <2>3. Sized(size, Unwritten) /\ Total(size, Unwritten) = size[k] + Total(size, rest)
    BY <1>5, NotWritten, TotalPush
  <2>4. length \in Int /\ Total(size, rest) \in Nat
    BY <1>5, TotalNumber DEF IInv, Types
  <2>5. length - 0 - Total(size, Unwritten) \in Nat
    BY <2>1 DEF SumsOf
  <2>6. length - size[k] - Total(size, rest) \in Nat
    BY <2>2, <2>3, <2>4, <2>5
  <2>7. Total(size, Unwritten) = Total(size, <<k>>) + Total(size, rest)
    BY <2>2, <2>3
  <2>8. <<k>> # <<>>
    OBVIOUS
  <2>9. ~(failed /\ writev) => size[k] = Total(size, <<k>>)
    BY <2>2
  <2> QED
    BY ONLY <1>5, <2>1, <2>2, <2>3, <2>4, <2>6, <2>7, <2>8, <2>9, SumsStart
<1>10. SumsOf(writing, writecb, writelen, length, Unwritten, size, failed /\ writev)'
  BY <1>7, <1>8, <1>9
<1>11. ~Has(Push(b, todo), "clear") /\ Push(b, todo) \in Seq(Items)
  BY <1>1, <1>2, <1>6, PushShape
<1>12. Starting(todo, writing, cursor = 0)'
  <2>1. cursor' # 0
    BY <1>4, <1>7
  <2> QED
    BY <1>7, <1>11, <2>1 DEF Starting
<1>13. LedgerOf(Push(b, todo), ticks, acked, writecb, sunk, Len(size), pendingcb)
  <2>1. SameWork(Push(b, todo), todo)
    BY <1>1, <1>6, PlainWork
  <2>2. SameWork(todo, Push(b, todo))
    BY <2>1 DEF SameWork
  <2> QED
    BY <2>2, EvenTicks, LedgerSame DEF Books
<1>14. LedgerOf(Push(b, todo), ticks, acked, <<k>>, sunk', Len(size), pendingcb)
  <2>1. <<k>> \in Seq(Nat) /\ Len(<<k>>) = 1
    BY <1>5
  <2>2. LedgerOf(Push(b, todo), ticks, acked, <<k>>, sunk', Len(size),
                 pendingcb + (IF Len(<<k>>) > 1 THEN 1 ELSE 0))
    BY <1>3, <1>7, <1>11, <1>13, <2>1, BookTypes, StartedLedger
  <2>3. pendingcb + (IF Len(<<k>>) > 1 THEN 1 ELSE 0) = pendingcb
    BY <2>1 DEF IInv, Types
  <2> QED
    BY <2>2, <2>3
<1>15. LedgerOf(todo, ticks, acked, writecb, sunk, Len(size), pendingcb)'
  BY <1>7, <1>14
<1> QED
  BY <1>10, <1>12, <1>15 DEF Books

\* z is sz with one more length, n, at place k.
Longer(sz, n, z, k) == n \in Nat /\ sz \in Seq(Nat) /\ z = Append(sz, n) /\ k = Len(sz) + 1

\* A write is accepted, and waits in the buffer: the sum is larger by its length.
LEMMA SumsGrow ==
  ASSUME NEW wr, NEW cb, NEW wl, NEW ln, ln \in Int, NEW un, NEW sz, NEW lost,
         SumsOf(wr, cb, wl, ln, un, sz, lost), Sized(sz, un),
         NEW n, NEW z, NEW k, Longer(sz, n, z, k)
  PROVE  SumsOf(wr, cb, wl, ln + n, Append(un, k), z, lost)
<1>0. n \in Nat /\ sz \in Seq(Nat) /\ z = Append(sz, n) /\ k = Len(sz) + 1
  BY DEF Longer
<1>1. z \in Seq(Nat) /\ k \in 1 .. Len(z) /\ z[k] = n
  BY <1>0
<1>2. /\ wl \in Nat /\ ln - wl - Total(sz, un) \in Nat /\ Sized(sz, cb)
      /\ (wr <=> cb # <<>>) /\ (~wr => wl = 0)
      /\ ~lost => wl = Total(sz, cb) /\ ln = wl + Total(sz, un)
  BY DEF SumsOf
<1>3. /\ Sized(z, un) /\ Total(z, un) = Total(sz, un)
      /\ Sized(z, cb) /\ Total(z, cb) = Total(sz, cb)
  BY <1>0, <1>2, TotalGrown
<1>4. Total(sz, un) \in Nat
  BY TotalNumber
<1>5. Sized(z, Append(un, k)) /\ Total(z, Append(un, k)) = Total(sz, un) + n
  BY <1>0, <1>1, <1>3, TotalAppend
<1>7. (ln + n) - wl - Total(z, Append(un, k)) \in Nat
  BY <1>0, <1>2, <1>4, <1>5
<1>8. ~lost => ln + n = wl + Total(z, Append(un, k))
  BY <1>0, <1>2, <1>4, <1>5
<1>9. SumsOf(wr, cb, wl, ln + n, Append(un, k), z, lost)
  <2> PICK u : u = Append(un, k)
    OBVIOUS
  <2>1. (ln + n) - wl - Total(z, u) \in Nat
    BY <1>7
  <2>2. ~lost => wl = Total(z, cb) /\ ln + n = wl + Total(z, u)
    BY <1>2, <1>3, <1>8
  <2>3. SumsOf(wr, cb, wl, ln + n, u, z, lost)
    BY ONLY <1>2, <1>3, <2>1, <2>2 DEF SumsOf
  <2> QED
    BY <2>3
<1> QED
  BY <1>9

\* push() leaves the entries that were there.
LEMMA SliceGrows ==
  ASSUME NEW bf \in Seq(Nat), NEW cu \in Nat, NEW a \in Nat, cu <= Len(bf)
  PROVE  SubSeq(Append(bf, a), cu + 1, Len(Append(bf, a)))
           = Append(SubSeq(bf, cu + 1, Len(bf)), a)
<1> DEFINE b == Append(bf, a)
           u == SubSeq(b, cu + 1, Len(b))
           v == SubSeq(bf, cu + 1, Len(bf))
           w == Append(v, a)
<1>1. /\ b \in Seq(Nat) /\ Len(b) = Len(bf) + 1 /\ Len(bf) \in Nat /\ b[Len(bf) + 1] = a
      /\ \A i \in 1 .. Len(bf) : b[i] = bf[i]
  OBVIOUS
<1> HIDE DEF b
<1>2. /\ u \in Seq(Nat) /\ Len(u) = Len(b) - cu
      /\ \A i \in 1 .. Len(u) : u[i] = b[cu + i]
  BY <1>1
<1>3. /\ v \in Seq(Nat) /\ Len(v) = Len(bf) - cu
      /\ \A i \in 1 .. Len(v) : v[i] = bf[cu + i]
  OBVIOUS
<1> HIDE DEF u, v
<1>4. /\ w \in Seq(Nat) /\ Len(w) = Len(v) + 1 /\ w[Len(v) + 1] = a
      /\ \A i \in 1 .. Len(v) : w[i] = v[i]
  BY <1>3
<1> HIDE DEF w
<1>5. ASSUME NEW i \in 1 .. Len(u) PROVE u[i] = w[i]
  <2>1. CASE i = Len(v) + 1
    <3>1. cu + i = Len(bf) + 1
      BY <1>1, <1>3, <2>1
    <3> QED
      BY <1>1, <1>2, <1>4, <2>1, <3>1
  <2>2. CASE i # Len(v) + 1
    <3>1. i \in 1 .. Len(v) /\ cu + i \in 1 .. Len(bf)
      <4>1. i \in Nat /\ i >= 1 /\ i <= Len(v) + 1 /\ Len(v) \in Nat
        BY <1>1, <1>2, <1>3
      <4>2. i \in 1 .. Len(v)
        BY <2>2, <4>1
      <4>3. i <= Len(bf) - cu
        BY <1>3, <4>2
      <4> QED
        BY <1>1, <4>1, <4>2, <4>3
    <3> QED
      BY <1>1, <1>2, <1>3, <1>4, <3>1
  <2> QED
    BY <2>1, <2>2
<1>6. Len(u) = Len(w)
  BY <1>1, <1>2, <1>3, <1>4
<1>7. u = w
  BY <1>2, <1>4, <1>5, <1>6, SeqEqual
<1> QED
  BY <1>7 DEF u, v, w, b

\* A write is accepted, and buffered or handed over.
LEMMA Books_Accept ==
  ASSUME IInv, IInv', Books, UserRuns, NEW n \in Nat, NEW then \in Thens, Accept(n, then)
  PROVE  Books'
<1> DEFINE s == then \o Caller
           b == Item("body")
           k == Len(size) + 1
           z == Append(size, n)
<1>1. Even(s) /\ then \in Seq(Items) /\ Caller \in Seq(Items)
  BY EvenThen
<1>2. s \in Seq(Items) /\ ~Has(s, "clear") /\ (cursor = 0 => ~Has(s, "loop"))
  BY <1>1 DEF Even
<1>3. /\ size' = z /\ length' = length + n /\ pendingcb' = pendingcb + 1
      /\ UNCHANGED <<cursor, failed, writev, ticks, acked>>
  BY DEF Accept, config
<1>4. /\ size \in Seq(Nat) /\ Len(size) \in Nat /\ Len(z) = Len(size) + 1 /\ length \in Int
      /\ buffer \in Seq(Nat) /\ cursor \in Nat /\ cursor <= Len(buffer) /\ pendingcb \in Int
  BY DEF IInv, Types, Delivery
<1>5. LedgerOf(s, ticks, acked, writecb, sunk, Len(size) + 1, pendingcb + 1)
  <2>1. LedgerOf(s, ticks, acked, writecb, sunk, Len(size), pendingcb)
    BY <1>1, EvenTicks, LedgerSame DEF Books, Even
  <2>2. Cardinality(Batches(s)) \in Nat
    BY <1>1, BookTypes DEF Even, SameWork
  <2> HIDE DEF s
  <2> QED
    BY <1>4, <2>1, <2>2, BookTypes, LedgerAccept
<1>6. /\ SumsOf(writing, writecb, writelen, length + n, Append(Unwritten, k), z, failed /\ writev)
      /\ Sized(z, Append(Unwritten, k)) /\ Sized(z, Unwritten)
      /\ Total(z, Unwritten) = Total(size, Unwritten)
      /\ Total(z, Append(Unwritten, k)) = Total(size, Unwritten) + n
      /\ Sized(z, <<k>>) /\ Total(z, <<k>>) = n
  <2>1. Sized(size, Unwritten)
    BY NotWritten
  <2> PICK lost : lost = (failed /\ writev)
    OBVIOUS
  <2>2. SumsOf(writing, writecb, writelen, length, Unwritten, size, lost)
    BY DEF Books
  <2>3. n \in Nat /\ size \in Seq(Nat) /\ length \in Int
    BY <1>4
  <2>4. /\ SumsOf(writing, writecb, writelen, length + n, Append(Unwritten, k), z, lost)
        /\ Sized(z, Append(Unwritten, k)) /\ Sized(z, Unwritten)
        /\ Total(z, Unwritten) = Total(size, Unwritten)
        /\ Total(z, Append(Unwritten, k)) = Total(size, Unwritten) + n
        /\ Sized(z, <<k>>) /\ Total(z, <<k>>) = n
    <3>1. Longer(size, n, z, k)
      BY <2>3 DEF Longer
    <3>2. /\ Sized(z, Unwritten) /\ Total(z, Unwritten) = Total(size, Unwritten)
      BY <2>1, <2>3, TotalGrown
    <3>3. z \in Seq(Nat) /\ k \in 1 .. Len(z) /\ z[k] = n
      BY <2>3
    <3> HIDE DEF z, k
    <3>4. Sized(z, <<k>>) /\ Total(z, <<k>>) = n
      BY <3>3, TotalOne
    <3>5. /\ Sized(z, Append(Unwritten, k))
          /\ Total(z, Append(Unwritten, k)) = Total(size, Unwritten) + n
      BY <3>2, <3>3, TotalAppend
    <3>6. SumsOf(writing, writecb, writelen, length + n, Append(Unwritten, k), z, lost)
      BY ONLY <2>1, <2>2, <2>3, <3>1, SumsGrow
    <3> QED
      BY <3>2, <3>4, <3>5, <3>6
  <2> QED
    BY <2>4
<1> HIDE DEF s
<1>7. CASE /\ MustBuffer
           /\ buffer' = Append(buffer, accepted + 1)
           /\ todo' = then \o Caller
           /\ UNCHANGED <<current, sunk>>
  <2>1. /\ todo' = s /\ buffer' = Append(buffer, k)
        /\ UNCHANGED <<writing, writecb, writelen, sunk>>
    BY <1>7 DEF current, s, accepted
  <2>2. Unwritten' = Append(Unwritten, k)
    <3>2. k \in Nat
      BY <1>4
    <3>3. Unwritten' = SubSeq(Append(buffer, k), cursor + 1, Len(Append(buffer, k)))
      BY <1>3, <2>1 DEF Unwritten
    <3> HIDE DEF k
    <3> QED
      BY <1>4, <3>2, <3>3, SliceGrows DEF Unwritten
  <2>3. SumsOf(writing, writecb, writelen, length, Unwritten, size, failed /\ writev)'
    BY <1>3, <1>6, <2>1, <2>2
  <2>4. Starting(todo, writing, cursor = 0)'
    BY <1>2, <1>3, <2>1 DEF Starting
  <2>5. LedgerOf(todo, ticks, acked, writecb, sunk, Len(size), pendingcb)'
    BY <1>3, <1>4, <1>5, <2>1
  <2> QED
    BY <2>3, <2>4, <2>5 DEF Books
<1>8. CASE /\ ~MustBuffer
           /\ DoWrite(<<accepted + 1>>, n)
           /\ todo' = <<Item("body")>> \o then \o Caller
           /\ UNCHANGED buffer
  <2>1. /\ writing' = TRUE /\ writecb' = <<k>> /\ writelen' = n /\ sunk' = sunk \o <<k>>
        /\ buffer' = buffer
    BY <1>8 DEF DoWrite, accepted
  <2>2. Plain(b) /\ b.k = "body" /\ b \in Items
    BY PlainItems DEF Kinds, Owed, Plain
  <2>3. todo' = Push(b, s)
    <3>1. <<b>> \in Seq(Items)
      BY <2>2
    <3>2. todo' = (<<b>> \o then) \o Caller
      BY <1>8
    <3> HIDE DEF b
    <3>3. (<<b>> \o then) \o Caller = <<b>> \o (then \o Caller)
      BY <1>1, <3>1, ConcatAssociative
    <3> QED
      BY <3>2, <3>3 DEF Push, s
  <2>4. ~writing
    BY <1>8 DEF MustBuffer
  <2>5. Unwritten' = Unwritten
    BY <1>3, <2>1 DEF Unwritten
  <2>6. SumsOf(TRUE, <<k>>, n, length + n, Unwritten, z, failed /\ writev)
    <3>1. SumsOf(FALSE, <<>>, writelen, length, Unwritten, size, failed /\ writev)
      BY <2>4 DEF Books, SumsOf
    <3>2. SumsOf(FALSE, <<>>, writelen, length + n, Append(Unwritten, k), z, failed /\ writev)
      BY <1>6, <2>4 DEF SumsOf
    <3>3. Total(size, Unwritten) \in Nat
      BY NotWritten, TotalNumber
    <3>4. length - 0 - Total(size, Unwritten) \in Nat
      BY <3>1 DEF SumsOf
    <3> HIDE DEF z, k
    <3>5. (length + n) - n - Total(z, Unwritten) \in Nat
      BY <1>4, <1>6, <3>3, <3>4
    <3>6. Total(z, Append(Unwritten, k)) = Total(z, <<k>>) + Total(z, Unwritten)
      BY <1>6, <3>3
    <3>7. <<k>> # <<>> /\ length + n \in Int /\ (~(failed /\ writev) => n = Total(z, <<k>>))
      BY <1>4, <1>6
    <3> PICK lost : lost = (failed /\ writev)
      OBVIOUS
    <3> PICK un : un = Append(Unwritten, k)
      OBVIOUS
    <3>8. /\ SumsOf(FALSE, <<>>, writelen, length + n, un, z, lost)
          /\ Sized(z, un) /\ Sized(z, Unwritten) /\ Sized(z, <<k>>)
      BY <1>6, <3>2
    <3>9. Total(z, un) = Total(z, <<k>>) + Total(z, Unwritten) /\ n \in Nat
      BY <3>6
    <3>10. ~lost => n = Total(z, <<k>>)
      BY <3>7
    <3>11. SumsOf(TRUE, <<k>>, n, length + n, Unwritten, z, lost)
      <4> PICK zz, ids, ln, uw : zz = z /\ ids = <<k>> /\ ln = length + n /\ uw = Unwritten
        OBVIOUS
      <4>1. /\ SumsOf(FALSE, <<>>, writelen, ln, un, zz, lost)
            /\ Sized(zz, un) /\ Sized(zz, uw) /\ Sized(zz, ids) /\ ids # <<>> /\ ln \in Int
            /\ Total(zz, un) = Total(zz, ids) + Total(zz, uw) /\ n \in Nat
            /\ ln - n - Total(zz, uw) \in Nat
            /\ ~lost => n = Total(zz, ids)
        BY <3>5, <3>7, <3>8, <3>9, <3>10
      <4>2. SumsOf(TRUE, ids, n, ln, uw, zz, lost)
        BY ONLY <4>1, SumsStart
      <4> QED
        BY <4>2
    <3> QED
      BY <3>11
  <2>7. SumsOf(writing, writecb, writelen, length, Unwritten, size, failed /\ writev)'
    BY <1>3, <2>1, <2>5, <2>6
  <2> HIDE DEF b, k
  <2>8. /\ ~Has(Push(b, s), "clear") /\ (cursor = 0 => ~Has(Push(b, s), "loop"))
        /\ Push(b, s) \in Seq(Items)
    BY <1>2, <2>2, PushShape
  <2>9. Starting(todo, writing, cursor = 0)'
    BY <1>3, <2>3, <2>8 DEF Starting
  <2>10. LedgerOf(Push(b, s), ticks, acked, writecb, sunk, Len(size) + 1, pendingcb + 1)
    <3>1. SameWork(Push(b, s), s)
      BY <1>2, <2>2, PlainWork
    <3>2. SameWork(s, Push(b, s))
      BY <3>1 DEF SameWork
    <3> QED
      BY <1>5, <3>2, EvenTicks, LedgerSame
  <2>11. LedgerOf(Push(b, s), ticks, acked, <<k>>, sunk', Len(size) + 1, pendingcb + 1)
    <3>1. <<k>> \in Seq(Nat) /\ Len(<<k>>) = 1 /\ Len(size) + 1 \in Nat
      BY <1>4 DEF k
    <3>2. LedgerOf(Push(b, s), ticks, acked, <<k>>, sunk', Len(size) + 1,
                   pendingcb + 1 + (IF Len(<<k>>) > 1 THEN 1 ELSE 0))
      BY <2>1, <2>4, <2>8, <2>10, <3>1, StartedLedger
    <3>3. pendingcb + 1 + (IF Len(<<k>>) > 1 THEN 1 ELSE 0) = pendingcb + 1
      BY <1>4, <3>1
    <3> QED
      BY <3>2, <3>3
  <2>12. LedgerOf(todo, ticks, acked, writecb, sunk, Len(size), pendingcb)'
    BY <1>3, <1>4, <2>1, <2>3, <2>11
  <2> QED
    BY <2>7, <2>9, <2>12 DEF Books
<1> QED
  BY <1>7, <1>8 DEF Accept

\* A write, and the end of the stream.
LEMMA Books_Calls ==
  ASSUME IInv, IInv', Books, Write \/ End PROVE Books'
<1> DEFINE then == <<Item("endUncork"), Item("endWritable")>>
<1>1. then \in Thens /\ <<>> \in Thens
  BY DEF Thens
<1>2. \/ Call /\ \E n \in use.sizes, t \in Thens : Accept(n, t)
      \/ Call /\ \E t \in Thens : Reject(t)
      \/ PlainEnd
  BY <1>1 DEF Write, End, PlainEnd
<1> HIDE DEF then
<1>3. CASE Call /\ \E n \in use.sizes, t \in Thens : Accept(n, t)
  BY <1>3, Sizes, Books_Accept DEF Call
<1>4. CASE Call /\ \E t \in Thens : Reject(t)
  BY <1>4, Books_Reject DEF Call
<1> QED
  BY <1>2, <1>3, <1>4, Books_Cork

\* Nothing is counted at the start.
LEMMA BooksInitially == Init => Books
<1> SUFFICES ASSUME Init PROVE Books
  OBVIOUS
<1>1. /\ todo = <<>> /\ ticks = <<>> /\ buffer = <<>> /\ sunk = <<>> /\ size = <<>>
      /\ writecb = <<>> /\ acked = <<>> /\ cursor = 0 /\ length = 0 /\ writelen = 0
      /\ pendingcb = 0 /\ ~writing
  BY DEF Init
<1>2. /\ <<>> \in Seq(Nat) /\ <<>> \in Seq(Items) /\ ToSet(<<>>) = {} /\ IsInjective(<<>>)
      /\ Len(<<>>) = 0
  BY EmptySequence
<1>3. Unwritten = <<>>
  <2>1. SubSeq(<<>>, 0 + 1, Len(<<>>)) = <<>>
    OBVIOUS
  <2> QED
    BY <1>1, <2>1 DEF Unwritten
<1>4. Sized(<<>>, <<>>) /\ Total(<<>>, <<>>) = 0
  BY <1>2, TotalNone
<1>5. SumsOf(writing, writecb, writelen, length, Unwritten, size, failed /\ writev)
  BY <1>1, <1>3, <1>4 DEF SumsOf
<1>6. Starting(todo, writing, cursor = 0)
  BY <1>1, <1>2, PopShape DEF Starting
<1>7. LedgerOf(<<>>, <<>>, <<>>, <<>>, <<>>, 0, 0)
  <2>1. ~(Len(<<>>) > 1)
    BY <1>2
  <2>2. Covers({}, {}, {}, {}, {})
    BY DEF Covers
  <2>3. 0 = 0 - 0 + 0 + 0 + 0
    OBVIOUS
  <2> QED
    BY <1>2, <2>1, <2>2, <2>3, NoItems DEF LedgerOf
<1>8. LedgerOf(todo, ticks, acked, writecb, sunk, Len(size), pendingcb)
  BY <1>1, <1>2, <1>7
<1> QED
  BY <1>5, <1>6, <1>8 DEF Books

\* Every step keeps the books.
LEMMA BooksKept ==
  ASSUME LateWrites = FALSE, IInv, Books, [Next]_vars
  PROVE  Books'
<1>0. IInv'
  BY Inductive
<1>1. CASE UNCHANGED vars
  <2>1. UNCHANGED counters /\ todo' = todo /\ ticks' = ticks /\ Unwritten' = Unwritten
    BY <1>1 DEF vars, counters, config, current, queue, Unwritten
  <2> QED
    BY <2>1 DEF Books, counters
<1>2. CASE UserCall
  BY <1>0, <1>2, Books_Calls, Books_Cork, Books_Uncork DEF UserCall
<1>3. CASE CompleteLater
  BY <1>3, Books_Complete
<1>4. CASE Step
  BY <1>0, <1>4, Books_Rejected, Books_ClearBuffer, Books_Emptied, Books_LoopWrite,
     Books_LoopExit, Books_Return, Books_Complete, Books_Defer, Books_AfterWrite,
     Books_Ack, Books_AckBatch, Books_FinishMaybe, Books_Finish, Books_Uncork,
     Books_RunTick DEF Step
<1> QED
  BY <1>1, <1>2, <1>3, <1>4 DEF Next

\* The numbers stay what they are declared to be: in particular no write is taken
\* for one of negative length, as the sum of the lengths is never too small.
THEOREM TypeCorrect ==
  ASSUME LateWrites = FALSE
  PROVE  Spec => []TypeOK
<1>1. Init => IInv /\ Books
  BY Initially, BooksInitially
<1>2. IInv /\ Books /\ [Next]_vars => IInv' /\ Books'
  BY Inductive, BooksKept
<1>3. IInv /\ Books => TypeOK
  <2>1. IInv => Types /\ cursor \in Nat /\ buffer \in Seq(Nat) /\ sunk \in Seq(Nat)
    BY DEF IInv, Delivery
  <2>2. Books => writelen \in Nat
    BY DEF Books, SumsOf
  <2> QED
    BY <2>1, <2>2 DEF Types, TypeOK
<1> QED
  BY <1>1, <1>2, <1>3, PTL DEF Spec

\* The counters agree with the writes they count, at every point of every
\* interleaving: state.length is the sum of the lengths in progress and in the
\* buffer, pendingcb the callbacks owed, and no callback runs twice.
THEOREM AccountingHolds ==
  ASSUME LateWrites = FALSE
  PROVE  Spec => []Accounting
<1>1. Init => IInv /\ Books
  BY Initially, BooksInitially
<1>2. IInv /\ Books /\ [Next]_vars => IInv' /\ Books'
  BY Inductive, BooksKept
<1>3. IInv /\ Books => Accounting
  <2> SUFFICES ASSUME IInv, Books PROVE Accounting
    OBVIOUS
  <2>1. LengthAccounting
    <3>1. ~(failed /\ writev) =>
            writelen = Total(size, writecb) /\ length = writelen + Total(size, Unwritten)
      BY DEF Books, SumsOf
    <3> QED
      BY <3>1 DEF LengthAccounting
  <2>2. pendingcb = Len(size) - Len(acked) + Cardinality(Batches(todo))
                    + Cardinality(Batches(ticks)) + (IF Len(writecb) > 1 THEN 1 ELSE 0)
    BY DEF Books, LedgerOf
  <2>3. \A i, j \in DOMAIN acked : i # j => acked[i] # acked[j]
    BY DEF Books, LedgerOf, IsInjective
  <2> QED
    BY <2>1, <2>2, <2>3 DEF Accounting, CallbackLedger, accepted
<1> QED
  BY <1>1, <1>2, <1>3, PTL DEF Spec

-----------------------------------------------------------------------------
(* What is still to come: 'drain' and 'finish' *)

\* What runs between the decision to emit 'finish' and 'finish': the handler of
\* 'prefinish', with the calls that it makes.
FinishNest == {"onprefinish", "user", "rejected", "endUncork", "endWritable"}

\* Nothing else is above it, and the handler directly.
Nested(td) ==
  \A i \in 1 .. Len(td) : td[i].k = "finish" =>
    /\ \A j \in 1 .. i - 1 : td[j].k \in FinishNest
    /\ i # 1 => td[i - 1].k = "onprefinish"

\* Callbacks are followed by finishMaybe.
Guarded(td) ==
  \A i \in 1 .. Len(td) : td[i].k \in {"ack", "acks"} =>
    \E j \in i + 1 .. Len(td) : td[j].k = "finishMaybe"

\* An item that found the stream done was made after end().
FinOk(td, en) == \A i \in 1 .. Len(td) : td[i].fin => en

\* finishMaybe will run, after the callbacks of a write in progress or buffered, or
\* of one that is settled.
Busy(td, tk, wr, left) ==
  wr \/ left \/ Has(td, "defer") \/ Has(td, "after") \/ Has(tk, "after")

\* Of needDrain, ending and finished: what is owed has a cause to come.
Awake(td, tk, wr, left, nd, en, fi) ==
  /\ nd /\ ~en => Busy(td, tk, wr, left)
  /\ en /\ ~fi => Busy(td, tk, wr, left) \/ Has(td, "finishMaybe") \/ Has(td, "finish")
  /\ Guarded(td) /\ ~Has(tk, "ack")

\* 'finish' was emitted or not, and if it is about to be everything is settled.
Finishing ==
  /\ finishes = IF finished THEN 1 ELSE 0
  /\ Nested(todo)
  /\ Has(todo, "finish") =>
       ending /\ ~finished /\ pendingcb = 0 /\ ~writing /\ buffer = <<>>

Wakeful ==
  /\ Finishing
  /\ FinOk(todo, ending) /\ FinOk(ticks, ending)
  /\ ~failed =>
       Awake(todo, ticks, writing, cursor # Len(buffer), needDrain, ending, finished)

\* An item is put on the stack.
LEMMA PushWake ==
  ASSUME NEW x \in Items, NEW s \in Seq(Items), NEW en
  PROVE  /\ Nested(Push(x, s)) <=>
              /\ Nested(s)
              /\ Has(s, "finish") => /\ x.k \in FinishNest
                                     /\ Top(s) = "finish" => x.k = "onprefinish"
         /\ Guarded(Push(x, s)) <=>
              Guarded(s) /\ (x.k \in {"ack", "acks"} => Has(s, "finishMaybe"))
         /\ FinOk(Push(x, s), en) <=> (x.fin => en) /\ FinOk(s, en)
<1> DEFINE t == Push(x, s)
<1>1. /\ t \in Seq(Items) /\ Len(s) \in Nat /\ Len(t) = Len(s) + 1 /\ t[1] = x
      /\ \A i \in 1 .. Len(s) : t[i + 1] = s[i]
  BY DEF Push
<1> HIDE DEF t
<1>2. 1 \in 1 .. Len(t) /\ \A i \in 1 .. Len(s) : i + 1 \in 1 .. Len(t) /\ i + 1 # 1
  BY <1>1
<1>3. \A i \in 1 .. Len(t) : i # 1 => i - 1 \in 1 .. Len(s) /\ (i - 1) + 1 = i /\ t[i] = s[i - 1]
  BY <1>1
<1>4. Top(s) = "finish" <=> Len(s) # 0 /\ s[1].k = "finish"
  <2>1. Len(s) = 0 => Top(s) = "none"
    BY TopPlaces
  <2>2. Len(s) # 0 => Top(s) = s[1].k
    <3>1. Len(s) # 0 => Len(s) >= 1
      BY <1>1
    <3> QED
      BY <3>1, TopPlaces
  <2> QED
    BY <2>1, <2>2
<1>5. FinOk(t, en) <=> (x.fin => en) /\ FinOk(s, en)
  BY <1>1, <1>2, <1>3 DEF FinOk
<1>6. Guarded(t) <=> Guarded(s) /\ (x.k \in {"ack", "acks"} => Has(s, "finishMaybe"))
  <2>1. ASSUME Guarded(t), NEW i \in 1 .. Len(s), s[i].k \in {"ack", "acks"}
        PROVE  \E j \in i + 1 .. Len(s) : s[j].k = "finishMaybe"
    <3>1. i + 1 \in 1 .. Len(t) /\ t[i + 1] = s[i]
      BY <1>1, <1>2
    <3>2. PICK j \in (i + 1) + 1 .. Len(t) : t[j].k = "finishMaybe"
      BY <2>1, <3>1 DEF Guarded
    <3>3. j \in 1 .. Len(t) /\ j # 1 /\ j - 1 \in i + 1 .. Len(s)
      BY <1>1, <3>2
    <3> QED
      BY <1>3, <3>2, <3>3
  <2>2. ASSUME Guarded(t), x.k \in {"ack", "acks"} PROVE Has(s, "finishMaybe")
    <3>1. PICK j \in 1 + 1 .. Len(t) : t[j].k = "finishMaybe"
      BY <1>1, <1>2, <2>2 DEF Guarded
    <3>2. j \in 1 .. Len(t) /\ j # 1
      BY <3>1
    <3> QED
      BY <1>3, <3>1, <3>2 DEF Has
  <2>3. ASSUME Guarded(s), x.k \in {"ack", "acks"} => Has(s, "finishMaybe") PROVE Guarded(t)
    <3> SUFFICES ASSUME NEW i \in 1 .. Len(t), t[i].k \in {"ack", "acks"}
                 PROVE  \E j \in i + 1 .. Len(t) : t[j].k = "finishMaybe"
      BY DEF Guarded
    <3>1. CASE i = 1
      <4>1. PICK m \in 1 .. Len(s) : s[m].k = "finishMaybe"
        BY <1>1, <2>3, <3>1 DEF Has
      <4>2. m + 1 \in i + 1 .. Len(t) /\ t[m + 1] = s[m]
        BY <1>1, <3>1
      <4> QED
        BY <4>1, <4>2
    <3>2. CASE i # 1
      <4>1. i - 1 \in 1 .. Len(s) /\ t[i] = s[i - 1]
        BY <1>3, <3>2
      <4>2. PICK m \in (i - 1) + 1 .. Len(s) : s[m].k = "finishMaybe"
        BY <2>3, <4>1 DEF Guarded
      <4>3. m + 1 \in i + 1 .. Len(t) /\ m \in 1 .. Len(s)
        BY <1>1, <4>1, <4>2
      <4> QED
        BY <1>1, <4>2, <4>3
    <3> QED
      BY <3>1, <3>2
  <2>4. Guarded(t) => Guarded(s)
    BY <2>1 DEF Guarded
  <2> QED
    BY <2>2, <2>3, <2>4
<1>7. Nested(t) <=> /\ Nested(s)
                    /\ Has(s, "finish") => /\ x.k \in FinishNest
                                           /\ Top(s) = "finish" => x.k = "onprefinish"
  <2>1. ASSUME Nested(t), NEW i \in 1 .. Len(s), s[i].k = "finish"
        PROVE  /\ \A j \in 1 .. i - 1 : s[j].k \in FinishNest
               /\ i # 1 => s[i - 1].k = "onprefinish"
               /\ x.k \in FinishNest
               /\ i = 1 => x.k = "onprefinish"
    <3>1. i + 1 \in 1 .. Len(t) /\ t[i + 1].k = "finish" /\ i + 1 # 1 /\ (i + 1) - 1 = i
      BY <1>1, <1>2, <2>1
    <3>2. \A j \in 1 .. i : t[j].k \in FinishNest
      BY <2>1, <3>1 DEF Nested
    <3>3. t[i].k = "onprefinish"
      BY <2>1, <3>1 DEF Nested
    <3>4. \A j \in 1 .. i - 1 : j \in 1 .. Len(s) /\ j + 1 \in 1 .. i
      BY <1>1
    <3>5. 1 \in 1 .. i /\ (i # 1 => i - 1 \in 1 .. Len(s) /\ (i - 1) + 1 = i)
      BY <1>1
    <3>6. i # 1 => s[i - 1].k = "onprefinish"
      BY <1>1, <3>3, <3>5
    <3> QED
      BY <1>1, <3>2, <3>3, <3>4, <3>5, <3>6
  <2>2. ASSUME Nested(t) PROVE Nested(s)
    BY <2>1, <2>2 DEF Nested
  <2>3. ASSUME Nested(t), Has(s, "finish") PROVE x.k \in FinishNest
    <3>1. PICK i \in 1 .. Len(s) : s[i].k = "finish"
      BY <2>3 DEF Has
    <3> QED
      BY <2>1, <2>3, <3>1
  <2>4. ASSUME Nested(t), Top(s) = "finish" PROVE x.k = "onprefinish"
    <3>1. 1 \in 1 .. Len(s) /\ s[1].k = "finish"
      BY <1>1, <1>4, <2>4
    <3> QED
      BY <2>1, <2>4, <3>1
  <2>5. ASSUME Nested(s), Has(s, "finish") => /\ x.k \in FinishNest
                                              /\ Top(s) = "finish" => x.k = "onprefinish"
        PROVE  Nested(t)
    <3> SUFFICES ASSUME NEW i \in 1 .. Len(t), t[i].k = "finish"
                 PROVE  /\ \A j \in 1 .. i - 1 : t[j].k \in FinishNest
                        /\ i # 1 => t[i - 1].k = "onprefinish"
      BY DEF Nested
    <3>1. CASE i = 1
      BY <3>1
    <3>2. CASE i # 1
      <4> DEFINE m == i - 1
      <4>1. m \in 1 .. Len(s) /\ m + 1 = i /\ s[m].k = "finish"
        BY <1>3, <3>2
      <4> HIDE DEF m
      <4>2. Has(s, "finish")
        BY <4>1 DEF Has
      <4>3. /\ \A j \in 1 .. m - 1 : s[j].k \in FinishNest
            /\ m # 1 => s[m - 1].k = "onprefinish"
        BY <2>5, <4>1 DEF Nested
      <4>4. \A j \in 1 .. m : j = 1 \/ (j - 1 \in 1 .. m - 1 /\ j \in 1 .. Len(t) /\ j # 1)
        BY <1>1, <4>1
      <4>5. \A j \in 1 .. m : t[j].k \in FinishNest
        BY <1>1, <1>3, <2>5, <4>2, <4>3, <4>4
      <4>6. m = 1 => t[m].k = "onprefinish"
        <5>1. m = 1 => Top(s) = "finish"
          BY <1>1, <1>4, <4>1
        <5> QED
          BY <1>1, <2>5, <4>2, <5>1
      <4>7. m # 1 => t[m].k = "onprefinish"
        <5>1. m # 1 => m \in 1 .. Len(t)
          BY <1>1, <4>1
        <5> QED
          BY <1>3, <4>3, <5>1
      <4>8. i - 1 = m
        BY <4>1
      <4> QED
        BY <4>5, <4>6, <4>7, <4>8
    <3> QED
      BY <3>1, <3>2
  <2> QED
    BY <2>2, <2>3, <2>4, <2>5
<1> QED
  BY <1>5, <1>6, <1>7 DEF t

\* An item is put at the end of the queue.
LEMMA AppendWake ==
  ASSUME NEW x \in Items, NEW s \in Seq(Items), NEW en
  PROVE  /\ \A k : Has(Append(s, x), k) <=> x.k = k \/ Has(s, k)
         /\ FinOk(Append(s, x), en) <=> (x.fin => en) /\ FinOk(s, en)
<1> DEFINE t == Append(s, x)
<1>1. /\ t \in Seq(Items) /\ Len(s) \in Nat /\ Len(t) = Len(s) + 1 /\ t[Len(s) + 1] = x
      /\ \A i \in 1 .. Len(s) : t[i] = s[i]
  OBVIOUS
<1> HIDE DEF t
<1>2. /\ Len(s) + 1 \in 1 .. Len(t) /\ \A i \in 1 .. Len(s) : i \in 1 .. Len(t)
      /\ \A i \in 1 .. Len(t) : i \in 1 .. Len(s) \/ i = Len(s) + 1
  BY <1>1
<1>3. FinOk(t, en) <=> (x.fin => en) /\ FinOk(s, en)
  BY <1>1, <1>2 DEF FinOk
<1>4. \A k : Has(t, k) <=> x.k = k \/ Has(s, k)
  BY <1>1, <1>2 DEF Has
<1> QED
  BY <1>3, <1>4 DEF t

\* The empty stack.
LEMMA NoneWake ==
  ASSUME NEW en
  PROVE  /\ Nested(<<>>) /\ Guarded(<<>>) /\ FinOk(<<>>, en)
         /\ \A k : ~Has(<<>>, k)
<1>1. 1 .. Len(<<>>) = {}
  OBVIOUS
<1> QED
  BY <1>1 DEF Nested, Guarded, FinOk, Has

\* A stack on which the same is to come as on the call stack.
Alike(s) ==
  /\ s \in Seq(Items) /\ Nested(s)
  /\ \A k \in {"defer", "after", "finishMaybe", "finish"} : Has(s, k) <=> Has(todo, k)
  /\ ~failed => Guarded(s)
  /\ FinOk(s, ending)

\* The kinds that matter to it.
Wakers == {"defer", "after", "finishMaybe", "finish"}

\* The call stack itself, and without an item that does not matter.
LEMMA AlikeTop ==
  ASSUME IInv, Wakeful
  PROVE  /\ Alike(todo)
         /\ todo # <<>> /\ Top(todo) \notin Wakers => Alike(Tail(todo))
<1>1. Alike(todo)
  BY DEF Alike, IInv, Types, Wakeful, Finishing, Awake
<1>2. ASSUME todo # <<>>, Top(todo) \notin Wakers PROVE Alike(Tail(todo))
  <2>1. PICK x \in Items, s \in Seq(Items) : todo = Push(x, s) /\ Tail(todo) = s /\ Top(todo) = x.k
    BY <1>1, <1>2, PopShape DEF Alike
  <2>2. \A k : Has(todo, k) <=> x.k = k \/ Has(s, k)
    BY <2>1, PushShape
  <2>3. Nested(s) /\ (Guarded(todo) => Guarded(s)) /\ FinOk(s, ending)
    BY <1>1, <2>1, PushWake DEF Alike
  <2> QED
    BY <1>1, <1>2, <2>1, <2>2, <2>3 DEF Alike, Wakers
<1> QED
  BY <1>1, <1>2

\* What may be put on it.
Idle(x, s) ==
  /\ x \in Items /\ ~x.fin /\ x.k \notin Wakers
  /\ ~failed /\ x.k \in {"ack", "acks"} => Has(s, "finishMaybe")
  /\ Has(s, "finish") => x.k \in FinishNest /\ (Top(s) = "finish" => x.k = "onprefinish")

\* It stays alike.
LEMMA AlikePush ==
  ASSUME NEW s, Alike(s), NEW x, Idle(x, s)
  PROVE  Alike(Push(x, s))
<1>1. s \in Seq(Items) /\ x \in Items
  BY DEF Alike, Idle
<1>2. /\ Push(x, s) \in Seq(Items)
      /\ \A k : Has(Push(x, s), k) <=> x.k = k \/ Has(s, k)
  BY <1>1, PushShape
<1>3. Nested(Push(x, s))
  BY <1>1, PushWake DEF Alike, Idle
<1>4. ~failed => Guarded(Push(x, s))
  BY <1>1, PushWake DEF Alike, Idle
<1>5. FinOk(Push(x, s), ending)
  BY <1>1, PushWake DEF Alike, Idle
<1> QED
  BY <1>2, <1>3, <1>4, <1>5 DEF Alike, Idle, Wakers

\* While 'finish' is about to be emitted only 'prefinish' handlers run, and what
\* they call.
LEMMA FinishTop ==
  ASSUME IInv, Wakeful, Has(todo, "finish")
  PROVE  /\ todo # <<>> /\ Top(todo) \in FinishNest \cup {"finish"}
         /\ ending /\ ~finished /\ pendingcb = 0 /\ ~writing /\ buffer = <<>>
<1>1. todo \in Seq(Items) /\ Nested(todo)
  BY DEF IInv, Types, Wakeful, Finishing
<1>2. PICK i \in 1 .. Len(todo) : todo[i].k = "finish"
  BY DEF Has
<1>3. Len(todo) >= 1 /\ todo # <<>> /\ Top(todo) = todo[1].k
  <2>1. Len(todo) \in Nat /\ Len(todo) >= 1
    BY <1>1, <1>2
  <2>2. todo # <<>>
    BY <2>1
  <2> QED
    BY <1>1, <2>1, <2>2, TopPlaces
<1>4. i = 1 \/ 1 \in 1 .. i - 1
  BY <1>1, <1>2
<1>5. todo[1].k \in FinishNest \cup {"finish"}
  BY <1>1, <1>2, <1>4 DEF Nested
<1> QED
  BY <1>3, <1>5 DEF Wakeful, Finishing

\* What is looked at by the invariant, but for the stack, the ticks and pendingcb.
owedState == <<needDrain, writing, buffer, cursor, ending, finished, finishes, failed>>

\* The ticks, too, have the same to come.
AlikeTicks(tk) ==
  /\ Has(tk, "after") <=> Has(ticks, "after")
  /\ Has(tk, "ack") => Has(ticks, "ack")
  /\ FinOk(tk, ending)

\* The same ticks, or one more callback of the user.
LEMMA TicksAlike ==
  ASSUME IInv, Wakeful
  PROVE  AlikeTicks(ticks) /\ AlikeTicks(Append(ticks, Item("user")))
<1>1. ticks \in Seq(Items) /\ FinOk(ticks, ending)
  BY DEF IInv, Types, Wakeful
<1>2. Item("user") \in Items /\ Item("user").k = "user" /\ ~Item("user").fin
  BY NewKinds DEF Item
<1> DEFINE x == Item("user")
<1> HIDE DEF x
<1>3. /\ \A k : Has(Append(ticks, x), k) <=> x.k = k \/ Has(ticks, k)
      /\ FinOk(Append(ticks, x), ending) <=> (x.fin => ending) /\ FinOk(ticks, ending)
  BY <1>1, <1>2, AppendWake DEF x
<1> QED
  BY <1>1, <1>2, <1>3 DEF AlikeTicks, x

\* A step that leaves the same to come.
LEMMA AlikeStep ==
  ASSUME Wakeful, Alike(todo'), AlikeTicks(ticks'), UNCHANGED owedState,
         Has(todo, "finish") => pendingcb' = pendingcb
  PROVE  Wakeful'
<1>1. UNCHANGED <<needDrain, writing, buffer, cursor, ending, finished, finishes, failed>>
  BY DEF owedState
<1>2. Finishing'
  BY <1>1 DEF Wakeful, Finishing, Alike
<1>3. FinOk(todo', ending') /\ FinOk(ticks', ending')
  BY <1>1 DEF Alike, AlikeTicks
<1>4. ASSUME ~failed'
      PROVE  Awake(todo, ticks, writing, cursor # Len(buffer), needDrain, ending, finished)'
  <2>1. /\ Guarded(todo')
        /\ Awake(todo, ticks, writing, cursor # Len(buffer), needDrain, ending, finished)
    BY <1>1, <1>4 DEF Alike, Wakeful
  <2>2. ~Has(ticks', "ack")
    BY <2>1 DEF Awake, AlikeTicks
  <2> DEFINE left == cursor # Len(buffer)
  <2>3. left' = left
    BY <1>1
  <2> HIDE DEF left
  <2>4. Busy(todo', ticks', writing, left) <=> Busy(todo, ticks, writing, left)
    BY DEF Busy, Alike, AlikeTicks
  <2>5. Awake(todo', ticks', writing, left, needDrain, ending, finished)
    BY <2>1, <2>2, <2>4 DEF Awake, Alike, left
  <2> QED
    BY <1>1, <2>3, <2>5 DEF left
<1> QED
  BY <1>2, <1>3, <1>4 DEF Wakeful

\* The items that actions push are idle on a stack without 'finish'.
LEMMA IdleItem ==
  ASSUME NEW s, Alike(s), NEW k \in Kinds, k \notin Wakers \cup {"ack", "acks"},
         Has(todo, "finish") => k \in FinishNest /\ Top(s) # "finish"
  PROVE  Alike(Push(Item(k), s)) /\ Top(Push(Item(k), s)) = k
<1>1. Item(k) \in Items /\ Item(k).k = k /\ ~Item(k).fin
  BY NewItems DEF Item
<1>2. Has(s, "finish") => Has(todo, "finish")
  BY DEF Alike
<1>3. Idle(Item(k), s)
  BY <1>1, <1>2 DEF Idle
<1>4. Top(Push(Item(k), s)) = k
  BY <1>1, PushShape DEF Alike
<1> QED
  BY <1>3, <1>4, AlikePush

\* User code runs on such a stack, where 'finish' is not next.
LEMMA AlikeCaller ==
  ASSUME IInv, Wakeful, UserRuns
  PROVE  Alike(Caller) /\ Top(Caller) # "finish"
<1>1. Top(todo) # "finish" /\ Alike(todo)
  BY AlikeTop DEF UserRuns, Running, Top, Handlers
<1>2. CASE todo = <<>>
  <2>1. ~Has(todo, "finish")
    BY <1>2, FinishTop
  <2>2. /\ Alike(Push(Item("user"), todo))
        /\ Top(Push(Item("user"), todo)) = "user"
    BY <1>1, <2>1, IdleItem DEF Kinds, Handlers, Wakers
  <2>3. Push(Item("user"), todo) = Caller
    BY <1>2 DEF Push, Caller
  <2> QED
    BY <2>2, <2>3
<1> QED
  BY <1>1, <1>2 DEF Caller

\* The rest of end() waits on it.
LEMMA AlikeThen ==
  ASSUME IInv, Wakeful, UserRuns, NEW then \in Thens
  PROVE  /\ Alike(then \o Caller) /\ Top(then \o Caller) # "finish"
         /\ then \in Seq(Items) /\ Caller \in Seq(Items)
<1>1. Alike(Caller) /\ Caller \in Seq(Items) /\ Top(Caller) # "finish"
  BY AlikeCaller DEF Alike
<1> DEFINE a == Item("endUncork")
           b == Item("endWritable")
<1>2. a \in Items /\ b \in Items
  BY NewKinds
<1>3. <<>> \o Caller = Caller /\ <<>> \in Seq(Items)
  BY <1>1
<1>4. Alike(Push(b, Caller)) /\ Top(Push(b, Caller)) = "endWritable"
  BY <1>1, IdleItem DEF Kinds, Wakers, FinishNest
<1>5. Alike(Push(a, Push(b, Caller))) /\ Top(Push(a, Push(b, Caller))) = "endUncork"
  BY <1>4, IdleItem DEF Kinds, Wakers, FinishNest
<1>6. ASSUME then = <<a, b>>
      PROVE  Alike(then \o Caller) /\ Top(then \o Caller) # "finish" /\ then \in Seq(Items)
  <2> HIDE DEF a, b
  <2>1. <<a, b>> \o Caller = Push(a, Push(b, Caller))
    BY <1>1, <1>2, PushMany
  <2>2. <<a, b>> \in Seq(Items)
    BY <1>2
  <2> QED
    BY <1>5, <1>6, <2>1, <2>2
<1> QED
  BY <1>1, <1>3, <1>6 DEF Thens

\* A handler returns, a body returns, end() returns: nothing was waiting for it.
LEMMA Wake_Pop ==
  ASSUME IInv, Wakeful, Return \/ BodyReturns \/ EndTail \/ Rejected
  PROVE  Wakeful'
<1> DEFINE k == Head(todo).k
<1>1. /\ todo # <<>> /\ Top(todo) = k
      /\ k \in Handlers \cup {"body", "unsync", "endTail", "rejected"}
  BY DEF Return, BodyReturns, EndTail, Rejected, Running, Top
<1> HIDE DEF k
<1>2. Alike(Tail(todo))
  BY <1>1, AlikeTop DEF Handlers, Wakers
<1>3. /\ todo' = Tail(todo) /\ UNCHANGED owedState /\ pendingcb' = pendingcb
      /\ ticks' \in {ticks, Append(ticks, Item("user"))}
  BY DEF Return, BodyReturns, EndTail, Rejected, owedState, queue, flags, current
<1> QED
  BY <1>2, <1>3, AlikeStep, TicksAlike

\* 'error' is emitted: no 'finish' is on its way.
LEMMA Wake_EmitError ==
  ASSUME IInv, Wakeful, EmitError PROVE Wakeful'
<1>1. todo # <<>> /\ Top(todo) = "emitError"
  BY DEF EmitError, Running, Top
<1>2. Alike(Tail(todo)) /\ ~Has(todo, "finish")
  BY <1>1, AlikeTop, FinishTop DEF Wakers, FinishNest
<1>3. Alike(Push(Item("user"), Tail(todo)))
  BY <1>2, IdleItem DEF Kinds, Handlers, Wakers
<1>4. /\ todo' = Push(Item("user"), Tail(todo)) /\ UNCHANGED owedState
      /\ ticks' = ticks /\ pendingcb' = pendingcb
  BY DEF EmitError, owedState, queue, current, Push
<1> QED
  BY <1>3, <1>4, AlikeStep, TicksAlike

\* The calls that accept nothing.
LEMMA Wake_Reject ==
  ASSUME IInv, Wakeful, UserRuns, NEW then \in Thens, Reject(then) PROVE Wakeful'
<1> DEFINE s == then \o Caller
           a == Item("user")
           b == Item("rejected")
<1>1. Alike(s) /\ Top(s) # "finish" /\ then \in Seq(Items) /\ Caller \in Seq(Items)
  BY AlikeThen
<1>2. s \in Seq(Items) /\ a \in Items /\ b \in Items
  BY <1>1, NewKinds DEF Alike
<1>3. todo' = (<<a, b>> \o then) \o Caller
  BY DEF Reject
<1>4. UNCHANGED owedState /\ ticks' = ticks /\ pendingcb' = pendingcb
  BY DEF Reject, owedState, queue, flags, current
<1>5. Alike(Push(b, s)) /\ Top(Push(b, s)) = "rejected"
  BY <1>1, IdleItem DEF Kinds, Wakers, FinishNest
<1>6. Alike(Push(a, Push(b, s)))
  BY <1>5, IdleItem DEF Kinds, Handlers, Wakers, FinishNest
<1>7. todo' = Push(a, Push(b, s))
  <2> HIDE DEF a, b
  <2>1. <<a, b>> \in Seq(Items)
    BY <1>2
  <2>2. (<<a, b>> \o then) \o Caller = <<a, b>> \o (then \o Caller)
    BY <1>1, <2>1, ConcatAssociative
  <2>3. <<a, b>> \o s = Push(a, Push(b, s))
    BY <1>2, PushMany
  <2> QED
    BY <1>3, <2>2, <2>3
<1> QED
  BY <1>4, <1>6, <1>7, AlikeStep, TicksAlike

\* cork() and end() without a chunk.
LEMMA Wake_Cork ==
  ASSUME IInv, Wakeful, Cork \/ PlainEnd PROVE Wakeful'
<1>1. UserRuns
  BY DEF Cork, PlainEnd, Call
<1>2. \E then \in Thens : todo' = then \o Caller
  <2>1. Caller \in Seq(Items)
    BY <1>1, AlikeCaller DEF Alike
  <2>2. <<>> \o Caller = Caller
    BY <2>1
  <2> QED
    BY <2>2 DEF Cork, PlainEnd, Thens
<1>3. Alike(todo')
  BY <1>1, <1>2, AlikeThen
<1>4. UNCHANGED owedState /\ ticks' = ticks /\ pendingcb' = pendingcb
  BY DEF Cork, PlainEnd, owedState, queue, flags, current
<1> QED
  BY <1>3, <1>4, AlikeStep, TicksAlike

\* uncork() starts clearBuffer only if there is something in the buffer, and then
\* no 'finish' is on its way.
LEMMA Wake_UncorkFrom ==
  ASSUME IInv, Wakeful, NEW n \in Nat, NEW s, Alike(s), UncorkFrom(n, s)
  PROVE  Wakeful'
<1>1. UNCHANGED owedState /\ ticks' = ticks /\ pendingcb' = pendingcb
  BY DEF UncorkFrom, owedState, queue, flags, current
<1>2. todo' = s \/ (buffer # <<>> /\ todo' = Push(Item("clear"), s))
  BY DEF UncorkFrom, Push
<1>3. ASSUME buffer # <<>> PROVE Alike(Push(Item("clear"), s))
  <2>1. ~Has(todo, "finish")
    BY <1>3, FinishTop
  <2> QED
    BY <2>1, IdleItem DEF Kinds, Wakers
<1>4. Alike(todo')
  BY <1>2, <1>3
<1> QED
  BY <1>1, <1>4, AlikeStep, TicksAlike

\* uncork() called by the user, or by end().
LEMMA Wake_Uncork ==
  ASSUME IInv, Wakeful, Uncork \/ EndUncork PROVE Wakeful'
<1>1. CASE Uncork
  <2>1. UserRuns /\ corked \in Nat
    BY <1>1 DEF Uncork, Call, IInv, Types
  <2> QED
    BY <1>1, <2>1, AlikeCaller, Wake_UncorkFrom DEF Uncork
<1>2. CASE EndUncork
  <2> DEFINE n == IF corked > 0 THEN 1 ELSE 0
  <2>1. todo # <<>> /\ Top(todo) = "endUncork"
    BY <1>2 DEF EndUncork, Running, Top
  <2>2. n \in Nat /\ UncorkFrom(n, Tail(todo))
    BY <1>2 DEF EndUncork
  <2> HIDE DEF n
  <2>3. Alike(Tail(todo))
    BY <2>1, AlikeTop DEF Wakers
  <2> QED
    BY <2>2, <2>3, Wake_UncorkFrom
<1> QED
  BY <1>1, <1>2

\* A step that leaves something busy.
LEMMA BusyStep ==
  ASSUME Wakeful, ~Has(todo', "finish"), UNCHANGED <<finished, finishes>>,
         FinOk(todo', ending'), FinOk(ticks', ending'),
         ~failed' => /\ Guarded(todo') /\ ~Has(ticks', "ack")
                     /\ Busy(todo', ticks', writing', cursor' # Len(buffer'))
  PROVE  Wakeful'
<1>1. Nested(todo')
  BY DEF Nested, Has
<1>2. Finishing'
  BY <1>1 DEF Wakeful, Finishing
<1>3. ~failed' =>
        Awake(todo, ticks, writing, cursor # Len(buffer), needDrain, ending, finished)'
  BY DEF Awake
<1> QED
  BY <1>2, <1>3 DEF Wakeful

\* An item that does not matter is replaced by what a step of the stream puts there,
\* and no 'finish' is on its way.
LEMMA TopIdle ==
  ASSUME IInv, Wakeful, NEW k, Running(k), k \notin FinishNest \cup {"finish"}
  PROVE  /\ ~Has(todo, "finish") /\ todo # <<>> /\ Top(todo) = k
         /\ k \notin Wakers => Alike(Tail(todo)) /\ Alike(todo)
<1>1. todo # <<>> /\ Top(todo) = k
  BY DEF Running, Top
<1> QED
  BY <1>1, AlikeTop, FinishTop

\* A body is put on a stack whose write has just started.
LEMMA BodyWake ==
  ASSUME IInv, Wakeful, NEW s, Alike(s), ~Has(todo, "finish"), writing',
         todo' = Push(Item("body"), s),
         UNCHANGED <<ending, finished, finishes, failed, ticks>>
  PROVE  Wakeful'
<1>1. Alike(Push(Item("body"), s))
  BY IdleItem DEF Kinds, Wakers
<1>2. /\ ~Has(todo', "finish") /\ FinOk(todo', ending')
      /\ ~failed' => Guarded(todo')
  BY <1>1 DEF Alike
<1>3. FinOk(ticks', ending')
  BY DEF Wakeful
<1>4. ~failed' => ~Has(ticks', "ack")
  BY DEF Wakeful, Awake
<1>5. Busy(todo', ticks', writing', cursor' # Len(buffer'))
  BY DEF Busy
<1> QED
  BY <1>2, <1>3, <1>4, <1>5, BusyStep

\* A batch or the loop starts.
LEMMA Wake_ClearBuffer ==
  ASSUME IInv, Wakeful, ClearBuffer PROVE Wakeful'
<1> DEFINE s == Tail(todo)
<1>1. ~Has(todo, "finish") /\ Alike(s) /\ s \in Seq(Items)
  BY TopIdle DEF ClearBuffer, Wakers, FinishNest, Alike
<1>2. UNCHANGED <<needDrain, buffer, ending, finished, finishes, failed, ticks>>
  BY DEF ClearBuffer, flags
<1>3. \/ /\ writing' /\ todo' = <<Item("body"), Item("emptied")>> \o s
      \/ /\ UNCHANGED <<writing, cursor, pendingcb>>
         /\ todo' = <<Item("loop")>> \o s
  BY DEF ClearBuffer, DoWrite, current
<1> HIDE DEF s
<1>4. Item("body") \in Items /\ Item("emptied") \in Items
  BY NewKinds
<1>5. CASE writing' /\ todo' = <<Item("body"), Item("emptied")>> \o s
  <2>1. Alike(Push(Item("emptied"), s))
    BY <1>1, IdleItem DEF Kinds, Wakers
  <2>2. <<Item("body"), Item("emptied")>> \o s = Push(Item("body"), Push(Item("emptied"), s))
    BY <1>1, <1>4, PushMany
  <2> QED
    BY <1>1, <1>2, <1>5, <2>1, <2>2, BodyWake
<1>6. CASE UNCHANGED <<writing, cursor, pendingcb>> /\ todo' = <<Item("loop")>> \o s
  <2>1. Alike(Push(Item("loop"), s))
    BY <1>1, IdleItem DEF Kinds, Wakers
  <2>2. Alike(todo')
    BY <1>6, <2>1 DEF Push
  <2>3. UNCHANGED owedState
    BY <1>2, <1>6 DEF owedState
  <2> QED
    BY <1>2, <1>6, <2>2, <2>3, AlikeStep, TicksAlike
<1> QED
  BY <1>3, <1>5, <1>6

\* The next entry is handed over.
LEMMA Wake_LoopWrite ==
  ASSUME IInv, Wakeful, LoopWrite PROVE Wakeful'
<1>1. ~Has(todo, "finish") /\ Alike(todo)
  BY TopIdle DEF LoopWrite, Wakers, FinishNest
<1>2. /\ UNCHANGED <<ending, finished, finishes, failed, ticks>>
      /\ writing' /\ todo' = Push(Item("body"), todo)
  BY DEF LoopWrite, flags, DoWrite, Push
<1> QED
  BY <1>1, <1>2, BodyWake

\* A clearBuffer that stops forgets what was handed over.
LEMMA Wake_LoopDone ==
  ASSUME IInv, Wakeful, Emptied \/ LoopExit PROVE Wakeful'
<1> DEFINE k == Head(todo).k
<1>1. k \in LoopKinds /\ Running(k)
  BY DEF Emptied, LoopExit, Running, LoopKinds
<1>2. k = "emptied" => Emptied
  BY DEF Emptied, LoopExit, Running
<1> HIDE DEF k
<1>3. /\ ~Has(todo, "finish") /\ Alike(Tail(todo)) /\ todo # <<>> /\ Top(todo) = k
      /\ todo \in Seq(Items)
  BY <1>1, TopIdle DEF LoopKinds, Wakers, FinishNest, IInv, Types
<1>4. /\ todo' = Tail(todo) /\ cursor' = 0 /\ ticks' = ticks
      /\ UNCHANGED <<needDrain, writing, ending, finished, finishes, failed>>
  BY DEF Emptied, LoopExit, flags, current
<1>5. ~failed => ((cursor # Len(buffer))' <=> cursor # Len(buffer))
  <2>1. CASE Emptied
    <3>1. Has(todo, "emptied")
      <4>1. PICK x \in Items, s \in Seq(Items) : todo = Push(x, s) /\ Top(todo) = x.k
        BY <1>3, PopShape
      <4>2. Top(todo) = "emptied"
        BY <2>1 DEF Emptied, Running, Top
      <4> QED
        BY <4>1, <4>2, PushShape
    <3>2. ~failed => cursor = Len(buffer)
      BY <3>1 DEF IInv, Clearing
    <3>3. buffer' = <<>> /\ cursor' = Len(buffer')
      BY <2>1 DEF Emptied
    <3> QED
      BY <3>2, <3>3
  <2>2. CASE LoopExit
    <3>1. cursor \in Nat /\ cursor <= Len(buffer) /\ buffer \in Seq(Nat) /\ Len(buffer) \in Nat
      BY DEF IInv, Delivery
    <3>2. buffer' = SubSeq(buffer, cursor + 1, Len(buffer))
      BY <2>2 DEF LoopExit, Unwritten
    <3>3. Len(buffer') = Len(buffer) - cursor
      BY <3>1, <3>2
    <3> QED
      BY <1>4, <3>1, <3>3
  <2> QED
    BY <2>1, <2>2
<1>6. FinOk(todo', ending') /\ FinOk(ticks', ending')
  BY <1>3, <1>4 DEF Alike, Wakeful
<1>7. ~Has(todo', "finish")
  BY <1>3, <1>4 DEF Alike
<1>8. Finishing'
  BY <1>4, <1>7 DEF Wakeful, Finishing, Nested, Has
<1> DEFINE left == cursor # Len(buffer)
<1>9. ASSUME ~failed' PROVE Awake(todo', ticks', writing', left', needDrain', ending', finished')
  <2>1. (left' <=> left) /\ ~failed
    BY <1>4, <1>5, <1>9
  <2>2. Awake(todo, ticks, writing, left, needDrain, ending, finished)
    BY <2>1 DEF Wakeful
  <2> HIDE DEF left
  <2>3. Busy(todo', ticks', writing', left') <=> Busy(todo, ticks, writing, left)
    BY <1>3, <1>4, <2>1 DEF Busy, Alike
  <2> QED
    BY <1>3, <1>4, <2>1, <2>2, <2>3 DEF Awake, Alike
<1> QED
  BY <1>6, <1>8, <1>9 DEF Wakeful

\* The item on top is taken off: what it was, and what is left.
LEMMA TakeOff ==
  ASSUME IInv, Wakeful, NEW k, Running(k), k \notin FinishNest \cup {"finish"}
  PROVE  \E x \in Items, s \in Seq(Items) :
           /\ todo = Push(x, s) /\ Tail(todo) = s /\ Head(todo) = x /\ x.k = k
           /\ x.ids \in Seq(Nat)
           /\ ~Has(s, "finish") /\ FinOk(s, ending) /\ (x.fin => ending)
           /\ ~failed => /\ Guarded(s)
                         /\ k \in {"ack", "acks"} => Has(s, "finishMaybe")
           /\ \A j : Has(todo, j) <=> j = k \/ Has(s, j)
<1>1. ~Has(todo, "finish") /\ todo # <<>> /\ Top(todo) = k
  BY TopIdle
<1>2. todo \in Seq(Items) /\ FinOk(todo, ending) /\ (~failed => Guarded(todo))
  BY DEF IInv, Types, Wakeful, Awake
<1>3. PICK x \in Items, s \in Seq(Items) : todo = Push(x, s) /\ Tail(todo) = s /\ Top(todo) = x.k
  BY <1>1, <1>2, PopShape
<1>4. Head(todo) = x /\ \A j : Has(todo, j) <=> x.k = j \/ Has(s, j)
  BY <1>3, PushShape
<1>5. /\ FinOk(s, ending) /\ (x.fin => ending)
      /\ ~failed => Guarded(s) /\ (x.k \in {"ack", "acks"} => Has(s, "finishMaybe"))
  BY <1>2, <1>3, PushWake
<1> QED
  BY <1>1, <1>3, <1>4, <1>5, NewItems

\* afterWrite is deferred: it is still to come.
LEMMA Wake_Defer ==
  ASSUME IInv, Wakeful, Defer PROVE Wakeful'
<1>1. Running("defer")
  BY DEF Defer
<1>2. PICK x \in Items, s \in Seq(Items) :
        /\ todo = Push(x, s) /\ Tail(todo) = s /\ Head(todo) = x /\ x.k = "defer"
        /\ ~Has(s, "finish") /\ FinOk(s, ending) /\ (x.fin => ending)
        /\ ~failed => Guarded(s)
  BY <1>1, TakeOff DEF FinishNest
<1> DEFINE y == [x EXCEPT !.k = "after"]
<1>3. y \in Items /\ y.k = "after" /\ y.fin = x.fin
  BY DEF Items, Kinds
<1>4. /\ todo' = s /\ ticks' = Append(ticks, y) /\ ticks \in Seq(Items)
      /\ UNCHANGED <<ending, finished, finishes, failed>>
  BY <1>2 DEF Defer, flags, IInv, Types
<1> HIDE DEF y
<1>5. /\ \A k : Has(ticks', k) <=> y.k = k \/ Has(ticks, k)
      /\ FinOk(ticks', ending) <=> (y.fin => ending) /\ FinOk(ticks, ending)
  BY <1>3, <1>4, AppendWake
<1>6. FinOk(todo', ending') /\ FinOk(ticks', ending')
  BY <1>2, <1>3, <1>4, <1>5 DEF Wakeful
<1>7. Busy(todo', ticks', writing', cursor' # Len(buffer'))
  BY <1>3, <1>5 DEF Busy
<1>8. ~failed' => Guarded(todo') /\ ~Has(ticks', "ack")
  BY <1>2, <1>3, <1>4, <1>5 DEF Wakeful, Awake
<1> QED
  BY <1>2, <1>4, <1>6, <1>7, <1>8, BusyStep

\* A tick runs on the empty stack.
LEMMA Wake_RunTick ==
  ASSUME IInv, Wakeful, RunTick PROVE Wakeful'
<1> DEFINE x == Head(ticks)
           r == Tail(ticks)
<1>1. /\ todo = <<>> /\ ticks # <<>> /\ ticks \in Seq(Items)
      /\ FinOk(ticks, ending) /\ \A i \in 1 .. Len(ticks) : ticks[i].k \in TickKinds
  BY DEF RunTick, IInv, Types, Wakeful
<1>2. /\ x \in Items /\ r \in Seq(Items) /\ ticks = Push(x, r)
  BY <1>1 DEF Push
<1>3. todo' = Push(x, <<>>) /\ ticks' = r
  <2>1. todo' = <<x>> /\ <<x>> = <<x>> \o <<>>
    BY DEF RunTick
  <2> QED
    BY <2>1 DEF RunTick, Push
<1>4. UNCHANGED <<owedState, pendingcb>>
  BY DEF RunTick, owedState, flags, queue, current
<1> HIDE DEF x, r
<1>5. /\ \A k : Has(ticks, k) <=> x.k = k \/ Has(r, k)
      /\ FinOk(ticks, ending) <=> (x.fin => ending) /\ FinOk(r, ending)
  BY <1>2, PushShape, PushWake
<1>6. /\ Nested(<<>>) /\ Guarded(<<>>) /\ FinOk(<<>>, ending) /\ \A k : ~Has(<<>>, k)
      /\ <<>> \in Seq(Items)
  BY NoneWake
<1>7. /\ \A k : Has(todo', k) <=> x.k = k
      /\ Guarded(todo') <=> x.k \notin {"ack", "acks"}
      /\ FinOk(todo', ending) <=> (x.fin => ending)
  <2> DEFINE e == <<>>
  <2>1. e \in Seq(Items) /\ Guarded(e) /\ FinOk(e, ending) /\ \A k : ~Has(e, k)
    BY <1>6
  <2>2. todo' = Push(x, e)
    BY <1>3
  <2> HIDE DEF e
  <2>3. \A k : Has(Push(x, e), k) <=> x.k = k
    BY ONLY <1>2, <2>1, PushShape
  <2>4. /\ Guarded(Push(x, e)) <=> x.k \notin {"ack", "acks"}
        /\ FinOk(Push(x, e), ending) <=> (x.fin => ending)
    BY ONLY <1>2, <2>1, PushWake
  <2> QED
    BY <2>2, <2>3, <2>4
<1>8. x.k \in TickKinds
  <2>1. Has(ticks, x.k)
    BY <1>5
  <2> QED
    BY <1>1, <2>1 DEF Has
<1>9. FinOk(todo', ending') /\ FinOk(ticks', ending')
  BY <1>1, <1>3, <1>4, <1>5, <1>7 DEF owedState
<1>10. ~Has(todo', "finish")
  BY <1>7, <1>8 DEF TickKinds
<1>11. Finishing'
  BY <1>4, <1>10 DEF Wakeful, Finishing, Nested, Has, owedState
<1> DEFINE left == cursor # Len(buffer)
<1>12. ASSUME ~failed' PROVE Awake(todo', ticks', writing', left', needDrain', ending', finished')
  <2>1. left' = left /\ ~failed
    BY <1>4, <1>12 DEF owedState
  <2>2. Awake(todo, ticks, writing, left, needDrain, ending, finished)
    BY <2>1 DEF Wakeful
  <2> HIDE DEF left
  <2>3. x.k # "ack" /\ ~Has(r, "ack")
    BY <1>5, <2>2 DEF Awake
  <2>4. Guarded(todo')
    BY <1>7, <1>8, <2>3 DEF TickKinds
  <2>5. \A k : ~Has(todo, k)
    BY <1>1, <1>6
  <2>6. /\ UNCHANGED <<writing, needDrain, ending, finished>>
        /\ Has(todo', "after") \/ Has(ticks', "after") <=> Has(ticks, "after")
    BY <1>3, <1>4, <1>5, <1>7 DEF owedState
  <2>7. Busy(todo, ticks, writing, left) => Busy(todo', ticks', writing', left')
    BY <2>1, <2>5, <2>6 DEF Busy
  <2> QED
    BY <1>3, <2>2, <2>3, <2>4, <2>5, <2>6, <2>7 DEF Awake
<1> QED
  BY <1>9, <1>11, <1>12 DEF Wakeful

\* Callbacks run: finishMaybe comes after them.
LEMMA Wake_Ack ==
  ASSUME IInv, Wakeful, Ack \/ AckBatch PROVE Wakeful'
<1> DEFINE k == Head(todo).k
<1>1. k \in {"ack", "acks"} /\ Running(k)
  BY DEF Ack, AckBatch, Running
<1> HIDE DEF k
<1>2. PICK x \in Items, s \in Seq(Items) :
        /\ todo = Push(x, s) /\ Tail(todo) = s /\ Head(todo) = x /\ x.k = k
        /\ x.ids \in Seq(Nat)
        /\ ~failed => Has(s, "finishMaybe")
  BY <1>1, TakeOff DEF FinishNest
<1>3. ~Has(todo, "finish") /\ Alike(s)
  BY <1>1, <1>2, TopIdle DEF FinishNest, Wakers
<1>4. UNCHANGED owedState /\ ticks' = ticks
  BY DEF Ack, AckBatch, owedState, flags, queue, current
<1>5. \A ids \in Seq(Nat) : Alike(Push(ItemOf("acks", ids), s))
  <2> SUFFICES ASSUME NEW ids \in Seq(Nat) PROVE Alike(Push(ItemOf("acks", ids), s))
    OBVIOUS
  <2> DEFINE y == ItemOf("acks", ids)
  <2>1. y \in Items /\ y.k = "acks" /\ ~y.fin
    BY NewKinds DEF ItemOf
  <2> HIDE DEF y
  <2>2. Idle(y, s)
    BY <1>2, <1>3, <2>1 DEF Idle, Alike, Wakers
  <2>3. Alike(Push(y, s))
    BY <1>3, <2>2, AlikePush
  <2> QED
    BY <2>3 DEF y
<1>6. \A t : Alike(t) => Alike(Push(Item("user"), t))
  BY <1>3, IdleItem DEF Kinds, Handlers, Wakers
<1>7. \/ todo' = s
      \/ todo' = <<Item("user")>> \o s
      \/ \E ids \in Seq(Nat) : todo' = <<ItemOf("acks", ids)>> \o s
      \/ \E ids \in Seq(Nat) : todo' = <<Item("user"), ItemOf("acks", ids)>> \o s
  <2>1. CASE Ack
    BY <1>2, <2>1 DEF Ack
  <2>2. CASE AckBatch
    <3>1. x.ids # <<>> => Tail(x.ids) \in Seq(Nat)
      BY <1>2
    <3> QED
      BY <1>2, <2>2, <3>1 DEF AckBatch
  <2> QED
    BY <2>1, <2>2
<1>8. \A ids \in Seq(Nat) :
        <<Item("user"), ItemOf("acks", ids)>> \o s
          = Push(Item("user"), Push(ItemOf("acks", ids), s))
  <2> SUFFICES ASSUME NEW ids \in Seq(Nat)
               PROVE  <<Item("user"), ItemOf("acks", ids)>> \o s
                        = Push(Item("user"), Push(ItemOf("acks", ids), s))
    OBVIOUS
  <2>1. Item("user") \in Items /\ ItemOf("acks", ids) \in Items /\ s \in Seq(Items)
    BY <1>3, NewKinds DEF Alike
  <2> QED
    BY <2>1, PushMany
<1>9. Alike(todo')
  BY <1>3, <1>5, <1>6, <1>7, <1>8 DEF Push
<1> QED
  BY <1>3, <1>4, <1>9, AlikeStep, TicksAlike

\* With no write in progress and none in the buffer the length is zero.
LEMMA NothingCounted ==
  ASSUME IInv, Books, ~failed, ~writing, cursor = Len(buffer)
  PROVE  length = 0 /\ writecb = <<>>
<1>1. size \in Seq(Nat) /\ buffer \in Seq(Nat) /\ length \in Int
  BY BookTypes DEF IInv, Types
<1>2. Unwritten = <<>>
  <2>1. SubSeq(buffer, Len(buffer) + 1, Len(buffer)) = <<>>
    BY <1>1
  <2> QED
    BY <2>1 DEF Unwritten
<1>3. Total(size, <<>>) = 0
  BY <1>1, TotalNone
<1>4. writelen = 0 /\ length = writelen + Total(size, Unwritten) /\ writecb = <<>>
  BY DEF Books, SumsOf
<1> QED
  BY <1>2, <1>3, <1>4

\* afterWrite emits 'drain' if it is due; if it is not, a write is in progress or
\* buffered.
LEMMA Wake_AfterWrite ==
  ASSUME IInv, Books, Wakeful, AfterWrite PROVE Wakeful'
<1>1. Running("after")
  BY DEF AfterWrite
<1>2. PICK x \in Items, s \in Seq(Items) :
        /\ todo = Push(x, s) /\ Tail(todo) = s /\ Head(todo) = x
        /\ x.ids \in Seq(Nat)
        /\ ~Has(s, "finish") /\ FinOk(s, ending) /\ (x.fin => ending)
        /\ ~failed => Guarded(s)
  BY <1>1, TakeOff DEF FinishNest
<1> DEFINE u == Item("user")
           f == Item("finishMaybe")
           y == ItemOf("ack", x.ids)
           w == Push(f, s)
           t == Push(y, w)
<1>3. /\ u \in Items /\ u.k = "user" /\ ~u.fin /\ f \in Items /\ f.k = "finishMaybe" /\ ~f.fin
      /\ y \in Items /\ y.k = "ack" /\ ~y.fin
  BY <1>2, NewItems DEF Kinds, Handlers, Item, ItemOf
<1>4. todo' = t \/ todo' = Push(u, t)
  <2>1. todo' = <<y, f>> \o s \/ todo' = <<u>> \o (<<y, f>> \o s)
    BY <1>2 DEF AfterWrite
  <2> HIDE DEF u, f, y
  <2> QED
    BY <1>3, <2>1, PushMany DEF Push
<1>5. /\ UNCHANGED <<writing, buffer, cursor, ending, finished, finishes, failed, ticks>>
      /\ needDrain' = (needDrain /\ ~(~x.fin /\ length = 0 /\ needDrain))
  BY <1>2 DEF AfterWrite, DrainDue, current, queue, flags
<1> HIDE DEF u, f, y
<1>6. /\ w \in Seq(Items) /\ ~Has(w, "finish") /\ Has(w, "finishMaybe") /\ FinOk(w, ending)
      /\ ~failed => Guarded(w)
  BY <1>2, <1>3, PushShape, PushWake
<1> HIDE DEF w
<1>7. /\ t \in Seq(Items) /\ ~Has(t, "finish") /\ Has(t, "finishMaybe") /\ FinOk(t, ending)
      /\ ~failed => Guarded(t)
  BY <1>3, <1>6, PushShape, PushWake
<1> HIDE DEF t
<1>8. /\ ~Has(todo', "finish") /\ Has(todo', "finishMaybe") /\ FinOk(todo', ending')
      /\ ~failed => Guarded(todo')
  <2>1. LET v == Push(u, t)
        IN  /\ ~Has(v, "finish") /\ Has(v, "finishMaybe") /\ FinOk(v, ending)
            /\ ~failed => Guarded(v)
    BY <1>3, <1>7, PushShape, PushWake
  <2> QED
    BY <1>4, <1>5, <1>7, <2>1
<1>9. Finishing'
  BY <1>5, <1>8 DEF Wakeful, Finishing, Nested, Has
<1>10. FinOk(ticks', ending')
  BY <1>5 DEF Wakeful
<1> DEFINE left == cursor # Len(buffer)
<1>11. ASSUME ~failed' PROVE Awake(todo', ticks', writing', left', needDrain', ending', finished')
  <2>1. left' = left /\ ~failed
    BY <1>5, <1>11
  <2>2. Awake(todo, ticks, writing, left, needDrain, ending, finished)
    BY <2>1 DEF Wakeful
  <2>3. length # 0 => writing \/ left
    BY <2>1, NothingCounted
  <2>4. needDrain \in BOOLEAN /\ x.fin \in BOOLEAN
    BY NewItems DEF IInv, Types
  <2> HIDE DEF left
  <2>5. needDrain' /\ ~ending => Busy(todo', ticks', writing', left')
    BY <1>2, <1>5, <2>1, <2>3, <2>4 DEF Busy
  <2> QED
    BY <1>5, <1>8, <2>1, <2>2, <2>5 DEF Awake
<1> QED
  BY <1>8, <1>9, <1>10, <1>11 DEF Wakeful

\* A write is over: what it settled is on its way.
LEMMA Wake_Onwrite ==
  ASSUME IInv, Wakeful, writing, NEW rest, Alike(rest), Onwrite(rest)
  PROVE  Wakeful'
<1>1. /\ rest \in Seq(Items) /\ FinOk(rest, ending) /\ (~failed => Guarded(rest))
      /\ ~Has(todo, "finish") /\ ~Has(rest, "finish")
  BY FinishTop DEF Alike
<1>2. UNCHANGED <<ending, finished, finishes>>
  BY DEF Onwrite
<1>3. writecb \in Seq(Nat)
  BY BookTypes
<1>4. CASE OnwriteDone(rest)
  <2> DEFINE done == ending /\ length' = 0 /\ buffer = <<>> /\ ~finished
             x == [k |-> IF sync THEN "defer" ELSE "after", ids |-> writecb, fin |-> done]
             c == Item("clear")
             t == Push(x, rest)
             clear == ~done /\ ClearDue
  <2>1. done => ending
    OBVIOUS
  <2>2. todo' = (IF clear THEN <<c>> ELSE <<>>) \o <<x>> \o rest
    BY <1>4 DEF OnwriteDone
  <2>3. failed' = failed /\ ticks' = ticks
    BY <1>4 DEF OnwriteDone
  <2>4. done \in BOOLEAN
    BY DEF IInv, Types
  <2> HIDE DEF done, clear
  <2>5. x \in Items /\ x.k \in {"defer", "after"} /\ (x.fin => ending)
    BY <1>3, <2>1, <2>4 DEF Items, Kinds
  <2>6. c \in Items /\ c.k = "clear" /\ ~c.fin
    BY NewItems DEF Kinds, Item
  <2> HIDE DEF x, c
  <2>7. todo' = t \/ todo' = Push(c, t)
    <3>1. (<<c>> \o <<x>>) \o rest = Push(c, t) /\ (<<>> \o <<x>>) \o rest = t
      BY <1>1, <2>5, <2>6, PushMany
    <3> HIDE DEF t
    <3> QED
      BY <2>2, <3>1
  <2>8. /\ t \in Seq(Items) /\ ~Has(t, "finish") /\ FinOk(t, ending)
        /\ Has(t, "defer") \/ Has(t, "after")
        /\ ~failed => Guarded(t)
    BY <1>1, <2>5, PushShape, PushWake
  <2> HIDE DEF t
  <2>9. LET v == Push(c, t)
        IN  /\ ~Has(v, "finish") /\ FinOk(v, ending)
            /\ Has(v, "defer") \/ Has(v, "after")
            /\ ~failed => Guarded(v)
    BY <2>6, <2>8, PushShape, PushWake
  <2>10. /\ ~Has(todo', "finish") /\ FinOk(todo', ending')
         /\ Has(todo', "defer") \/ Has(todo', "after")
         /\ ~failed => Guarded(todo')
    BY <1>2, <2>7, <2>8, <2>9
  <2>11. Busy(todo', ticks', writing', cursor' # Len(buffer'))
    BY <2>10 DEF Busy
  <2>12. FinOk(ticks', ending') /\ (~failed => ~Has(ticks', "ack"))
    BY <1>2, <2>3 DEF Wakeful, Awake
  <2> QED
    BY <1>2, <2>3, <2>10, <2>11, <2>12, BusyStep
<1>5. CASE OnwriteError(rest)
  <2> DEFINE u == Item("user")
             y == ItemOf("ack", writecb)
             e == Item("emitError")
             w == Push(e, rest)
  <2>1. /\ u \in Items /\ u.k = "user" /\ ~u.fin /\ e \in Items /\ e.k = "emitError" /\ ~e.fin
        /\ y \in Items /\ y.k = "ack" /\ ~y.fin
    BY <1>3, NewItems DEF Kinds, Handlers, Item, ItemOf
  <2>2. \/ todo' = Push(u, rest) /\ ticks' = Append(ticks, y)
        \/ todo' = <<y, e>> \o rest /\ ticks' = ticks
    BY <1>5 DEF OnwriteError, Push
  <2>3. failed'
    BY <1>5 DEF OnwriteError
  <2> HIDE DEF u, y, e
  <2>4. <<y, e>> \o rest = Push(y, w)
    BY <1>1, <2>1, PushMany
  <2>5. w \in Seq(Items) /\ ~Has(w, "finish") /\ FinOk(w, ending)
    BY <1>1, <2>1, PushShape, PushWake
  <2> HIDE DEF w
  <2>6. ~Has(Push(y, w), "finish") /\ FinOk(Push(y, w), ending)
    BY <2>1, <2>5, PushShape, PushWake
  <2>7. ~Has(Push(u, rest), "finish") /\ FinOk(Push(u, rest), ending)
    BY <1>1, <2>1, PushShape, PushWake
  <2>8. ~Has(todo', "finish") /\ FinOk(todo', ending')
    BY <1>2, <2>2, <2>4, <2>6, <2>7
  <2>9. FinOk(ticks', ending')
    <3>1. ticks \in Seq(Items) /\ FinOk(ticks, ending)
      BY DEF IInv, Types, Wakeful
    <3>2. FinOk(Append(ticks, y), ending)
      BY <2>1, <3>1, AppendWake
    <3> QED
      BY <1>2, <2>2, <3>1, <3>2
  <2> QED
    BY <1>2, <2>3, <2>8, <2>9, BusyStep
<1> QED
  BY <1>4, <1>5 DEF Onwrite

\* Before _write returns, or later.
LEMMA Wake_Complete ==
  ASSUME IInv, Wakeful, CompleteInBody \/ CompleteLater PROVE Wakeful'
<1>1. CASE CompleteInBody
  <2>1. Running("body") /\ writing /\ Onwrite(Push(Item("unsync"), Tail(todo)))
    BY <1>1 DEF CompleteInBody, Push
  <2>2. ~Has(todo, "finish") /\ Alike(Tail(todo))
    BY <2>1, TopIdle DEF FinishNest, Wakers
  <2>3. Alike(Push(Item("unsync"), Tail(todo)))
    BY <2>2, IdleItem DEF Kinds, Wakers
  <2> QED
    BY <2>1, <2>3, Wake_Onwrite
<1>2. CASE CompleteLater
  BY <1>2, AlikeCaller, Wake_Onwrite DEF CompleteLater
<1> QED
  BY <1>1, <1>2

\* A write is accepted before end(): it is in progress or buffered.
LEMMA Wake_Accept ==
  ASSUME IInv, Wakeful, LateWrites = FALSE, UserRuns, NEW n \in Nat, NEW then \in Thens,
         Accept(n, then)
  PROVE  Wakeful'
<1> DEFINE s == then \o Caller
           b == Item("body")
<1>1. Alike(s) /\ then \in Seq(Items) /\ Caller \in Seq(Items) /\ s \in Seq(Items)
  BY AlikeThen DEF Alike
<1>2. ~ending
  BY UserStack DEF Accept
<1>3. ~Has(todo, "finish")
  BY <1>2, FinishTop
<1>4. UNCHANGED <<ending, finished, finishes, failed, ticks, cursor>>
  BY DEF Accept, flags
<1>5. CASE MustBuffer /\ buffer' = Append(buffer, accepted + 1) /\ todo' = s
  <2>1. cursor \in Nat /\ buffer \in Seq(Nat) /\ cursor <= Len(buffer) /\ Len(buffer) \in Nat
    BY DEF IInv, Delivery
  <2>2. accepted + 1 \in Nat
    <3>1. Len(size) \in Nat
      BY BookTypes
    <3> QED
      BY <3>1 DEF accepted
  <2>3. Len(buffer') = Len(buffer) + 1
    BY <1>5, <2>1, <2>2
  <2>4. cursor' # Len(buffer')
    BY <1>4, <2>1, <2>3
  <2>5. Busy(todo', ticks', writing', cursor' # Len(buffer'))
    BY <2>4 DEF Busy
  <2>6. /\ ~Has(todo', "finish") /\ FinOk(todo', ending')
        /\ ~failed' => Guarded(todo')
    BY <1>1, <1>3, <1>4, <1>5 DEF Alike
  <2>7. FinOk(ticks', ending') /\ (~failed' => ~Has(ticks', "ack"))
    BY <1>4 DEF Wakeful, Awake
  <2> QED
    BY <1>4, <2>5, <2>6, <2>7, BusyStep
<1>6. CASE DoWrite(<<accepted + 1>>, n) /\ todo' = <<b>> \o then \o Caller
  <2>1. writing'
    BY <1>6 DEF DoWrite
  <2>2. todo' = Push(b, s)
    <3>1. <<b>> \in Seq(Items)
      BY NewKinds
    <3> HIDE DEF b
    <3>2. (<<b>> \o then) \o Caller = <<b>> \o (then \o Caller)
      BY <1>1, <3>1, ConcatAssociative
    <3> QED
      BY <1>6, <3>2 DEF Push
  <2> QED
    BY <1>1, <1>3, <1>4, <2>1, <2>2, BodyWake
<1> QED
  BY <1>5, <1>6 DEF Accept

\* end() looks at once whether the stream is finished.
LEMMA Wake_EndWritable ==
  ASSUME IInv, Wakeful, EndWritable PROVE Wakeful'
<1>1. todo # <<>> /\ Top(todo) = "endWritable"
  BY DEF EndWritable, Running, Top
<1> DEFINE s == Tail(todo)
           e == Item("endTail")
           f == Item("finishMaybe")
           w == Push(e, s)
           t == Push(f, w)
<1>2. Alike(s) /\ s \in Seq(Items)
  BY <1>1, AlikeTop DEF Wakers, Alike
<1>3. UNCHANGED <<needDrain, pendingcb, writing, buffer, cursor, finished, finishes, failed,
                  ticks>>
  BY DEF EndWritable, current, queue
<1>4. CASE todo' = s /\ ending' = ending
  <2>1. UNCHANGED owedState
    BY <1>3, <1>4 DEF owedState
  <2> QED
    BY <1>2, <1>3, <1>4, <2>1, AlikeStep, TicksAlike
<1>5. CASE ~ending /\ ~finished /\ ending' = TRUE /\ todo' = <<f, e>> \o s
  <2>1. ~Has(s, "finish")
    BY <1>2, <1>5, FinishTop DEF Alike
  <2>2. /\ e \in Items /\ e.k = "endTail" /\ ~e.fin /\ f \in Items /\ f.k = "finishMaybe"
        /\ ~f.fin
    BY NewItems DEF Kinds, Item
  <2> HIDE DEF s, e, f
  <2>3. todo' = t
    BY <1>2, <1>5, <2>2, PushMany
  <2>4. FinOk(s, TRUE) /\ FinOk(ticks, TRUE)
    BY DEF FinOk
  <2>5. /\ w \in Seq(Items) /\ ~Has(w, "finish") /\ FinOk(w, TRUE)
        /\ ~failed => Guarded(w)
    BY <1>2, <2>1, <2>2, <2>4, PushShape, PushWake DEF Alike
  <2> HIDE DEF w
  <2>6. /\ ~Has(t, "finish") /\ Has(t, "finishMaybe") /\ FinOk(t, TRUE)
        /\ ~failed => Guarded(t)
    BY <2>2, <2>5, PushShape, PushWake
  <2> HIDE DEF t
  <2>7. /\ ~Has(todo', "finish") /\ Has(todo', "finishMaybe") /\ FinOk(todo', TRUE)
        /\ ~failed => Guarded(todo')
    BY <2>3, <2>6
  <2>8. Finishing'
    BY <1>3, <2>7 DEF Wakeful, Finishing, Nested, Has
  <2>9. ~failed' =>
          Awake(todo, ticks, writing, cursor # Len(buffer), needDrain, ending, finished)'
    BY <1>3, <1>5, <2>7 DEF Wakeful, Awake
  <2>10. FinOk(todo', ending') /\ FinOk(ticks', ending')
    BY <1>3, <1>5, <2>4, <2>7
  <2> QED
    BY <2>8, <2>9, <2>10 DEF Wakeful
<1> QED
  BY <1>4, <1>5 DEF EndWritable

\* 'finish' is emitted: it was the only one.
LEMMA Wake_Finish ==
  ASSUME IInv, Wakeful, Finish PROVE Wakeful'
<1>1. todo # <<>> /\ Top(todo) = "finish" /\ todo \in Seq(Items)
  BY DEF Finish, Running, Top, IInv, Types
<1>2. PICK x \in Items, s \in Seq(Items) : todo = Push(x, s) /\ Tail(todo) = s /\ Top(todo) = x.k
  BY <1>1, PopShape
<1>3. /\ Has(todo, "finish")
      /\ \A k : Has(todo, k) <=> x.k = k \/ Has(s, k)
  BY <1>1, <1>2, PushShape
<1>4. Nested(todo) /\ FinOk(todo, ending) /\ (~failed => Guarded(todo))
  BY DEF Wakeful, Finishing, Awake
<1>5. /\ ~Has(s, "finish") /\ FinOk(s, ending) /\ (~failed => Guarded(s))
  <2>1. Has(s, "finish") => x.k \in FinishNest
    BY <1>2, <1>4, PushWake
  <2>2. x.k \notin FinishNest
    BY <1>1, <1>2 DEF FinishNest
  <2>3. FinOk(s, ending) /\ (~failed => Guarded(s))
    BY <1>2, <1>4, PushWake
  <2> QED
    BY <2>1, <2>2, <2>3
<1> DEFINE o == Item("onfinish")
<1>6. o \in Items /\ o.k = "onfinish" /\ ~o.fin
  BY NewItems DEF Kinds, Handlers, Item
<1>7. todo' = Push(o, s) /\ finished' = TRUE /\ finishes' = finishes + 1
  BY <1>2 DEF Finish, Push
<1>8. UNCHANGED <<needDrain, writing, buffer, cursor, ending, failed, ticks>>
  BY DEF Finish, current, queue
<1> HIDE DEF o
<1>9. /\ ~Has(todo', "finish") /\ FinOk(todo', ending)
      /\ ~failed => Guarded(todo')
      /\ \A k : Has(todo', k) <=> k = "onfinish" \/ Has(s, k)
  BY <1>5, <1>6, <1>7, PushShape, PushWake
<1>10. ~finished /\ ending /\ finishes = 0
  BY <1>3, FinishTop DEF Wakeful, Finishing
<1>11. Finishing'
  BY <1>7, <1>9, <1>10 DEF Finishing, Nested, Has
<1>12. FinOk(todo', ending') /\ FinOk(ticks', ending')
  BY <1>8, <1>9 DEF Wakeful
<1>13. ~failed' =>
         Awake(todo, ticks, writing, cursor # Len(buffer), needDrain, ending, finished)'
  BY <1>7, <1>8, <1>9, <1>10 DEF Wakeful, Awake
<1> QED
  BY <1>11, <1>12, <1>13 DEF Wakeful

\* The kinds of the items that run callbacks.
AckKinds == Owed \cup {"acks"}

\* Without such an item there is nothing to run.
LEMMA NoWork ==
  ASSUME NEW s \in Seq(Items), AllGood(s), \A k \in AckKinds : ~Has(s, k)
  PROVE  Ids(s) = {} /\ Cardinality(Batches(s)) = 0
<1>1. \A i \in 1 .. Len(s) : s[i].k \notin AckKinds
  BY DEF Has
<1>2. \A i \in 1 .. Len(s) : ToSet(s[i].ids) = {}
  <2>1. \A i \in 1 .. Len(s) : s[i].ids = <<>>
    BY <1>1 DEF AllGood, Good, AckKinds
  <2>2. ToSet(<<>>) = {}
    BY EmptySequence
  <2> QED
    BY <2>1, <2>2
<1>3. Ids(s) = {}
  BY <1>2 DEF Ids
<1>4. Batches(s) = {}
  <2>1. DOMAIN s = 1 .. Len(s)
    OBVIOUS
  <2> QED
    BY <1>1, <2>1 DEF Batches, AckKinds, Owed
<1> QED
  BY <1>3, <1>4, FS_EmptySet

\* With no callback to run, no write in progress and none in the buffer, none is owed.
LEMMA NothingOwed ==
  ASSUME IInv, Books, ~failed, ~writing, cursor = Len(buffer),
         \A k \in AckKinds : ~Has(todo, k) /\ ~Has(ticks, k)
  PROVE  pendingcb = 0 /\ length = 0
<1>1. /\ LedgerOf(todo, ticks, acked, writecb, sunk, Len(size), pendingcb)
      /\ writecb = <<>> /\ length = 0
  BY NothingCounted DEF Books
<1>2. /\ Ids(todo) = {} /\ Cardinality(Batches(todo)) = 0
      /\ Ids(ticks) = {} /\ Cardinality(Batches(ticks)) = 0
  BY <1>1, NoWork, BookTypes DEF LedgerOf
<1>3. ToSet(sunk) = ToSet(acked)
  <2>1. ToSet(writecb) = {}
    BY <1>1, EmptySequence
  <2> QED
    BY <1>1, <1>2, <2>1 DEF LedgerOf, Covers
<1>4. /\ acked \in Seq(Nat) /\ sunk \in Seq(Nat) /\ Len(size) \in Nat /\ cursor \in Nat
      /\ IsInjective(acked)
  BY <1>1, BookTypes DEF LedgerOf
<1>5. IsInjective(sunk) /\ Len(size) = Len(sunk) + Len(buffer) - cursor
  <2>1. \A i, j \in 1 .. Len(sunk) : sunk[i] = sunk[j] => i = j
    BY DEF IInv, Delivery
  <2> QED
    BY <1>4, <2>1, InjectivePlaces DEF IInv, Delivery
<1>6. Len(acked) = Len(sunk) /\ Len(sunk) \in Nat
  BY <1>3, <1>4, <1>5, InjectiveCount
<1>7. Len(size) = Len(acked)
  BY <1>4, <1>5, <1>6
<1>8. ~(Len(writecb) > 1)
  BY <1>1
<1>9. pendingcb = Len(size) - Len(acked) + 0 + 0 + 0
  BY <1>1, <1>2, <1>8 DEF LedgerOf
<1> QED
  BY <1>1, <1>4, <1>7, <1>9

\* With no callback owed every accepted write was handed over and called back.
LEMMA AllCalledBack ==
  ASSUME IInv, Books, pendingcb = 0
  PROVE  Len(sunk) = Len(size) /\ Len(acked) = Len(size)
<1>1. LedgerOf(todo, ticks, acked, writecb, sunk, Len(size), pendingcb)
  BY DEF Books
<1>2. /\ acked \in Seq(Nat) /\ sunk \in Seq(Nat) /\ Len(size) \in Nat
      /\ Cardinality(Batches(todo)) \in Nat /\ Cardinality(Batches(ticks)) \in Nat
  BY BookTypes
<1>3. IsInjective(acked) /\ IsInjective(sunk) /\ ToSet(sunk) \subseteq 1 .. Len(size)
      /\ ToSet(acked) \subseteq ToSet(sunk)
  <2>1. /\ \A i, j \in 1 .. Len(sunk) : sunk[i] = sunk[j] => i = j
        /\ \A i \in 1 .. Len(sunk) : sunk[i] \in 1 .. Len(size)
    BY DEF IInv, Delivery
  <2>2. IsInjective(sunk) /\ ToSet(sunk) \subseteq 1 .. Len(size)
    BY <1>2, <2>1, InjectivePlaces, ToSetPlaces
  <2> QED
    BY <1>1, <2>2 DEF LedgerOf, Covers
<1>4. /\ IsFiniteSet(ToSet(sunk)) /\ Cardinality(ToSet(sunk)) = Len(sunk) /\ Len(sunk) \in Nat
      /\ Cardinality(ToSet(acked)) = Len(acked) /\ Len(acked) \in Nat
  BY <1>2, <1>3, InjectiveCount
<1>5. Len(acked) <= Len(sunk)
  BY <1>3, <1>4, FS_Subset
<1>6. Len(sunk) <= Len(size)
  <2>1. IsFiniteSet(1 .. Len(size)) /\ Cardinality(1 .. Len(size)) = Len(size)
    <3> DEFINE n == Len(size)
    <3>1. n \in Nat /\ n \in Int /\ 1 \in Int
      BY <1>2
    <3> HIDE DEF n
    <3>2. IsFiniteSet(1 .. n) /\ Cardinality(1 .. n) = IF 1 > n THEN 0 ELSE n - 1 + 1
      BY <3>1, FS_Interval
    <3>3. (IF 1 > n THEN 0 ELSE n - 1 + 1) = n
      BY <3>1
    <3> QED
      BY <3>2, <3>3 DEF n
  <2> QED
    BY <1>3, <1>4, <2>1, FS_Subset
<1> DEFINE b == Cardinality(Batches(todo))
           c == Cardinality(Batches(ticks))
           d == IF Len(writecb) > 1 THEN 1 ELSE 0
<1>7. 0 = Len(size) - Len(acked) + b + c + d
  BY <1>1 DEF LedgerOf
<1>8. b \in Nat /\ c \in Nat /\ d \in Nat
  BY <1>2
<1> HIDE DEF b, c, d
<1>9. Len(acked) = Len(size)
  BY <1>2, <1>4, <1>5, <1>6, <1>7, <1>8
<1> QED
  BY <1>2, <1>4, <1>5, <1>6, <1>9

\* No body is on the stack outside of a write, so the entries of the buffer that
\* were handed over have been dropped.
LEMMA BufferEmpty ==
  ASSUME IInv, ~failed, ~writing, cursor = Len(buffer),
         Top(todo) \notin LoopKinds \cup {"unsync", "defer"}
  PROVE  buffer = <<>>
<1>1. buffer \in Seq(Nat) /\ (~bufferProcessing => cursor = 0)
  BY DEF IInv, Delivery
<1>2. ~Between(todo)
  BY DEF Between
<1>3. bufferProcessing => InBody(todo)
  BY <1>2 DEF IInv, Clearing
<1>4. InBody(todo) => Has(todo, "body")
  BY DEF InBody, Has
<1>5. ~bufferProcessing
  BY <1>3, <1>4 DEF IInv, Clearing, Types
<1> QED
  BY <1>1, <1>5

\* finishMaybe emits 'finish' when it is due; if it is not due, something will call
\* finishMaybe again.
LEMMA Wake_FinishMaybe ==
  ASSUME IInv, Books, Wakeful, FinishMaybe PROVE Wakeful'
<1>1. Running("finishMaybe")
  BY DEF FinishMaybe
<1>2. PICK x \in Items, s \in Seq(Items) :
        /\ todo = Push(x, s) /\ Tail(todo) = s /\ Head(todo) = x
        /\ ~Has(s, "finish") /\ FinOk(s, ending)
        /\ ~failed => Guarded(s)
        /\ \A j : Has(todo, j) <=> j = "finishMaybe" \/ Has(s, j)
  BY <1>1, TakeOff DEF FinishNest
<1> DEFINE pre == Item("onprefinish")
           fin == Item("finish")
           u == Push(fin, s)
<1>3. /\ pre \in Items /\ pre.k = "onprefinish" /\ ~pre.fin
      /\ fin \in Items /\ fin.k = "finish" /\ ~fin.fin
  BY NewItems DEF Kinds, Handlers, Item
<1>4. \/ ~FinishDue /\ todo' \in {s, Push(pre, s)}
      \/ FinishDue /\ todo' \in {u, Push(pre, u)}
  <2> DEFINE a == IF NeedFinish /\ ~prefinished THEN <<pre>> ELSE <<>>
             b == IF FinishDue THEN <<fin>> ELSE <<>>
  <2>1. todo' = (a \o b) \o s
    BY <1>2 DEF FinishMaybe
  <2> HIDE DEF pre, fin
  <2>2. /\ (<<>> \o <<>>) \o s = s /\ (<<pre>> \o <<>>) \o s = Push(pre, s)
        /\ (<<>> \o <<fin>>) \o s = u /\ (<<pre>> \o <<fin>>) \o s = Push(pre, u)
    BY <1>2, <1>3, PushMany
  <2>3. (a = <<>> \/ a = <<pre>>) /\ b = (IF FinishDue THEN <<fin>> ELSE <<>>)
    OBVIOUS
  <2> HIDE DEF a, b, u
  <2> QED
    BY <2>1, <2>2, <2>3
<1>5. /\ UNCHANGED owedState /\ pendingcb' = pendingcb /\ ticks' = ticks
  BY DEF FinishMaybe, owedState, current, queue
<1> HIDE DEF pre, fin
<1>6. /\ Nested(s) /\ \A k : Has(u, k) <=> k = "finish" \/ Has(s, k)
      /\ Nested(u) /\ FinOk(u, ending) /\ (~failed => Guarded(u)) /\ u \in Seq(Items)
      /\ Top(u) = "finish"
  <2>1. Nested(s)
    BY <1>2 DEF Nested, Has
  <2>2. \A k : Has(u, k) <=> k = "finish" \/ Has(s, k)
    BY ONLY <1>2, <1>3, PushShape
  <2>3. u \in Seq(Items) /\ Top(u) = "finish"
    BY ONLY <1>2, <1>3, PushShape
  <2>4. Nested(u) /\ FinOk(u, ending) /\ (~failed => Guarded(u))
    BY ONLY <1>2, <1>3, <2>1, PushWake
  <2> QED
    BY <2>1, <2>2, <2>3, <2>4
<1> HIDE DEF u
<1>7. \A v : v \in {s, u} =>
        /\ Nested(Push(pre, v)) /\ FinOk(Push(pre, v), ending)
        /\ ~failed => Guarded(Push(pre, v))
        /\ \A k : Has(Push(pre, v), k) <=> k = "onprefinish" \/ Has(v, k)
  <2> SUFFICES ASSUME NEW v, v \in {s, u}
               PROVE  /\ Nested(Push(pre, v)) /\ FinOk(Push(pre, v), ending)
                      /\ ~failed => Guarded(Push(pre, v))
                      /\ \A k : Has(Push(pre, v), k) <=> k = "onprefinish" \/ Has(v, k)
    OBVIOUS
  <2>1. /\ v \in Seq(Items) /\ Nested(v) /\ FinOk(v, ending) /\ (~failed => Guarded(v))
    BY <1>2, <1>6
  <2>2. \A k : Has(Push(pre, v), k) <=> k = "onprefinish" \/ Has(v, k)
    BY ONLY <1>3, <2>1, PushShape
  <2>3. Nested(Push(pre, v)) /\ FinOk(Push(pre, v), ending) /\ (~failed => Guarded(Push(pre, v)))
    BY ONLY <1>3, <2>1, PushWake DEF FinishNest
  <2> QED
    BY <2>2, <2>3
<1>8. /\ Nested(todo') /\ FinOk(todo', ending)
      /\ ~failed => Guarded(todo')
      /\ Has(todo', "finish") <=> FinishDue
      /\ \A k \in {"defer", "after", "finishMaybe"} : Has(todo', k) <=> Has(s, k)
  BY <1>2, <1>4, <1>6, <1>7
<1>9. FinOk(todo', ending') /\ FinOk(ticks', ending')
  BY <1>5, <1>8 DEF owedState, Wakeful
<1>10. Finishing'
  BY <1>5, <1>8 DEF Wakeful, Finishing, FinishDue, NeedFinish, owedState
<1> DEFINE left == cursor # Len(buffer)
<1>11. ASSUME ~failed' PROVE Awake(todo', ticks', writing', left', needDrain', ending', finished')
  <2>1. left' = left /\ ~failed
    BY <1>5, <1>11 DEF owedState
  <2>2. Awake(todo, ticks, writing, left, needDrain, ending, finished)
    BY <2>1 DEF Wakeful
  <2>3. ASSUME ending, ~finished, ~FinishDue, ~Busy(s, ticks, writing, left),
               ~Has(s, "finishMaybe")
        PROVE  FALSE
    <3>1. ~writing /\ cursor = Len(buffer)
      BY <2>3 DEF Busy, IInv, Types
    <3>2. ~Has(s, "ack") /\ ~Has(s, "acks")
      <4>1. \A i \in 1 .. Len(s) : s[i].k \in {"ack", "acks"} =>
              \E j \in i + 1 .. Len(s) : s[j].k = "finishMaybe"
        BY <1>2, <2>1 DEF Guarded
      <4>2. \A i \in 1 .. Len(s) : \A j \in i + 1 .. Len(s) : j \in 1 .. Len(s)
        OBVIOUS
      <4> QED
        BY <2>3, <4>1, <4>2 DEF Has
    <3>3. \A k \in AckKinds : ~Has(todo, k)
      BY <1>2, <2>3, <3>2 DEF AckKinds, Owed, Busy
    <3>4. \A k \in AckKinds : ~Has(ticks, k)
      <4>1. ~Has(ticks, "after") /\ ~Has(ticks, "ack")
        BY <2>2, <2>3 DEF Busy, Awake
      <4>2. \A i \in 1 .. Len(ticks) : ticks[i].k \in {"user", "ack", "after"}
        BY DEF IInv, TickKinds
      <4> QED
        BY <4>1, <4>2 DEF Has, AckKinds, Owed
    <3>5. pendingcb = 0 /\ length = 0
      BY <2>1, <3>1, <3>3, <3>4, NothingOwed
    <3>6. Top(todo) = "finishMaybe"
      BY <1>1 DEF Running, Top
    <3>7. buffer = <<>>
      BY <2>1, <3>1, <3>6, BufferEmpty DEF LoopKinds
    <3> QED
      BY <2>3, <3>1, <3>5, <3>7 DEF FinishDue, NeedFinish
  <2>4. /\ Busy(todo, ticks, writing, left) <=> Busy(s, ticks, writing, left)
        /\ UNCHANGED <<writing, needDrain, ending, finished, ticks>>
    BY <1>2, <1>5 DEF Busy, owedState
  <2> HIDE DEF left
  <2>5. Busy(todo', ticks', writing', left') <=> Busy(s, ticks, writing, left)
    BY <1>8, <2>1, <2>4 DEF Busy
  <2> QED
    BY <1>8, <2>1, <2>2, <2>3, <2>4, <2>5 DEF Awake
<1> QED
  BY <1>9, <1>10, <1>11 DEF Wakeful

\* Nothing is to come at the start, and nothing is owed.
LEMMA WakefulInitially == Init => Wakeful
<1> SUFFICES ASSUME Init PROVE Wakeful
  OBVIOUS
<1>1. /\ todo = <<>> /\ ticks = <<>> /\ ~needDrain /\ ~ending /\ finishes = 0 /\ ~finished
  BY DEF Init
<1>2. Finishing
  BY <1>1, NoneWake DEF Finishing
<1>3. FinOk(todo, ending) /\ FinOk(ticks, ending)
  BY <1>1, NoneWake
<1>4. Awake(todo, ticks, writing, cursor # Len(buffer), needDrain, ending, finished)
  BY <1>1, NoneWake DEF Awake
<1> QED
  BY <1>2, <1>3, <1>4 DEF Wakeful

\* Nor does a step forget what is to come.
LEMMA WakefulKept ==
  ASSUME LateWrites = FALSE, IInv, Books, Wakeful, [Next]_vars
  PROVE  Wakeful'
<1>1. CASE UNCHANGED vars
  <2>1. UNCHANGED <<owedState, pendingcb, todo, ticks>>
    BY <1>1 DEF vars, owedState, current, queue, flags
  <2> QED
    BY <2>1, AlikeTop, AlikeStep, TicksAlike
<1>2. CASE Write \/ End
  <2> DEFINE then == <<Item("endUncork"), Item("endWritable")>>
  <2>1. then \in Thens /\ <<>> \in Thens
    BY DEF Thens
  <2>2. \/ UserRuns /\ \E n \in use.sizes, t \in Thens : Accept(n, t)
        \/ UserRuns /\ \E t \in Thens : Reject(t)
        \/ PlainEnd
    BY <1>2, <2>1 DEF Write, End, PlainEnd, Call
  <2> HIDE DEF then
  <2>3. CASE UserRuns /\ \E n \in use.sizes, t \in Thens : Accept(n, t)
    BY <2>3, Sizes, Wake_Accept
  <2>4. CASE UserRuns /\ \E t \in Thens : Reject(t)
    BY <2>4, Wake_Reject
  <2> QED
    BY <2>2, <2>3, <2>4, Wake_Cork
<1>3. CASE Cork \/ Uncork
  BY <1>3, Wake_Cork, Wake_Uncork
<1>4. CASE CompleteLater
  BY <1>4, Wake_Complete
<1>5. CASE Step
  BY <1>5, Wake_Pop, Wake_ClearBuffer, Wake_LoopDone, Wake_LoopWrite, Wake_EmitError,
     Wake_Complete, Wake_Defer, Wake_AfterWrite, Wake_Ack, Wake_FinishMaybe, Wake_Finish,
     Wake_Uncork, Wake_EndWritable, Wake_RunTick DEF Step
<1> QED
  BY <1>1, <1>2, <1>3, <1>4, <1>5 DEF Next, UserCall

\* An idle, uncorked stream on which nothing failed holds nothing back: nothing
\* would wake it up later.
THEOREM QuiescentHolds ==
  ASSUME LateWrites = FALSE
  PROVE  Spec => []Quiescent
<1>1. Init => IInv /\ Books /\ Wakeful
  BY Initially, BooksInitially, WakefulInitially
<1>2. IInv /\ Books /\ Wakeful /\ [Next]_vars => IInv' /\ Books' /\ Wakeful'
  BY Inductive, BooksKept, WakefulKept
<1>3. IInv /\ Books /\ Wakeful => Quiescent
  <2> SUFFICES ASSUME IInv, Books, Wakeful, todo = <<>>, ticks = <<>>, ~writing, corked = 0,
                      ~failed
               PROVE  /\ buffer = <<>> /\ length = 0 /\ pendingcb = 0
                      /\ needDrain => ending
                      /\ ending => finished /\ ended
    BY DEF Quiescent
  <2>1. /\ Top(todo) = "none" /\ ~Held(todo)
        /\ \A k : ~Has(todo, k) /\ ~Has(ticks, k)
    <3>1. <<>> \in Seq(Items)
      OBVIOUS
    <3> QED
      BY <3>1, PopShape, NoneWake
  <2>2. ~Owing
    BY <2>1 DEF IInv, Clearing
  <2>3. cursor = Len(buffer)
    BY <2>2 DEF Owing
  <2>4. buffer = <<>>
    BY <2>1, <2>3, BufferEmpty DEF LoopKinds
  <2>5. length = 0 /\ pendingcb = 0
    BY <2>1, <2>3, NothingOwed
  <2>6. /\ needDrain => ending
        /\ ending => finished
    BY <2>1, <2>3 DEF Wakeful, Awake, Busy
  <2>7. ending => ended
    BY <2>1 DEF IInv, Ending, Closing, AtTail
  <2> QED
    BY <2>4, <2>5, <2>6, <2>7
<1> QED
  BY <1>1, <1>2, <1>3, PTL DEF Spec

\* 'finish' is emitted once, after every accepted write was handed over and called
\* back, with no callback outstanding, if the handlers of 'prefinish' and 'finish' do
\* not write while end() has not returned; they may cork, uncork and call end().
THEOREM FinishSettledHolds ==
  ASSUME LateWrites = FALSE
  PROVE  Spec => FinishSettled
<1> DEFINE P == finishes' # finishes =>
                  /\ finishes = 0 /\ ending
                  /\ pendingcb = 0 /\ ~writing /\ buffer = <<>>
                  /\ Len(sunk) = accepted /\ Len(acked) = accepted
<1>1. Init => IInv /\ Books /\ Wakeful
  BY Initially, BooksInitially, WakefulInitially
<1>2. IInv /\ Books /\ Wakeful /\ [Next]_vars => IInv' /\ Books' /\ Wakeful'
  BY Inductive, BooksKept, WakefulKept
<1>3. IInv /\ Books /\ Wakeful /\ [Next]_vars => [P]_vars
  <2> SUFFICES ASSUME IInv, Books, Wakeful, [Next]_vars, finishes' # finishes
               PROVE  /\ finishes = 0 /\ ending
                      /\ pendingcb = 0 /\ ~writing /\ buffer = <<>>
                      /\ Len(sunk) = accepted /\ Len(acked) = accepted
    OBVIOUS
  <2>1. Finish
    BY DEF Next, UserCall, Step, vars, Write, Cork, Uncork, End, Accept, Reject, UncorkFrom,
           CompleteLater, CompleteInBody, Onwrite, Rejected, ClearBuffer, Emptied, LoopWrite,
           LoopExit, EmitError, BodyReturns, Defer, AfterWrite, Ack, AckBatch, FinishMaybe,
           EndUncork, EndWritable, EndTail, Return, RunTick
  <2>2. Has(todo, "finish")
    <3>1. todo # <<>> /\ Top(todo) = "finish" /\ todo \in Seq(Items)
      BY <2>1 DEF Finish, Running, Top, IInv, Types
    <3>2. PICK x \in Items, s \in Seq(Items) : todo = Push(x, s) /\ Top(todo) = x.k
      BY <3>1, PopShape
    <3> QED
      BY <3>1, <3>2, PushShape
  <2>3. finishes = 0 /\ ending /\ pendingcb = 0 /\ ~writing /\ buffer = <<>>
    BY <2>2 DEF Wakeful, Finishing
  <2> QED
    BY <2>3, AllCalledBack DEF accepted
<1> QED
  BY <1>1, <1>2, <1>3, PTL DEF Spec, FinishSettled

=============================================================================
