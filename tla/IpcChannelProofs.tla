-------------------------- MODULE IpcChannelProofs --------------------------
(***************************************************************************)
(* Proofs about IpcChannel: the types, the assertions of the channel       *)
(* (OneHandleAtATime), and that it implements FifoChannel.                 *)
(*                                                                         *)
(* The argument for the order of messages: what an end still has to handle *)
(* of the other's frames carries consecutive numbers that begin after the  *)
(* last message delivered, and goes on in the queue of the sender (Flow).  *)
(* A write that bypasses a queue would break it; no write does, since an   *)
(* end with a queue waits for an acknowledgement (OneHandleAtATime), and   *)
(* every acknowledgement empties the queue up to the next handle.  An end  *)
(* that closes loses the last of what it wrote and sends nothing after it, *)
(* so what is left is still a run of consecutive numbers.                  *)
(***************************************************************************)
EXTENDS IpcChannel, SequenceTheorems, WellFoundedInduction, TLAPS

-----------------------------------------------------------------------------
(* Sequences *)

\* A sequence that is cut and put together again.
LEMMA SplitConcat ==
  ASSUME NEW S, NEW w \in Seq(S), NEW k \in 0 .. Len(w)
  PROVE  SubSeq(w, 1, k) \o SubSeq(w, k + 1, Len(w)) = w /\ <<>> \o w = w
<1>1. 1 \in 1 .. Len(w) + 1 /\ k \in 1 - 1 .. Len(w) /\ Len(w) \in k .. Len(w)
  OBVIOUS
<1>2. SubSeq(w, 1, k) \o SubSeq(w, k + 1, Len(w)) = SubSeq(w, 1, Len(w))
  BY <1>1, ConcatAdjacentSubSeq
<1> QED
  BY <1>2, SubSeqFull, ConcatEmptySeq

\* The tail of a concatenation.
LEMMA TailConcat ==
  ASSUME NEW S, NEW c \in Seq(S), NEW w \in Seq(S), c # <<>>
  PROVE  /\ c \o w \in Seq(S) /\ c \o w # <<>> /\ Head(c \o w) = Head(c)
         /\ Tail(c \o w) = Tail(c) \o w
<1>1. Len(c) \in Nat \ {0} /\ Len(w) \in Nat
  OBVIOUS
<1> DEFINE d == c \o w
           t == Tail(c)
<1>2. d \in Seq(S) /\ Len(d) = Len(c) + Len(w)
  OBVIOUS
<1>3. \A i \in 1 .. Len(c) + Len(w) : d[i] = IF i <= Len(c) THEN c[i] ELSE w[i - Len(c)]
  OBVIOUS
<1>4. t \in Seq(S) /\ Len(t) = Len(c) - 1 /\ \A i \in 1 .. Len(c) - 1 : t[i] = c[i + 1]
  OBVIOUS
<1> HIDE DEF d, t
<1>5. d # <<>> /\ Head(d) = Head(c)
  BY <1>1, <1>2, <1>3
<1>6. /\ Tail(d) \in Seq(S) /\ Len(Tail(d)) = Len(t) + Len(w)
      /\ \A i \in 1 .. Len(t) + Len(w) : Tail(d)[i] = d[i + 1]
  BY <1>1, <1>2, <1>4, <1>5
<1>7. /\ t \o w \in Seq(S) /\ Len(t \o w) = Len(t) + Len(w)
      /\ \A i \in 1 .. Len(t) + Len(w) :
           (t \o w)[i] = IF i <= Len(t) THEN t[i] ELSE w[i - Len(t)]
  BY <1>4, ConcatProperties
<1>8. \A i \in 1 .. Len(t) + Len(w) : Tail(d)[i] = (t \o w)[i]
  <2> TAKE i \in 1 .. Len(t) + Len(w)
  <2>1. i + 1 \in 1 .. Len(c) + Len(w)
    BY <1>1, <1>4
  <2>2. CASE i <= Len(t)
    <3>1. i + 1 <= Len(c) /\ i \in 1 .. Len(c) - 1
      BY <1>1, <1>4, <2>2
    <3> QED
      BY <1>3, <1>4, <1>6, <1>7, <2>1, <2>2, <3>1
  <2>3. CASE ~(i <= Len(t))
    <3>1. ~(i + 1 <= Len(c)) /\ (i + 1) - Len(c) = i - Len(t)
      BY <1>1, <1>4, <2>3
    <3> QED
      BY <1>3, <1>6, <1>7, <2>1, <2>3, <3>1
  <2> QED
    BY <2>2, <2>3
<1>9. Tail(d) = t \o w
  BY <1>6, <1>7, <1>8, SeqEqual
<1> QED
  BY <1>2, <1>5, <1>9 DEF d, t

-----------------------------------------------------------------------------
(* Frames in order *)

IsMessage(frame) == frame.k # "ack"

\* The numbers of the messages among frames, and among those before the i-th.
Numbers(frames) == {frames[i].n : i \in {j \in 1 .. Len(frames) : IsMessage(frames[j])}}
Before(frames, i) == {frames[j].n : j \in {j \in 1 .. i - 1 : IsMessage(frames[j])}}

\* The messages among frames are numbered from a + 1 on, without gaps.
InOrder(frames, a) ==
  \A i \in 1 .. Len(frames) :
    IsMessage(frames[i]) => /\ frames[i].n > a
                            /\ Before(frames, i) = a + 1 .. frames[i].n - 1

\* What is handled first keeps its order when the rest is lost.
LEMMA InOrderPrefix ==
  ASSUME NEW f \in Seq(Frames), NEW g \in Seq(Frames), NEW a \in Nat, InOrder(f \o g, a)
  PROVE  InOrder(f, a) /\ Numbers(f) \subseteq Numbers(f \o g)
<1>1. \A i \in 1 .. Len(f) : i \in 1 .. Len(f \o g) /\ (f \o g)[i] = f[i]
  OBVIOUS
<1>2. \A i \in 1 .. Len(f) : Before(f \o g, i) = Before(f, i)
  BY <1>1 DEF Before
<1>3. InOrder(f, a)
  BY <1>1, <1>2 DEF InOrder
<1>4. Numbers(f) \subseteq Numbers(f \o g)
  BY <1>1 DEF Numbers
<1> QED
  BY <1>3, <1>4

\* An acknowledgement at the end changes nothing.
LEMMA InOrderAck ==
  ASSUME NEW f \in Seq(Frames), NEW a \in Nat, InOrder(f, a)
  PROVE  InOrder(Append(f, Ack), a) /\ Numbers(Append(f, Ack)) = Numbers(f)
<1> DEFINE g == Append(f, Ack)
<1>0. Ack \in Frames /\ ~IsMessage(Ack)
  BY DEF Ack, Frames, IsMessage
<1>1. Len(g) = Len(f) + 1 /\ g[Len(f) + 1] = Ack
  BY <1>0
<1>2. \A i \in 1 .. Len(f) : g[i] = f[i]
  BY <1>0
<1>3. \A i \in 1 .. Len(f) : Before(g, i) = Before(f, i)
  BY <1>2 DEF Before
<1>4. InOrder(g, a)
  <2> SUFFICES ASSUME NEW i \in 1 .. Len(g), IsMessage(g[i])
               PROVE  g[i].n > a /\ Before(g, i) = a + 1 .. g[i].n - 1
    BY DEF InOrder
  <2>1. i \in 1 .. Len(f)
    BY <1>0, <1>1
  <2> QED
    BY <1>2, <1>3, <2>1 DEF InOrder
<1>5. Numbers(g) = Numbers(f)
  BY <1>0, <1>1, <1>2 DEF Numbers
<1> QED
  BY <1>4, <1>5

\* Messages written with the next numbers extend the order.
LEMMA InOrderConcat ==
  ASSUME NEW f \in Seq(Frames), NEW g \in Seq(Frames), NEW a \in Nat, NEW b \in Nat, a <= b,
         InOrder(f, a), Numbers(f) = a + 1 .. b,
         \A i \in 1 .. Len(g) : IsMessage(g[i]) /\ g[i].n = b + i
  PROVE  InOrder(f \o g, a) /\ Numbers(f \o g) = a + 1 .. b + Len(g)
<1> DEFINE h == f \o g
<1>1. Len(h) = Len(f) + Len(g)
  OBVIOUS
<1>2. \A i \in 1 .. Len(f) : h[i] = f[i]
  OBVIOUS
<1>3. \A i \in 1 .. Len(g) : IsMessage(h[Len(f) + i]) /\ h[Len(f) + i].n = b + i
  OBVIOUS
<1>0. Len(f) \in Nat /\ Len(g) \in Nat
  OBVIOUS
<1> HIDE DEF h
<1>4. ASSUME NEW k \in 0 .. Len(g)
      PROVE  {h[j].n : j \in {j \in 1 .. Len(f) + k : IsMessage(h[j])}} = a + 1 .. b + k
  <2> DEFINE N == {h[j].n : j \in {j \in 1 .. Len(f) + k : IsMessage(h[j])}}
  <2>1. ASSUME NEW n \in N
        PROVE  n \in a + 1 .. b + k
    <3>1. PICK j \in 1 .. Len(f) + k : IsMessage(h[j]) /\ h[j].n = n
      BY <2>1
    <3>2. CASE j \in 1 .. Len(f)
      <4>1. n \in Numbers(f)
        BY <3>1, <3>2, <1>2 DEF Numbers
      <4> QED
        BY <4>1
    <3>3. CASE j \notin 1 .. Len(f)
      <4>1. j - Len(f) \in 1 .. Len(g) /\ j = Len(f) + (j - Len(f))
        BY <1>0, <3>3
      <4>2. n = b + (j - Len(f))
        BY <3>1, <4>1, <1>3
      <4> QED
        BY <1>0, <4>1, <4>2
    <3> QED
      BY <3>2, <3>3
  <2>2. ASSUME NEW n \in a + 1 .. b + k
        PROVE  n \in N
    <3>1. CASE n <= b
      <4>1. n \in Numbers(f)
        BY <3>1
      <4>2. PICK j \in 1 .. Len(f) : IsMessage(f[j]) /\ f[j].n = n
        BY <4>1 DEF Numbers
      <4> QED
        BY <4>2, <1>2
    <3>2. CASE n > b
      <4>1. n - b \in 1 .. Len(g) /\ n = b + (n - b) /\ Len(f) + (n - b) \in 1 .. Len(f) + k
        BY <1>0, <3>2
      <4>2. IsMessage(h[Len(f) + (n - b)]) /\ h[Len(f) + (n - b)].n = n
        BY <4>1, <1>3
      <4> QED
        BY <4>1, <4>2
    <3> QED
      BY <3>1, <3>2
  <2> QED
    BY <2>1, <2>2
<1>5. Numbers(h) = a + 1 .. b + Len(g)
  BY <1>1, <1>4 DEF Numbers
<1>6. InOrder(h, a)
  <2> SUFFICES ASSUME NEW i \in 1 .. Len(h), IsMessage(h[i])
               PROVE  h[i].n > a /\ Before(h, i) = a + 1 .. h[i].n - 1
    BY DEF InOrder
  <2>1. CASE i \in 1 .. Len(f)
    <3>1. \A j \in 1 .. i - 1 : j \in 1 .. Len(f) /\ h[j] = f[j]
      BY <1>0, <1>2, <2>1
    <3>2. Before(h, i) = Before(f, i)
      BY <3>1 DEF Before
    <3> QED
      BY <1>2, <2>1, <3>2 DEF InOrder
  <2>2. CASE i \notin 1 .. Len(f)
    <3> DEFINE k == i - Len(f) - 1
    <3>1. k \in 0 .. Len(g) /\ i - 1 = Len(f) + k /\ k + 1 \in 1 .. Len(g) /\ i = Len(f) + (k + 1)
      BY <1>0, <1>1, <2>2
    <3>2. Before(h, i) = a + 1 .. b + k
      BY <3>1, <1>4 DEF Before
    <3>3. h[i].n = b + (k + 1)
      BY <3>1, <1>3
    <3>4. b + k = h[i].n - 1 /\ h[i].n > a
      BY <3>1, <3>3
    <3> QED
      BY <3>2, <3>4
  <2> QED
    BY <2>1, <2>2
<1> QED
  BY <1>5, <1>6 DEF h

\* The first message has the next number, and what follows it goes on from there.
LEMMA InOrderTail ==
  ASSUME NEW f \in Seq(Frames), f # <<>>, NEW a \in Nat, InOrder(f, a)
  PROVE  /\ IsMessage(Head(f)) =>
              /\ Head(f).n = a + 1
              /\ InOrder(Tail(f), a + 1)
              /\ Numbers(Tail(f)) = Numbers(f) \ {a + 1}
         /\ ~IsMessage(Head(f)) =>
              InOrder(Tail(f), a) /\ Numbers(Tail(f)) = Numbers(f)
<1> DEFINE g == Tail(f)
<1>1. /\ g \in Seq(Frames) /\ Len(g) = Len(f) - 1 /\ Head(f) = f[1] /\ Len(f) \in Nat \ {0}
      /\ \A i \in 1 .. Len(g) : g[i] = f[i + 1]
  OBVIOUS
<1>2. \A i \in 1 .. Len(f) : f[i].n \in Nat
  <2>1. \A i \in 1 .. Len(f) : f[i] \in Frames
    OBVIOUS
  <2> QED
    BY <2>1 DEF Frames
<1>3. 1 \in 1 .. Len(f) /\ Before(f, 1) = {}
  <2>1. 1 \in 1 .. Len(f) /\ 1 .. 1 - 1 = {}
    BY <1>1
  <2>2. {j \in 1 .. 1 - 1 : IsMessage(f[j])} = {}
    BY <2>1
  <2> QED
    BY <2>1, <2>2 DEF Before
<1> HIDE DEF g
<1>4. CASE IsMessage(f[1])
  <2>1. f[1].n = a + 1
    <3>1. f[1].n > a /\ a + 1 .. f[1].n - 1 = {}
      BY <1>3, <1>4 DEF InOrder
    <3>2. f[1].n \in Nat
      BY <1>2, <1>3
    <3>3. f[1].n > a + 1 => a + 1 \in a + 1 .. f[1].n - 1
      BY <3>2
    <3> QED
      BY <3>1, <3>2, <3>3
  <2>2. ASSUME NEW i \in 2 .. Len(f), IsMessage(f[i])
        PROVE  f[i].n > a + 1
    <3>1. a + 1 \in Before(f, i)
      BY <1>4, <2>1 DEF Before
    <3>2. i \in 1 .. Len(f)
      BY <1>1
    <3>3. Before(f, i) = a + 1 .. f[i].n - 1
      BY <2>2, <3>2 DEF InOrder
    <3> QED
      BY <1>2, <3>1, <3>2, <3>3
  <2>3. ASSUME NEW i \in 1 .. Len(g)
        PROVE  Before(g, i) = Before(f, i + 1) \ {a + 1}
    <3>1. \A n \in Before(g, i) : n \in Before(f, i + 1) \ {a + 1}
      <4> TAKE n \in Before(g, i)
      <4>1. PICK j \in 1 .. i - 1 : IsMessage(g[j]) /\ g[j].n = n
        BY DEF Before
      <4>2. j \in 1 .. Len(g) /\ j + 1 \in 1 .. (i + 1) - 1 /\ j + 1 \in 2 .. Len(f)
        BY <1>1
      <4>3. g[j] = f[j + 1]
        BY <1>1, <4>2
      <4>4. n > a + 1
        BY <2>2, <4>1, <4>2, <4>3
      <4> QED
        BY <4>1, <4>2, <4>3, <4>4 DEF Before
    <3>2. \A n \in Before(f, i + 1) \ {a + 1} : n \in Before(g, i)
      <4> TAKE n \in Before(f, i + 1) \ {a + 1}
      <4>1. PICK j \in 1 .. (i + 1) - 1 : IsMessage(f[j]) /\ f[j].n = n
        BY DEF Before
      <4>2. j # 1
        BY <4>1, <2>1
      <4>3. j - 1 \in 1 .. i - 1 /\ j - 1 \in 1 .. Len(g) /\ j = (j - 1) + 1
        BY <1>1, <4>2
      <4>4. g[j - 1] = f[j]
        BY <1>1, <4>3
      <4> QED
        BY <4>1, <4>3, <4>4 DEF Before
    <3> QED
      BY <3>1, <3>2
  <2>4. InOrder(g, a + 1)
    <3> SUFFICES ASSUME NEW i \in 1 .. Len(g), IsMessage(g[i])
                 PROVE  g[i].n > a + 1 /\ Before(g, i) = (a + 1) + 1 .. g[i].n - 1
      BY DEF InOrder
    <3>1. i + 1 \in 2 .. Len(f) /\ i + 1 \in 1 .. Len(f) /\ g[i] = f[i + 1]
      BY <1>1
    <3>2. g[i].n > a + 1
      BY <2>2, <3>1
    <3>3. Before(f, i + 1) = a + 1 .. g[i].n - 1
      BY <3>1 DEF InOrder
    <3>4. Before(g, i) = (a + 1 .. g[i].n - 1) \ {a + 1}
      BY <2>3, <3>3
    <3>5. g[i].n \in Nat
      BY <1>2, <3>1
    <3> QED
      BY <3>2, <3>4, <3>5
  <2>5. Numbers(g) = Numbers(f) \ {a + 1}
    <3>1. \A n \in Numbers(g) : n \in Numbers(f) \ {a + 1}
      <4> TAKE n \in Numbers(g)
      <4>1. PICK j \in 1 .. Len(g) : IsMessage(g[j]) /\ g[j].n = n
        BY DEF Numbers
      <4>2. j + 1 \in 2 .. Len(f) /\ j + 1 \in 1 .. Len(f) /\ g[j] = f[j + 1]
        BY <1>1
      <4>3. n > a + 1
        BY <2>2, <4>1, <4>2
      <4> QED
        BY <4>1, <4>2, <4>3 DEF Numbers
    <3>2. \A n \in Numbers(f) \ {a + 1} : n \in Numbers(g)
      <4> TAKE n \in Numbers(f) \ {a + 1}
      <4>1. PICK j \in 1 .. Len(f) : IsMessage(f[j]) /\ f[j].n = n
        BY DEF Numbers
      <4>2. j # 1
        BY <4>1, <2>1
      <4>3. j - 1 \in 1 .. Len(g) /\ j = (j - 1) + 1
        BY <1>1, <4>2
      <4>4. g[j - 1] = f[j]
        BY <1>1, <4>3
      <4> QED
        BY <4>1, <4>3, <4>4 DEF Numbers
    <3> QED
      BY <3>1, <3>2
  <2> QED
    BY <1>1, <1>4, <2>1, <2>4, <2>5 DEF g
<1>5. CASE ~IsMessage(f[1])
  <2>1. ASSUME NEW i \in 1 .. Len(g)
        PROVE  Before(g, i) = Before(f, i + 1)
    <3>1. \A n \in Before(g, i) : n \in Before(f, i + 1)
      <4> TAKE n \in Before(g, i)
      <4>1. PICK j \in 1 .. i - 1 : IsMessage(g[j]) /\ g[j].n = n
        BY DEF Before
      <4>2. j \in 1 .. Len(g) /\ j + 1 \in 1 .. (i + 1) - 1
        BY <1>1
      <4>3. g[j] = f[j + 1]
        BY <1>1, <4>2
      <4> QED
        BY <4>1, <4>2, <4>3 DEF Before
    <3>2. \A n \in Before(f, i + 1) : n \in Before(g, i)
      <4> TAKE n \in Before(f, i + 1)
      <4>1. PICK j \in 1 .. (i + 1) - 1 : IsMessage(f[j]) /\ f[j].n = n
        BY DEF Before
      <4>2. j # 1
        BY <4>1, <1>5
      <4>3. j - 1 \in 1 .. i - 1 /\ j - 1 \in 1 .. Len(g) /\ j = (j - 1) + 1
        BY <1>1, <4>2
      <4>4. g[j - 1] = f[j]
        BY <1>1, <4>3
      <4> QED
        BY <4>1, <4>3, <4>4 DEF Before
    <3> QED
      BY <3>1, <3>2
  <2>2. InOrder(g, a)
    <3> SUFFICES ASSUME NEW i \in 1 .. Len(g), IsMessage(g[i])
                 PROVE  g[i].n > a /\ Before(g, i) = a + 1 .. g[i].n - 1
      BY DEF InOrder
    <3>1. i + 1 \in 1 .. Len(f) /\ g[i] = f[i + 1]
      BY <1>1
    <3> QED
      BY <2>1, <3>1 DEF InOrder
  <2>3. Numbers(g) = Numbers(f)
    <3>1. \A n \in Numbers(g) : n \in Numbers(f)
      <4> TAKE n \in Numbers(g)
      <4>1. PICK j \in 1 .. Len(g) : IsMessage(g[j]) /\ g[j].n = n
        BY DEF Numbers
      <4>2. j + 1 \in 1 .. Len(f) /\ g[j] = f[j + 1]
        BY <1>1
      <4> QED
        BY <4>1, <4>2 DEF Numbers
    <3>2. \A n \in Numbers(f) : n \in Numbers(g)
      <4> TAKE n \in Numbers(f)
      <4>1. PICK j \in 1 .. Len(f) : IsMessage(f[j]) /\ f[j].n = n
        BY DEF Numbers
      <4>2. j # 1
        BY <4>1, <1>5
      <4>3. j - 1 \in 1 .. Len(g) /\ j = (j - 1) + 1
        BY <1>1, <4>2
      <4>4. g[j - 1] = f[j]
        BY <1>1, <4>3
      <4> QED
        BY <4>1, <4>3, <4>4 DEF Numbers
    <3> QED
      BY <3>1, <3>2
  <2> QED
    BY <1>1, <1>5, <2>2, <2>3 DEF g
<1> QED
  BY <1>4, <1>5

-----------------------------------------------------------------------------
(* The ends, and the types *)

\* There are two ends, and each is the other's other.
LEMMA TwoEnds ==
  ASSUME NEW e \in Ends
  PROVE  /\ Other(e) \in Ends /\ Other(e) # e /\ Other(Other(e)) = e
         /\ \A x \in Ends : x = e \/ x = Other(e)
<1>1. PICK a \in Ends, b \in Ends : a # b /\ Ends = {a, b}
  BY IpcChannelAssumption
<1>2. \A x \in Ends : \E o \in Ends : o # x
  BY <1>1
<1>3. \A x \in Ends : Other(x) \in Ends /\ Other(x) # x
  BY <1>2 DEF Other
<1> QED
  BY <1>1, <1>3

\* The three states of one end.
State3(p) ==
  /\ p.connected => p.channel /\ p.pipe
  /\ p.channel => ~p.waits /\ ~p.tick /\ ~p.told
  /\ p.acking => p.channel
  /\ p.channel /\ p.reading => p.pipe

\* Disconnecting and finishing lead from state to state; what an end has to
\* handle and to flush stays.
LEMMA CutState ==
  ASSUME NEW p \in EndStates, ~p.connected, ~p.acking
  PROVE  /\ Cut(p) \in EndStates /\ State3(Cut(p)) /\ ~Cut(p).connected
         /\ Cut(p).acking = p.acking /\ Cut(p).queue = p.queue /\ Cut(p).reading = p.reading
         /\ Cut(p).chunk = p.chunk /\ Cut(p).pipe = p.pipe /\ Cut(p).dead = p.dead
<1> QED
  BY DEF Cut, EndStates, State3

\* disconnect(): the queues stay, and the target is no longer connected.
LEMMA HungUpState ==
  ASSUME NEW p \in EndStates, State3(p)
  PROVE  /\ HungUp(p) \in EndStates /\ State3(HungUp(p)) /\ ~HungUp(p).connected
         /\ HungUp(p).acking = p.acking /\ HungUp(p).queue = p.queue
         /\ HungUp(p).reading = p.reading /\ HungUp(p).chunk = p.chunk
         /\ HungUp(p).pipe = p.pipe /\ HungUp(p).dead = p.dead
<1> DEFINE q == [p EXCEPT !.connected = FALSE]
<1>1. /\ q \in EndStates /\ State3(q) /\ ~q.connected
      /\ q.acking = p.acking /\ q.queue = p.queue /\ q.reading = p.reading
      /\ q.chunk = p.chunk /\ q.pipe = p.pipe /\ q.dead = p.dead
  BY DEF EndStates, State3
<1>2. HungUp(p) = IF p.acking THEN q ELSE Cut(q)
  BY DEF HungUp
<1> HIDE DEF q
<1> QED
  BY <1>1, <1>2, CutState

\* finish(): the pipe is closed.
LEMMA FinishedState ==
  ASSUME NEW p \in EndStates, ~p.channel, State3(p)
  PROVE  /\ Finished(p) \in EndStates /\ State3(Finished(p))
         /\ Finished(p).connected = p.connected
         /\ Finished(p).acking = p.acking /\ Finished(p).queue = p.queue
         /\ Finished(p).reading = p.reading /\ Finished(p).chunk = p.chunk
         /\ Finished(p).pipe = FALSE /\ Finished(p).dead = p.dead
<1> QED
  BY DEF Finished, EndStates, State3

\* The queue has been written up to a handle, or to its end.
LEMMA FlushedState ==
  ASSUME NEW p \in EndStates, State3(p), p.channel,
         NEW rest \in Seq(Nat), NEW acking \in BOOLEAN
  PROVE  LET q == Flushed(p, rest, acking)
         IN /\ q \in EndStates /\ State3(q) /\ q.connected = p.connected
            /\ q.acking = acking /\ q.queue = rest
            /\ q.reading = p.reading /\ q.chunk = p.chunk
            /\ q.pipe = p.pipe /\ q.dead = p.dead
<1> DEFINE r == [p EXCEPT !.acking = acking, !.queue = rest]
<1>1. /\ r \in EndStates /\ State3(r) /\ r.connected = p.connected
      /\ r.acking = acking /\ r.queue = rest /\ r.reading = p.reading
      /\ r.chunk = p.chunk /\ r.pipe = p.pipe /\ r.dead = p.dead
  BY DEF EndStates, State3
<1>2. Flushed(p, rest, acking) = IF ~p.connected /\ p.channel /\ ~acking THEN Cut(r) ELSE r
  BY DEF Flushed
<1>3. p.connected \in BOOLEAN
  BY DEF EndStates
<1> HIDE DEF r
<1>4. CASE ~p.connected /\ p.channel /\ ~acking
  <2>1. ~r.connected /\ ~r.acking
    BY <1>1, <1>4
  <2>2. Cut(r).connected = p.connected
    <3>1. Cut(r).connected \in BOOLEAN
      BY <1>1, <2>1, CutState DEF EndStates
    <3> QED
      BY <1>1, <1>3, <1>4, <2>1, <3>1, CutState
  <2> QED
    BY <1>1, <1>2, <1>4, <2>1, <2>2, CutState
<1>5. CASE ~(~p.connected /\ p.channel /\ ~acking)
  BY <1>1, <1>2, <1>5
<1> QED
  BY <1>4, <1>5

\* A dead process has no frames to handle and no queue.
LEMMA DeadState ==
  /\ Dead \in EndStates /\ State3(Dead) /\ ~Dead.connected /\ Dead.chunk = <<>>
  /\ Dead.queue = <<>> /\ Dead.pipe = FALSE /\ Dead.dead = TRUE
<1>1. <<>> \in Seq(Nat) /\ <<>> \in Seq(Frames)
  OBVIOUS
<1> QED
  BY <1>1 DEF Dead, NewEnd, EndStates, State3

\* The next frame of a chunk is taken.
LEMMA PoppedState ==
  ASSUME TypeOK, NEW e \in Ends, end[e].chunk # <<>>
  PROVE  /\ Popped(e) \in EndStates /\ State3(Popped(e))
         /\ Popped(e).connected = end[e].connected
         /\ Popped(e).acking = end[e].acking /\ Popped(e).queue = end[e].queue
         /\ Popped(e).reading = end[e].reading /\ Popped(e).chunk = Tail(end[e].chunk)
         /\ Popped(e).pipe = end[e].pipe /\ Popped(e).dead = end[e].dead
<1>1. end[e] \in EndStates /\ State3(end[e])
  BY DEF TypeOK, ThreeStates, State3
<1>2. end[e].chunk \in Seq(Frames)
  BY <1>1 DEF EndStates
<1>3. Tail(end[e].chunk) \in Seq(Frames)
  BY <1>2
<1>4. (Head(end[e].chunk).k # "ack") \in BOOLEAN
  OBVIOUS
<1> QED
  BY <1>1, <1>3, <1>4 DEF Popped, EndStates, State3

\* An end that goes from state to state keeps the types.
LEMMA EndTypes ==
  ASSUME TypeOK, NEW e \in Ends, NEW q \in EndStates, State3(q), Is(e, q)
  PROVE  /\ end' \in [Ends -> EndStates] /\ ThreeStates'
         /\ end'[e] = q /\ \A x \in Ends : x # e => end'[x] = end[x]
<1>1. end \in [Ends -> EndStates] /\ end' = [end EXCEPT ![e] = q]
  BY DEF TypeOK, Is
<1>2. end'[e] = q /\ \A x \in Ends : x # e => end'[x] = end[x]
  BY <1>1
<1>3. \A x \in Ends : State3(end[x])
  BY DEF TypeOK, ThreeStates, State3
<1>4. \A x \in Ends : State3(end'[x])
  BY <1>2, <1>3
<1>5. ThreeStates'
  BY <1>4 DEF ThreeStates, State3
<1> QED
  BY <1>1, <1>2, <1>5

-----------------------------------------------------------------------------
(* What each action does to the two queues of an end, its wires and its pipe *)

Others(e) == \A x \in Ends : x # e => end'[x] = end[x]

SameSender(e) ==
  /\ end'[e].queue = end[e].queue /\ end'[e].acking = end[e].acking
  /\ end'[e].dead = end[e].dead

SameReader(e) == end'[e].chunk = end[e].chunk /\ end'[e].reading = end[e].reading

\* One frame of the chunk has been handled.
TakesFrame(e) ==
  /\ end[e].chunk # <<>> /\ end[e].reading /\ ~end[e].dead
  /\ end'[e].chunk = Tail(end[e].chunk) /\ end'[e].reading = end[e].reading

\* Nothing is written; what was may be lost in part when the pipe closes.
KeepsWire(e) ==
  \/ wire' = wire
  \/ /\ end'[e].pipe = FALSE
     /\ \E k \in 0 .. Len(wire[e]) : wire' = [wire EXCEPT ![e] = SubSeq(wire[e], 1, k)]

\* The types of the parts of an end.
LEMMA EndType ==
  ASSUME TypeOK, NEW e \in Ends
  PROVE  /\ end[e] \in EndStates /\ State3(end[e])
         /\ end[e].chunk \in Seq(Frames) /\ end[e].queue \in Seq(Nat)
         /\ end[e].pipe \in BOOLEAN /\ end[e].dead \in BOOLEAN /\ end[e].acking \in BOOLEAN
         /\ end[e].connected \in BOOLEAN /\ end[e].reading \in BOOLEAN
         /\ wire[e] \in Seq(Frames) /\ sent[e] \in Seq(BOOLEAN) /\ got[e] \in Seq(Nat)
<1>1. end[e] \in EndStates /\ State3(end[e])
  BY DEF TypeOK, ThreeStates, State3
<1>2. wire[e] \in Seq(Frames) /\ sent[e] \in Seq(BOOLEAN) /\ got[e] \in Seq(Nat)
  BY DEF TypeOK
<1> QED
  BY <1>1, <1>2 DEF EndStates

\* What is out of the handle is a part of what was written.
LEMMA OutRange ==
  ASSUME TypeOK, NEW e \in Ends
  PROVE  Out(e) \subseteq 0 .. Len(wire[e])
<1>1. Len(wire[e]) \in Nat
  BY EndType
<1> QED
  BY <1>1 DEF Out

\* The types of the wires when some of what an end wrote is lost.
LEMMA WireTypes ==
  ASSUME TypeOK, NEW e \in Ends, KeepsWire(e)
  PROVE  wire' \in [Ends -> Seq(Frames)]
<1>1. CASE wire' = wire
  BY <1>1 DEF TypeOK
<1>2. ASSUME NEW k \in 0 .. Len(wire[e]), wire' = [wire EXCEPT ![e] = SubSeq(wire[e], 1, k)]
      PROVE  wire' \in [Ends -> Seq(Frames)]
  <2>1. SubSeq(wire[e], 1, k) \in Seq(Frames)
    BY EndType
  <2> QED
    BY <1>2, <2>1 DEF TypeOK
<1> QED
  BY <1>1, <1>2 DEF KeepsWire

\* finish(), of an end in a given state.
LEMMA FinishDoes ==
  ASSUME TypeOK, NEW e \in Ends, NEW p \in EndStates, ~p.channel, State3(p), Finish(e, p)
  PROVE  \E q \in EndStates :
           /\ Is(e, q) /\ State3(q) /\ q.connected = p.connected
           /\ q.acking = p.acking /\ q.queue = p.queue /\ q.reading = p.reading
           /\ q.chunk = p.chunk /\ q.pipe = FALSE /\ q.dead = p.dead
           /\ \E k \in 0 .. Len(wire[e]) : wire' = [wire EXCEPT ![e] = SubSeq(wire[e], 1, k)]
<1>1. PICK k \in Out(e) :
        /\ Is(e, [Finished(p) EXCEPT !.lost = @ \/ k < Len(wire[e])])
        /\ wire' = [wire EXCEPT ![e] = SubSeq(wire[e], 1, k)]
  BY DEF Finish
<1>2. k \in 0 .. Len(wire[e])
  BY OutRange
<1> DEFINE f == Finished(p)
           q == [f EXCEPT !.lost = @ \/ k < Len(wire[e])]
<1>3. /\ f \in EndStates /\ State3(f) /\ f.connected = p.connected
      /\ f.acking = p.acking /\ f.queue = p.queue /\ f.reading = p.reading
      /\ f.chunk = p.chunk /\ f.pipe = FALSE /\ f.dead = p.dead
  BY FinishedState
<1>4. Is(e, q)
  BY <1>1
<1> HIDE DEF f
<1>5. (f.lost \/ k < Len(wire[e])) \in BOOLEAN
  BY <1>3 DEF EndStates
<1>6. /\ q \in EndStates /\ State3(q) /\ q.connected = f.connected
      /\ q.acking = f.acking /\ q.queue = f.queue /\ q.reading = f.reading
      /\ q.chunk = f.chunk /\ q.pipe = f.pipe /\ q.dead = f.dead
  BY <1>3, <1>5 DEF EndStates, State3
<1> HIDE DEF q
<1> QED
  BY <1>1, <1>2, <1>3, <1>4, <1>6

\* send() appends to the queue, or to the wire, or loses the message because
\* nobody reads the pipe.
LEMMA SendDoes ==
  ASSUME TypeOK, NEW e \in Ends, Send(e)
  PROVE  /\ TypeOK' /\ Others(e) /\ SameReader(e) /\ UNCHANGED got
         /\ ~end[e].dead /\ ~end'[e].dead /\ end'[e].pipe = end[e].pipe
         /\ end[e].connected /\ end'[e].connected /\ end[e].pipe
         /\ \E handle \in BOOLEAN :
              LET n == Len(sent[e]) + 1
              IN /\ sent' = [sent EXCEPT ![e] = Append(sent[e], handle)]
                 /\ \/ /\ end[e].acking /\ end'[e].acking
                       /\ end'[e].queue = Append(end[e].queue, n)
                       /\ wire' = wire
                    \/ /\ ~end[e].acking /\ end'[e].acking = handle
                       /\ end'[e].queue = end[e].queue
                       /\ wire' = [wire EXCEPT ![e] = Append(wire[e],
                            [k |-> IF handle THEN "handle" ELSE "message", n |-> n])]
                    \/ /\ ~end[e].acking /\ ~end'[e].acking
                       /\ end'[e].queue = end[e].queue
                       /\ ~end[Other(e)].pipe
                       /\ wire' = wire
<1> DEFINE p == end[e]
           n == Len(sent[e]) + 1
<1>1. p \in EndStates /\ State3(p) /\ p.queue \in Seq(Nat) /\ n \in Nat
  BY EndType
<1>2. ~p.dead /\ p.connected /\ p.pipe
  BY <1>1 DEF Send, UserRuns, Alive, State3
<1>3. PICK handle \in BOOLEAN :
        /\ sent' = [sent EXCEPT ![e] = Append(@, handle)]
        /\ \/ /\ MustQueue(p, handle)
              /\ Is(e, [p EXCEPT !.queue = Append(@, n)])
              /\ UNCHANGED wire
           \/ /\ ~MustQueue(p, handle)
              /\ \E ok \in Writes(e) :
                   /\ Is(e, [p EXCEPT !.acking = @ \/ (handle /\ ok)])
                   /\ wire' = IF ok THEN [wire EXCEPT ![e] =
                        Append(@, [k |-> IF handle THEN "handle" ELSE "message", n |-> n])]
                      ELSE wire
  BY DEF Send
<1> HIDE DEF n
<1>4. got' = got
  BY DEF Send
<1>5. sent' \in [Ends -> Seq(BOOLEAN)]
  BY <1>3 DEF TypeOK
<1>6. got' \in [Ends -> Seq(Nat)]
  BY <1>4 DEF TypeOK
<1>7. CASE MustQueue(p, handle)
  <2> DEFINE q == [p EXCEPT !.queue = Append(@, n)]
  <2>1. Is(e, q) /\ wire' = wire /\ p.acking
    BY <1>3, <1>7 DEF MustQueue
  <2>2. Append(p.queue, n) \in Seq(Nat)
    BY <1>1
  <2>3. /\ q \in EndStates /\ State3(q) /\ q.queue = Append(p.queue, n)
        /\ q.acking = p.acking /\ q.dead = p.dead /\ q.pipe = p.pipe /\ q.connected = p.connected
        /\ q.chunk = p.chunk /\ q.reading = p.reading
    BY <1>1, <2>2 DEF EndStates, State3
  <2> HIDE DEF q
  <2>4. end' \in [Ends -> EndStates] /\ ThreeStates' /\ end'[e] = q /\ Others(e)
    BY <2>1, <2>3, EndTypes DEF Others
  <2>5. wire' \in [Ends -> Seq(Frames)]
    BY <2>1 DEF TypeOK
  <2> QED
    BY <1>2, <1>3, <1>4, <1>5, <1>6, <2>1, <2>3, <2>4, <2>5 DEF TypeOK, SameReader, n
<1>8. CASE ~MustQueue(p, handle)
  <2>1. PICK ok \in Writes(e) :
          /\ Is(e, [p EXCEPT !.acking = @ \/ (handle /\ ok)])
          /\ wire' = IF ok THEN [wire EXCEPT ![e] =
               Append(@, [k |-> IF handle THEN "handle" ELSE "message", n |-> n])]
             ELSE wire
    BY <1>3, <1>8
  <2>2. ok \in BOOLEAN /\ (~ok => ~end[Other(e)].pipe)
    <3>1. CASE Gone(Other(e))
      BY <3>1 DEF Writes, Gone
    <3>2. CASE ~Gone(Other(e))
      BY <3>2 DEF Writes
    <3> QED
      BY <3>1, <3>2
  <2> DEFINE q == [p EXCEPT !.acking = @ \/ (handle /\ ok)]
             f == [k |-> IF handle THEN "handle" ELSE "message", n |-> n]
  <2>3. ~p.acking
    BY <1>8 DEF MustQueue
  <2>4. /\ q \in EndStates /\ State3(q) /\ q.queue = p.queue
        /\ q.acking = (handle /\ ok) /\ q.dead = p.dead /\ q.pipe = p.pipe
        /\ q.connected = p.connected /\ q.chunk = p.chunk /\ q.reading = p.reading
    BY <1>1, <1>2, <2>2, <2>3 DEF EndStates, State3
  <2>5. f \in Frames
    BY <1>1 DEF Frames
  <2>6. Is(e, q) /\ wire' = IF ok THEN [wire EXCEPT ![e] = Append(wire[e], f)] ELSE wire
    BY <2>1
  <2> HIDE DEF q, f
  <2>7. end' \in [Ends -> EndStates] /\ ThreeStates' /\ end'[e] = q /\ Others(e)
    BY <2>4, <2>6, EndTypes DEF Others
  <2>8. wire' \in [Ends -> Seq(Frames)]
    BY <2>5, <2>6 DEF TypeOK
  <2>9. TypeOK' /\ SameReader(e)
    BY <1>5, <1>6, <2>4, <2>7, <2>8 DEF TypeOK, SameReader
  <2>10. CASE ok
    BY <1>2, <1>3, <1>4, <2>3, <2>4, <2>6, <2>7, <2>9, <2>10 DEF n, f
  <2>11. CASE ~ok
    BY <1>2, <1>3, <1>4, <2>2, <2>3, <2>4, <2>6, <2>7, <2>9, <2>11
  <2> QED
    BY <2>2, <2>10, <2>11
<1> QED
  BY <1>7, <1>8

\* Actions that only change the state of one end and leave its queues.
Quiet(e) ==
  /\ TypeOK' /\ Others(e) /\ SameSender(e) /\ KeepsWire(e) /\ UNCHANGED <<sent, got>>
  /\ end'[e].pipe \in {end[e].pipe, FALSE}
  /\ end'[e].connected \in {end[e].connected, FALSE}
  /\ end'[e].chunk = end[e].chunk
  /\ end'[e].reading \/ end'[e].chunk = <<>>

\* How an action is shown to be one of these.
LEMMA QuietState ==
  ASSUME TypeOK, NEW e \in Ends, NEW q \in EndStates, State3(q), Is(e, q),
         q.queue = end[e].queue, q.acking = end[e].acking, q.dead = end[e].dead,
         q.pipe \in {end[e].pipe, FALSE}, q.connected \in {end[e].connected, FALSE},
         q.chunk = end[e].chunk, q.reading \/ q.chunk = <<>>,
         UNCHANGED <<sent, got>>,
         \/ wire' = wire
         \/ /\ q.pipe = FALSE
            /\ \E k \in 0 .. Len(wire[e]) : wire' = [wire EXCEPT ![e] = SubSeq(wire[e], 1, k)]
  PROVE  Quiet(e)
<1>1. end' \in [Ends -> EndStates] /\ ThreeStates' /\ end'[e] = q /\ Others(e)
  BY EndTypes DEF Others
<1>3. KeepsWire(e)
  BY <1>1 DEF KeepsWire
<1>2. TypeOK'
  BY <1>1, <1>3, WireTypes DEF TypeOK
<1> QED
  BY <1>1, <1>2, <1>3 DEF Quiet, SameSender

\* No frame is left of a chunk when onread does not run.
ChunkRead == \A e \in Ends : end[e].reading \/ end[e].chunk = <<>>

\* disconnect().
LEMMA DisconnectDoes ==
  ASSUME TypeOK, ChunkRead, NEW e \in Ends, Disconnect(e)
  PROVE  Quiet(e)
<1> DEFINE p == HungUp(end[e])
           q == [p EXCEPT !.left = TRUE]
<1>1. end[e] \in EndStates /\ State3(end[e])
  BY EndType
<1>2. /\ p \in EndStates /\ State3(p) /\ ~p.connected
      /\ p.acking = end[e].acking /\ p.queue = end[e].queue /\ p.reading = end[e].reading
      /\ p.chunk = end[e].chunk /\ p.pipe = end[e].pipe /\ p.dead = end[e].dead
  BY <1>1, HungUpState
<1>3. p.connected = FALSE
  BY <1>2 DEF EndStates
<1> HIDE DEF p
<1>4. /\ q \in EndStates /\ State3(q) /\ q.connected = FALSE
      /\ q.acking = p.acking /\ q.queue = p.queue /\ q.reading = p.reading
      /\ q.chunk = p.chunk /\ q.pipe = p.pipe /\ q.dead = p.dead
  BY <1>2, <1>3 DEF EndStates, State3
<1>5. Is(e, q) /\ UNCHANGED <<wire, sent, got>>
  BY DEF Disconnect, p
<1> HIDE DEF q
<1> QED
  BY <1>2, <1>4, <1>5, QuietState DEF ChunkRead

\* finish(), on the next tick.
LEMMA RunTickDoes ==
  ASSUME TypeOK, ChunkRead, NEW e \in Ends, RunTick(e)
  PROVE  Quiet(e)
<1>1. end[e] \in EndStates /\ State3(end[e]) /\ ~end[e].channel /\ ~end[e].reading
  BY EndType DEF RunTick, State3
<1>2. Finish(e, end[e]) /\ UNCHANGED <<sent, got>>
  BY DEF RunTick
<1>3. PICK q \in EndStates :
        /\ Is(e, q) /\ State3(q) /\ q.connected = end[e].connected
        /\ q.acking = end[e].acking /\ q.queue = end[e].queue /\ q.reading = end[e].reading
        /\ q.chunk = end[e].chunk /\ q.pipe = FALSE /\ q.dead = end[e].dead
        /\ \E k \in 0 .. Len(wire[e]) : wire' = [wire EXCEPT ![e] = SubSeq(wire[e], 1, k)]
  BY <1>1, <1>2, FinishDoes
<1> QED
  BY <1>2, <1>3, QuietState DEF ChunkRead

\* The loop of onread ends.
LEMMA ChunkDoneDoes ==
  ASSUME TypeOK, NEW e \in Ends, ChunkDone(e)
  PROVE  Quiet(e)
<1> DEFINE p == end[e]
           q == [p EXCEPT !.reading = FALSE, !.handler = FALSE,
                          !.partial = FALSE, !.buffering = p.partial]
<1>1. p \in EndStates /\ State3(p)
  BY EndType
<1>2. /\ q \in EndStates /\ State3(q) /\ q.connected = p.connected
      /\ q.acking = p.acking /\ q.queue = p.queue
      /\ q.chunk = p.chunk /\ q.pipe = p.pipe /\ q.dead = p.dead
  BY <1>1 DEF EndStates, State3
<1>3. Is(e, q) /\ UNCHANGED <<wire, sent, got>> /\ p.chunk = <<>>
  BY DEF ChunkDone
<1> HIDE DEF q
<1> QED
  BY <1>2, <1>3, QuietState

\* The pipe has ended.
LEMMA EofDoes ==
  ASSUME TypeOK, ChunkRead, NEW e \in Ends, Eof(e)
  PROVE  Quiet(e)
<1> DEFINE p == [end[e] EXCEPT !.buffering = FALSE]
           r == IF p.connected THEN HungUp(p) ELSE p
           q == [r EXCEPT !.pipe = FALSE]
<1>1. end[e] \in EndStates /\ State3(end[e]) /\ ~end[e].reading
  BY EndType DEF Eof, MayRead
<1>2. /\ p \in EndStates /\ State3(p) /\ p.connected = end[e].connected
      /\ p.acking = end[e].acking /\ p.queue = end[e].queue /\ p.reading = end[e].reading
      /\ p.chunk = end[e].chunk /\ p.dead = end[e].dead
  BY <1>1 DEF EndStates, State3
<1> HIDE DEF p
<1>3. /\ r \in EndStates /\ State3(r) /\ r.connected = FALSE
      /\ r.acking = end[e].acking /\ r.queue = end[e].queue /\ r.reading = end[e].reading
      /\ r.chunk = end[e].chunk /\ r.dead = end[e].dead
  <2>1. HungUp(p).connected \in BOOLEAN /\ p.connected \in BOOLEAN
    BY <1>2, HungUpState DEF EndStates
  <2> QED
    BY <1>2, <2>1, HungUpState
<1> HIDE DEF r
<1>4. /\ q \in EndStates /\ State3(q) /\ q.connected = r.connected
      /\ q.acking = r.acking /\ q.queue = r.queue /\ q.reading = r.reading
      /\ q.chunk = r.chunk /\ q.pipe = FALSE /\ q.dead = r.dead
  BY <1>1, <1>3 DEF EndStates, State3
<1>5. Is(e, q) /\ UNCHANGED <<wire, sent, got>>
  BY DEF Eof, p, r
<1> HIDE DEF q
<1> QED
  BY <1>3, <1>4, <1>5, QuietState DEF ChunkRead

\* A chunk is the beginning of the wire.
LEMMA ReadDoes ==
  ASSUME TypeOK, NEW e \in Ends, Read(e)
  PROVE  /\ TypeOK' /\ Others(e) /\ SameSender(e) /\ UNCHANGED <<sent, got>>
         /\ ~end[e].reading /\ end'[e].reading
         /\ end[e].pipe = TRUE /\ end'[e].pipe = TRUE
         /\ end'[e].connected = end[e].connected
         /\ \E k \in 0 .. Len(wire[Other(e)]) :
              /\ end'[e].chunk = SubSeq(wire[Other(e)], 1, k)
              /\ wire' = [wire EXCEPT ![Other(e)] =
                   SubSeq(wire[Other(e)], k + 1, Len(wire[Other(e)]))]
<1> DEFINE o == Other(e)
           w == wire[o]
<1>1. o \in Ends /\ w \in Seq(Frames)
  BY TwoEnds, EndType
<1>2. PICK k \in 0 .. Len(w), partial \in IF Splits THEN BOOLEAN ELSE {FALSE} :
        /\ Is(e, [end[e] EXCEPT !.reading = TRUE, !.chunk = SubSeq(w, 1, k),
                                !.partial = partial])
        /\ wire' = [wire EXCEPT ![o] = SubSeq(w, k + 1, Len(w))]
  BY DEF Read
<1>3. UNCHANGED <<sent, got>> /\ ~end[e].reading /\ end[e].pipe = TRUE
  BY EndType DEF Read, MayRead
<1>4. SubSeq(w, 1, k) \in Seq(Frames) /\ SubSeq(w, k + 1, Len(w)) \in Seq(Frames)
  BY <1>1
<1>5. partial \in BOOLEAN
  OBVIOUS
<1> DEFINE p == end[e]
           q == [p EXCEPT !.reading = TRUE, !.chunk = SubSeq(w, 1, k), !.partial = partial]
<1>6. p \in EndStates /\ State3(p)
  BY EndType
<1>7. /\ q \in EndStates /\ State3(q) /\ q.connected = p.connected
      /\ q.acking = p.acking /\ q.queue = p.queue /\ q.reading
      /\ q.chunk = SubSeq(w, 1, k) /\ q.pipe = p.pipe /\ q.dead = p.dead
  BY <1>3, <1>4, <1>5, <1>6 DEF EndStates, State3
<1>8. Is(e, q)
  BY <1>2
<1> HIDE DEF q
<1>9. end' \in [Ends -> EndStates] /\ ThreeStates' /\ end'[e] = q /\ Others(e)
  BY <1>7, <1>8, EndTypes DEF Others
<1>10. wire' \in [Ends -> Seq(Frames)]
  BY <1>1, <1>2, <1>4 DEF TypeOK
<1>11. TypeOK'
  BY <1>3, <1>9, <1>10 DEF TypeOK
<1> QED
  BY <1>2, <1>3, <1>7, <1>9, <1>11 DEF SameSender

\* What the handlers of frames do to got: the message is delivered.
Delivery(e) == got' = [got EXCEPT ![e] = Append(got[e], Head(end[e].chunk).n)]

\* What is taken from a chunk is a frame, and what is delivered a number.
LEMMA DeliveryType ==
  ASSUME TypeOK, NEW e \in Ends, end[e].chunk # <<>>
  PROVE  Head(end[e].chunk) \in Frames /\ (Delivery(e) => got' \in [Ends -> Seq(Nat)])
<1>1. \A f \in Seq(Frames) : f # <<>> => Head(f) \in Frames
  OBVIOUS
<1>2. Head(end[e].chunk) \in Frames
  BY <1>1, EndType
<1>3. Head(end[e].chunk).n \in Nat
  BY <1>2 DEF Frames
<1>4. Append(got[e], Head(end[e].chunk).n) \in Seq(Nat)
  BY <1>3, EndType
<1>5. Delivery(e) => got' \in [Ends -> Seq(Nat)]
  BY <1>4 DEF TypeOK, Delivery
<1> QED
  BY <1>2, <1>5

\* A message is emitted, and what waited for it finishes.
LEMMA OnMessageDoes ==
  ASSUME TypeOK, NEW e \in Ends, OnMessage(e)
  PROVE  /\ TypeOK' /\ Others(e) /\ SameSender(e) /\ TakesFrame(e)
         /\ KeepsWire(e) /\ UNCHANGED sent /\ Delivery(e)
         /\ end'[e].pipe \in {end[e].pipe, FALSE}
         /\ end'[e].connected = end[e].connected
         /\ Head(end[e].chunk).k = "message"
<1> DEFINE p == Popped(e)
<1>1. /\ end[e].chunk # <<>> /\ Head(end[e].chunk).k = "message" /\ end[e].reading /\ ~end[e].dead
      /\ Emitted(e, p) /\ UNCHANGED sent /\ Delivery(e)
  BY DEF OnMessage, Due, Delivers, Alive, Delivery
<1>2. /\ p \in EndStates /\ State3(p) /\ p.connected = end[e].connected
      /\ p.acking = end[e].acking /\ p.queue = end[e].queue /\ p.reading = end[e].reading
      /\ p.chunk = Tail(end[e].chunk) /\ p.pipe = end[e].pipe /\ p.dead = end[e].dead
  BY <1>1, PoppedState
<1> HIDE DEF p
<1>3. \E q \in EndStates :
        /\ Is(e, q) /\ State3(q) /\ q.connected = p.connected
        /\ q.acking = p.acking /\ q.queue = p.queue /\ q.reading = p.reading
        /\ q.chunk = p.chunk /\ q.pipe \in {p.pipe, FALSE} /\ q.dead = p.dead
        /\ \/ wire' = wire
           \/ /\ q.pipe = FALSE
              /\ \E k \in 0 .. Len(wire[e]) : wire' = [wire EXCEPT ![e] = SubSeq(wire[e], 1, k)]
  <2>1. CASE p.waits
    <3>1. ~p.channel
      BY <1>2, <2>1 DEF State3
    <3>2. Finish(e, p)
      BY <1>1, <2>1 DEF Emitted
    <3>3. PICK q \in EndStates :
            /\ Is(e, q) /\ State3(q) /\ q.connected = p.connected
            /\ q.acking = p.acking /\ q.queue = p.queue /\ q.reading = p.reading
            /\ q.chunk = p.chunk /\ q.pipe = FALSE /\ q.dead = p.dead
            /\ \E k \in 0 .. Len(wire[e]) : wire' = [wire EXCEPT ![e] = SubSeq(wire[e], 1, k)]
      BY <1>2, <3>1, <3>2, FinishDoes
    <3> QED
      BY <3>3
  <2>2. CASE ~p.waits
    <3>1. Is(e, p) /\ wire' = wire
      BY <1>1, <2>2 DEF Emitted
    <3> QED
      BY <1>2, <3>1
  <2> QED
    BY <2>1, <2>2
<1>4. PICK q \in EndStates :
        /\ Is(e, q) /\ State3(q) /\ q.connected = p.connected
        /\ q.acking = p.acking /\ q.queue = p.queue /\ q.reading = p.reading
        /\ q.chunk = p.chunk /\ q.pipe \in {p.pipe, FALSE} /\ q.dead = p.dead
        /\ \/ wire' = wire
           \/ /\ q.pipe = FALSE
              /\ \E k \in 0 .. Len(wire[e]) : wire' = [wire EXCEPT ![e] = SubSeq(wire[e], 1, k)]
  BY <1>3
<1>5. end' \in [Ends -> EndStates] /\ ThreeStates' /\ end'[e] = q /\ Others(e)
  BY <1>4, EndTypes DEF Others
<1>6. KeepsWire(e)
  BY <1>4, <1>5 DEF KeepsWire
<1>7. TypeOK'
  BY <1>1, <1>5, <1>6, WireTypes, DeliveryType DEF TypeOK
<1> QED
  BY <1>1, <1>2, <1>4, <1>5, <1>6, <1>7 DEF SameSender, TakesFrame

\* A handle is received and acknowledged.
LEMMA OnHandleDoes ==
  ASSUME TypeOK, NEW e \in Ends, OnHandle(e)
  PROVE  /\ TypeOK' /\ Others(e) /\ SameSender(e) /\ TakesFrame(e)
         /\ UNCHANGED sent /\ Delivery(e)
         /\ end'[e].pipe = end[e].pipe /\ end'[e].connected = end[e].connected
         /\ Head(end[e].chunk).k = "handle"
         /\ wire' = [wire EXCEPT ![e] = Append(wire[e], Ack)]
<1> DEFINE q == Popped(e)
<1>1. /\ end[e].chunk # <<>> /\ Head(end[e].chunk).k = "handle" /\ end[e].reading /\ ~end[e].dead
      /\ Is(e, q) /\ UNCHANGED sent /\ Delivery(e)
      /\ wire' = [wire EXCEPT ![e] = Append(wire[e], Ack)]
  BY DEF OnHandle, Due, Delivers, Alive, Delivery
<1>2. /\ q \in EndStates /\ State3(q) /\ q.connected = end[e].connected
      /\ q.acking = end[e].acking /\ q.queue = end[e].queue /\ q.reading = end[e].reading
      /\ q.chunk = Tail(end[e].chunk) /\ q.pipe = end[e].pipe /\ q.dead = end[e].dead
  BY <1>1, PoppedState
<1> HIDE DEF q
<1>3. end' \in [Ends -> EndStates] /\ ThreeStates' /\ end'[e] = q /\ Others(e)
  BY <1>1, <1>2, EndTypes DEF Others
<1>4. Ack \in Frames
  BY DEF Ack, Frames
<1>5. wire' \in [Ends -> Seq(Frames)]
  BY <1>1, <1>4 DEF TypeOK
<1>6. TypeOK'
  BY <1>1, <1>3, <1>5, DeliveryType DEF TypeOK
<1> QED
  BY <1>1, <1>2, <1>3, <1>6 DEF SameSender, TakesFrame

\* A process dies: what was on its way to it is lost, and the last of what it wrote.
LEMMA DiesDoes ==
  ASSUME TypeOK, NEW e \in Ends, Dies(e)
  PROVE  /\ TypeOK' /\ Others(e) /\ UNCHANGED <<sent, got>>
         /\ end'[e].dead = TRUE /\ end'[e].pipe = FALSE /\ end'[e].chunk = <<>>
         /\ end'[e].connected = FALSE
         /\ \E k \in 0 .. Len(wire[e]) :
              wire' = [wire EXCEPT ![Other(e)] = <<>>, ![e] = SubSeq(wire[e], 1, k)]
<1>1. PICK k \in Out(e) :
        /\ Is(e, [Dead EXCEPT !.lost = end[e].lost \/ k < Len(wire[e])])
        /\ wire' = [wire EXCEPT ![Other(e)] = <<>>, ![e] = SubSeq(@, 1, k)]
  BY DEF Dies
<1>2. UNCHANGED <<sent, got>> /\ k \in 0 .. Len(wire[e]) /\ Other(e) \in Ends /\ Other(e) # e
  BY OutRange, TwoEnds DEF Dies
<1>3. wire' = [wire EXCEPT ![Other(e)] = <<>>, ![e] = SubSeq(wire[e], 1, k)]
  BY <1>1, <1>2 DEF TypeOK
<1> DEFINE q == [Dead EXCEPT !.lost = end[e].lost \/ k < Len(wire[e])]
<1>4. (end[e].lost \/ k < Len(wire[e])) \in BOOLEAN
  OBVIOUS
<1>5. /\ q \in EndStates /\ State3(q) /\ q.connected = FALSE /\ q.chunk = <<>>
      /\ q.pipe = FALSE /\ q.dead = TRUE
  BY <1>4, DeadState DEF EndStates, State3
<1>6. Is(e, q)
  BY <1>1
<1> HIDE DEF q
<1>7. end' \in [Ends -> EndStates] /\ ThreeStates' /\ end'[e] = q /\ Others(e)
  BY <1>5, <1>6, EndTypes DEF Others
<1>8. <<>> \in Seq(Frames) /\ SubSeq(wire[e], 1, k) \in Seq(Frames)
  BY <1>2, EndType
<1>9. wire' \in [Ends -> Seq(Frames)]
  BY <1>3, <1>8 DEF TypeOK
<1>10. TypeOK'
  BY <1>2, <1>7, <1>9 DEF TypeOK
<1> QED
  BY <1>2, <1>3, <1>5, <1>7, <1>10

\* Every set of numbers has a least element.
LEMMA MinOfNats ==
  ASSUME NEW I \in SUBSET Nat, I # {}
  PROVE  \E x \in I : \A y \in I : x =< y
<1> DEFINE R == OpToRel(<, Nat)
<1>1. \A x, y \in Nat : <<x, y>> \in R <=> x < y
  BY DEF OpToRel
<1>2. IsWellFoundedOn(R, Nat)
  BY NatLessThanWellFounded
<1> HIDE DEF R
<1>3. PICK x \in I : \A y \in I : ~(<<y, x>> \in R)
  BY <1>2, WFMin
<1>4. \A y \in I : ~(y < x)
  BY <1>1, <1>3
<1> QED
  BY <1>4

\* The first message of a queue that carries a handle, by its index.
LEMMA FirstHandle ==
  ASSUME NEW e, NEW q \in Seq(Nat)
  PROVE  LET first == NextHandle(e, q)
         IN /\ first \in 0 .. Len(q)
            /\ first = 0 => \A i \in 1 .. Len(q) : ~sent[e][q[i]]
            /\ first # 0 => sent[e][q[first]] /\ \A i \in 1 .. first - 1 : ~sent[e][q[i]]
<1> DEFINE I == {i \in 1 .. Len(q) : sent[e][q[i]]}
           first == NextHandle(e, q)
<1>1. first = IF I # {} THEN Min(I) ELSE 0
  BY DEF NextHandle, SelectInSeq
<1>2. CASE I = {}
  BY <1>1, <1>2
<1>3. CASE I # {}
  <2>1. I \in SUBSET Nat
    OBVIOUS
  <2>2. first \in I /\ \A i \in I : first =< i
    BY <1>1, <1>3, <2>1, MinOfNats DEF Min
  <2>3. \A i \in 1 .. first - 1 : i \in 1 .. Len(q) /\ ~(first =< i)
    BY <2>2
  <2> HIDE DEF first
  <2>4. /\ first \in 0 .. Len(q)
        /\ first = 0 => \A i \in 1 .. Len(q) : ~sent[e][q[i]]
        /\ first # 0 => sent[e][q[first]] /\ \A i \in 1 .. first - 1 : ~sent[e][q[i]]
    BY <2>2, <2>3
  <2> QED
    BY <2>4 DEF first
<1> QED
  BY <1>2, <1>3

\* An acknowledgement: the queue is written up to the next handle, for which the
\* end waits again, or lost as a whole.
LEMMA OnAckDoes ==
  ASSUME TypeOK, NEW e \in Ends, OnAck(e), end[e].acking
  PROVE  LET queue == end[e].queue
         IN /\ TypeOK' /\ Others(e) /\ TakesFrame(e) /\ UNCHANGED <<sent, got>>
            /\ ~end'[e].dead /\ end'[e].pipe = end[e].pipe /\ end'[e].connected = end[e].connected
            /\ Head(end[e].chunk).k = "ack"
            /\ \/ /\ wire' = wire /\ ~end[Other(e)].pipe
                  /\ end'[e].queue = <<>> /\ ~end'[e].acking
               \/ \E last \in 0 .. Len(queue), out \in Seq(Frames) :
                    /\ wire' = [wire EXCEPT ![e] = wire[e] \o out]
                    /\ end'[e].queue = SubSeq(queue, last + 1, Len(queue))
                    /\ ~end'[e].acking => last = Len(queue)
                    /\ Len(out) = last
                    /\ \A i \in 1 .. last : out[i].n = queue[i]
                    /\ \A i \in 1 .. last :
                         out[i].k = IF end'[e].acking /\ i = last THEN "handle" ELSE "message"
<1> DEFINE p == Popped(e)
           queue == end[e].queue
           first == NextHandle(e, p.queue)
           last == IF first = 0 THEN Len(p.queue) ELSE first
           out == [i \in 1 .. last |-> Frame(e, p.queue[i])]
<1>1. PICK ok \in Writes(e) :
        IF ok
        THEN /\ Is(e, Flushed(p, SubSeq(p.queue, last + 1, Len(p.queue)), first # 0))
             /\ wire' = [wire EXCEPT ![e] = @ \o out]
        ELSE /\ Is(e, Flushed(p, <<>>, FALSE))
             /\ UNCHANGED wire
  BY DEF OnAck
<1>2. /\ end[e].chunk # <<>> /\ Head(end[e].chunk).k = "ack" /\ end[e].reading /\ ~end[e].dead
      /\ UNCHANGED <<sent, got>>
  BY DEF OnAck, Due, Alive
<1>3. /\ p \in EndStates /\ State3(p) /\ p.connected = end[e].connected
      /\ p.acking = end[e].acking /\ p.queue = queue /\ p.reading = end[e].reading
      /\ p.chunk = Tail(end[e].chunk) /\ p.pipe = end[e].pipe /\ p.dead = end[e].dead
      /\ p.channel
  <2>1. p \in EndStates /\ State3(p) /\ p.acking = end[e].acking
    BY <1>2, PoppedState
  <2> QED
    BY <1>2, <2>1, PoppedState DEF State3
<1> HIDE DEF p
<1>4. queue \in Seq(Nat)
  BY EndType
<1>5. /\ first \in 0 .. Len(queue)
      /\ first = 0 => \A i \in 1 .. Len(queue) : ~sent[e][queue[i]]
      /\ first # 0 => sent[e][queue[first]] /\ \A i \in 1 .. first - 1 : ~sent[e][queue[i]]
  BY <1>3, <1>4, FirstHandle
<1> HIDE DEF first
<1>6. ok \in BOOLEAN /\ (~ok => ~end[Other(e)].pipe)
  <2>1. CASE Gone(Other(e))
    BY <2>1 DEF Writes, Gone
  <2>2. CASE ~Gone(Other(e))
    BY <2>2 DEF Writes
  <2> QED
    BY <2>1, <2>2
<1>7. last \in 0 .. Len(queue) /\ last = IF first = 0 THEN Len(queue) ELSE first
  BY <1>3, <1>4, <1>5
<1> HIDE DEF last
<1>8. \A i \in 1 .. last : queue[i] \in Nat
  BY <1>4, <1>7
<1>9. /\ out \in Seq(Frames) /\ Len(out) = last
      /\ \A i \in 1 .. last : out[i] = Frame(e, queue[i]) /\ out[i].n = queue[i]
  <2>1. \A i \in 1 .. last : Frame(e, queue[i]) \in Frames /\ Frame(e, queue[i]).n = queue[i]
    BY <1>8 DEF Frame, Frames
  <2>2. out = [i \in 1 .. last |-> Frame(e, queue[i])]
    BY <1>3
  <2>3. last \in Nat
    BY <1>4, <1>7
  <2> HIDE DEF out
  <2> QED
    BY <2>1, <2>2, <2>3
<1> HIDE DEF out
<1>10. CASE ok
  <2> DEFINE rest == SubSeq(queue, last + 1, Len(queue))
             q == Flushed(p, rest, first # 0)
  <2>1. Is(e, q) /\ wire' = [wire EXCEPT ![e] = wire[e] \o out]
    BY <1>1, <1>3, <1>10
  <2>2. rest \in Seq(Nat) /\ (first # 0) \in BOOLEAN
    BY <1>4, <1>7
  <2>3. /\ q \in EndStates /\ State3(q) /\ q.connected = p.connected
        /\ q.acking = (first # 0) /\ q.queue = rest /\ q.reading = p.reading
        /\ q.chunk = p.chunk /\ q.pipe = p.pipe /\ q.dead = p.dead
    <3> DEFINE waits == first # 0
    <3>1. waits \in BOOLEAN /\ rest \in Seq(Nat) /\ p \in EndStates /\ State3(p) /\ p.channel
      BY <1>3, <2>2
    <3>2. q = Flushed(p, rest, waits)
      OBVIOUS
    <3> HIDE DEF q, rest, waits
    <3>3. /\ q \in EndStates /\ State3(q) /\ q.connected = p.connected
          /\ q.acking = waits /\ q.queue = rest /\ q.reading = p.reading
          /\ q.chunk = p.chunk /\ q.pipe = p.pipe /\ q.dead = p.dead
      BY <3>1, <3>2, FlushedState
    <3> QED
      BY <3>3 DEF waits
  <2> HIDE DEF q, rest
  <2>4. end' \in [Ends -> EndStates] /\ ThreeStates' /\ end'[e] = q /\ Others(e)
    BY <2>1, <2>3, EndTypes DEF Others
  <2>5. wire' \in [Ends -> Seq(Frames)]
    <3>1. wire[e] \o out \in Seq(Frames)
      BY <1>9, EndType
    <3> QED
      BY <2>1, <3>1 DEF TypeOK
  <2>6. TypeOK'
    BY <1>2, <2>4, <2>5 DEF TypeOK
  <2>7. ~end'[e].acking => last = Len(queue)
    BY <1>7, <2>3, <2>4
  <2>8. ASSUME NEW i \in 1 .. last
        PROVE  out[i].k = IF end'[e].acking /\ i = last THEN "handle" ELSE "message"
    <3>1. out[i].k = IF sent[e][queue[i]] THEN "handle" ELSE "message"
      BY <1>9 DEF Frame
    <3>2. CASE first = 0
      <4>1. ~sent[e][queue[i]]
        BY <1>5, <1>7, <3>2
      <4> QED
        BY <2>3, <2>4, <3>1, <3>2, <4>1
    <3>3. CASE first # 0 /\ i = last
      <4>1. sent[e][queue[i]]
        BY <1>5, <1>7, <3>3
      <4> QED
        BY <2>3, <2>4, <3>1, <3>3, <4>1
    <3>4. CASE first # 0 /\ i # last
      <4>1. i \in 1 .. first - 1
        BY <1>5, <1>7, <3>4, <1>4
      <4>2. ~sent[e][queue[i]]
        BY <1>5, <3>4, <4>1
      <4> QED
        BY <2>3, <2>4, <3>1, <3>4, <4>2
    <3> QED
      BY <3>2, <3>3, <3>4
  <2>9. end'[e].queue = SubSeq(queue, last + 1, Len(queue)) /\ ~end'[e].dead
        /\ end'[e].pipe = end[e].pipe /\ end'[e].connected = end[e].connected
    BY <1>2, <1>3, <2>3, <2>4 DEF rest
  <2>10. TakesFrame(e)
    BY <1>2, <1>3, <2>3, <2>4 DEF TakesFrame
  <2> QED
    BY <1>2, <1>7, <1>9, <2>1, <2>4, <2>6, <2>7, <2>8, <2>9, <2>10
<1>11. CASE ~ok
  <2> DEFINE q == Flushed(p, <<>>, FALSE)
  <2>1. Is(e, q) /\ wire' = wire
    BY <1>1, <1>11
  <2>2. <<>> \in Seq(Nat) /\ FALSE \in BOOLEAN
    OBVIOUS
  <2>3. /\ q \in EndStates /\ State3(q) /\ q.connected = p.connected
        /\ q.acking = FALSE /\ q.queue = <<>> /\ q.reading = p.reading
        /\ q.chunk = p.chunk /\ q.pipe = p.pipe /\ q.dead = p.dead
    BY <1>3, <2>2, FlushedState
  <2> HIDE DEF q
  <2>4. end' \in [Ends -> EndStates] /\ ThreeStates' /\ end'[e] = q /\ Others(e)
    BY <2>1, <2>3, EndTypes DEF Others
  <2>5. TypeOK'
    BY <1>2, <2>1, <2>4 DEF TypeOK
  <2>6. TakesFrame(e)
    BY <1>2, <1>3, <2>3, <2>4 DEF TakesFrame
  <2> QED
    BY <1>2, <1>3, <1>6, <1>11, <2>1, <2>3, <2>4, <2>5, <2>6
<1> QED
  BY <1>6, <1>10, <1>11

-----------------------------------------------------------------------------
(* One direction of the channel, as a function of its parts: the frames the *)
(* receiver has read (chunk) and those on the wire, whether it still reads  *)
(* its pipe, the queue of the sender and whether that still writes, and how *)
(* many messages were handled and sent.                                     *)

Flow(chunk, frames, pipe, queue, writes, handled, count) ==
  LET deliverable == IF pipe THEN chunk \o frames ELSE chunk
      base == count - Len(queue)
  IN /\ InOrder(deliverable, handled)
     /\ Numbers(deliverable) \subseteq 1 .. count
     /\ writes => base >= 0 /\ \A i \in 1 .. Len(queue) : queue[i] = base + i
     /\ writes /\ pipe => base >= handled /\ Numbers(deliverable) = handled + 1 .. base

FlowType(chunk, frames, pipe, queue, writes, handled, count) ==
  /\ chunk \in Seq(Frames) /\ frames \in Seq(Frames) /\ pipe \in BOOLEAN
  /\ queue \in Seq(Nat) /\ writes \in BOOLEAN /\ handled \in Nat /\ count \in Nat

\* A message joins the queue.
LEMMA FlowQueue ==
  ASSUME NEW c, NEW w, NEW p, NEW q, NEW g, NEW n,
         FlowType(c, w, p, q, TRUE, g, n), Flow(c, w, p, q, TRUE, g, n)
  PROVE  Flow(c, w, p, Append(q, n + 1), TRUE, g, n + 1)
<1> DEFINE r == Append(q, n + 1)
           d == IF p THEN c \o w ELSE c
<1>1. q \in Seq(Nat) /\ n \in Nat /\ g \in Nat
  BY DEF FlowType
<1>2. /\ InOrder(d, g) /\ Numbers(d) \subseteq 1 .. n /\ n - Len(q) >= 0
      /\ \A i \in 1 .. Len(q) : q[i] = n - Len(q) + i
      /\ p => n - Len(q) >= g /\ Numbers(d) = g + 1 .. n - Len(q)
  BY DEF Flow
<1>3. /\ Len(r) = Len(q) + 1 /\ r[Len(q) + 1] = n + 1 /\ \A i \in 1 .. Len(q) : r[i] = q[i]
      /\ Len(q) \in Nat
  BY <1>1
<1> HIDE DEF r
<1>4. (n + 1) - Len(r) = n - Len(q) /\ 1 .. n \subseteq 1 .. n + 1
  BY <1>1, <1>3
<1>5. \A i \in 1 .. Len(r) : r[i] = (n + 1) - Len(r) + i
  <2> TAKE i \in 1 .. Len(r)
  <2>1. CASE i \in 1 .. Len(q)
    BY <1>2, <1>3, <1>4, <2>1
  <2>2. CASE i = Len(q) + 1
    BY <1>1, <1>3, <2>2
  <2> QED
    BY <1>3, <2>1, <2>2
<1> HIDE DEF d
<1>6. Numbers(d) \subseteq 1 .. n + 1
  BY <1>2, <1>4
<1> QED
  BY <1>2, <1>4, <1>5, <1>6 DEF Flow, d, r

\* A message is written, on an end without a queue.
LEMMA FlowWrite ==
  ASSUME NEW c, NEW w, NEW p, NEW g, NEW n, NEW f \in Frames, IsMessage(f), f.n = n + 1,
         FlowType(c, w, p, <<>>, TRUE, g, n), Flow(c, w, p, <<>>, TRUE, g, n)
  PROVE  Flow(c, Append(w, f), p, <<>>, TRUE, g, n + 1)
<1>1. c \in Seq(Frames) /\ w \in Seq(Frames) /\ n \in Nat /\ g \in Nat /\ Append(w, f) \in Seq(Frames)
  BY DEF FlowType
<1>2. Len(<<>>) = 0 /\ 1 .. n \subseteq 1 .. n + 1 /\ n - 0 = n /\ (n + 1) - 0 = n + 1
  BY <1>1
<1>3. CASE p
  <2>1. /\ InOrder(c \o w, g) /\ n >= g /\ Numbers(c \o w) = g + 1 .. n
    BY <1>2, <1>3 DEF Flow
  <2> DEFINE s == <<f>>
  <2>2. c \o Append(w, f) = (c \o w) \o s /\ c \o w \in Seq(Frames)
    BY <1>1
  <2>6. s \in Seq(Frames) /\ Len(s) = 1 /\ s[1] = f
    OBVIOUS
  <2> HIDE DEF s
  <2>3. \A i \in 1 .. Len(s) : IsMessage(s[i]) /\ s[i].n = n + i
    BY <2>6
  <2>4. InOrder((c \o w) \o s, g) /\ Numbers((c \o w) \o s) = g + 1 .. n + Len(s)
    <3> DEFINE d == c \o w
    <3>1. d \in Seq(Frames) /\ InOrder(d, g) /\ g <= n /\ Numbers(d) = g + 1 .. n
      BY <1>1, <2>1, <2>2
    <3> HIDE DEF d
    <3>0. n \in Nat /\ g \in Nat /\ s \in Seq(Frames)
      BY <1>1, <2>6
    <3>2. InOrder(d \o s, g) /\ Numbers(d \o s) = g + 1 .. n + Len(s)
      BY <2>3, <3>0, <3>1, InOrderConcat
    <3> QED
      BY <3>2 DEF d
  <2>5. Numbers((c \o w) \o s) \subseteq 1 .. n + 1 /\ n + 1 >= g
    BY <1>1, <2>1, <2>4, <2>6
  <2> QED
    BY <1>1, <1>2, <1>3, <2>2, <2>4, <2>5, <2>6 DEF Flow
<1>4. CASE ~p
  <2>1. InOrder(c, g) /\ Numbers(c) \subseteq 1 .. n + 1 /\ n + 1 >= 0
    BY <1>1, <1>2, <1>4 DEF Flow
  <2> QED
    BY <1>2, <1>4, <2>1 DEF Flow
<1> QED
  BY <1>3, <1>4

\* A message is lost: nobody reads the pipe.
LEMMA FlowLost ==
  ASSUME NEW c, NEW w, NEW g, NEW n,
         FlowType(c, w, FALSE, <<>>, TRUE, g, n), Flow(c, w, FALSE, <<>>, TRUE, g, n)
  PROVE  Flow(c, w, FALSE, <<>>, TRUE, g, n + 1)
<1>1. n \in Nat /\ Len(<<>>) = 0
  BY DEF FlowType
<1>2. 1 .. n \subseteq 1 .. n + 1 /\ (n + 1) - 0 >= 0
  BY <1>1
<1>3. InOrder(c, g) /\ Numbers(c) \subseteq 1 .. n
  BY DEF Flow
<1> QED
  BY <1>1, <1>2, <1>3 DEF Flow

\* An acknowledgement goes past the queue.
LEMMA FlowAck ==
  ASSUME NEW c, NEW w, NEW p, NEW q, NEW writes, NEW g, NEW n,
         FlowType(c, w, p, q, writes, g, n), Flow(c, w, p, q, writes, g, n)
  PROVE  Flow(c, Append(w, Ack), p, q, writes, g, n)
<1>1. c \in Seq(Frames) /\ w \in Seq(Frames) /\ g \in Nat
  BY DEF FlowType
<1>2. Ack \in Frames
  BY DEF Ack, Frames
<1>3. c \o Append(w, Ack) = Append(c \o w, Ack) /\ c \o w \in Seq(Frames)
  BY <1>1, <1>2
<1>4. CASE p
  <2>1. InOrder(c \o w, g)
    BY <1>4 DEF Flow
  <2>2. InOrder(Append(c \o w, Ack), g) /\ Numbers(Append(c \o w, Ack)) = Numbers(c \o w)
    BY <1>1, <1>3, <2>1, InOrderAck
  <2> QED
    BY <1>3, <1>4, <2>2 DEF Flow
<1>5. CASE ~p
  BY <1>5 DEF Flow
<1> QED
  BY <1>4, <1>5

\* The first part of the queue is written.
LEMMA FlowFlush ==
  ASSUME NEW c, NEW w, NEW p, NEW q, NEW g, NEW n,
         FlowType(c, w, p, q, TRUE, g, n), Flow(c, w, p, q, TRUE, g, n),
         NEW last \in 0 .. Len(q), NEW out \in Seq(Frames), Len(out) = last,
         \A i \in 1 .. last : out[i].n = q[i] /\ IsMessage(out[i])
  PROVE  Flow(c, w \o out, p, SubSeq(q, last + 1, Len(q)), TRUE, g, n)
<1> DEFINE r == SubSeq(q, last + 1, Len(q))
<1>1. c \in Seq(Frames) /\ w \in Seq(Frames) /\ n \in Nat /\ g \in Nat /\ q \in Seq(Nat)
      /\ Len(q) \in Nat
  BY DEF FlowType
<1>2. /\ Len(r) = Len(q) - last /\ \A i \in 1 .. Len(r) : r[i] = q[last + i]
  BY <1>1
<1> HIDE DEF r
<1>3. n - Len(r) = (n - Len(q)) + last /\ n - Len(r) >= n - Len(q)
  BY <1>1, <1>2
<1>4. n - Len(q) >= 0 /\ \A i \in 1 .. Len(q) : q[i] = n - Len(q) + i
  BY DEF Flow
<1>5. n - Len(r) >= 0 /\ \A i \in 1 .. Len(r) : r[i] = n - Len(r) + i
  <2>1. \A i \in 1 .. Len(r) : last + i \in 1 .. Len(q)
    BY <1>1, <1>2
  <2> QED
    BY <1>1, <1>2, <1>3, <1>4, <2>1
<1>6. CASE p
  <2> DEFINE b == n - Len(q)
  <2>1. InOrder(c \o w, g) /\ b >= g /\ Numbers(c \o w) = g + 1 .. b
    BY <1>6 DEF Flow
  <2>2. b \in Nat /\ g <= b
    BY <1>1, <1>4, <2>1
  <2>3. \A i \in 1 .. Len(out) : IsMessage(out[i]) /\ out[i].n = b + i
    BY <1>4
  <2>4. c \o w \in Seq(Frames) /\ c \o (w \o out) = (c \o w) \o out
    BY <1>1
  <2> HIDE DEF b
  <2>5. InOrder((c \o w) \o out, g) /\ Numbers((c \o w) \o out) = g + 1 .. b + last
    <3> DEFINE d == c \o w
    <3>1. d \in Seq(Frames) /\ InOrder(d, g) /\ g <= b /\ Numbers(d) = g + 1 .. b
      BY <2>1, <2>2, <2>4
    <3> HIDE DEF d
    <3>2. out \in Seq(Frames) /\ g \in Nat
      BY <1>1
    <3>3. InOrder(d \o out, g) /\ Numbers(d \o out) = g + 1 .. b + Len(out)
      BY <2>2, <2>3, <3>1, <3>2, InOrderConcat
    <3> QED
      BY <3>3 DEF d
  <2>6. b + last = n - Len(r) /\ b + last <= n /\ b + last >= g
    BY <1>1, <1>3, <2>2 DEF b
  <2>7. g + 1 .. b + last \subseteq 1 .. n
    BY <1>1, <2>2, <2>6
  <2> QED
    BY <1>5, <1>6, <2>4, <2>5, <2>6, <2>7 DEF Flow, r
<1>7. CASE ~p
  <2>1. InOrder(c, g) /\ Numbers(c) \subseteq 1 .. n
    BY <1>7 DEF Flow
  <2> QED
    BY <1>5, <1>7, <2>1 DEF Flow, r
<1> QED
  BY <1>6, <1>7

\* The queue is dropped: nobody reads the pipe.
LEMMA FlowDrop ==
  ASSUME NEW c, NEW w, NEW q, NEW g, NEW n,
         FlowType(c, w, FALSE, q, TRUE, g, n), Flow(c, w, FALSE, q, TRUE, g, n)
  PROVE  Flow(c, w, FALSE, <<>>, TRUE, g, n)
<1>1. n \in Nat /\ Len(<<>>) = 0 /\ n - 0 >= 0
  BY DEF FlowType
<1>2. InOrder(c, g) /\ Numbers(c) \subseteq 1 .. n
  BY DEF Flow
<1> QED
  BY <1>1, <1>2 DEF Flow

\* The sender closes its pipe, or dies: the last of what it wrote may be lost.
LEMMA FlowSenderCloses ==
  ASSUME NEW c, NEW w, NEW p, NEW q, NEW r, NEW writes, NEW g, NEW n, NEW k \in 0 .. Len(w),
         FlowType(c, w, p, q, writes, g, n), Flow(c, w, p, q, writes, g, n)
  PROVE  Flow(c, SubSeq(w, 1, k), p, r, FALSE, g, n)
<1>1. c \in Seq(Frames) /\ w \in Seq(Frames) /\ g \in Nat
  BY DEF FlowType
<1> DEFINE u == SubSeq(w, 1, k)
           v == SubSeq(w, k + 1, Len(w))
<1>2. u \in Seq(Frames) /\ v \in Seq(Frames) /\ u \o v = w
  <2>1. SubSeq(w, 1, k) \in Seq(Frames) /\ SubSeq(w, k + 1, Len(w)) \in Seq(Frames)
    BY <1>1
  <2>2. SubSeq(w, 1, k) \o SubSeq(w, k + 1, Len(w)) = w
    BY <1>1, SplitConcat
  <2> QED
    BY <2>1, <2>2
<1> HIDE DEF u, v
<1>3. c \o u \in Seq(Frames) /\ (c \o u) \o v = c \o w
  <2>1. \A a, b, d \in Seq(Frames) : (a \o b) \o d = a \o (b \o d) /\ a \o b \in Seq(Frames)
    OBVIOUS
  <2> QED
    BY <1>1, <1>2, <2>1
<1>4. CASE p
  <2>1. InOrder(c \o w, g) /\ Numbers(c \o w) \subseteq 1 .. n
    BY <1>4 DEF Flow
  <2>2. InOrder(c \o u, g) /\ Numbers(c \o u) \subseteq Numbers(c \o w)
    <3> DEFINE d == c \o u
    <3>1. d \in Seq(Frames) /\ d \o v = c \o w
      BY <1>3
    <3> HIDE DEF d
    <3>2. InOrder(d \o v, g)
      BY <2>1, <3>1
    <3>3. InOrder(d, g) /\ Numbers(d) \subseteq Numbers(d \o v)
      BY <1>1, <1>2, <3>1, <3>2, InOrderPrefix
    <3> QED
      BY <3>1, <3>3 DEF d
  <2>3. Flow(c, u, p, r, FALSE, g, n)
    BY <1>4, <2>1, <2>2 DEF Flow
  <2> QED
    BY <2>3 DEF u
<1>5. CASE ~p
  <2>1. InOrder(c, g) /\ Numbers(c) \subseteq 1 .. n
    BY <1>5 DEF Flow
  <2> QED
    BY <1>5, <2>1 DEF Flow
<1> QED
  BY <1>4, <1>5

\* The receiver closes its pipe: what it has read is still handled.
LEMMA FlowClose ==
  ASSUME NEW c, NEW w, NEW p, NEW q, NEW writes, NEW g, NEW n,
         FlowType(c, w, p, q, writes, g, n), Flow(c, w, p, q, writes, g, n)
  PROVE  Flow(c, w, FALSE, q, writes, g, n)
<1>1. c \in Seq(Frames) /\ w \in Seq(Frames) /\ g \in Nat
  BY DEF FlowType
<1>2. CASE p
  <2>1. InOrder(c \o w, g) /\ Numbers(c \o w) \subseteq 1 .. n
    BY <1>2 DEF Flow
  <2>2. InOrder(c, g) /\ Numbers(c) \subseteq 1 .. n
    BY <1>1, <2>1, InOrderPrefix
  <2> QED
    BY <2>2 DEF Flow
<1>3. CASE ~p
  BY <1>3 DEF Flow
<1> QED
  BY <1>2, <1>3

\* The receiver dies.
LEMMA FlowReceiverDies ==
  ASSUME NEW c, NEW w, NEW v, NEW p, NEW q, NEW writes, NEW g, NEW n,
         FlowType(c, w, p, q, writes, g, n), Flow(c, w, p, q, writes, g, n)
  PROVE  Flow(<<>>, v, FALSE, q, writes, g, n)
<1>1. InOrder(<<>>, g) /\ Numbers(<<>>) = {}
  BY DEF InOrder, Numbers
<1> QED
  BY <1>1 DEF Flow

\* A chunk is read.
LEMMA FlowRead ==
  ASSUME NEW w, NEW p, NEW q, NEW writes, NEW g, NEW n, NEW k \in 0 .. Len(w),
         FlowType(<<>>, w, p, q, writes, g, n), Flow(<<>>, w, p, q, writes, g, n), p
  PROVE  /\ SubSeq(w, 1, k) \o SubSeq(w, k + 1, Len(w)) = <<>> \o w
         /\ Flow(SubSeq(w, 1, k), SubSeq(w, k + 1, Len(w)), p, q, writes, g, n)
<1>1. w \in Seq(Frames)
  BY DEF FlowType
<1>2. SubSeq(w, 1, k) \o SubSeq(w, k + 1, Len(w)) = w /\ <<>> \o w = w
  BY <1>1, SplitConcat
<1> QED
  BY <1>2 DEF Flow

\* A frame of the chunk is handled; if it is a message, it is the next one.
LEMMA FlowHandle ==
  ASSUME NEW c, NEW w, NEW p, NEW q, NEW writes, NEW g, NEW n, c # <<>>,
         FlowType(c, w, p, q, writes, g, n), Flow(c, w, p, q, writes, g, n)
  PROVE  /\ IsMessage(Head(c)) =>
              /\ Head(c).n = g + 1 /\ g < n
              /\ Flow(Tail(c), w, p, q, writes, g + 1, n)
         /\ ~IsMessage(Head(c)) => Flow(Tail(c), w, p, q, writes, g, n)
<1> DEFINE d == IF p THEN c \o w ELSE c
<1>1. /\ c \in Seq(Frames) /\ w \in Seq(Frames) /\ g \in Nat /\ n \in Nat /\ p \in BOOLEAN
      /\ q \in Seq(Nat) /\ Len(q) \in Nat
  BY DEF FlowType
<1>2. /\ d \in Seq(Frames) /\ d # <<>> /\ Head(d) = Head(c)
      /\ Tail(d) = IF p THEN Tail(c) \o w ELSE Tail(c)
  BY <1>1, TailConcat
<1>3. /\ InOrder(d, g) /\ Numbers(d) \subseteq 1 .. n
      /\ writes => n - Len(q) >= 0 /\ \A i \in 1 .. Len(q) : q[i] = n - Len(q) + i
      /\ writes /\ p => n - Len(q) >= g /\ Numbers(d) = g + 1 .. n - Len(q)
  BY DEF Flow
<1> HIDE DEF d
<1>4. CASE IsMessage(Head(d))
  <2>1. Head(d).n = g + 1 /\ InOrder(Tail(d), g + 1) /\ Numbers(Tail(d)) = Numbers(d) \ {g + 1}
    BY <1>1, <1>2, <1>3, <1>4, InOrderTail
  <2>2. g + 1 \in Numbers(d)
    <3>1. 1 \in 1 .. Len(d) /\ Head(d) = d[1]
      BY <1>2
    <3> QED
      BY <1>4, <2>1, <3>1 DEF Numbers
  <2>3. g < n
    BY <1>1, <1>3, <2>2
  <2>4. Numbers(Tail(d)) \subseteq 1 .. n
    BY <1>3, <2>1
  <2>5. writes /\ p => n - Len(q) >= g + 1 /\ Numbers(Tail(d)) = (g + 1) + 1 .. n - Len(q)
    <3> SUFFICES ASSUME writes, p
                 PROVE  n - Len(q) >= g + 1 /\ Numbers(Tail(d)) = (g + 1) + 1 .. n - Len(q)
      OBVIOUS
    <3> DEFINE b == n - Len(q)
    <3>1. b \in Int /\ Numbers(d) = g + 1 .. b
      BY <1>1, <1>3
    <3> HIDE DEF b
    <3>2. b >= g + 1 /\ (g + 1 .. b) \ {g + 1} = (g + 1) + 1 .. b
      BY <1>1, <2>2, <3>1
    <3> QED
      BY <2>1, <3>1, <3>2 DEF b
  <2> QED
    BY <1>2, <1>3, <1>4, <2>1, <2>3, <2>4, <2>5 DEF Flow
<1>5. CASE ~IsMessage(Head(d))
  <2>1. InOrder(Tail(d), g) /\ Numbers(Tail(d)) = Numbers(d)
    BY <1>1, <1>2, <1>3, <1>5, InOrderTail
  <2> QED
    BY <1>2, <1>3, <1>5, <2>1 DEF Flow
<1> QED
  BY <1>2, <1>4, <1>5

-----------------------------------------------------------------------------
(* The two ways of a handle and its acknowledgement *)

NoneOf(frames, kind) == \A i \in 1 .. Len(frames) : frames[i].k # kind
OneOf(frames, kind) ==
  \A i, j \in 1 .. Len(frames) : frames[i].k = kind /\ frames[j].k = kind => i = j

\* No frame, and at most one frame, of a kind: by the places of OneHandleAtATime.
LEMMA AtKinds ==
  ASSUME NEW s \in Seq(Frames), NEW kind
  PROVE  /\ At(s, kind) = {} <=> NoneOf(s, kind)
         /\ (\A i, j \in At(s, kind) : i = j) <=> OneOf(s, kind)
<1>1. DOMAIN s = 1 .. Len(s)
  OBVIOUS
<1>2. At(s, kind) = {i \in 1 .. Len(s) : s[i].k = kind}
  BY <1>1 DEF At
<1> QED
  BY <1>2 DEF NoneOf, OneOf

\* The first of the frames is taken.
LEMMA KindsTail ==
  ASSUME NEW s \in Seq(Frames), s # <<>>, NEW kind
  PROVE  /\ NoneOf(s, kind) => NoneOf(Tail(s), kind)
         /\ OneOf(s, kind) => OneOf(Tail(s), kind)
         /\ OneOf(s, kind) /\ Head(s).k = kind => NoneOf(Tail(s), kind)
         /\ Head(s).k = kind => ~NoneOf(s, kind)
<1> DEFINE t == Tail(s)
<1>1. /\ Len(s) \in Nat \ {0} /\ Len(t) = Len(s) - 1 /\ Head(s) = s[1]
      /\ \A i \in 1 .. Len(t) : t[i] = s[i + 1]
  OBVIOUS
<1> HIDE DEF t
<1>2. \A i \in 1 .. Len(t) : i + 1 \in 1 .. Len(s) /\ i + 1 # 1
  BY <1>1
<1>3. 1 \in 1 .. Len(s)
  BY <1>1
<1>4. NoneOf(s, kind) => NoneOf(t, kind)
  BY <1>1, <1>2 DEF NoneOf
<1>5. OneOf(s, kind) => OneOf(t, kind)
  <2> SUFFICES ASSUME OneOf(s, kind), NEW i \in 1 .. Len(t), NEW j \in 1 .. Len(t),
                      t[i].k = kind, t[j].k = kind
               PROVE  i = j
    BY DEF OneOf
  <2>1. i + 1 = j + 1
    BY <1>1, <1>2 DEF OneOf
  <2> QED
    BY <2>1
<1>6. OneOf(s, kind) /\ Head(s).k = kind => NoneOf(t, kind)
  BY <1>1, <1>2, <1>3 DEF NoneOf, OneOf
<1>7. Head(s).k = kind => ~NoneOf(s, kind)
  BY <1>1, <1>3 DEF NoneOf
<1> QED
  BY <1>4, <1>5, <1>6, <1>7 DEF t

\* Frames written after those on the wire.
LEMMA KindsConcat ==
  ASSUME NEW s \in Seq(Frames), NEW t \in Seq(Frames), NEW kind
  PROVE  /\ NoneOf(t, kind) /\ NoneOf(s, kind) => NoneOf(s \o t, kind)
         /\ NoneOf(t, kind) /\ OneOf(s, kind) => OneOf(s \o t, kind)
         /\ NoneOf(s, kind) /\ OneOf(t, kind) => OneOf(s \o t, kind)
<1> DEFINE u == s \o t
<1>1. Len(s) \in Nat /\ Len(t) \in Nat /\ Len(u) = Len(s) + Len(t)
  OBVIOUS
<1>2. \A i \in 1 .. Len(u) : u[i] = IF i <= Len(s) THEN s[i] ELSE t[i - Len(s)]
  BY <1>1, ConcatProperties
<1> HIDE DEF u
<1>3. \A i \in 1 .. Len(u) : IF i <= Len(s) THEN i \in 1 .. Len(s) ELSE i - Len(s) \in 1 .. Len(t)
  BY <1>1
<1>4. NoneOf(t, kind) /\ NoneOf(s, kind) => NoneOf(u, kind)
  BY <1>2, <1>3 DEF NoneOf
<1>5. NoneOf(t, kind) /\ OneOf(s, kind) => OneOf(u, kind)
  <2> SUFFICES ASSUME NoneOf(t, kind), OneOf(s, kind), NEW i \in 1 .. Len(u), NEW j \in 1 .. Len(u),
                      u[i].k = kind, u[j].k = kind
               PROVE  i = j
    BY DEF OneOf
  <2>1. i \in 1 .. Len(s) /\ j \in 1 .. Len(s)
    BY <1>2, <1>3 DEF NoneOf
  <2>2. s[i].k = kind /\ s[j].k = kind
    BY <1>1, <1>2, <2>1
  <2> QED
    BY <2>1, <2>2 DEF OneOf
<1>6. NoneOf(s, kind) /\ OneOf(t, kind) => OneOf(u, kind)
  <2> SUFFICES ASSUME NoneOf(s, kind), OneOf(t, kind), NEW i \in 1 .. Len(u), NEW j \in 1 .. Len(u),
                      u[i].k = kind, u[j].k = kind
               PROVE  i = j
    BY DEF OneOf
  <2>1. ~(i <= Len(s)) /\ ~(j <= Len(s))
    BY <1>2, <1>3 DEF NoneOf
  <2>2. i - Len(s) = j - Len(s)
    BY <1>2, <1>3, <2>1 DEF OneOf
  <2> QED
    BY <1>1, <2>2
<1> QED
  BY <1>4, <1>5, <1>6 DEF u

\* The last frames are lost.
LEMMA KindsPrefix ==
  ASSUME NEW c \in Seq(Frames), NEW w \in Seq(Frames), NEW k \in 0 .. Len(w), NEW kind
  PROVE  LET s == c \o w
             t == c \o SubSeq(w, 1, k)
         IN /\ t \in Seq(Frames)
            /\ NoneOf(s, kind) => NoneOf(t, kind)
            /\ OneOf(s, kind) => OneOf(t, kind)
<1> DEFINE s == c \o w
           u == SubSeq(w, 1, k)
           t == c \o u
<1>1. /\ u \in Seq(Frames) /\ Len(u) = k /\ \A i \in 1 .. k : u[i] = w[i]
      /\ Len(w) \in Nat /\ Len(c) \in Nat
  OBVIOUS
<1> HIDE DEF u
<1>2. /\ t \in Seq(Frames) /\ Len(t) = Len(c) + k
      /\ \A i \in 1 .. Len(t) : t[i] = IF i <= Len(c) THEN c[i] ELSE u[i - Len(c)]
  <2>1. /\ c \o u \in Seq(Frames) /\ Len(c \o u) = Len(c) + Len(u)
        /\ \A i \in 1 .. Len(c) + Len(u) :
             (c \o u)[i] = IF i <= Len(c) THEN c[i] ELSE u[i - Len(c)]
    BY <1>1, ConcatProperties
  <2> QED
    BY <1>1, <2>1
<1>3. /\ Len(s) = Len(c) + Len(w)
      /\ \A i \in 1 .. Len(s) : s[i] = IF i <= Len(c) THEN c[i] ELSE w[i - Len(c)]
  BY <1>1, ConcatProperties
<1> HIDE DEF s, t
<1>4. \A i \in 1 .. Len(t) : i \in 1 .. Len(s) /\ t[i] = s[i]
  <2> TAKE i \in 1 .. Len(t)
  <2>1. i \in 1 .. Len(s)
    BY <1>1, <1>2, <1>3
  <2>2. CASE i <= Len(c)
    BY <1>2, <1>3, <2>1, <2>2
  <2>3. CASE ~(i <= Len(c))
    <3>1. i - Len(c) \in 1 .. k
      BY <1>1, <1>2, <2>3
    <3> QED
      BY <1>1, <1>2, <1>3, <2>1, <2>3, <3>1
  <2> QED
    BY <2>1, <2>2, <2>3
<1>5. /\ t \in Seq(Frames)
      /\ NoneOf(s, kind) => NoneOf(t, kind)
      /\ OneOf(s, kind) => OneOf(t, kind)
  BY <1>2, <1>4 DEF NoneOf, OneOf
<1> QED
  BY <1>5 DEF s, t, u

\* The obligations of OneHandleAtATime for one end, as a function of its parts:
\* the frames it has on their way, and those on their way to it.
Way(dead, acking, queue, out, back) ==
  ~dead =>
    /\ ~acking => queue = <<>> /\ NoneOf(out, "handle") /\ NoneOf(back, "ack")
    /\ NoneOf(out, "handle") \/ NoneOf(back, "ack")
    /\ OneOf(out, "handle") /\ OneOf(back, "ack")

WayOf(e) ==
  Way(end[e].dead, end[e].acking, end[e].queue, InFlight(e), InFlight(Other(e)))

\* A sender that has closed its pipe writes no more.
FlowOf(e) ==
  Flow(end[Other(e)].chunk, wire[e], end[Other(e)].pipe, end[e].queue, end[e].pipe,
       Len(got[Other(e)]), Len(sent[e]))

FlowTypeOf(e) ==
  FlowType(end[Other(e)].chunk, wire[e], end[Other(e)].pipe, end[e].queue, end[e].pipe,
           Len(got[Other(e)]), Len(sent[e]))

\* The parts of a direction have the types of its obligations.
LEMMA FlowTypes ==
  ASSUME TypeOK, NEW e \in Ends
  PROVE  FlowTypeOf(e) /\ InFlight(e) \in Seq(Frames)
<1>1. Other(e) \in Ends
  BY TwoEnds
<1>2. Len(got[Other(e)]) \in Nat /\ Len(sent[e]) \in Nat
  BY <1>1, EndType
<1>3. end[Other(e)].chunk \o wire[e] \in Seq(Frames)
  BY <1>1, EndType
<1> QED
  BY <1>1, <1>2, <1>3, EndType DEF FlowTypeOf, FlowType, InFlight

\* The inductive invariant.
IInv ==
  /\ TypeOK /\ ChunkRead /\ OneHandleAtATime
  /\ \A e \in Ends : FlowOf(e)

\* OneHandleAtATime says of each end what Way does.
LEMMA WaysHold ==
  ASSUME TypeOK, OneHandleAtATime, NEW e \in Ends
  PROVE  WayOf(e)
<1>1. InFlight(e) \in Seq(Frames) /\ InFlight(Other(e)) \in Seq(Frames)
  BY TwoEnds, FlowTypes
<1> DEFINE handles == At(InFlight(e), "handle")
           acks == At(InFlight(Other(e)), "ack")
<1>2. Alive(e) =>
         /\ ~end[e].acking => end[e].queue = <<>> /\ handles = {} /\ acks = {}
         /\ handles = {} \/ acks = {}
         /\ \A i, j \in handles : i = j
         /\ \A i, j \in acks : i = j
  BY DEF OneHandleAtATime
<1>3. /\ handles = {} <=> NoneOf(InFlight(e), "handle")
      /\ (\A i, j \in handles : i = j) <=> OneOf(InFlight(e), "handle")
  BY <1>1, AtKinds
<1>4. /\ acks = {} <=> NoneOf(InFlight(Other(e)), "ack")
      /\ (\A i, j \in acks : i = j) <=> OneOf(InFlight(Other(e)), "ack")
  BY <1>1, AtKinds
<1> HIDE DEF handles, acks
<1> QED
  BY <1>2, <1>3, <1>4 DEF WayOf, Way, Alive

\* A step keeps the invariant if it keeps the parts of both ends.
LEMMA StepKeeps ==
  ASSUME TypeOK', ChunkRead', NEW e \in Ends, NEW o, o = Other(e),
         WayOf(e)', FlowOf(e)', WayOf(o)', FlowOf(o)'
  PROVE  IInv'
<1>1. \A x \in Ends : FlowOf(x)' /\ WayOf(x)'
  BY TwoEnds
<1>2. ASSUME NEW x \in Ends
      PROVE  LET handles == At(InFlight(x), "handle")'
                 acks == At(InFlight(Other(x)), "ack")'
             IN Alive(x)' =>
                  /\ ~end'[x].acking => end'[x].queue = <<>> /\ handles = {} /\ acks = {}
                  /\ handles = {} \/ acks = {}
                  /\ \A i, j \in handles : i = j
                  /\ \A i, j \in acks : i = j
  <2>1. Other(x) \in Ends /\ Other(Other(x)) = x
    BY TwoEnds
  <2>2. /\ end'[x].chunk \in Seq(Frames) /\ end'[Other(x)].chunk \in Seq(Frames)
        /\ wire'[x] \in Seq(Frames) /\ wire'[Other(x)] \in Seq(Frames)
    BY <2>1 DEF TypeOK, EndStates
  <2>3. InFlight(x)' \in Seq(Frames) /\ InFlight(Other(x))' \in Seq(Frames)
    BY <2>1, <2>2 DEF InFlight
  <2> DEFINE handles == At(InFlight(x)', "handle")
             acks == At(InFlight(Other(x))', "ack")
  <2>4. /\ handles = {} <=> NoneOf(InFlight(x)', "handle")
        /\ (\A i, j \in handles : i = j) <=> OneOf(InFlight(x)', "handle")
    BY <2>3, AtKinds
  <2>5. /\ acks = {} <=> NoneOf(InFlight(Other(x))', "ack")
        /\ (\A i, j \in acks : i = j) <=> OneOf(InFlight(Other(x))', "ack")
    BY <2>3, AtKinds
  <2>6. handles = At(InFlight(x), "handle")' /\ acks = At(InFlight(Other(x)), "ack")'
    BY DEF At
  <2>7. Way(end'[x].dead, end'[x].acking, end'[x].queue, InFlight(x)', InFlight(Other(x))')
    BY <1>1 DEF WayOf, Way, NoneOf, OneOf
  <2> HIDE DEF handles, acks
  <2> QED
    BY <2>4, <2>5, <2>6, <2>7 DEF Way, Alive
<1>3. OneHandleAtATime'
  BY <1>2 DEF OneHandleAtATime
<1> QED
  BY <1>1, <1>3 DEF IInv

-----------------------------------------------------------------------------
(* Every step keeps the invariant *)

\* The invariant at both ends, with the parts of each direction spelled out.
LEMMA BothWays ==
  ASSUME IInv, NEW e \in Ends, NEW o, o = Other(e)
  PROVE  /\ TypeOK /\ ChunkRead /\ o \in Ends /\ o # e /\ Other(o) = e
         /\ end[e] \in EndStates /\ end[o] \in EndStates
         /\ InFlight(e) = end[o].chunk \o wire[e] /\ InFlight(e) \in Seq(Frames)
         /\ InFlight(o) = end[e].chunk \o wire[o] /\ InFlight(o) \in Seq(Frames)
         /\ Way(end[e].dead, end[e].acking, end[e].queue, InFlight(e), InFlight(o))
         /\ Way(end[o].dead, end[o].acking, end[o].queue, InFlight(o), InFlight(e))
         /\ FlowType(end[o].chunk, wire[e], end[o].pipe, end[e].queue, end[e].pipe,
                     Len(got[o]), Len(sent[e]))
         /\ FlowType(end[e].chunk, wire[o], end[e].pipe, end[o].queue, end[o].pipe,
                     Len(got[e]), Len(sent[o]))
         /\ Flow(end[o].chunk, wire[e], end[o].pipe, end[e].queue, end[e].pipe,
                 Len(got[o]), Len(sent[e]))
         /\ Flow(end[e].chunk, wire[o], end[e].pipe, end[o].queue, end[o].pipe,
                 Len(got[e]), Len(sent[o]))
<1>1. o \in Ends /\ o # e /\ Other(o) = e
  BY TwoEnds
<1>2. TypeOK /\ ChunkRead /\ OneHandleAtATime /\ FlowOf(e) /\ FlowOf(o)
  BY <1>1 DEF IInv
<1>3. WayOf(e) /\ WayOf(o)
  BY <1>1, <1>2, WaysHold
<1>4. /\ FlowTypeOf(e) /\ FlowTypeOf(o)
      /\ InFlight(e) \in Seq(Frames) /\ InFlight(o) \in Seq(Frames)
  BY <1>1, <1>2, FlowTypes
<1>5. end[e] \in EndStates /\ end[o] \in EndStates
  BY <1>1, <1>2 DEF TypeOK
<1>6. InFlight(e) = end[o].chunk \o wire[e] /\ InFlight(o) = end[e].chunk \o wire[o]
  BY <1>1 DEF InFlight
<1>7. /\ Way(end[e].dead, end[e].acking, end[e].queue, InFlight(e), InFlight(o))
      /\ Way(end[o].dead, end[o].acking, end[o].queue, InFlight(o), InFlight(e))
  BY <1>1, <1>3 DEF WayOf
<1>8. /\ FlowType(end[o].chunk, wire[e], end[o].pipe, end[e].queue, end[e].pipe,
                  Len(got[o]), Len(sent[e]))
      /\ FlowType(end[e].chunk, wire[o], end[e].pipe, end[o].queue, end[o].pipe,
                  Len(got[e]), Len(sent[o]))
  BY <1>1, <1>4 DEF FlowTypeOf
<1>9. /\ Flow(end[o].chunk, wire[e], end[o].pipe, end[e].queue, end[e].pipe,
              Len(got[o]), Len(sent[e]))
      /\ Flow(end[e].chunk, wire[o], end[e].pipe, end[o].queue, end[o].pipe,
              Len(got[e]), Len(sent[o]))
  BY <1>1, <1>2 DEF FlowOf
<1> QED
  BY <1>1, <1>2, <1>4, <1>5, <1>6, <1>7, <1>8, <1>9

\* The same of the state after a step.
LEMMA BothWaysKept ==
  ASSUME TypeOK', ChunkRead', NEW e \in Ends, NEW o, o = Other(e),
         NEW out, NEW back,
         out = end'[o].chunk \o wire'[e], back = end'[e].chunk \o wire'[o],
         Way(end'[e].dead, end'[e].acking, end'[e].queue, out, back),
         Way(end'[o].dead, end'[o].acking, end'[o].queue, back, out),
         Flow(end'[o].chunk, wire'[e], end'[o].pipe, end'[e].queue, end'[e].pipe,
              Len(got'[o]), Len(sent'[e])),
         Flow(end'[e].chunk, wire'[o], end'[e].pipe, end'[o].queue, end'[o].pipe,
              Len(got'[e]), Len(sent'[o]))
  PROVE  IInv'
<1>1. o \in Ends /\ o # e /\ Other(o) = e
  BY TwoEnds
<1>2. InFlight(e)' = out /\ InFlight(o)' = back
  BY <1>1 DEF InFlight
<1>3. WayOf(e)' /\ WayOf(o)'
  <2>1. WayOf(e)' = Way(end'[e].dead, end'[e].acking, end'[e].queue, out, back)
    BY <1>1, <1>2 DEF WayOf, Way, NoneOf, OneOf
  <2>2. InFlight(Other(o))' = out
    BY <1>1, <1>2
  <2>3. WayOf(o)' = Way(end'[o].dead, end'[o].acking, end'[o].queue, back, out)
    BY <1>2, <2>2 DEF WayOf, Way, NoneOf, OneOf
  <2> QED
    BY <2>1, <2>3
<1>4. FlowOf(e)' /\ FlowOf(o)'
  BY <1>1 DEF FlowOf, Flow
<1> QED
  BY <1>3, <1>4, StepKeeps

\* The end that acts keeps ChunkRead, the other one is not touched.
LEMMA ChunkReadKept ==
  ASSUME ChunkRead, NEW e \in Ends, Others(e), end'[e].reading \/ end'[e].chunk = <<>>
  PROVE  ChunkRead'
<1> QED
  BY DEF ChunkRead, Others

\* An end that writes nothing keeps its direction of the channel, also when the last
\* of what it wrote is lost with its pipe.
LEMMA WireKept ==
  ASSUME IInv, NEW e \in Ends, NEW o, o = Other(e), KeepsWire(e),
         end'[e].pipe \in {end[e].pipe, FALSE}, end'[e].queue = end[e].queue
  PROVE  /\ wire'[o] = wire[o]
         /\ Flow(end[o].chunk, wire'[e], end[o].pipe, end'[e].queue, end'[e].pipe,
                 Len(got[o]), Len(sent[e]))
         /\ \A kind : LET out == end[o].chunk \o wire'[e]
                      IN /\ NoneOf(InFlight(e), kind) => NoneOf(out, kind)
                         /\ OneOf(InFlight(e), kind) => OneOf(out, kind)
<1>1. /\ TypeOK /\ o \in Ends /\ o # e
      /\ wire[e] \in Seq(Frames) /\ end[o].chunk \in Seq(Frames) /\ end[e].pipe \in BOOLEAN
      /\ InFlight(e) = end[o].chunk \o wire[e]
      /\ FlowType(end[o].chunk, wire[e], end[o].pipe, end[e].queue, end[e].pipe,
                  Len(got[o]), Len(sent[e]))
      /\ Flow(end[o].chunk, wire[e], end[o].pipe, end[e].queue, end[e].pipe,
              Len(got[o]), Len(sent[e]))
  BY BothWays, EndType
<1>2. Len(wire[e]) \in Nat /\ SubSeq(wire[e], 1, Len(wire[e])) = wire[e]
  BY <1>1
<1>3. PICK k \in 0 .. Len(wire[e]) :
        wire'[e] = SubSeq(wire[e], 1, k) /\ (wire'[e] = wire[e] \/ end'[e].pipe = FALSE)
  <2>1. CASE wire' = wire
    BY <1>2, <2>1
  <2>2. ASSUME NEW k \in 0 .. Len(wire[e]), end'[e].pipe = FALSE,
               wire' = [wire EXCEPT ![e] = SubSeq(wire[e], 1, k)]
        PROVE  wire'[e] = SubSeq(wire[e], 1, k)
    BY <1>1, <2>2 DEF TypeOK
  <2> QED
    BY <2>1, <2>2, <1>2 DEF KeepsWire
<1>4. wire'[o] = wire[o]
  BY <1>1 DEF KeepsWire, TypeOK
<1>5. Flow(end[o].chunk, wire'[e], end[o].pipe, end'[e].queue, end'[e].pipe,
           Len(got[o]), Len(sent[e]))
  <2>1. CASE end'[e].pipe = FALSE
    <3>1. Flow(end[o].chunk, SubSeq(wire[e], 1, k), end[o].pipe, end'[e].queue, FALSE,
               Len(got[o]), Len(sent[e]))
      BY <1>1, FlowSenderCloses
    <3> QED
      BY <1>3, <2>1, <3>1
  <2>2. CASE wire'[e] = wire[e] /\ end'[e].pipe = end[e].pipe
    BY <1>1, <2>2
  <2> QED
    BY <1>3, <2>1, <2>2
<1>6. \A kind : LET out == end[o].chunk \o wire'[e]
               IN /\ NoneOf(InFlight(e), kind) => NoneOf(out, kind)
                  /\ OneOf(InFlight(e), kind) => OneOf(out, kind)
  BY <1>1, <1>3, KindsPrefix
<1> QED
  BY <1>4, <1>5, <1>6

\* disconnect(), finish(), the end of a chunk or of the pipe.
LEMMA QuietKeeps ==
  ASSUME IInv, NEW e \in Ends, Quiet(e)
  PROVE  IInv'
<1> DEFINE o == Other(e)
<1>1. o = Other(e)
  OBVIOUS
<1> HIDE DEF o
<1>2. /\ TypeOK /\ ChunkRead /\ o \in Ends /\ o # e
      /\ end[e] \in EndStates
      /\ InFlight(e) = end[o].chunk \o wire[e] /\ InFlight(o) = end[e].chunk \o wire[o]
      /\ Way(end[e].dead, end[e].acking, end[e].queue, InFlight(e), InFlight(o))
      /\ Way(end[o].dead, end[o].acking, end[o].queue, InFlight(o), InFlight(e))
      /\ FlowType(end[e].chunk, wire[o], end[e].pipe, end[o].queue, end[o].pipe,
                  Len(got[e]), Len(sent[o]))
      /\ Flow(end[o].chunk, wire[e], end[o].pipe, end[e].queue, end[e].pipe,
              Len(got[o]), Len(sent[e]))
      /\ Flow(end[e].chunk, wire[o], end[e].pipe, end[o].queue, end[o].pipe,
              Len(got[e]), Len(sent[o]))
  BY <1>1, BothWays
<1>3. /\ TypeOK' /\ Others(e) /\ KeepsWire(e) /\ sent' = sent /\ got' = got
      /\ end'[e].queue = end[e].queue /\ end'[e].acking = end[e].acking
      /\ end'[e].dead = end[e].dead /\ end'[e].chunk = end[e].chunk
      /\ end'[e].pipe \in {end[e].pipe, FALSE}
      /\ end'[e].reading \/ end'[e].chunk = <<>>
  BY DEF Quiet, SameSender
<1>4. end'[o] = end[o]
  BY <1>2, <1>3 DEF Others
<1>5. ChunkRead'
  BY <1>2, <1>3, ChunkReadKept
<1>6. Flow(end[e].chunk, wire[o], end'[e].pipe, end[o].queue, end[o].pipe,
           Len(got[e]), Len(sent[o]))
  BY <1>2, <1>3, FlowClose
<1> DEFINE out == end[o].chunk \o wire'[e]
           back == InFlight(o)
<1>7. /\ wire'[o] = wire[o]
      /\ Flow(end[o].chunk, wire'[e], end[o].pipe, end'[e].queue, end'[e].pipe,
              Len(got[o]), Len(sent[e]))
      /\ \A kind : /\ NoneOf(InFlight(e), kind) => NoneOf(out, kind)
                   /\ OneOf(InFlight(e), kind) => OneOf(out, kind)
  BY <1>1, <1>3, WireKept
<1>8. out = end'[o].chunk \o wire'[e] /\ back = end'[e].chunk \o wire'[o]
  BY <1>2, <1>3, <1>4, <1>7
<1> HIDE DEF out, back
<1>9. /\ Way(end'[e].dead, end'[e].acking, end'[e].queue, out, back)
      /\ Way(end'[o].dead, end'[o].acking, end'[o].queue, back, out)
  BY <1>2, <1>3, <1>4, <1>7 DEF Way, back
<1>10. /\ Flow(end'[o].chunk, wire'[e], end'[o].pipe, end'[e].queue, end'[e].pipe,
               Len(got'[o]), Len(sent'[e]))
       /\ Flow(end'[e].chunk, wire'[o], end'[e].pipe, end'[o].queue, end'[o].pipe,
               Len(got'[e]), Len(sent'[o]))
  BY <1>3, <1>4, <1>6, <1>7
<1> QED
  BY <1>1, <1>3, <1>5, <1>8, <1>9, <1>10, BothWaysKept

\* A frame written after those on the wire.
LEMMA KindsAppend ==
  ASSUME NEW c \in Seq(Frames), NEW w \in Seq(Frames), NEW f \in Frames, NEW kind
  PROVE  LET s == c \o w
             t == c \o Append(w, f)
         IN /\ t \in Seq(Frames)
            /\ NoneOf(s, kind) /\ f.k # kind => NoneOf(t, kind)
            /\ OneOf(s, kind) /\ f.k # kind => OneOf(t, kind)
            /\ NoneOf(s, kind) => OneOf(t, kind)
<1> DEFINE s == c \o w
           t == c \o Append(w, f)
           u == <<f>>
<1>1. s \in Seq(Frames) /\ u \in Seq(Frames) /\ t = s \o u
  OBVIOUS
<1>2. Len(u) = 1 /\ u[1] = f
  OBVIOUS
<1>3. s \o u \in Seq(Frames)
  BY <1>1
<1> HIDE DEF s, t, u
<1>4. OneOf(u, kind) /\ (f.k # kind => NoneOf(u, kind))
  BY <1>2 DEF OneOf, NoneOf
<1>5. /\ NoneOf(u, kind) /\ NoneOf(s, kind) => NoneOf(s \o u, kind)
      /\ NoneOf(u, kind) /\ OneOf(s, kind) => OneOf(s \o u, kind)
      /\ NoneOf(s, kind) /\ OneOf(u, kind) => OneOf(s \o u, kind)
  BY <1>1, KindsConcat
<1>6. /\ t \in Seq(Frames)
      /\ NoneOf(s, kind) /\ f.k # kind => NoneOf(t, kind)
      /\ OneOf(s, kind) /\ f.k # kind => OneOf(t, kind)
      /\ NoneOf(s, kind) => OneOf(t, kind)
  BY <1>1, <1>3, <1>4, <1>5
<1> QED
  BY <1>6 DEF s, t

\* A chunk moves frames from the wire to the reader, in order.
LEMMA ReadKeeps ==
  ASSUME IInv, NEW e \in Ends, Read(e)
  PROVE  IInv'
<1> DEFINE o == Other(e)
<1>1. o = Other(e)
  OBVIOUS
<1> HIDE DEF o
<1>2. /\ TypeOK /\ ChunkRead /\ o \in Ends /\ o # e /\ wire[o] \in Seq(Frames)
      /\ InFlight(e) = end[o].chunk \o wire[e] /\ InFlight(o) = end[e].chunk \o wire[o]
      /\ Way(end[e].dead, end[e].acking, end[e].queue, InFlight(e), InFlight(o))
      /\ Way(end[o].dead, end[o].acking, end[o].queue, InFlight(o), InFlight(e))
      /\ FlowType(end[e].chunk, wire[o], end[e].pipe, end[o].queue, end[o].pipe,
                  Len(got[e]), Len(sent[o]))
      /\ Flow(end[o].chunk, wire[e], end[o].pipe, end[e].queue, end[e].pipe,
              Len(got[o]), Len(sent[e]))
      /\ Flow(end[e].chunk, wire[o], end[e].pipe, end[o].queue, end[o].pipe,
              Len(got[e]), Len(sent[o]))
  BY <1>1, BothWays, EndType
<1>3. /\ TypeOK' /\ Others(e) /\ sent' = sent /\ got' = got
      /\ end'[e].queue = end[e].queue /\ end'[e].acking = end[e].acking
      /\ end'[e].dead = end[e].dead
      /\ ~end[e].reading /\ end'[e].reading /\ end[e].pipe = TRUE /\ end'[e].pipe = TRUE
  BY <1>2, ReadDoes DEF SameSender
<1>4. PICK k \in 0 .. Len(wire[o]) :
        /\ end'[e].chunk = SubSeq(wire[o], 1, k)
        /\ wire' = [wire EXCEPT ![o] = SubSeq(wire[o], k + 1, Len(wire[o]))]
  BY <1>1, <1>2, ReadDoes
<1>5. end'[o] = end[o] /\ wire'[e] = wire[e]
      /\ wire'[o] = SubSeq(wire[o], k + 1, Len(wire[o]))
  BY <1>2, <1>3, <1>4 DEF Others, TypeOK
<1>6. ChunkRead' /\ end[e].chunk = <<>>
  BY <1>2, <1>3, ChunkReadKept DEF ChunkRead
<1>7. /\ SubSeq(wire[o], 1, k) \o SubSeq(wire[o], k + 1, Len(wire[o])) = <<>> \o wire[o]
      /\ Flow(SubSeq(wire[o], 1, k), SubSeq(wire[o], k + 1, Len(wire[o])), TRUE,
              end[o].queue, end[o].pipe, Len(got[e]), Len(sent[o]))
  <2>1. /\ FlowType(<<>>, wire[o], TRUE, end[o].queue, end[o].pipe, Len(got[e]), Len(sent[o]))
        /\ Flow(<<>>, wire[o], TRUE, end[o].queue, end[o].pipe, Len(got[e]), Len(sent[o]))
    BY <1>2, <1>3, <1>6
  <2> QED
    BY <2>1, FlowRead
<1> DEFINE out == InFlight(e)
           back == InFlight(o)
<1>8. out = end'[o].chunk \o wire'[e] /\ back = end'[e].chunk \o wire'[o]
  BY <1>2, <1>4, <1>5, <1>6, <1>7
<1>9. /\ Way(end'[e].dead, end'[e].acking, end'[e].queue, out, back)
      /\ Way(end'[o].dead, end'[o].acking, end'[o].queue, back, out)
  BY <1>2, <1>3, <1>5
<1>10. /\ Flow(end'[o].chunk, wire'[e], end'[o].pipe, end'[e].queue, end'[e].pipe,
               Len(got'[o]), Len(sent'[e]))
       /\ Flow(end'[e].chunk, wire'[o], end'[e].pipe, end'[o].queue, end'[o].pipe,
               Len(got'[e]), Len(sent'[o]))
  BY <1>2, <1>3, <1>4, <1>5, <1>7
<1> HIDE DEF out, back
<1> QED
  BY <1>1, <1>3, <1>6, <1>8, <1>9, <1>10, BothWaysKept

\* A process dies.
LEMMA DiesKeeps ==
  ASSUME IInv, NEW e \in Ends, Dies(e)
  PROVE  IInv'
<1> DEFINE o == Other(e)
<1>1. o = Other(e)
  OBVIOUS
<1> HIDE DEF o
<1>2. /\ TypeOK /\ ChunkRead /\ o \in Ends /\ o # e
      /\ wire[e] \in Seq(Frames) /\ end[o].chunk \in Seq(Frames)
      /\ InFlight(e) = end[o].chunk \o wire[e]
      /\ Way(end[o].dead, end[o].acking, end[o].queue, InFlight(o), InFlight(e))
      /\ FlowType(end[o].chunk, wire[e], end[o].pipe, end[e].queue, end[e].pipe,
                  Len(got[o]), Len(sent[e]))
      /\ FlowType(end[e].chunk, wire[o], end[e].pipe, end[o].queue, end[o].pipe,
                  Len(got[e]), Len(sent[o]))
      /\ Flow(end[o].chunk, wire[e], end[o].pipe, end[e].queue, end[e].pipe,
              Len(got[o]), Len(sent[e]))
      /\ Flow(end[e].chunk, wire[o], end[e].pipe, end[o].queue, end[o].pipe,
              Len(got[e]), Len(sent[o]))
  BY <1>1, BothWays, EndType
<1>3. /\ TypeOK' /\ Others(e) /\ sent' = sent /\ got' = got
      /\ end'[e].dead = TRUE /\ end'[e].pipe = FALSE /\ end'[e].chunk = <<>>
  BY <1>2, DiesDoes
<1>13. PICK k \in 0 .. Len(wire[e]) :
         wire' = [wire EXCEPT ![o] = <<>>, ![e] = SubSeq(wire[e], 1, k)]
  BY <1>1, <1>2, DiesDoes
<1>4. end'[o] = end[o] /\ wire'[e] = SubSeq(wire[e], 1, k) /\ wire'[o] = <<>>
  BY <1>2, <1>3, <1>13 DEF Others, TypeOK
<1>5. ChunkRead'
  BY <1>2, <1>3, ChunkReadKept
<1>6. Flow(<<>>, <<>>, FALSE, end[o].queue, end[o].pipe, Len(got[e]), Len(sent[o]))
  BY <1>2, FlowReceiverDies
<1>7. Flow(end[o].chunk, wire'[e], end[o].pipe, end'[e].queue, FALSE, Len(got[o]), Len(sent[e]))
  <2>1. Flow(end[o].chunk, SubSeq(wire[e], 1, k), end[o].pipe, end'[e].queue, FALSE,
             Len(got[o]), Len(sent[e]))
    BY <1>2, FlowSenderCloses
  <2> QED
    BY <1>4, <2>1
<1> DEFINE out == end[o].chunk \o wire'[e]
           back == <<>>
<1>12. \A kind : /\ NoneOf(InFlight(e), kind) => NoneOf(out, kind)
                 /\ OneOf(InFlight(e), kind) => OneOf(out, kind)
  BY <1>2, <1>4, KindsPrefix
<1>8. out = end'[o].chunk \o wire'[e] /\ back = end'[e].chunk \o wire'[o]
  <2>1. <<>> \o <<>> = <<>>
    OBVIOUS
  <2>2. out = end'[o].chunk \o wire'[e]
    BY <1>2, <1>4
  <2> QED
    BY <1>3, <1>4, <2>1, <2>2
<1>9. Way(end'[e].dead, end'[e].acking, end'[e].queue, out, back)
  BY <1>3 DEF Way
<1>10. Way(end'[o].dead, end'[o].acking, end'[o].queue, back, out)
  <2>1. NoneOf(back, "handle") /\ OneOf(back, "handle")
    BY DEF NoneOf, OneOf
  <2> HIDE DEF back, out
  <2> QED
    BY <1>2, <1>4, <1>12, <2>1 DEF Way
<1>11. /\ Flow(end'[o].chunk, wire'[e], end'[o].pipe, end'[e].queue, end'[e].pipe,
               Len(got'[o]), Len(sent'[e]))
       /\ Flow(end'[e].chunk, wire'[o], end'[e].pipe, end'[o].queue, end'[o].pipe,
               Len(got'[e]), Len(sent'[o]))
  BY <1>3, <1>4, <1>6, <1>7
<1> HIDE DEF out, back
<1> QED
  BY <1>1, <1>3, <1>5, <1>8, <1>9, <1>10, <1>11, BothWaysKept

\* A frame of the chunk is taken: what that does to the frames on their way.
LEMMA WayTail ==
  ASSUME NEW c \in Seq(Frames), c # <<>>, NEW w \in Seq(Frames), NEW kind
  PROVE  LET s == c \o w
             t == Tail(c) \o w
         IN /\ t \in Seq(Frames)
            /\ NoneOf(s, kind) => NoneOf(t, kind)
            /\ OneOf(s, kind) => OneOf(t, kind)
            /\ OneOf(s, kind) /\ Head(c).k = kind => NoneOf(t, kind)
            /\ Head(c).k = kind => ~NoneOf(s, kind)
<1> DEFINE s == c \o w
           t == Tail(c) \o w
<1>1. s \in Seq(Frames) /\ s # <<>> /\ Head(s) = Head(c) /\ Tail(s) = t
  BY TailConcat
<1> HIDE DEF s, t
<1>2. Tail(s) \in Seq(Frames)
  BY <1>1
<1>3. /\ NoneOf(s, kind) => NoneOf(Tail(s), kind)
      /\ OneOf(s, kind) => OneOf(Tail(s), kind)
      /\ OneOf(s, kind) /\ Head(s).k = kind => NoneOf(Tail(s), kind)
      /\ Head(s).k = kind => ~NoneOf(s, kind)
  BY <1>1, KindsTail
<1>4. /\ t \in Seq(Frames)
      /\ NoneOf(s, kind) => NoneOf(t, kind)
      /\ OneOf(s, kind) => OneOf(t, kind)
      /\ OneOf(s, kind) /\ Head(c).k = kind => NoneOf(t, kind)
      /\ Head(c).k = kind => ~NoneOf(s, kind)
  BY <1>1, <1>2, <1>3
<1> QED
  BY <1>4 DEF s, t

\* A message is handled and counted.
LEMMA DeliveryCounts ==
  ASSUME TypeOK, NEW e \in Ends, NEW o \in Ends, o # e, end[e].chunk # <<>>, Delivery(e)
  PROVE  Len(got'[e]) = Len(got[e]) + 1 /\ got'[o] = got[o]
<1>1. got[e] \in Seq(Nat) /\ got \in [Ends -> Seq(Nat)]
  BY DEF TypeOK
<1>2. got'[e] = Append(got[e], Head(end[e].chunk).n) /\ got'[o] = got[o]
  BY <1>1 DEF Delivery
<1> QED
  BY <1>1, <1>2

\* A message is delivered, and it is the next one.
LEMMA OnMessageKeeps ==
  ASSUME IInv, NEW e \in Ends, OnMessage(e)
  PROVE  /\ IInv'
         /\ Head(end[e].chunk).n = Len(got[e]) + 1 /\ Len(got[e]) < Len(sent[Other(e)])
<1> DEFINE o == Other(e)
<1>1. o = Other(e)
  OBVIOUS
<1> HIDE DEF o
<1>2. /\ TypeOK /\ ChunkRead /\ o \in Ends /\ o # e
      /\ wire[o] \in Seq(Frames) /\ end[e].chunk \in Seq(Frames)
      /\ InFlight(e) = end[o].chunk \o wire[e] /\ InFlight(o) = end[e].chunk \o wire[o]
      /\ Way(end[e].dead, end[e].acking, end[e].queue, InFlight(e), InFlight(o))
      /\ Way(end[o].dead, end[o].acking, end[o].queue, InFlight(o), InFlight(e))
      /\ FlowType(end[e].chunk, wire[o], end[e].pipe, end[o].queue, end[o].pipe,
                  Len(got[e]), Len(sent[o]))
      /\ Flow(end[o].chunk, wire[e], end[o].pipe, end[e].queue, end[e].pipe,
              Len(got[o]), Len(sent[e]))
      /\ Flow(end[e].chunk, wire[o], end[e].pipe, end[o].queue, end[o].pipe,
              Len(got[e]), Len(sent[o]))
  BY <1>1, BothWays, EndType
<1>3. /\ TypeOK' /\ Others(e) /\ sent' = sent /\ KeepsWire(e)
      /\ end'[e].queue = end[e].queue /\ end'[e].acking = end[e].acking
      /\ end'[e].dead = end[e].dead
      /\ end[e].chunk # <<>> /\ end'[e].chunk = Tail(end[e].chunk) /\ end'[e].reading
      /\ end'[e].pipe \in {end[e].pipe, FALSE}
      /\ Head(end[e].chunk).k = "message" /\ Delivery(e)
  BY <1>2, OnMessageDoes DEF SameSender, TakesFrame
<1>4. end'[o] = end[o] /\ Len(got'[e]) = Len(got[e]) + 1 /\ got'[o] = got[o]
  BY <1>2, <1>3, DeliveryCounts DEF Others
<1>5. ChunkRead'
  BY <1>2, <1>3, ChunkReadKept
<1>6. /\ Head(end[e].chunk).n = Len(got[e]) + 1 /\ Len(got[e]) < Len(sent[o])
      /\ Flow(Tail(end[e].chunk), wire[o], end[e].pipe, end[o].queue, end[o].pipe,
              Len(got[e]) + 1, Len(sent[o]))
  <2>1. IsMessage(Head(end[e].chunk))
    BY <1>3 DEF IsMessage
  <2> QED
    BY <1>2, <1>3, <2>1, FlowHandle
<1>7. Flow(Tail(end[e].chunk), wire[o], end'[e].pipe, end[o].queue, end[o].pipe,
           Len(got[e]) + 1, Len(sent[o]))
  <2>1. FlowType(Tail(end[e].chunk), wire[o], end[e].pipe, end[o].queue, end[o].pipe,
                 Len(got[e]) + 1, Len(sent[o]))
    BY <1>2, <1>3 DEF FlowType
  <2> QED
    BY <1>3, <1>6, <2>1, FlowClose
<1> DEFINE out == end[o].chunk \o wire'[e]
           back == Tail(end[e].chunk) \o wire[o]
<1>14. /\ wire'[o] = wire[o]
       /\ Flow(end[o].chunk, wire'[e], end[o].pipe, end'[e].queue, end'[e].pipe,
               Len(got[o]), Len(sent[e]))
       /\ \A kind : /\ NoneOf(InFlight(e), kind) => NoneOf(out, kind)
                    /\ OneOf(InFlight(e), kind) => OneOf(out, kind)
  BY <1>1, <1>3, WireKept
<1>8. out = end'[o].chunk \o wire'[e] /\ back = end'[e].chunk \o wire'[o]
  BY <1>3, <1>4, <1>14
<1>9. \A kind : /\ NoneOf(InFlight(o), kind) => NoneOf(back, kind)
                /\ OneOf(InFlight(o), kind) => OneOf(back, kind)
  BY <1>2, <1>3, WayTail
<1> HIDE DEF out, back
<1>10. Way(end'[e].dead, end'[e].acking, end'[e].queue, out, back)
  BY <1>2, <1>3, <1>9, <1>14 DEF Way
<1>11. Way(end'[o].dead, end'[o].acking, end'[o].queue, back, out)
  BY <1>2, <1>4, <1>9, <1>14 DEF Way
<1>12. /\ Flow(end'[o].chunk, wire'[e], end'[o].pipe, end'[e].queue, end'[e].pipe,
               Len(got'[o]), Len(sent'[e]))
       /\ Flow(end'[e].chunk, wire'[o], end'[e].pipe, end'[o].queue, end'[o].pipe,
               Len(got'[e]), Len(sent'[o]))
  BY <1>3, <1>4, <1>7, <1>14
<1>13. IInv'
  BY <1>1, <1>3, <1>5, <1>8, <1>10, <1>11, <1>12, BothWaysKept
<1> QED
  BY <1>1, <1>6, <1>13

\* A message with a handle is delivered, and it is the next one; its acknowledgement takes its place.
LEMMA OnHandleKeeps ==
  ASSUME IInv, NEW e \in Ends, OnHandle(e)
  PROVE  /\ IInv'
         /\ Head(end[e].chunk).n = Len(got[e]) + 1 /\ Len(got[e]) < Len(sent[Other(e)])
<1> DEFINE o == Other(e)
<1>1. o = Other(e)
  OBVIOUS
<1> HIDE DEF o
<1>2. /\ TypeOK /\ ChunkRead /\ o \in Ends /\ o # e
      /\ wire[o] \in Seq(Frames) /\ end[e].chunk \in Seq(Frames)
      /\ wire[e] \in Seq(Frames) /\ end[o].chunk \in Seq(Frames)
      /\ InFlight(e) = end[o].chunk \o wire[e] /\ InFlight(o) = end[e].chunk \o wire[o]
      /\ Way(end[e].dead, end[e].acking, end[e].queue, InFlight(e), InFlight(o))
      /\ Way(end[o].dead, end[o].acking, end[o].queue, InFlight(o), InFlight(e))
      /\ FlowType(end[o].chunk, wire[e], end[o].pipe, end[e].queue, end[e].pipe,
                  Len(got[o]), Len(sent[e]))
      /\ FlowType(end[e].chunk, wire[o], end[e].pipe, end[o].queue, end[o].pipe,
                  Len(got[e]), Len(sent[o]))
      /\ Flow(end[o].chunk, wire[e], end[o].pipe, end[e].queue, end[e].pipe,
              Len(got[o]), Len(sent[e]))
      /\ Flow(end[e].chunk, wire[o], end[e].pipe, end[o].queue, end[o].pipe,
              Len(got[e]), Len(sent[o]))
  BY <1>1, BothWays, EndType
<1>3. /\ TypeOK' /\ Others(e) /\ sent' = sent
      /\ end'[e].queue = end[e].queue /\ end'[e].acking = end[e].acking
      /\ end'[e].dead = end[e].dead
      /\ end[e].chunk # <<>> /\ end'[e].chunk = Tail(end[e].chunk) /\ end'[e].reading
      /\ end'[e].pipe = end[e].pipe
      /\ Head(end[e].chunk).k = "handle" /\ Delivery(e)
      /\ wire' = [wire EXCEPT ![e] = Append(wire[e], Ack)]
  BY <1>2, OnHandleDoes DEF SameSender, TakesFrame
<1>4. end'[o] = end[o] /\ Len(got'[e]) = Len(got[e]) + 1 /\ got'[o] = got[o]
  BY <1>2, <1>3, DeliveryCounts DEF Others
<1>5. wire'[o] = wire[o] /\ wire'[e] = Append(wire[e], Ack)
  BY <1>2, <1>3 DEF TypeOK
<1>6. ChunkRead'
  BY <1>2, <1>3, ChunkReadKept
<1>7. /\ Head(end[e].chunk).n = Len(got[e]) + 1 /\ Len(got[e]) < Len(sent[o])
      /\ Flow(Tail(end[e].chunk), wire[o], end[e].pipe, end[o].queue, end[o].pipe,
              Len(got[e]) + 1, Len(sent[o]))
  <2>1. IsMessage(Head(end[e].chunk))
    BY <1>3 DEF IsMessage
  <2> QED
    BY <1>2, <1>3, <2>1, FlowHandle
<1>8. Flow(end[o].chunk, Append(wire[e], Ack), end[o].pipe, end[e].queue, end[e].pipe,
           Len(got[o]), Len(sent[e]))
  BY <1>2, FlowAck
<1> DEFINE out == end[o].chunk \o Append(wire[e], Ack)
           back == Tail(end[e].chunk) \o wire[o]
<1>9. out = end'[o].chunk \o wire'[e] /\ back = end'[e].chunk \o wire'[o]
  BY <1>3, <1>4, <1>5
<1>10. \A kind : /\ NoneOf(InFlight(o), kind) => NoneOf(back, kind)
                 /\ OneOf(InFlight(o), kind) => OneOf(back, kind)
  BY <1>2, <1>3, WayTail
<1>11. /\ OneOf(InFlight(o), "handle") => NoneOf(back, "handle")
       /\ ~NoneOf(InFlight(o), "handle")
  BY <1>2, <1>3, WayTail
<1>12. Ack \in Frames /\ Ack.k = "ack"
  BY DEF Ack, Frames
<1>13. /\ NoneOf(InFlight(e), "handle") => NoneOf(out, "handle")
       /\ OneOf(InFlight(e), "handle") => OneOf(out, "handle")
       /\ NoneOf(InFlight(e), "ack") => OneOf(out, "ack")
  BY <1>2, <1>12, KindsAppend
<1> HIDE DEF out, back
<1>14. Way(end'[e].dead, end'[e].acking, end'[e].queue, out, back)
  BY <1>2, <1>3, <1>10, <1>13 DEF Way
<1>15. Way(end'[o].dead, end'[o].acking, end'[o].queue, back, out)
  BY <1>2, <1>4, <1>10, <1>11, <1>13 DEF Way
<1>16. /\ Flow(end'[o].chunk, wire'[e], end'[o].pipe, end'[e].queue, end'[e].pipe,
               Len(got'[o]), Len(sent'[e]))
       /\ Flow(end'[e].chunk, wire'[o], end'[e].pipe, end'[o].queue, end'[o].pipe,
               Len(got'[e]), Len(sent'[o]))
  BY <1>3, <1>4, <1>5, <1>7, <1>8
<1>17. IInv'
  BY <1>1, <1>3, <1>6, <1>9, <1>14, <1>15, <1>16, BothWaysKept
<1> QED
  BY <1>1, <1>7, <1>17

\* An acknowledgement comes to an end that waits for one.
LEMMA AckAwaited ==
  ASSUME IInv, NEW e \in Ends, OnAck(e)
  PROVE  end[e].acking
<1> DEFINE o == Other(e)
<1>1. o = Other(e)
  OBVIOUS
<1> HIDE DEF o
<1>2. /\ TypeOK /\ o \in Ends /\ wire[o] \in Seq(Frames) /\ end[e].chunk \in Seq(Frames)
      /\ InFlight(o) = end[e].chunk \o wire[o]
      /\ Way(end[e].dead, end[e].acking, end[e].queue, InFlight(e), InFlight(o))
  BY <1>1, BothWays, EndType
<1>3. end[e].chunk # <<>> /\ Head(end[e].chunk).k = "ack" /\ ~end[e].dead
  BY DEF OnAck, Due, Alive
<1>4. ~NoneOf(InFlight(o), "ack")
  BY <1>2, <1>3, WayTail
<1> QED
  BY <1>2, <1>3, <1>4 DEF Way

\* The acknowledgement is the only one, and the queue goes out up to the next handle.
LEMMA OnAckKeeps ==
  ASSUME IInv, NEW e \in Ends, OnAck(e)
  PROVE  IInv'
<1> DEFINE o == Other(e)
           queue == end[e].queue
<1>1. o = Other(e)
  OBVIOUS
<1>2. queue = end[e].queue
  OBVIOUS
<1> HIDE DEF o, queue
<1>3. /\ TypeOK /\ ChunkRead /\ o \in Ends /\ o # e
      /\ wire[o] \in Seq(Frames) /\ end[e].chunk \in Seq(Frames)
      /\ wire[e] \in Seq(Frames) /\ end[o].chunk \in Seq(Frames) /\ queue \in Seq(Nat)
      /\ InFlight(e) = end[o].chunk \o wire[e] /\ InFlight(o) = end[e].chunk \o wire[o]
      /\ InFlight(e) \in Seq(Frames)
      /\ Way(end[e].dead, end[e].acking, queue, InFlight(e), InFlight(o))
      /\ Way(end[o].dead, end[o].acking, end[o].queue, InFlight(o), InFlight(e))
      /\ FlowType(end[o].chunk, wire[e], end[o].pipe, queue, end[e].pipe,
                  Len(got[o]), Len(sent[e]))
      /\ FlowType(end[e].chunk, wire[o], end[e].pipe, end[o].queue, end[o].pipe,
                  Len(got[e]), Len(sent[o]))
      /\ Flow(end[o].chunk, wire[e], end[o].pipe, queue, end[e].pipe,
              Len(got[o]), Len(sent[e]))
      /\ Flow(end[e].chunk, wire[o], end[e].pipe, end[o].queue, end[o].pipe,
              Len(got[e]), Len(sent[o]))
  BY <1>1, <1>2, BothWays, EndType
<1>4. /\ TypeOK' /\ Others(e) /\ sent' = sent /\ got' = got
      /\ ~end[e].dead /\ ~end'[e].dead /\ end'[e].pipe = end[e].pipe
      /\ end[e].chunk # <<>> /\ end'[e].chunk = Tail(end[e].chunk) /\ end'[e].reading
      /\ Head(end[e].chunk).k = "ack" /\ end[e].reading
  BY <1>3, AckAwaited, OnAckDoes DEF TakesFrame
<1>5. \/ /\ wire' = wire /\ ~end[o].pipe
         /\ end'[e].queue = <<>> /\ ~end'[e].acking
      \/ \E last \in 0 .. Len(queue), out \in Seq(Frames) :
           /\ wire' = [wire EXCEPT ![e] = wire[e] \o out]
           /\ end'[e].queue = SubSeq(queue, last + 1, Len(queue))
           /\ ~end'[e].acking => last = Len(queue)
           /\ Len(out) = last
           /\ \A i \in 1 .. last : out[i].n = queue[i]
           /\ \A i \in 1 .. last :
                out[i].k = IF end'[e].acking /\ i = last THEN "handle" ELSE "message"
  <2>1. TypeOK
    BY <1>3
  <2> USE DEF o, queue
  <2> QED
    BY <2>1, AckAwaited, OnAckDoes
<1>6. /\ end'[o] = end[o] /\ end[e].dead = FALSE /\ end'[e].dead = FALSE
      /\ end[o].pipe \in BOOLEAN /\ end'[e].acking \in BOOLEAN
  BY <1>3, <1>4, EndType DEF Others, TypeOK, EndStates
<1>7. ChunkRead'
  BY <1>3, <1>4, ChunkReadKept
<1>8. Flow(Tail(end[e].chunk), wire[o], end[e].pipe, end[o].queue, end[o].pipe,
           Len(got[e]), Len(sent[o]))
  <2>1. ~IsMessage(Head(end[e].chunk))
    BY <1>4 DEF IsMessage
  <2> QED
    BY <1>3, <1>4, <2>1, FlowHandle
<1> DEFINE back == Tail(end[e].chunk) \o wire[o]
<1>9. \A kind : /\ NoneOf(InFlight(o), kind) => NoneOf(back, kind)
                /\ OneOf(InFlight(o), kind) => OneOf(back, kind)
  BY <1>3, <1>4, WayTail
<1>10. /\ OneOf(InFlight(o), "ack") => NoneOf(back, "ack")
       /\ ~NoneOf(InFlight(o), "ack")
  <2>1. /\ end[e].chunk \in Seq(Frames) /\ end[e].chunk # <<>> /\ wire[o] \in Seq(Frames)
        /\ Head(end[e].chunk).k = "ack" /\ InFlight(o) = end[e].chunk \o wire[o]
    BY <1>3, <1>4
  <2> QED
    BY <2>1, WayTail
<1>11. back = Tail(end[e].chunk) \o wire[o]
  OBVIOUS
<1> HIDE DEF back
<1>12. NoneOf(InFlight(e), "handle") /\ NoneOf(back, "ack") /\ OneOf(back, "ack")
  <2>1. NoneOf(InFlight(e), "handle") /\ NoneOf(back, "ack")
    BY <1>3, <1>6, <1>10 DEF Way
  <2> QED
    BY <2>1 DEF NoneOf, OneOf
<1>16. end[e].pipe = TRUE /\ end'[e].pipe = TRUE
  <2>1. end[e].acking
    BY AckAwaited
  <2>2. end[e].pipe
    BY <1>3, <1>4, <2>1, EndType DEF State3
  <2> QED
    BY <1>3, <1>4, <2>2, EndType
<1>13. OneOf(InFlight(e), "handle")
  BY <1>12 DEF NoneOf, OneOf
<1>14. CASE wire' = wire /\ ~end[o].pipe /\ end'[e].queue = <<>> /\ ~end'[e].acking
  <2> DEFINE out == InFlight(e)
  <2>1. out = end'[o].chunk \o wire'[e] /\ back = end'[e].chunk \o wire'[o]
    BY <1>3, <1>4, <1>6, <1>11, <1>14
  <2> HIDE DEF out
  <2>2. Way(end'[e].dead, end'[e].acking, end'[e].queue, out, back)
    BY <1>12, <1>13, <1>14 DEF Way, out
  <2>3. Way(end'[o].dead, end'[o].acking, end'[o].queue, back, out)
    BY <1>3, <1>6, <1>9 DEF Way, out
  <2>4. Flow(end[o].chunk, wire[e], FALSE, <<>>, TRUE, Len(got[o]), Len(sent[e]))
    <3>1. end[o].pipe = FALSE
      BY <1>6, <1>14
    <3>2. /\ FlowType(end[o].chunk, wire[e], FALSE, queue, TRUE, Len(got[o]), Len(sent[e]))
          /\ Flow(end[o].chunk, wire[e], FALSE, queue, TRUE, Len(got[o]), Len(sent[e]))
      BY <1>3, <1>6, <1>16, <3>1
    <3> QED
      BY <3>2, FlowDrop
  <2>5. /\ Flow(end'[o].chunk, wire'[e], end'[o].pipe, end'[e].queue, end'[e].pipe,
                Len(got'[o]), Len(sent'[e]))
        /\ Flow(end'[e].chunk, wire'[o], end'[e].pipe, end'[o].queue, end'[o].pipe,
                Len(got'[e]), Len(sent'[o]))
    <3>1. end[o].pipe = FALSE
      BY <1>6, <1>14
    <3> QED
      BY <1>4, <1>6, <1>8, <1>14, <1>16, <2>4, <3>1
  <2> QED
    BY <1>1, <1>4, <1>7, <2>1, <2>2, <2>3, <2>5, BothWaysKept
<1>15. ASSUME NEW last \in 0 .. Len(queue), NEW written \in Seq(Frames),
              wire' = [wire EXCEPT ![e] = wire[e] \o written],
              end'[e].queue = SubSeq(queue, last + 1, Len(queue)),
              ~end'[e].acking => last = Len(queue),
              Len(written) = last,
              \A i \in 1 .. last : written[i].n = queue[i],
              \A i \in 1 .. last :
                written[i].k = IF end'[e].acking /\ i = last THEN "handle" ELSE "message"
       PROVE  IInv'
  <2> DEFINE out == end[o].chunk \o (wire[e] \o written)
  <2>1. wire'[e] = wire[e] \o written /\ wire'[o] = wire[o]
    BY <1>3, <1>15 DEF TypeOK
  <2>2. out = end'[o].chunk \o wire'[e] /\ back = end'[e].chunk \o wire'[o]
    BY <1>4, <1>6, <1>11, <2>1
  <2>3. out = InFlight(e) \o written
    <3>1. \A c, w, v \in Seq(Frames) : c \o (w \o v) = (c \o w) \o v
      OBVIOUS
    <3>2. end[o].chunk \in Seq(Frames) /\ wire[e] \in Seq(Frames) /\ written \in Seq(Frames)
      BY <1>3
    <3>3. out = (end[o].chunk \o wire[e]) \o written
      BY <3>1, <3>2
    <3>4. InFlight(e) = end[o].chunk \o wire[e]
      BY <1>3
    <3> HIDE DEF out
    <3> QED
      BY <3>3, <3>4
  <2> HIDE DEF out
  <2>4. NoneOf(written, "ack") /\ OneOf(written, "handle")
        /\ (~end'[e].acking => NoneOf(written, "handle"))
    BY <1>6, <1>15 DEF NoneOf, OneOf
  <2>5. /\ OneOf(out, "handle") /\ (~end'[e].acking => NoneOf(out, "handle"))
        /\ NoneOf(InFlight(e), "ack") => NoneOf(out, "ack")
        /\ OneOf(InFlight(e), "ack") => OneOf(out, "ack")
    BY <1>3, <1>12, <2>3, <2>4, KindsConcat
  <2>6. ~end'[e].acking => end'[e].queue = <<>>
    BY <1>3, <1>15
  <2>7. Way(end'[e].dead, end'[e].acking, end'[e].queue, out, back)
    BY <1>12, <2>5, <2>6 DEF Way
  <2>8. Way(end'[o].dead, end'[o].acking, end'[o].queue, back, out)
    BY <1>3, <1>6, <1>9, <2>5 DEF Way
  <2>9. Flow(end[o].chunk, wire[e] \o written, end[o].pipe,
             SubSeq(queue, last + 1, Len(queue)), TRUE, Len(got[o]), Len(sent[e]))
    <3>1. \A i \in 1 .. last : written[i].n = queue[i] /\ IsMessage(written[i])
      BY <1>15 DEF IsMessage
    <3> QED
      BY <1>3, <1>6, <1>15, <1>16, <3>1, FlowFlush
  <2>10. /\ Flow(end'[o].chunk, wire'[e], end'[o].pipe, end'[e].queue, end'[e].pipe,
                 Len(got'[o]), Len(sent'[e]))
         /\ Flow(end'[e].chunk, wire'[o], end'[e].pipe, end'[o].queue, end'[o].pipe,
                 Len(got'[e]), Len(sent'[o]))
    BY <1>4, <1>6, <1>8, <1>15, <1>16, <2>1, <2>9
  <2> QED
    BY <1>1, <1>4, <1>7, <2>2, <2>7, <2>8, <2>10, BothWaysKept
<1> QED
  BY <1>5, <1>14, <1>15

\* A message is queued behind the others, or written, or lost with the pipe.
LEMMA SendKeeps ==
  ASSUME IInv, NEW e \in Ends, Send(e)
  PROVE  IInv'
<1> DEFINE o == Other(e)
           n == Len(sent[e])
<1>1. o = Other(e)
  OBVIOUS
<1>2. n = Len(sent[e])
  OBVIOUS
<1> HIDE DEF o, n
<1>3. /\ TypeOK /\ ChunkRead /\ o \in Ends /\ o # e /\ sent[e] \in Seq(BOOLEAN) /\ n \in Nat
      /\ wire[e] \in Seq(Frames) /\ end[o].chunk \in Seq(Frames) /\ end[e] \in EndStates
      /\ InFlight(e) = end[o].chunk \o wire[e] /\ InFlight(o) = end[e].chunk \o wire[o]
      /\ Way(end[e].dead, end[e].acking, end[e].queue, InFlight(e), InFlight(o))
      /\ Way(end[o].dead, end[o].acking, end[o].queue, InFlight(o), InFlight(e))
      /\ FlowType(end[o].chunk, wire[e], end[o].pipe, end[e].queue, end[e].pipe, Len(got[o]), n)
      /\ Flow(end[o].chunk, wire[e], end[o].pipe, end[e].queue, end[e].pipe, Len(got[o]), n)
      /\ Flow(end[e].chunk, wire[o], end[e].pipe, end[o].queue, end[o].pipe,
              Len(got[e]), Len(sent[o]))
  <2>1. TypeOK /\ sent[e] \in Seq(BOOLEAN)
    BY <1>1, BothWays, EndType
  <2>2. n \in Nat
    BY <1>2, <2>1
  <2> QED
    BY <1>1, <1>2, <2>1, <2>2, BothWays, EndType
<1>4. /\ TypeOK' /\ Others(e) /\ got' = got
      /\ ~end[e].dead /\ ~end'[e].dead /\ end'[e].pipe = end[e].pipe /\ end[e].pipe
      /\ end'[e].chunk = end[e].chunk /\ end'[e].reading = end[e].reading
  BY <1>3, SendDoes DEF SameReader
<1>5. PICK handle \in BOOLEAN :
        /\ sent' = [sent EXCEPT ![e] = Append(sent[e], handle)]
        /\ \/ /\ end[e].acking /\ end'[e].acking
              /\ end'[e].queue = Append(end[e].queue, n + 1)
              /\ wire' = wire
           \/ /\ ~end[e].acking /\ end'[e].acking = handle
              /\ end'[e].queue = end[e].queue
              /\ wire' = [wire EXCEPT ![e] = Append(wire[e],
                   [k |-> IF handle THEN "handle" ELSE "message", n |-> n + 1])]
           \/ /\ ~end[e].acking /\ ~end'[e].acking
              /\ end'[e].queue = end[e].queue
              /\ ~end[o].pipe
              /\ wire' = wire
  BY <1>1, <1>2, <1>3, SendDoes
<1>6. /\ end'[o] = end[o] /\ end[e].dead = FALSE /\ end'[e].dead = FALSE
      /\ end[o].pipe \in BOOLEAN /\ end[e].pipe = TRUE /\ end'[e].pipe = TRUE
  BY <1>3, <1>4, EndType DEF Others, TypeOK, EndStates
<1>7. Len(sent'[e]) = n + 1 /\ sent'[o] = sent[o]
  <2>1. sent'[e] = Append(sent[e], handle) /\ sent'[o] = sent[o]
    BY <1>3, <1>5 DEF TypeOK
  <2> QED
    BY <1>2, <1>3, <2>1
<1>8. ChunkRead'
  BY <1>3, <1>4, ChunkReadKept DEF ChunkRead
<1>9. CASE end[e].acking /\ end'[e].acking /\ end'[e].queue = Append(end[e].queue, n + 1)
           /\ wire' = wire
  <2> DEFINE out == InFlight(e)
             back == InFlight(o)
  <2>1. out = end'[o].chunk \o wire'[e] /\ back = end'[e].chunk \o wire'[o]
    BY <1>3, <1>4, <1>6, <1>9
  <2>2. Way(end'[e].dead, end'[e].acking, end'[e].queue, out, back)
    BY <1>3, <1>4, <1>9 DEF Way
  <2>3. Way(end'[o].dead, end'[o].acking, end'[o].queue, back, out)
    BY <1>3, <1>6
  <2>4. Flow(end[o].chunk, wire[e], end[o].pipe, Append(end[e].queue, n + 1), TRUE,
             Len(got[o]), n + 1)
    BY <1>3, <1>6, FlowQueue
  <2>5. /\ Flow(end'[o].chunk, wire'[e], end'[o].pipe, end'[e].queue, end'[e].pipe,
                Len(got'[o]), Len(sent'[e]))
        /\ Flow(end'[e].chunk, wire'[o], end'[e].pipe, end'[o].queue, end'[o].pipe,
                Len(got'[e]), Len(sent'[o]))
    BY <1>3, <1>4, <1>6, <1>7, <1>9, <2>4
  <2> HIDE DEF out, back
  <2> QED
    BY <1>1, <1>4, <1>8, <2>1, <2>2, <2>3, <2>5, BothWaysKept
<1>10. ~end[e].acking =>
         /\ end[e].queue = <<>> /\ NoneOf(InFlight(e), "handle") /\ NoneOf(InFlight(o), "ack")
         /\ OneOf(InFlight(e), "handle") /\ OneOf(InFlight(o), "ack")
  BY <1>3, <1>6 DEF Way
<1>11. ASSUME ~end[e].acking, end'[e].acking = handle, end'[e].queue = end[e].queue,
              wire' = [wire EXCEPT ![e] = Append(wire[e],
                   [k |-> IF handle THEN "handle" ELSE "message", n |-> n + 1])]
       PROVE  IInv'
  <2> DEFINE f == [k |-> IF handle THEN "handle" ELSE "message", n |-> n + 1]
             out == end[o].chunk \o Append(wire[e], f)
             back == InFlight(o)
  <2>1. f \in Frames /\ IsMessage(f) /\ f.n = n + 1 /\ (~handle => f.k # "handle") /\ f.k # "ack"
    BY <1>3 DEF Frames, IsMessage
  <2>2. wire' = [wire EXCEPT ![e] = Append(wire[e], f)]
    BY <1>11
  <2> HIDE DEF f
  <2>3. wire'[e] = Append(wire[e], f) /\ wire'[o] = wire[o]
    BY <1>3, <2>2 DEF TypeOK
  <2>4. out = end'[o].chunk \o wire'[e] /\ back = end'[e].chunk \o wire'[o]
    BY <1>3, <1>4, <1>6, <2>3
  <2>5. /\ OneOf(out, "handle") /\ (~handle => NoneOf(out, "handle"))
        /\ NoneOf(InFlight(e), "ack") => NoneOf(out, "ack")
        /\ OneOf(InFlight(e), "ack") => OneOf(out, "ack")
    <3>1. \A kind : /\ NoneOf(InFlight(e), kind) /\ f.k # kind => NoneOf(out, kind)
                    /\ OneOf(InFlight(e), kind) /\ f.k # kind => OneOf(out, kind)
                    /\ NoneOf(InFlight(e), kind) => OneOf(out, kind)
      BY <1>3, <2>1, KindsAppend
    <3> HIDE DEF out
    <3> QED
      BY <1>10, <1>11, <2>1, <3>1
  <2> HIDE DEF out, back
  <2>6. Way(end'[e].dead, end'[e].acking, end'[e].queue, out, back)
    BY <1>10, <1>11, <2>5 DEF Way, back
  <2>7. Way(end'[o].dead, end'[o].acking, end'[o].queue, back, out)
    BY <1>3, <1>6, <2>5 DEF Way, back
  <2>8. Flow(end[o].chunk, Append(wire[e], f), end[o].pipe, <<>>, TRUE, Len(got[o]), n + 1)
    <3>1. /\ FlowType(end[o].chunk, wire[e], end[o].pipe, <<>>, TRUE, Len(got[o]), n)
          /\ Flow(end[o].chunk, wire[e], end[o].pipe, <<>>, TRUE, Len(got[o]), n)
      BY <1>3, <1>6, <1>10, <1>11
    <3> QED
      BY <2>1, <3>1, FlowWrite
  <2>9. /\ Flow(end'[o].chunk, wire'[e], end'[o].pipe, end'[e].queue, end'[e].pipe,
                Len(got'[o]), Len(sent'[e]))
        /\ Flow(end'[e].chunk, wire'[o], end'[e].pipe, end'[o].queue, end'[o].pipe,
                Len(got'[e]), Len(sent'[o]))
    BY <1>3, <1>4, <1>6, <1>7, <1>10, <1>11, <2>3, <2>8
  <2> QED
    BY <1>1, <1>4, <1>8, <2>4, <2>6, <2>7, <2>9, BothWaysKept
<1>12. ASSUME ~end[e].acking, ~end'[e].acking, end'[e].queue = end[e].queue,
              ~end[o].pipe, wire' = wire
       PROVE  IInv'
  <2> DEFINE out == InFlight(e)
             back == InFlight(o)
  <2>1. out = end'[o].chunk \o wire'[e] /\ back = end'[e].chunk \o wire'[o]
    BY <1>3, <1>4, <1>6, <1>12
  <2>2. Way(end'[e].dead, end'[e].acking, end'[e].queue, out, back)
    BY <1>10, <1>12 DEF Way
  <2>3. Way(end'[o].dead, end'[o].acking, end'[o].queue, back, out)
    BY <1>3, <1>6
  <2>4. end[o].pipe = FALSE
    BY <1>6, <1>12
  <2>5. Flow(end[o].chunk, wire[e], FALSE, <<>>, TRUE, Len(got[o]), n + 1)
    <3>1. /\ FlowType(end[o].chunk, wire[e], FALSE, <<>>, TRUE, Len(got[o]), n)
          /\ Flow(end[o].chunk, wire[e], FALSE, <<>>, TRUE, Len(got[o]), n)
      BY <1>3, <1>6, <1>10, <1>12, <2>4
    <3> QED
      BY <3>1, FlowLost
  <2>6. /\ Flow(end'[o].chunk, wire'[e], end'[o].pipe, end'[e].queue, end'[e].pipe,
                Len(got'[o]), Len(sent'[e]))
        /\ Flow(end'[e].chunk, wire'[o], end'[e].pipe, end'[o].queue, end'[o].pipe,
                Len(got'[e]), Len(sent'[o]))
    BY <1>3, <1>4, <1>6, <1>7, <1>10, <1>12, <2>4, <2>5
  <2> HIDE DEF out, back
  <2> QED
    BY <1>1, <1>4, <1>8, <2>1, <2>2, <2>3, <2>6, BothWaysKept
<1> QED
  BY <1>5, <1>9, <1>11, <1>12

-----------------------------------------------------------------------------
(* The theorems *)

\* Nothing has been sent.
LEMMA InitHolds == Init => IInv
<1> SUFFICES ASSUME Init PROVE IInv
  OBVIOUS
<1>1. <<>> \in Seq(Nat) /\ <<>> \in Seq(Frames) /\ <<>> \in Seq(BOOLEAN) /\ Len(<<>>) = 0
      /\ <<>> \o <<>> = <<>>
  OBVIOUS
<1>2. NewEnd \in EndStates /\ State3(NewEnd) /\ NewEnd.chunk = <<>> /\ NewEnd.queue = <<>>
      /\ NewEnd.pipe = TRUE /\ NewEnd.dead = FALSE
  BY <1>1 DEF NewEnd, EndStates, State3
<1>3. \A e \in Ends : end[e] = NewEnd /\ wire[e] = <<>> /\ sent[e] = <<>> /\ got[e] = <<>>
  BY DEF Init
<1>4. end \in [Ends -> EndStates]
  BY <1>2 DEF Init
<1>5. /\ wire \in [Ends -> Seq(Frames)] /\ sent \in [Ends -> Seq(BOOLEAN)]
      /\ got \in [Ends -> Seq(Nat)]
  BY <1>1 DEF Init
<1>6. ThreeStates
  BY <1>2, <1>3 DEF ThreeStates, State3
<1>7. TypeOK
  BY <1>4, <1>5, <1>6 DEF TypeOK
<1>8. ChunkRead
  BY <1>2, <1>3 DEF ChunkRead
<1>9. \A kind : At(<<>>, kind) = {}
  BY DEF At
<1>10. \A e \in Ends : InFlight(e) = <<>> /\ InFlight(Other(e)) = <<>>
  BY <1>1, <1>2, <1>3, TwoEnds DEF InFlight
<1>11. OneHandleAtATime
  BY <1>2, <1>3, <1>9, <1>10 DEF OneHandleAtATime
<1>12. Flow(<<>>, <<>>, TRUE, <<>>, TRUE, 0, 0)
  <2>1. InOrder(<<>>, 0) /\ Numbers(<<>>) = {} /\ 0 + 1 .. 0 = {} /\ 0 - 0 = 0
    BY DEF InOrder, Numbers
  <2> QED
    BY <1>1, <2>1 DEF Flow
<1>13. \A e \in Ends : FlowOf(e)
  <2> TAKE e \in Ends
  <2>1. Other(e) \in Ends
    BY TwoEnds
  <2> QED
    BY <1>1, <1>2, <1>3, <1>12, <2>1 DEF FlowOf
<1> QED
  BY <1>7, <1>8, <1>11, <1>13 DEF IInv

\* Every action keeps the invariant.
LEMMA StepHolds == IInv /\ [Next]_vars => IInv'
<1> SUFFICES ASSUME IInv, [Next]_vars PROVE IInv'
  OBVIOUS
<1>1. TypeOK /\ ChunkRead
  BY DEF IInv
<1>2. CASE UNCHANGED vars
  <2>1. end' = end /\ wire' = wire /\ sent' = sent /\ got' = got
    BY <1>2 DEF vars
  <2>2. TypeOK' /\ ChunkRead'
    BY <1>1, <2>1 DEF TypeOK, ThreeStates, ChunkRead
  <2>3. \A e \in Ends : InFlight(e)' = InFlight(e) /\ InFlight(Other(e))' = InFlight(Other(e))
    BY <2>1 DEF InFlight
  <2>4. OneHandleAtATime'
    BY <2>1, <2>3 DEF IInv, OneHandleAtATime, Alive, At
  <2>5. \A e \in Ends : FlowOf(e)'
    BY <2>1 DEF IInv, FlowOf
  <2> QED
    BY <2>2, <2>4, <2>5 DEF IInv
<1>3. ASSUME NEW e \in Ends, Send(e) PROVE IInv'
  BY <1>3, SendKeeps
<1>4. ASSUME NEW e \in Ends, Disconnect(e) PROVE IInv'
  BY <1>1, <1>4, DisconnectDoes, QuietKeeps
<1>5. ASSUME NEW e \in Ends, Crash(e) PROVE IInv'
  BY <1>5, DiesKeeps DEF Crash
<1>6. ASSUME NEW e \in Ends, RunTick(e) PROVE IInv'
  BY <1>1, <1>6, RunTickDoes, QuietKeeps
<1>7. ASSUME NEW e \in Ends, Read(e) PROVE IInv'
  BY <1>7, ReadKeeps
<1>8. ASSUME NEW e \in Ends, OnMessage(e) PROVE IInv'
  BY <1>8, OnMessageKeeps
<1>9. ASSUME NEW e \in Ends, OnHandle(e) PROVE IInv'
  BY <1>9, OnHandleKeeps
<1>10. ASSUME NEW e \in Ends, OnHandleAsserts(e) PROVE IInv'
  BY <1>10, DiesKeeps DEF OnHandleAsserts
<1>11. ASSUME NEW e \in Ends, OnAck(e) PROVE IInv'
  BY <1>11, OnAckKeeps
<1>12. ASSUME NEW e \in Ends, ChunkDone(e) PROVE IInv'
  BY <1>1, <1>12, ChunkDoneDoes, QuietKeeps
<1>13. ASSUME NEW e \in Ends, Eof(e) PROVE IInv'
  BY <1>1, <1>13, EofDoes, QuietKeeps
<1> QED
  BY <1>2, <1>3, <1>4, <1>5, <1>6, <1>7, <1>8, <1>9, <1>10, <1>11, <1>12, <1>13
     DEF Next, Step

\* The invariant holds in every reachable state.
THEOREM IInvHolds == Spec => []IInv
<1>1. Init => IInv
  BY InitHolds
<1>2. IInv /\ [Next]_vars => IInv'
  BY StepHolds
<1> QED
  BY <1>1, <1>2, PTL DEF Spec

\* The types, and the three states of a target.
THEOREM TypeCorrect == Spec => []TypeOK
<1>1. IInv => TypeOK
  BY DEF IInv
<1> QED
  BY <1>1, IInvHolds, PTL

\* The assertions of the channel hold, whatever is read in one chunk and whoever
\* disconnects or dies: at most one handle is unacknowledged in each direction.
THEOREM OneHandle == Spec => []OneHandleAtATime
<1>1. IInv => OneHandleAtATime
  BY DEF IInv
<1> QED
  BY <1>1, IInvHolds, PTL

\* A step of the channel is a step of the two queues, or none.
LEMMA StepRefines == IInv /\ [Next]_vars => [Fifo!Next]_(Fifo!vars)
<1> DEFINE count == [e \in Ends |-> Len(sent[e])]
           connected == [e \in Ends |-> end[e].connected]
<1>0. /\ count = [e \in Ends |-> Len(sent[e])]
      /\ connected = [e \in Ends |-> end[e].connected]
      /\ count' = [e \in Ends |-> Len(sent'[e])]
      /\ connected' = [e \in Ends |-> end'[e].connected]
  OBVIOUS
<1> SUFFICES ASSUME IInv, [Next]_vars
             PROVE  \/ \E e \in Ends : Fifo!Accept(e) \/ Fifo!Deliver(e) \/ Fifo!Disconnect(e)
                    \/ count' = count /\ got' = got /\ connected' = connected
  BY <1>0 DEF Fifo!Next, Fifo!vars
<1>1. TypeOK /\ ChunkRead
  BY DEF IInv
<1>2. CASE UNCHANGED vars
  BY <1>2 DEF vars
<1>3. ASSUME NEW e \in Ends, Send(e) PROVE Fifo!Accept(e)
  <2>1. /\ Others(e) /\ got' = got /\ end[e].connected /\ end'[e].connected
        /\ \E handle \in BOOLEAN : sent' = [sent EXCEPT ![e] = Append(sent[e], handle)]
    BY <1>1, <1>3, SendDoes
  <2>2. connected[e] /\ connected' = connected
    <3>1. end[e].connected = TRUE /\ end'[e].connected = TRUE
      BY <1>1, <1>3, <2>1, SendDoes DEF TypeOK, EndStates
    <3> QED
      BY <2>1, <3>1 DEF Others
  <2>3. count' = [count EXCEPT ![e] = @ + 1]
    <3>1. PICK handle \in BOOLEAN : sent' = [sent EXCEPT ![e] = Append(sent[e], handle)]
      BY <2>1
    <3>2. sent \in [Ends -> Seq(BOOLEAN)]
      BY <1>1 DEF TypeOK
    <3>3. Len(sent'[e]) = Len(sent[e]) + 1
      BY <3>1, <3>2
    <3>4. \A x \in Ends : x # e => sent'[x] = sent[x]
      BY <3>1, <3>2
    <3> QED
      BY <3>3, <3>4
  <2> QED
    BY <1>0, <2>1, <2>2, <2>3 DEF Fifo!Accept
<1>4. ASSUME NEW e \in Ends, Quiet(e)
      PROVE  Fifo!Disconnect(e) \/ (count' = count /\ got' = got /\ connected' = connected)
  <2>1. /\ Others(e) /\ sent' = sent /\ got' = got
        /\ end'[e].connected \in {end[e].connected, FALSE}
    BY <1>4 DEF Quiet
  <2>2. \A x \in Ends : x # e => end'[x].connected = end[x].connected
    BY <2>1 DEF Others
  <2>3. CASE end'[e].connected = end[e].connected
    <3>1. connected' = connected /\ count' = count
      BY <2>1, <2>2, <2>3
    <3> QED
      BY <2>1, <3>1
  <2>4. CASE end'[e].connected = FALSE
    <3>1. connected' = [connected EXCEPT ![e] = FALSE] /\ count' = count
      BY <2>1, <2>2, <2>4
    <3> QED
      BY <1>0, <2>1, <3>1 DEF Fifo!Disconnect
  <2> QED
    BY <2>1, <2>3, <2>4
<1>5. ASSUME NEW e \in Ends, Dies(e) PROVE Fifo!Disconnect(e)
  <2>1. /\ Others(e) /\ sent' = sent /\ got' = got /\ end'[e].connected = FALSE
    BY <1>1, <1>5, DiesDoes
  <2>2. \A x \in Ends : x # e => end'[x].connected = end[x].connected
    BY <2>1 DEF Others
  <2>3. connected' = [connected EXCEPT ![e] = FALSE] /\ count' = count
    BY <2>1, <2>2
  <2> QED
    BY <1>0, <2>1, <2>3 DEF Fifo!Disconnect
<1>6. ASSUME NEW e \in Ends, Others(e), sent' = sent, end'[e].connected = end[e].connected
      PROVE  connected' = connected /\ count' = count
  <2>1. \A x \in Ends : end'[x].connected = end[x].connected
    BY <1>6 DEF Others
  <2> QED
    BY <1>6, <2>1
<1>7. ASSUME NEW e \in Ends, Delivery(e), connected' = connected, count' = count,
             Head(end[e].chunk).n = Len(got[e]) + 1, Len(got[e]) < Len(sent[Other(e)])
      PROVE  Fifo!Deliver(e)
  <2>1. Other(e) \in Ends \ {e} /\ Len(got[e]) < count[Other(e)]
    BY <1>7, TwoEnds
  <2>2. got' = [got EXCEPT ![e] = Append(@, Len(@) + 1)]
    BY <1>7 DEF Delivery
  <2> QED
    BY <1>0, <1>7, <2>1, <2>2 DEF Fifo!Deliver
<1>8. ASSUME NEW e \in Ends, OnMessage(e) PROVE Fifo!Deliver(e)
  <2>1. Others(e) /\ sent' = sent /\ end'[e].connected = end[e].connected /\ Delivery(e)
    BY <1>1, <1>8, OnMessageDoes
  <2>2. Head(end[e].chunk).n = Len(got[e]) + 1 /\ Len(got[e]) < Len(sent[Other(e)])
    BY <1>8, OnMessageKeeps
  <2> QED
    BY <1>6, <1>7, <2>1, <2>2
<1>9. ASSUME NEW e \in Ends, OnHandle(e) PROVE Fifo!Deliver(e)
  <2>1. Others(e) /\ sent' = sent /\ end'[e].connected = end[e].connected /\ Delivery(e)
    BY <1>1, <1>9, OnHandleDoes
  <2>2. Head(end[e].chunk).n = Len(got[e]) + 1 /\ Len(got[e]) < Len(sent[Other(e)])
    BY <1>9, OnHandleKeeps
  <2> QED
    BY <1>6, <1>7, <2>1, <2>2
<1>10. ASSUME NEW e \in Ends, Read(e)
       PROVE  count' = count /\ got' = got /\ connected' = connected
  <2>1. Others(e) /\ sent' = sent /\ end'[e].connected = end[e].connected /\ got' = got
    BY <1>1, <1>10, ReadDoes
  <2> QED
    BY <1>6, <2>1
<1>11. ASSUME NEW e \in Ends, OnAck(e)
       PROVE  count' = count /\ got' = got /\ connected' = connected
  <2>1. Others(e) /\ sent' = sent /\ end'[e].connected = end[e].connected /\ got' = got
    BY <1>1, <1>11, AckAwaited, OnAckDoes
  <2> QED
    BY <1>6, <2>1
<1> HIDE DEF count, connected
<1>12. ASSUME NEW e \in Ends, Disconnect(e) \/ RunTick(e) \/ ChunkDone(e) \/ Eof(e)
       PROVE  Quiet(e)
  BY <1>1, <1>12, DisconnectDoes, RunTickDoes, ChunkDoneDoes, EofDoes
<1>13. ASSUME NEW e \in Ends, Crash(e) \/ OnHandleAsserts(e)
       PROVE  Dies(e)
  BY <1>13 DEF Crash, OnHandleAsserts
<1> QED
  BY <1>2, <1>3, <1>4, <1>5, <1>8, <1>9, <1>10, <1>11, <1>12, <1>13 DEF Next, Step

\* The channel implements the two queues: messages are delivered at most once and
\* in the order of the calls to send(), and none is accepted after disconnect().
THEOREM Implements == Spec => IsFifo
<1>1. Init => Fifo!Init
  <2> SUFFICES ASSUME Init PROVE Fifo!Init
    OBVIOUS
  <2>1. Len(<<>>) = 0
    OBVIOUS
  <2>2. \A e \in Ends : sent[e] = <<>> /\ end[e].connected = TRUE
    BY DEF Init, NewEnd
  <2>3. got = [e \in Ends |-> <<>>]
    BY DEF Init
  <2> QED
    BY <2>1, <2>2, <2>3 DEF Fifo!Init
<1>2. IInv /\ [Next]_vars => [Fifo!Next]_(Fifo!vars)
  BY StepRefines
<1> QED
  BY <1>1, <1>2, IInvHolds, PTL DEF Spec, IsFifo, Fifo!Spec

=============================================================================
