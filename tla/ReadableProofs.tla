--------------------------- MODULE ReadableProofs ---------------------------
(***************************************************************************)
(* Proofs about Readable: TypeOK, InOrder (each reader gets the bytes      *)
(* pushed, in order), EndLast ('end' comes after the last byte), and what  *)
(* awaitDrain counts: WritersAwaited and DrainAwaited.                     *)
(*                                                                         *)
(* The invariant says of the call stack where bytes are on their way.  A   *)
(* read() that has called _read finds, when it goes on, at least the bytes *)
(* that it counted (Reads).  A chunk that some destination has yet to get  *)
(* is the end of what was taken, and its 'data' is on top of the stack, or *)
(* below one handler of the user's (Told).                                 *)
(*                                                                         *)
(* The predicates of the invariant have the stream and the other variables *)
(* as parameters, since the functions of the source take a stream to a     *)
(* stream: ...Goes is a lemma about a function, ...Keeps about an action.  *)
(* A second invariant, DrainInv, is about the destinations that a source   *)
(* waits for; its lemmas are ...Stays and ...Drains.                       *)
(***************************************************************************)
EXTENDS Readable, SequenceLemmas, TLAPS

-----------------------------------------------------------------------------
(* The types. *)

\* Items of the stack and of the tick queue, when the stream has or has not ended.
Items(ended) ==
  {item \in [k : Kinds, orig : Nat \cup {All}, n : Nat, to : Seq(Dests \cup {User}),
             chunk : Seq(Nat)] :
     /\ item.k = "end" => ended
     /\ item.k = "cleanup" => item.to # <<>>}

TickKinds == {"read0", "readable", "more", "resume", "end", "endLate"}
Ticks(ended) == {item \in Items(ended) : item.k \in TickKinds}

\* What the high-water mark can be (its value plays no part here).
Marks == Nat \cup {RoundUpToNextPowerOf2(n) : n \in Nat}

Streams ==
  [eager : BOOLEAN, buffer : Seq(Seq(Nat)), length : Nat, highWaterMark : Marks,
   flowing : {"null", "true", "false"}, ended : BOOLEAN, endEmitted : BOOLEAN,
   reading : BOOLEAN, sync : BOOLEAN, needReadable : BOOLEAN, emittedReadable : BOOLEAN,
   readingMore : BOOLEAN, resumeScheduled : BOOLEAN, awaitDrain : Nat, pipes : Seq(Dests),
   wanted : BOOLEAN, waits : BOOLEAN, todo : Seq(Items(TRUE)), ticks : Seq(Items(TRUE))]

Typed(m) == m \in Streams /\ m.todo \in Seq(Items(m.ended)) /\ m.ticks \in Seq(Ticks(m.ended))

-----------------------------------------------------------------------------
(* The invariant. *)

Numbers(n) == [i \in 1 .. n |-> i]

\* What was taken and what is buffered are the bytes pushed.
Bytes(m, p, t) ==
  /\ p \in Nat /\ t \in Seq(Nat)
  /\ t \o FlattenSeq(m.buffer) = Numbers(p)
  /\ m.length = Len(FlattenSeq(m.buffer))

\* The stream ends after its last chunk, and 'end' finds it empty.
Ending(m, c) ==
  /\ c \in 0 .. MaxChunks
  /\ m.ended => c = MaxChunks
  /\ m.endEmitted => m.ended /\ m.length = 0

\* Nothing but a push() runs above the body of _read, which is sync; and nothing but
\* these above a read() that has called it, or is about to return.  Hence there is
\* still what that read() has counted.
Reads(m) ==
  \A i \in 1 .. Len(m.todo) :
    /\ m.todo[i].k = "body" =>
         m.sync /\ \A j \in 1 .. i - 1 : m.todo[j].k \in {"pushed", "pushMore"}
    /\ m.todo[i].k \in {"afterRead", "rest"} =>
         /\ m.todo[i].n <= m.length
         /\ \A j \in 1 .. i - 1 : m.todo[j].k \in {"body", "pushed", "pushMore"}

\* 'end' runs alone, and no 'data' after it.
EndLone(m) ==
  /\ \A i \in 1 .. Len(m.todo) : m.todo[i].k = "end" => Len(m.todo) = 1
  /\ m.endEmitted => \A i \in 1 .. Len(m.todo) : m.todo[i].k # "data"

Core(m, c, p, t) == Typed(m) /\ Bytes(m, p, t) /\ Ending(m, c) /\ Reads(m)

\* The other variables.
Around(ls, h) ==
  ls \in Seq(Dests \cup {User}) /\ IsInjective(ls) /\ h \in [Dests -> Nat]

\* A destination that has yet to get the chunk of a 'data'.
DueTo(item, d) == item.k = "data" /\ d \in ToSet(item.to)
Pending(item) == \E d \in Dests : DueTo(item, d)

\* What each destination was given, and has yet to get, is in order.
Given(t, g) ==
  \A d \in Dests :
    /\ g[d] \in Seq(Nat)
    /\ \A i \in 1 .. Len(g[d]) : g[d][i] \in 1 .. Len(t)
    /\ \A i, j \in 1 .. Len(g[d]) : i < j => g[d][i] < g[d][j]

Due(item, t, g) ==
  LET before == Len(t) - Len(item.chunk)
  IN /\ IsInjective(item.to)
     /\ item.chunk # <<>> /\ before \in Nat
     /\ \A i \in 1 .. Len(item.chunk) : item.chunk[i] = before + i
     /\ \A d \in Dests : DueTo(item, d) => \A i \in 1 .. Len(g[d]) : g[d][i] <= before

OnTop(i, todo) == i = 1 \/ (i = 2 /\ todo[1].k = "user")

\* A destination that was piped to all along has all that was taken, but for the
\* chunk it has yet to get.
HasAll(d, todo, t, g) ==
  /\ \A i \in 1 .. Len(todo) : DueTo(todo[i], d) => g[d] \o todo[i].chunk = t
  /\ (\A i \in 1 .. Len(todo) : ~DueTo(todo[i], d)) => g[d] = t

Told(todo, t, g, ls, st) ==
  /\ g \in [Dests -> Seq(Nat)] /\ Given(t, g)
  /\ \A i \in 1 .. Len(todo) : Pending(todo[i]) => OnTop(i, todo) /\ Due(todo[i], t, g)
  /\ st \subseteq Dests
  /\ \A d \in st : d \in ToSet(ls) /\ HasAll(d, todo, t, g)

Inv ==
  /\ Core(state, chunks, pushed, taken)
  /\ EndLone(state)
  /\ Around(listeners, held)
  /\ ~Barge => Told(state.todo, taken, got, listeners, steady)

-----------------------------------------------------------------------------
(* Bytes in a buffer. *)

Buffers == Seq(Seq(Nat))

\* A sequence, in two parts and in three.
LEMMA TwoParts ==
  ASSUME NEW S, NEW s \in Seq(S), NEW n \in 0 .. Len(s)
  PROVE  /\ s = SubSeq(s, 1, n) \o SubSeq(s, n + 1, Len(s))
         /\ SubSeq(s, 1, n) \in Seq(S) /\ SubSeq(s, n + 1, Len(s)) \in Seq(S)
         /\ Len(SubSeq(s, 1, n)) = n
<1> DEFINE a == SubSeq(s, 1, n)
           b == SubSeq(s, n + 1, Len(s))
<1>1. /\ a \in Seq(S) /\ Len(a) = n /\ \A i \in 1 .. n : a[i] = s[i]
      /\ b \in Seq(S) /\ Len(b) = Len(s) - n /\ \A i \in 1 .. Len(s) - n : b[i] = s[n + i]
  OBVIOUS
<1> HIDE DEF a, b
<1>2. /\ a \o b \in Seq(S) /\ Len(a \o b) = Len(a) + Len(b)
      /\ \A i \in 1 .. Len(a) + Len(b) : (a \o b)[i] = IF i <= Len(a) THEN a[i] ELSE b[i - Len(a)]
  BY <1>1, ConcatProperties
<1> DEFINE c == a \o b
<1> HIDE DEF c
<1>3. c \in Seq(S) /\ Len(c) = Len(s) /\ \A i \in 1 .. Len(s) : c[i] = IF i <= n THEN a[i] ELSE b[i - n]
  BY <1>1, <1>2 DEF c
<1>4. \A i \in 1 .. Len(s) : c[i] = s[i]
  BY <1>1, <1>3
<1>5. c = s
  BY <1>3, <1>4, SeqEqual
<1> QED
  BY <1>1, <1>5 DEF c, a, b

\* The parts of a concatenation.
LEMMA Halves ==
  ASSUME NEW S, NEW s \in Seq(S), NEW t \in Seq(S)
  PROVE  /\ SubSeq(s \o t, 1, Len(s)) = s
         /\ \A n \in 0 .. Len(s) : SubSeq(s \o t, 1, n) = SubSeq(s, 1, n)
<1> DEFINE c == s \o t
<1>1. c \in Seq(S) /\ Len(c) = Len(s) + Len(t) /\ \A i \in 1 .. Len(s) : c[i] = s[i]
  BY ConcatProperties
<1> HIDE DEF c
<1>2. ASSUME NEW n \in 0 .. Len(s)
      PROVE  SubSeq(c, 1, n) = SubSeq(s, 1, n)
  <2> DEFINE a == SubSeq(c, 1, n)
             b == SubSeq(s, 1, n)
  <2>1. a \in Seq(S) /\ Len(a) = n /\ \A i \in 1 .. n : a[i] = c[i]
    BY <1>1
  <2>2. b \in Seq(S) /\ Len(b) = n /\ \A i \in 1 .. n : b[i] = s[i]
    OBVIOUS
  <2> HIDE DEF a, b
  <2>3. a = b
    BY <1>1, <2>1, <2>2, SeqEqual, SMTT(60)
  <2> QED
    BY <2>3 DEF a, b
<1>3. SubSeq(s, 1, Len(s)) = s /\ Len(s) \in 0 .. Len(s)
  OBVIOUS
<1> QED
  BY <1>2, <1>3 DEF c

\* A chunk of the buffer, and what is before and after it.
LEMMA AroundChunk ==
  ASSUME NEW buffer \in Buffers, NEW k \in 1 .. Len(buffer)
  PROVE  /\ FlattenSeq(buffer) = (Before(buffer, k - 1) \o buffer[k])
                                   \o FlattenSeq(SubSeq(buffer, k + 1, Len(buffer)))
         /\ Before(buffer, k) = Before(buffer, k - 1) \o buffer[k]
         /\ Before(buffer, k - 1) \in Seq(Nat) /\ buffer[k] \in Seq(Nat)
         /\ SubSeq(buffer, k + 1, Len(buffer)) \in Buffers
         /\ FlattenSeq(SubSeq(buffer, k + 1, Len(buffer))) \in Seq(Nat)
<1> DEFINE a == SubSeq(buffer, 1, k - 1)
           b == SubSeq(buffer, 1, k)
           c == SubSeq(buffer, k + 1, Len(buffer))
<1>1. /\ b = Append(a, buffer[k]) /\ a \in Seq(Seq(Nat)) /\ buffer[k] \in Seq(Nat)
      /\ buffer = b \o c /\ b \in Seq(Seq(Nat)) /\ c \in Seq(Seq(Nat))
  <2> PICK Q : Q = Seq(Nat)
    OBVIOUS
  <2>1. buffer \in Seq(Q)
    BY DEF Buffers
  <2>2. b = Append(a, buffer[k]) /\ a \in Seq(Q) /\ buffer[k] \in Q
    BY <2>1, BeginningStep
  <2>3. k \in 0 .. Len(buffer)
    BY <2>1
  <2>4. buffer = b \o c /\ b \in Seq(Q) /\ c \in Seq(Q)
    BY <2>1, <2>3, TwoParts
  <2> QED
    BY <2>2, <2>4
<1> HIDE DEF a, b, c
<1>2. FlattenSeq(b) = FlattenSeq(a) \o buffer[k] /\ FlattenSeq(a) \in Seq(Nat)
  BY <1>1, FlattenAppend
<1>3. FlattenSeq(b \o c) = FlattenSeq(b) \o FlattenSeq(c) /\ FlattenSeq(c) \in Seq(Nat)
  BY <1>1, FlattenConcat
<1> QED
  BY <1>1, <1>2, <1>3 DEF Before, Buffers, a, b, c

\* fromList takes the first bytes, and leaves the others.
LEMMA FromListTakes ==
  ASSUME NEW m, m.buffer \in Buffers, m.length = Len(FlattenSeq(m.buffer)),
         NEW n \in 0 .. m.length
  PROVE  /\ FromList(n, m) \in Seq(Nat) /\ Len(FromList(n, m)) = n
         /\ Kept(n, m) \in Buffers
         /\ FlattenSeq(m.buffer) = FromList(n, m) \o FlattenSeq(Kept(n, m))
         /\ Len(FlattenSeq(Kept(n, m))) = m.length - n
<1> DEFINE buffer == m.buffer
           all == FlattenSeq(buffer)
<1>1. all \in Seq(Nat) /\ Len(all) \in Nat /\ m.length = Len(all)
  BY FlattenConcat DEF Buffers
<1>2. CASE n = m.length
  <2>1. Kept(n, m) = <<>> /\ FlattenSeq(<<>>) = <<>> /\ <<>> \in Buffers
    BY <1>1, <1>2, FlattenNone DEF Kept, Buffers
  <2>2. FromList(n, m) = all
    <3>1. CASE n = 0
      <4>1. all = <<>>
        <5> HIDE DEF all
        <5> QED
          BY <1>1, <1>2, <3>1, EmptySeq
      <4> QED
        BY <4>1, <3>1 DEF FromList
    <3>2. CASE n # 0
      BY <1>1, <1>2, <3>2 DEF FromList
    <3> QED
      BY <3>1, <3>2
  <2>3. all \o <<>> = all /\ Len(<<>>) = 0
    BY <1>1, ConcatEmptySeq
  <2> QED
    BY <1>1, <1>2, <2>1, <2>2, <2>3
<1>3. CASE n < m.length
  <2> DEFINE C == {k \in 1 .. Len(buffer) : Len(Before(buffer, k)) > n}
             k == Cut(n, buffer)
             a == Before(buffer, k - 1)
             chunk == buffer[k]
             c == FlattenSeq(SubSeq(buffer, k + 1, Len(buffer)))
             over == n - Len(a)
             x == SubSeq(chunk, 1, over)
             y == SubSeq(chunk, over + 1, Len(chunk))
  <2>1. Len(buffer) \in Nat /\ buffer # <<>> /\ Before(buffer, Len(buffer)) = all
    <3>1. SubSeq(buffer, 1, Len(buffer)) = buffer
      BY DEF Buffers
    <3>2. FlattenSeq(<<>>) = <<>> /\ Len(<<>>) = 0
      BY FlattenNone
    <3>3. buffer # <<>>
      BY <1>1, <1>3, <3>2
    <3>4. Len(buffer) \in Nat
      BY DEF Buffers
    <3> QED
      BY <3>1, <3>3, <3>4 DEF Before
  <2>2. Len(buffer) \in C
    BY <1>1, <1>3, <2>1 DEF Buffers
  <2>3. k \in C /\ \A j \in C : k =< j
    <3>1. C \in SUBSET Nat /\ C # {}
      BY <2>2
    <3>2. k = Min(C)
      BY DEF Cut
    <3> QED
      BY <3>1, <3>2, LeastNumber
  <2>4. k \in 1 .. Len(buffer) /\ Len(Before(buffer, k)) > n
    BY <2>3
  <2> HIDE DEF k
  <2>5. /\ all = (a \o chunk) \o c /\ Before(buffer, k) = a \o chunk
        /\ a \in Seq(Nat) /\ chunk \in Seq(Nat) /\ c \in Seq(Nat)
        /\ SubSeq(buffer, k + 1, Len(buffer)) \in Buffers
    BY <2>4, AroundChunk
  <2>6. Len(a) <= n
    <3>1. CASE k = 1
      <4>1. SubSeq(buffer, 1, 0) = <<>>
        OBVIOUS
      <4>2. a = <<>>
        <5>1. k - 1 = 0
          BY <3>1
        <5> QED
          BY <4>1, <5>1, FlattenNone DEF Before
      <4> QED
        BY <1>1, <4>2
    <3>2. CASE k # 1
      <4>1. k - 1 \in 1 .. Len(buffer) /\ k - 1 \notin C
        BY <2>1, <2>3, <2>4, <3>2
      <4>2. Len(a) \in Nat
        BY <2>5
      <4> QED
        BY <4>1, <4>2
    <3> QED
      BY <3>1, <3>2
  <2> HIDE DEF C, a, c, all
  <2>7. /\ Len(a) \in Nat /\ Len(chunk) \in Nat /\ Len(c) \in Nat
        /\ Len(a \o chunk) = Len(a) + Len(chunk) /\ over \in 0 .. Len(chunk)
    BY <2>4, <2>5, <2>6
  <2>8. chunk = x \o y /\ x \in Seq(Nat) /\ y \in Seq(Nat) /\ Len(x) = over
    BY <2>5, <2>7, TwoParts
  <2>9. Kept(n, m) = <<y>> \o SubSeq(buffer, k + 1, Len(buffer))
    <3>1. ~(n >= m.length)
      BY <1>1, <1>3
    <3> QED
      BY <3>1 DEF Kept, k, a
  <2>10. Kept(n, m) \in Buffers /\ FlattenSeq(Kept(n, m)) = y \o c
    <3> DEFINE first == <<y>>
               rest == SubSeq(buffer, k + 1, Len(buffer))
    <3>1. first \in Seq(Seq(Nat)) /\ FlattenSeq(first) = y
      <4> PICK Q : Q = Seq(Nat)
        OBVIOUS
      <4>1. y \in Q
        BY <2>8
      <4>2. <<y>> \in Seq(Q)
        BY <4>1
      <4>3. FlattenSeq(<<y>>) = y
        BY <2>8, FlattenOne
      <4> QED
        BY <4>2, <4>3
    <3>2. rest \in Seq(Seq(Nat)) /\ FlattenSeq(rest) = c
      BY <2>5 DEF Buffers, c
    <3> HIDE DEF first, rest
    <3>3. FlattenSeq(first \o rest) = FlattenSeq(first) \o FlattenSeq(rest)
      BY <3>1, <3>2, FlattenConcat
    <3>4. first \o rest \in Seq(Seq(Nat))
      <4> PICK Q : Q = Seq(Nat)
        OBVIOUS
      <4> QED
        BY <3>1, <3>2
    <3> QED
      BY <2>9, <3>1, <3>2, <3>3, <3>4 DEF Buffers, first, rest
  <2> HIDE DEF x, y, chunk
  <2>11. all = (a \o x) \o (y \o c) /\ a \o x \in Seq(Nat) /\ Len(a \o x) = n
         /\ y \o c \in Seq(Nat) /\ Len(all) = n + Len(y \o c)
    <3>1. \A p, q, r \in Seq(Nat) : (p \o q) \o r = p \o (q \o r)
      BY ConcatAssociative
    <3>2. \A p, q \in Seq(Nat) : p \o q \in Seq(Nat) /\ Len(p \o q) = Len(p) + Len(q)
      OBVIOUS
    <3>3. all = ((a \o x) \o y) \o c
      BY <2>5, <2>8, <3>1
    <3>4. a \o x \in Seq(Nat) /\ Len(a \o x) = n /\ y \o c \in Seq(Nat)
      BY <2>5, <2>7, <2>8, <3>2
    <3>5. all = (a \o x) \o (y \o c)
      <4> PICK z : z = a \o x
        OBVIOUS
      <4>1. z \in Seq(Nat) /\ all = (z \o y) \o c
        BY <3>3, <3>4
      <4>2. (z \o y) \o c = z \o (y \o c)
        BY <2>5, <2>8, <3>1, <4>1
      <4> QED
        BY <4>1, <4>2
    <3> QED
      BY <3>2, <3>4, <3>5
  <2> DEFINE s == a \o x
             t == y \o c
  <2> HIDE DEF s, t
  <2>12. all = s \o t /\ s \in Seq(Nat) /\ t \in Seq(Nat) /\ Len(s) = n
    BY <2>11 DEF s, t
  <2>13. FromList(n, m) = s
    <3>1. SubSeq(all, 1, n) = s /\ SubSeq(all, 1, 0) = <<>>
      BY <1>1, <2>12, Halves
    <3>2. n = 0 => s = <<>>
      BY <2>12
    <3> QED
      BY <1>3, <3>1, <3>2 DEF FromList, all
  <2> QED
    BY <1>1, <2>10, <2>11, <2>12, <2>13 DEF all, s, t
<1> QED
  BY <1>1, <1>2, <1>3

\* The first chunk is not longer than the buffer.
LEMMA FirstChunk ==
  ASSUME NEW buffer \in Buffers, buffer # <<>>
  PROVE  Len(buffer[1]) \in 0 .. Len(FlattenSeq(buffer))
<1>1. 1 \in 1 .. Len(buffer) /\ 1 - 1 = 0 /\ 1 + 1 = 2
  BY DEF Buffers
<1>2. /\ FlattenSeq(buffer) = (Before(buffer, 0) \o buffer[1]) \o FlattenSeq(SubSeq(buffer, 2, Len(buffer)))
      /\ Before(buffer, 0) \in Seq(Nat) /\ buffer[1] \in Seq(Nat)
      /\ FlattenSeq(SubSeq(buffer, 2, Len(buffer))) \in Seq(Nat)
  BY <1>1, AroundChunk
<1>3. \A p, q \in Seq(Nat) : p \o q \in Seq(Nat) /\ Len(p \o q) = Len(p) + Len(q) /\ Len(p) \in Nat
  OBVIOUS
<1> PICK p, q, r : p = Before(buffer, 0) /\ q = buffer[1] /\ r = FlattenSeq(SubSeq(buffer, 2, Len(buffer)))
  OBVIOUS
<1>4. Len(FlattenSeq(buffer)) = (Len(p) + Len(q)) + Len(r) /\ Len(p) \in Nat /\ Len(q) \in Nat /\ Len(r) \in Nat
  BY <1>2, <1>3
<1> DEFINE all == Len(FlattenSeq(buffer))
<1> HIDE DEF all
<1>5. all = (Len(p) + Len(q)) + Len(r)
  BY <1>4 DEF all
<1>6. Len(q) \in 0 .. all
  <2>1. \A i, j, k \in Nat : j \in 0 .. (i + j) + k
    OBVIOUS
  <2> QED
    BY <1>4, <1>5, <2>1
<1> QED
  BY <1>6 DEF all

\* An empty buffer holds no bytes.
LEMMA Flattened ==
  ASSUME NEW buffer \in Buffers
  PROVE  /\ FlattenSeq(buffer) \in Seq(Nat) /\ Len(FlattenSeq(buffer)) \in Nat
         /\ Len(FlattenSeq(buffer)) = 0 => FlattenSeq(buffer) = <<>>
<1>1. FlattenSeq(buffer) \in Seq(Nat)
  BY FlattenConcat DEF Buffers
<1> DEFINE s == FlattenSeq(buffer)
<1> HIDE DEF s
<1>2. s \in Seq(Nat) => Len(s) \in Nat /\ (Len(s) = 0 => s = <<>>)
  OBVIOUS
<1> QED
  BY <1>1, <1>2 DEF s

-----------------------------------------------------------------------------
(* The call stack and the ticks. *)

\* Items that neither carry bytes nor have counted any, nor end the stream.
Counts == {"body", "afterRead", "rest"}
Plain(ended) == {item \in Items(ended) : item.k \notin Counts \cup {"data", "end"}}

\* A change of the stream that leaves its bytes alone.
SameData(m, k) ==
  k.buffer = m.buffer /\ k.length = m.length /\ k.ended = m.ended /\ k.endEmitted = m.endEmitted

\* ... and the stack too.
Aside(m, k) == Typed(k) /\ SameData(m, k) /\ k.todo = m.todo /\ k.sync = m.sync

\* ... and puts plain items on the stack, or takes some off.
Over(m, k) ==
  /\ Typed(k) /\ SameData(m, k)
  /\ \A i \in 1 .. Len(k.todo) :
       k.todo[i] \in Plain(m.ended) \/ \E j \in 1 .. Len(m.todo) : k.todo[i] = m.todo[j]

\* No read() is under way.
Calm(m) == \A i \in 1 .. Len(m.todo) : m.todo[i].k \notin Counts

\* New items.
LEMMA NewItem ==
  /\ \A e \in BOOLEAN : \A k \in Kinds \ {"end", "cleanup"} : Item(k) \in Items(e)
  /\ \A k \in {"read0", "readable", "more", "resume", "endLate"} : \A e \in BOOLEAN : Item(k) \in Ticks(e)
  /\ Item("end") \in Ticks(TRUE)
  /\ \A k : Item(k).k = k /\ Item(k).n = 0
<1>1. ASSUME NEW k \in Kinds
      PROVE  Item(k) \in [k : Kinds, orig : Nat \cup {All}, n : Nat, to : Seq(Dests \cup {User}),
                          chunk : Seq(Nat)]
  <2>1. <<>> \in Seq(Dests \cup {User}) /\ <<>> \in Seq(Nat)
    OBVIOUS
  <2> QED
    BY <2>1 DEF Item
<1>2. \A k : Item(k).k = k /\ Item(k).n = 0
  BY DEF Item
<1>3. {"end", "read0", "readable", "more", "resume", "endLate"} \subseteq Kinds
  BY DEF Kinds
<1> QED
  BY <1>1, <1>2, <1>3 DEF Items, Ticks, TickKinds

\* What may be on the stack before the end may be there after it.
LEMMA ItemsGrow ==
  ASSUME NEW e \in BOOLEAN, NEW f \in BOOLEAN, e => f
  PROVE  /\ Items(e) \subseteq Items(f) /\ Ticks(e) \subseteq Ticks(f)
         /\ Ticks(e) \subseteq Items(e) /\ Plain(e) \subseteq Items(e)
         /\ Seq(Items(e)) \subseteq Seq(Items(f)) /\ Seq(Ticks(e)) \subseteq Seq(Ticks(f))
         /\ Seq(Ticks(e)) \subseteq Seq(Items(e)) /\ Seq(Plain(e)) \subseteq Seq(Items(e))
<1>1. /\ Items(e) \subseteq Items(f) /\ Ticks(e) \subseteq Ticks(f)
      /\ Ticks(e) \subseteq Items(e) /\ Plain(e) \subseteq Items(e)
  BY DEF Items, Ticks, Plain
<1>2. \A S, T : S \subseteq T => Seq(S) \subseteq Seq(T)
  OBVIOUS
<1> QED
  BY <1>1, <1>2

\* The types of a stream.
LEMMA Fields ==
  ASSUME NEW m, Typed(m)
  PROVE  /\ m \in Streams /\ m.ended \in BOOLEAN /\ m.sync \in BOOLEAN /\ m.endEmitted \in BOOLEAN
         /\ m.length \in Nat /\ m.buffer \in Buffers /\ m.awaitDrain \in Nat
         /\ m.todo \in Seq(Items(m.ended)) /\ m.ticks \in Seq(Ticks(m.ended))
         /\ Len(m.todo) \in Nat /\ m.reading \in BOOLEAN
<1>1. m.todo \in Seq(Items(m.ended)) /\ m.ticks \in Seq(Ticks(m.ended)) /\ m \in Streams
  BY DEF Typed
<1>2. Len(m.todo) \in Nat
  BY <1>1
<1> QED
  BY <1>1, <1>2 DEF Streams, Buffers

\* Run and Later.
LEMMA RunTyped ==
  ASSUME NEW m, Typed(m), NEW items \in Seq(Items(m.ended))
  PROVE  Typed(Run(m, items)) /\ SameData(m, Run(m, items)) /\ Run(m, items).todo = items \o m.todo
         /\ Run(m, items).sync = m.sync /\ Run(m, items).ticks = m.ticks
<1> DEFINE k == Run(m, items)
           todo == items \o m.todo
<1>1. todo \in Seq(Items(m.ended))
  BY Fields
<1>2. todo \in Seq(Items(TRUE))
  BY <1>1, Fields, ItemsGrow
<1> HIDE DEF todo
<1>3. m \in Streams /\ k = [m EXCEPT !.todo = todo]
  BY Fields DEF Run, todo
<1>4. k \in Streams /\ k.todo = todo /\ k.ticks = m.ticks /\ k.sync = m.sync /\ SameData(m, k)
  BY <1>2, <1>3 DEF Streams, SameData
<1> QED
  BY <1>1, <1>4, Fields DEF Typed, SameData, todo

\* A tick that is queued leaves the stream as it is.
LEMMA LaterAside ==
  ASSUME NEW m, Typed(m), NEW item \in Ticks(m.ended)
  PROVE  Aside(m, Later(m, item))
<1> DEFINE k == Later(m, item)
           ticks == Append(m.ticks, item)
<1>1. ticks \in Seq(Ticks(m.ended))
  BY Fields
<1>2. ticks \in Seq(Items(TRUE))
  BY <1>1, Fields, ItemsGrow
<1> HIDE DEF ticks
<1>3. m \in Streams /\ k = [m EXCEPT !.ticks = ticks]
  BY Fields DEF Later, ticks
<1>4. k \in Streams /\ k.todo = m.todo /\ k.ticks = ticks /\ k.sync = m.sync /\ SameData(m, k)
  BY <1>2, <1>3 DEF Streams, SameData
<1> QED
  BY <1>1, <1>4, Fields DEF Typed, SameData, Aside

\* Changes of flags add up.
LEMMA AsideTransitive ==
  ASSUME NEW m, NEW k, NEW l, Aside(m, k), Aside(k, l)
  PROVE  Aside(m, l)
<1> QED
  BY DEF Aside, SameData

\* A change of flags is a change that leaves the bytes alone.
LEMMA AsideOver ==
  ASSUME NEW m, Typed(m), NEW k, Aside(m, k)
  PROVE  Over(m, k)
<1> QED
  BY DEF Aside, Over

\* Changes that leave the bytes alone add up.
LEMMA OverTransitive ==
  ASSUME NEW m, NEW k, NEW l, Over(m, k), Over(k, l)
  PROVE  Over(m, l)
<1> QED
  BY DEF Over, SameData

\* None of them starts a read().
LEMMA OverCalm ==
  ASSUME NEW m, NEW k, Calm(m), Over(m, k)
  PROVE  Calm(k)
<1> QED
  BY DEF Over, Calm, Plain

\* Plain items go on the stack: what was there is still there, below.
LEMMA RunOver ==
  ASSUME NEW m, Typed(m), NEW items \in Seq(Plain(m.ended))
  PROVE  Over(m, Run(m, items))
<1> DEFINE k == Run(m, items)
<1>1. items \in Seq(Items(m.ended)) /\ m.todo \in Seq(Items(m.ended))
  BY Fields, ItemsGrow
<1>2. Typed(k) /\ SameData(m, k) /\ k.todo = items \o m.todo
  BY <1>1, RunTyped
<1>3. ASSUME NEW i \in 1 .. Len(items \o m.todo)
      PROVE  \/ (items \o m.todo)[i] \in Plain(m.ended)
             \/ \E j \in 1 .. Len(m.todo) : (items \o m.todo)[i] = m.todo[j]
  <2>1. Len(items \o m.todo) = Len(items) + Len(m.todo) /\ Len(items) \in Nat /\ Len(m.todo) \in Nat
    BY <1>1
  <2>2. (items \o m.todo)[i] = IF i <= Len(items) THEN items[i] ELSE m.todo[i - Len(items)]
    BY <1>1, <2>1, ConcatProperties
  <2>3. i <= Len(items) => items[i] \in Plain(m.ended)
    BY <2>1
  <2>4. ~(i <= Len(items)) => i - Len(items) \in 1 .. Len(m.todo)
    BY <2>1
  <2> QED
    BY <2>2, <2>3, <2>4
<1> QED
  BY <1>2, <1>3 DEF Over

\* The top item comes off.
LEMMA PopTyped ==
  ASSUME NEW m, Typed(m), m.todo # <<>>
  PROVE  LET k == [m EXCEPT !.todo = Tail(m.todo)]
         IN /\ Over(m, k) /\ k.todo = Tail(m.todo) /\ k.sync = m.sync /\ k.ticks = m.ticks
            /\ Len(k.todo) = Len(m.todo) - 1
            /\ \A i \in 1 .. Len(k.todo) : i + 1 \in 1 .. Len(m.todo) /\ k.todo[i] = m.todo[i + 1]
<1> DEFINE todo == Tail(m.todo)
           k == [m EXCEPT !.todo = Tail(m.todo)]
<1>1. m.todo \in Seq(Items(m.ended)) /\ m \in Streams /\ Len(m.todo) \in Nat
  BY Fields
<1>2. todo \in Seq(Items(m.ended)) /\ Len(todo) = Len(m.todo) - 1
      /\ \A i \in 1 .. Len(todo) : i + 1 \in 1 .. Len(m.todo) /\ todo[i] = m.todo[i + 1]
  <2>1. /\ todo \in Seq(Items(m.ended)) /\ Len(todo) = Len(m.todo) - 1
        /\ \A i \in 1 .. Len(todo) : todo[i] = m.todo[i + 1]
    BY <1>1, HeadTailProperties
  <2>2. \A i \in 1 .. Len(m.todo) - 1 : i + 1 \in 1 .. Len(m.todo)
    BY <1>1
  <2> QED
    BY <2>1, <2>2
<1>3. todo \in Seq(Items(TRUE))
  BY <1>2, Fields, ItemsGrow
<1> HIDE DEF todo
<1>4. k = [m EXCEPT !.todo = todo]
  BY DEF todo
<1>5. k \in Streams /\ k.todo = todo /\ k.ticks = m.ticks /\ k.sync = m.sync /\ SameData(m, k)
  BY <1>1, <1>3, <1>4 DEF Streams, SameData
<1>6. Typed(k)
  BY <1>1, <1>2, <1>5, Fields DEF Typed, SameData
<1>7. \A i \in 1 .. Len(todo) : \E j \in 1 .. Len(m.todo) : todo[i] = m.todo[j]
  BY <1>2
<1>8. Over(m, k)
  BY <1>5, <1>6, <1>7 DEF Over
<1> QED
  BY <1>2, <1>5, <1>8 DEF todo

-----------------------------------------------------------------------------
(* The functions of the source. *)

\* A change of flags.
LEMMA FlagsAside ==
  ASSUME NEW m, Typed(m), NEW k \in Streams, SameData(m, k), k.todo = m.todo, k.ticks = m.ticks,
         k.sync = m.sync
  PROVE  Aside(m, k)
<1> QED
  BY DEF Aside, Typed, SameData

\* emitReadable: 'readable' runs at once or in a tick, or was emitted already; in a sync
\* stream it does not run at once.
LEMMA EmitReadableGoes ==
  ASSUME NEW m, Typed(m)
  PROVE  /\ Over(m, EmitReadable(m))
         /\ m.emittedReadable \/ m.sync => Aside(m, EmitReadable(m))
<1> DEFINE first == [m EXCEPT !.needReadable = FALSE, !.emittedReadable = TRUE]
<1>1. m \in Streams /\ m.ended \in BOOLEAN
  BY Fields
<1>2. Aside(m, first) /\ first.ended = m.ended
  <2>1. first \in Streams /\ SameData(m, first) /\ first.todo = m.todo /\ first.ticks = m.ticks
        /\ first.sync = m.sync /\ first.ended = m.ended
    BY <1>1 DEF Streams, SameData
  <2> QED
    BY <2>1, FlagsAside
<1> HIDE DEF first
<1>3. Item("readable") \in Ticks(first.ended) /\ Item("readable") \in Plain(first.ended)
  <2>1. Item("readable") \in Ticks(first.ended) /\ Item("readable").k = "readable"
    BY <1>1, <1>2, NewItem
  <2> QED
    BY <2>1 DEF Ticks, Plain, Counts
<1>4. Typed(first)
  BY <1>2 DEF Aside
<1>5. Aside(first, Later(first, Item("readable")))
  BY <1>3, <1>4, LaterAside
<1>6. Over(first, Run(first, <<Item("readable")>>))
  <2>1. <<Item("readable")>> \in Seq(Plain(first.ended))
    BY <1>3
  <2> QED
    BY <1>4, <2>1, RunOver
<1>7. m.emittedReadable \in BOOLEAN /\ m.sync \in BOOLEAN
  BY <1>1 DEF Streams
<1>8. CASE m.emittedReadable
  <2>1. EmitReadable(m) = first
    BY <1>8 DEF EmitReadable, first
  <2> QED
    BY <1>2, <2>1, AsideOver
<1>9. CASE ~m.emittedReadable /\ m.sync
  <2>1. EmitReadable(m) = Later(first, Item("readable"))
    BY <1>9 DEF EmitReadable, first
  <2>2. Aside(m, EmitReadable(m))
    BY <1>2, <1>5, <2>1, AsideTransitive
  <2> QED
    BY <2>2, AsideOver
<1>10. CASE ~m.emittedReadable /\ ~m.sync
  <2>1. EmitReadable(m) = Run(first, <<Item("readable")>>)
    BY <1>10 DEF EmitReadable, first
  <2>2. Over(m, EmitReadable(m))
    BY <1>2, <1>6, <2>1, AsideOver, OverTransitive
  <2> QED
    BY <1>10, <2>2
<1> QED
  BY <1>7, <1>8, <1>9, <1>10

\* maybeReadMore queues a tick at most.
LEMMA MaybeReadMoreGoes ==
  ASSUME NEW m, Typed(m)
  PROVE  Aside(m, MaybeReadMore(m))
<1> DEFINE k == [m EXCEPT !.readingMore = TRUE]
<1>1. m \in Streams /\ m.ended \in BOOLEAN
  BY Fields
<1>2. Aside(m, k) /\ k.ended = m.ended
  <2>1. k \in Streams /\ SameData(m, k) /\ k.todo = m.todo /\ k.ticks = m.ticks
        /\ k.sync = m.sync /\ k.ended = m.ended
    BY <1>1 DEF Streams, SameData
  <2> QED
    BY <2>1, FlagsAside
<1>3. Aside(k, Later(k, Item("more")))
  <2>1. Item("more") \in Ticks(k.ended)
    BY <1>1, <1>2, NewItem
  <2> QED
    BY <1>2, <2>1, LaterAside DEF Aside
<1>4. Aside(m, Later(k, Item("more")))
  BY <1>2, <1>3, AsideTransitive
<1>5. Aside(m, m)
  BY DEF Aside, SameData
<1> QED
  BY <1>4, <1>5 DEF MaybeReadMore

\* endReadable queues the tick of 'end', for a stream that has ended.
LEMMA EndReadableGoes ==
  ASSUME NEW m, Typed(m), m.ended
  PROVE  Aside(m, EndReadable(m))
<1> DEFINE k == [m EXCEPT !.ended = TRUE]
<1>1. m \in Streams /\ m.ended \in BOOLEAN
  BY Fields
<1>2. Aside(m, k) /\ k.ended = TRUE
  <2>1. k \in Streams /\ SameData(m, k) /\ k.todo = m.todo /\ k.ticks = m.ticks
        /\ k.sync = m.sync /\ k.ended = TRUE
    BY <1>1 DEF Streams, SameData
  <2> QED
    BY <2>1, FlagsAside
<1>3. Aside(k, Later(k, Item("end")))
  <2>1. Item("end") \in Ticks(k.ended)
    BY <1>2, NewItem
  <2> QED
    BY <1>2, <2>1, LaterAside DEF Aside
<1>4. Aside(m, Later(k, Item("end")))
  BY <1>2, <1>3, AsideTransitive
<1>5. Aside(m, m)
  BY DEF Aside, SameData
<1> QED
  BY <1>4, <1>5 DEF EndReadable

\* pause() sets a flag.
LEMMA PauseGoes ==
  ASSUME NEW m, Typed(m)
  PROVE  Aside(m, Pause(m))
<1>1. m \in Streams
  BY Fields
<1>2. Pause(m) \in Streams /\ SameData(m, Pause(m)) /\ Pause(m).todo = m.todo
      /\ Pause(m).ticks = m.ticks /\ Pause(m).sync = m.sync
  BY <1>1 DEF Streams, SameData, Pause
<1> QED
  BY <1>2, FlagsAside

\* resume() sets flags and queues a tick at most.
LEMMA ResumeGoes ==
  ASSUME NEW m, Typed(m)
  PROVE  Aside(m, Resume(m))
<1> DEFINE k == [m EXCEPT !.flowing = "true"]
           l == [m EXCEPT !.flowing = "true", !.resumeScheduled = TRUE]
<1>1. m \in Streams /\ m.ended \in BOOLEAN
  BY Fields
<1>2. Aside(m, k)
  <2>1. k \in Streams /\ SameData(m, k) /\ k.todo = m.todo /\ k.ticks = m.ticks /\ k.sync = m.sync
    BY <1>1 DEF Streams, SameData
  <2> QED
    BY <2>1, FlagsAside
<1>3. Aside(m, l) /\ l.ended = m.ended
  <2>1. l \in Streams /\ SameData(m, l) /\ l.todo = m.todo /\ l.ticks = m.ticks
        /\ l.sync = m.sync /\ l.ended = m.ended
    BY <1>1 DEF Streams, SameData
  <2> QED
    BY <2>1, FlagsAside
<1>4. Aside(l, Later(l, Item("resume")))
  <2>1. Item("resume") \in Ticks(l.ended)
    BY <1>1, <1>3, NewItem
  <2> QED
    BY <1>3, <2>1, LaterAside DEF Aside
<1>5. Aside(m, Later(l, Item("resume")))
  BY <1>3, <1>4, AsideTransitive
<1>6. Aside(m, m)
  BY DEF Aside, SameData
<1> QED
  BY <1>2, <1>5, <1>6 DEF Resume

\* howMuchToRead
LEMMA DemandGoes ==
  ASSUME NEW m, Typed(m), NEW n \in Nat \cup {All}
  PROVE  Aside(m, Demand(n, m))
<1> DEFINE mark == IF n > m.highWaterMark THEN RoundUpToNextPowerOf2(n) ELSE m.highWaterMark
           need == m.needReadable \/ (n > m.length /\ ~m.ended)
           k == [m EXCEPT !.highWaterMark = mark, !.needReadable = need]
<1>1. m \in Streams
  BY Fields
<1>2. CASE n <= 0 \/ (m.length = 0 /\ m.ended)
  <2>1. Demand(n, m) = m
    BY <1>2 DEF Demand
  <2> QED
    BY <2>1 DEF Aside, SameData
<1>3. CASE ~(n <= 0 \/ (m.length = 0 /\ m.ended))
  <2>1. Demand(n, m) = k
    BY <1>3 DEF Demand
  <2>2. mark \in Marks
    <3>1. n \in Nat
      BY <1>3 DEF All
    <3> QED
      BY <1>1, <3>1 DEF Marks, Streams
  <2>3. need \in BOOLEAN
    BY <1>1 DEF Streams
  <2> HIDE DEF mark, need
  <2>4. k \in Streams /\ SameData(m, k) /\ k.todo = m.todo /\ k.ticks = m.ticks /\ k.sync = m.sync
    BY <1>1, <2>2, <2>3 DEF Streams, SameData
  <2> QED
    BY <2>1, <2>4, FlagsAside
<1> QED
  BY <1>2, <1>3

\* howMuchToRead returns no more than there is.
LEMMA HowMuchIsThere ==
  ASSUME NEW m, Typed(m), m.length = Len(FlattenSeq(m.buffer)), NEW n \in Nat \cup {All}
  PROVE  HowMuchToRead(n, m) \in 0 .. m.length
<1>1. m.length \in Nat /\ m.buffer \in Buffers
  BY Fields
<1>2. m.buffer # <<>> => Len(m.buffer[1]) \in 0 .. m.length
  BY <1>1, FirstChunk
<1>3. CASE m.length = 0 /\ m.ended
  BY <1>1, <1>3 DEF HowMuchToRead
<1>4. CASE n = All /\ (m.length # 0 \/ ~m.ended)
  BY <1>1, <1>2, <1>4 DEF HowMuchToRead
<1>5. CASE ~(m.length = 0 /\ m.ended) /\ ~(n = All /\ (m.length # 0 \/ ~m.ended))
  <2>1. n \in Nat
    BY <1>5
  <2> QED
    BY <1>1, <1>5, <2>1 DEF HowMuchToRead
<1> QED
  BY <1>3, <1>4, <1>5

\* The listener of 'drain' counts down, and makes the stream flow or not.
LEMMA OnDrainGoes ==
  ASSUME NEW m, Typed(m), NEW left
  PROVE  Over(m, OnDrain(m, left))
<1> DEFINE fewer == CountDrain(m)
           flows == [fewer EXCEPT !.flowing = "true"]
<1>1. m \in Streams /\ m.ended \in BOOLEAN
  BY Fields
<1>2. Aside(m, fewer) /\ fewer.ended = m.ended /\ fewer \in Streams
  <2>1. fewer \in Streams /\ SameData(m, fewer) /\ fewer.todo = m.todo /\ fewer.ticks = m.ticks
        /\ fewer.sync = m.sync /\ fewer.ended = m.ended
    <3> DEFINE awaited == IF m.awaitDrain > 0 THEN m.awaitDrain - 1 ELSE 0
    <3>1. awaited \in Nat
      BY Fields
    <3>2. fewer = [m EXCEPT !.awaitDrain = awaited]
      BY DEF CountDrain
    <3> HIDE DEF awaited, fewer
    <3> QED
      BY <1>1, <3>1, <3>2 DEF Streams, SameData
  <2> QED
    BY <2>1, FlagsAside
<1> HIDE DEF fewer
<1>3. Aside(fewer, flows) /\ flows.ended = m.ended
  <2>1. flows \in Streams /\ SameData(fewer, flows) /\ flows.todo = fewer.todo
        /\ flows.ticks = fewer.ticks /\ flows.sync = fewer.sync /\ flows.ended = fewer.ended
    BY <1>2 DEF Streams, SameData
  <2> QED
    BY <1>2, <2>1, FlagsAside DEF Aside
<1> HIDE DEF flows
<1>4. Over(flows, Run(flows, <<Item("flow")>>))
  <2>1. Item("flow") \in Plain(flows.ended)
    BY <1>1, <1>3, NewItem DEF Plain, Counts, Kinds
  <2>2. <<Item("flow")>> \in Seq(Plain(flows.ended))
    BY <2>1
  <2> QED
    BY <1>3, <2>2, RunOver DEF Aside
<1>5. Over(m, fewer) /\ Over(m, Run(flows, <<Item("flow")>>))
  <2>1. Over(m, fewer) /\ Over(fewer, flows)
    BY <1>2, <1>3, AsideOver DEF Aside
  <2> QED
    BY <1>4, <2>1, OverTransitive
<1> QED
  BY <1>5 DEF OnDrain, flows, fewer

\* unpipe() of destinations, whose cleaning up runs at once.
LEMMA UnpipeFromGoes ==
  ASSUME NEW m, Typed(m), NEW ds \in Seq(Dests), ds # <<>>
  PROVE  Over(m, UnpipeFrom(ds, m))
<1> DEFINE left == IF Len(ds) = Len(m.pipes) THEN <<>> ELSE RemoveFirst(m.pipes, Head(ds))
           flowing == IF Len(ds) = Len(m.pipes) THEN "false" ELSE m.flowing
           k == [m EXCEPT !.pipes = left, !.flowing = flowing]
           item == [Item("cleanup") EXCEPT !.to = ds]
<1>1. m \in Streams /\ m.ended \in BOOLEAN
  BY Fields
<1>2. left \in Seq(Dests)
  <2>1. m.pipes \in Seq(Dests)
    BY <1>1 DEF Streams
  <2>2. RemoveFirst(m.pipes, Head(ds)) \in Seq(Dests)
    BY <2>1, RemoveFirstElement
  <2> QED
    BY <2>2
<1>3. flowing \in {"null", "true", "false"}
  BY <1>1 DEF Streams
<1>4. UnpipeFrom(ds, m) = Run(k, <<item>>)
  BY DEF UnpipeFrom
<1> HIDE DEF left, flowing
<1>5. Aside(m, k) /\ k.ended = m.ended
  <2>1. k \in Streams /\ SameData(m, k) /\ k.todo = m.todo /\ k.ticks = m.ticks /\ k.sync = m.sync
        /\ k.ended = m.ended
    BY <1>1, <1>2, <1>3 DEF Streams, SameData
  <2> QED
    BY <2>1, FlagsAside
<1>6. item \in Plain(m.ended)
  <2>1. ds \in Seq(Dests \cup {User}) /\ <<>> \in Seq(Nat)
    OBVIOUS
  <2>2. item = [k |-> "cleanup", orig |-> 0, n |-> 0, to |-> ds, chunk |-> <<>>]
    BY DEF Item
  <2>3. "cleanup" \in Kinds /\ 0 \in Nat
    BY DEF Kinds
  <2>4. item \in [k : Kinds, orig : Nat \cup {All}, n : Nat, to : Seq(Dests \cup {User}),
                  chunk : Seq(Nat)]
    BY <2>1, <2>2, <2>3
  <2>5. item.k = "cleanup" /\ item.to = ds
    BY <2>2
  <2> HIDE DEF item
  <2> QED
    BY <2>4, <2>5 DEF Plain, Items, Counts
<1> HIDE DEF k, item
<1>7. Over(k, Run(k, <<item>>))
  <2>1. <<item>> \in Seq(Plain(k.ended))
    BY <1>5, <1>6
  <2> QED
    BY <1>5, <2>1, RunOver DEF Aside
<1> QED
  BY <1>4, <1>5, <1>7, AsideOver, OverTransitive

\* read() returns null: the loop of flow() may stop.
LEMMA ReturnsNullGoes ==
  ASSUME NEW m, Typed(m), NEW orig
  PROVE  Over(m, ReturnsNull(orig, m))
<1>1. m \in Streams
  BY Fields
<1>2. Aside(m, [m EXCEPT !.waits = TRUE])
  <2> DEFINE k == [m EXCEPT !.waits = TRUE]
  <2>1. k \in Streams /\ SameData(m, k) /\ k.todo = m.todo /\ k.ticks = m.ticks /\ k.sync = m.sync
    BY <1>1 DEF Streams, SameData
  <2> QED
    BY <2>1, FlagsAside
<1>3. Over(m, m) /\ Over(m, [m EXCEPT !.waits = TRUE])
  BY <1>2, AsideOver DEF Over, SameData
<1>4. m.todo # <<>> => Over(m, [m EXCEPT !.todo = Tail(m.todo)])
  BY PopTyped
<1>5. CASE m.todo = <<>>
  <2>1. Item("user").k = "user"
    BY NewItem
  <2> QED
    BY <1>3, <1>5, <2>1 DEF ReturnsNull
<1>6. CASE m.todo # <<>>
  BY <1>3, <1>4, <1>6 DEF ReturnsNull
<1> QED
  BY <1>5, <1>6

\* What read() may do up to the call of _read.
Leads(m, k) ==
  /\ Typed(k) /\ SameData(m, k) /\ Reads(k)
  /\ \A i \in 1 .. Len(k.todo) :
       k.todo[i].k \in {"data", "end"} => \E j \in 1 .. Len(m.todo) : k.todo[i] = m.todo[j]

\* With no read() under way, no count can be wrong.
LEMMA CalmReads ==
  ASSUME NEW m, Calm(m)
  PROVE  Reads(m)
<1> QED
  BY DEF Calm, Reads, Counts

\* A change that leaves the bytes alone, with no read() under way.
LEMMA OverLeads ==
  ASSUME NEW m, Calm(m), NEW k, Over(m, k)
  PROVE  Leads(m, k)
<1>1. Calm(k) /\ Reads(k)
  BY OverCalm, CalmReads
<1>2. ASSUME NEW i \in 1 .. Len(k.todo), k.todo[i].k \in {"data", "end"}
      PROVE  \E j \in 1 .. Len(m.todo) : k.todo[i] = m.todo[j]
  <2>1. k.todo[i] \notin Plain(m.ended)
    BY <1>2 DEF Plain
  <2> QED
    BY <2>1 DEF Over
<1> QED
  BY <1>1, <1>2 DEF Leads, Over

\* The items of a call of read().
LEMMA ReadItems ==
  ASSUME NEW orig \in Nat \cup {All}, NEW n \in Nat, NEW e \in BOOLEAN
  PROVE  /\ Item("body") \in Items(e) /\ Item("body").k = "body"
         /\ \A did \in BOOLEAN :
              /\ ReadRest(did, orig, n) \in Items(e)
              /\ ReadRest(did, orig, n).k = IF did THEN "afterRead" ELSE "rest"
              /\ ReadRest(did, orig, n).n = n /\ ReadRest(did, orig, n).orig = orig
<1>1. Item("body") \in Items(e) /\ Item("body").k = "body"
  BY NewItem DEF Kinds
<1>2. ASSUME NEW did \in BOOLEAN
      PROVE  /\ ReadRest(did, orig, n) \in Items(e)
             /\ ReadRest(did, orig, n).k = IF did THEN "afterRead" ELSE "rest"
             /\ ReadRest(did, orig, n).n = n /\ ReadRest(did, orig, n).orig = orig
  <2> DEFINE k == IF did THEN "afterRead" ELSE "rest"
  <2>1. k \in Kinds \ {"end", "cleanup"}
    BY DEF Kinds
  <2> HIDE DEF k
  <2>2. Item(k) \in Items(e) /\ Item(k).k = k
    BY <2>1, NewItem
  <2>3. ReadRest(did, orig, n) = [Item(k) EXCEPT !.orig = orig, !.n = n]
    BY DEF ReadRest, k
  <2> PICK x : x = Item(k)
    OBVIOUS
  <2> DEFINE y == [x EXCEPT !.orig = orig, !.n = n]
  <2>4. /\ x \in [k : Kinds, orig : Nat \cup {All}, n : Nat, to : Seq(Dests \cup {User}),
                  chunk : Seq(Nat)]
        /\ x.k = k
    BY <2>2 DEF Items
  <2>5. /\ y \in [k : Kinds, orig : Nat \cup {All}, n : Nat, to : Seq(Dests \cup {User}),
                  chunk : Seq(Nat)]
        /\ y.k = k /\ y.n = n /\ y.orig = orig
    BY <2>4
  <2>6. y \in Items(e)
    BY <2>1, <2>5 DEF Items
  <2> QED
    BY <2>3, <2>5, <2>6 DEF k
<1> QED
  BY <1>1, <1>2

\* A read() that has counted n bytes, above a stack that is calm.
LEMMA CountedLeads ==
  ASSUME NEW m, Typed(m), Calm(m), NEW items \in Seq(Items(m.ended)),
         NEW n \in Nat, n <= m.length,
         \/ /\ Len(items) = 1 /\ items[1].k = "rest" /\ items[1].n = n
         \/ /\ Len(items) = 2 /\ items[1].k = "body" /\ items[2].k = "afterRead"
            /\ items[2].n = n /\ m.sync
  PROVE  Leads(m, Run(m, items))
<1> DEFINE k == Run(m, items)
<1>1. Typed(k) /\ SameData(m, k) /\ k.todo = items \o m.todo /\ k.sync = m.sync
  BY RunTyped
<1> DEFINE todo == items \o m.todo
<1>2. /\ Len(todo) = Len(items) + Len(m.todo) /\ Len(items) \in {1, 2} /\ Len(m.todo) \in Nat
      /\ \A i \in 1 .. Len(todo) : todo[i] = IF i <= Len(items) THEN items[i] ELSE m.todo[i - Len(items)]
  BY Fields, ConcatProperties
<1> HIDE DEF todo, k
<1>3. ASSUME NEW i \in 1 .. Len(todo)
      PROVE  \/ i <= Len(items) /\ todo[i] = items[i]
             \/ \E j \in 1 .. Len(m.todo) : todo[i] = m.todo[j] /\ todo[i].k \notin Counts
  <2>1. ~(i <= Len(items)) => i - Len(items) \in 1 .. Len(m.todo)
    BY <1>2
  <2> QED
    BY <1>2, <2>1 DEF Calm
<1>4. ASSUME NEW i \in 1 .. Len(todo), todo[i].k \in {"data", "end"}
      PROVE  \E j \in 1 .. Len(m.todo) : todo[i] = m.todo[j]
  <2>1. i <= Len(items) => items[i].k \notin {"data", "end"}
    BY <1>2
  <2> QED
    BY <1>3, <1>4, <2>1
<1>5. \A i \in 1 .. Len(todo) :
        /\ todo[i].k = "body" => i = 1 /\ m.sync
        /\ todo[i].k \in {"afterRead", "rest"} =>
             todo[i].n <= m.length /\ (i = 1 \/ (i = 2 /\ todo[1].k = "body"))
  <2> TAKE i \in 1 .. Len(todo)
  <2>1. CASE i <= Len(items)
    <3>1. i \in {1, 2} /\ todo[i] = items[i] /\ 1 \in 1 .. Len(todo) /\ todo[1] = items[1]
      BY <1>2, <2>1
    <3> QED
      BY <1>2, <2>1, <3>1
  <2>2. CASE ~(i <= Len(items))
    BY <1>3, <2>2 DEF Counts
  <2> QED
    BY <2>1, <2>2
<1>6. Reads(k)
  <2> SUFFICES ASSUME NEW i \in 1 .. Len(todo)
               PROVE  /\ todo[i].k = "body" =>
                           k.sync /\ \A j \in 1 .. i - 1 : todo[j].k \in {"pushed", "pushMore"}
                      /\ todo[i].k \in {"afterRead", "rest"} =>
                           /\ todo[i].n <= k.length
                           /\ \A j \in 1 .. i - 1 : todo[j].k \in {"body", "pushed", "pushMore"}
    BY <1>1 DEF Reads, todo
  <2>1. i = 1 => 1 .. i - 1 = {}
    OBVIOUS
  <2>2. i = 2 => 1 .. i - 1 = {1}
    OBVIOUS
  <2> QED
    BY <1>1, <1>5, <2>1, <2>2 DEF SameData
<1> QED
  BY <1>1, <1>4, <1>6 DEF Leads, todo, k

\* Short sequences.
LEMMA OneItem ==
  ASSUME NEW S, NEW x \in S
  PROVE  <<x>> \in Seq(S) /\ Len(<<x>>) = 1 /\ <<x>>[1] = x
<1> QED
  OBVIOUS

\* ... of two items.
LEMMA TwoItems ==
  ASSUME NEW S, NEW x \in S, NEW y \in S
  PROVE  <<x, y>> \in Seq(S) /\ Len(<<x, y>>) = 2 /\ <<x, y>>[1] = x /\ <<x, y>>[2] = y
<1> QED
  OBVIOUS

\* read(), up to the call of _read or to its end.
LEMMA ReadGoes ==
  ASSUME NEW m, Typed(m), Calm(m), m.length = Len(FlattenSeq(m.buffer)),
         NEW orig \in Nat \cup {All}
  PROVE  Leads(m, Read(orig, m))
<1> DEFINE begun == [m EXCEPT !.emittedReadable = @ /\ orig = 0]
           n == HowMuchToRead(orig, begun)
           asked == Demand(orig, begun)
           need == asked.needReadable \/ asked.length = 0
           called == [asked EXCEPT !.reading = TRUE, !.sync = TRUE, !.wanted = TRUE,
                                   !.needReadable = need]
<1>1. m \in Streams /\ m.ended \in BOOLEAN /\ m.length \in Nat
  BY Fields
<1>2. Aside(m, begun) /\ begun.length = Len(FlattenSeq(begun.buffer))
  <2> DEFINE emitted == m.emittedReadable /\ orig = 0
  <2>1. emitted \in BOOLEAN
    BY <1>1 DEF Streams
  <2>2. begun = [m EXCEPT !.emittedReadable = emitted]
    OBVIOUS
  <2> HIDE DEF emitted, begun
  <2>3. begun \in Streams /\ SameData(m, begun) /\ begun.todo = m.todo /\ begun.ticks = m.ticks
        /\ begun.sync = m.sync
    BY <1>1, <2>1, <2>2 DEF Streams, SameData
  <2>4. Aside(m, begun)
    BY <2>3, FlagsAside
  <2> QED
    BY <2>3, <2>4 DEF SameData
<1> HIDE DEF begun
<1>3. Typed(begun) /\ begun.ended = m.ended /\ begun.length = m.length /\ begun.todo = m.todo
  BY <1>2 DEF Aside, SameData
<1>4. n \in 0 .. m.length
  BY <1>2, <1>3, HowMuchIsThere
<1>5. Aside(begun, asked) /\ Aside(m, asked)
  BY <1>2, <1>3, DemandGoes, AsideTransitive
<1> HIDE DEF n, asked
<1>6. Typed(asked) /\ asked.ended = m.ended /\ asked.length = m.length /\ asked.todo = m.todo
  BY <1>5 DEF Aside, SameData
<1>7. /\ Typed(called) /\ SameData(m, called) /\ called.sync = TRUE /\ called.todo = m.todo
      /\ called.length = m.length /\ called.ended = m.ended
  <2>1. asked \in Streams /\ need \in BOOLEAN
    BY <1>6, Fields DEF Streams
  <2> HIDE DEF need
  <2>2. /\ called \in Streams /\ SameData(asked, called) /\ called.sync = TRUE
        /\ called.todo = asked.todo /\ called.ticks = asked.ticks /\ called.ended = asked.ended
    BY <2>1 DEF Streams, SameData
  <2> QED
    BY <1>5, <1>6, <2>2 DEF Typed, SameData, Aside
<1> HIDE DEF called
<1>8. \A k : Over(m, k) => Leads(m, k)
  BY OverLeads
<1>9. m.ended => Over(m, EndReadable(begun)) /\ Over(m, EndReadable(asked))
  <2>1. m.ended => Aside(begun, EndReadable(begun)) /\ Aside(asked, EndReadable(asked))
    BY <1>3, <1>6, EndReadableGoes
  <2> QED
    BY <1>2, <1>5, <2>1, AsideTransitive, AsideOver
<1>10. Over(m, EmitReadable(begun)) /\ Over(m, asked)
  <2>1. Over(begun, EmitReadable(begun)) /\ Over(m, begun) /\ Over(m, asked)
    BY <1>2, <1>3, <1>5, EmitReadableGoes, AsideOver
  <2> QED
    BY <2>1, OverTransitive
<1>11. m.ended => \A k \in {EndReadable(asked), asked} : Over(m, ReturnsNull(orig, k))
  <2> SUFFICES ASSUME m.ended, NEW k \in {EndReadable(asked), asked}
               PROVE  Over(m, ReturnsNull(orig, k))
    OBVIOUS
  <2>1. Over(m, k)
    BY <1>9, <1>10
  <2>2. Over(k, ReturnsNull(orig, k))
    BY <2>1, ReturnsNullGoes DEF Over
  <2> QED
    BY <2>1, <2>2, OverTransitive
<1>12. Leads(m, Run(called, <<Item("body"), ReadRest(TRUE, orig, n)>>))
  <2> DEFINE items == <<Item("body"), ReadRest(TRUE, orig, n)>>
  <2>1. n \in Nat /\ n <= m.length
    BY <1>1, <1>4
  <2>2. /\ items \in Seq(Items(called.ended)) /\ Len(items) = 2 /\ items[1].k = "body"
        /\ items[2].k = "afterRead" /\ items[2].n = n
    <3>1. called.ended \in BOOLEAN
      BY <1>1, <1>7
    <3>2. /\ Item("body") \in Items(called.ended) /\ Item("body").k = "body"
          /\ ReadRest(TRUE, orig, n) \in Items(called.ended)
          /\ ReadRest(TRUE, orig, n).k = "afterRead" /\ ReadRest(TRUE, orig, n).n = n
      BY <2>1, <3>1, ReadItems, ZenonT(60)
    <3> QED
      BY <3>2, TwoItems
  <2> HIDE DEF items
  <2>3. Calm(called)
    BY <1>7 DEF Calm
  <2>4. Leads(called, Run(called, items))
    BY <1>7, <2>1, <2>2, <2>3, CountedLeads
  <2> QED
    BY <1>7, <2>4 DEF Leads, SameData, items
<1>13. Leads(m, Run(asked, <<ReadRest(FALSE, orig, n)>>))
  <2> DEFINE items == <<ReadRest(FALSE, orig, n)>>
  <2>1. n \in Nat /\ n <= m.length
    BY <1>1, <1>4
  <2>2. items \in Seq(Items(asked.ended)) /\ Len(items) = 1 /\ items[1].k = "rest" /\ items[1].n = n
    <3>1. asked.ended \in BOOLEAN
      BY <1>1, <1>6
    <3>2. /\ ReadRest(FALSE, orig, n) \in Items(asked.ended)
          /\ ReadRest(FALSE, orig, n).k = "rest" /\ ReadRest(FALSE, orig, n).n = n
      BY <2>1, <3>1, ReadItems, ZenonT(60)
    <3> QED
      BY <3>2, OneItem
  <2> HIDE DEF items
  <2>3. Calm(asked)
    BY <1>6 DEF Calm
  <2>4. Leads(asked, Run(asked, items))
    BY <1>6, <2>1, <2>2, <2>3, CountedLeads
  <2> QED
    BY <1>5, <1>6, <2>4 DEF Leads, SameData, Aside, items
<1>14. \/ Over(m, Read(orig, m))
       \/ Read(orig, m) = Run(called, <<Item("body"), ReadRest(TRUE, orig, n)>>)
       \/ Read(orig, m) = Run(asked, <<ReadRest(FALSE, orig, n)>>)
  <2>1. CASE orig = 0 /\ m.needReadable /\ (m.length >= m.highWaterMark \/ m.ended)
    <3>1. Read(orig, m) = IF m.length = 0 /\ m.ended THEN EndReadable(begun) ELSE EmitReadable(begun)
      BY <2>1 DEF Read, begun
    <3> QED
      BY <1>9, <1>10, <3>1
  <2>2. CASE ~(orig = 0 /\ m.needReadable /\ (m.length >= m.highWaterMark \/ m.ended))
    <3>1. Read(orig, m) =
            CASE n = 0 /\ m.ended ->
                   ReturnsNull(orig, IF m.length = 0 THEN EndReadable(asked) ELSE asked)
              [] ~(n = 0 /\ m.ended) /\ CallRead(n, asked) ->
                   Run(called, <<Item("body"), ReadRest(TRUE, orig, n)>>)
              [] OTHER -> Run(asked, <<ReadRest(FALSE, orig, n)>>)
      BY <2>2 DEF Read, begun, n, asked, called
    <3>2. CASE n = 0 /\ m.ended
      BY <1>11, <3>1, <3>2
    <3>3. CASE ~(n = 0 /\ m.ended) /\ CallRead(n, asked)
      BY <3>1, <3>3
    <3>4. CASE ~(n = 0 /\ m.ended) /\ ~CallRead(n, asked)
      BY <3>1, <3>4
    <3> QED
      BY <3>2, <3>3, <3>4
  <2> QED
    BY <2>1, <2>2
<1> QED
  BY <1>8, <1>12, <1>13, <1>14

-----------------------------------------------------------------------------
(* The invariant, when nothing but the stream changes. *)

Quiet(todo) == \A i \in 1 .. Len(todo) : ~Pending(todo[i])

Others == UNCHANGED <<listeners, chunks, held, pushed, taken, got, steady>>

\* Steps that change the stream alone.
LEMMA SameIsOthers == Same => Others
<1> QED
  BY DEF Same, Others, dest, hist

\* The invariant of the stream after what a read() may do.
LEMMA LeadsCore ==
  ASSUME NEW m, NEW k, NEW c, NEW p, NEW t, Core(m, c, p, t), Leads(m, k)
  PROVE  Core(k, c, p, t)
<1> QED
  BY DEF Core, Leads, Bytes, Ending, SameData

\* The invariant of the stream after a change of flags.
LEMMA AsideCore ==
  ASSUME NEW m, NEW k, NEW c, NEW p, NEW t, Core(m, c, p, t), Aside(m, k)
  PROVE  Core(k, c, p, t)
<1>1. Bytes(k, p, t) /\ Ending(k, c) /\ Typed(k)
  BY DEF Core, Aside, Bytes, Ending, SameData
<1>2. Reads(k)
  BY DEF Core, Aside, Reads, SameData
<1> QED
  BY <1>1, <1>2 DEF Core

\* What is below the top.
LEMMA PopReads ==
  ASSUME NEW m, Typed(m), Reads(m), m.todo # <<>>, NEW k,
         k.todo = Tail(m.todo), k.length = m.length, m.sync => k.sync \/ m.todo[1].k = "body"
  PROVE  Reads(k)
<1>1. /\ Len(k.todo) = Len(m.todo) - 1 /\ Len(m.todo) \in Nat
      /\ \A i \in 1 .. Len(k.todo) : i + 1 \in 1 .. Len(m.todo) /\ k.todo[i] = m.todo[i + 1]
  BY PopTyped, Fields
<1>2. ASSUME NEW i \in 1 .. Len(k.todo)
      PROVE  /\ k.todo[i].k = "body" =>
                  k.sync /\ \A j \in 1 .. i - 1 : k.todo[j].k \in {"pushed", "pushMore"}
             /\ k.todo[i].k \in {"afterRead", "rest"} =>
                  /\ k.todo[i].n <= k.length
                  /\ \A j \in 1 .. i - 1 : k.todo[j].k \in {"body", "pushed", "pushMore"}
  <2>1. i \in Nat /\ i + 1 \in 1 .. Len(m.todo) /\ k.todo[i] = m.todo[i + 1] /\ 1 \in 1 .. (i + 1) - 1
    BY <1>1
  <2>2. \A j \in 1 .. i - 1 : j + 1 \in 1 .. (i + 1) - 1 /\ k.todo[j] = m.todo[j + 1]
    BY <1>1, <2>1
  <2>3. k.todo[i].k = "body" => k.sync
    BY <2>1 DEF Reads
  <2> QED
    BY <2>1, <2>2, <2>3 DEF Reads
<1> QED
  BY <1>2 DEF Reads

\* Below what is not a push() no read() is under way.
LEMMA Below ==
  ASSUME NEW m, Typed(m), Reads(m), m.todo # <<>>, m.todo[1].k \notin {"body", "pushed", "pushMore"}
  PROVE  /\ Calm([m EXCEPT !.todo = Tail(m.todo)])
         /\ m.todo[1].k \notin Counts => Calm(m)
<1> DEFINE k == [m EXCEPT !.todo = Tail(m.todo)]
<1>1. /\ Len(k.todo) = Len(m.todo) - 1 /\ Len(m.todo) \in Nat \ {0}
      /\ \A i \in 1 .. Len(k.todo) : i + 1 \in 1 .. Len(m.todo) /\ k.todo[i] = m.todo[i + 1]
  BY PopTyped, Fields
<1> HIDE DEF k
<1>2. ASSUME NEW i \in 1 .. Len(m.todo), i # 1
      PROVE  m.todo[i].k \notin Counts
  <2>1. 1 \in 1 .. i - 1
    BY <1>1, <1>2
  <2> QED
    BY <2>1 DEF Reads, Counts
<1>3. \A i \in 1 .. Len(k.todo) : i + 1 # 1
  OBVIOUS
<1>4. Calm(k)
  BY <1>1, <1>2, <1>3 DEF Calm
<1> QED
  BY <1>2, <1>4 DEF Calm, k

\* The invariant of the stream once the top of its stack has come off.
LEMMA PopCore ==
  ASSUME NEW m, NEW c, NEW p, NEW t, Core(m, c, p, t), m.todo # <<>>
  PROVE  Core([m EXCEPT !.todo = Tail(m.todo)], c, p, t)
<1> DEFINE k == [m EXCEPT !.todo = Tail(m.todo)]
<1>1. Typed(m) /\ Reads(m) /\ Bytes(m, p, t) /\ Ending(m, c)
  BY DEF Core
<1>2. Over(m, k) /\ k.todo = Tail(m.todo) /\ k.sync = m.sync
  BY <1>1, PopTyped
<1> HIDE DEF k
<1>3. Reads(k)
  BY <1>1, <1>2, PopReads DEF Over, SameData
<1> QED
  BY <1>1, <1>2, <1>3 DEF Core, Over, SameData, Bytes, Ending, k

\* Destinations that have got all there is.
LEMMA QuietTold ==
  ASSUME NEW todo, NEW new, NEW t, NEW g, NEW ls, NEW st, Told(todo, t, g, ls, st),
         Quiet(todo), Quiet(new)
  PROVE  Told(new, t, g, ls, st)
<1>1. \A d \in st : d \in Dests /\ d \in ToSet(ls) /\ g[d] = t
  BY DEF Told, Quiet, Pending, HasAll
<1>2. \A d \in st : HasAll(d, new, t, g)
  BY <1>1 DEF Quiet, Pending, HasAll
<1> QED
  BY <1>1, <1>2 DEF Told, Quiet

\* What a read() does up to the call of _read brings no chunk to a destination.
LEMMA LeadsQuiet ==
  ASSUME NEW m, NEW k, Quiet(m.todo), Leads(m, k)
  PROVE  Quiet(k.todo)
<1> QED
  BY DEF Quiet, Pending, DueTo, Leads

\* With neither a 'data' nor a handler of the user's on top, no chunk is on its way.
LEMMA TopQuiet ==
  ASSUME NEW m, Typed(m), NEW t, NEW g, NEW ls, NEW st, Told(m.todo, t, g, ls, st),
         m.todo # <<>> => m.todo[1].k \notin {"user", "data"}
  PROVE  Quiet(m.todo)
<1>1. Len(m.todo) \in Nat /\ (m.todo = <<>> => Len(m.todo) = 0)
  BY Fields
<1> SUFFICES ASSUME NEW i \in 1 .. Len(m.todo), Pending(m.todo[i]) PROVE FALSE
  BY DEF Quiet
<1>2. m.todo # <<>> /\ OnTop(i, m.todo)
  BY <1>1 DEF Told
<1> QED
  BY <1>2 DEF OnTop, Pending, DueTo

\* Items come off that carry nothing to a destination.
LEMMA PopTold ==
  ASSUME NEW m, Typed(m), NEW t, NEW g, NEW ls, NEW st, Told(m.todo, t, g, ls, st),
         m.todo # <<>>, ~Pending(m.todo[1])
  PROVE  Told(Tail(m.todo), t, g, ls, st)
<1> DEFINE todo == m.todo
           new == Tail(m.todo)
<1>1. /\ Len(new) = Len(todo) - 1 /\ Len(todo) \in Nat \ {0}
      /\ \A i \in 1 .. Len(new) : i + 1 \in 1 .. Len(todo) /\ new[i] = todo[i + 1]
  BY PopTyped, Fields
<1> HIDE DEF todo, new
<1>2. ASSUME NEW i \in 1 .. Len(todo), Pending(todo[i])
      PROVE  i # 1 /\ i - 1 \in 1 .. Len(new) /\ todo[i] = new[i - 1]
  <2>1. i # 1
    BY <1>2 DEF todo
  <2>2. i - 1 \in 1 .. Len(new) /\ (i - 1) + 1 = i
    BY <1>1, <2>1
  <2> QED
    BY <1>1, <2>1, <2>2
<1>3. ASSUME NEW i \in 1 .. Len(new), Pending(new[i])
      PROVE  OnTop(i, new) /\ Due(new[i], t, g)
  <2>1. i + 1 \in 1 .. Len(todo) /\ new[i] = todo[i + 1]
    BY <1>1
  <2>2. OnTop(i + 1, todo) /\ Due(new[i], t, g)
    BY <1>3, <2>1 DEF Told, todo
  <2>3. i = 1
    BY <2>2 DEF OnTop
  <2> QED
    BY <2>2, <2>3 DEF OnTop
<1>4. ASSUME NEW d \in st
      PROVE  d \in ToSet(ls) /\ HasAll(d, new, t, g)
  <2>1. d \in Dests /\ d \in ToSet(ls) /\ HasAll(d, todo, t, g)
    BY DEF Told, todo
  <2>2. \A i \in 1 .. Len(new) : DueTo(new[i], d) => g[d] \o new[i].chunk = t
    BY <1>1, <2>1 DEF HasAll
  <2>3. ASSUME \A i \in 1 .. Len(new) : ~DueTo(new[i], d)
        PROVE  g[d] = t
    <3>1. \A i \in 1 .. Len(todo) : ~DueTo(todo[i], d)
      BY <1>2, <2>1, <2>3 DEF Pending
    <3> QED
      BY <2>1, <3>1 DEF HasAll
  <2> QED
    BY <2>1, <2>2, <2>3 DEF HasAll
<1> QED
  BY <1>3, <1>4 DEF Told, todo, new

\* What holds after a step: the invariant, and EndLast of that step.
EndStep ==
  /\ state'.endEmitted # state.endEmitted => chunks = MaxChunks /\ taken = Numbers(pushed)
  /\ state.endEmitted => UNCHANGED <<taken, got>> /\ state'.endEmitted

\* 'end' and 'data' after a step that starts neither.
LEMMA LeadsLast ==
  ASSUME NEW m, NEW k, Leads(m, k), EndLone(m), m.todo = <<>> \/ m.todo[1].k # "end",
         Typed(m)
  PROVE  EndLone(k) /\ \A i \in 1 .. Len(k.todo) : k.todo[i].k # "end"
<1>1. Len(m.todo) \in Nat /\ (m.todo = <<>> => Len(m.todo) = 0)
  BY Fields
<1>2. \A i \in 1 .. Len(m.todo) : m.todo[i].k # "end"
  <2> SUFFICES ASSUME NEW i \in 1 .. Len(m.todo), m.todo[i].k = "end" PROVE FALSE
    OBVIOUS
  <2>1. Len(m.todo) = 1
    BY DEF EndLone
  <2>2. i = 1 /\ m.todo # <<>>
    BY <1>1, <2>1
  <2> QED
    BY <2>2
<1>3. \A i \in 1 .. Len(k.todo) : k.todo[i].k # "end"
  BY <1>2 DEF Leads
<1>4. k.endEmitted => \A i \in 1 .. Len(k.todo) : k.todo[i].k # "data"
  <2> SUFFICES ASSUME k.endEmitted, NEW i \in 1 .. Len(k.todo), k.todo[i].k = "data" PROVE FALSE
    OBVIOUS
  <2>1. PICK j \in 1 .. Len(m.todo) : k.todo[i] = m.todo[j]
    BY DEF Leads
  <2>2. m.endEmitted
    BY DEF Leads, SameData
  <2> QED
    BY <2>1, <2>2 DEF EndLone
<1> QED
  BY <1>3, <1>4 DEF EndLone

\* A step that leads from a stream that is as typed as the state, and has its bytes.
LEMMA LeadsKeeps ==
  ASSUME Inv, Others, NEW m, Core(m, chunks, pushed, taken), SameData(state, m), EndLone(m),
         m.todo = <<>> \/ m.todo[1].k # "end", Leads(m, state'),
         ~Barge => Told(m.todo, taken, got, listeners, steady) /\ Quiet(m.todo)
  PROVE  Inv' /\ EndStep
<1>1. Core(state', chunks, pushed, taken)
  BY LeadsCore
<1>2. ~Barge => Told(state'.todo, taken, got, listeners, steady)
  BY LeadsQuiet, QuietTold
<1>3. EndLone(state')
  BY LeadsLast DEF Core
<1>4. state'.endEmitted = state.endEmitted
  BY DEF Leads, SameData
<1>5. Inv'
  BY <1>1, <1>2, <1>3 DEF Inv, Others
<1>6. EndStep
  BY <1>4 DEF EndStep, Others
<1> QED
  BY <1>5, <1>6

\* A step that leaves the stack alone, but for what m has done to it.
LEMMA AsideKeeps ==
  ASSUME Inv, Others, NEW m, Core(m, chunks, pushed, taken), SameData(state, m), EndLone(m),
         Aside(m, state'),
         ~Barge => Told(m.todo, taken, got, listeners, steady)
  PROVE  Inv' /\ EndStep
<1>1. Core(state', chunks, pushed, taken)
  BY AsideCore
<1>2. state'.todo = m.todo /\ state'.endEmitted = state.endEmitted /\ m.endEmitted = state.endEmitted
  BY DEF Aside, SameData
<1>3. EndLone(state')
  BY <1>2 DEF EndLone
<1>4. Inv'
  BY <1>1, <1>2, <1>3 DEF Inv, Others
<1>5. EndStep
  BY <1>2 DEF EndStep, Others
<1> QED
  BY <1>4, <1>5

\* The stream once the top of its stack has come off.
LEMMA PoppedGoes ==
  ASSUME Inv, state.todo # <<>>
  PROVE  /\ Popped = [state EXCEPT !.todo = Tail(state.todo)]
         /\ Core(Popped, chunks, pushed, taken) /\ Typed(Popped)
         /\ SameData(state, Popped) /\ Over(state, Popped)
         /\ Popped.todo = Tail(state.todo) /\ Popped.sync = state.sync
         /\ EndLone(Popped) /\ \A i \in 1 .. Len(Popped.todo) : Popped.todo[i].k # "end"
         /\ Popped.todo = <<>> \/ Popped.todo[1].k # "end"
         /\ state.todo[1].k \notin {"body", "pushed", "pushMore"} => Calm(Popped)
         /\ ~Barge /\ ~Pending(state.todo[1]) => Told(Popped.todo, taken, got, listeners, steady)
         /\ ~Barge /\ state.todo[1].k # "user" => Quiet(Popped.todo)
<1>1. Popped = [state EXCEPT !.todo = Tail(state.todo)]
  BY DEF Popped
<1>2. Core(state, chunks, pushed, taken) /\ Typed(state) /\ Reads(state)
  BY DEF Inv, Core
<1>3. /\ Over(state, Popped) /\ Popped.todo = Tail(state.todo) /\ Popped.sync = state.sync
      /\ Len(Popped.todo) = Len(state.todo) - 1 /\ Len(state.todo) \in Nat
      /\ \A i \in 1 .. Len(Popped.todo) :
           i + 1 \in 1 .. Len(state.todo) /\ Popped.todo[i] = state.todo[i + 1]
  <2>1. Len(state.todo) \in Nat
    BY <1>2, Fields
  <2> QED
    BY <1>1, <1>2, <2>1, PopTyped
<1>4. Core(Popped, chunks, pushed, taken) /\ Typed(Popped) /\ SameData(state, Popped)
  BY <1>1, <1>2, <1>3, PopCore DEF Over
<1>5. state.todo[1].k \notin {"body", "pushed", "pushMore"} => Calm(Popped)
  BY <1>1, <1>2, Below
<1>6. ~Barge /\ ~Pending(state.todo[1]) => Told(Popped.todo, taken, got, listeners, steady)
  BY <1>2, <1>3, PopTold DEF Inv
<1> HIDE DEF Popped
<1>7. ASSUME NEW i \in 1 .. Len(Popped.todo)
      PROVE  Popped.todo[i].k # "end"
  <2>1. i + 1 \in 1 .. Len(state.todo) /\ Popped.todo[i] = state.todo[i + 1] /\ Len(state.todo) # 1
    BY <1>3
  <2> QED
    BY <2>1 DEF Inv, EndLone
<1>8. Popped.endEmitted => \A i \in 1 .. Len(Popped.todo) : Popped.todo[i].k # "data"
  BY <1>3, <1>4 DEF SameData, Inv, EndLone
<1>9. EndLone(Popped)
  BY <1>7, <1>8 DEF EndLone
<1>10. Popped.todo = <<>> \/ Popped.todo[1].k # "end"
  <2>1. Popped.todo \in Seq(Items(Popped.ended))
    BY <1>4, Fields
  <2>2. Popped.todo # <<>> => 1 \in 1 .. Len(Popped.todo)
    BY <2>1
  <2> QED
    BY <1>7, <2>2
<1>11. ASSUME ~Barge, state.todo[1].k # "user", NEW i \in 1 .. Len(Popped.todo),
              Pending(Popped.todo[i])
       PROVE  FALSE
  <2>1. i + 1 \in 1 .. Len(state.todo) /\ Pending(state.todo[i + 1]) /\ i \in Nat \ {0}
    BY <1>3, <1>11
  <2>2. OnTop(i + 1, state.todo)
    BY <1>11, <2>1 DEF Inv, Told
  <2> QED
    BY <1>11, <2>1, <2>2 DEF OnTop
<1> QED
  BY <1>1, <1>3, <1>4, <1>5, <1>6, <1>7, <1>9, <1>10, <1>11 DEF Quiet

\* The item on top.
LEMMA Top ==
  ASSUME Inv, NEW k, Running(k)
  PROVE  /\ state.todo # <<>> /\ state.todo[1].k = k /\ Head(state.todo) = state.todo[1]
         /\ state.todo[1] \in Items(state.ended)
         /\ k # "data" => ~Pending(state.todo[1])
<1>1. state.todo # <<>> /\ Head(state.todo).k = k /\ Head(state.todo) = state.todo[1]
  BY DEF Running
<1>2. state.todo \in Seq(Items(state.ended))
  BY Fields DEF Inv, Core
<1>3. state.todo[1] \in Items(state.ended)
  BY <1>1, <1>2
<1> QED
  BY <1>1, <1>3 DEF Pending, DueTo

\* Nothing runs.
LEMMA IdleGoes ==
  ASSUME Inv, Idle
  PROVE  /\ state.todo = <<>> /\ Len(state.todo) = 0 /\ Calm(state) /\ Quiet(state.todo)
         /\ Core(state, chunks, pushed, taken) /\ Typed(state) /\ SameData(state, state)
         /\ EndLone(state)
<1>1. state.todo = <<>> /\ Len(state.todo) = 0
  BY DEF Idle
<1> QED
  BY <1>1 DEF Calm, Quiet, SameData, Inv, Core

\* A step that takes the top off and leads on from there.
LEMMA PopKeeps ==
  ASSUME Inv, Others, NEW k, k \notin {"user", "data"}, Running(k), Leads(Popped, state')
  PROVE  Inv' /\ EndStep
<1>1. state.todo # <<>> /\ state.todo[1].k = k /\ ~Pending(state.todo[1])
  BY Top
<1>2. /\ Core(Popped, chunks, pushed, taken) /\ SameData(state, Popped) /\ EndLone(Popped)
      /\ Popped.todo = <<>> \/ Popped.todo[1].k # "end"
      /\ ~Barge => Told(Popped.todo, taken, got, listeners, steady) /\ Quiet(Popped.todo)
  BY <1>1, PoppedGoes
<1> QED
  BY <1>2, LeadsKeeps

-----------------------------------------------------------------------------
(* The steps of the stream. *)

\* New items that are plain.
LEMMA PlainItem ==
  ASSUME NEW e \in BOOLEAN
  PROVE  /\ \A k \in {"user", "read0", "flow", "readable", "more", "resumed", "resumeRest",
                      "pushed", "pushMore"} : Item(k) \in Plain(e) /\ Item(k).k = k
         /\ \A n \in Nat : [Item("moreRead") EXCEPT !.n = n] \in Plain(e)
<1>1. ASSUME NEW k \in {"user", "read0", "flow", "readable", "more", "moreRead", "resumed",
                        "resumeRest", "pushed", "pushMore"}
      PROVE  Item(k) \in Plain(e) /\ Item(k).k = k
  <2>1. k \in Kinds \ {"end", "cleanup"} /\ k \notin Counts \cup {"data", "end"}
    BY DEF Kinds, Counts
  <2>2. Item(k) \in Items(e) /\ Item(k).k = k
    BY <2>1, NewItem
  <2> QED
    BY <2>1, <2>2 DEF Plain
<1>2. ASSUME NEW n \in Nat
      PROVE  [Item("moreRead") EXCEPT !.n = n] \in Plain(e)
  <2> PICK x : x = Item("moreRead")
    OBVIOUS
  <2>1. /\ x \in [k : Kinds, orig : Nat \cup {All}, n : Nat, to : Seq(Dests \cup {User}),
                  chunk : Seq(Nat)]
        /\ x.k = "moreRead"
    BY <1>1 DEF Plain, Items
  <2> DEFINE y == [x EXCEPT !.n = n]
  <2>2. /\ y \in [k : Kinds, orig : Nat \cup {All}, n : Nat, to : Seq(Dests \cup {User}),
                  chunk : Seq(Nat)]
        /\ y.k = "moreRead"
    BY <2>1
  <2>3. y \in Plain(e)
    BY <2>2 DEF Plain, Items, Counts
  <2> QED
    BY <2>3
<1> QED
  BY <1>1, <1>2

\* A read(), after a change that leaves the bytes alone.
LEMMA OverThenLeads ==
  ASSUME NEW m, NEW k, NEW l, Over(m, k), Leads(k, l)
  PROVE  Leads(m, l)
<1>1. ASSUME NEW i \in 1 .. Len(l.todo), l.todo[i].k \in {"data", "end"}
      PROVE  \E j \in 1 .. Len(m.todo) : l.todo[i] = m.todo[j]
  <2>1. PICK h \in 1 .. Len(k.todo) : l.todo[i] = k.todo[h]
    BY <1>1 DEF Leads
  <2>2. k.todo[h] \notin Plain(m.ended)
    BY <1>1, <2>1 DEF Plain
  <2> QED
    BY <2>1, <2>2 DEF Over
<1> QED
  BY <1>1 DEF Leads, Over, SameData

\* What a step may do when read() is not under way.
LEMMA FreeGoes ==
  ASSUME NEW m, NEW c, NEW p, NEW t, Core(m, c, p, t), Calm(m)
  PROVE  /\ Leads(m, m) /\ \A k : Over(m, k) => Leads(m, k)
         /\ \A k : Aside(m, k) => Leads(m, k)
         /\ \A n \in Nat \cup {All} : Leads(m, Read(n, m))
         /\ \A k : Over(m, k) => \A n \in Nat \cup {All} : Leads(m, Read(n, k))
<1>1. Typed(m) /\ m.length = Len(FlattenSeq(m.buffer))
  BY DEF Core, Bytes
<1>2. \A k : Aside(m, k) => Over(m, k)
  BY <1>1, AsideOver
<1>3. \A k : Over(m, k) => Leads(m, k)
  BY OverLeads
<1>4. Over(m, m)
  BY <1>1 DEF Over, SameData
<1>5. ASSUME NEW k, Over(m, k), NEW n \in Nat \cup {All}
      PROVE  Leads(m, Read(n, k))
  <2>1. Typed(k) /\ Calm(k) /\ k.length = Len(FlattenSeq(k.buffer))
    BY <1>1, <1>5, OverCalm DEF Over, SameData
  <2>2. Leads(k, Read(n, k))
    BY <2>1, ReadGoes
  <2> QED
    BY <1>5, <2>2, OverThenLeads
<1> QED
  BY <1>2, <1>3, <1>4, <1>5

\* The same, below the item that runs.
LEMMA BelowGoes ==
  ASSUME Inv, NEW k, Running(k), k \notin {"body", "pushed", "pushMore"}
  PROVE  /\ Typed(Popped) /\ Popped.ended \in BOOLEAN /\ Calm(Popped)
         /\ Leads(Popped, Popped) /\ \A l : Over(Popped, l) => Leads(Popped, l)
         /\ \A l : Aside(Popped, l) => Leads(Popped, l)
         /\ \A n \in Nat \cup {All} : Leads(Popped, Read(n, Popped))
         /\ \A l : Over(Popped, l) => \A n \in Nat \cup {All} : Leads(Popped, Read(n, l))
         /\ \A items \in Seq(Plain(Popped.ended)) : Over(Popped, Run(Popped, items))
<1>1. state.todo # <<>> /\ state.todo[1].k = k
  BY Top
<1>2. Core(Popped, chunks, pushed, taken) /\ Calm(Popped) /\ Typed(Popped)
  BY <1>1, PoppedGoes
<1>3. Popped.ended \in BOOLEAN
  BY <1>2, Fields
<1> HIDE DEF Popped
<1>4. \A items \in Seq(Plain(Popped.ended)) : Over(Popped, Run(Popped, items))
  BY <1>2, RunOver
<1> QED
  BY <1>2, <1>3, <1>4, FreeGoes

\* A flag of a stream is set, and then items are put on its stack.
LEMMA AsideRunOver ==
  ASSUME NEW m, Typed(m), NEW k, Aside(m, k), NEW items \in Seq(Plain(m.ended))
  PROVE  Over(m, Run(k, items))
<1>1. Over(m, k) /\ Typed(k) /\ k.ended = m.ended
  BY AsideOver DEF Aside, SameData
<1>2. Over(k, Run(k, items))
  BY <1>1, RunOver
<1> QED
  BY <1>1, <1>2, OverTransitive

\* read(0) of the stream itself.
LEMMA ReadZeroRunsKeeps ==
  ASSUME Inv, ReadZeroRuns
  PROVE  Inv' /\ EndStep
<1>1. Others /\ Running("read0")
  BY SameIsOthers DEF ReadZeroRuns
<1>2. Leads(Popped, state')
  BY <1>1, BelowGoes DEF ReadZeroRuns
<1> QED
  BY <1>1, <1>2, PopKeeps

\* The loop of flow().
LEMMA FlowKeeps ==
  ASSUME Inv, Flow
  PROVE  Inv' /\ EndStep
<1>1. Others /\ Running("flow")
  BY SameIsOthers DEF Flow
<1>2. CASE state.flowing = "true"
  <2>1. /\ state.todo # <<>> /\ state.todo[1].k = "flow"
        /\ Core(state, chunks, pushed, taken) /\ Typed(state) /\ Reads(state)
        /\ EndLone(state) /\ SameData(state, state)
    BY <1>1, Top DEF Inv, Core, SameData
  <2>2. Calm(state)
    BY <2>1, Below DEF Counts
  <2>3. Leads(state, state')
    BY <1>2, <2>1, <2>2, FreeGoes DEF Flow
  <2>4. ~Barge => Told(state.todo, taken, got, listeners, steady) /\ Quiet(state.todo)
    BY <2>1, TopQuiet DEF Inv
  <2> QED
    BY <1>1, <2>1, <2>3, <2>4, LeadsKeeps
<1>3. CASE state.flowing # "true"
  <2>1. Leads(Popped, state')
    BY <1>1, <1>3, BelowGoes DEF Flow
  <2> QED
    BY <1>1, <2>1, PopKeeps
<1> QED
  BY <1>2, <1>3

\* emitReadable_
LEMMA EmitReadableEventKeeps ==
  ASSUME Inv, EmitReadableEvent
  PROVE  Inv' /\ EndStep
<1>1. Others /\ Running("readable")
  BY SameIsOthers DEF EmitReadableEvent
<1>2. Typed(Popped) /\ Popped.ended \in BOOLEAN
  BY <1>1, BelowGoes
<1> DEFINE waits == Popped.waits /\ ~readable
           k == [Popped EXCEPT !.waits = waits]
           items == (IF readable THEN <<Item("user")>> ELSE <<>>) \o <<Item("flow")>>
<1>3. state' = Run(k, items)
  BY DEF EmitReadableEvent
<1>4. Aside(Popped, k)
  <2>1. waits \in BOOLEAN /\ Popped \in Streams
    BY <1>2, Fields
  <2> HIDE DEF waits, Popped
  <2>2. k \in Streams /\ SameData(Popped, k) /\ k.todo = Popped.todo /\ k.ticks = Popped.ticks
        /\ k.sync = Popped.sync
    BY <2>1 DEF Streams, SameData
  <2> QED
    BY <1>2, <2>2, FlagsAside
<1>5. items \in Seq(Plain(Popped.ended))
  <2> PICK S : S = Plain(Popped.ended)
    OBVIOUS
  <2>1. Item("user") \in S /\ Item("flow") \in S
    BY <1>2, PlainItem
  <2>2. <<Item("user")>> \in Seq(S) /\ <<Item("flow")>> \in Seq(S) /\ <<>> \in Seq(S)
    BY <2>1
  <2>3. items \in Seq(S)
    BY <2>2, ConcatProperties
  <2> QED
    BY <2>3
<1> HIDE DEF items, k
<1>6. Over(Popped, state')
  BY <1>2, <1>3, <1>4, <1>5, AsideRunOver
<1>7. Leads(Popped, state')
  BY <1>1, <1>6, BelowGoes
<1> QED
  BY <1>1, <1>7, PopKeeps

\* maybeReadMore_ reads ahead.
LEMMA MoreKeeps ==
  ASSUME Inv, More
  PROVE  Inv' /\ EndStep
<1>1. Others /\ Running("more")
  BY SameIsOthers DEF More
<1>2. Typed(Popped) /\ Popped.ended \in BOOLEAN /\ state.length \in Nat
  BY <1>1, BelowGoes, Fields DEF Inv, Core
<1> DEFINE item == [Item("moreRead") EXCEPT !.n = state.length]
           k == [Popped EXCEPT !.readingMore = FALSE]
<1>3. <<item>> \in Seq(Plain(Popped.ended))
  BY <1>2, PlainItem, OneItem
<1> HIDE DEF item
<1>4. Over(Popped, Run(Popped, <<item>>))
  BY <1>1, <1>3, BelowGoes
<1>5. 0 \in Nat \cup {All}
  OBVIOUS
<1>6. Leads(Popped, Read(0, Run(Popped, <<item>>)))
  BY <1>1, <1>4, <1>5, BelowGoes
<1>7. Leads(Popped, k)
  <2>1. Popped \in Streams
    BY <1>2, Fields
  <2>2. \A l : Aside(Popped, l) => Leads(Popped, l)
    BY <1>1, BelowGoes
  <2> HIDE DEF Popped
  <2>3. k \in Streams /\ SameData(Popped, k) /\ k.todo = Popped.todo /\ k.ticks = Popped.ticks
        /\ k.sync = Popped.sync
    BY <2>1 DEF Streams, SameData
  <2> QED
    BY <1>2, <2>2, <2>3, FlagsAside
<1>8. Leads(Popped, state')
  BY <1>6, <1>7 DEF More, item
<1> QED
  BY <1>1, <1>8, PopKeeps

\* ... and goes on if that has brought data.
LEMMA MoreReadKeeps ==
  ASSUME Inv, MoreRead
  PROVE  Inv' /\ EndStep
<1>1. Others /\ Running("moreRead")
  BY SameIsOthers DEF MoreRead
<1>2. Typed(Popped) /\ Popped.ended \in BOOLEAN
  BY <1>1, BelowGoes
<1> DEFINE k == [Popped EXCEPT !.readingMore = FALSE]
<1>3. <<Item("more")>> \in Seq(Plain(Popped.ended))
  BY <1>2, PlainItem, OneItem
<1>4. Leads(Popped, Run(Popped, <<Item("more")>>))
  BY <1>1, <1>3, BelowGoes
<1>5. Leads(Popped, k)
  <2>1. Popped \in Streams
    BY <1>2, Fields
  <2>2. \A l : Aside(Popped, l) => Leads(Popped, l)
    BY <1>1, BelowGoes
  <2> HIDE DEF Popped
  <2>3. k \in Streams /\ SameData(Popped, k) /\ k.todo = Popped.todo /\ k.ticks = Popped.ticks
        /\ k.sync = Popped.sync
    BY <2>1 DEF Streams, SameData
  <2> QED
    BY <1>2, <2>2, <2>3, FlagsAside
<1>6. Leads(Popped, state')
  BY <1>4, <1>5 DEF MoreRead
<1> QED
  BY <1>1, <1>6, PopKeeps

\* resume_
LEMMA ResumeTickKeeps ==
  ASSUME Inv, ResumeTick
  PROVE  Inv' /\ EndStep
<1>1. Others /\ Running("resume")
  BY SameIsOthers DEF ResumeTick
<1>2. Popped.ended \in BOOLEAN
  BY <1>1, BelowGoes
<1>3. <<Item("resumed")>> \in Seq(Plain(Popped.ended))
  BY <1>2, PlainItem, OneItem
<1> DEFINE k == Run(Popped, <<Item("resumed")>>)
<1>4. Over(Popped, k)
  BY <1>1, <1>3, BelowGoes
<1>5. 0 \in Nat \cup {All}
  OBVIOUS
<1>6. Leads(Popped, k) /\ Leads(Popped, Read(0, k))
  BY <1>1, <1>4, <1>5, BelowGoes
<1>7. Leads(Popped, state')
  BY <1>6 DEF ResumeTick
<1> QED
  BY <1>1, <1>7, PopKeeps

\* ... which flows.
LEMMA ResumedKeeps ==
  ASSUME Inv, Resumed
  PROVE  Inv' /\ EndStep
<1>1. Others /\ Running("resumed")
  BY SameIsOthers DEF Resumed
<1>2. Typed(Popped) /\ Popped.ended \in BOOLEAN
  BY <1>1, BelowGoes
<1> DEFINE k == [Popped EXCEPT !.resumeScheduled = FALSE]
           items == <<Item("flow"), Item("resumeRest")>>
<1>3. items \in Seq(Plain(Popped.ended))
  BY <1>2, PlainItem, TwoItems
<1>4. Aside(Popped, k)
  <2>1. Popped \in Streams
    BY <1>2, Fields
  <2> HIDE DEF Popped
  <2>2. k \in Streams /\ SameData(Popped, k) /\ k.todo = Popped.todo /\ k.ticks = Popped.ticks
        /\ k.sync = Popped.sync
    BY <2>1 DEF Streams, SameData
  <2> QED
    BY <1>2, <2>2, FlagsAside
<1>5. state' = Run(k, items)
  BY DEF Resumed
<1> HIDE DEF k, items
<1>6. Over(Popped, state')
  BY <1>2, <1>3, <1>4, <1>5, AsideRunOver
<1>7. Leads(Popped, state')
  BY <1>1, <1>6, BelowGoes
<1> QED
  BY <1>1, <1>7, PopKeeps

\* ... and reads ahead.
LEMMA ResumeRestKeeps ==
  ASSUME Inv, ResumeRest
  PROVE  Inv' /\ EndStep
<1>1. Others /\ Running("resumeRest")
  BY SameIsOthers DEF ResumeRest
<1>2. 0 \in Nat \cup {All}
  OBVIOUS
<1>3. Leads(Popped, state')
  BY <1>1, <1>2, BelowGoes DEF ResumeRest
<1> QED
  BY <1>1, <1>3, PopKeeps

\* A handler of the user's returns.
LEMMA UserReturnsKeeps ==
  ASSUME Inv, UserReturns
  PROVE  Inv' /\ EndStep
<1>1. Others /\ Running("user") /\ state' = Popped
  BY SameIsOthers DEF UserReturns
<1>2. state.todo # <<>> /\ state.todo[1].k = "user" /\ ~Pending(state.todo[1])
  BY <1>1, Top
<1>3. /\ Core(Popped, chunks, pushed, taken) /\ Typed(Popped) /\ SameData(state, Popped)
      /\ EndLone(Popped)
      /\ ~Barge => Told(Popped.todo, taken, got, listeners, steady)
  BY <1>2, PoppedGoes
<1>4. Aside(Popped, state')
  BY <1>1, <1>3 DEF Aside, SameData
<1> QED
  BY <1>1, <1>3, <1>4, AsideKeeps

\* The body of _read, a push() of it, and what a push() goes on with.
LEMMA PushingKeeps ==
  ASSUME Inv, Others, NEW k, k \notin {"user", "data"}, Running(k), Aside(Popped, state')
  PROVE  Inv' /\ EndStep
<1>1. state.todo # <<>> /\ state.todo[1].k = k /\ ~Pending(state.todo[1])
  BY Top
<1>2. /\ Core(Popped, chunks, pushed, taken) /\ SameData(state, Popped) /\ EndLone(Popped)
      /\ ~Barge => Told(Popped.todo, taken, got, listeners, steady)
  BY <1>1, PoppedGoes
<1> QED
  BY <1>2, AsideKeeps

\* A call of push() returns.
LEMMA PushedKeeps ==
  ASSUME Inv, Pushed
  PROVE  Inv' /\ EndStep
<1>1. Others /\ Running("pushed")
  BY DEF Pushed, Others, dest, hist
<1> DEFINE wanted == IF state.eager THEN NeedMoreData(state) ELSE Popped.wanted
           k == [Popped EXCEPT !.wanted = wanted]
<1>2. state' = k
  BY DEF Pushed
<1>3. Typed(Popped) /\ Popped \in Streams
  BY <1>1, Top, PoppedGoes, Fields
<1>4. wanted \in BOOLEAN
  <2>1. Popped.wanted \in BOOLEAN
    BY <1>3 DEF Streams
  <2>2. NeedMoreData(state) \in BOOLEAN
    BY DEF NeedMoreData
  <2> QED
    BY <2>1, <2>2
<1> HIDE DEF wanted
<1>5. Aside(Popped, state')
  <2> HIDE DEF Popped
  <2>1. k \in Streams /\ SameData(Popped, k) /\ k.todo = Popped.todo /\ k.ticks = Popped.ticks
        /\ k.sync = Popped.sync
    BY <1>3, <1>4 DEF Streams, SameData
  <2> QED
    BY <1>2, <1>3, <2>1, FlagsAside
<1> QED
  BY <1>1, <1>5, PushingKeeps

\* push() goes on.
LEMMA PushMoreKeeps ==
  ASSUME Inv, PushMore
  PROVE  Inv' /\ EndStep
<1>1. Others /\ Running("pushMore")
  BY DEF PushMore, Others, dest, hist
<1>2. Typed(Popped)
  BY <1>1, Top, PoppedGoes
<1>3. Aside(Popped, state')
  BY <1>2, MaybeReadMoreGoes DEF PushMore
<1> QED
  BY <1>1, <1>3, PushingKeeps

\* _read returns.
LEMMA BodyReturnsKeeps ==
  ASSUME Inv, BodyReturns
  PROVE  Inv' /\ EndStep
<1>1. Others /\ Running("body")
  BY DEF BodyReturns, Others, dest, hist
<1>2. state.todo # <<>> /\ state.todo[1].k = "body" /\ Typed(state) /\ Reads(state)
  BY <1>1, Top DEF Inv, Core
<1>3. Typed(Popped) /\ SameData(state, Popped) /\ Popped.todo = Tail(state.todo) /\ Popped \in Streams
  BY <1>2, PoppedGoes, Fields
<1> DEFINE k == [Popped EXCEPT !.sync = FALSE]
<1>4. state' = k
  BY DEF BodyReturns
<1>5. Typed(k) /\ SameData(Popped, k) /\ k.todo = Popped.todo
  <2> HIDE DEF Popped
  <2>1. k \in Streams /\ SameData(Popped, k) /\ k.todo = Popped.todo /\ k.ticks = Popped.ticks
    BY <1>3 DEF Streams, SameData
  <2> QED
    BY <1>3, <2>1 DEF Typed, SameData
<1> HIDE DEF k, Popped
<1>6. Reads(k)
  <2>1. k.todo = Tail(state.todo) /\ k.length = state.length
    BY <1>3, <1>5 DEF SameData
  <2> QED
    BY <1>2, <2>1, PopReads
<1>7. Leads(Popped, state')
  BY <1>4, <1>5, <1>6 DEF Leads
<1> QED
  BY <1>1, <1>7, PopKeeps

\* A destination is ended in a tick.
LEMMA EndLateKeeps ==
  ASSUME Inv, EndLate
  PROVE  Inv' /\ EndStep
<1>1. Others /\ Running("endLate") /\ state' = Popped
  BY DEF EndLate, Others, hist
<1>2. Typed(Popped)
  BY <1>1, Top, PoppedGoes
<1>3. Aside(Popped, state')
  BY <1>1, <1>2 DEF Aside, SameData
<1> QED
  BY <1>1, <1>3, PushingKeeps

\* The tick of 'end': what was taken is then all that was pushed.
LEMMA EndKeeps ==
  ASSUME Inv, End
  PROVE  Inv' /\ EndStep
<1>1. Others /\ Running("end")
  BY DEF End, Others, hist
<1>2. /\ state.todo # <<>> /\ state.todo[1].k = "end" /\ ~Pending(state.todo[1])
      /\ state.todo[1] \in Items(state.ended)
  BY <1>1, Top
<1>3. /\ Core(Popped, chunks, pushed, taken) /\ Typed(Popped) /\ SameData(state, Popped)
      /\ Popped.todo = Tail(state.todo)
      /\ ~Barge => Told(Popped.todo, taken, got, listeners, steady) /\ Quiet(Popped.todo)
  BY <1>2, PoppedGoes
<1>4. CASE ~NothingLeft
  <2>1. Aside(Popped, state')
    BY <1>3, <1>4 DEF End, Aside, SameData
  <2> QED
    BY <1>1, <2>1, PushingKeeps
<1>5. CASE NothingLeft
  <2> DEFINE k == [Popped EXCEPT !.endEmitted = TRUE]
             l == Run(k, <<Item("user")>>)
  <2>1. state' = l /\ state.length = 0 /\ ~state.endEmitted
    BY <1>5 DEF End, NothingLeft
  <2>2. state.ended /\ state.ended \in BOOLEAN /\ chunks = MaxChunks
    BY <1>2, Fields DEF Items, Inv, Core, Ending
  <2>3. Popped.todo = <<>>
    <3>1. state.todo \in Seq(Items(state.ended)) /\ Len(state.todo) \in Nat \ {0}
      BY <1>2, Fields DEF Inv, Core
    <3>2. Len(state.todo) = 1
      BY <1>2, <3>1 DEF Inv, EndLone
    <3>3. Tail(state.todo) \in Seq(Items(state.ended)) /\ Len(Tail(state.todo)) = 0
      <4>1. 1 - 1 = 0
        OBVIOUS
      <4> QED
        BY <1>2, <3>1, <3>2, <4>1, TailElements
    <3> QED
      BY <1>3, <3>3, EmptySeq
  <2>4. Popped.length = 0 /\ Popped.ended /\ Popped \in Streams
    BY <1>3, <2>1, <2>2, Fields DEF SameData
  <2> HIDE DEF Popped
  <2>5. /\ Typed(k) /\ k.todo = <<>> /\ k.endEmitted /\ k.buffer = Popped.buffer /\ k.ended
        /\ k.length = 0
    <3>1. /\ k \in Streams /\ k.todo = Popped.todo /\ k.ticks = Popped.ticks
          /\ k.ended = Popped.ended /\ k.endEmitted /\ k.buffer = Popped.buffer
          /\ k.length = Popped.length
      BY <2>4 DEF Streams
    <3> QED
      BY <1>3, <2>3, <2>4, <3>1 DEF Typed
  <2> HIDE DEF k
  <2>6. Core(k, chunks, pushed, taken) /\ Calm(k)
    <3>1. Bytes(k, pushed, taken) /\ Ending(k, chunks)
      BY <1>3, <2>2, <2>4, <2>5 DEF Core, Bytes, Ending
    <3>2. Calm(k)
      <4>1. Len(k.todo) = 0
        BY <2>5
      <4> QED
        BY <4>1 DEF Calm
    <3> QED
      BY <2>5, <3>1, <3>2, CalmReads DEF Core
  <2>7. Leads(k, l)
    <3>1. <<Item("user")>> \in Seq(Plain(k.ended))
      BY <2>5, Fields, PlainItem, OneItem
    <3>2. Over(k, l)
      BY <2>5, <3>1, RunOver
    <3> QED
      BY <2>6, <3>2, FreeGoes
  <2>8. Core(l, chunks, pushed, taken)
    BY <2>6, <2>7, LeadsCore
  <2>9. EndLone(k)
    <3>1. Len(k.todo) = 0
      BY <2>5
    <3> QED
      BY <3>1 DEF EndLone
  <2>10. EndLone(l)
    BY <2>5, <2>7, <2>9, LeadsLast
  <2>11. ~Barge => Told(l.todo, taken, got, listeners, steady)
    <3>1. Quiet(k.todo)
      <4>1. Len(k.todo) = 0
        BY <2>5
      <4> QED
        BY <4>1 DEF Quiet
    <3>2. Quiet(l.todo)
      BY <2>7, <3>1, LeadsQuiet
    <3> QED
      BY <1>3, <3>2, QuietTold
  <2>12. Inv'
    BY <1>1, <2>1, <2>8, <2>10, <2>11 DEF Inv, Others
  <2>13. taken = Numbers(pushed)
    <3>1. /\ taken \in Seq(Nat) /\ state.buffer \in Buffers
          /\ taken \o FlattenSeq(state.buffer) = Numbers(pushed)
          /\ Len(FlattenSeq(state.buffer)) = 0
      BY <2>1, Fields DEF Inv, Core, Bytes
    <3>2. FlattenSeq(state.buffer) = <<>>
      BY <3>1, Flattened
    <3> QED
      BY <3>1, <3>2, ConcatEmptySeq
  <2> QED
    BY <2>1, <2>2, <2>12, <2>13 DEF EndStep
<1> QED
  BY <1>4, <1>5

\* A tick begins.
LEMMA RunTickKeeps ==
  ASSUME Inv, RunTick
  PROVE  Inv' /\ EndStep
<1>1. Others /\ Idle /\ state.ticks # <<>>
  BY SameIsOthers DEF RunTick
<1>2. /\ state.todo = <<>> /\ Quiet(state.todo) /\ Core(state, chunks, pushed, taken)
      /\ Typed(state) /\ state \in Streams /\ state.ended \in BOOLEAN
      /\ state.ticks \in Seq(Ticks(state.ended))
  BY <1>1, IdleGoes, Fields
<1> DEFINE item == Head(state.ticks)
           rest == Tail(state.ticks)
           todo == <<item>>
           k == [state EXCEPT !.todo = todo, !.ticks = rest]
<1>3. state' = k
  BY DEF RunTick
<1>4. item \in Ticks(state.ended) /\ rest \in Seq(Ticks(state.ended))
  BY <1>1, <1>2, HeadTailProperties
<1>5. todo \in Seq(Items(state.ended)) /\ Len(todo) = 1 /\ todo[1] = item
  <2>1. item \in Items(state.ended)
    BY <1>4 DEF Ticks
  <2> HIDE DEF item
  <2> QED
    BY <2>1, OneItem
<1>6. item.k \in TickKinds
  BY <1>4 DEF Ticks
<1> HIDE DEF todo, rest, item
<1>7. Typed(k) /\ SameData(state, k) /\ k.todo = todo
  <2>1. todo \in Seq(Items(TRUE)) /\ rest \in Seq(Items(TRUE))
    BY <1>2, <1>4, <1>5, ItemsGrow
  <2>2. k \in Streams /\ SameData(state, k) /\ k.todo = todo /\ k.ticks = rest
    BY <1>2, <2>1 DEF Streams, SameData
  <2> QED
    BY <1>4, <1>5, <2>2 DEF Typed, SameData
<1> HIDE DEF k
<1>8. \A i \in 1 .. Len(k.todo) : k.todo[i].k \in TickKinds
  <2>1. \A i \in 1 .. 1 : i = 1
    OBVIOUS
  <2> QED
    BY <1>5, <1>6, <1>7, <2>1
<1>9. Core(k, chunks, pushed, taken)
  <2>1. Calm(k)
    BY <1>8 DEF Calm, TickKinds, Counts
  <2>2. Reads(k)
    BY <2>1, CalmReads
  <2> QED
    BY <1>2, <1>7, <2>2 DEF Core, SameData, Bytes, Ending
<1>10. EndLone(k)
  BY <1>5, <1>7, <1>8 DEF EndLone, TickKinds
<1>11. ~Barge => Told(k.todo, taken, got, listeners, steady)
  <2>1. Quiet(k.todo)
    BY <1>8 DEF Quiet, Pending, DueTo, TickKinds
  <2> QED
    BY <1>2, <2>1, QuietTold DEF Inv
<1>12. Inv'
  BY <1>1, <1>3, <1>9, <1>10, <1>11 DEF Inv, Others
<1>13. EndStep
  BY <1>1, <1>3, <1>7 DEF EndStep, SameData, Others
<1> QED
  BY <1>12, <1>13

-----------------------------------------------------------------------------
(* Bytes that leave the stream. *)

\* One item on top.
LEMMA RunOne ==
  ASSUME NEW m, Typed(m), NEW item \in Items(m.ended)
  PROVE  \A l : l = Run(m, <<item>>) =>
            /\ Typed(l) /\ SameData(m, l) /\ l.sync = m.sync
            /\ Len(l.todo) = Len(m.todo) + 1 /\ l.todo[1] = item
            /\ \A i \in 2 .. Len(l.todo) : i - 1 \in 1 .. Len(m.todo) /\ l.todo[i] = m.todo[i - 1]
<1> DEFINE k == Run(m, <<item>>)
           s == <<item>>
<1>1. s \in Seq(Items(m.ended)) /\ Len(s) = 1 /\ s[1] = item
  BY OneItem
<1> HIDE DEF s
<1>2. Typed(k) /\ SameData(m, k) /\ k.todo = s \o m.todo /\ k.sync = m.sync
  BY <1>1, RunTyped DEF s
<1>3. m.todo \in Seq(Items(m.ended)) /\ Len(m.todo) \in Nat
  BY Fields
<1>4. /\ Len(s \o m.todo) = 1 + Len(m.todo)
      /\ \A i \in 1 .. 1 + Len(m.todo) : (s \o m.todo)[i] = IF i <= 1 THEN s[i] ELSE m.todo[i - 1]
  <2>1. /\ Len(s \o m.todo) = Len(s) + Len(m.todo)
        /\ \A i \in 1 .. Len(s) + Len(m.todo) :
             (s \o m.todo)[i] = IF i <= Len(s) THEN s[i] ELSE m.todo[i - Len(s)]
    BY <1>1, <1>3, ConcatProperties
  <2> QED
    BY <1>1, <2>1
<1> HIDE DEF k
<1>5. /\ Len(k.todo) = Len(m.todo) + 1
      /\ \A i \in 1 .. Len(m.todo) + 1 : k.todo[i] = IF i <= 1 THEN s[i] ELSE m.todo[i - 1]
  BY <1>2, <1>3, <1>4
<1>6. k.todo[1] = item
  BY <1>1, <1>3, <1>5
<1>7. \A i \in 2 .. Len(k.todo) : i - 1 \in 1 .. Len(m.todo) /\ k.todo[i] = m.todo[i - 1]
  BY <1>3, <1>5
<1> QED
  BY <1>2, <1>5, <1>6, <1>7 DEF k

\* 'data' is emitted.
LEMMA EmitDataGoes ==
  ASSUME NEW m, Typed(m), listeners \in Seq(Dests \cup {User}), NEW bytes \in Seq(Nat),
         NEW k, k = EmitData(m, bytes)
  PROVE  /\ Typed(k) /\ SameData(m, k)
         /\ Len(k.todo) = Len(m.todo) + 1 /\ Len(m.todo) \in Nat
         /\ k.todo[1].k = "data" /\ k.todo[1].to = listeners /\ k.todo[1].chunk = bytes
         /\ \A i \in 2 .. Len(k.todo) : i - 1 \in 1 .. Len(m.todo) /\ k.todo[i] = m.todo[i - 1]
         /\ Calm(m) => Calm(k)
<1> DEFINE item == [Item("data") EXCEPT !.to = listeners, !.chunk = bytes]
<1>1. item \in Items(m.ended) /\ item.k = "data" /\ item.to = listeners /\ item.chunk = bytes
  <2>1. "data" \in Kinds \ {"end", "cleanup"} /\ m.ended \in BOOLEAN
    BY Fields DEF Kinds
  <2>2. Item("data") \in Items(m.ended) /\ Item("data").k = "data"
    BY <2>1, NewItem
  <2> PICK x : x = Item("data")
    OBVIOUS
  <2> DEFINE y == [x EXCEPT !.to = listeners, !.chunk = bytes]
  <2>3. /\ x \in [k : Kinds, orig : Nat \cup {All}, n : Nat, to : Seq(Dests \cup {User}),
                  chunk : Seq(Nat)]
        /\ x.k = "data"
    BY <2>2 DEF Items
  <2>4. /\ y \in [k : Kinds, orig : Nat \cup {All}, n : Nat, to : Seq(Dests \cup {User}),
                  chunk : Seq(Nat)]
        /\ y.k = "data" /\ y.to = listeners /\ y.chunk = bytes
    BY <2>3
  <2>5. y \in Items(m.ended)
    BY <2>4 DEF Items
  <2> QED
    BY <2>4, <2>5
<1>2. k = Run(m, <<item>>)
  BY DEF EmitData
<1> HIDE DEF item
<1>3. /\ Typed(k) /\ SameData(m, k) /\ Len(k.todo) = Len(m.todo) + 1 /\ k.todo[1] = item
      /\ \A i \in 2 .. Len(k.todo) : i - 1 \in 1 .. Len(m.todo) /\ k.todo[i] = m.todo[i - 1]
  BY <1>1, <1>2, RunOne
<1>4. Len(m.todo) \in Nat
  BY Fields
<1>5. ASSUME Calm(m), NEW i \in 1 .. Len(k.todo)
      PROVE  k.todo[i].k \notin Counts
  <2>1. CASE i = 1
    BY <1>1, <1>3, <2>1 DEF Counts
  <2>2. CASE i # 1
    <3>1. i \in 2 .. Len(k.todo)
      BY <1>3, <1>4, <2>2
    <3> QED
      BY <1>3, <1>5, <3>1 DEF Calm
  <2> QED
    BY <2>1, <2>2
<1> QED
  BY <1>1, <1>3, <1>4, <1>5 DEF Calm

\* The bytes that are emitted are the next to be taken.
LEMMA EmitTold ==
  ASSUME NEW todo, NEW new, Len(todo) \in Nat, Len(new) = Len(todo) + 1,
         \A i \in 2 .. Len(new) : i - 1 \in 1 .. Len(todo) /\ new[i] = todo[i - 1],
         NEW t \in Seq(Nat), NEW bytes \in Seq(Nat), bytes # <<>>,
         \A i \in 1 .. Len(bytes) : bytes[i] = Len(t) + i,
         NEW g, NEW ls, NEW st, IsInjective(ls), Told(todo, t, g, ls, st), Quiet(todo),
         new[1].k = "data", new[1].to = ls, new[1].chunk = bytes
  PROVE  Told(new, t \o bytes, g, ls, st)
<1> DEFINE u == t \o bytes
<1>1. Len(t) \in Nat /\ Len(bytes) \in Nat /\ Len(u) = Len(t) + Len(bytes)
  BY ConcatProperties
<1>2. g \in [Dests -> Seq(Nat)] /\ Given(t, g) /\ st \subseteq Dests
  BY DEF Told
<1>3. Given(u, g)
  <2>1. \A n \in 1 .. Len(t) : n \in 1 .. Len(u)
    BY <1>1
  <2> HIDE DEF u
  <2> QED
    BY <1>2, <2>1 DEF Given
<1>4. Due(new[1], u, g)
  <2>1. Len(u) - Len(new[1].chunk) = Len(t)
    BY <1>1
  <2>2. \A d \in Dests : \A i \in 1 .. Len(g[d]) : g[d][i] \in 1 .. Len(t)
    BY <1>2 DEF Given
  <2>3. \A d \in Dests : \A i \in 1 .. Len(g[d]) : g[d][i] <= Len(t)
    BY <1>1, <2>2
  <2> HIDE DEF u
  <2> QED
    BY <1>1, <2>1, <2>3 DEF Due
<1>5. ASSUME NEW i \in 1 .. Len(new), Pending(new[i])
      PROVE  i = 1
  <2> SUFFICES ASSUME i # 1 PROVE FALSE
    OBVIOUS
  <2>1. i \in 2 .. Len(new)
    OBVIOUS
  <2> QED
    BY <1>5, <2>1 DEF Quiet
<1>6. ASSUME NEW d \in st
      PROVE  d \in ToSet(ls) /\ HasAll(d, new, u, g)
  <2>1. d \in Dests /\ d \in ToSet(ls) /\ HasAll(d, todo, t, g)
    BY DEF Told
  <2>2. g[d] = t
    BY <2>1 DEF HasAll, Quiet, Pending
  <2>3. DueTo(new[1], d) /\ 1 \in 1 .. Len(new)
    BY <2>1 DEF DueTo
  <2>4. \A i \in 1 .. Len(new) : DueTo(new[i], d) => i = 1
    BY <1>5, <2>1 DEF Pending
  <2> QED
    BY <2>1, <2>2, <2>3, <2>4 DEF HasAll
<1> HIDE DEF u
<1>7. \A i \in 1 .. Len(new) : Pending(new[i]) => OnTop(i, new) /\ Due(new[i], u, g)
  BY <1>4, <1>5 DEF OnTop
<1>8. Told(new, u, g, ls, st)
  BY <1>2, <1>3, <1>6, <1>7 DEF Told
<1> QED
  BY <1>8 DEF u

Joined(t, r, p) == t \o r = Numbers(p)

\* The bytes pushed, in three parts.
LEMMA NextBytes ==
  \A t, b, r \in Seq(Nat) : \A p \in Nat :
    Joined(t, b \o r, p) =>
      /\ Joined(t \o b, r, p) /\ t \o b \in Seq(Nat)
      /\ \A i \in 1 .. Len(b) : b[i] = Len(t) + i
<1> TAKE t, b, r \in Seq(Nat)
<1> TAKE p \in Nat
<1> PICK c : c = b \o r
  OBVIOUS
<1> PICK d : d = t \o c
  OBVIOUS
<1>1. /\ (t \o b) \o r = d /\ t \o b \in Seq(Nat) /\ Len(t) \in Nat
      /\ \A i \in 1 .. Len(b) : Len(t) + i \in 1 .. Len(d) /\ d[Len(t) + i] = b[i]
  BY ThreeParts
<1> SUFFICES ASSUME d = Numbers(p)
             PROVE  \A i \in 1 .. Len(b) : b[i] = Len(t) + i
  BY <1>1 DEF Joined
<1>2. Len(d) = p /\ \A i \in 1 .. p : d[i] = i
  BY DEF Numbers
<1> QED
  BY <1>1, <1>2

\* The bytes that read() takes, and the stream that is left.
Takes(m, c, p, t, orig, n, bytes) ==
  /\ bytes \in Seq(Nat) /\ \A i \in 1 .. Len(bytes) : bytes[i] = Len(t) + i
  /\ bytes # <<>> => ~m.endEmitted
  /\ \E done :
       /\ Core(done, c, p, t \o bytes) /\ Calm(done) /\ done.todo = m.todo
       /\ done.endEmitted = m.endEmitted
       /\ TakeFrom(orig, n, m) = IF bytes = <<>> THEN ReturnsNull(orig, done)
                                                 ELSE EmitData(done, bytes)

\* What read() takes once _read has returned: the next bytes, and no other change of
\* the data.
LEMMA TakeFromGoes ==
  ASSUME NEW m, NEW c, NEW p, NEW t, Core(m, c, p, t), Calm(m), NEW orig, NEW n \in 0 .. m.length,
         NEW bytes, bytes = FromList(n, m)
  PROVE  Takes(m, c, p, t, orig, n, bytes)
<1>1. /\ Typed(m) /\ m.buffer \in Buffers /\ m.length \in Nat /\ m \in Streams
      /\ m.length = Len(FlattenSeq(m.buffer)) /\ p \in Nat /\ t \in Seq(Nat)
      /\ t \o FlattenSeq(m.buffer) = Numbers(p) /\ m.ended \in BOOLEAN
  BY Fields DEF Core, Bytes
<1>2. /\ bytes \in Seq(Nat) /\ Len(bytes) = n /\ Kept(n, m) \in Buffers
      /\ FlattenSeq(m.buffer) = bytes \o FlattenSeq(Kept(n, m))
      /\ Len(FlattenSeq(Kept(n, m))) = m.length - n
  BY <1>1, FromListTakes
<1> DEFINE buffer == Kept(n, m)
           count == IF bytes = <<>> THEN 0 ELSE n
           need == m.needReadable \/ bytes = <<>> \/ (m.length = count /\ ~m.ended)
           length == m.length - count
           rest == [m EXCEPT !.buffer = buffer, !.length = length, !.needReadable = need]
           past == orig # count /\ m.ended /\ rest.length = 0
           done == IF past THEN EndReadable(rest) ELSE rest
<1>3. count = n
  <2>1. bytes = <<>> => n = 0
    BY <1>2
  <2> QED
    BY <2>1
<1>4. TakeFrom(orig, n, m) = IF bytes = <<>> THEN ReturnsNull(orig, done) ELSE EmitData(done, bytes)
  BY DEF TakeFrom
<1>5. length \in Nat /\ need \in BOOLEAN /\ length = Len(FlattenSeq(buffer)) /\ buffer \in Buffers
      /\ length <= m.length
  <2>1. need \in BOOLEAN
    BY <1>1 DEF Streams
  <2>2. length = m.length - n
    BY <1>3
  <2>3. length = Len(FlattenSeq(buffer)) /\ buffer \in Buffers
    BY <1>2, <2>2
  <2> HIDE DEF length, need
  <2>4. length \in Nat /\ length <= m.length
    BY <1>1, <2>2
  <2> QED
    BY <2>1, <2>3, <2>4
<1>6. FlattenSeq(buffer) \in Seq(Nat)
  BY <1>5, Flattened
<1>7. (t \o bytes) \o FlattenSeq(buffer) = Numbers(p) /\ t \o bytes \in Seq(Nat)
      /\ \A i \in 1 .. Len(bytes) : bytes[i] = Len(t) + i
  <2> PICK r : r = FlattenSeq(buffer)
    OBVIOUS
  <2>1. Joined(t, bytes \o r, p)
    BY <1>1, <1>2 DEF Joined
  <2>2. t \in Seq(Nat) /\ bytes \in Seq(Nat) /\ r \in Seq(Nat) /\ p \in Nat
    BY <1>1, <1>2, <1>6
  <2>3. /\ Joined(t \o bytes, r, p) /\ t \o bytes \in Seq(Nat)
        /\ \A i \in 1 .. Len(bytes) : bytes[i] = Len(t) + i
    BY <2>1, <2>2, NextBytes
  <2> QED
    BY <2>3 DEF Joined
<1>8. bytes # <<>> => ~m.endEmitted
  <2>1. m.endEmitted => m.length = 0
    BY DEF Core, Ending
  <2>2. n = 0 => bytes = <<>>
    BY <1>2
  <2> QED
    BY <2>1, <2>2
<1> HIDE DEF need, length, buffer, count
<1>9. /\ Typed(rest) /\ rest.todo = m.todo /\ rest.ended = m.ended /\ rest.endEmitted = m.endEmitted
      /\ rest.buffer = buffer /\ rest.length = length
  <2>1. /\ rest \in Streams /\ rest.todo = m.todo /\ rest.ticks = m.ticks /\ rest.ended = m.ended
        /\ rest.endEmitted = m.endEmitted /\ rest.buffer = buffer /\ rest.length = length
    BY <1>1, <1>5 DEF Streams, Buffers
  <2> QED
    BY <1>1, <2>1 DEF Typed
<1> HIDE DEF rest
<1>10. Core(rest, c, p, t \o bytes) /\ Calm(rest)
  <2>1. Bytes(rest, p, t \o bytes)
    BY <1>1, <1>5, <1>7, <1>9 DEF Bytes
  <2>2. Ending(rest, c)
    <3>1. m.length = 0 => length = 0
      BY <1>5
    <3> QED
      BY <1>9, <3>1 DEF Core, Ending
  <2>3. Calm(rest) /\ Reads(rest)
    BY <1>9, CalmReads DEF Calm
  <2> QED
    BY <1>9, <2>1, <2>2, <2>3 DEF Core
<1>11. Aside(rest, done)
  <2>1. Aside(rest, rest)
    BY <1>9 DEF Aside, SameData
  <2>2. past => Aside(rest, EndReadable(rest))
    BY <1>9, EndReadableGoes
  <2> QED
    BY <2>1, <2>2
<1> HIDE DEF done
<1>12. Core(done, c, p, t \o bytes) /\ Calm(done) /\ done.todo = m.todo /\ done.endEmitted = m.endEmitted
  <2>1. done.todo = rest.todo /\ done.endEmitted = rest.endEmitted
    BY <1>11 DEF Aside, SameData
  <2> QED
    BY <1>9, <1>10, <1>11, <2>1, AsideCore DEF Calm
<1> QED
  BY <1>2, <1>4, <1>7, <1>8, <1>12 DEF Takes

\* read() returns: what it returns was counted before, or is counted now.
LEMMA ReadReturnsKeeps ==
  ASSUME Inv, ReadReturns
  PROVE  Inv' /\ EndStep
<1> DEFINE item == Head(state.todo)
           again == item.k = "afterRead" /\ ~state.reading
           n == IF again THEN HowMuchToRead(item.orig, Popped) ELSE item.n
           m == IF again THEN Demand(item.orig, Popped) ELSE Popped
           bytes == FromList(n, m)
<1>1. /\ state' = TakeFrom(item.orig, n, m) /\ taken' = taken \o bytes
      /\ UNCHANGED <<listeners, chunks, held, pushed, got, steady>>
  BY DEF ReadReturns, dest
<1>2. PICK kind \in {"afterRead", "rest"} : Running(kind)
  BY DEF ReadReturns
<1>3. /\ state.todo # <<>> /\ state.todo[1].k = kind /\ item = state.todo[1]
      /\ item \in Items(state.ended) /\ ~Pending(state.todo[1])
  BY <1>2, Top
<1>4. /\ Core(Popped, chunks, pushed, taken) /\ Typed(Popped) /\ SameData(state, Popped)
      /\ EndLone(Popped) /\ Calm(Popped)
      /\ \A i \in 1 .. Len(Popped.todo) : Popped.todo[i].k # "end"
      /\ ~Barge => Told(Popped.todo, taken, got, listeners, steady) /\ Quiet(Popped.todo)
  BY <1>2, <1>3, PoppedGoes
<1>5. item.orig \in Nat \cup {All} /\ item.n \in Nat /\ item.n <= state.length
  <2>1. item.orig \in Nat \cup {All} /\ item.n \in Nat
    BY <1>3 DEF Items
  <2>2. 1 \in 1 .. Len(state.todo)
    <3>1. state.todo \in Seq(Items(state.ended))
      BY Fields DEF Inv, Core
    <3> QED
      BY <1>3, <3>1
  <2> QED
    BY <1>2, <1>3, <2>1, <2>2 DEF Inv, Core, Reads
<1> HIDE DEF item, Popped
<1>6. Popped.length = Len(FlattenSeq(Popped.buffer)) /\ Popped.length = state.length /\ Popped.length \in Nat
  BY <1>4, Fields DEF Core, Bytes, SameData
<1>7. Aside(Popped, m)
  <2>1. Aside(Popped, Demand(item.orig, Popped)) /\ Aside(Popped, Popped)
    BY <1>4, <1>5, DemandGoes DEF Aside, SameData
  <2> QED
    BY <2>1
<1>8. n \in 0 .. Popped.length
  <2>1. HowMuchToRead(item.orig, Popped) \in 0 .. Popped.length
    BY <1>4, <1>5, <1>6, HowMuchIsThere
  <2>2. item.n \in 0 .. Popped.length
    BY <1>5, <1>6
  <2> QED
    BY <2>1, <2>2
<1> HIDE DEF n, m, bytes
<1>9. /\ Core(m, chunks, pushed, taken) /\ Calm(m) /\ m.todo = Popped.todo /\ m.length = Popped.length
      /\ m.endEmitted = state.endEmitted
  <2>1. m.todo = Popped.todo /\ m.length = Popped.length /\ m.endEmitted = state.endEmitted
    BY <1>4, <1>7 DEF Aside, SameData
  <2> QED
    BY <1>4, <1>7, <2>1, AsideCore DEF Calm
<1>10. Takes(m, chunks, pushed, taken, item.orig, n, bytes)
  <2>1. n \in 0 .. m.length /\ bytes = FromList(n, m)
    BY <1>8, <1>9 DEF bytes
  <2>2. Core(m, chunks, pushed, taken) /\ Calm(m)
    BY <1>9
  <2> QED
    BY <2>1, <2>2, TakeFromGoes
<1>11. PICK done :
         /\ Core(done, chunks, pushed, taken') /\ Calm(done) /\ done.todo = Popped.todo
         /\ done.endEmitted = state.endEmitted
         /\ state' = IF bytes = <<>> THEN ReturnsNull(item.orig, done) ELSE EmitData(done, bytes)
  BY <1>1, <1>9, <1>10 DEF Takes
<1>12. Typed(done) /\ EndLone(done) /\ \A i \in 1 .. Len(done.todo) : done.todo[i].k # "end"
  BY <1>4, <1>11 DEF Core, EndLone, SameData
<1>13. taken \in Seq(Nat)
  BY DEF Inv, Core, Bytes
<1>14. Around(listeners, held)
  BY DEF Inv
<1>15. CASE bytes = <<>>
  <2>1. taken' = taken
    BY <1>1, <1>13, <1>15, ConcatEmptySeq
  <2>2. Leads(done, state')
    <3>1. Over(done, state')
      BY <1>11, <1>12, <1>15, ReturnsNullGoes
    <3> QED
      BY <1>11, <3>1, OverLeads
  <2>3. Core(state', chunks, pushed, taken')
    BY <1>11, <2>2, LeadsCore
  <2>4. EndLone(state')
    <3>1. done.todo # <<>> => done.todo[1].k # "end"
      <4>1. done.todo \in Seq(Items(done.ended))
        BY <1>12, Fields
      <4>2. done.todo # <<>> => 1 \in 1 .. Len(done.todo)
        BY <4>1
      <4> QED
        BY <1>12, <4>2
    <3> QED
      BY <1>12, <2>2, <3>1, LeadsLast
  <2>5. ~Barge => Told(state'.todo, taken, got, listeners, steady)
    BY <1>4, <1>11, <2>2, LeadsQuiet, QuietTold
  <2>6. Inv'
    BY <1>1, <1>14, <2>1, <2>3, <2>4, <2>5 DEF Inv
  <2>7. EndStep
    BY <1>1, <1>11, <2>1, <2>2 DEF EndStep, Leads, SameData
  <2> QED
    BY <2>6, <2>7
<1>16. CASE bytes # <<>>
  <2>1. state' = EmitData(done, bytes) /\ ~state.endEmitted /\ ~done.endEmitted
    BY <1>9, <1>10, <1>11, <1>16 DEF Takes
  <2>2. /\ Typed(state') /\ SameData(done, state') /\ Calm(state')
        /\ Len(state'.todo) = Len(done.todo) + 1 /\ Len(done.todo) \in Nat
        /\ state'.todo[1].k = "data" /\ state'.todo[1].to = listeners /\ state'.todo[1].chunk = bytes
        /\ \A i \in 2 .. Len(state'.todo) :
             i - 1 \in 1 .. Len(done.todo) /\ state'.todo[i] = done.todo[i - 1]
    <3>1. Typed(done) /\ Calm(done) /\ bytes \in Seq(Nat) /\ listeners \in Seq(Dests \cup {User})
      BY <1>10, <1>11, <1>12, <1>14 DEF Around, Takes
    <3> PICK k : k = state'
      OBVIOUS
    <3>2. k = EmitData(done, bytes)
      BY <2>1
    <3> QED
      BY <3>1, <3>2, EmitDataGoes, SMTT(60)
  <2>3. Core(state', chunks, pushed, taken')
    <3>1. Reads(state')
      BY <2>2, CalmReads
    <3> QED
      BY <1>11, <2>2, <3>1 DEF Core, Bytes, Ending, SameData
  <2>4. EndLone(state')
    <3>1. \A i \in 1 .. Len(state'.todo) : i = 1 \/ i \in 2 .. Len(state'.todo)
      BY <2>2
    <3>2. \A i \in 1 .. Len(state'.todo) : state'.todo[i].k # "end"
      BY <1>12, <2>2, <3>1
    <3>3. ~state'.endEmitted
      BY <2>1, <2>2 DEF SameData
    <3> QED
      BY <3>2, <3>3 DEF EndLone
  <2>5. ~Barge => Told(state'.todo, taken', got, listeners, steady)
    <3> SUFFICES ASSUME ~Barge PROVE Told(state'.todo, taken \o bytes, got, listeners, steady)
      BY <1>1
    <3>1. Told(done.todo, taken, got, listeners, steady) /\ Quiet(done.todo) /\ IsInjective(listeners)
      BY <1>4, <1>11, <1>14 DEF Around
    <3> QED
      BY <1>10, <1>13, <1>16, <2>2, <3>1, EmitTold DEF Takes
  <2>6. Inv'
    BY <1>1, <1>14, <2>3, <2>4, <2>5 DEF Inv
  <2>7. EndStep
    <3>1. state'.endEmitted = state.endEmitted
      BY <1>11, <2>2 DEF SameData
    <3> QED
      BY <2>1, <3>1 DEF EndStep
  <2> QED
    BY <2>6, <2>7
<1> QED
  BY <1>15, <1>16

-----------------------------------------------------------------------------
(* The implementation pushes. *)

\* A chunk of n bytes that follows the first p.
Following(p, n) == [i \in 1 .. n |-> p + i]

\* The numbers go on.
LEMMA NumbersGoOn ==
  ASSUME NEW p \in Nat, NEW n \in Nat
  PROVE  /\ Following(p, n) \in Seq(Nat) /\ Len(Following(p, n)) = n
         /\ \A i \in 1 .. n : Following(p, n)[i] = p + i
         /\ Numbers(p) \in Seq(Nat) /\ Len(Numbers(p)) = p
         /\ Numbers(p) \o Following(p, n) = Numbers(p + n)
<1> DEFINE chunk == Following(p, n)
<1>1. /\ chunk \in Seq(Nat) /\ Len(chunk) = n /\ \A i \in 1 .. n : chunk[i] = p + i
  BY DEF Following
<1> DEFINE s == Numbers(p)
           u == Numbers(p + n)
<1>2. /\ s \in Seq(Nat) /\ Len(s) = p /\ \A i \in 1 .. p : s[i] = i
      /\ u \in Seq(Nat) /\ Len(u) = p + n /\ \A i \in 1 .. p + n : u[i] = i
  BY DEF Numbers
<1> HIDE DEF s, u
<1> PICK b : b = chunk
  OBVIOUS
<1>3. b \in Seq(Nat) /\ Len(b) = n /\ \A i \in 1 .. n : b[i] = p + i
  BY <1>1
<1> PICK c : c = s \o b
  OBVIOUS
<1>4. /\ s \o b \in Seq(Nat) /\ Len(s \o b) = Len(s) + Len(b)
      /\ \A i \in 1 .. Len(s) + Len(b) : (s \o b)[i] = IF i <= Len(s) THEN s[i] ELSE b[i - Len(s)]
  BY <1>2, <1>3, ConcatProperties
<1>5. c \in Seq(Nat) /\ Len(c) = p + n /\ \A i \in 1 .. p + n : c[i] = IF i <= p THEN s[i] ELSE b[i - p]
  BY <1>2, <1>3, <1>4
<1>6. ASSUME NEW i \in 1 .. p + n
      PROVE  c[i] = u[i]
  <2>1. CASE i <= p
    BY <1>2, <1>5, <2>1
  <2>2. CASE ~(i <= p)
    <3>1. i - p \in 1 .. n /\ p + (i - p) = i
      BY <2>2
    <3> QED
      BY <1>2, <1>3, <1>5, <2>2, <3>1
  <2> QED
    BY <2>1, <2>2
<1>7. c = u
  BY <1>2, <1>5, <1>6, SeqEqual
<1> QED
  BY <1>1, <1>2, <1>7 DEF s, u

\* When a push() may happen: in the body of _read, which is sync, or when nothing runs.
LEMMA MayPushGoes ==
  ASSUME Inv, MayPush
  PROVE  /\ Core(state, chunks, pushed, taken) /\ Typed(state) /\ Reads(state) /\ EndLone(state)
         /\ state.todo = <<>> \/ state.todo[1].k # "end"
         /\ \/ Idle /\ Calm(state)
            \/ state.todo # <<>> /\ state.todo[1].k = "body" /\ state.sync
         /\ ~Barge => Told(state.todo, taken, got, listeners, steady) /\ Quiet(state.todo)
<1>1. /\ Core(state, chunks, pushed, taken) /\ Typed(state) /\ Reads(state) /\ EndLone(state)
      /\ ~Barge => Told(state.todo, taken, got, listeners, steady)
  BY DEF Inv, Core
<1>2. \/ Idle /\ state.todo = <<>> /\ Calm(state)
      \/ state.todo # <<>> /\ state.todo[1].k = "body" /\ state.sync
  <2>1. CASE Idle
    BY <2>1, IdleGoes
  <2>2. CASE Running("body")
    <3>1. state.todo # <<>> /\ state.todo[1].k = "body"
      BY <2>2, Top
    <3>2. 1 \in 1 .. Len(state.todo)
      <4>1. state.todo \in Seq(Items(state.ended))
        BY <1>1, Fields
      <4> QED
        BY <3>1, <4>1
    <3> QED
      BY <1>1, <3>1, <3>2 DEF Reads
  <2> QED
    BY <2>1, <2>2 DEF MayPush
<1>3. ~Barge => Quiet(state.todo)
  BY <1>1, <1>2, TopQuiet
<1> QED
  BY <1>1, <1>2, <1>3

\* emitReadable in a push() puts nothing above the body of _read.
LEMMA EmitReadableLeads ==
  ASSUME NEW m, Typed(m), Reads(m), Calm(m) \/ m.sync
  PROVE  Leads(m, EmitReadable(m)) /\ \A k : Aside(m, k) => Leads(m, k)
<1>1. ASSUME NEW k, Aside(m, k)
      PROVE  Leads(m, k)
  <2>1. Typed(k) /\ SameData(m, k) /\ k.todo = m.todo /\ k.sync = m.sync /\ k.length = m.length
    BY <1>1 DEF Aside, SameData
  <2>2. Reads(k)
    BY <2>1 DEF Reads
  <2> QED
    BY <2>1, <2>2 DEF Leads
<1>2. Calm(m) => Leads(m, EmitReadable(m))
  BY EmitReadableGoes, OverLeads
<1>3. m.sync => Leads(m, EmitReadable(m))
  BY <1>1, EmitReadableGoes
<1> QED
  BY <1>1, <1>2, <1>3

\* A push() goes on above the body of _read.
LEMMA PushReads ==
  ASSUME NEW m, Typed(m), Reads(m), NEW kind \in {"pushed", "pushMore"}
  PROVE  \A l : l = Run(m, <<Item(kind)>>) => Reads(l) /\ Over(m, l) /\ Typed(l) /\ l.sync = m.sync
<1> DEFINE item == Item(kind)
           k == Run(m, <<item>>)
<1>1. item \in Plain(m.ended) /\ item \in Items(m.ended) /\ item.k = kind
  BY Fields, PlainItem DEF Plain
<1>2. k = Run(m, <<item>>)
  OBVIOUS
<1> HIDE DEF item
<1>3. /\ Typed(k) /\ SameData(m, k) /\ k.sync = m.sync /\ k.todo[1] = item
      /\ \A i \in 2 .. Len(k.todo) : i - 1 \in 1 .. Len(m.todo) /\ k.todo[i] = m.todo[i - 1]
  BY <1>1, <1>2, RunOne
<1>4. Over(m, k)
  BY <1>1, <1>2, OneItem, RunOver
<1> HIDE DEF k
<1>5. ASSUME NEW i \in 1 .. Len(k.todo)
      PROVE  /\ k.todo[i].k = "body" =>
                  k.sync /\ \A j \in 1 .. i - 1 : k.todo[j].k \in {"pushed", "pushMore"}
             /\ k.todo[i].k \in {"afterRead", "rest"} =>
                  /\ k.todo[i].n <= k.length
                  /\ \A j \in 1 .. i - 1 : k.todo[j].k \in {"body", "pushed", "pushMore"}
  <2>1. CASE i = 1
    BY <1>1, <1>3, <2>1
  <2>2. CASE i # 1
    <3>1. i \in 2 .. Len(k.todo) /\ Len(k.todo) \in Nat
      BY <1>3, <2>2, Fields
    <3>2. i - 1 \in 1 .. Len(m.todo) /\ k.todo[i] = m.todo[i - 1]
      BY <1>3, <3>1
    <3>3. ASSUME NEW j \in 1 .. i - 1
          PROVE  \/ k.todo[j].k \in {"pushed", "pushMore"}
                 \/ j - 1 \in 1 .. (i - 1) - 1 /\ k.todo[j] = m.todo[j - 1]
      <4>1. CASE j = 1
        BY <1>1, <1>3, <4>1
      <4>2. CASE j # 1
        <5>1. j \in 2 .. Len(k.todo) /\ j - 1 \in 1 .. (i - 1) - 1
          BY <3>1, <4>2
        <5> QED
          BY <1>3, <5>1
      <4> QED
        BY <4>1, <4>2
    <3>4. /\ m.todo[i - 1].k = "body" =>
               m.sync /\ \A j \in 1 .. (i - 1) - 1 : m.todo[j].k \in {"pushed", "pushMore"}
          /\ m.todo[i - 1].k \in {"afterRead", "rest"} =>
               /\ m.todo[i - 1].n <= m.length
               /\ \A j \in 1 .. (i - 1) - 1 : m.todo[j].k \in {"body", "pushed", "pushMore"}
      BY <3>2 DEF Reads
    <3>5. k.length = m.length
      BY <1>3 DEF SameData
    <3>6. CASE k.todo[i].k = "body"
      BY <1>3, <3>2, <3>3, <3>4, <3>6
    <3>7. CASE k.todo[i].k \in {"afterRead", "rest"}
      BY <3>2, <3>3, <3>4, <3>5, <3>7
    <3> QED
      BY <3>6, <3>7
  <2> QED
    BY <2>1, <2>2
<1>6. Reads(k)
  BY <1>5 DEF Reads
<1> QED
  BY <1>3, <1>4, <1>6 DEF k, item

\* push(null)
LEMMA PushEofKeeps ==
  ASSUME Inv, PushEof
  PROVE  Inv' /\ EndStep
<1>1. Others /\ MayPush /\ chunks = MaxChunks
  BY DEF PushEof, Others, dest, hist
<1>2. /\ Core(state, chunks, pushed, taken) /\ Typed(state) /\ Reads(state) /\ EndLone(state)
      /\ state.todo = <<>> \/ state.todo[1].k # "end"
      /\ Calm(state) \/ state.sync
      /\ ~Barge => Told(state.todo, taken, got, listeners, steady) /\ Quiet(state.todo)
      /\ state \in Streams
  BY <1>1, MayPushGoes, Fields
<1> DEFINE told == [state EXCEPT !.reading = FALSE, !.wanted = FALSE]
           over == [told EXCEPT !.ended = TRUE]
<1>3. Aside(state, told) /\ told \in Streams
  <2>1. told \in Streams /\ SameData(state, told) /\ told.todo = state.todo
        /\ told.ticks = state.ticks /\ told.sync = state.sync
    BY <1>2 DEF Streams, SameData
  <2> QED
    BY <1>2, <2>1, FlagsAside
<1>4. state' = IF state.ended THEN told ELSE EmitReadable(over)
  BY DEF PushEof
<1> HIDE DEF told
<1>5. CASE state.ended
  BY <1>1, <1>2, <1>3, <1>4, <1>5, AsideKeeps DEF SameData
<1>6. CASE ~state.ended
  <2>1. /\ Typed(over) /\ over.todo = state.todo /\ over.sync = state.sync
        /\ over.endEmitted = state.endEmitted /\ over.length = state.length
        /\ over.buffer = state.buffer /\ over.ended
    <3>1. /\ over \in Streams /\ over.todo = told.todo /\ over.ticks = told.ticks
          /\ over.sync = told.sync /\ over.endEmitted = told.endEmitted
          /\ over.length = told.length /\ over.buffer = told.buffer /\ over.ended = TRUE
      BY <1>3 DEF Streams
    <3>2. over.todo \in Seq(Items(TRUE)) /\ over.ticks \in Seq(Ticks(TRUE))
      BY <1>3, <3>1, Fields, ItemsGrow DEF Aside
    <3> QED
      BY <1>3, <3>1, <3>2 DEF Typed, Aside, SameData
  <2> HIDE DEF over
  <2>2. Core(over, chunks, pushed, taken) /\ (Calm(over) \/ over.sync)
    <3>1. Bytes(over, pushed, taken) /\ Ending(over, chunks) /\ Reads(over)
      BY <1>1, <1>2, <2>1 DEF Core, Bytes, Ending, Reads
    <3> QED
      BY <1>2, <2>1, <3>1 DEF Core, Calm
  <2>3. Leads(over, state')
    BY <1>4, <1>6, <2>1, <2>2, EmitReadableLeads DEF Core
  <2>4. Core(state', chunks, pushed, taken)
    BY <2>2, <2>3, LeadsCore
  <2>5. EndLone(over)
    BY <1>2, <2>1 DEF EndLone
  <2>6. EndLone(state')
    BY <1>2, <2>1, <2>3, <2>5, LeadsLast
  <2>7. ~Barge => Told(state'.todo, taken, got, listeners, steady)
    BY <1>2, <2>1, <2>3, LeadsQuiet, QuietTold
  <2>8. Inv'
    BY <1>1, <2>4, <2>6, <2>7 DEF Inv, Others
  <2>9. EndStep
    BY <1>1, <2>1, <2>3 DEF EndStep, Others, Leads, SameData
  <2> QED
    BY <2>8, <2>9
<1> QED
  BY <1>5, <1>6

Buffered(m, p, n) == [m EXCEPT !.length = @ + n, !.buffer = Append(@, Following(p, n))]

\* A chunk is buffered, behind what there is.
LEMMA BufferedGoes ==
  ASSUME NEW m, NEW c, NEW p, NEW t, Core(m, c, p, t), c < MaxChunks, NEW n \in Nat
  PROVE  /\ Core(Buffered(m, p, n), c + 1, p + n, t) /\ Buffered(m, p, n).todo = m.todo
         /\ Buffered(m, p, n).sync = m.sync /\ Buffered(m, p, n).endEmitted = m.endEmitted
<1> DEFINE chunk == Following(p, n)
           length == m.length + n
           buffer == Append(m.buffer, chunk)
           k == [m EXCEPT !.length = length, !.buffer = buffer]
<1>1. /\ Typed(m) /\ m \in Streams /\ m.buffer \in Buffers /\ m.length \in Nat /\ p \in Nat
      /\ t \in Seq(Nat) /\ m.length = Len(FlattenSeq(m.buffer))
      /\ t \o FlattenSeq(m.buffer) = Numbers(p) /\ Reads(m) /\ Ending(m, c)
      /\ Len(m.todo) \in Nat /\ m.todo \in Seq(Items(m.ended))
  BY Fields DEF Core, Bytes
<1>2. /\ chunk \in Seq(Nat) /\ Len(chunk) = n /\ Numbers(p) \o chunk = Numbers(p + n)
  BY <1>1, NumbersGoOn
<1> HIDE DEF chunk
<1>3. buffer \in Buffers /\ FlattenSeq(buffer) = FlattenSeq(m.buffer) \o chunk
      /\ FlattenSeq(m.buffer) \in Seq(Nat)
  <2>1. m.buffer \in Seq(Seq(Nat))
    BY <1>1 DEF Buffers
  <2>2. FlattenSeq(buffer) = FlattenSeq(m.buffer) \o chunk /\ FlattenSeq(m.buffer) \in Seq(Nat)
    BY <1>2, <2>1, FlattenAppend
  <2>3. buffer \in Seq(Seq(Nat))
    <3> PICK Q : Q = Seq(Nat)
      OBVIOUS
    <3>1. m.buffer \in Seq(Q) /\ chunk \in Q
      BY <1>2, <2>1
    <3>2. Append(m.buffer, chunk) \in Seq(Q)
      BY <3>1, AppendElement
    <3> QED
      BY <3>2
  <2> QED
    BY <2>2, <2>3 DEF Buffers
<1>4. t \o FlattenSeq(buffer) = Numbers(p + n) /\ Len(FlattenSeq(buffer)) = length
  <2> PICK f : f = FlattenSeq(m.buffer)
    OBVIOUS
  <2>1. f \in Seq(Nat) /\ t \o f = Numbers(p)
    BY <1>1, <1>3
  <2>2. \A x, y, z \in Seq(Nat) : (x \o y) \o z = x \o (y \o z)
    BY ConcatAssociative
  <2>3. (t \o f) \o chunk = t \o (f \o chunk)
    BY <1>1, <1>2, <2>1, <2>2
  <2>4. Len(f \o chunk) = Len(f) + Len(chunk)
    BY <1>2, <2>1, ConcatProperties
  <2> QED
    BY <1>1, <1>2, <1>3, <2>1, <2>3, <2>4
<1>5. length \in Nat /\ m.length <= length
  BY <1>1
<1> HIDE DEF length, buffer
<1>6. /\ Typed(k) /\ k.todo = m.todo /\ k.sync = m.sync /\ k.ended = m.ended
      /\ k.endEmitted = m.endEmitted /\ k.length = length /\ k.buffer = buffer
  <2>1. /\ k \in Streams /\ k.todo = m.todo /\ k.ticks = m.ticks /\ k.sync = m.sync
        /\ k.ended = m.ended /\ k.endEmitted = m.endEmitted /\ k.length = length /\ k.buffer = buffer
    BY <1>1, <1>3, <1>5 DEF Streams, Buffers
  <2> QED
    BY <1>1, <2>1 DEF Typed
<1> HIDE DEF k
<1>7. Reads(k)
  <2>1. \A i \in 1 .. Len(m.todo) : m.todo[i].k \in {"afterRead", "rest"} => m.todo[i].n <= length
    <3> SUFFICES ASSUME NEW i \in 1 .. Len(m.todo), m.todo[i].k \in {"afterRead", "rest"}
                 PROVE  m.todo[i].n <= length
      OBVIOUS
    <3>1. m.todo[i].n \in Nat
      <4>1. m.todo[i] \in Items(m.ended)
        BY <1>1
      <4> QED
        BY <4>1 DEF Items
    <3>2. m.todo[i].n <= m.length
      BY <1>1 DEF Reads
    <3> QED
      BY <1>1, <1>5, <3>1, <3>2
  <2> QED
    BY <1>1, <1>6, <2>1 DEF Reads
<1>8. Ending(k, c + 1)
  BY <1>1, <1>6, ReadableAssumption DEF Ending
<1>9. p + n \in Nat
  BY <1>1
<1>10. Bytes(k, p + n, t)
  BY <1>1, <1>4, <1>6, <1>9 DEF Bytes
<1> QED
  BY <1>6, <1>7, <1>8, <1>10 DEF Core, Buffered, k, length, buffer, chunk

\* push(chunk)
LEMMA PushKeeps ==
  ASSUME Inv, NEW n \in Lengths, Push(n)
  PROVE  Inv' /\ EndStep
<1> DEFINE chunk == Following(pushed, n)
           told == [state EXCEPT !.reading = FALSE, !.wanted = state.eager]
           kept == [told EXCEPT !.length = @ + n, !.buffer = Append(@, chunk)]
           then == Run(kept, <<Item("pushed")>>)
           more == Run(then, <<Item("pushMore")>>)
           once == Run(told, <<ReadZero, Item("pushMore"), Item("pushed")>>)
<1>1. /\ MayPush /\ chunks < MaxChunks /\ chunks' = chunks + 1 /\ pushed' = pushed + n
      /\ UNCHANGED <<listeners, held, got, steady>>
      /\ \/ EmitsAtOnce(state) /\ state' = EmitData(once, chunk) /\ taken' = taken \o chunk
         \/ /\ state' = IF kept.needReadable THEN EmitReadable(more) ELSE MaybeReadMore(then)
            /\ taken' = taken
  BY DEF Push, Following, dest
<1>2. /\ Core(state, chunks, pushed, taken) /\ Typed(state) /\ Reads(state) /\ EndLone(state)
      /\ state.todo = <<>> \/ state.todo[1].k # "end"
      /\ \/ Idle /\ Calm(state)
         \/ state.todo # <<>> /\ state.todo[1].k = "body" /\ state.sync
      /\ ~Barge => Told(state.todo, taken, got, listeners, steady) /\ Quiet(state.todo)
      /\ state \in Streams /\ state.ended \in BOOLEAN
  BY <1>1, MayPushGoes, Fields
<1>3. n \in Nat \ {0} /\ MaxChunks \in Nat
  BY ReadableAssumption
<1>4. ~state.ended /\ ~state.endEmitted
  BY <1>1, <1>2, <1>3 DEF Core, Ending
<1>5. Aside(state, told)
  <2>1. told \in Streams /\ SameData(state, told) /\ told.todo = state.todo
        /\ told.ticks = state.ticks /\ told.sync = state.sync
    BY <1>2 DEF Streams, SameData
  <2> QED
    BY <1>2, <2>1, FlagsAside
<1> HIDE DEF told
<1>6. /\ Core(told, chunks, pushed, taken) /\ told.todo = state.todo /\ told.sync = state.sync
      /\ told.endEmitted = state.endEmitted /\ told.ended = state.ended /\ Typed(told)
      /\ Calm(state) => Calm(told)
  <2>1. told.todo = state.todo /\ told.sync = state.sync /\ told.endEmitted = state.endEmitted
        /\ told.ended = state.ended
    BY <1>5 DEF Aside, SameData
  <2> QED
    BY <1>2, <1>5, <2>1, AsideCore DEF Calm, Aside
<1>7. /\ pushed \in Nat /\ chunk \in Seq(Nat) /\ Len(chunk) = n /\ taken \in Seq(Nat)
      /\ \A i \in 1 .. n : chunk[i] = pushed + i
      /\ Len(Numbers(pushed)) = pushed /\ Numbers(pushed) \o chunk = Numbers(pushed + n)
  <2>1. pushed \in Nat /\ taken \in Seq(Nat)
    BY <1>2 DEF Core, Bytes
  <2> QED
    BY <1>3, <2>1, NumbersGoOn
<1>8. Around(listeners, held)
  BY DEF Inv
<1>9. CASE /\ state' = IF kept.needReadable THEN EmitReadable(more) ELSE MaybeReadMore(then)
           /\ taken' = taken
  <2>1. Core(kept, chunks + 1, pushed + n, taken) /\ kept.todo = told.todo /\ kept.sync = told.sync
        /\ kept.endEmitted = told.endEmitted
    <3>1. chunks < MaxChunks /\ n \in Nat /\ Core(told, chunks, pushed, taken)
      BY <1>1, <1>3, <1>6
    <3>2. kept = Buffered(told, pushed, n)
      BY DEF Buffered
    <3> HIDE DEF kept
    <3> QED
      BY <3>1, <3>2, BufferedGoes
  <2> HIDE DEF kept
  <2>2. Typed(kept) /\ Reads(kept) /\ (Calm(kept) \/ kept.sync)
    BY <1>2, <1>6, <2>1 DEF Core, Calm
  <2>3. Reads(then) /\ Over(kept, then) /\ Typed(then) /\ then.sync = kept.sync
    BY <2>2, PushReads
  <2> HIDE DEF then
  <2>4. Reads(more) /\ Over(then, more) /\ Typed(more) /\ more.sync = then.sync
    BY <2>3, PushReads
  <2> HIDE DEF more
  <2>5. (Calm(then) \/ then.sync) /\ (Calm(more) \/ more.sync)
    BY <2>2, <2>3, <2>4, OverCalm
  <2>6. Leads(more, EmitReadable(more)) /\ Leads(then, MaybeReadMore(then))
    BY <2>3, <2>4, <2>5, EmitReadableLeads, MaybeReadMoreGoes
  <2>7. Leads(kept, state')
    <3>1. Leads(kept, EmitReadable(more))
      BY <2>3, <2>4, <2>6, OverThenLeads
    <3>2. Leads(kept, MaybeReadMore(then))
      BY <2>3, <2>6, OverThenLeads
    <3> QED
      BY <1>9, <3>1, <3>2
  <2>8. Core(state', chunks', pushed', taken')
    BY <1>1, <1>9, <2>1, <2>7, LeadsCore
  <2>9. EndLone(kept)
    BY <1>2, <1>6, <2>1 DEF EndLone
  <2>10. EndLone(state')
    BY <1>2, <1>6, <2>1, <2>2, <2>7, <2>9, LeadsLast
  <2>11. ~Barge => Told(state'.todo, taken, got, listeners, steady)
    <3>1. ~Barge => Quiet(kept.todo)
      BY <1>2, <1>6, <2>1
    <3> QED
      BY <1>2, <2>7, <3>1, LeadsQuiet, QuietTold
  <2>12. Inv'
    BY <1>1, <1>8, <1>9, <2>8, <2>10, <2>11 DEF Inv
  <2>13. EndStep
    BY <1>1, <1>6, <1>9, <2>1, <2>7 DEF EndStep, Leads, SameData
  <2> QED
    BY <2>12, <2>13
<1>10. CASE EmitsAtOnce(state) /\ state' = EmitData(once, chunk) /\ taken' = taken \o chunk
  <2>1. Calm(told) /\ state.length = 0
    BY <1>2, <1>6, <1>10 DEF EmitsAtOnce
  <2>2. <<ReadZero, Item("pushMore"), Item("pushed")>> \in Seq(Plain(told.ended))
    <3>1. /\ ReadZero \in Plain(told.ended) /\ Item("pushMore") \in Plain(told.ended)
          /\ Item("pushed") \in Plain(told.ended)
      BY <1>2, <1>6, PlainItem DEF ReadZero
    <3> PICK S : S = Plain(told.ended)
      OBVIOUS
    <3> QED
      BY <3>1
  <2>3. Over(told, once) /\ Leads(told, once)
    BY <1>6, <2>1, <2>2, RunOver, OverLeads
  <2> HIDE DEF once
  <2>4. Typed(once) /\ SameData(told, once) /\ Calm(once)
    BY <2>1, <2>3, OverCalm DEF Over
  <2>5. listeners \in Seq(Dests \cup {User}) /\ IsInjective(listeners)
    BY <1>8 DEF Around
  <2> HIDE DEF chunk
  <2>6. /\ Typed(state') /\ SameData(once, state') /\ Calm(state')
        /\ Len(state'.todo) = Len(once.todo) + 1 /\ Len(once.todo) \in Nat
        /\ state'.todo[1].k = "data" /\ state'.todo[1].to = listeners /\ state'.todo[1].chunk = chunk
        /\ \A i \in 2 .. Len(state'.todo) :
             i - 1 \in 1 .. Len(once.todo) /\ state'.todo[i] = once.todo[i - 1]
    <3> PICK k : k = state'
      OBVIOUS
    <3>1. k = EmitData(once, chunk)
      BY <1>10
    <3> QED
      <4>1. chunk \in Seq(Nat) /\ Typed(once) /\ Calm(once) /\ listeners \in Seq(Dests \cup {User})
        BY <1>7, <2>4, <2>5
      <4> QED
        BY <3>1, <4>1, EmitDataGoes
  <2>7. /\ state'.buffer = state.buffer /\ state'.length = state.length
        /\ state'.ended = state.ended /\ state'.endEmitted = state.endEmitted
    BY <1>5, <2>4, <2>6 DEF Aside, SameData
  <2>8. FlattenSeq(state.buffer) = <<>> /\ taken = Numbers(pushed)
    <3>1. FlattenSeq(state.buffer) = <<>>
      BY <1>2, <2>1, Fields, Flattened DEF Core, Bytes
    <3> QED
      BY <1>2, <1>7, <3>1, ConcatEmptySeq DEF Core, Bytes
  <2>9. taken' \in Seq(Nat) /\ taken' = Numbers(pushed') /\ pushed' \in Nat
    <3>1. taken' = Numbers(pushed + n)
      BY <1>7, <1>10, <2>8
    <3>2. taken \o chunk \in Seq(Nat)
      BY <1>7, ConcatProperties
    <3> QED
      BY <1>1, <1>3, <1>7, <1>10, <3>1, <3>2
  <2>10. Core(state', chunks', pushed', taken')
    <3>1. FlattenSeq(state'.buffer) = <<>> /\ state'.length = 0
      BY <2>1, <2>7, <2>8
    <3>2. taken' \o <<>> = taken' /\ Len(<<>>) = 0
      BY <2>9, ConcatEmptySeq
    <3>3. Bytes(state', pushed', taken')
      BY <2>9, <3>1, <3>2 DEF Bytes
    <3>4. Ending(state', chunks')
      BY <1>1, <1>2, <1>3, <1>4, <2>7 DEF Core, Ending
    <3> QED
      BY <2>6, <3>3, <3>4, CalmReads DEF Core
  <2>11. EndLone(state')
    <3>1. \A i \in 1 .. Len(once.todo) : once.todo[i].k # "end"
      <4>1. EndLone(told) /\ (told.todo = <<>> \/ told.todo[1].k # "end")
        BY <1>2, <1>6 DEF EndLone
      <4> QED
        BY <1>6, <2>3, <4>1, LeadsLast
    <3>2. \A i \in 1 .. Len(state'.todo) : i = 1 \/ i \in 2 .. Len(state'.todo)
      BY <2>6
    <3> QED
      BY <1>4, <2>6, <2>7, <3>1, <3>2 DEF EndLone
  <2>12. ~Barge => Told(state'.todo, taken', got, listeners, steady)
    <3> SUFFICES ASSUME ~Barge PROVE Told(state'.todo, taken \o chunk, got, listeners, steady)
      BY <1>10
    <3>1. Quiet(told.todo) /\ Told(told.todo, taken, got, listeners, steady)
      BY <1>2, <1>6
    <3>2. Quiet(once.todo)
      BY <2>3, <3>1, LeadsQuiet
    <3>3. Told(once.todo, taken, got, listeners, steady)
      BY <3>1, <3>2, QuietTold
    <3>4. chunk # <<>> /\ \A i \in 1 .. Len(chunk) : chunk[i] = Len(taken) + i
      BY <1>3, <1>7, <2>8
    <3> QED
      BY <1>7, <2>5, <2>6, <3>2, <3>3, <3>4, EmitTold
  <2>13. Inv'
    BY <1>1, <1>8, <2>10, <2>11, <2>12 DEF Inv
  <2>14. EndStep
    BY <1>4, <2>7 DEF EndStep
  <2> QED
    BY <2>13, <2>14
<1> QED
  BY <1>1, <1>9, <1>10

-----------------------------------------------------------------------------
(* 'data' reaches its listeners, and destinations come and go. *)

\* The invariant of the stream, when no read() is under way.
LEMMA CalmCore ==
  ASSUME NEW m, NEW c, NEW p, NEW t, Core(m, c, p, t), NEW k, Typed(k), SameData(m, k), Calm(k)
  PROVE  Core(k, c, p, t)
<1>1. Reads(k)
  BY CalmReads
<1> QED
  BY <1>1 DEF Core, SameData, Bytes, Ending

\* An item of 'data' that has reached its first listener.
Onward(item) == [item EXCEPT !.to = Tail(@)]

\* Who is still to get the chunk.
LEMMA OnwardGoes ==
  ASSUME NEW e, NEW item \in Items(e), item.k = "data", item.to # <<>>
  PROVE  /\ Onward(item) \in Items(e) /\ Onward(item).k = "data" /\ Onward(item).chunk = item.chunk
         /\ Onward(item).to = Tail(item.to)
         /\ \A d \in Dests : DueTo(item, d) <=> (d = Head(item.to) \/ DueTo(Onward(item), d))
         /\ IsInjective(item.to) =>
              IsInjective(Tail(item.to)) /\ Head(item.to) \notin ToSet(Tail(item.to))
<1> DEFINE to == item.to
<1>1. to \in Seq(Dests \cup {User})
  BY DEF Items
<1>2. /\ Tail(to) \in Seq(Dests \cup {User}) /\ ToSet(to) = {Head(to)} \cup ToSet(Tail(to))
      /\ IsInjective(to) => IsInjective(Tail(to)) /\ Head(to) \notin ToSet(Tail(to))
  BY <1>1, TailElements
<1> DEFINE rest == Tail(to)
           x == [item EXCEPT !.to = rest]
<1>3. Onward(item) = x
  BY DEF Onward
<1>4. rest \in Seq(Dests \cup {User})
  BY <1>2
<1> HIDE DEF rest
<1>5. x \in Items(e) /\ x.k = "data" /\ x.chunk = item.chunk /\ x.to = rest
  BY <1>4 DEF Items
<1> HIDE DEF x
<1> QED
  BY <1>2, <1>3, <1>5 DEF DueTo, rest

\* Below the 'data' that runs, nothing is due.
LEMMA OnlyTop ==
  ASSUME NEW todo, NEW t, NEW g, NEW ls, NEW st, Told(todo, t, g, ls, st), todo[1].k = "data",
         NEW i \in 2 .. Len(todo)
  PROVE  ~Pending(todo[i])
<1> SUFFICES ASSUME Pending(todo[i]) PROVE FALSE
  OBVIOUS
<1>1. i \in 1 .. Len(todo) /\ i # 1
  <2>1. \A n : i \in 2 .. n => i \in 1 .. n /\ i # 1
    OBVIOUS
  <2> QED
    BY <2>1
<1> QED
  BY <1>1 DEF Told, OnTop

\* The chunk reaches the user, whose handler runs above what is left of 'data'.
LEMMA UserTold ==
  ASSUME NEW e, NEW todo \in Seq(Items(e)), todo # <<>>, todo[1].k = "data", todo[1].to # <<>>,
         Head(todo[1].to) = User,
         NEW t, NEW g, NEW ls, NEW st, Told(todo, t, g, ls, st),
         NEW new, Len(new) = Len(todo) + 1, new[1].k = "user", new[2] = Onward(todo[1]),
         \A i \in 3 .. Len(new) : i - 1 \in 2 .. Len(todo) /\ new[i] = todo[i - 1]
  PROVE  Told(new, t, g, ls, st)
<1> DEFINE item == todo[1]
           x == Onward(item)
<1>1. item \in Items(e) /\ 1 \in 1 .. Len(todo) /\ Len(todo) \in Nat
  OBVIOUS
<1>2. /\ x.k = "data" /\ x.chunk = item.chunk /\ x.to = Tail(item.to)
      /\ \A d \in Dests : DueTo(item, d) <=> (d = Head(item.to) \/ DueTo(x, d))
      /\ IsInjective(item.to) => IsInjective(Tail(item.to))
  BY <1>1, OnwardGoes
<1>3. \A d \in Dests : DueTo(item, d) <=> DueTo(x, d)
  BY <1>2, ReadableAssumption
<1> HIDE DEF item, x
<1>4. new[2] = x /\ todo[1] = item /\ 2 \in 1 .. Len(new)
  BY <1>1 DEF item, x
<1>5. ASSUME NEW i \in 1 .. Len(new), Pending(new[i])
      PROVE  i = 2
  <2>1. CASE i = 1
    BY <1>5, <2>1 DEF Pending, DueTo
  <2>2. CASE i \notin {1, 2}
    <3>1. i \in 3 .. Len(new)
      BY <1>1, <2>2
    <3>2. i - 1 \in 2 .. Len(todo) /\ new[i] = todo[i - 1]
      BY <3>1
    <3> QED
      BY <1>5, <3>2, OnlyTop
  <2> QED
    BY <2>1, <2>2
<1>6. Pending(x) => Due(x, t, g)
  <2> SUFFICES ASSUME Pending(x) PROVE Due(x, t, g)
    OBVIOUS
  <2>1. Pending(item)
    BY <1>3 DEF Pending
  <2>2. Due(item, t, g)
    BY <1>1, <1>4, <2>1 DEF Told
  <2> QED
    BY <1>2, <1>3, <2>2 DEF Due
<1>7. ASSUME NEW d \in st
      PROVE  d \in ToSet(ls) /\ HasAll(d, new, t, g)
  <2>1. d \in Dests /\ d \in ToSet(ls) /\ HasAll(d, todo, t, g)
    BY DEF Told
  <2>2. ASSUME NEW i \in 1 .. Len(new), DueTo(new[i], d)
        PROVE  g[d] \o new[i].chunk = t
    <3>1. i = 2
      BY <1>5, <2>1, <2>2 DEF Pending
    <3>2. DueTo(item, d) /\ new[i].chunk = item.chunk
      BY <1>2, <1>3, <1>4, <2>1, <2>2, <3>1
    <3> QED
      BY <1>1, <1>4, <2>1, <3>2 DEF HasAll
  <2>3. ASSUME \A i \in 1 .. Len(new) : ~DueTo(new[i], d)
        PROVE  g[d] = t
    <3>1. ~DueTo(item, d)
      BY <1>3, <1>4, <2>1, <2>3
    <3>2. \A i \in 1 .. Len(todo) : ~DueTo(todo[i], d)
      <4> TAKE i \in 1 .. Len(todo)
      <4>1. CASE i = 1
        BY <1>4, <3>1, <4>1
      <4>2. CASE i # 1
        <5>1. i \in 2 .. Len(todo)
          BY <1>1, <4>2
        <5>2. ~Pending(todo[i])
          BY <5>1, OnlyTop
        <5> QED
          BY <2>1, <5>2 DEF Pending
      <4> QED
        BY <4>1, <4>2
    <3> QED
      BY <2>1, <3>2 DEF HasAll
  <2> QED
    BY <2>1, <2>2, <2>3 DEF HasAll
<1>8. \A i \in 1 .. Len(new) : Pending(new[i]) => OnTop(i, new) /\ Due(new[i], t, g)
  BY <1>4, <1>5, <1>6 DEF OnTop
<1> QED
  BY <1>7, <1>8 DEF Told

\* A destination that gets the next chunk has still got its bytes in order.
LEMMA GivenMore ==
  ASSUME NEW t \in Seq(Nat), NEW g \in [Dests -> Seq(Nat)], Given(t, g), NEW h \in Dests,
         NEW chunk \in Seq(Nat), NEW before \in Nat, Len(t) = before + Len(chunk),
         \A i \in 1 .. Len(chunk) : chunk[i] = before + i,
         \A i \in 1 .. Len(g[h]) : g[h][i] <= before
  PROVE  Given(t, [g EXCEPT ![h] = g[h] \o chunk])
<1> DEFINE s == g[h]
           u == s \o chunk
           g2 == [g EXCEPT ![h] = u]
<1>1. /\ s \in Seq(Nat) /\ Len(s) \in Nat /\ Len(chunk) \in Nat
      /\ \A i \in 1 .. Len(s) : s[i] \in 1 .. Len(t) /\ s[i] <= before
      /\ \A i, j \in 1 .. Len(s) : i < j => s[i] < s[j]
  BY DEF Given
<1> HIDE DEF s
<1>2. /\ u \in Seq(Nat) /\ Len(u) = Len(s) + Len(chunk)
      /\ \A i \in 1 .. Len(s) + Len(chunk) : u[i] = IF i <= Len(s) THEN s[i] ELSE chunk[i - Len(s)]
  <2>1. s \in Seq(Nat)
    BY <1>1
  <2>2. /\ s \o chunk \in Seq(Nat) /\ Len(s \o chunk) = Len(s) + Len(chunk)
        /\ \A i \in 1 .. Len(s) + Len(chunk) :
             (s \o chunk)[i] = IF i <= Len(s) THEN s[i] ELSE chunk[i - Len(s)]
    BY <2>1, ConcatProperties
  <2> QED
    BY <2>2
<1> HIDE DEF u
<1>3. ASSUME NEW i \in 1 .. Len(u)
      PROVE  \/ i \in 1 .. Len(s) /\ u[i] = s[i]
             \/ i > Len(s) /\ i - Len(s) \in 1 .. Len(chunk) /\ u[i] = before + (i - Len(s))
  <2>1. CASE i <= Len(s)
    BY <1>1, <1>2, <2>1
  <2>2. CASE ~(i <= Len(s))
    <3>1. i - Len(s) \in 1 .. Len(chunk) /\ i > Len(s)
      BY <1>1, <1>2, <2>2, SMTT(60)
    <3> QED
      BY <1>2, <2>2, <3>1
  <2> QED
    BY <2>1, <2>2
<1>4. \A i \in 1 .. Len(u) : u[i] \in 1 .. Len(t)
  <2> TAKE i \in 1 .. Len(u)
  <2>1. i - Len(s) \in 1 .. Len(chunk) => before + (i - Len(s)) \in 1 .. Len(t)
    BY <1>1, <1>2
  <2> QED
    BY <1>1, <1>3, <2>1
<1>5. ASSUME NEW i \in 1 .. Len(u), NEW j \in 1 .. Len(u), i < j
      PROVE  u[i] < u[j]
  <2>1. i \in Int /\ j \in Int /\ Len(s) \in Int
    BY <1>1
  <2>2. CASE j \in 1 .. Len(s) /\ u[j] = s[j]
    <3>1. i \in 1 .. Len(s) /\ u[i] = s[i]
      BY <1>3, <1>5, <2>1, <2>2
    <3> QED
      BY <1>1, <1>5, <2>2, <3>1
  <2>3. CASE j > Len(s) /\ j - Len(s) \in 1 .. Len(chunk) /\ u[j] = before + (j - Len(s))
    <3>1. u[j] > before
      BY <1>1, <2>3
    <3>2. CASE i \in 1 .. Len(s) /\ u[i] = s[i]
      <4>1. u[i] \in Nat /\ u[i] <= before
        BY <1>1, <3>2
      <4>2. u[j] \in Nat
        BY <1>1, <2>3
      <4> QED
        BY <3>1, <4>1, <4>2
    <3>3. CASE i > Len(s) /\ i - Len(s) \in 1 .. Len(chunk) /\ u[i] = before + (i - Len(s))
      BY <1>5, <2>1, <2>3, <3>3
    <3> QED
      BY <1>3, <3>2, <3>3
  <2> QED
    BY <1>3, <2>2, <2>3
<1>6. ASSUME NEW d \in Dests
      PROVE  /\ g2[d] \in Seq(Nat)
             /\ \A i \in 1 .. Len(g2[d]) : g2[d][i] \in 1 .. Len(t)
             /\ \A i, j \in 1 .. Len(g2[d]) : i < j => g2[d][i] < g2[d][j]
  <2>1. CASE d = h
    <3>1. g2[d] = u
      BY <2>1
    <3> HIDE DEF g2
    <3> QED
      BY <1>2, <1>4, <1>5, <3>1
  <2>2. CASE d # h
    <3>1. g2[d] = g[d]
      BY <2>2
    <3> HIDE DEF g2
    <3> QED
      BY <3>1 DEF Given
  <2> QED
    BY <2>1, <2>2
<1>7. Given(t, g2)
  BY <1>6 DEF Given
<1> QED
  BY <1>7 DEF u, s

\* The chunk reaches a destination.
LEMMA DestTold ==
  ASSUME NEW e, NEW todo \in Seq(Items(e)), todo # <<>>, todo[1].k = "data", todo[1].to # <<>>,
         NEW h \in Dests, Head(todo[1].to) = h,
         NEW t \in Seq(Nat), NEW g, NEW ls, NEW st, Told(todo, t, g, ls, st),
         NEW new, Len(new) = Len(todo), new[1] = Onward(todo[1]),
         \A i \in 2 .. Len(new) : new[i] = todo[i]
  PROVE  Told(new, t, [g EXCEPT ![h] = g[h] \o todo[1].chunk], ls, st)
<1> DEFINE item == todo[1]
           x == Onward(item)
           g2 == [g EXCEPT ![h] = g[h] \o item.chunk]
<1>1. item \in Items(e) /\ 1 \in 1 .. Len(todo) /\ Len(todo) \in Nat /\ item.chunk \in Seq(Nat)
  <2>1. item \in Items(e) /\ 1 \in 1 .. Len(todo) /\ Len(todo) \in Nat
    OBVIOUS
  <2> QED
    BY <2>1 DEF Items
<1>2. /\ x.k = "data" /\ x.chunk = item.chunk /\ x.to = Tail(item.to)
      /\ \A d \in Dests : DueTo(item, d) <=> (d = h \/ DueTo(x, d))
      /\ IsInjective(item.to) => IsInjective(Tail(item.to)) /\ h \notin ToSet(Tail(item.to))
  BY <1>1, OnwardGoes
<1>3. Due(item, t, g) /\ g \in [Dests -> Seq(Nat)] /\ Given(t, g) /\ st \subseteq Dests
  BY <1>1, <1>2 DEF Told, Pending
<1>4. ~DueTo(x, h)
  BY <1>2, <1>3 DEF Due, DueTo
<1> HIDE DEF item, x
<1>5. new[1] = x /\ todo[1] = item
  BY DEF item, x
<1>6. g2 \in [Dests -> Seq(Nat)] /\ g2[h] = g[h] \o item.chunk /\ \A d \in Dests : d # h => g2[d] = g[d]
  <2>1. g[h] \o item.chunk \in Seq(Nat)
    BY <1>1, <1>3, ConcatProperties
  <2> QED
    BY <1>3, <2>1
<1>7. Given(t, g2)
  <2> DEFINE before == Len(t) - Len(item.chunk)
  <2>1. /\ before \in Nat /\ \A i \in 1 .. Len(item.chunk) : item.chunk[i] = before + i
        /\ \A i \in 1 .. Len(g[h]) : g[h][i] <= before
    BY <1>2, <1>3 DEF Due
  <2>2. Len(t) = before + Len(item.chunk)
    BY <1>1
  <2> HIDE DEF before
  <2> QED
    BY <1>1, <1>3, <2>1, <2>2, GivenMore
<1> HIDE DEF g2
<1>8. ASSUME NEW i \in 1 .. Len(new), Pending(new[i])
      PROVE  i = 1
  <2> SUFFICES ASSUME i # 1 PROVE FALSE
    OBVIOUS
  <2>1. i \in 2 .. Len(new)
    BY <1>1
  <2>2. new[i] = todo[i] /\ ~Pending(todo[i])
    BY <2>1, OnlyTop
  <2> QED
    BY <1>8, <2>2
<1>9. Due(x, t, g2)
  <2>1. \A d \in Dests : DueTo(x, d) => DueTo(item, d) /\ g2[d] = g[d]
    BY <1>2, <1>4, <1>6
  <2> QED
    BY <1>2, <1>3, <2>1 DEF Due
<1>10. ASSUME NEW d \in st
       PROVE  d \in ToSet(ls) /\ HasAll(d, new, t, g2)
  <2>1. d \in Dests /\ d \in ToSet(ls) /\ HasAll(d, todo, t, g)
    BY <1>3 DEF Told
  <2>2. ASSUME NEW i \in 1 .. Len(new), DueTo(new[i], d)
        PROVE  g2[d] \o new[i].chunk = t
    <3>1. i = 1 /\ new[i] = x
      BY <1>5, <1>8, <2>1, <2>2 DEF Pending
    <3>2. DueTo(item, d) /\ g2[d] = g[d] /\ x.chunk = item.chunk
      BY <1>2, <1>4, <1>6, <2>1, <2>2, <3>1
    <3> QED
      BY <1>1, <1>5, <2>1, <3>1, <3>2 DEF HasAll
  <2>3. ASSUME \A i \in 1 .. Len(new) : ~DueTo(new[i], d)
        PROVE  g2[d] = t
    <3>1. ~DueTo(x, d)
      BY <1>1, <1>5, <2>3
    <3>2. CASE d = h
      <4>1. DueTo(item, d)
        BY <1>2, <2>1, <3>2
      <4> QED
        BY <1>1, <1>5, <1>6, <2>1, <3>2, <4>1 DEF HasAll
    <3>3. CASE d # h
      <4>1. ~DueTo(item, d)
        BY <1>2, <2>1, <3>1, <3>3
      <4>2. \A i \in 1 .. Len(todo) : ~DueTo(todo[i], d)
        <5> TAKE i \in 1 .. Len(todo)
        <5>1. CASE i = 1
          BY <1>5, <4>1, <5>1
        <5>2. CASE i # 1
          <6>1. i \in 2 .. Len(todo)
            BY <1>1, <5>2
          <6>2. ~Pending(todo[i])
            BY <6>1, OnlyTop
          <6> QED
            BY <2>1, <6>2 DEF Pending
        <5> QED
          BY <5>1, <5>2
      <4> QED
        BY <1>6, <2>1, <3>3, <4>2 DEF HasAll
    <3> QED
      BY <3>2, <3>3
  <2> QED
    BY <2>1, <2>2, <2>3 DEF HasAll
<1>11. \A i \in 1 .. Len(new) : Pending(new[i]) => OnTop(i, new) /\ Due(new[i], t, g2)
  BY <1>5, <1>8, <1>9 DEF OnTop
<1>12. Told(new, t, g2, ls, st)
  BY <1>3, <1>6, <1>7, <1>10, <1>11 DEF Told
<1> QED
  BY <1>12 DEF g2, item

\* What is left of a 'data' that has reached its first listener.
LEMMA AfterGoes ==
  ASSUME Inv, Running("data"), state.todo[1].to # <<>>
  PROVE  \A l : l = Run(Popped, <<Onward(state.todo[1])>>) =>
            /\ Core(l, chunks, pushed, taken) /\ Typed(l) /\ Calm(l) /\ SameData(state, l)
            /\ EndLone(l) /\ l.todo[1].k = "data" /\ l.todo[1] = Onward(state.todo[1])
            /\ Len(l.todo) = Len(state.todo) /\ Len(l.todo) \in Nat
            /\ \A i \in 2 .. Len(l.todo) : l.todo[i] = state.todo[i]
<1> DEFINE item == state.todo[1]
           x == Onward(item)
<1>1. /\ state.todo # <<>> /\ item.k = "data" /\ item \in Items(state.ended)
      /\ state.todo \in Seq(Items(state.ended))
  BY Top, Fields DEF Inv, Core
<1>2. /\ Core(Popped, chunks, pushed, taken) /\ Typed(Popped) /\ SameData(state, Popped)
      /\ Popped.todo = Tail(state.todo) /\ Calm(Popped)
      /\ \A i \in 1 .. Len(Popped.todo) : Popped.todo[i].k # "end"
  BY <1>1, PoppedGoes
<1>3. /\ Len(Popped.todo) = Len(state.todo) - 1 /\ Len(state.todo) \in Nat \ {0}
      /\ \A i \in 1 .. Len(Popped.todo) : Popped.todo[i] = state.todo[i + 1]
  BY <1>1, <1>2, HeadTailProperties
<1>4. x \in Items(Popped.ended) /\ x.k = "data"
  BY <1>1, <1>2, OnwardGoes DEF SameData
<1> HIDE DEF x, Popped
<1>5. \A l : l = Run(Popped, <<x>>) =>
         /\ Typed(l) /\ SameData(Popped, l) /\ Len(l.todo) = Len(Popped.todo) + 1 /\ l.todo[1] = x
         /\ \A i \in 2 .. Len(l.todo) : i - 1 \in 1 .. Len(Popped.todo) /\ l.todo[i] = Popped.todo[i - 1]
  <2>1. Typed(Popped)
    BY <1>2
  <2>2. x \in Items(Popped.ended)
    BY <1>4
  <2> QED
    BY ONLY <2>1, <2>2, RunOne
<1> SUFFICES ASSUME NEW l, l = Run(Popped, <<x>>)
             PROVE  /\ Core(l, chunks, pushed, taken) /\ Typed(l) /\ Calm(l) /\ SameData(state, l)
                    /\ EndLone(l) /\ l.todo[1].k = "data" /\ l.todo[1] = x
                    /\ Len(l.todo) = Len(state.todo) /\ Len(l.todo) \in Nat
                    /\ \A i \in 2 .. Len(l.todo) : l.todo[i] = state.todo[i]
  BY DEF x
<1>6. Len(l.todo) = Len(state.todo) /\ Len(l.todo) \in Nat
  BY <1>3, <1>5
<1>7. \A i \in 2 .. Len(l.todo) : l.todo[i] = state.todo[i]
  <2> TAKE i \in 2 .. Len(l.todo)
  <2>1. i - 1 \in 1 .. Len(Popped.todo) /\ l.todo[i] = Popped.todo[i - 1] /\ (i - 1) + 1 = i
    BY <1>5, <1>6
  <2> QED
    BY <1>3, <2>1
<1>8. \A i \in 1 .. Len(l.todo) : i = 1 \/ i \in 2 .. Len(l.todo)
  BY <1>6
<1>9. Calm(l)
  <2>1. x.k \notin Counts
    BY <1>4 DEF Counts
  <2> QED
    BY <1>2, <1>5, <1>8, <2>1 DEF Calm
<1>10. Core(l, chunks, pushed, taken)
  BY <1>2, <1>5, <1>9, CalmCore
<1>11. SameData(state, l)
  BY <1>2, <1>5 DEF SameData
<1>12. EndLone(l)
  <2>1. \A i \in 1 .. Len(l.todo) : l.todo[i].k # "end"
    BY <1>2, <1>4, <1>5, <1>8
  <2>2. 1 \in 1 .. Len(state.todo)
    BY <1>3
  <2>3. state.endEmitted => FALSE
    BY <1>1, <2>2 DEF Inv, EndLone
  <2> QED
    BY <1>11, <2>1, <2>3 DEF EndLone, SameData
<1> QED
  BY <1>4, <1>5, <1>6, <1>7, <1>9, <1>10, <1>11, <1>12

\* 'data' reaches the next of its listeners, or has reached them all.
LEMMA DataKeeps ==
  ASSUME Inv, Data
  PROVE  Inv' /\ EndStep
<1> DEFINE item == state.todo[1]
           after == Run(Popped, <<Onward(item)>>)
<1>1. Running("data") /\ UNCHANGED <<listeners, chunks, pushed, taken, steady>>
  BY DEF Data
<1>2. /\ state.todo # <<>> /\ item.k = "data" /\ item \in Items(state.ended)
      /\ Head(state.todo) = item /\ state.todo \in Seq(Items(state.ended))
      /\ taken \in Seq(Nat) /\ Len(state.todo) \in Nat \ {0}
  BY <1>1, Top, Fields DEF Inv, Core, Bytes
<1>3. ~state.endEmitted
  <2>1. 1 \in 1 .. Len(state.todo)
    BY <1>2
  <2> QED
    BY <1>2, <2>1 DEF Inv, EndLone
<1>4. CASE item.to = <<>> /\ state' = Popped /\ UNCHANGED <<dest, got>>
  <2>1. ~Pending(item)
    BY <1>4 DEF Pending, DueTo, ToSet
  <2>2. /\ Core(Popped, chunks, pushed, taken) /\ Typed(Popped) /\ SameData(state, Popped)
        /\ EndLone(Popped) /\ (~Barge => Told(Popped.todo, taken, got, listeners, steady))
    BY <1>2, <2>1, PoppedGoes
  <2>3. Others /\ Aside(Popped, state')
    BY <1>1, <1>4, <2>2 DEF Others, dest, Aside, SameData
  <2> QED
    BY <2>2, <2>3, AsideKeeps
<1>5. CASE /\ item.to # <<>> /\ Head(item.to) = User /\ UNCHANGED <<dest, got>>
           /\ state' = Run(after, <<Item("user")>>)
  <2>1. /\ Core(after, chunks, pushed, taken) /\ Typed(after) /\ Calm(after)
        /\ SameData(state, after) /\ EndLone(after)
        /\ after.todo[1].k = "data" /\ after.todo[1] = Onward(item)
        /\ Len(after.todo) = Len(state.todo) /\ Len(after.todo) \in Nat
        /\ \A i \in 2 .. Len(after.todo) : after.todo[i] = state.todo[i]
    BY <1>1, <1>5, AfterGoes
  <2> HIDE DEF after
  <2>2. Item("user") \in Plain(after.ended) /\ Item("user") \in Items(after.ended)
        /\ Item("user").k = "user"
    BY <2>1, Fields, PlainItem DEF Plain
  <2>3. Over(after, state')
    <3>1. <<Item("user")>> \in Seq(Plain(after.ended))
      BY <2>2, OneItem
    <3> QED
      BY <1>5, <2>1, <3>1, RunOver
  <2>4. Leads(after, state')
    BY <2>1, <2>3, FreeGoes
  <2>5. Core(state', chunks, pushed, taken) /\ EndLone(state')
    BY <2>1, <2>4, LeadsCore, LeadsLast
  <2>6. /\ Len(state'.todo) = Len(after.todo) + 1 /\ state'.todo[1] = Item("user")
        /\ \A i \in 2 .. Len(state'.todo) :
             i - 1 \in 1 .. Len(after.todo) /\ state'.todo[i] = after.todo[i - 1]
    BY <1>5, <2>1, <2>2, RunOne
  <2>7. ASSUME ~Barge
        PROVE  Told(state'.todo, taken, got, listeners, steady)
    <3> PICK new : new = state'.todo
      OBVIOUS
    <3>1. 2 \in 2 .. Len(new) /\ 2 - 1 = 1
      BY <1>2, <2>1, <2>6
    <3>2. new[2] = Onward(item)
      BY <2>1, <2>6, <3>1
    <3>3. \A i \in 3 .. Len(new) : i - 1 \in 2 .. Len(state.todo) /\ new[i] = state.todo[i - 1]
      <4> TAKE i \in 3 .. Len(new)
      <4>1. i \in 2 .. Len(new) /\ i - 1 \in 2 .. Len(after.todo)
        BY <2>1, <2>6
      <4> QED
        BY <2>1, <2>6, <4>1
    <3>4. Told(state.todo, taken, got, listeners, steady)
      BY <2>7 DEF Inv
    <3>5. Len(new) = Len(state.todo) + 1 /\ new[1].k = "user"
      BY <2>1, <2>2, <2>6
    <3>6. Told(new, taken, got, listeners, steady)
      BY <1>2, <1>5, <3>2, <3>3, <3>4, <3>5, UserTold
    <3> QED
      BY <3>6
  <2>8. Inv'
    BY <1>1, <1>5, <2>5, <2>7 DEF Inv, dest
  <2>9. state'.endEmitted = state.endEmitted
    BY <2>1, <2>4 DEF Leads, SameData
  <2> QED
    BY <1>3, <2>8, <2>9 DEF EndStep
<1>6. ASSUME NEW d \in Dests, item.to # <<>>, Head(item.to) = d,
             held' = [held EXCEPT ![d] = @ + Len(item.chunk)],
             got' = [got EXCEPT ![d] = @ \o item.chunk],
             state' = after \/ state' = Pause([after EXCEPT !.awaitDrain = @ + 1])
      PROVE  Inv' /\ EndStep
  <2>1. /\ Core(after, chunks, pushed, taken) /\ Typed(after) /\ Calm(after)
        /\ SameData(state, after) /\ EndLone(after)
        /\ after.todo[1].k = "data" /\ after.todo[1] = Onward(item)
        /\ Len(after.todo) = Len(state.todo) /\ Len(after.todo) \in Nat
        /\ \A i \in 2 .. Len(after.todo) : after.todo[i] = state.todo[i]
    BY <1>1, <1>6, AfterGoes
  <2> HIDE DEF after
  <2>2. Aside(after, state')
    <3>1. CASE state' = after
      BY <2>1, <3>1 DEF Aside, SameData
    <3>2. CASE state' = Pause([after EXCEPT !.awaitDrain = @ + 1])
      <4> DEFINE more == [after EXCEPT !.awaitDrain = @ + 1]
      <4>1. after \in Streams /\ after.awaitDrain + 1 \in Nat
        BY <2>1, Fields
      <4>2. /\ more \in Streams /\ SameData(after, more) /\ more.todo = after.todo
            /\ more.ticks = after.ticks /\ more.sync = after.sync
        BY <4>1 DEF Streams, SameData
      <4> HIDE DEF more
      <4>3. Aside(after, more)
        BY <2>1, <4>2, FlagsAside
      <4>4. Aside(more, Pause(more))
        BY <4>3, PauseGoes DEF Aside
      <4> QED
        BY <3>2, <4>3, <4>4, AsideTransitive DEF more
    <3> QED
      BY <1>6, <3>1, <3>2
  <2>3. Core(state', chunks, pushed, taken) /\ state'.todo = after.todo
        /\ state'.endEmitted = state.endEmitted /\ after.endEmitted = state.endEmitted
    BY <2>1, <2>2, AsideCore DEF Aside, SameData
  <2>4. EndLone(state')
    BY <2>1, <2>3 DEF EndLone
  <2>5. Around(listeners, held')
    <3>1. item.chunk \in Seq(Nat)
      BY <1>2 DEF Items
    <3>2. Len(item.chunk) \in Nat
      BY <3>1
    <3>3. held \in [Dests -> Nat] /\ held[d] \in Nat
      BY DEF Inv, Around
    <3>4. \A a, b \in Nat : a + b \in Nat
      OBVIOUS
    <3>5. held[d] + Len(item.chunk) \in Nat
      BY <3>2, <3>3, <3>4
    <3> QED
      BY <1>6, <3>3, <3>5 DEF Inv, Around
  <2>6. ASSUME ~Barge
        PROVE  Told(state'.todo, taken, got', listeners, steady)
    <3>1. Told(state.todo, taken, got, listeners, steady)
      BY <2>6 DEF Inv
    <3> PICK new : new = after.todo
      OBVIOUS
    <3>2. /\ Len(new) = Len(state.todo) /\ new[1] = Onward(item)
          /\ \A i \in 2 .. Len(new) : new[i] = state.todo[i]
      BY <2>1
    <3>3. Told(new, taken, [got EXCEPT ![d] = got[d] \o item.chunk], listeners, steady)
      BY <1>2, <1>6, <3>1, <3>2, DestTold
    <3> QED
      BY <1>6, <2>3, <3>3
  <2>7. Inv'
    BY <1>1, <2>3, <2>4, <2>5, <2>6 DEF Inv
  <2> QED
    BY <1>3, <2>3, <2>7 DEF EndStep
<1>7. \/ item.to = <<>> /\ state' = Popped /\ UNCHANGED <<dest, got>>
      \/ /\ item.to # <<>> /\ Head(item.to) = User /\ UNCHANGED <<dest, got>>
         /\ state' = Run(after, <<Item("user")>>)
      \/ \E d \in Dests :
           /\ item.to # <<>> /\ Head(item.to) = d
           /\ held' = [held EXCEPT ![d] = @ + Len(item.chunk)]
           /\ got' = [got EXCEPT ![d] = @ \o item.chunk]
           /\ state' = after \/ state' = Pause([after EXCEPT !.awaitDrain = @ + 1])
  BY <1>2 DEF Data, Onward
<1> QED
  BY <1>4, <1>5, <1>6, <1>7

\* A destination that no longer listens may be forgotten.
LEMMA FewerTold ==
  ASSUME NEW todo, NEW t, NEW g, NEW ls, NEW st, Told(todo, t, g, ls, st),
         NEW fewer, NEW left \in SUBSET st, \A d \in left : d \in ToSet(fewer)
  PROVE  Told(todo, t, g, fewer, left)
<1> QED
  BY DEF Told

\* What is left of the cleaning up.
LEMMA CleanupGoes ==
  ASSUME Inv, Running("cleanup")
  PROVE  LET item == Head(state.todo)
             rest == Run(Popped, IF Len(item.to) = 1 THEN <<>>
                                 ELSE <<[item EXCEPT !.to = Tail(@)]>>)
         IN Over(Popped, rest) /\ \A ls : Leads(Popped, OnDrain(rest, ls)) /\ Leads(Popped, rest)
<1> DEFINE item == state.todo[1]
           x == [item EXCEPT !.to = Tail(@)]
           items == IF Len(item.to) = 1 THEN <<>> ELSE <<x>>
           rest == Run(Popped, items)
<1>1. item.k = "cleanup" /\ item \in Items(state.ended) /\ Head(state.todo) = item /\ state.todo # <<>>
  BY Top
<1>2. /\ Typed(Popped) /\ Popped.ended \in BOOLEAN
      /\ \A l : Over(Popped, l) => Leads(Popped, l)
      /\ \A s \in Seq(Plain(Popped.ended)) : Over(Popped, Run(Popped, s))
  BY BelowGoes
<1>3. state.ended = Popped.ended
  BY <1>1, PoppedGoes DEF SameData
<1>4. item.to \in Seq(Dests \cup {User}) /\ item.to # <<>>
  BY <1>1 DEF Items
<1>5. items \in Seq(Plain(Popped.ended))
  <2> DEFINE left == Tail(item.to)
  <2>1. left \in Seq(Dests \cup {User}) /\ Len(left) = Len(item.to) - 1 /\ Len(item.to) \in Nat \ {0}
    BY <1>4, TailElements
  <2>2. Len(item.to) # 1 => left # <<>>
    <3>1. \A n \in Nat \ {0} : n - 1 = 0 => n = 1
      OBVIOUS
    <3>2. left = <<>> => Len(left) = 0
      BY EmptySequence
    <3> HIDE DEF left, item
    <3> QED
      BY <2>1, <3>1, <3>2
  <2> HIDE DEF left
  <2>3. x = [item EXCEPT !.to = left]
    BY DEF left
  <2>4. Len(item.to) # 1 => x \in Items(state.ended) /\ x.k = "cleanup"
    BY <1>1, <2>1, <2>2, <2>3 DEF Items
  <2> HIDE DEF x
  <2>5. Len(item.to) # 1 => x \in Plain(Popped.ended)
    BY <1>3, <2>4 DEF Plain, Counts
  <2>6. Len(item.to) # 1 => <<x>> \in Seq(Plain(Popped.ended))
    BY <2>5, OneItem
  <2>7. <<>> \in Seq(Plain(Popped.ended))
    BY EmptySequence
  <2> QED
    BY <2>6, <2>7
<1> HIDE DEF items
<1>6. Over(Popped, rest)
  BY <1>2, <1>5
<1> HIDE DEF rest, Popped
<1>7. \A ls : Leads(Popped, OnDrain(rest, ls))
  <2> TAKE ls
  <2>1. Typed(rest)
    BY <1>6 DEF Over
  <2>2. Over(rest, OnDrain(rest, ls))
    BY <2>1, OnDrainGoes
  <2> QED
    BY <1>2, <1>6, <2>2, OverTransitive
<1> QED
  BY <1>1, <1>2, <1>6, <1>7 DEF rest, items

\* cleanup() of a destination, which leaves the listeners.
LEMMA CleanupKeeps ==
  ASSUME Inv, Cleanup
  PROVE  Inv' /\ EndStep
<1> DEFINE d == Head(Head(state.todo).to)
<1>1. /\ Running("cleanup") /\ UNCHANGED <<chunks, held, pushed, taken, got>>
      /\ listeners' = RemoveFirst(listeners, d) /\ steady' = steady \ {d}
  BY DEF Cleanup, dest
<1>2. Leads(Popped, state')
  BY <1>1, CleanupGoes DEF Cleanup
<1>3. state.todo # <<>> /\ state.todo[1].k = "cleanup" /\ ~Pending(state.todo[1])
  BY <1>1, Top
<1>4. /\ Core(Popped, chunks, pushed, taken) /\ Typed(Popped) /\ SameData(state, Popped)
      /\ EndLone(Popped) /\ (Popped.todo = <<>> \/ Popped.todo[1].k # "end")
      /\ ~Barge => Told(Popped.todo, taken, got, listeners, steady) /\ Quiet(Popped.todo)
  BY <1>3, PoppedGoes
<1> HIDE DEF d
<1>5. /\ RemoveFirst(listeners, d) \in Seq(Dests \cup {User}) /\ IsInjective(RemoveFirst(listeners, d))
      /\ ToSet(RemoveFirst(listeners, d)) = ToSet(listeners) \ {d} /\ held \in [Dests -> Nat]
  BY RemoveFirstElement DEF Inv, Around
<1>6. Around(listeners', held')
  BY <1>1, <1>5 DEF Around
<1>7. Core(state', chunks, pushed, taken) /\ EndLone(state')
  BY <1>2, <1>4, LeadsCore, LeadsLast
<1>8. ASSUME ~Barge
      PROVE  Told(state'.todo, taken, got, listeners', steady')
  <2>1. Told(state'.todo, taken, got, listeners, steady)
    BY <1>2, <1>4, <1>8, LeadsQuiet, QuietTold
  <2>2. steady' \in SUBSET steady /\ \A h \in steady' : h \in ToSet(listeners')
    BY <1>1, <1>5, <2>1 DEF Told
  <2> QED
    BY <2>1, <2>2, FewerTold
<1>9. state'.endEmitted = state.endEmitted
  BY <1>2, <1>4 DEF Leads, SameData
<1>10. Inv'
  BY <1>1, <1>6, <1>7, <1>8 DEF Inv
<1> QED
  BY <1>1, <1>9, <1>10 DEF EndStep

\* A destination has written what it holds.
LEMMA DestWritesKeeps ==
  ASSUME Inv, NEW d \in Dests, DestWrites(d)
  PROVE  Inv' /\ EndStep
<1>1. /\ Idle /\ UNCHANGED <<listeners, chunks, pushed, taken, got, steady>>
      /\ held' = [held EXCEPT ![d] = 0]
      /\ state' = state \/ state' = OnDrain(state, listeners)
  BY DEF DestWrites, hist
<1>2. /\ state.todo = <<>> /\ Len(state.todo) = 0 /\ Calm(state) /\ Quiet(state.todo)
      /\ Core(state, chunks, pushed, taken) /\ Typed(state) /\ EndLone(state)
  BY <1>1, IdleGoes
<1>3. Leads(state, state')
  <2>1. Over(state, OnDrain(state, listeners))
    BY <1>2, OnDrainGoes
  <2> QED
    BY <1>1, <1>2, <2>1, FreeGoes
<1>4. Core(state', chunks, pushed, taken) /\ EndLone(state')
  BY <1>2, <1>3, LeadsCore, LeadsLast
<1>5. ~Barge => Told(state'.todo, taken, got, listeners, steady)
  BY <1>2, <1>3, LeadsQuiet, QuietTold DEF Inv
<1>6. Around(listeners, held')
  BY <1>1 DEF Inv, Around
<1>7. state'.endEmitted = state.endEmitted
  BY <1>3 DEF Leads, SameData
<1>8. Inv'
  BY <1>1, <1>4, <1>5, <1>6 DEF Inv
<1> QED
  BY <1>1, <1>7, <1>8 DEF EndStep

\* The source unpipes a destination that has finished or is broken.
LEMMA LeavesKeeps ==
  ASSUME Inv, Others, Idle, NEW d \in Dests, Leaves(d)
  PROVE  Inv' /\ EndStep
<1>1. /\ Calm(state) /\ Quiet(state.todo) /\ Core(state, chunks, pushed, taken) /\ Typed(state)
      /\ SameData(state, state) /\ EndLone(state) /\ state.todo = <<>>
  BY IdleGoes
<1>2. <<d>> \in Seq(Dests) /\ <<d>> # <<>>
  OBVIOUS
<1>3. Over(state, state')
  BY <1>1, <1>2, UnpipeFromGoes DEF Leaves
<1>4. Leads(state, state')
  BY <1>1, <1>3, FreeGoes
<1> QED
  BY <1>1, <1>4, LeadsKeeps DEF Inv

\* 'finish'
LEMMA DestFinishesKeeps ==
  ASSUME Inv, NEW d \in Dests, DestFinishes(d)
  PROVE  Inv' /\ EndStep
<1>1. Others /\ Idle /\ Leaves(d)
  BY SameIsOthers DEF DestFinishes, AtRest
<1> QED
  BY <1>1, LeavesKeeps

\* 'error' or 'close'.
LEMMA DestBreaksKeeps ==
  ASSUME Inv, NEW d \in Dests, DestBreaks(d)
  PROVE  Inv' /\ EndStep
<1>1. Others /\ Idle /\ Leaves(d)
  BY DEF DestBreaks, AtRest, Others, hist
<1> QED
  BY <1>1, LeavesKeeps

-----------------------------------------------------------------------------
(* The user's calls. *)

\* The stream when the user calls: one of its handlers is on top.
LEMMA CallerGoes ==
  ASSUME Inv, Call
  PROVE  /\ Core(Caller, chunks, pushed, taken) /\ Typed(Caller) /\ Calm(Caller)
         /\ SameData(state, Caller) /\ EndLone(Caller)
         /\ Caller.todo # <<>> /\ Caller.todo[1].k = "user"
         /\ ~Barge => Told(Caller.todo, taken, got, listeners, steady)
         /\ ~Barge /\ AllTold => Quiet(Caller.todo)
         /\ (\A i \in DOMAIN state.todo : ToSet(state.todo[i].to) \subseteq {User}) =>
              Quiet(Caller.todo)
         /\ \A i \in 1 .. Len(Caller.todo) : Caller.todo[i].k # "end"
<1>1. CASE AtRest
  <2>1. /\ Idle /\ state.todo = <<>> /\ Len(state.todo) = 0 /\ Calm(state) /\ Quiet(state.todo)
        /\ Core(state, chunks, pushed, taken) /\ Typed(state) /\ EndLone(state)
    BY <1>1, IdleGoes DEF AtRest
  <2> DEFINE l == Run(state, <<Item("user")>>)
  <2>2. Caller = l
    BY <1>1 DEF Caller
  <2>3. Item("user") \in Plain(state.ended) /\ Item("user") \in Items(state.ended)
        /\ Item("user").k = "user" /\ <<Item("user")>> \in Seq(Plain(state.ended))
    BY <2>1, Fields, PlainItem, OneItem DEF Plain
  <2>4. Over(state, l) /\ Leads(state, l)
    BY <2>1, <2>3, RunOver, FreeGoes
  <2>5. Len(l.todo) = Len(state.todo) + 1 /\ l.todo[1] = Item("user")
    <3> PICK x : x = Item("user")
      OBVIOUS
    <3>1. Typed(state) /\ x \in Items(state.ended)
      BY <2>1, <2>3
    <3>2. \A k : k = Run(state, <<x>>) => Len(k.todo) = Len(state.todo) + 1 /\ k.todo[1] = x
      BY ONLY <3>1, RunOne
    <3> QED
      BY <3>2
  <2> HIDE DEF l
  <2>6. Core(l, chunks, pushed, taken) /\ Typed(l) /\ Calm(l) /\ SameData(state, l) /\ EndLone(l)
        /\ \A i \in 1 .. Len(l.todo) : l.todo[i].k # "end"
    BY <2>1, <2>4, LeadsCore, LeadsLast, OverCalm DEF Over
  <2>7. Quiet(l.todo) /\ (~Barge => Told(l.todo, taken, got, listeners, steady))
    BY <2>1, <2>4, LeadsQuiet, QuietTold DEF Inv
  <2>8. l.todo # <<>>
    <3>1. Len(l.todo) = 1
      BY <2>1, <2>5
    <3>2. Len(<<>>) = 0
      BY EmptySequence
    <3> QED
      BY <3>1, <3>2
  <2> QED
    BY <2>2, <2>3, <2>5, <2>6, <2>7, <2>8
<1>2. CASE ~AtRest
  <2>1. Running("user") /\ Caller = state
    BY <1>2 DEF Call, Caller
  <2>2. state.todo # <<>> /\ state.todo[1].k = "user"
    BY <2>1, Top
  <2>3. Core(state, chunks, pushed, taken) /\ Typed(state) /\ Reads(state) /\ EndLone(state)
        /\ SameData(state, state) /\ state.todo \in Seq(Items(state.ended))
        /\ DOMAIN state.todo = 1 .. Len(state.todo) /\ Len(state.todo) \in Nat \ {0}
    BY <2>2, Fields DEF Inv, Core, SameData
  <2>4. Calm(state)
    BY <2>2, <2>3, Below DEF Counts
  <2>5. User \notin Dests
    BY ReadableAssumption
  <2>6. ASSUME \A i \in DOMAIN state.todo :
                 state.todo[i].k = "data" => ToSet(state.todo[i].to) \subseteq {User}
        PROVE  Quiet(state.todo)
    BY <2>3, <2>5, <2>6 DEF Quiet, Pending, DueTo
  <2>7. ~Barge /\ AllTold => Quiet(state.todo)
    BY <2>6 DEF AllTold
  <2>8. ASSUME NEW i \in 1 .. Len(state.todo)
        PROVE  state.todo[i].k # "end"
    <3> SUFFICES ASSUME state.todo[i].k = "end" PROVE FALSE
      OBVIOUS
    <3>1. Len(state.todo) = 1
      BY <2>3 DEF EndLone
    <3>2. i = 1
      BY <3>1
    <3> QED
      BY <2>2, <3>2
  <2> QED
    BY <2>1, <2>2, <2>3, <2>4, <2>6, <2>7, <2>8 DEF Inv
<1> QED
  BY <1>1, <1>2

\* read()
LEMMA UserReadKeeps ==
  ASSUME Inv, UserRead
  PROVE  Inv' /\ EndStep
<1>1. Others /\ Call /\ AllTold /\ \E n \in ReadSizes \cup {All} : state' = Read(n, Caller)
  BY DEF UserRead, Others, dest, hist
<1>2. /\ Core(Caller, chunks, pushed, taken) /\ Calm(Caller) /\ SameData(state, Caller)
      /\ EndLone(Caller) /\ (Caller.todo = <<>> \/ Caller.todo[1].k # "end")
      /\ ~Barge => Told(Caller.todo, taken, got, listeners, steady) /\ Quiet(Caller.todo)
  BY <1>1, CallerGoes
<1> HIDE DEF Caller
<1>3. PICK n \in Nat \cup {All} : state' = Read(n, Caller)
  BY <1>1, ReadableAssumption
<1>4. Leads(Caller, state')
  BY <1>2, <1>3, FreeGoes
<1> QED
  BY <1>1, <1>2, <1>4, LeadsKeeps

\* pause() and resume()
LEMMA PauseResumeKeeps ==
  ASSUME Inv, UserPause \/ UserResume
  PROVE  Inv' /\ EndStep
<1>1. Others /\ Call /\ (state' = Pause(Caller) \/ state' = Resume(Caller))
  BY DEF UserPause, UserResume, Others, dest
<1>2. /\ Core(Caller, chunks, pushed, taken) /\ Typed(Caller) /\ SameData(state, Caller)
      /\ EndLone(Caller) /\ (~Barge => Told(Caller.todo, taken, got, listeners, steady))
  BY <1>1, CallerGoes
<1> HIDE DEF Caller
<1>3. Aside(Caller, state')
  BY <1>1, <1>2, PauseGoes, ResumeGoes
<1> QED
  BY <1>1, <1>2, <1>3, AsideKeeps

\* A listener that joins gets none of the chunks on their way.
LEMMA JoinedAround ==
  ASSUME NEW h, Around(listeners, h), NEW x \in Dests \cup {User}, ~Contains(listeners, x)
  PROVE  Around(Append(listeners, x), h) /\ ToSet(Append(listeners, x)) = ToSet(listeners) \cup {x}
<1>1. listeners \in Seq(Dests \cup {User}) /\ IsInjective(listeners)
  BY DEF Around
<1>2. x \notin ToSet(listeners)
  BY <1>1, ToSetPlaces DEF Contains
<1> QED
  BY <1>1, <1>2, AppendElement DEF Around

\* on('data')
LEMMA OnDataKeeps ==
  ASSUME Inv, OnData
  PROVE  Inv' /\ EndStep
<1>1. /\ Call /\ ~Contains(listeners, User) /\ listeners' = Append(listeners, User)
      /\ UNCHANGED <<chunks, held, pushed, taken, got, steady>>
      /\ state' = Caller \/ state' = Resume(Caller)
  BY DEF OnData, dest, hist
<1>2. /\ Core(Caller, chunks, pushed, taken) /\ Typed(Caller) /\ SameData(state, Caller)
      /\ EndLone(Caller) /\ (~Barge => Told(Caller.todo, taken, got, listeners, steady))
  BY <1>1, CallerGoes
<1> HIDE DEF Caller
<1>3. Aside(Caller, state')
  <2>1. Aside(Caller, Caller)
    BY <1>2 DEF Aside, SameData
  <2> QED
    BY <1>1, <1>2, <2>1, ResumeGoes
<1>4. Around(listeners', held) /\ ToSet(listeners) \subseteq ToSet(listeners')
  BY <1>1, JoinedAround DEF Inv
<1>5. Core(state', chunks, pushed, taken) /\ state'.todo = Caller.todo
      /\ state'.endEmitted = state.endEmitted /\ Caller.endEmitted = state.endEmitted
  BY <1>2, <1>3, AsideCore DEF Aside, SameData
<1>6. EndLone(state')
  BY <1>2, <1>5 DEF EndLone
<1>7. ASSUME ~Barge
      PROVE  Told(state'.todo, taken, got, listeners', steady)
  <2>1. Told(Caller.todo, taken, got, listeners, steady)
    BY <1>2, <1>7
  <2>2. steady \in SUBSET steady /\ \A d \in steady : d \in ToSet(listeners')
    BY <1>4, <2>1 DEF Told
  <2>3. Told(Caller.todo, taken, got, listeners', steady)
    BY <2>1, <2>2, FewerTold
  <2> QED
    BY <1>5, <2>3
<1>8. Inv'
  BY <1>1, <1>4, <1>5, <1>6, <1>7 DEF Inv
<1> QED
  BY <1>1, <1>5, <1>8 DEF EndStep

\* on('readable')
LEMMA OnReadableKeeps ==
  ASSUME Inv, OnReadable
  PROVE  Inv' /\ EndStep
<1> DEFINE asked == [Caller EXCEPT !.emittedReadable = FALSE, !.needReadable = TRUE, !.waits = TRUE]
<1>1. /\ Others /\ Call /\ AllTold
      /\ state' \in {asked, Later(asked, ReadZero), EmitReadable(asked)}
  <2>1. Others /\ Call /\ AllTold
    BY DEF OnReadable, Others, dest, hist
  <2>2. state' = CASE ~state.reading -> Later(asked, ReadZero)
                   [] state.reading /\ state.length > 0 -> EmitReadable(asked)
                   [] OTHER -> asked
    BY DEF OnReadable
  <2> HIDE DEF asked
  <2>3. state' \in {asked, Later(asked, ReadZero), EmitReadable(asked)}
    BY <2>2
  <2> QED
    BY <2>1, <2>3 DEF asked
<1>2. /\ Core(Caller, chunks, pushed, taken) /\ Typed(Caller) /\ SameData(state, Caller)
      /\ Calm(Caller) /\ EndLone(Caller) /\ (Caller.todo = <<>> \/ Caller.todo[1].k # "end")
      /\ ~Barge => Told(Caller.todo, taken, got, listeners, steady) /\ Quiet(Caller.todo)
  BY <1>1, CallerGoes
<1> HIDE DEF Caller
<1>3. Aside(Caller, asked) /\ Typed(asked)
  <2>1. Caller \in Streams
    BY <1>2, Fields
  <2>2. /\ asked \in Streams /\ SameData(Caller, asked) /\ asked.todo = Caller.todo
        /\ asked.ticks = Caller.ticks /\ asked.sync = Caller.sync
    BY <2>1 DEF Streams, SameData
  <2> HIDE DEF asked
  <2>3. Aside(Caller, asked)
    BY <1>2, <2>2, FlagsAside
  <2> QED
    BY <2>3 DEF Aside
<1> HIDE DEF asked
<1>4. Over(Caller, asked)
  BY <1>2, <1>3, AsideOver
<1>5. Over(Caller, Later(asked, ReadZero))
  <2>1. ReadZero \in Ticks(asked.ended)
    BY <1>3, Fields, NewItem DEF ReadZero
  <2>2. Over(asked, Later(asked, ReadZero))
    BY <1>3, <2>1, LaterAside, AsideOver
  <2> QED
    BY <1>4, <2>2, OverTransitive
<1>6. Over(Caller, EmitReadable(asked))
  BY <1>3, <1>4, EmitReadableGoes, OverTransitive
<1>7. Leads(Caller, state')
  <2>1. Over(Caller, state')
    BY <1>1, <1>4, <1>5, <1>6
  <2> QED
    BY <1>2, <2>1, FreeGoes
<1> QED
  BY <1>1, <1>2, <1>7, LeadsKeeps

\* unpipe(d), or unpipe() of all
LEMMA UnpipeKeeps ==
  ASSUME Inv, Unpipe
  PROVE  Inv' /\ EndStep
<1>1. /\ Others /\ Call /\ AllTold /\ state.pipes # <<>>
      /\ \E ds \in {<<state.pipes[i]>> : i \in DOMAIN state.pipes} \cup {state.pipes} :
           state' = UnpipeFrom(ds, Caller)
  BY DEF Unpipe, Others, dest, hist
<1>2. /\ Core(Caller, chunks, pushed, taken) /\ Typed(Caller) /\ SameData(state, Caller)
      /\ Calm(Caller) /\ EndLone(Caller) /\ (Caller.todo = <<>> \/ Caller.todo[1].k # "end")
      /\ ~Barge => Told(Caller.todo, taken, got, listeners, steady) /\ Quiet(Caller.todo)
  BY <1>1, CallerGoes
<1> HIDE DEF Caller
<1>3. PICK ds : ds \in Seq(Dests) /\ ds # <<>> /\ state' = UnpipeFrom(ds, Caller)
  <2>1. state.pipes \in Seq(Dests)
    <3>1. state \in Streams
      BY Fields DEF Inv, Core
    <3> QED
      BY <3>1 DEF Streams
  <2>2. \A i \in DOMAIN state.pipes : <<state.pipes[i]>> \in Seq(Dests) /\ <<state.pipes[i]>> # <<>>
    <3> TAKE i \in DOMAIN state.pipes
    <3>1. state.pipes[i] \in Dests
      BY <2>1
    <3> QED
      BY <3>1
  <2> QED
    BY <1>1, <2>1, <2>2
<1>4. Over(Caller, state')
  BY <1>2, <1>3, UnpipeFromGoes
<1>5. Leads(Caller, state')
  BY <1>2, <1>4, FreeGoes
<1> QED
  BY <1>1, <1>2, <1>5, LeadsKeeps

\* A destination that is piped to before any byte is taken has all that was taken.
LEMMA PipedTold ==
  ASSUME NEW todo, NEW t \in Seq(Nat), t = <<>>, NEW g, NEW ls, NEW st, Told(todo, t, g, ls, st),
         \A i \in 1 .. Len(todo) : todo[i].k = "data" => todo[i].chunk \in Seq(Nat),
         NEW d \in Dests, d \in ToSet(ls)
  PROVE  Told(todo, t, g, ls, st \cup {d})
<1>1. Len(t) = 0
  OBVIOUS
<1>2. ASSUME NEW i \in 1 .. Len(todo)
      PROVE  ~DueTo(todo[i], d)
  <2> SUFFICES ASSUME DueTo(todo[i], d) PROVE FALSE
    OBVIOUS
  <2> PICK s : s = todo[i].chunk
    OBVIOUS
  <2>1. Due(todo[i], t, g)
    BY DEF Told, Pending
  <2>2. s \in Seq(Nat) /\ s # <<>>
    BY <2>1 DEF Due, DueTo
  <2>3. Len(t) - Len(s) \in Nat
    BY <2>1 DEF Due
  <2>4. Len(s) \in Nat /\ Len(s) # 0
    BY <2>2
  <2>5. 0 - Len(s) \in Nat
    BY <1>1, <2>3
  <2> QED
    BY <2>4, <2>5
<1>3. g[d] = t
  <2>1. g[d] \in Seq(Nat) /\ \A i \in 1 .. Len(g[d]) : g[d][i] \in 1 .. Len(t)
    BY DEF Told, Given
  <2> PICK s : s = g[d]
    OBVIOUS
  <2>2. s \in Seq(Nat) /\ \A i \in 1 .. Len(s) : s[i] \in 1 .. 0
    BY <1>1, <2>1
  <2>3. Len(s) \in Nat /\ (1 \in 1 .. Len(s) => s[1] \in 1 .. 0)
    BY <2>2
  <2>4. Len(s) = 0
    BY <2>3
  <2> QED
    BY <2>2, <2>4
<1>4. HasAll(d, todo, t, g)
  BY <1>2, <1>3 DEF HasAll
<1> QED
  BY <1>4 DEF Told

\* pipe()
LEMMA PipeKeeps ==
  ASSUME Inv, NEW d \in Dests, Pipe(d)
  PROVE  Inv' /\ EndStep
<1> DEFINE piped == [Caller EXCEPT !.pipes = Append(@, d)]
           item == [Item("endLate") EXCEPT !.to = <<d>>]
<1>1. /\ Call /\ ~Contains(listeners, d) /\ listeners' = Append(listeners, d)
      /\ UNCHANGED <<chunks, held, pushed, taken, got>>
      /\ state' = Resume(piped) \/ state' = Resume(Later(piped, item))
      /\ steady' = IF taken = <<>> THEN steady \cup {d} ELSE steady
  BY DEF Pipe, dest
<1>2. /\ Core(Caller, chunks, pushed, taken) /\ Typed(Caller) /\ SameData(state, Caller)
      /\ EndLone(Caller) /\ (~Barge => Told(Caller.todo, taken, got, listeners, steady))
  BY <1>1, CallerGoes
<1> HIDE DEF Caller
<1>3. Aside(Caller, piped) /\ Typed(piped)
  <2>1. Caller \in Streams
    BY <1>2, Fields
  <2> DEFINE pipes == Append(Caller.pipes, d)
  <2>2. pipes \in Seq(Dests)
    BY <2>1 DEF Streams
  <2>3. piped = [Caller EXCEPT !.pipes = pipes]
    OBVIOUS
  <2> HIDE DEF pipes
  <2>4. /\ piped \in Streams /\ SameData(Caller, piped) /\ piped.todo = Caller.todo
        /\ piped.ticks = Caller.ticks /\ piped.sync = Caller.sync
    BY <2>1, <2>2, <2>3 DEF Streams, SameData
  <2> HIDE DEF piped
  <2>5. Aside(Caller, piped)
    BY <1>2, <2>4, FlagsAside
  <2> QED
    BY <2>5 DEF Aside
<1> HIDE DEF piped
<1>4. Aside(piped, Later(piped, item)) /\ Typed(Later(piped, item))
  <2>1. <<d>> \in Seq(Dests \cup {User}) /\ <<>> \in Seq(Nat)
    OBVIOUS
  <2>2. item = [k |-> "endLate", orig |-> 0, n |-> 0, to |-> <<d>>, chunk |-> <<>>]
    BY DEF Item
  <2>3. "endLate" \in Kinds /\ 0 \in Nat
    BY DEF Kinds
  <2>4. item \in [k : Kinds, orig : Nat \cup {All}, n : Nat, to : Seq(Dests \cup {User}),
                  chunk : Seq(Nat)]
    BY <2>1, <2>2, <2>3
  <2>5. item.k = "endLate"
    BY <2>2
  <2> HIDE DEF item
  <2>6. item \in Ticks(piped.ended)
    BY <2>4, <2>5 DEF Ticks, TickKinds, Items
  <2>7. Aside(piped, Later(piped, item))
    BY <1>3, <2>6, LaterAside
  <2> QED
    BY <2>7 DEF Aside
<1> HIDE DEF item
<1>5. Aside(Caller, state')
  <2>1. Aside(Caller, Resume(piped))
    BY <1>3, ResumeGoes, AsideTransitive
  <2>2. Aside(Caller, Resume(Later(piped, item)))
    BY <1>3, <1>4, ResumeGoes, AsideTransitive
  <2> QED
    BY <1>1, <2>1, <2>2
<1>6. Around(listeners', held) /\ ToSet(listeners') = ToSet(listeners) \cup {d}
  BY <1>1, JoinedAround DEF Inv
<1>7. Core(state', chunks, pushed, taken) /\ state'.todo = Caller.todo
      /\ state'.endEmitted = state.endEmitted /\ Caller.endEmitted = state.endEmitted
  BY <1>2, <1>5, AsideCore DEF Aside, SameData
<1>8. EndLone(state')
  BY <1>2, <1>7 DEF EndLone
<1>9. ASSUME ~Barge
      PROVE  Told(state'.todo, taken, got, listeners', steady')
  <2>1. Told(Caller.todo, taken, got, listeners, steady)
    BY <1>2, <1>9
  <2>2. steady \in SUBSET steady /\ \A h \in steady : h \in ToSet(listeners')
    BY <1>6, <2>1 DEF Told
  <2>3. Told(Caller.todo, taken, got, listeners', steady)
    BY <2>1, <2>2, FewerTold
  <2>4. taken = <<>> => Told(Caller.todo, taken, got, listeners', steady \cup {d})
    <3>1. taken \in Seq(Nat) /\ d \in ToSet(listeners')
      BY <1>2, <1>6 DEF Core, Bytes
    <3>2. \A i \in 1 .. Len(Caller.todo) : Caller.todo[i].chunk \in Seq(Nat)
      <4>1. Caller.todo \in Seq(Items(Caller.ended))
        BY <1>2, Fields
      <4>2. \A i \in 1 .. Len(Caller.todo) : Caller.todo[i] \in Items(Caller.ended)
        BY <4>1
      <4> QED
        BY <4>2 DEF Items
    <3> QED
      BY <2>3, <3>1, <3>2, PipedTold
  <2> QED
    BY <1>1, <1>7, <2>3, <2>4
<1>10. Inv'
  BY <1>1, <1>6, <1>7, <1>8, <1>9 DEF Inv
<1> QED
  BY <1>1, <1>7, <1>10 DEF EndStep

\* The last n bytes taken go back in front of what is buffered.
GivenBack(m, t, n) ==
  [m EXCEPT !.length = @ + n, !.buffer = PutBack(SubSeq(t, Len(t) - n + 1, Len(t)), @),
            !.waits = FALSE]

\* What was taken and what is buffered are still the bytes pushed.
LEMMA GivenBackGoes ==
  ASSUME NEW m, NEW c, NEW p, NEW t, Core(m, c, p, t), Calm(m), ~m.endEmitted,
         NEW n \in Nat, n <= Len(t)
  PROVE  /\ Core(GivenBack(m, t, n), c, p, SubSeq(t, 1, Len(t) - n))
         /\ GivenBack(m, t, n).todo = m.todo /\ GivenBack(m, t, n).endEmitted = m.endEmitted
<1> DEFINE left == SubSeq(t, 1, Len(t) - n)
           back == SubSeq(t, Len(t) - n + 1, Len(t))
           all  == FlattenSeq(m.buffer)
           buffer == <<back>> \o m.buffer
           k == GivenBack(m, t, n)
<1>1. /\ t \in Seq(Nat) /\ Len(t) \in Nat /\ p \in Nat /\ m.buffer \in Buffers /\ m.length \in Nat
      /\ m \in Streams /\ Typed(m) /\ all \in Seq(Nat) /\ t \o all = Numbers(p)
      /\ m.length = Len(all) /\ Ending(m, c)
  BY Fields, Flattened DEF Core, Bytes
<1>2. t = left \o back /\ left \in Seq(Nat) /\ back \in Seq(Nat) /\ Len(left) = Len(t) - n
  <2>1. Len(t) - n \in 0 .. Len(t)
    BY <1>1
  <2> QED
    BY ONLY <1>1, <2>1, TwoParts
<1> HIDE DEF left, back
<1>3. Len(back) = n
  <2>1. Len(left \o back) = Len(left) + Len(back) /\ Len(back) \in Nat
    <3>1. left \in Seq(Nat) /\ back \in Seq(Nat)
      BY <1>2
    <3> QED
      BY ONLY <3>1, ConcatProperties
  <2>2. Len(t) = Len(left) + Len(back)
    BY <1>2, <2>1
  <2> QED
    BY <1>1, <1>2, <2>1, <2>2
<1>4. buffer \in Buffers /\ FlattenSeq(buffer) = back \o all
  <2>1. <<back>> \in Seq(Seq(Nat)) /\ m.buffer \in Seq(Seq(Nat))
    BY <1>1, <1>2 DEF Buffers
  <2>2. /\ FlattenSeq(<<back>> \o m.buffer) = FlattenSeq(<<back>>) \o FlattenSeq(m.buffer)
    BY <2>1, FlattenConcat
  <2>3. FlattenSeq(<<back>>) = back
    BY <1>2, FlattenOne
  <2>4. <<back>> \o m.buffer \in Seq(Seq(Nat))
    <3> PICK Q : Q = Seq(Nat)
      OBVIOUS
    <3>1. <<back>> \in Seq(Q) /\ m.buffer \in Seq(Q)
      BY <2>1
    <3>2. <<back>> \o m.buffer \in Seq(Q)
      BY <3>1, ConcatElements
    <3> QED
      BY <3>2
  <2> QED
    BY <2>2, <2>3, <2>4 DEF Buffers
<1> HIDE DEF all, buffer
<1>5. left \o (back \o all) = Numbers(p) /\ Len(back \o all) = n + m.length
  <2>1. left \o (back \o all) = (left \o back) \o all
    <3>1. left \in Seq(Nat) /\ back \in Seq(Nat) /\ all \in Seq(Nat)
      BY <1>1, <1>2
    <3> QED
      BY ONLY <3>1, ConcatAssociative, SMTT(60)
  <2>2. (left \o back) \o all = Numbers(p)
    BY <1>1, <1>2
  <2>3. Len(back \o all) = Len(back) + Len(all)
    BY <1>1, <1>2, ConcatProperties
  <2> QED
    BY <1>1, <1>3, <2>1, <2>2, <2>3
<1>6. k = [m EXCEPT !.length = m.length + n, !.buffer = buffer, !.waits = FALSE]
  BY DEF GivenBack, PutBack, buffer, back
<1>7. /\ k \in Streams /\ k.length = m.length + n /\ k.buffer = buffer /\ k.ended = m.ended
      /\ k.endEmitted = m.endEmitted /\ k.todo = m.todo /\ k.ticks = m.ticks
  <2>1. m.length + n \in Nat /\ buffer \in Seq(Seq(Nat)) /\ FALSE \in BOOLEAN
    BY <1>1, <1>4 DEF Buffers
  <2> QED
    BY <1>1, <1>6, <2>1, ZenonT(60) DEF Streams
<1> HIDE DEF k
<1>8. Typed(k)
  BY <1>1, <1>7 DEF Typed
<1>9. Bytes(k, p, left)
  <2>1. n + m.length = m.length + n
    BY <1>1
  <2> QED
    BY <1>1, <1>2, <1>4, <1>5, <1>7, <2>1 DEF Bytes
<1>10. Ending(k, c)
  BY <1>1, <1>7 DEF Ending
<1>11. Reads(k)
  <2>1. Calm(k)
    BY <1>7 DEF Calm
  <2> QED
    BY <2>1, CalmReads
<1> QED
  BY <1>7, <1>8, <1>9, <1>10, <1>11 DEF Core, k, left

\* unshift(chunk)
LEMMA UnshiftKeeps ==
  ASSUME Inv, Unshift
  PROVE  Inv' /\ EndStep
<1>1. /\ Call /\ ~state.endEmitted /\ UNCHANGED <<listeners, chunks, held, pushed, got, steady>>
      /\ \A d \in Dests : got[d] = <<>> /\ d \notin ToSet(listeners)
      /\ \A i \in DOMAIN state.todo : ToSet(state.todo[i].to) \subseteq {User}
  BY DEF Unshift, dest
<1>2. PICK n \in Lengths :
        /\ n <= Len(taken)
        /\ LET chunk == SubSeq(taken, Len(taken) - n + 1, Len(taken))
               kept  == GivenBack(Caller, taken, n)
           IN \/ /\ EmitsAtOnce(state)
                 /\ state' = EmitData(Run(Caller, <<ReadZero, Item("pushMore")>>), chunk)
                 /\ UNCHANGED taken
              \/ /\ taken' = SubSeq(taken, 1, Len(taken) - n)
                 /\ \/ state' = EmitReadable(Run(kept, <<Item("pushMore")>>))
                    \/ state' = MaybeReadMore(kept)
  BY DEF Unshift, GivenBack
<1> DEFINE chunk == SubSeq(taken, Len(taken) - n + 1, Len(taken))
           left  == SubSeq(taken, 1, Len(taken) - n)
           kept  == GivenBack(Caller, taken, n)
<1>3. /\ Core(Caller, chunks, pushed, taken) /\ Typed(Caller) /\ Calm(Caller)
      /\ SameData(state, Caller) /\ EndLone(Caller) /\ Quiet(Caller.todo)
      /\ (Caller.todo = <<>> \/ Caller.todo[1].k # "end")
      /\ ~Barge => Told(Caller.todo, taken, got, listeners, steady)
      /\ \A i \in 1 .. Len(Caller.todo) : Caller.todo[i].k # "end"
  BY <1>1, CallerGoes
<1> HIDE DEF Caller
<1>4. /\ n \in Nat /\ taken \in Seq(Nat) /\ Len(taken) \in Nat /\ ~Caller.endEmitted
      /\ Caller.ended \in BOOLEAN
  BY <1>1, <1>3, Fields, ReadableAssumption DEF Core, Bytes, SameData
<1>5. chunk \in Seq(Nat) /\ left \in Seq(Nat)
  <2>1. Len(taken) - n \in 0 .. Len(taken)
    BY <1>2, <1>4
  <2> QED
    BY ONLY <1>4, <2>1, TwoParts
\* No destination has got anything, or listens.
<1>6. ASSUME NEW t, NEW new, Quiet(new)
      PROVE  ~Barge => Told(new, t, got, listeners, steady)
  <2> SUFFICES ASSUME ~Barge PROVE Told(new, t, got, listeners, steady)
    OBVIOUS
  <2>1. Told(Caller.todo, taken, got, listeners, steady)
    BY <1>3
  <2>2. steady = {} /\ got \in [Dests -> Seq(Nat)]
    BY <1>1, <2>1 DEF Told
  <2>3. Given(t, got)
    <3> SUFFICES ASSUME NEW d \in Dests
                 PROVE  /\ got[d] \in Seq(Nat)
                        /\ \A i \in 1 .. Len(got[d]) : got[d][i] \in 1 .. Len(t)
                        /\ \A i, j \in 1 .. Len(got[d]) : i < j => got[d][i] < got[d][j]
      BY DEF Given
    <3> PICK s : s = got[d]
      OBVIOUS
    <3>1. s = <<>>
      BY <1>1
    <3>2. s \in Seq(Nat) /\ Len(s) = 0
      BY <3>1
    <3>3. \A i \in 1 .. Len(s) : FALSE
      BY <3>2
    <3> QED
      BY <3>2, <3>3
  <2> QED
    BY <1>6, <2>2, <2>3 DEF Told, Quiet
<1>7. CASE /\ taken' = left
           /\ \/ state' = EmitReadable(Run(kept, <<Item("pushMore")>>))
              \/ state' = MaybeReadMore(kept)
  <2> DEFINE more == Run(kept, <<Item("pushMore")>>)
  <2>1. Core(kept, chunks, pushed, left) /\ kept.todo = Caller.todo /\ kept.endEmitted = Caller.endEmitted
    BY ONLY <1>2, <1>3, <1>4, GivenBackGoes
  <2> HIDE DEF kept, left
  <2>2. Typed(kept) /\ Calm(kept) /\ Quiet(kept.todo) /\ EndLone(kept)
        /\ (kept.todo = <<>> \/ kept.todo[1].k # "end")
    BY <1>3, <2>1 DEF Core, Calm, EndLone
  <2>3. Over(kept, more)
    <3>1. <<Item("pushMore")>> \in Seq(Plain(kept.ended))
      BY <2>2, Fields, PlainItem, OneItem
    <3> QED
      BY <2>2, <3>1, RunOver
  <2> HIDE DEF more
  <2>4. Over(kept, EmitReadable(more))
    <3>1. Typed(more)
      BY <2>3 DEF Over
    <3> QED
      BY <2>3, <3>1, EmitReadableGoes, OverTransitive
  <2>5. Aside(kept, MaybeReadMore(kept))
    BY <2>2, MaybeReadMoreGoes
  <2>6. Leads(kept, state')
    BY <1>7, <2>1, <2>2, <2>4, <2>5, FreeGoes DEF more
  <2>7. Core(state', chunks, pushed, left) /\ EndLone(state') /\ Quiet(state'.todo)
    BY <2>1, <2>2, <2>6, LeadsCore, LeadsLast, LeadsQuiet
  <2>8. ~Barge => Told(state'.todo, left, got, listeners, steady)
    BY <1>6, <2>7
  <2>9. state'.endEmitted = Caller.endEmitted
    BY <2>1, <2>6 DEF Leads, SameData
  <2>10. Inv'
    BY <1>1, <1>7, <2>7, <2>8 DEF Inv
  <2> QED
    BY <1>1, <1>3, <2>9, <2>10 DEF EndStep, SameData
<1>8. CASE /\ state' = EmitData(Run(Caller, <<ReadZero, Item("pushMore")>>), chunk)
           /\ UNCHANGED taken
  <2> DEFINE more == Run(Caller, <<ReadZero, Item("pushMore")>>)
  <2>1. Over(Caller, more)
    <3>1. <<ReadZero, Item("pushMore")>> \in Seq(Plain(Caller.ended))
      BY <1>4, PlainItem, TwoItems DEF ReadZero
    <3> QED
      BY <1>3, <3>1, RunOver
  <2> HIDE DEF more
  <2>2. Leads(Caller, more)
    BY <1>3, <2>1, FreeGoes
  <2>3. /\ Core(more, chunks, pushed, taken) /\ Typed(more) /\ Calm(more) /\ SameData(Caller, more)
        /\ Quiet(more.todo) /\ \A i \in 1 .. Len(more.todo) : more.todo[i].k # "end"
    BY <1>3, <2>1, <2>2, LeadsCore, LeadsLast, LeadsQuiet, OverCalm DEF Over
  <2>4. /\ Typed(state') /\ SameData(more, state') /\ Calm(state')
        /\ Len(state'.todo) = Len(more.todo) + 1 /\ Len(more.todo) \in Nat
        /\ state'.todo[1].k = "data" /\ state'.todo[1].to = listeners
        /\ \A i \in 2 .. Len(state'.todo) :
             i - 1 \in 1 .. Len(more.todo) /\ state'.todo[i] = more.todo[i - 1]
    <3> HIDE DEF chunk
    <3> PICK k : k = state'
      OBVIOUS
    <3>1. k = EmitData(more, chunk)
      BY <1>8 DEF more
    <3>2. chunk \in Seq(Nat) /\ Typed(more) /\ Calm(more) /\ listeners \in Seq(Dests \cup {User})
      BY <1>5, <2>3 DEF Inv, Around
    <3> QED
      BY <3>1, <3>2, EmitDataGoes
  <2>5. \A i \in 1 .. Len(state'.todo) : i = 1 \/ i \in 2 .. Len(state'.todo)
    BY <2>4
  <2>6. Core(state', chunks, pushed, taken) /\ SameData(state, state')
    BY <1>3, <2>3, <2>4, CalmCore DEF SameData
  <2>7. EndLone(state')
    BY <1>1, <2>3, <2>4, <2>5, <2>6 DEF EndLone, SameData
  <2>8. Quiet(state'.todo)
    BY <1>1, <2>3, <2>4, <2>5 DEF Quiet, Pending, DueTo
  <2>9. ~Barge => Told(state'.todo, taken, got, listeners, steady)
    BY <1>6, <2>8
  <2>10. Inv'
    BY <1>1, <1>8, <2>6, <2>7, <2>9 DEF Inv
  <2> QED
    BY <1>1, <2>6, <2>10 DEF EndStep, SameData
<1> QED
  BY <1>2, <1>7, <1>8

-----------------------------------------------------------------------------
(* The theorems. *)

\* A new stream.
LEMMA InitKeeps == Init => Inv
<1> SUFFICES ASSUME Init PROVE Inv
  OBVIOUS
<1>1. /\ <<>> \in Seq(Seq(Nat)) /\ <<>> \in Seq(Dests) /\ <<>> \in Seq(Items(TRUE))
      /\ <<>> \in Seq(Items(FALSE)) /\ <<>> \in Seq(Ticks(FALSE)) /\ Len(<<>>) = 0
      /\ <<>> \in Seq(Nat) /\ 0 \in Nat
  OBVIOUS
<1>2. PICK eager \in BOOLEAN :
        state = [eager |-> eager, buffer |-> <<>>, length |-> 0, highWaterMark |-> HighWaterMark,
                 flowing |-> "null", ended |-> FALSE, endEmitted |-> FALSE,
                 reading |-> FALSE, sync |-> TRUE, needReadable |-> FALSE,
                 emittedReadable |-> FALSE, readingMore |-> FALSE,
                 resumeScheduled |-> FALSE, awaitDrain |-> 0, pipes |-> <<>>,
                 wanted |-> FALSE, waits |-> FALSE, todo |-> <<>>, ticks |-> <<>>]
  BY ReadableAssumption DEF Init
<1>3. HighWaterMark \in Marks
  BY ReadableAssumption DEF Marks
<1>4. state \in Streams
  BY <1>1, <1>2, <1>3 DEF Streams
<1>5. /\ state.todo = <<>> /\ state.ticks = <<>> /\ state.ended = FALSE /\ state.endEmitted = FALSE
      /\ state.buffer = <<>> /\ state.length = 0
  BY <1>2
<1>6. Typed(state)
  BY <1>1, <1>4, <1>5 DEF Typed
<1>7. chunks = 0 /\ pushed = 0 /\ taken = <<>> /\ listeners = <<>> /\ steady = {}
      /\ held = [d \in Dests |-> 0] /\ got = [d \in Dests |-> <<>>]
  BY DEF Init
<1>8. Bytes(state, pushed, taken)
  <2>1. FlattenSeq(<<>>) = <<>> /\ <<>> \o <<>> = <<>>
    BY <1>1, FlattenNone, ConcatEmptySeq
  <2>2. Numbers(0) = <<>>
    <3>1. Numbers(0) \in Seq(Nat) /\ Len(Numbers(0)) = 0
      BY <1>1, NumbersGoOn
    <3> QED
      BY <3>1, EmptySeq
  <2> QED
    BY <1>1, <1>5, <1>7, <2>1, <2>2 DEF Bytes
<1>9. Ending(state, chunks)
  BY <1>5, <1>7, ReadableAssumption DEF Ending
<1>10. Len(state.todo) = 0
  BY <1>1, <1>5
<1>11. Reads(state) /\ EndLone(state)
  BY <1>10 DEF Reads, EndLone
<1>12. Around(listeners, held)
  <2>1. listeners \in Seq(Dests \cup {User}) /\ IsInjective(listeners)
    BY <1>7, EmptySequence
  <2> QED
    BY <1>1, <1>7, <2>1 DEF Around
<1>13. Told(state.todo, taken, got, listeners, steady)
  <2>1. got \in [Dests -> Seq(Nat)] /\ \A d \in Dests : got[d] = <<>>
    BY <1>1, <1>7
  <2>2. Given(taken, got)
    <3> SUFFICES ASSUME NEW d \in Dests
                 PROVE  /\ got[d] \in Seq(Nat)
                        /\ \A i \in 1 .. Len(got[d]) : got[d][i] \in 1 .. Len(taken)
                        /\ \A i, j \in 1 .. Len(got[d]) : i < j => got[d][i] < got[d][j]
      BY DEF Given
    <3> PICK s : s = got[d]
      OBVIOUS
    <3>1. s \in Seq(Nat) /\ Len(s) = 0
      BY <1>1, <2>1
    <3>2. \A i \in 1 .. Len(s) : FALSE
      BY <3>1
    <3> QED
      BY <3>1, <3>2
  <2> QED
    BY <1>7, <1>10, <2>1, <2>2 DEF Told
<1> QED
  BY <1>6, <1>8, <1>9, <1>11, <1>12, <1>13 DEF Inv, Core

\* A step of the program or of one that acts on it.
LEMMA NextKeeps ==
  ASSUME Inv, Next
  PROVE  Inv' /\ EndStep
<1>1. CASE UserRead \/ UserPause \/ UserResume
  BY <1>1, UserReadKeeps, PauseResumeKeeps
<1>2. CASE OnData \/ OnReadable \/ Unshift \/ Unpipe
  BY <1>2, OnDataKeeps, OnReadableKeeps, UnshiftKeeps, UnpipeKeeps
<1>3. ASSUME NEW d \in Dests, Pipe(d)
      PROVE  Inv' /\ EndStep
  BY <1>3, PipeKeeps
<1>4. CASE ReadZeroRuns \/ Flow \/ ReadReturns \/ EmitReadableEvent
  BY <1>4, ReadZeroRunsKeeps, FlowKeeps, ReadReturnsKeeps, EmitReadableEventKeeps
<1>5. CASE More \/ MoreRead \/ ResumeTick \/ Resumed \/ ResumeRest
  BY <1>5, MoreKeeps, MoreReadKeeps, ResumeTickKeeps, ResumedKeeps, ResumeRestKeeps
<1>6. CASE End \/ EndLate \/ Data \/ Cleanup
  BY <1>6, EndKeeps, EndLateKeeps, DataKeeps, CleanupKeeps
<1>7. CASE Pushed \/ PushMore \/ BodyReturns \/ UserReturns \/ RunTick
  BY <1>7, PushedKeeps, PushMoreKeeps, BodyReturnsKeeps, UserReturnsKeeps, RunTickKeeps
<1>8. CASE Source
  BY <1>8, PushEofKeeps, PushKeeps DEF Source
<1>9. ASSUME NEW d \in Dests, DestWrites(d) \/ DestFinishes(d) \/ DestBreaks(d)
      PROVE  Inv' /\ EndStep
  BY <1>9, DestWritesKeeps, DestFinishesKeeps, DestBreaksKeeps
<1> QED
  BY <1>1, <1>2, <1>3, <1>4, <1>5, <1>6, <1>7, <1>8, <1>9 DEF Next, UserCall, Step

\* The invariant holds, whether or not a user barges past a destination.
THEOREM InvHolds == Spec => []Inv
<1>1. Init => Inv
  BY InitKeeps
<1>2. Inv /\ [Next]_vars => Inv'
  <2>1. Inv /\ Next => Inv'
    BY NextKeeps
  <2>2. Inv /\ UNCHANGED vars => Inv'
    BY DEF vars, dest, hist, Inv
  <2> QED
    BY <2>1, <2>2
<1> QED
  BY <1>1, <1>2, PTL DEF Spec

\* The counters of the stream do not go below zero, its stack and its ticks hold what
\* they may, no listener is listed twice, and it pipes to destinations.
LEMMA TypeFollows == Inv => TypeOK
<1> SUFFICES ASSUME Inv PROVE TypeOK
  OBVIOUS
<1>1. /\ state \in Streams /\ state.todo \in Seq(Items(state.ended))
      /\ state.ticks \in Seq(Ticks(state.ended))
  BY Fields DEF Inv, Core
<1>2. /\ state.length \in Nat /\ state.awaitDrain \in Nat
      /\ state.flowing \in {"null", "true", "false"} /\ state.pipes \in Seq(Dests)
  BY <1>1 DEF Streams
<1>3. \A i \in DOMAIN state.todo : state.todo[i].k \in Kinds
  <2>1. \A i \in DOMAIN state.todo : state.todo[i] \in Items(state.ended)
    BY <1>1
  <2> QED
    BY <2>1 DEF Items
<1>4. \A i \in DOMAIN state.ticks : state.ticks[i].k \in TickKinds
  <2>1. \A i \in DOMAIN state.ticks : state.ticks[i] \in Ticks(state.ended)
    BY <1>1
  <2> QED
    BY <2>1 DEF Ticks
<1>5. ToSet(state.pipes) \subseteq Dests
  BY <1>2, ToSetPlaces
<1>6. \A i, j \in DOMAIN listeners : i # j => listeners[i] # listeners[j]
  <2>1. listeners \in Seq(Dests \cup {User}) /\ IsInjective(listeners)
    BY DEF Inv, Around
  <2>2. \A i, j \in 1 .. Len(listeners) : listeners[i] = listeners[j] => i = j
    BY <2>1, InjectivePlaces
  <2>3. DOMAIN listeners = 1 .. Len(listeners)
    BY <2>1
  <2> QED
    BY <2>2, <2>3
<1> QED
  BY <1>2, <1>3, <1>4, <1>5, <1>6 DEF TypeOK, TickKinds, Inv, Around

\* The types of the stream, of its stack and of its ticks.
THEOREM TypeCorrect == Spec => []TypeOK
<1>1. Inv => TypeOK
  BY TypeFollows
<1> QED
  BY <1>1, InvHolds, PTL

\* The bytes that were pushed are those taken, and then those buffered: the part of
\* InOrder that is about the stream alone.
BytesKept ==
  /\ taken \o FlattenSeq(state.buffer) = [i \in 1 .. pushed |-> i]
  /\ state.length = Len(FlattenSeq(state.buffer))

\* No byte that was pushed is lost, taken twice or out of order, and `length` counts
\* what is buffered, whatever the user and the destinations do.
THEOREM BytesKeptHolds == Spec => []BytesKept
<1>1. Inv => BytesKept
  BY DEF Inv, Core, Bytes, Numbers, BytesKept
<1> QED
  BY <1>1, InvHolds, PTL

\* What the invariant says of the destinations, once all are told.
LEMMA OrderFollows ==
  ASSUME Barge = FALSE, Inv
  PROVE  InOrder
<1>1. Told(state.todo, taken, got, listeners, steady)
  BY DEF Inv
<1>2. BytesKept
  BY DEF Inv, Core, Bytes, Numbers, BytesKept
<1>3. ASSUME NEW d \in Dests, NEW i \in DOMAIN got[d], NEW j \in DOMAIN got[d], i < j
      PROVE  got[d][i] < got[d][j]
  <2>1. got[d] \in Seq(Nat) /\ \A m, n \in 1 .. Len(got[d]) : m < n => got[d][m] < got[d][n]
    BY <1>1 DEF Told, Given
  <2>2. DOMAIN got[d] = 1 .. Len(got[d])
    BY <2>1
  <2> QED
    BY <1>3, <2>1, <2>2
<1>4. ASSUME AtRest, NEW d \in steady
      PROVE  got[d] = taken
  <2>1. Len(state.todo) = 0
    BY <1>4 DEF AtRest, Idle
  <2>2. HasAll(d, state.todo, taken, got)
    BY <1>1 DEF Told
  <2> QED
    BY <2>1, <2>2 DEF HasAll
<1> QED
  BY <1>2, <1>3, <1>4 DEF InOrder, BytesKept

\* Readers and destinations get the bytes pushed, in order; a destination that was
\* piped to all along gets each, if the user makes no data flow past it.
THEOREM OrderKept ==
  ASSUME Barge = FALSE
  PROVE  Spec => []InOrder
<1>1. Inv => InOrder
  BY OrderFollows
<1> QED
  BY <1>1, InvHolds, PTL

\* 'end' comes after the last chunk, when every byte pushed was taken; after it nothing
\* is taken, no destination gets anything, and it does not come again.
THEOREM EndLastHolds == Spec => EndLast
<1>1. Inv /\ [Next]_vars =>
        [/\ state'.endEmitted # state.endEmitted =>
              chunks = MaxChunks /\ taken = [i \in 1 .. pushed |-> i]
         /\ state.endEmitted => UNCHANGED <<taken, got>> /\ state'.endEmitted]_vars
  BY NextKeeps DEF EndStep, Numbers
<1> QED
  BY <1>1, InvHolds, PTL DEF Spec, EndLast

-----------------------------------------------------------------------------
(* A source that pipes waits for destinations that are full. *)

\* A destination that is unpiped and has yet to clean up.
Leaving(item, d) == item.k = "cleanup" /\ d \in ToSet(item.to)

\* The destinations that are full, except those that have yet to get a chunk.
Counted(todo, ls, need) ==
  {d \in Dests : d \in ToSet(ls) /\ need[d] /\ \A i \in 1 .. Len(todo) : ~DueTo(todo[i], d)}

\* awaitDrain counts no more than these.
Awaits(m, ls, need) == m.awaitDrain <= Cardinality(Counted(m.todo, ls, need))

\* Who is to get a chunk listens.
Listed(todo, ls) ==
  \A i \in 1 .. Len(todo) : \A d \in Dests : DueTo(todo[i], d) => d \in ToSet(ls)

\* A read() that returns bytes finds no destination full.
MayReturn(item, n) == IF item.orig = 0 THEN item.n = 0 ELSE n = 0
Returning == {"afterRead", "rest"}

\* A stream that flows waits for no destination; one that the library has stopped
\* waits for one.
Stops(m, p) ==
  /\ m.flowing # "false" => m.awaitDrain = 0
  /\ m.pipes # <<>> /\ m.flowing # "true" /\ ~p => m.awaitDrain > 0
  /\ \A i \in 1 .. Len(m.todo) :
       m.todo[i].k \in Returning => MayReturn(m.todo[i], m.awaitDrain)

\* A destination listens while it is in pipes or cleans up, and does one of them.
Connected(todo, pipes, ls) ==
  /\ IsInjective(pipes)
  /\ \A i \in 1 .. Len(todo) :
       todo[i].k = "cleanup" => IsInjective(todo[i].to) /\ ToSet(todo[i].to) \subseteq Dests
  /\ \A d \in Dests :
       /\ d \in ToSet(pipes) => d \in ToSet(ls) /\ \A i \in 1 .. Len(todo) : ~Leaving(todo[i], d)
       /\ d \in ToSet(ls) => d \in ToSet(pipes) \/ \E i \in 1 .. Len(todo) : Leaving(todo[i], d)
       /\ \A i \in 1 .. Len(todo) : Leaving(todo[i], d) => d \in ToSet(ls)
       /\ \A i, j \in 1 .. Len(todo) : Leaving(todo[i], d) /\ Leaving(todo[j], d) => i = j

Drain(m, ls, need, p) ==
  /\ need \in [Dests -> BOOLEAN]
  /\ Awaits(m, ls, need)
  /\ Listed(m.todo, ls)
  /\ Stops(m, p)
  /\ Connected(m.todo, m.pipes, ls)

\* Two stacks hold the same that clean up, one of them n places deeper.
Cleaning(a, b, n) ==
  /\ \A i \in 1 .. Len(b) : b[i].k = "cleanup" => i + n \in 1 .. Len(a) /\ b[i] = a[i + n]
  /\ \A j \in 1 .. Len(a) : a[j].k = "cleanup" => j - n \in 1 .. Len(b) /\ b[j - n] = a[j]

\* A change that none of this is about.
Flags(m, k) == k.awaitDrain = m.awaitDrain /\ k.flowing = m.flowing /\ k.pipes = m.pipes
Careful(item, n) == item.k \in Returning => MayReturn(item, n)
Stays(m, k) ==
  /\ Typed(m) /\ Typed(k) /\ Flags(m, k)
  /\ \E n \in Int : Cleaning(m.todo, k.todo, n)
  /\ \A i \in 1 .. Len(k.todo) :
       \/ k.todo[i].k # "data" /\ Careful(k.todo[i], m.awaitDrain)
       \/ \E j \in 1 .. Len(m.todo) : k.todo[i] = m.todo[j]

\* The counted are destinations, and there are finitely many.
LEMMA CountedFinite ==
  ASSUME NEW todo, NEW ls, NEW need
  PROVE  /\ IsFiniteSet(Counted(todo, ls, need))
         /\ Cardinality(Counted(todo, ls, need)) \in Nat
<1>1. Counted(todo, ls, need) \in SUBSET Dests
  BY DEF Counted
<1>2. IsFiniteSet(Dests)
  BY ReadableAssumption
<1>3. IsFiniteSet(Counted(todo, ls, need))
  BY <1>1, <1>2, FS_Subset
<1> QED
  BY <1>3, FS_CardinalityType

\* Fewer who have yet to get a chunk are no fewer counted.
LEMMA CountedGrow ==
  ASSUME NEW a, NEW b, NEW ls, NEW need,
         \A i \in 1 .. Len(b) : b[i].k = "data" => \E j \in 1 .. Len(a) : b[i] = a[j]
  PROVE  Cardinality(Counted(a, ls, need)) <= Cardinality(Counted(b, ls, need))
<1>1. Counted(a, ls, need) \in SUBSET Counted(b, ls, need)
  BY DEF Counted, DueTo
<1>2. IsFiniteSet(Counted(b, ls, need))
  BY CountedFinite
<1> QED
  BY <1>1, <1>2, FS_Subset

\* Destinations stay connected when none is unpiped and none cleans up.
LEMMA ConnectedStays ==
  ASSUME NEW a, NEW b, Len(a) \in Nat, Len(b) \in Nat, NEW n \in Int, Cleaning(a, b, n),
         NEW pipes, NEW ls, Connected(a, pipes, ls)
  PROVE  Connected(b, pipes, ls)
<1>1. \A i \in 1 .. Len(b) : b[i].k = "cleanup" => i + n \in 1 .. Len(a) /\ b[i] = a[i + n]
  BY DEF Cleaning
<1>2. ASSUME NEW d \in Dests, NEW i \in 1 .. Len(b), Leaving(b[i], d)
      PROVE  i + n \in 1 .. Len(a) /\ Leaving(a[i + n], d)
  BY <1>1, <1>2 DEF Leaving
<1>3. ASSUME NEW d \in Dests, NEW j \in 1 .. Len(a), Leaving(a[j], d)
      PROVE  \E i \in 1 .. Len(b) : Leaving(b[i], d)
  BY <1>3 DEF Leaving, Cleaning
<1>4. /\ IsInjective(pipes)
      /\ \A i \in 1 .. Len(b) :
           b[i].k = "cleanup" => IsInjective(b[i].to) /\ ToSet(b[i].to) \subseteq Dests
  BY <1>1 DEF Connected
<1>5. ASSUME NEW d \in Dests
      PROVE  /\ d \in ToSet(pipes) =>
                  d \in ToSet(ls) /\ \A i \in 1 .. Len(b) : ~Leaving(b[i], d)
             /\ d \in ToSet(ls) =>
                  d \in ToSet(pipes) \/ \E i \in 1 .. Len(b) : Leaving(b[i], d)
             /\ \A i \in 1 .. Len(b) : Leaving(b[i], d) => d \in ToSet(ls)
  BY <1>2, <1>3 DEF Connected
<1>6. ASSUME NEW d \in Dests, NEW i \in 1 .. Len(b), NEW j \in 1 .. Len(b),
             Leaving(b[i], d), Leaving(b[j], d)
      PROVE  i = j
  <2>1. i + n \in 1 .. Len(a) /\ Leaving(a[i + n], d) /\ j + n \in 1 .. Len(a) /\ Leaving(a[j + n], d)
    BY <1>2, <1>6
  <2>2. i + n = j + n
    BY <2>1 DEF Connected
  <2> QED
    BY <2>2
<1> QED
  BY <1>4, <1>5, <1>6 DEF Connected

\* Such a change keeps the invariant.
LEMMA StaysDrain ==
  ASSUME NEW m, NEW k, NEW ls, NEW need, NEW p, Stays(m, k), Drain(m, ls, need, p)
  PROVE  Drain(k, ls, need, p)
<1>1. /\ Typed(m) /\ Typed(k) /\ Flags(m, k) /\ Len(m.todo) \in Nat /\ Len(k.todo) \in Nat
      /\ m.awaitDrain \in Nat
  BY Fields DEF Stays
<1>2. PICK n \in Int : Cleaning(m.todo, k.todo, n)
  BY DEF Stays
<1>3. Connected(k.todo, k.pipes, ls)
  BY <1>1, <1>2, ConnectedStays DEF Drain, Flags
<1>4. \A i \in 1 .. Len(k.todo) :
        k.todo[i].k = "data" => \E j \in 1 .. Len(m.todo) : k.todo[i] = m.todo[j]
  BY DEF Stays
<1>5. Listed(k.todo, ls)
  BY <1>4 DEF Drain, Listed, DueTo
<1>6. Awaits(k, ls, need)
  <2>1. Cardinality(Counted(m.todo, ls, need)) <= Cardinality(Counted(k.todo, ls, need))
    BY <1>4, CountedGrow
  <2>2. /\ Cardinality(Counted(m.todo, ls, need)) \in Nat
        /\ Cardinality(Counted(k.todo, ls, need)) \in Nat
    BY CountedFinite
  <2>3. m.awaitDrain <= Cardinality(Counted(m.todo, ls, need)) /\ k.awaitDrain = m.awaitDrain
    BY <1>1 DEF Drain, Awaits, Flags
  <2> QED
    BY <1>1, <2>1, <2>2, <2>3 DEF Awaits
<1>7. Stops(k, p)
  <2>1. ASSUME NEW i \in 1 .. Len(k.todo), k.todo[i].k \in Returning
        PROVE  MayReturn(k.todo[i], k.awaitDrain)
    BY <1>1, <2>1 DEF Stays, Careful, Flags, Drain, Stops
  <2> QED
    BY <1>1, <2>1 DEF Drain, Stops, Flags
<1> QED
  BY <1>3, <1>5, <1>6, <1>7 DEF Drain

\* Such changes add up.
LEMMA StaysTransitive ==
  ASSUME NEW m, NEW k, NEW l, Stays(m, k), Stays(k, l)
  PROVE  Stays(m, l)
<1>1. /\ Typed(m) /\ Typed(l) /\ Flags(m, l) /\ k.awaitDrain = m.awaitDrain
      /\ Len(m.todo) \in Nat /\ Len(k.todo) \in Nat /\ Len(l.todo) \in Nat
  BY Fields DEF Stays, Flags
<1>2. PICK x \in Int : Cleaning(m.todo, k.todo, x)
  BY DEF Stays
<1>3. PICK y \in Int : Cleaning(k.todo, l.todo, y)
  BY DEF Stays
<1>4. Cleaning(m.todo, l.todo, x + y)
  <2>1. ASSUME NEW i \in 1 .. Len(l.todo), l.todo[i].k = "cleanup"
        PROVE  i + (x + y) \in 1 .. Len(m.todo) /\ l.todo[i] = m.todo[i + (x + y)]
    <3>1. i + y \in 1 .. Len(k.todo) /\ l.todo[i] = k.todo[i + y]
      BY <1>3, <2>1 DEF Cleaning
    <3>2. (i + y) + x \in 1 .. Len(m.todo) /\ l.todo[i] = m.todo[(i + y) + x]
      BY <1>2, <2>1, <3>1 DEF Cleaning
    <3>3. (i + y) + x = i + (x + y)
      OBVIOUS
    <3> QED
      BY <3>2, <3>3
  <2>2. ASSUME NEW j \in 1 .. Len(m.todo), m.todo[j].k = "cleanup"
        PROVE  j - (x + y) \in 1 .. Len(l.todo) /\ l.todo[j - (x + y)] = m.todo[j]
    <3>1. j - x \in 1 .. Len(k.todo) /\ k.todo[j - x] = m.todo[j]
      BY <1>2, <2>2 DEF Cleaning
    <3>2. (j - x) - y \in 1 .. Len(l.todo) /\ l.todo[(j - x) - y] = m.todo[j]
      BY <1>3, <2>2, <3>1 DEF Cleaning
    <3>3. (j - x) - y = j - (x + y)
      OBVIOUS
    <3> QED
      BY <3>2, <3>3
  <2> QED
    BY <2>1, <2>2 DEF Cleaning
<1>5. \A i \in 1 .. Len(l.todo) :
        \/ l.todo[i].k # "data" /\ Careful(l.todo[i], m.awaitDrain)
        \/ \E j \in 1 .. Len(m.todo) : l.todo[i] = m.todo[j]
  <2> TAKE i \in 1 .. Len(l.todo)
  <2>1. CASE l.todo[i].k # "data" /\ Careful(l.todo[i], k.awaitDrain)
    BY <1>1, <2>1
  <2>2. ASSUME NEW j \in 1 .. Len(k.todo), l.todo[i] = k.todo[j]
        PROVE  \/ l.todo[i].k # "data" /\ Careful(l.todo[i], m.awaitDrain)
               \/ \E h \in 1 .. Len(m.todo) : l.todo[i] = m.todo[h]
    <3>1. \/ k.todo[j].k # "data" /\ Careful(k.todo[j], m.awaitDrain)
          \/ \E h \in 1 .. Len(m.todo) : k.todo[j] = m.todo[h]
      BY DEF Stays
    <3> QED
      BY <2>2, <3>1
  <2> QED
    BY <2>1, <2>2 DEF Stays
<1> HIDE DEF Careful
<1>6. x + y \in Int
  OBVIOUS
<1> QED
  BY <1>1, <1>4, <1>5, <1>6 DEF Stays

\* A change of other flags.
LEMMA FlagsStay ==
  ASSUME NEW m, NEW k, Typed(m), Typed(k), Flags(m, k), k.todo = m.todo
  PROVE  Stays(m, k)
<1>1. Len(m.todo) \in Nat
  BY Fields
<1>2. \A i \in 1 .. Len(m.todo) : i + 0 = i /\ i - 0 = i
  BY <1>1
<1>3. Cleaning(m.todo, k.todo, 0) /\ 0 \in Int
  BY <1>2 DEF Cleaning
<1> QED
  BY <1>3 DEF Stays

\* Items go on the stack.
LEMMA RunStays ==
  ASSUME NEW m, Typed(m), NEW items \in Seq(Items(m.ended)),
         \A i \in 1 .. Len(items) :
           items[i].k \notin {"data", "cleanup"} /\ Careful(items[i], m.awaitDrain)
  PROVE  Stays(m, Run(m, items))
<1> DEFINE k == Run(m, items)
           todo == items \o m.todo
<1>1. Typed(k) /\ k.todo = todo /\ Flags(m, k)
  <2>1. m \in Streams
    BY Fields
  <2>2. Flags(m, k)
    BY <2>1 DEF Run, Flags, Streams
  <2> QED
    BY <2>2, RunTyped
<1>2. /\ Len(todo) = Len(items) + Len(m.todo) /\ Len(items) \in Nat /\ Len(m.todo) \in Nat
      /\ \A i \in 1 .. Len(todo) : todo[i] = IF i <= Len(items) THEN items[i] ELSE m.todo[i - Len(items)]
  BY Fields, ConcatProperties
<1> HIDE DEF todo, k
<1> DEFINE n == 0 - Len(items)
<1>3. ASSUME NEW i \in 1 .. Len(todo), ~(i <= Len(items))
      PROVE  i + n \in 1 .. Len(m.todo) /\ todo[i] = m.todo[i + n]
  <2>1. i - Len(items) \in 1 .. Len(m.todo) /\ i - Len(items) = i + n
    BY <1>2, <1>3
  <2> QED
    BY <1>2, <1>3, <2>1
<1>4. ASSUME NEW j \in 1 .. Len(m.todo)
      PROVE  j - n \in 1 .. Len(todo) /\ todo[j - n] = m.todo[j]
  <2> PICK h : h = j - n
    OBVIOUS
  <2>1. h = j + Len(items) /\ h + n = j
    <3>1. Len(items) \in Nat /\ Len(m.todo) \in Nat
      BY <1>2
    <3> QED
      BY <3>1
  <2>2. h \in 1 .. Len(todo) /\ ~(h <= Len(items))
    <3>1. Len(todo) = Len(items) + Len(m.todo) /\ Len(items) \in Nat /\ Len(m.todo) \in Nat
      BY <1>2
    <3>2. j >= 1 /\ j <= Len(m.todo) /\ j \in Int
      BY <3>1
    <3> QED
      BY ONLY <2>1, <3>1, <3>2
  <2>3. todo[h] = m.todo[h + n]
    BY <1>3, <2>2
  <2> QED
    BY <2>1, <2>2, <2>3
<1>5. n \in Int
  BY <1>2
<1> HIDE DEF n
<1>6. \A i \in 1 .. Len(todo) : i <= Len(items) => i \in 1 .. Len(items) /\ todo[i] = items[i]
  BY <1>2
<1>7. Cleaning(m.todo, todo, n)
  BY <1>3, <1>4, <1>6 DEF Cleaning
<1>8. \A i \in 1 .. Len(todo) :
        \/ todo[i].k # "data" /\ Careful(todo[i], m.awaitDrain)
        \/ \E j \in 1 .. Len(m.todo) : todo[i] = m.todo[j]
  BY <1>3, <1>6
<1> QED
  BY <1>1, <1>5, <1>7, <1>8 DEF Stays, k

\* The top comes off, unless it cleans up.
LEMMA PopStays ==
  ASSUME NEW m, Typed(m), m.todo # <<>>, m.todo[1].k # "cleanup"
  PROVE  Stays(m, [m EXCEPT !.todo = Tail(m.todo)])
<1> DEFINE k == [m EXCEPT !.todo = Tail(m.todo)]
<1>1. /\ Over(m, k) /\ Len(k.todo) = Len(m.todo) - 1
      /\ \A i \in 1 .. Len(k.todo) : i + 1 \in 1 .. Len(m.todo) /\ k.todo[i] = m.todo[i + 1]
  BY PopTyped
<1>2. m \in Streams /\ Len(m.todo) \in Nat
  BY Fields
<1>3. Flags(m, k) /\ Typed(k)
  BY <1>1, <1>2 DEF Flags, Streams, Over
<1> HIDE DEF k
<1>4. ASSUME NEW j \in 1 .. Len(m.todo), m.todo[j].k = "cleanup"
      PROVE  j - 1 \in 1 .. Len(k.todo) /\ k.todo[j - 1] = m.todo[j]
  <2>1. j # 1
    BY <1>4
  <2>2. j - 1 \in 1 .. Len(k.todo) /\ (j - 1) + 1 = j
    BY <1>1, <1>2, <2>1
  <2> QED
    BY <1>1, <2>2
<1>5. Cleaning(m.todo, k.todo, 1) /\ 1 \in Int
  BY <1>1, <1>4 DEF Cleaning
<1>6. \A i \in 1 .. Len(k.todo) : \E j \in 1 .. Len(m.todo) : k.todo[i] = m.todo[j]
  BY <1>1
<1> QED
  BY <1>3, <1>5, <1>6 DEF Stays, k

\* A change of flags that none of this is about, or a free item on the stack, is
\* what most functions of the source come down to.
LEMMA AsideStays ==
  ASSUME NEW m, Typed(m), NEW k, Aside(m, k), Flags(m, k)
  PROVE  Stays(m, k)
<1> QED
  BY FlagsStay DEF Aside

\* One item goes on the stack.
LEMMA RunOneStays ==
  ASSUME NEW m, Typed(m), NEW x \in Items(m.ended), x.k \notin {"data", "cleanup"},
         Careful(x, m.awaitDrain)
  PROVE  Stays(m, Run(m, <<x>>))
<1>1. <<x>> \in Seq(Items(m.ended)) /\ Len(<<x>>) = 1 /\ <<x>>[1] = x
  BY OneItem
<1>2. \A i \in 1 .. 1 : i = 1
  OBVIOUS
<1> QED
  BY <1>1, <1>2, RunStays

\* ... of a kind that is no read() and carries nothing.
LEMMA RunFreeStays ==
  ASSUME NEW m, Typed(m),
         NEW k \in Kinds \ (Returning \cup {"data", "cleanup", "end"})
  PROVE  Stays(m, Run(m, <<Item(k)>>))
<1>1. Item(k) \in Items(m.ended) /\ Item(k).k = k
  BY Fields, NewItem
<1>2. Careful(Item(k), m.awaitDrain)
  BY <1>1 DEF Careful
<1> QED
  BY <1>1, <1>2, RunOneStays

\* emitReadable
LEMMA EmitReadableStays ==
  ASSUME NEW m, Typed(m)
  PROVE  Stays(m, EmitReadable(m))
<1> DEFINE first == [m EXCEPT !.needReadable = FALSE, !.emittedReadable = TRUE]
<1>1. m \in Streams
  BY Fields
<1>2. CASE m.emittedReadable \/ m.sync
  <2>1. Aside(m, EmitReadable(m))
    BY <1>2, EmitReadableGoes
  <2>2. Flags(m, EmitReadable(m))
    BY <1>1, <1>2 DEF EmitReadable, Later, Flags, Streams
  <2> QED
    BY <2>1, <2>2, AsideStays
<1>3. CASE ~m.emittedReadable /\ ~m.sync
  <2>1. EmitReadable(m) = Run(first, <<Item("readable")>>)
    BY <1>3 DEF EmitReadable
  <2>2. first \in Streams /\ SameData(m, first) /\ first.todo = m.todo /\ first.ticks = m.ticks
        /\ first.sync = m.sync /\ Flags(m, first)
    BY <1>1 DEF Streams, SameData, Flags
  <2> HIDE DEF first
  <2>3. Typed(first) /\ Stays(m, first)
    BY <2>2, FlagsAside, AsideStays DEF Aside
  <2>4. Stays(first, Run(first, <<Item("readable")>>))
    BY <2>3, RunFreeStays DEF Kinds, Returning
  <2> QED
    BY <2>1, <2>3, <2>4, StaysTransitive
<1> QED
  BY <1>2, <1>3

\* maybeReadMore, endReadable and howMuchToRead
LEMMA AsidesStay ==
  ASSUME NEW m, Typed(m)
  PROVE  /\ Stays(m, m)
         /\ Stays(m, MaybeReadMore(m))
         /\ m.ended => Stays(m, EndReadable(m))
         /\ \A n \in Nat \cup {All} : Stays(m, Demand(n, m))
<1>1. m \in Streams
  BY Fields
<1>2. Flags(m, m) /\ Flags(m, MaybeReadMore(m)) /\ Flags(m, EndReadable(m))
  BY <1>1 DEF Flags, MaybeReadMore, EndReadable, Later, Streams
<1>3. \A n \in Nat \cup {All} : Flags(m, Demand(n, m))
  BY <1>1 DEF Flags, Demand, Streams
<1> QED
  BY <1>2, <1>3, MaybeReadMoreGoes, EndReadableGoes, DemandGoes, AsideStays, FlagsStay

\* read() returns null.
LEMMA ReturnsNullStays ==
  ASSUME NEW m, Typed(m), NEW orig
  PROVE  Stays(m, ReturnsNull(orig, m))
<1> DEFINE waiting == [m EXCEPT !.waits = TRUE]
           less == [m EXCEPT !.todo = Tail(@)]
<1>1. m \in Streams /\ Stays(m, m)
  BY Fields, AsidesStay
<1>2. Stays(m, waiting)
  <2>1. waiting \in Streams /\ SameData(m, waiting) /\ waiting.todo = m.todo
        /\ waiting.ticks = m.ticks /\ waiting.sync = m.sync /\ Flags(m, waiting)
    BY <1>1 DEF Streams, SameData, Flags
  <2> HIDE DEF waiting
  <2> QED
    BY <2>1, FlagsAside, AsideStays
<1>3. \/ ReturnsNull(orig, m) \in {m, waiting}
      \/ ReturnsNull(orig, m) = less /\ m.todo # <<>> /\ Head(m.todo).k = "flow"
  <2>1. Item("user").k # "flow"
    BY DEF Item
  <2> QED
    BY <2>1 DEF ReturnsNull
<1>4. m.todo # <<>> /\ Head(m.todo).k = "flow" => Stays(m, less)
  <2>1. Head(m.todo) = m.todo[1]
    OBVIOUS
  <2> QED
    BY <2>1, PopStays
<1> QED
  BY <1>1, <1>2, <1>3, <1>4

\* howMuchToRead of read(0)
LEMMA ReadNothing ==
  ASSUME NEW m, Typed(m)
  PROVE  HowMuchToRead(0, m) = 0
<1>1. m.length \in Nat
  BY Fields
<1> QED
  BY <1>1 DEF HowMuchToRead, All

\* read(), up to the call of _read or to its end, of a stream that waits for no
\* destination unless it is read(0).
LEMMA ReadStays ==
  ASSUME NEW m, Typed(m), m.length = Len(FlattenSeq(m.buffer)), NEW orig \in Nat \cup {All},
         orig = 0 \/ m.awaitDrain = 0
  PROVE  Stays(m, Read(orig, m))
<1> DEFINE begun == [m EXCEPT !.emittedReadable = @ /\ orig = 0]
           n == HowMuchToRead(orig, begun)
           asked == Demand(orig, begun)
           need == asked.needReadable \/ asked.length = 0
           called == [asked EXCEPT !.reading = TRUE, !.sync = TRUE, !.wanted = TRUE,
                                   !.needReadable = need]
<1>1. m \in Streams /\ m.ended \in BOOLEAN /\ m.length \in Nat
  BY Fields
<1>2. /\ Stays(m, begun) /\ Typed(begun) /\ begun.ended = m.ended /\ begun.awaitDrain = m.awaitDrain
      /\ begun.length = Len(FlattenSeq(begun.buffer))
  <2> DEFINE emitted == m.emittedReadable /\ orig = 0
  <2>1. emitted \in BOOLEAN
    BY <1>1 DEF Streams
  <2>2. begun = [m EXCEPT !.emittedReadable = emitted]
    OBVIOUS
  <2> HIDE DEF emitted, begun
  <2>3. begun \in Streams /\ SameData(m, begun) /\ begun.todo = m.todo /\ begun.ticks = m.ticks
        /\ begun.sync = m.sync /\ Flags(m, begun)
    BY <1>1, <2>1, <2>2 DEF Streams, SameData, Flags
  <2>4. Aside(m, begun)
    BY <2>3, FlagsAside
  <2>5. Stays(m, begun) /\ Typed(begun)
    BY <2>3, <2>4, AsideStays DEF Aside
  <2> QED
    BY <2>3, <2>5 DEF SameData, Flags
<1> HIDE DEF begun
<1>3. n \in Nat /\ (orig = 0 => n = 0)
  <2>1. n \in 0 .. begun.length /\ begun.length \in Nat
    BY <1>2, HowMuchIsThere, Fields
  <2> QED
    BY <1>2, <2>1, ReadNothing
<1>4. Stays(m, asked) /\ Typed(asked) /\ asked.ended = m.ended /\ asked.awaitDrain = m.awaitDrain
  <2>1. Stays(begun, asked) /\ Aside(begun, asked)
    BY <1>2, AsidesStay, DemandGoes
  <2> QED
    BY <1>2, <2>1, StaysTransitive DEF Aside, SameData, Stays, Flags
<1> HIDE DEF n, asked
<1>5. /\ Stays(m, called) /\ Typed(called) /\ called.ended = m.ended
      /\ called.awaitDrain = m.awaitDrain
  <2>1. asked \in Streams /\ need \in BOOLEAN
    BY <1>4, Fields DEF Streams
  <2> HIDE DEF need
  <2>2. /\ called \in Streams /\ SameData(asked, called) /\ called.todo = asked.todo
        /\ called.ticks = asked.ticks /\ Flags(asked, called)
    BY <2>1 DEF Streams, SameData, Flags
  <2> HIDE DEF called
  <2>3. Typed(called)
    BY <1>4, <2>2 DEF Typed, SameData
  <2>4. Stays(asked, called)
    BY <1>4, <2>2, <2>3, FlagsStay
  <2> QED
    BY <1>4, <2>2, <2>3, <2>4, StaysTransitive DEF SameData, Flags
<1> HIDE DEF called
<1>6. m.ended => \A k \in {begun, asked} : Stays(m, EndReadable(k))
  BY <1>2, <1>4, AsidesStay, StaysTransitive
<1>7. Stays(m, EmitReadable(begun))
  BY <1>2, EmitReadableStays, StaysTransitive
<1>8. m.ended => \A k \in {EndReadable(asked), asked} : Stays(m, ReturnsNull(orig, k))
  <2> SUFFICES ASSUME m.ended, NEW k \in {EndReadable(asked), asked}
               PROVE  Stays(m, ReturnsNull(orig, k))
    OBVIOUS
  <2>1. Stays(m, k)
    BY <1>4, <1>6
  <2>2. Stays(k, ReturnsNull(orig, k))
    BY <2>1, ReturnsNullStays DEF Stays
  <2> QED
    BY <2>1, <2>2, StaysTransitive
<1>9. \A did \in BOOLEAN : MayReturn(ReadRest(did, orig, n), m.awaitDrain)
  <2>1. \A did \in BOOLEAN : ReadRest(did, orig, n).orig = orig /\ ReadRest(did, orig, n).n = n
    BY <1>3, ReadItems
  <2> QED
    BY <1>3, <2>1 DEF MayReturn
<1>10. Stays(m, Run(called, <<Item("body"), ReadRest(TRUE, orig, n)>>))
  <2> PICK x, y : x = Item("body") /\ y = ReadRest(TRUE, orig, n)
    OBVIOUS
  <2>1. /\ x \in Items(called.ended) /\ x.k = "body"
        /\ y \in Items(called.ended) /\ y.k = "afterRead" /\ MayReturn(y, m.awaitDrain)
    BY <1>1, <1>3, <1>5, <1>9, ReadItems
  <2>2. <<x, y>> \in Seq(Items(called.ended)) /\ Len(<<x, y>>) = 2 /\ <<x, y>>[1] = x /\ <<x, y>>[2] = y
    BY <2>1, TwoItems
  <2>3. \A i \in 1 .. 2 : i = 1 \/ i = 2
    OBVIOUS
  <2>4. \A i \in 1 .. Len(<<x, y>>) :
          <<x, y>>[i].k \notin {"data", "cleanup"} /\ Careful(<<x, y>>[i], called.awaitDrain)
    BY <1>5, <2>1, <2>2, <2>3 DEF Careful, Returning
  <2>5. Stays(called, Run(called, <<x, y>>))
    BY <1>5, <2>2, <2>4, RunStays
  <2> QED
    BY <1>5, <2>5, StaysTransitive
<1>11. Stays(m, Run(asked, <<ReadRest(FALSE, orig, n)>>))
  <2> PICK x : x = ReadRest(FALSE, orig, n)
    OBVIOUS
  <2>1. x \in Items(asked.ended) /\ x.k = "rest" /\ MayReturn(x, m.awaitDrain)
    BY <1>1, <1>3, <1>4, <1>9, ReadItems
  <2>2. Careful(x, asked.awaitDrain)
    BY <1>4, <2>1 DEF Careful
  <2>3. Stays(asked, Run(asked, <<x>>))
    BY <1>4, <2>1, <2>2, RunOneStays
  <2> QED
    BY <1>4, <2>3, StaysTransitive
<1> HIDE DEF need
<1>12. CASE orig = 0 /\ m.needReadable /\ (m.length >= m.highWaterMark \/ m.ended)
  <2>1. Read(orig, m) = IF m.length = 0 /\ m.ended THEN EndReadable(begun) ELSE EmitReadable(begun)
    BY <1>12 DEF Read, begun
  <2> QED
    BY <1>6, <1>7, <2>1
<1>13. CASE ~(orig = 0 /\ m.needReadable /\ (m.length >= m.highWaterMark \/ m.ended))
  <2>1. Read(orig, m) =
          CASE n = 0 /\ m.ended ->
                 ReturnsNull(orig, IF m.length = 0 THEN EndReadable(asked) ELSE asked)
            [] ~(n = 0 /\ m.ended) /\ CallRead(n, asked) ->
                 Run(called, <<Item("body"), ReadRest(TRUE, orig, n)>>)
            [] OTHER -> Run(asked, <<ReadRest(FALSE, orig, n)>>)
    BY <1>13 DEF Read, begun, n, asked, called, need
  <2>2. CASE n = 0 /\ m.ended
    BY <1>8, <2>1, <2>2
  <2>3. CASE ~(n = 0 /\ m.ended) /\ CallRead(n, asked)
    BY <1>10, <2>1, <2>3
  <2>4. CASE ~(n = 0 /\ m.ended) /\ ~CallRead(n, asked)
    BY <1>11, <2>1, <2>4
  <2> QED
    BY <2>2, <2>3, <2>4
<1> QED
  BY <1>12, <1>13

\* A flag is set, or bytes are put into the buffer.
LEMMA SetStays ==
  ASSUME NEW m, Typed(m), NEW k \in Streams, k.todo = m.todo, k.ticks = m.ticks,
         k.ended = m.ended, Flags(m, k)
  PROVE  Typed(k) /\ Stays(m, k)
<1>1. Typed(k)
  BY DEF Typed
<1> QED
  BY <1>1, FlagsStay

-----------------------------------------------------------------------------
(* Steps that this is not about. *)

DrainInv == Drain(state, listeners, destNeedDrain, paused)

\* What the steps of the stream leave alone.
Quietly == UNCHANGED <<listeners, destNeedDrain, paused>>

\* Same leaves it all alone.
LEMMA SameIsQuiet == Same => Quietly
  BY DEF Same, Quietly, dest, hist

\* Such a step.
LEMMA StaysKeeps ==
  ASSUME DrainInv, Quietly, Stays(state, state')
  PROVE  DrainInv'
<1>1. Drain(state', listeners, destNeedDrain, paused)
  BY StaysDrain DEF DrainInv
<1> QED
  BY <1>1 DEF DrainInv, Quietly

\* The top comes off.
LEMMA PoppedStays ==
  ASSUME Inv, NEW k, k # "cleanup", Running(k)
  PROVE  /\ Stays(state, Popped) /\ Typed(Popped) /\ Popped \in Streams
         /\ Popped.ended = state.ended /\ state.ended \in BOOLEAN
         /\ Popped.length = Len(FlattenSeq(Popped.buffer))
         /\ \A l : Stays(Popped, l) => Stays(state, l)
<1>1. state.todo # <<>> /\ state.todo[1].k = k
  BY Top
<1>2. /\ Popped = [state EXCEPT !.todo = Tail(state.todo)] /\ SameData(state, Popped)
      /\ Core(Popped, chunks, pushed, taken) /\ Typed(Popped)
  BY <1>1, PoppedGoes
<1>3. Typed(state) /\ state.ended \in BOOLEAN
  BY Fields DEF Inv, Core
<1>4. Stays(state, Popped)
  BY <1>1, <1>2, <1>3, PopStays
<1> HIDE DEF Popped
<1>5. \A l : Stays(Popped, l) => Stays(state, l)
  BY <1>4, StaysTransitive
<1> QED
  BY <1>2, <1>3, <1>4, <1>5, Fields DEF Core, Bytes, SameData

\* The user calls from a turn of its own or from a handler.
LEMMA CallerStays ==
  ASSUME Inv, Call
  PROVE  /\ Stays(state, Caller) /\ Typed(Caller) /\ Caller \in Streams
         /\ Caller.length = Len(FlattenSeq(Caller.buffer))
         /\ Caller.ended \in BOOLEAN
         /\ \A l : Stays(Caller, l) => Stays(state, l)
<1>1. Typed(state)
  BY DEF Inv, Core
<1>2. Typed(Caller) /\ Core(Caller, chunks, pushed, taken)
  BY CallerGoes
<1>3. Stays(state, Caller)
  BY <1>1, RunFreeStays, AsidesStay DEF Caller, Kinds, Returning
<1> HIDE DEF Caller
<1>4. \A l : Stays(Caller, l) => Stays(state, l)
  BY <1>3, StaysTransitive
<1> QED
  BY <1>2, <1>3, <1>4, Fields DEF Core, Bytes

\* The stream reads when it waits for no destination, or nothing.
LEMMA ReadZeroRunsDrains ==
  ASSUME Inv, DrainInv, ReadZeroRuns
  PROVE  DrainInv'
<1>1. Running("read0") /\ Quietly
  BY SameIsQuiet DEF ReadZeroRuns
<1>2. Stays(Popped, Read(0, Popped))
  BY <1>1, PoppedStays, ReadStays
<1>3. Stays(state, state')
  BY <1>1, <1>2, PoppedStays DEF ReadZeroRuns
<1> QED
  BY <1>1, <1>3, StaysKeeps

\* The loop of flow() runs while the stream flows.
LEMMA FlowDrains ==
  ASSUME Inv, DrainInv, Flow
  PROVE  DrainInv'
<1>1. Running("flow") /\ Quietly
  BY SameIsQuiet DEF Flow
<1>2. CASE state.flowing = "true"
  <2>1. state.awaitDrain = 0
    BY <1>2 DEF DrainInv, Drain, Stops
  <2>2. Typed(state) /\ state.length = Len(FlattenSeq(state.buffer)) /\ All \in Nat \cup {All}
    BY DEF Inv, Core, Bytes
  <2>3. Stays(state, Read(All, state))
    BY <2>1, <2>2, ReadStays
  <2> QED
    BY <1>1, <1>2, <2>3, StaysKeeps DEF Flow
<1>3. CASE state.flowing # "true"
  BY <1>1, <1>3, PoppedStays, StaysKeeps DEF Flow
<1> QED
  BY <1>2, <1>3

\* emitReadable_
LEMMA EmitReadableEventDrains ==
  ASSUME Inv, DrainInv, EmitReadableEvent
  PROVE  DrainInv'
<1>1. Running("readable") /\ Quietly
  BY SameIsQuiet DEF EmitReadableEvent
<1> DEFINE waits == Popped.waits /\ ~readable
           k == [Popped EXCEPT !.waits = waits]
           l == Run(k, <<Item("flow")>>)
<1>2. Typed(Popped) /\ Popped \in Streams
  BY <1>1, PoppedStays
<1>3. Typed(k) /\ Stays(Popped, k)
  <2>1. waits \in BOOLEAN
    BY <1>2 DEF Streams
  <2> HIDE DEF waits, Popped
  <2>2. /\ k \in Streams /\ k.todo = Popped.todo /\ k.ticks = Popped.ticks
        /\ k.ended = Popped.ended /\ Flags(Popped, k)
    BY <1>2, <2>1 DEF Streams, Flags
  <2> HIDE DEF k
  <2> QED
    BY <1>2, <2>2, SetStays
<1>4. state' = IF readable THEN Run(l, <<Item("user")>>) ELSE l
  <2> HIDE DEF Popped
  <2>1. k \in Streams /\ k.todo \in Seq(Items(k.ended)) /\ k.ended \in BOOLEAN
    BY <1>3, Fields
  <2> HIDE DEF k
  <2> PICK S, u, f : S = Items(k.ended) /\ u = Item("user") /\ f = Item("flow")
    OBVIOUS
  <2>2. <<u>> \in Seq(S) /\ <<f>> \in Seq(S) /\ k.todo \in Seq(S)
    BY <2>1, PlainItem DEF Plain
  <2>3. (<<u>> \o <<f>>) \o k.todo = <<u>> \o (<<f>> \o k.todo) /\ <<>> \o <<f>> = <<f>>
    BY <2>2, ConcatAssociative, ConcatEmptySeq
  <2>4. Run(l, <<u>>) = [k EXCEPT !.todo = <<u>> \o (<<f>> \o k.todo)]
    BY <2>1 DEF Run, Streams
  <2>5. Run(k, <<u>> \o <<f>>) = [k EXCEPT !.todo = (<<u>> \o <<f>>) \o k.todo]
    BY DEF Run
  <2>6. state' = Run(k, (IF readable THEN <<u>> ELSE <<>>) \o <<f>>)
    BY DEF EmitReadableEvent, k
  <2>7. l = Run(k, <<f>>)
    OBVIOUS
  <2> HIDE DEF l
  <2>8. CASE readable
    BY <2>3, <2>4, <2>5, <2>6, <2>8
  <2>9. CASE ~readable
    BY <2>3, <2>6, <2>7, <2>9
  <2> QED
    BY <2>8, <2>9
<1> HIDE DEF k
<1>5. Stays(k, l)
  BY <1>3, RunFreeStays DEF Kinds, Returning
<1> HIDE DEF l
<1>6. Stays(l, Run(l, <<Item("user")>>))
  <2>1. Typed(l)
    BY <1>5 DEF Stays
  <2> QED
    BY <2>1, RunFreeStays DEF Kinds, Returning
<1>7. Stays(Popped, state')
  BY <1>3, <1>4, <1>5, <1>6, StaysTransitive
<1> QED
  BY <1>1, <1>7, PoppedStays, StaysKeeps

\* maybeReadMore_
LEMMA MoreDrains ==
  ASSUME Inv, DrainInv, More
  PROVE  DrainInv'
<1>1. Running("more") /\ Quietly
  BY SameIsQuiet DEF More
<1> DEFINE item == [Item("moreRead") EXCEPT !.n = state.length]
           k == [Popped EXCEPT !.readingMore = FALSE]
           l == Run(Popped, <<item>>)
<1>2. /\ Typed(Popped) /\ Popped \in Streams /\ state.length \in Nat
      /\ Popped.length = Len(FlattenSeq(Popped.buffer)) /\ Popped.ended \in BOOLEAN
  BY <1>1, PoppedStays, Fields DEF Inv, Core
<1>3. Stays(Popped, l) /\ Typed(l) /\ l.length = Len(FlattenSeq(l.buffer))
  <2>1. item \in Items(Popped.ended) /\ item.k = "moreRead"
    <3>1. item \in Plain(Popped.ended)
      BY <1>2, PlainItem
    <3>2. item.k = "moreRead"
      BY DEF Item
    <3> QED
      BY <3>1, <3>2 DEF Plain
  <2> HIDE DEF item
  <2>2. Stays(Popped, l)
    BY <1>2, <2>1, RunOneStays DEF Careful, Returning
  <2>3. SameData(Popped, l) /\ Typed(l)
    BY <1>2, <2>1, RunOne
  <2> QED
    BY <1>2, <2>2, <2>3 DEF SameData
<1>4. Stays(Popped, Read(0, l))
  <2> HIDE DEF l
  <2>1. Stays(l, Read(0, l))
    BY <1>3, ReadStays
  <2> QED
    BY <1>3, <2>1, StaysTransitive
<1>5. Stays(Popped, k)
  <2> HIDE DEF Popped
  <2>1. /\ k \in Streams /\ k.todo = Popped.todo /\ k.ticks = Popped.ticks
        /\ k.ended = Popped.ended /\ Flags(Popped, k)
    BY <1>2 DEF Streams, Flags
  <2> HIDE DEF k
  <2> QED
    BY <1>2, <2>1, SetStays
<1>6. Stays(Popped, state')
  BY <1>4, <1>5 DEF More
<1> QED
  BY <1>1, <1>6, PoppedStays, StaysKeeps

\* ... and its loop.
LEMMA MoreReadDrains ==
  ASSUME Inv, DrainInv, MoreRead
  PROVE  DrainInv'
<1>1. Running("moreRead") /\ Quietly
  BY SameIsQuiet DEF MoreRead
<1> DEFINE k == [Popped EXCEPT !.readingMore = FALSE]
<1>2. Typed(Popped) /\ Popped \in Streams
  BY <1>1, PoppedStays
<1>3. Stays(Popped, k)
  <2> HIDE DEF Popped
  <2>1. /\ k \in Streams /\ k.todo = Popped.todo /\ k.ticks = Popped.ticks
        /\ k.ended = Popped.ended /\ Flags(Popped, k)
    BY <1>2 DEF Streams, Flags
  <2> HIDE DEF k
  <2> QED
    BY <1>2, <2>1, SetStays
<1>4. Stays(Popped, Run(Popped, <<Item("more")>>))
  BY <1>2, RunFreeStays DEF Kinds, Returning
<1>5. Stays(Popped, state')
  BY <1>3, <1>4 DEF MoreRead
<1> QED
  BY <1>1, <1>5, PoppedStays, StaysKeeps

\* resume_
LEMMA ResumingDrains ==
  ASSUME Inv, DrainInv, ResumeTick \/ Resumed \/ ResumeRest
  PROVE  DrainInv'
<1>1. Quietly
  BY SameIsQuiet DEF ResumeTick, Resumed, ResumeRest
<1>2. CASE ResumeTick
  <2> DEFINE l == Run(Popped, <<Item("resumed")>>)
  <2>1. Running("resume") /\ state' \in {l, Read(0, l)}
    BY <1>2 DEF ResumeTick
  <2>2. Typed(Popped) /\ Popped.length = Len(FlattenSeq(Popped.buffer)) /\ Popped.ended \in BOOLEAN
    BY <2>1, PoppedStays
  <2>3. Stays(Popped, l) /\ Typed(l) /\ l.length = Len(FlattenSeq(l.buffer))
    <3>1. Item("resumed") \in Items(Popped.ended)
      BY <2>2, PlainItem DEF Plain
    <3>2. Stays(Popped, l)
      BY <2>2, RunFreeStays DEF Kinds, Returning
    <3>3. SameData(Popped, l) /\ Typed(l)
      BY <2>2, <3>1, RunOne
    <3> QED
      BY <2>2, <3>2, <3>3 DEF SameData
  <2> HIDE DEF l
  <2>4. Stays(l, Read(0, l))
    BY <2>3, ReadStays
  <2>5. Stays(Popped, state')
    BY <2>1, <2>3, <2>4, StaysTransitive
  <2> QED
    BY <1>1, <2>1, <2>5, PoppedStays, StaysKeeps
<1>3. CASE Resumed
  <2> DEFINE k == [Popped EXCEPT !.resumeScheduled = FALSE]
             items == <<Item("flow"), Item("resumeRest")>>
  <2>1. Running("resumed") /\ state' = Run(k, items)
    BY <1>3 DEF Resumed
  <2>2. Typed(Popped) /\ Popped \in Streams
    BY <2>1, PoppedStays
  <2>3. Stays(Popped, k) /\ Typed(k)
    <3> HIDE DEF Popped
    <3>1. /\ k \in Streams /\ k.todo = Popped.todo /\ k.ticks = Popped.ticks
          /\ k.ended = Popped.ended /\ Flags(Popped, k)
      BY <2>2 DEF Streams, Flags
    <3> HIDE DEF k
    <3> QED
      BY <2>2, <3>1, SetStays
  <2> HIDE DEF k
  <2>4. Stays(k, Run(k, items))
    <3> PICK x, y : x = Item("flow") /\ y = Item("resumeRest")
      OBVIOUS
    <3>1. x \in Items(k.ended) /\ x.k = "flow" /\ y \in Items(k.ended) /\ y.k = "resumeRest"
      BY <2>3, Fields, PlainItem DEF Plain
    <3>2. <<x, y>> \in Seq(Items(k.ended)) /\ Len(<<x, y>>) = 2 /\ <<x, y>>[1] = x /\ <<x, y>>[2] = y
      BY <3>1, TwoItems
    <3>3. \A i \in 1 .. 2 : i = 1 \/ i = 2
      OBVIOUS
    <3>4. \A i \in 1 .. Len(<<x, y>>) :
            <<x, y>>[i].k \notin {"data", "cleanup"} /\ Careful(<<x, y>>[i], k.awaitDrain)
      BY <3>1, <3>2, <3>3 DEF Careful, Returning
    <3> QED
      BY <2>3, <3>2, <3>4, RunStays
  <2>5. Stays(Popped, state')
    BY <2>1, <2>3, <2>4, StaysTransitive
  <2> QED
    BY <1>1, <2>1, <2>5, PoppedStays, StaysKeeps
<1>4. CASE ResumeRest
  <2>1. Running("resumeRest") /\ state' \in {Popped, Read(0, Popped)}
    BY <1>4 DEF ResumeRest
  <2>2. Stays(Popped, Read(0, Popped))
    BY <2>1, PoppedStays, ReadStays
  <2> QED
    BY <1>1, <2>1, <2>2, PoppedStays, StaysKeeps
<1> QED
  BY <1>2, <1>3, <1>4

\* A handler or a tick of the end returns; 'end' runs the user's handlers.
LEMMA EndingDrains ==
  ASSUME Inv, DrainInv, UserReturns \/ EndLate \/ End
  PROVE  DrainInv'
<1>1. Quietly
  BY SameIsQuiet DEF UserReturns, EndLate, End, Quietly, hist
<1>2. CASE UserReturns \/ EndLate \/ (End /\ state' = Popped)
  <2>1. \E k \in {"user", "endLate", "end"} : Running(k) /\ state' = Popped
    BY <1>2 DEF UserReturns, EndLate, End
  <2> QED
    BY <1>1, <2>1, PoppedStays, StaysKeeps
<1>3. CASE End /\ state' # Popped
  <2> DEFINE k == [Popped EXCEPT !.endEmitted = TRUE]
  <2>1. Running("end") /\ state' = Run(k, <<Item("user")>>)
    BY <1>3 DEF End
  <2>2. Typed(Popped) /\ Popped \in Streams
    BY <2>1, PoppedStays
  <2>3. Stays(Popped, k) /\ Typed(k)
    <3> HIDE DEF Popped
    <3>1. /\ k \in Streams /\ k.todo = Popped.todo /\ k.ticks = Popped.ticks
          /\ k.ended = Popped.ended /\ Flags(Popped, k)
      BY <2>2 DEF Streams, Flags
    <3> HIDE DEF k
    <3> QED
      BY <2>2, <3>1, SetStays
  <2> HIDE DEF k
  <2>4. Stays(k, Run(k, <<Item("user")>>))
    BY <2>3, RunFreeStays DEF Kinds, Returning
  <2>5. Stays(Popped, state')
    BY <2>1, <2>3, <2>4, StaysTransitive
  <2> QED
    BY <1>1, <2>1, <2>5, PoppedStays, StaysKeeps
<1> QED
  BY <1>2, <1>3

\* push() goes on, and _read returns.
LEMMA PushingDrains ==
  ASSUME Inv, DrainInv, Pushed \/ PushMore \/ BodyReturns
  PROVE  DrainInv'
<1>1. Quietly
  BY DEF Pushed, PushMore, BodyReturns, Quietly, dest, hist
<1>2. CASE Pushed
  <2> DEFINE wanted == IF state.eager THEN NeedMoreData(state) ELSE Popped.wanted
             k == [Popped EXCEPT !.wanted = wanted]
  <2>1. Running("pushed") /\ state' = k
    BY <1>2 DEF Pushed
  <2>2. Typed(Popped) /\ Popped \in Streams
    BY <2>1, PoppedStays
  <2>3. wanted \in BOOLEAN
    <3>1. Popped.wanted \in BOOLEAN
      BY <2>2 DEF Streams
    <3>2. NeedMoreData(state) \in BOOLEAN
      BY DEF NeedMoreData
    <3> QED
      BY <3>1, <3>2
  <2> HIDE DEF wanted
  <2>4. Stays(Popped, k)
    <3> HIDE DEF Popped
    <3>1. /\ k \in Streams /\ k.todo = Popped.todo /\ k.ticks = Popped.ticks
          /\ k.ended = Popped.ended /\ Flags(Popped, k)
      BY <2>2, <2>3 DEF Streams, Flags
    <3> HIDE DEF k
    <3> QED
      BY <2>2, <3>1, SetStays
  <2> HIDE DEF k
  <2> QED
    BY <1>1, <2>1, <2>4, PoppedStays, StaysKeeps
<1>3. CASE PushMore
  <2>1. Running("pushMore") /\ state' = MaybeReadMore(Popped)
    BY <1>3 DEF PushMore
  <2>2. Stays(Popped, MaybeReadMore(Popped))
    BY <2>1, PoppedStays, AsidesStay
  <2> QED
    BY <1>1, <2>1, <2>2, PoppedStays, StaysKeeps
<1>4. CASE BodyReturns
  <2> DEFINE k == [Popped EXCEPT !.sync = FALSE]
  <2>1. Running("body") /\ state' = k
    BY <1>4 DEF BodyReturns
  <2>2. Typed(Popped) /\ Popped \in Streams
    BY <2>1, PoppedStays
  <2>3. Stays(Popped, k)
    <3> HIDE DEF Popped
    <3>1. /\ k \in Streams /\ k.todo = Popped.todo /\ k.ticks = Popped.ticks
          /\ k.ended = Popped.ended /\ Flags(Popped, k)
      BY <2>2 DEF Streams, Flags
    <3> HIDE DEF k
    <3> QED
      BY <2>2, <3>1, SetStays
  <2> HIDE DEF k
  <2> QED
    BY <1>1, <2>1, <2>3, PoppedStays, StaysKeeps
<1> QED
  BY <1>2, <1>3, <1>4

\* A tick begins.
LEMMA RunTickDrains ==
  ASSUME Inv, DrainInv, RunTick
  PROVE  DrainInv'
<1>1. Quietly /\ Idle /\ state.ticks # <<>>
  BY SameIsQuiet DEF RunTick
<1> DEFINE item == Head(state.ticks)
           k == [state EXCEPT !.ticks = Tail(@)]
<1>2. state.todo = <<>> /\ Typed(state) /\ state \in Streams /\ state.ticks \in Seq(Ticks(state.ended))
  BY <1>1, IdleGoes, Fields
<1>3. item \in Ticks(state.ended) /\ Tail(state.ticks) \in Seq(Ticks(state.ended))
  BY <1>1, <1>2, HeadTailProperties
<1>4. state' = Run(k, <<item>>)
  <2>1. <<item>> \o state.todo = <<item>> /\ k.todo = state.todo
    <3>1. <<item>> \in Seq({item})
      OBVIOUS
    <3> HIDE DEF item
    <3> QED
      BY <1>2, <3>1, ConcatEmptySeq DEF Streams
  <2>2. state' = [state EXCEPT !.todo = <<item>>, !.ticks = Tail(@)]
    BY DEF RunTick
  <2> HIDE DEF item
  <2>3. [k EXCEPT !.todo = <<item>>] = [state EXCEPT !.todo = <<item>>, !.ticks = Tail(@)]
    BY <1>2 DEF Streams
  <2> QED
    BY <2>1, <2>2, <2>3 DEF Run
<1>5. Typed(k) /\ Stays(state, k)
  <2> PICK rest : rest = Tail(state.ticks)
    OBVIOUS
  <2>1. rest \in Seq(Items(TRUE)) /\ state.ended \in BOOLEAN
    BY <1>2, <1>3, ItemsGrow, Fields
  <2>2. /\ k \in Streams /\ k.todo = state.todo /\ k.ended = state.ended /\ k.ticks = rest
        /\ Flags(state, k)
    BY <1>2, <2>1 DEF Streams, Flags
  <2>3. Typed(k)
    BY <1>2, <1>3, <2>2 DEF Typed
  <2> QED
    BY <1>2, <2>2, <2>3, FlagsStay
<1>6. item \in Items(k.ended) /\ item.k \in TickKinds
  <2>1. k.ended = state.ended
    BY <1>2 DEF Streams
  <2> QED
    BY <1>3, <2>1 DEF Ticks
<1> HIDE DEF k, item
<1>7. Stays(k, Run(k, <<item>>))
  BY <1>5, <1>6, RunOneStays DEF TickKinds, Careful, Returning
<1> QED
  BY <1>1, <1>4, <1>5, <1>7, StaysTransitive, StaysKeeps

-----------------------------------------------------------------------------
(* Chunks reach a stream that waits for no destination. *)

\* 'data' is emitted to those who listen.
LEMMA EmitDrains ==
  ASSUME NEW m, Typed(m), listeners \in Seq(Dests \cup {User}), NEW bytes \in Seq(Nat),
         NEW need, NEW p, Drain(m, listeners, need, p), m.awaitDrain = 0
  PROVE  Drain(EmitData(m, bytes), listeners, need, p)
<1> DEFINE k == EmitData(m, bytes)
<1>1. /\ Typed(k) /\ Len(k.todo) = Len(m.todo) + 1 /\ Len(m.todo) \in Nat
      /\ k.todo[1].k = "data" /\ k.todo[1].to = listeners
      /\ \A i \in 2 .. Len(k.todo) : i - 1 \in 1 .. Len(m.todo) /\ k.todo[i] = m.todo[i - 1]
  <2> HIDE DEF k
  <2> QED
    BY EmitDataGoes DEF k
<1>2. Flags(m, k)
  <2>1. m \in Streams
    BY Fields
  <2> QED
    BY <2>1 DEF EmitData, Run, Flags, Streams
<1> HIDE DEF k
<1>3. Awaits(k, listeners, need)
  <2>1. Cardinality(Counted(k.todo, listeners, need)) \in Nat
    BY CountedFinite
  <2> QED
    BY <1>2, <2>1 DEF Awaits, Flags
<1>4. \A i \in 1 .. Len(k.todo) : i = 1 \/ i \in 2 .. Len(k.todo)
  BY <1>1
<1>5. Listed(k.todo, listeners)
  <2>1. ASSUME NEW i \in 1 .. Len(k.todo), NEW d \in Dests, DueTo(k.todo[i], d)
        PROVE  d \in ToSet(listeners)
    <3>1. CASE i = 1
      BY <1>1, <2>1, <3>1 DEF DueTo
    <3>2. CASE i \in 2 .. Len(k.todo)
      BY <1>1, <2>1, <3>2 DEF Drain, Listed
    <3> QED
      BY <1>4, <3>1, <3>2
  <2> QED
    BY <2>1 DEF Listed
<1>6. Stops(k, p)
  <2>1. \A i \in 1 .. Len(k.todo) :
          k.todo[i].k \in Returning => MayReturn(k.todo[i], k.awaitDrain)
    BY <1>1, <1>2, <1>4 DEF Drain, Stops, Flags, Returning
  <2> QED
    BY <1>2, <2>1 DEF Drain, Stops, Flags
<1>7. Connected(k.todo, k.pipes, listeners)
  <2>1. Cleaning(m.todo, k.todo, -1)
    <3>1. ASSUME NEW i \in 1 .. Len(k.todo), k.todo[i].k = "cleanup"
          PROVE  i + (-1) \in 1 .. Len(m.todo) /\ k.todo[i] = m.todo[i + (-1)]
      <4>1. i - 1 \in 1 .. Len(m.todo) /\ k.todo[i] = m.todo[i - 1] /\ i + (-1) = i - 1
        BY <1>1, <1>4, <3>1
      <4> QED
        BY <4>1
    <3>2. ASSUME NEW j \in 1 .. Len(m.todo)
          PROVE  j - (-1) \in 1 .. Len(k.todo) /\ k.todo[j - (-1)] = m.todo[j]
      <4>1. j + 1 \in 2 .. Len(k.todo) /\ (j + 1) - 1 = j /\ j - (-1) = j + 1
        BY <1>1
      <4>2. j + 1 \in 1 .. Len(k.todo) /\ k.todo[j + 1] = m.todo[(j + 1) - 1]
        BY <1>1, <4>1
      <4> QED
        BY <4>1, <4>2
    <3> QED
      BY <3>1, <3>2 DEF Cleaning
  <2>2. Len(k.todo) \in Nat /\ -1 \in Int
    BY <1>1
  <2> QED
    BY <1>1, <1>2, <2>1, <2>2, ConnectedStays DEF Drain, Flags
<1> QED
  BY <1>3, <1>5, <1>6, <1>7 DEF Drain, k

\* What read() does once _read has returned: it returns null, or emits its bytes.
Returns(m, orig, n, bytes) ==
  \E done :
    /\ Stays(m, done) /\ Typed(done) /\ bytes \in Seq(Nat) /\ (n = 0 => bytes = <<>>)
    /\ TakeFrom(orig, n, m) = IF bytes = <<>> THEN ReturnsNull(orig, done)
                                              ELSE EmitData(done, bytes)

\* read() takes its bytes.
LEMMA TakingStays ==
  ASSUME NEW m, Typed(m), m.length = Len(FlattenSeq(m.buffer)), NEW orig, NEW n \in 0 .. m.length,
         NEW bytes, bytes = FromList(n, m)
  PROVE  Returns(m, orig, n, bytes)
<1>1. /\ m.buffer \in Buffers /\ m.length \in Nat /\ m \in Streams /\ m.ended \in BOOLEAN
  BY Fields
<1>2. /\ bytes \in Seq(Nat) /\ Len(bytes) = n /\ Kept(n, m) \in Buffers
  BY <1>1, FromListTakes
<1> DEFINE buffer == Kept(n, m)
           count == IF bytes = <<>> THEN 0 ELSE n
           need == m.needReadable \/ bytes = <<>> \/ (m.length = count /\ ~m.ended)
           length == m.length - count
           rest == [m EXCEPT !.buffer = buffer, !.length = length, !.needReadable = need]
           past == orig # count /\ m.ended /\ rest.length = 0
           done == IF past THEN EndReadable(rest) ELSE rest
<1>3. TakeFrom(orig, n, m) = IF bytes = <<>> THEN ReturnsNull(orig, done) ELSE EmitData(done, bytes)
  BY DEF TakeFrom
<1>4. length \in Nat /\ need \in BOOLEAN
  <2>1. need \in BOOLEAN
    BY <1>1 DEF Streams
  <2>2. count \in 0 .. m.length
    BY <1>1
  <2> HIDE DEF count, need
  <2> QED
    BY <1>1, <2>1, <2>2
<1> HIDE DEF need, length, buffer, count
<1>5. Stays(m, rest) /\ Typed(rest) /\ rest.ended = m.ended
  <2>1. buffer \in Seq(Seq(Nat))
    BY <1>2 DEF buffer, Buffers
  <2>2. /\ rest \in Streams /\ rest.todo = m.todo /\ rest.ticks = m.ticks /\ rest.ended = m.ended
        /\ Flags(m, rest)
    BY <1>1, <1>4, <2>1 DEF Streams, Flags
  <2> HIDE DEF rest
  <2> QED
    BY <2>2, SetStays
<1> HIDE DEF rest
<1>6. Stays(m, done)
  <2>1. m.ended => Stays(rest, EndReadable(rest))
    BY <1>5, AsidesStay
  <2>2. m.ended => Stays(m, EndReadable(rest))
    BY <1>5, <2>1, StaysTransitive
  <2> QED
    BY <1>5, <2>2
<1>7. Typed(done)
  BY <1>6 DEF Stays
<1>8. n = 0 => bytes = <<>>
  BY <1>2
<1> HIDE DEF done
<1> QED
  BY <1>2, <1>3, <1>6, <1>7, <1>8 DEF Returns

\* read() returns bytes if it was asked for some, and no destination was full then.
LEMMA ReadReturnsDrains ==
  ASSUME Inv, DrainInv, ReadReturns
  PROVE  DrainInv'
<1> DEFINE item == Head(state.todo)
           again == item.k = "afterRead" /\ ~state.reading
           n == IF again THEN HowMuchToRead(item.orig, Popped) ELSE item.n
           m == IF again THEN Demand(item.orig, Popped) ELSE Popped
           bytes == FromList(n, m)
<1>1. state' = TakeFrom(item.orig, n, m) /\ Quietly
  BY DEF ReadReturns, Quietly, dest
<1>2. PICK kind \in {"afterRead", "rest"} : Running(kind)
  BY DEF ReadReturns
<1>3. state.todo # <<>> /\ state.todo[1].k = kind /\ item = state.todo[1] /\ item \in Items(state.ended)
  BY <1>2, Top
<1>4. /\ Typed(Popped) /\ Popped.length = Len(FlattenSeq(Popped.buffer)) /\ Popped.length \in Nat
      /\ Stays(state, Popped)
  BY <1>2, PoppedStays, Fields
<1>5. /\ item.orig \in Nat \cup {All} /\ item.n \in Nat /\ item.n <= Popped.length
      /\ MayReturn(item, state.awaitDrain)
  <2>1. item.orig \in Nat \cup {All} /\ item.n \in Nat
    BY <1>3 DEF Items
  <2>2. 1 \in 1 .. Len(state.todo)
    <3>1. state.todo \in Seq(Items(state.ended))
      BY Fields DEF Inv, Core
    <3> QED
      BY <1>3, <3>1
  <2>3. item.n <= state.length
    BY <1>2, <1>3, <2>2 DEF Inv, Core, Reads
  <2>4. Popped.length = state.length
    BY <1>3, PoppedGoes DEF SameData
  <2>5. MayReturn(item, state.awaitDrain)
    BY <1>2, <1>3, <2>2 DEF DrainInv, Drain, Stops, Returning
  <2> QED
    BY <2>1, <2>3, <2>4, <2>5
<1> HIDE DEF item, Popped
<1>6. Aside(Popped, m) /\ Stays(state, m)
  <2>1. Aside(Popped, Demand(item.orig, Popped)) /\ Aside(Popped, Popped)
    BY <1>4, <1>5, DemandGoes DEF Aside, SameData
  <2>2. Stays(Popped, Demand(item.orig, Popped)) /\ Stays(Popped, Popped)
    BY <1>4, <1>5, AsidesStay
  <2>3. Aside(Popped, m) /\ Stays(Popped, m)
    BY <2>1, <2>2
  <2> HIDE DEF m
  <2> QED
    BY <1>4, <2>3, StaysTransitive
<1>7. n \in 0 .. Popped.length /\ (item.orig = 0 => n = 0)
  <2>1. HowMuchToRead(item.orig, Popped) \in 0 .. Popped.length
    BY <1>4, <1>5, HowMuchIsThere
  <2>2. item.n \in 0 .. Popped.length
    BY <1>4, <1>5
  <2>3. item.orig = 0 => item.n = 0 /\ HowMuchToRead(item.orig, Popped) = 0
    BY <1>4, <1>5, ReadNothing DEF MayReturn
  <2> QED
    BY <2>1, <2>2, <2>3
<1> HIDE DEF n, m
<1>8. Typed(m) /\ m.length = Popped.length /\ m.length = Len(FlattenSeq(m.buffer))
  BY <1>4, <1>6 DEF Aside, SameData
<1>9. PICK done :
        /\ Stays(m, done) /\ Typed(done) /\ bytes \in Seq(Nat) /\ (n = 0 => bytes = <<>>)
        /\ state' = IF bytes = <<>> THEN ReturnsNull(item.orig, done) ELSE EmitData(done, bytes)
  <2>1. n \in 0 .. m.length /\ bytes = FromList(n, m)
    BY <1>7, <1>8
  <2> HIDE DEF bytes
  <2>2. Returns(m, item.orig, n, bytes)
    BY <1>8, <2>1, TakingStays
  <2> QED
    BY <1>1, <2>2 DEF Returns
<1> HIDE DEF bytes
<1>10. Stays(state, done)
  BY <1>6, <1>9, StaysTransitive
<1>11. CASE bytes = <<>>
  <2>1. Stays(done, state')
    BY <1>9, <1>11, ReturnsNullStays
  <2> QED
    BY <1>1, <1>10, <2>1, StaysTransitive, StaysKeeps
<1>12. CASE bytes # <<>>
  <2>1. state.awaitDrain = 0
    BY <1>5, <1>7, <1>9, <1>12 DEF MayReturn
  <2>2. Drain(done, listeners, destNeedDrain, paused) /\ done.awaitDrain = 0
    BY <1>10, <2>1, StaysDrain DEF DrainInv, Stays, Flags
  <2>3. listeners \in Seq(Dests \cup {User})
    BY DEF Inv, Around
  <2>4. Drain(EmitData(done, bytes), listeners, destNeedDrain, paused)
    BY <1>9, <2>2, <2>3, EmitDrains
  <2> QED
    BY <1>1, <1>9, <1>12, <2>4 DEF DrainInv, Quietly
<1> QED
  BY <1>11, <1>12

\* push(null)
LEMMA PushEofDrains ==
  ASSUME Inv, DrainInv, PushEof
  PROVE  DrainInv'
<1> DEFINE told == [state EXCEPT !.reading = FALSE, !.wanted = FALSE]
           over == [told EXCEPT !.ended = TRUE]
<1>1. Quietly /\ state' = IF state.ended THEN told ELSE EmitReadable(over)
  BY DEF PushEof, Quietly, dest, hist
<1>2. Typed(state) /\ state \in Streams /\ state.ended \in BOOLEAN
  BY Fields DEF Inv, Core
<1>3. Stays(state, told) /\ Typed(told) /\ told \in Streams /\ told.ended = state.ended
  <2>1. /\ told \in Streams /\ told.todo = state.todo /\ told.ticks = state.ticks
        /\ told.ended = state.ended /\ Flags(state, told)
    BY <1>2 DEF Streams, Flags
  <2> HIDE DEF told
  <2> QED
    BY <1>2, <2>1, SetStays
<1> HIDE DEF told
<1>4. Stays(told, over) /\ Typed(over)
  <2>1. /\ over \in Streams /\ over.todo = told.todo /\ over.ticks = told.ticks /\ over.ended = TRUE
        /\ Flags(told, over)
    BY <1>3 DEF Streams, Flags
  <2>2. over.todo \in Seq(Items(TRUE)) /\ over.ticks \in Seq(Ticks(TRUE))
    BY <1>2, <1>3, <2>1, Fields, ItemsGrow
  <2> HIDE DEF over
  <2>3. Typed(over)
    BY <2>1, <2>2 DEF Typed
  <2> QED
    BY <1>3, <2>1, <2>3, FlagsStay
<1> HIDE DEF over
<1>5. Stays(over, EmitReadable(over))
  BY <1>4, EmitReadableStays
<1>6. Stays(state, state')
  BY <1>1, <1>3, <1>4, <1>5, StaysTransitive
<1> QED
  BY <1>1, <1>6, StaysKeeps

\* push(chunk): a chunk that is not buffered finds the stream flowing.
LEMMA PushDrains ==
  ASSUME Inv, DrainInv, NEW n \in Lengths, Push(n)
  PROVE  DrainInv'
<1> DEFINE chunk == Following(pushed, n)
           told == [state EXCEPT !.reading = FALSE, !.wanted = state.eager]
           kept == [told EXCEPT !.length = @ + n, !.buffer = Append(@, chunk)]
           then == Run(kept, <<Item("pushed")>>)
           more == Run(then, <<Item("pushMore")>>)
           once == Run(told, <<ReadZero, Item("pushMore"), Item("pushed")>>)
<1>1. /\ MayPush /\ Quietly /\ chunks < MaxChunks
      /\ \/ EmitsAtOnce(state) /\ state' = EmitData(once, chunk)
         \/ state' = IF kept.needReadable THEN EmitReadable(more) ELSE MaybeReadMore(then)
  BY DEF Push, Following, dest, Quietly
<1>2. Typed(state) /\ state \in Streams /\ Core(state, chunks, pushed, taken)
  BY Fields DEF Inv, Core
<1>3. Aside(state, told) /\ Stays(state, told) /\ Typed(told) /\ told \in Streams
  <2>1. told \in Streams /\ SameData(state, told) /\ told.todo = state.todo
        /\ told.ticks = state.ticks /\ told.sync = state.sync /\ Flags(state, told)
    BY <1>2 DEF Streams, SameData, Flags
  <2> HIDE DEF told
  <2>2. Aside(state, told)
    BY <1>2, <2>1, FlagsAside
  <2> QED
    BY <1>2, <2>1, <2>2, AsideStays DEF Aside
<1> HIDE DEF told
<1>4. n \in Nat /\ chunk \in Seq(Nat) /\ pushed \in Nat
  <2>1. n \in Nat /\ pushed \in Nat
    BY <1>2, ReadableAssumption DEF Core, Bytes
  <2> QED
    BY <2>1, NumbersGoOn
<1>5. CASE state' = IF kept.needReadable THEN EmitReadable(more) ELSE MaybeReadMore(then)
  <2>1. Stays(told, kept) /\ Typed(kept)
    <3>1. Core(told, chunks, pushed, taken)
      BY <1>2, <1>3, AsideCore
    <3>2. kept = Buffered(told, pushed, n)
      BY DEF Buffered
    <3>3. Flags(told, kept) /\ kept.todo = told.todo
      BY <1>3 DEF Flags, Streams
    <3> HIDE DEF kept
    <3>4. Typed(kept)
      BY <1>1, <1>4, <3>1, <3>2, BufferedGoes DEF Core
    <3> QED
      BY <1>3, <3>3, <3>4, FlagsStay
  <2> HIDE DEF kept
  <2>2. Stays(kept, then)
    BY <2>1, RunFreeStays DEF Kinds, Returning
  <2> HIDE DEF then
  <2>3. Typed(then)
    BY <2>2 DEF Stays
  <2>4. Stays(then, more)
    BY <2>3, RunFreeStays DEF Kinds, Returning
  <2> HIDE DEF more
  <2>5. Typed(more)
    BY <2>4 DEF Stays
  <2>6. Stays(more, EmitReadable(more)) /\ Stays(then, MaybeReadMore(then))
    BY <2>3, <2>5, EmitReadableStays, AsidesStay
  <2>7. Stays(then, state')
    BY <1>5, <2>4, <2>6, StaysTransitive
  <2>8. Stays(state, then)
    BY <1>3, <2>1, <2>2, StaysTransitive
  <2> QED
    BY <1>1, <2>7, <2>8, StaysTransitive, StaysKeeps
<1>6. CASE EmitsAtOnce(state) /\ state' = EmitData(once, chunk)
  <2>1. state.awaitDrain = 0
    BY <1>6 DEF EmitsAtOnce, DrainInv, Drain, Stops
  <2>2. Stays(told, once)
    <3> PICK x, y, z : x = ReadZero /\ y = Item("pushMore") /\ z = Item("pushed")
      OBVIOUS
    <3>1. /\ x \in Items(told.ended) /\ x.k = "read0" /\ y \in Items(told.ended) /\ y.k = "pushMore"
          /\ z \in Items(told.ended) /\ z.k = "pushed"
      BY <1>3, Fields, PlainItem DEF Plain, ReadZero
    <3>2. /\ <<x, y, z>> \in Seq(Items(told.ended)) /\ Len(<<x, y, z>>) = 3
          /\ <<x, y, z>>[1] = x /\ <<x, y, z>>[2] = y /\ <<x, y, z>>[3] = z
      <4> PICK S : S = Items(told.ended)
        OBVIOUS
      <4>1. x \in S /\ y \in S /\ z \in S
        BY <3>1
      <4> QED
        BY <4>1
    <3>3. \A i \in 1 .. 3 : i = 1 \/ i = 2 \/ i = 3
      OBVIOUS
    <3>4. \A i \in 1 .. Len(<<x, y, z>>) :
            <<x, y, z>>[i].k \notin {"data", "cleanup"} /\ Careful(<<x, y, z>>[i], told.awaitDrain)
      BY <3>1, <3>2, <3>3 DEF Careful, Returning
    <3> QED
      BY <1>3, <3>2, <3>4, RunStays
  <2> HIDE DEF once
  <2>3. Stays(state, once)
    BY <1>3, <2>2, StaysTransitive
  <2>4. Drain(once, listeners, destNeedDrain, paused) /\ once.awaitDrain = 0 /\ Typed(once)
    BY <2>1, <2>3, StaysDrain DEF DrainInv, Stays, Flags
  <2>5. listeners \in Seq(Dests \cup {User})
    BY DEF Inv, Around
  <2> HIDE DEF chunk
  <2>6. Drain(EmitData(once, chunk), listeners, destNeedDrain, paused)
    BY <1>4, <2>4, <2>5, EmitDrains
  <2> QED
    BY <1>1, <1>6, <2>6 DEF DrainInv, Quietly
<1> QED
  BY <1>1, <1>5, <1>6

-----------------------------------------------------------------------------
(* The user's calls. *)

\* read()
LEMMA UserReadDrains ==
  ASSUME Inv, DrainInv, Barge = FALSE, UserRead
  PROVE  DrainInv'
<1>1. Quietly /\ Call /\ state.awaitDrain = 0 /\ \E n \in ReadSizes \cup {All} : state' = Read(n, Caller)
  BY DEF UserRead, NoneFull, Quietly, dest, hist
<1>2. /\ Typed(Caller) /\ Caller.length = Len(FlattenSeq(Caller.buffer)) /\ Stays(state, Caller)
      /\ \A l : Stays(Caller, l) => Stays(state, l)
  BY <1>1, CallerStays
<1> HIDE DEF Caller
<1>3. PICK n \in Nat \cup {All} : state' = Read(n, Caller)
  BY <1>1, ReadableAssumption
<1>4. Caller.awaitDrain = 0
  BY <1>1, <1>2 DEF Stays, Flags
<1>5. Stays(Caller, Read(n, Caller))
  BY <1>2, <1>4, ReadStays
<1> QED
  BY <1>1, <1>2, <1>3, <1>5, StaysKeeps

\* on('readable')
LEMMA OnReadableDrains ==
  ASSUME Inv, DrainInv, OnReadable
  PROVE  DrainInv'
<1> DEFINE asked == [Caller EXCEPT !.emittedReadable = FALSE, !.needReadable = TRUE, !.waits = TRUE]
<1>1. /\ Quietly /\ Call
      /\ state' \in {asked, Later(asked, ReadZero), EmitReadable(asked)}
  <2>1. Quietly /\ Call
    BY DEF OnReadable, Quietly, dest, hist
  <2>2. state' = CASE ~state.reading -> Later(asked, ReadZero)
                   [] state.reading /\ state.length > 0 -> EmitReadable(asked)
                   [] OTHER -> asked
    BY DEF OnReadable
  <2> HIDE DEF asked
  <2>3. state' \in {asked, Later(asked, ReadZero), EmitReadable(asked)}
    BY <2>2
  <2> QED
    BY <2>1, <2>3 DEF asked
<1>2. Typed(Caller) /\ Caller \in Streams /\ \A l : Stays(Caller, l) => Stays(state, l)
  BY <1>1, CallerStays
<1> HIDE DEF Caller
<1>3. Stays(Caller, asked) /\ Typed(asked)
  <2>1. /\ asked \in Streams /\ asked.todo = Caller.todo /\ asked.ticks = Caller.ticks
        /\ asked.ended = Caller.ended /\ Flags(Caller, asked)
    BY <1>2 DEF Streams, Flags
  <2> HIDE DEF asked
  <2> QED
    BY <1>2, <2>1, SetStays
<1> HIDE DEF asked
<1>4. Stays(asked, Later(asked, ReadZero))
  <2>1. ReadZero \in Ticks(asked.ended)
    BY <1>3, Fields, NewItem DEF ReadZero
  <2>2. Aside(asked, Later(asked, ReadZero))
    BY <1>3, <2>1, LaterAside
  <2>3. Flags(asked, Later(asked, ReadZero))
    BY <1>3, Fields DEF Flags, Later, Streams
  <2> QED
    BY <1>3, <2>2, <2>3, AsideStays
<1>5. Stays(asked, EmitReadable(asked))
  BY <1>3, EmitReadableStays
<1>6. Stays(Caller, state')
  BY <1>1, <1>3, <1>4, <1>5, StaysTransitive
<1> QED
  BY <1>1, <1>2, <1>6, StaysKeeps

\* unshift()
LEMMA UnshiftDrains ==
  ASSUME Inv, DrainInv, Unshift
  PROVE  DrainInv'
<1>1. /\ Call /\ ~state.endEmitted /\ Quietly
  BY DEF Unshift, dest, Quietly
<1>2. PICK n \in Lengths :
        /\ n <= Len(taken)
        /\ LET chunk == SubSeq(taken, Len(taken) - n + 1, Len(taken))
               kept  == GivenBack(Caller, taken, n)
           IN \/ /\ EmitsAtOnce(state)
                 /\ state' = EmitData(Run(Caller, <<ReadZero, Item("pushMore")>>), chunk)
              \/ state' = EmitReadable(Run(kept, <<Item("pushMore")>>))
              \/ state' = MaybeReadMore(kept)
  BY DEF Unshift, GivenBack
<1> DEFINE chunk == SubSeq(taken, Len(taken) - n + 1, Len(taken))
           kept  == GivenBack(Caller, taken, n)
<1>3. /\ Core(Caller, chunks, pushed, taken) /\ Typed(Caller) /\ Calm(Caller)
      /\ SameData(state, Caller) /\ Caller \in Streams /\ Stays(state, Caller)
      /\ \A l : Stays(Caller, l) => Stays(state, l)
  BY <1>1, CallerGoes, CallerStays
<1> HIDE DEF Caller
<1>4. n \in Nat /\ taken \in Seq(Nat) /\ ~Caller.endEmitted /\ Caller.ended \in BOOLEAN
  BY <1>1, <1>3, Fields, ReadableAssumption DEF Core, Bytes, SameData
<1>5. chunk \in Seq(Nat)
  <2>1. Len(taken) - n \in 0 .. Len(taken)
    BY <1>2, <1>4
  <2> QED
    BY ONLY <1>4, <2>1, TwoParts
<1>6. CASE \/ state' = EmitReadable(Run(kept, <<Item("pushMore")>>))
           \/ state' = MaybeReadMore(kept)
  <2> DEFINE more == Run(kept, <<Item("pushMore")>>)
  <2>1. Core(kept, chunks, pushed, SubSeq(taken, 1, Len(taken) - n)) /\ kept.todo = Caller.todo
    BY ONLY <1>2, <1>3, <1>4, GivenBackGoes
  <2>2. Flags(Caller, kept)
    BY <1>3 DEF GivenBack, Flags, Streams
  <2> HIDE DEF kept
  <2>3. Typed(kept) /\ Stays(Caller, kept)
    BY <1>3, <2>1, <2>2, FlagsStay DEF Core
  <2>4. Stays(kept, more)
    BY <2>3, RunFreeStays DEF Kinds, Returning
  <2> HIDE DEF more
  <2>5. Typed(more)
    BY <2>4 DEF Stays
  <2>6. Stays(more, EmitReadable(more)) /\ Stays(kept, MaybeReadMore(kept))
    BY <2>3, <2>5, EmitReadableStays, AsidesStay
  <2>7. Stays(kept, state')
    BY <1>6, <2>4, <2>6, StaysTransitive DEF more
  <2> QED
    BY <1>1, <1>3, <2>3, <2>7, StaysTransitive, StaysKeeps
<1>7. CASE /\ EmitsAtOnce(state)
           /\ state' = EmitData(Run(Caller, <<ReadZero, Item("pushMore")>>), chunk)
  <2> DEFINE more == Run(Caller, <<ReadZero, Item("pushMore")>>)
  <2>1. state.awaitDrain = 0
    BY <1>7 DEF EmitsAtOnce, DrainInv, Drain, Stops
  <2>2. Stays(Caller, more)
    <3> PICK x, y : x = ReadZero /\ y = Item("pushMore")
      OBVIOUS
    <3>1. /\ x \in Items(Caller.ended) /\ x.k = "read0"
          /\ y \in Items(Caller.ended) /\ y.k = "pushMore"
      BY <1>4, PlainItem DEF Plain, ReadZero
    <3>2. <<x, y>> \in Seq(Items(Caller.ended)) /\ Len(<<x, y>>) = 2 /\ <<x, y>>[1] = x /\ <<x, y>>[2] = y
      BY <3>1, TwoItems
    <3>3. \A i \in 1 .. 2 : i = 1 \/ i = 2
      OBVIOUS
    <3>4. \A i \in 1 .. Len(<<x, y>>) :
            <<x, y>>[i].k \notin {"data", "cleanup"} /\ Careful(<<x, y>>[i], Caller.awaitDrain)
      BY <3>1, <3>2, <3>3 DEF Careful, Returning
    <3> QED
      BY <1>3, <3>2, <3>4, RunStays
  <2> HIDE DEF more
  <2>3. Stays(state, more)
    BY <1>3, <2>2
  <2>4. Drain(more, listeners, destNeedDrain, paused) /\ more.awaitDrain = 0 /\ Typed(more)
    BY <2>1, <2>3, StaysDrain DEF DrainInv, Stays, Flags
  <2>5. listeners \in Seq(Dests \cup {User})
    BY DEF Inv, Around
  <2>6. state' = EmitData(more, chunk)
    BY <1>7 DEF more
  <2> HIDE DEF chunk
  <2>7. Drain(EmitData(more, chunk), listeners, destNeedDrain, paused)
    BY <1>5, <2>4, <2>5, EmitDrains
  <2> QED
    BY <1>1, <2>6, <2>7 DEF DrainInv, Quietly
<1> QED
  BY <1>2, <1>6, <1>7

\* The stream flows or stops, or the user says so.
LEMMA FlowChanges ==
  ASSUME NEW m, NEW ls, NEW need, NEW p, Drain(m, ls, need, p),
         NEW k, k.todo = m.todo, k.pipes = m.pipes, k.awaitDrain = m.awaitDrain,
         NEW q, Stops(k, q)
  PROVE  Drain(k, ls, need, q)
<1> QED
  BY DEF Drain, Awaits

\* resume() makes the stream flow.
LEMMA ResumeFlows ==
  ASSUME NEW m, Typed(m)
  PROVE  LET k == Resume(m)
         IN /\ Typed(k) /\ k.flowing = "true" /\ k.todo = m.todo /\ k.pipes = m.pipes
            /\ k.awaitDrain = m.awaitDrain
<1>1. Typed(Resume(m)) /\ Resume(m).todo = m.todo
  BY ResumeGoes DEF Aside
<1>2. m \in Streams
  BY Fields
<1>3. Resume(m).flowing = "true" /\ Resume(m).pipes = m.pipes /\ Resume(m).awaitDrain = m.awaitDrain
  BY <1>2 DEF Resume, Later, Streams
<1> QED
  BY <1>1, <1>3

\* pause()
LEMMA UserPauseDrains ==
  ASSUME Inv, DrainInv, UserPause
  PROVE  DrainInv'
<1>1. Call /\ state' = Pause(Caller) /\ paused' = TRUE /\ UNCHANGED <<listeners, destNeedDrain>>
  BY DEF UserPause, dest
<1>2. Typed(Caller) /\ Caller \in Streams /\ Stays(state, Caller)
  BY <1>1, CallerStays
<1> HIDE DEF Caller
<1>3. Drain(Caller, listeners, destNeedDrain, paused)
  BY <1>2, StaysDrain DEF DrainInv
<1> DEFINE k == Pause(Caller)
<1>4. k.todo = Caller.todo /\ k.pipes = Caller.pipes /\ k.awaitDrain = Caller.awaitDrain
      /\ k.flowing = "false"
  BY <1>2 DEF Pause, Streams
<1> HIDE DEF k
<1>5. Stops(k, TRUE)
  BY <1>3, <1>4 DEF Drain, Stops
<1>6. Drain(k, listeners, destNeedDrain, TRUE)
  BY <1>3, <1>4, <1>5, FlowChanges
<1> QED
  BY <1>1, <1>6 DEF DrainInv, k

\* resume()
LEMMA UserResumeDrains ==
  ASSUME Inv, DrainInv, Barge = FALSE, UserResume
  PROVE  DrainInv'
<1>1. /\ Call /\ state.awaitDrain = 0 /\ state' = Resume(Caller) /\ paused' = FALSE
      /\ UNCHANGED <<listeners, destNeedDrain>>
  BY DEF UserResume, NoneFull, dest
<1>2. Typed(Caller) /\ Stays(state, Caller) /\ Caller.awaitDrain = 0
  BY <1>1, CallerStays DEF Stays, Flags
<1> HIDE DEF Caller
<1>3. Drain(Caller, listeners, destNeedDrain, paused)
  BY <1>2, StaysDrain DEF DrainInv
<1> DEFINE k == Resume(Caller)
<1>4. k.todo = Caller.todo /\ k.pipes = Caller.pipes /\ k.awaitDrain = Caller.awaitDrain
      /\ k.flowing = "true"
  BY <1>2, ResumeFlows
<1> HIDE DEF k
<1>5. Stops(k, FALSE)
  BY <1>2, <1>3, <1>4 DEF Drain, Stops
<1>6. Drain(k, listeners, destNeedDrain, FALSE)
  BY <1>3, <1>4, <1>5, FlowChanges
<1> QED
  BY <1>1, <1>6 DEF DrainInv, k

\* It does not matter whether the user listens.
LEMMA UserListens ==
  ASSUME NEW m, NEW a, NEW b, \A d \in Dests : d \in ToSet(a) <=> d \in ToSet(b),
         NEW need, NEW p, Drain(m, a, need, p)
  PROVE  Drain(m, b, need, p)
<1>1. Counted(m.todo, a, need) = Counted(m.todo, b, need)
  BY DEF Counted
<1>2. Awaits(m, b, need)
  BY <1>1 DEF Drain, Awaits
<1>3. Listed(m.todo, b)
  BY DEF Drain, Listed
<1>4. Connected(m.todo, m.pipes, b)
  BY DEF Drain, Connected
<1> QED
  BY <1>2, <1>3, <1>4 DEF Drain

\* on('data')
LEMMA OnDataDrains ==
  ASSUME Inv, DrainInv, OnData
  PROVE  DrainInv'
<1>1. /\ Call /\ ~Contains(listeners, User) /\ listeners' = Append(listeners, User)
      /\ UNCHANGED <<destNeedDrain, paused>>
      /\ state' = IF state.flowing = "false" THEN Caller ELSE Resume(Caller)
  BY DEF OnData, dest, hist
<1>2. Typed(Caller) /\ Stays(state, Caller) /\ Caller.flowing = state.flowing
  BY <1>1, CallerStays DEF Stays, Flags
<1> HIDE DEF Caller
<1>3. Drain(Caller, listeners, destNeedDrain, paused)
  BY <1>2, StaysDrain DEF DrainInv
<1>4. Drain(state', listeners, destNeedDrain, paused)
  <2>1. CASE state.flowing = "false"
    BY <1>1, <1>3, <2>1
  <2>2. CASE state.flowing # "false"
    <3> DEFINE k == Resume(Caller)
    <3>1. k.todo = Caller.todo /\ k.pipes = Caller.pipes /\ k.awaitDrain = Caller.awaitDrain
          /\ k.flowing = "true"
      BY <1>2, ResumeFlows
    <3> HIDE DEF k
    <3>2. Stops(k, paused)
      BY <1>2, <1>3, <2>2, <3>1 DEF Drain, Stops
    <3>3. Drain(k, listeners, destNeedDrain, paused)
      BY <1>3, <3>1, <3>2, FlowChanges
    <3> QED
      BY <1>1, <2>2, <3>3 DEF k
  <2> QED
    BY <2>1, <2>2
<1>5. \A d \in Dests : d \in ToSet(listeners) <=> d \in ToSet(listeners')
  <2>1. ToSet(listeners') = ToSet(listeners) \cup {User}
    BY <1>1, JoinedAround DEF Inv
  <2> QED
    BY <2>1, ReadableAssumption
<1> DEFINE ls == listeners'
<1>6. Drain(state', ls, destNeedDrain, paused)
  <2> PICK k : k = state'
    OBVIOUS
  <2> HIDE DEF ls
  <2>1. Drain(k, listeners, destNeedDrain, paused) /\ \A d \in Dests : d \in ToSet(listeners) <=> d \in ToSet(ls)
    BY <1>4, <1>5 DEF ls
  <2>2. Drain(k, ls, destNeedDrain, paused)
    BY <2>1, UserListens
  <2> QED
    BY <2>2
<1> QED
  BY <1>1, <1>6 DEF DrainInv

\* A destination that is piped to.
LEMMA ConnectedMore ==
  ASSUME NEW todo, NEW pipes \in Seq(Dests), NEW ls \in Seq(Dests \cup {User}), NEW d \in Dests,
         d \notin ToSet(pipes), d \notin ToSet(ls), Connected(todo, pipes, ls)
  PROVE  Connected(todo, Append(pipes, d), Append(ls, d))
<1> DEFINE more == Append(pipes, d)
           heard == Append(ls, d)
<1>1. IsInjective(more) /\ ToSet(more) = ToSet(pipes) \cup {d}
  BY AppendElement DEF Connected
<1>2. ToSet(heard) = ToSet(ls) \cup {d}
  BY AppendElement
<1> HIDE DEF more, heard
<1>3. \A i \in 1 .. Len(todo) : ~Leaving(todo[i], d)
  BY DEF Connected
<1>4. ASSUME NEW e \in Dests
      PROVE  /\ e \in ToSet(more) => e \in ToSet(heard) /\ \A i \in 1 .. Len(todo) : ~Leaving(todo[i], e)
             /\ e \in ToSet(heard) => e \in ToSet(more) \/ \E i \in 1 .. Len(todo) : Leaving(todo[i], e)
             /\ \A i \in 1 .. Len(todo) : Leaving(todo[i], e) => e \in ToSet(heard)
             /\ \A i, j \in 1 .. Len(todo) : Leaving(todo[i], e) /\ Leaving(todo[j], e) => i = j
  BY <1>1, <1>2, <1>3 DEF Connected
<1> QED
  BY <1>1, <1>4 DEF Connected, more, heard

\* pipe()
LEMMA PipeDrains ==
  ASSUME Inv, DrainInv, Barge = FALSE, NEW d \in Dests, Pipe(d)
  PROVE  DrainInv'
<1> DEFINE piped == [Caller EXCEPT !.pipes = Append(@, d)]
           late  == [Item("endLate") EXCEPT !.to = <<d>>]
           m     == IF state.endEmitted THEN Later(piped, late) ELSE piped
<1>1. /\ Call /\ state.awaitDrain = 0 /\ ~Contains(state.pipes, d) /\ ~Contains(listeners, d)
      /\ listeners' = Append(listeners, d) /\ state' = Resume(m) /\ paused' = FALSE
      /\ UNCHANGED destNeedDrain
  BY DEF Pipe, NoneFull, dest
<1>2. Typed(Caller) /\ Caller \in Streams /\ Stays(state, Caller) /\ Caller.ended \in BOOLEAN
  BY <1>1, CallerStays
<1> HIDE DEF Caller
<1>3. /\ Drain(Caller, listeners, destNeedDrain, paused) /\ Caller.awaitDrain = 0
      /\ Caller.pipes = state.pipes /\ Caller.pipes \in Seq(Dests)
  <2>1. Drain(Caller, listeners, destNeedDrain, paused)
    BY <1>2, StaysDrain DEF DrainInv
  <2>2. Flags(state, Caller)
    BY <1>2 DEF Stays
  <2>3. Caller.pipes \in Seq(Dests)
    BY <1>2 DEF Streams
  <2> QED
    BY <1>1, <2>1, <2>2, <2>3 DEF Flags
<1>4. Typed(piped) /\ piped.todo = Caller.todo /\ piped.pipes = Append(Caller.pipes, d)
      /\ piped.awaitDrain = 0 /\ piped.ended = Caller.ended /\ piped \in Streams
  <2>1. Append(Caller.pipes, d) \in Seq(Dests)
    BY <1>3, AppendElement
  <2>2. /\ piped \in Streams /\ piped.todo = Caller.todo /\ piped.pipes = Append(Caller.pipes, d)
        /\ piped.ticks = Caller.ticks /\ piped.ended = Caller.ended
        /\ piped.awaitDrain = Caller.awaitDrain
    BY <1>2, <2>1 DEF Streams
  <2> HIDE DEF piped
  <2> QED
    BY <1>2, <1>3, <2>2 DEF Typed
<1> HIDE DEF piped
<1>5. Typed(m) /\ m.todo = Caller.todo /\ m.pipes = Append(Caller.pipes, d) /\ m.awaitDrain = 0
  <2>1. late \in Ticks(Caller.ended)
    <3>1. Item("endLate") \in Ticks(Caller.ended)
      BY <1>2, NewItem
    <3>2. <<d>> \in Seq(Dests \cup {User})
      OBVIOUS
    <3> QED
      BY <3>1, <3>2 DEF Ticks, Items, TickKinds, Item
  <2> HIDE DEF late
  <2>2. Aside(piped, Later(piped, late))
    BY <1>4, <2>1, LaterAside
  <2>3. Flags(piped, Later(piped, late))
    BY <1>4 DEF Flags, Later, Streams
  <2> QED
    BY <1>4, <2>2, <2>3 DEF Flags, Aside
<1> HIDE DEF m
<1> DEFINE k == Resume(m)
           ls == Append(listeners, d)
<1>6. k.todo = Caller.todo /\ k.pipes = Append(Caller.pipes, d) /\ k.awaitDrain = 0
      /\ k.flowing = "true"
  BY <1>5, ResumeFlows
<1> HIDE DEF k
<1>7. /\ listeners \in Seq(Dests \cup {User}) /\ ToSet(ls) = ToSet(listeners) \cup {d}
      /\ d \notin ToSet(listeners) /\ d \notin ToSet(Caller.pipes)
  <2>1. listeners \in Seq(Dests \cup {User})
    BY DEF Inv, Around
  <2>2. ToSet(ls) = ToSet(listeners) \cup {d}
    BY <1>1, JoinedAround DEF Inv
  <2> QED
    BY <1>1, <1>3, <2>1, <2>2, ToSetPlaces DEF Contains
<1>8. Connected(k.todo, k.pipes, ls)
  BY <1>3, <1>6, <1>7, ConnectedMore DEF Drain
<1> HIDE DEF ls
<1>9. Awaits(k, ls, destNeedDrain)
  <2>1. Cardinality(Counted(k.todo, ls, destNeedDrain)) \in Nat
    BY CountedFinite
  <2> QED
    BY <1>6, <2>1 DEF Awaits
<1>10. Listed(k.todo, ls)
  BY <1>3, <1>6, <1>7 DEF Drain, Listed
<1>11. Stops(k, FALSE)
  BY <1>3, <1>6 DEF Drain, Stops
<1>12. Drain(k, ls, destNeedDrain, FALSE)
  BY <1>3, <1>8, <1>9, <1>10, <1>11 DEF Drain
<1> QED
  BY <1>1, <1>12 DEF DrainInv, k, ls

-----------------------------------------------------------------------------
(* Destinations come and go. *)

\* An item above a stack.
LEMMA Above ==
  ASSUME NEW todo, NEW new, Len(todo) \in Nat, Len(new) = Len(todo) + 1,
         \A i \in 2 .. Len(new) : i - 1 \in 1 .. Len(todo) /\ new[i] = todo[i - 1]
  PROVE  /\ \A i \in 1 .. Len(new) : i = 1 \/ (i - 1 \in 1 .. Len(todo) /\ new[i] = todo[i - 1])
         /\ \A j \in 1 .. Len(todo) : j + 1 \in 1 .. Len(new) /\ new[j + 1] = todo[j]
         /\ 1 \in 1 .. Len(new)
<1>1. \A i \in 1 .. Len(new) : i = 1 \/ i \in 2 .. Len(new)
  OBVIOUS
<1>2. ASSUME NEW j \in 1 .. Len(todo)
      PROVE  j + 1 \in 1 .. Len(new) /\ new[j + 1] = todo[j]
  <2>1. j + 1 \in 2 .. Len(new) /\ (j + 1) - 1 = j
    OBVIOUS
  <2>2. new[j + 1] = todo[(j + 1) - 1]
    BY <2>1
  <2> QED
    BY <2>1, <2>2
<1>3. 1 \in 1 .. Len(new)
  OBVIOUS
<1> QED
  BY <1>1, <1>2, <1>3

\* Destinations that are unpiped clean up.
LEMMA ConnectedLess ==
  ASSUME NEW todo, NEW new, Len(todo) \in Nat, Len(new) = Len(todo) + 1,
         \A i \in 2 .. Len(new) : i - 1 \in 1 .. Len(todo) /\ new[i] = todo[i - 1],
         NEW pipes, NEW ls, Connected(todo, pipes, ls),
         NEW ds, IsInjective(ds), ToSet(ds) \subseteq ToSet(pipes), ToSet(ds) \subseteq Dests,
         new[1].k = "cleanup", new[1].to = ds,
         NEW left, IsInjective(left), ToSet(left) = ToSet(pipes) \ ToSet(ds)
  PROVE  Connected(new, left, ls)
<1>1. /\ \A i \in 1 .. Len(new) : i = 1 \/ (i - 1 \in 1 .. Len(todo) /\ new[i] = todo[i - 1])
      /\ \A j \in 1 .. Len(todo) : j + 1 \in 1 .. Len(new) /\ new[j + 1] = todo[j]
      /\ 1 \in 1 .. Len(new)
  BY Above
<1>2. ASSUME NEW i \in 1 .. Len(new), new[i].k = "cleanup"
      PROVE  IsInjective(new[i].to) /\ ToSet(new[i].to) \subseteq Dests
  BY <1>1, <1>2 DEF Connected
<1>3. \A e : Leaving(new[1], e) <=> e \in ToSet(ds)
  BY DEF Leaving
<1>4. ASSUME NEW e \in Dests
      PROVE  /\ e \in ToSet(left) => e \in ToSet(ls) /\ \A i \in 1 .. Len(new) : ~Leaving(new[i], e)
             /\ e \in ToSet(ls) => e \in ToSet(left) \/ \E i \in 1 .. Len(new) : Leaving(new[i], e)
             /\ \A i \in 1 .. Len(new) : Leaving(new[i], e) => e \in ToSet(ls)
  <2>1. /\ e \in ToSet(pipes) => e \in ToSet(ls) /\ \A i \in 1 .. Len(todo) : ~Leaving(todo[i], e)
        /\ e \in ToSet(ls) => e \in ToSet(pipes) \/ \E i \in 1 .. Len(todo) : Leaving(todo[i], e)
        /\ \A i \in 1 .. Len(todo) : Leaving(todo[i], e) => e \in ToSet(ls)
    BY DEF Connected
  <2>2. e \in ToSet(left) => e \in ToSet(ls) /\ \A i \in 1 .. Len(new) : ~Leaving(new[i], e)
    BY <1>1, <1>3, <2>1
  <2>3. e \in ToSet(ls) => e \in ToSet(left) \/ \E i \in 1 .. Len(new) : Leaving(new[i], e)
    <3>1. (\E j \in 1 .. Len(todo) : Leaving(todo[j], e)) => \E i \in 1 .. Len(new) : Leaving(new[i], e)
      BY <1>1
    <3>2. e \in ToSet(ds) => \E i \in 1 .. Len(new) : Leaving(new[i], e)
      BY <1>1, <1>3
    <3> QED
      BY <2>1, <3>1, <3>2
  <2>4. \A i \in 1 .. Len(new) : Leaving(new[i], e) => e \in ToSet(ls)
    BY <1>1, <1>3, <2>1
  <2> QED
    BY <2>2, <2>3, <2>4
<1>5. ASSUME NEW e \in Dests, NEW i \in 1 .. Len(new), NEW j \in 1 .. Len(new),
             Leaving(new[i], e), Leaving(new[j], e)
      PROVE  i = j
  <2>1. \A h \in 1 .. Len(todo) : Leaving(todo[h], e) => e \notin ToSet(ds)
    BY DEF Connected
  <2>2. CASE i = 1 \/ j = 1
    BY <1>1, <1>3, <1>5, <2>1, <2>2
  <2>3. CASE i # 1 /\ j # 1
    <3>1. /\ i - 1 \in 1 .. Len(todo) /\ Leaving(todo[i - 1], e)
          /\ j - 1 \in 1 .. Len(todo) /\ Leaving(todo[j - 1], e)
      BY <1>1, <1>5, <2>3
    <3>2. i - 1 = j - 1
      BY <3>1 DEF Connected
    <3> QED
      BY <3>2
  <2> QED
    BY <2>2, <2>3
<1> QED
  BY <1>2, <1>4, <1>5 DEF Connected

\* unpipe()
LEMMA UnpipeFromDrains ==
  ASSUME NEW m, Typed(m), NEW ls, NEW need, NEW p, Drain(m, ls, need, p), NEW ds,
         (ds = m.pipes /\ ds # <<>>) \/ \E d \in ToSet(m.pipes) : ds = <<d>>
  PROVE  Drain(UnpipeFrom(ds, m), ls, need, p)
<1> DEFINE all == Len(ds) = Len(m.pipes)
           left == IF all THEN <<>> ELSE RemoveFirst(m.pipes, Head(ds))
           flowing == IF all THEN "false" ELSE m.flowing
           l == [m EXCEPT !.pipes = left, !.flowing = flowing]
           item == [Item("cleanup") EXCEPT !.to = ds]
           k == Run(l, <<item>>)
<1>1. m \in Streams /\ m.ended \in BOOLEAN /\ m.pipes \in Seq(Dests) /\ IsInjective(m.pipes)
      /\ Len(m.todo) \in Nat
  <2>1. m \in Streams /\ m.ended \in BOOLEAN /\ Len(m.todo) \in Nat
    BY Fields
  <2>2. m.pipes \in Seq(Dests)
    BY <2>1 DEF Streams
  <2>3. IsInjective(m.pipes)
    BY DEF Drain, Connected
  <2> QED
    BY <2>1, <2>2, <2>3
<1>2. UnpipeFrom(ds, m) = k
  BY DEF UnpipeFrom
<1>3. /\ ds \in Seq(Dests) /\ ds # <<>> /\ IsInjective(ds) /\ ToSet(ds) \subseteq ToSet(m.pipes)
      /\ left \in Seq(Dests) /\ IsInjective(left) /\ ToSet(left) = ToSet(m.pipes) \ ToSet(ds)
      /\ (~all => m.pipes # <<>>) /\ (all => left = <<>>)
  <2>1. CASE ds = m.pipes /\ ds # <<>>
    <3>1. left = <<>>
      BY <2>1
    <3>2. IsInjective(<<>>) /\ ToSet(<<>>) = {} /\ <<>> \in Seq(Dests)
      BY EmptySequence
    <3> QED
      BY <1>1, <2>1, <3>1, <3>2
  <2>2. ASSUME NEW d \in ToSet(m.pipes), ds = <<d>>
        PROVE  /\ ds \in Seq(Dests) /\ ds # <<>> /\ IsInjective(ds) /\ ToSet(ds) \subseteq ToSet(m.pipes)
               /\ left \in Seq(Dests) /\ IsInjective(left) /\ ToSet(left) = ToSet(m.pipes) \ ToSet(ds)
               /\ (~all => m.pipes # <<>>) /\ (all => left = <<>>)
    <3>1. /\ d \in Dests /\ ds \in Seq(Dests) /\ Len(ds) = 1 /\ Head(ds) = d /\ ds # <<>>
      BY <1>1, <2>2, ToSetPlaces
    <3>2. ToSet(ds) = {d} /\ IsInjective(ds)
      <4>1. DOMAIN ds = {1} /\ ds[1] = d
        BY <2>2
      <4> QED
        BY <4>1 DEF ToSet, IsInjective
    <3>3. Len(m.pipes) \in Nat /\ m.pipes # <<>>
      BY <1>1, ToSetPlaces, EmptySequence
    <3>4. CASE all
      <4>1. Len(m.pipes) = 1 /\ left = <<>>
        BY <3>1, <3>4
      <4>2. ToSet(m.pipes) = {d}
        <5>1. \A i \in 1 .. 1 : i = 1
          OBVIOUS
        <5>2. \A x : x \in ToSet(m.pipes) <=> \E i \in 1 .. Len(m.pipes) : m.pipes[i] = x
          BY <1>1, ToSetPlaces
        <5>3. \A x : x \in ToSet(m.pipes) <=> m.pipes[1] = x
          BY <4>1, <5>1, <5>2
        <5> QED
          BY <2>2, <5>3
      <4>3. IsInjective(<<>>) /\ ToSet(<<>>) = {} /\ <<>> \in Seq(Dests)
        BY EmptySequence
      <4> QED
        BY <3>1, <3>2, <3>3, <3>4, <4>1, <4>2, <4>3
    <3>5. CASE ~all
      <4>1. left = RemoveFirst(m.pipes, d)
        BY <3>1, <3>5
      <4>2. left \in Seq(Dests) /\ IsInjective(left) /\ ToSet(left) = ToSet(m.pipes) \ {d}
        BY <1>1, <4>1, RemoveFirstElement
      <4> QED
        BY <3>1, <3>2, <3>3, <3>5, <4>2
    <3> QED
      BY <3>4, <3>5
  <2> HIDE DEF left, all
  <2> QED
    BY <2>1, <2>2
<1>4. flowing \in {"null", "true", "false"} /\ (all => flowing = "false") /\ (~all => flowing = m.flowing)
  BY <1>1 DEF Streams
<1>5. item \in Items(m.ended) /\ item.k = "cleanup" /\ item.to = ds
  <2>1. ds \in Seq(Dests \cup {User}) /\ <<>> \in Seq(Nat)
    BY <1>3
  <2>2. item = [k |-> "cleanup", orig |-> 0, n |-> 0, to |-> ds, chunk |-> <<>>]
    BY DEF Item
  <2>3. "cleanup" \in Kinds /\ 0 \in Nat
    BY DEF Kinds
  <2>4. item \in [k : Kinds, orig : Nat \cup {All}, n : Nat, to : Seq(Dests \cup {User}),
                  chunk : Seq(Nat)]
    BY <2>1, <2>2, <2>3
  <2>5. item.k = "cleanup" /\ item.to = ds
    BY <2>2
  <2> HIDE DEF item
  <2> QED
    BY <1>3, <2>4, <2>5 DEF Items
<1> HIDE DEF left, flowing, item, all
<1>6. /\ Typed(l) /\ l.todo = m.todo /\ l.ended = m.ended /\ l.pipes = left /\ l.flowing = flowing
      /\ l.awaitDrain = m.awaitDrain
  <2>1. /\ l \in Streams /\ l.todo = m.todo /\ l.ticks = m.ticks /\ l.ended = m.ended
        /\ l.pipes = left /\ l.flowing = flowing /\ l.awaitDrain = m.awaitDrain
    BY <1>1, <1>3, <1>4 DEF Streams
  <2> HIDE DEF l
  <2> QED
    BY <2>1 DEF Typed
<1> HIDE DEF l
<1>7. /\ Len(k.todo) = Len(m.todo) + 1 /\ k.todo[1] = item
      /\ \A i \in 2 .. Len(k.todo) : i - 1 \in 1 .. Len(m.todo) /\ k.todo[i] = m.todo[i - 1]
  <2>1. Typed(l) /\ item \in Items(l.ended)
    BY <1>5, <1>6
  <2>2. \A x : x = Run(l, <<item>>) =>
          /\ Len(x.todo) = Len(l.todo) + 1 /\ x.todo[1] = item
          /\ \A i \in 2 .. Len(x.todo) : i - 1 \in 1 .. Len(l.todo) /\ x.todo[i] = l.todo[i - 1]
    BY ONLY <2>1, RunOne
  <2> QED
    BY <1>6, <2>2
<1>8. k.pipes = left /\ k.flowing = flowing /\ k.awaitDrain = m.awaitDrain
  <2>1. l \in Streams
    BY <1>6, Fields
  <2> QED
    BY <1>6, <2>1 DEF Run, Streams
<1> HIDE DEF k
<1>9. Connected(k.todo, k.pipes, ls)
  <2>1. ToSet(ds) \subseteq Dests
    BY <1>3, ToSetPlaces
  <2> QED
    BY <1>1, <1>3, <1>5, <1>7, <1>8, <2>1, ConnectedLess DEF Drain
<1>10. \A i \in 1 .. Len(k.todo) : i = 1 \/ (i - 1 \in 1 .. Len(m.todo) /\ k.todo[i] = m.todo[i - 1])
  BY <1>1, <1>7, Above
<1>11. \A i \in 1 .. Len(k.todo) : k.todo[i].k = "data" => \E j \in 1 .. Len(m.todo) : k.todo[i] = m.todo[j]
  BY <1>5, <1>7, <1>10
<1>12. Awaits(k, ls, need)
  <2>1. Cardinality(Counted(m.todo, ls, need)) <= Cardinality(Counted(k.todo, ls, need))
    BY <1>11, CountedGrow
  <2>2. /\ Cardinality(Counted(m.todo, ls, need)) \in Nat
        /\ Cardinality(Counted(k.todo, ls, need)) \in Nat /\ m.awaitDrain \in Nat
    BY CountedFinite, Fields
  <2> QED
    BY <1>8, <2>1, <2>2 DEF Drain, Awaits
<1>13. Listed(k.todo, ls)
  BY <1>11 DEF Drain, Listed, DueTo
<1>14. Stops(k, p)
  <2>1. \A i \in 1 .. Len(k.todo) :
          k.todo[i].k \in Returning => MayReturn(k.todo[i], k.awaitDrain)
    BY <1>5, <1>7, <1>8, <1>10 DEF Drain, Stops, Returning
  <2>2. k.flowing # "false" => k.awaitDrain = 0
    BY <1>4, <1>8 DEF Drain, Stops
  <2>3. k.pipes # <<>> /\ k.flowing # "true" /\ ~p => k.awaitDrain > 0
    BY <1>3, <1>4, <1>8 DEF Drain, Stops
  <2> QED
    BY <2>1, <2>2, <2>3 DEF Stops
<1> QED
  BY <1>2, <1>9, <1>12, <1>13, <1>14 DEF Drain

\* unpipe(d), or unpipe() of all
LEMMA UnpipeDrains ==
  ASSUME Inv, DrainInv, Unpipe
  PROVE  DrainInv'
<1>1. /\ Quietly /\ Call /\ state.pipes # <<>>
      /\ \E ds \in {<<state.pipes[i]>> : i \in DOMAIN state.pipes} \cup {state.pipes} :
           state' = UnpipeFrom(ds, Caller)
  BY DEF Unpipe, Quietly, dest, hist
<1>2. Typed(Caller) /\ Stays(state, Caller) /\ Caller.pipes = state.pipes
  BY <1>1, CallerStays DEF Stays, Flags
<1> HIDE DEF Caller
<1>3. Drain(Caller, listeners, destNeedDrain, paused)
  BY <1>2, StaysDrain DEF DrainInv
<1>4. PICK ds : /\ (ds = Caller.pipes /\ ds # <<>>) \/ \E d \in ToSet(Caller.pipes) : ds = <<d>>
                /\ state' = UnpipeFrom(ds, Caller)
  <2>1. \A i \in DOMAIN state.pipes : state.pipes[i] \in ToSet(state.pipes)
    BY DEF ToSet
  <2> QED
    BY <1>1, <1>2, <2>1
<1>5. Drain(UnpipeFrom(ds, Caller), listeners, destNeedDrain, paused)
  BY <1>2, <1>3, <1>4, UnpipeFromDrains
<1> QED
  BY <1>1, <1>4, <1>5 DEF DrainInv, Quietly

\* 'finish', 'error' and 'close' of a destination
LEMMA DestLeavesDrains ==
  ASSUME Inv, DrainInv, NEW d \in Dests, DestFinishes(d) \/ DestBreaks(d)
  PROVE  DrainInv'
<1>1. Quietly /\ Contains(state.pipes, d) /\ state' = UnpipeFrom(<<d>>, state)
  BY SameIsQuiet DEF DestFinishes, DestBreaks, Leaves, Quietly, hist
<1>2. Typed(state) /\ state.pipes \in Seq(Dests)
  <2>1. Typed(state)
    BY DEF Inv, Core
  <2>2. state \in Streams
    BY <2>1, Fields
  <2> QED
    BY <2>1, <2>2 DEF Streams
<1>3. d \in ToSet(state.pipes)
  BY <1>1, <1>2, ToSetPlaces DEF Contains
<1>4. Drain(UnpipeFrom(<<d>>, state), listeners, destNeedDrain, paused)
  BY <1>2, <1>3, UnpipeFromDrains DEF DrainInv
<1> QED
  BY <1>1, <1>4 DEF DrainInv, Quietly

\* The listener of 'drain', once its destination is not counted any more.
LEMMA OnDrainDrains ==
  ASSUME NEW m, Typed(m), Calm(m), NEW ls, NEW need \in [Dests -> BOOLEAN], NEW p,
         Listed(m.todo, ls), Connected(m.todo, m.pipes, ls),
         m.flowing # "false" => m.awaitDrain = 0,
         m.awaitDrain - 1 <= Cardinality(Counted(m.todo, ls, need))
  PROVE  Drain(OnDrain(m, ls), ls, need, p)
<1> DEFINE fewer == CountDrain(m)
           flows == [fewer EXCEPT !.flowing = "true"]
           n == IF m.awaitDrain > 0 THEN m.awaitDrain - 1 ELSE 0
           C == Cardinality(Counted(m.todo, ls, need))
<1>1. m \in Streams /\ m.awaitDrain \in Nat /\ Len(m.todo) \in Nat /\ C \in Nat
  BY Fields, CountedFinite
<1>2. n \in Nat /\ n <= C /\ (m.awaitDrain = 0 => n = 0)
  BY <1>1
<1> HIDE DEF n, C
<1>3. fewer = [m EXCEPT !.awaitDrain = n]
  BY DEF CountDrain, n
<1> HIDE DEF fewer
<1>4. /\ Typed(fewer) /\ fewer \in Streams /\ fewer.todo = m.todo /\ fewer.pipes = m.pipes
      /\ fewer.flowing = m.flowing /\ fewer.awaitDrain = n
  <2>1. /\ fewer \in Streams /\ fewer.todo = m.todo /\ fewer.ticks = m.ticks
        /\ fewer.ended = m.ended /\ fewer.pipes = m.pipes /\ fewer.flowing = m.flowing
        /\ fewer.awaitDrain = n
    BY <1>1, <1>2, <1>3 DEF Streams
  <2> QED
    BY <2>1 DEF Typed
<1>5. /\ Typed(flows) /\ flows.todo = m.todo /\ flows.pipes = m.pipes
      /\ flows.flowing = "true" /\ flows.awaitDrain = n
  <2>1. /\ flows \in Streams /\ flows.todo = fewer.todo /\ flows.ticks = fewer.ticks
        /\ flows.ended = fewer.ended /\ flows.pipes = fewer.pipes /\ flows.flowing = "true"
        /\ flows.awaitDrain = fewer.awaitDrain
    BY <1>4 DEF Streams
  <2> QED
    BY <1>4, <2>1 DEF Typed
<1> HIDE DEF flows
<1>6. ASSUME NEW k, k.todo = m.todo, k.pipes = m.pipes, k.awaitDrain = n,
             k.flowing # "false" => n = 0, k.pipes # <<>> /\ k.flowing # "true" => n > 0
      PROVE  Drain(k, ls, need, p)
  <2>1. Awaits(k, ls, need) /\ Listed(k.todo, ls) /\ Connected(k.todo, k.pipes, ls)
    BY <1>2, <1>6 DEF Awaits, C
  <2>2. \A i \in 1 .. Len(k.todo) : k.todo[i].k \notin Returning
    BY <1>6 DEF Calm, Counts, Returning
  <2>3. Stops(k, p)
    BY <1>6, <2>2 DEF Stops
  <2> QED
    BY <2>1, <2>3 DEF Drain
<1>7. CASE n = 0 /\ ls # <<>>
  <2>1. Drain(flows, ls, need, p)
    BY <1>5, <1>6, <1>7
  <2>2. Stays(flows, Run(flows, <<Item("flow")>>))
    BY <1>5, RunFreeStays DEF Kinds, Returning
  <2>3. Drain(Run(flows, <<Item("flow")>>), ls, need, p)
    BY <2>1, <2>2, StaysDrain
  <2>4. OnDrain(m, ls) = Run(flows, <<Item("flow")>>)
    BY <1>4, <1>7 DEF OnDrain, fewer, flows
  <2> QED
    BY <2>3, <2>4
<1>8. CASE ~(n = 0 /\ ls # <<>>)
  <2>1. m.pipes # <<>> => ls # <<>>
    <3>1. m.pipes \in Seq(Dests)
      BY <1>1 DEF Streams
    <3>2. m.pipes # <<>> => Head(m.pipes) \in Dests /\ Head(m.pipes) \in ToSet(m.pipes)
      BY <3>1, TailElements
    <3>3. m.pipes # <<>> => \E d : d \in ToSet(ls)
      BY <3>2 DEF Connected
    <3>4. ToSet(<<>>) = {}
      BY EmptySequence
    <3> QED
      BY <3>3, <3>4
  <2>2. Drain(fewer, ls, need, p)
    BY <1>2, <1>4, <1>6, <1>8, <2>1
  <2>3. OnDrain(m, ls) = fewer
    BY <1>4, <1>8 DEF OnDrain, fewer
  <2> QED
    BY <2>2, <2>3
<1> QED
  BY <1>7, <1>8

\* A destination has written what it holds.
LEMMA DestWritesDrains ==
  ASSUME Inv, DrainInv, NEW d \in Dests, DestWrites(d)
  PROVE  DrainInv'
<1>1. /\ Idle /\ UNCHANGED <<listeners, paused>>
      /\ \/ /\ destNeedDrain[d] /\ destNeedDrain' = [destNeedDrain EXCEPT ![d] = FALSE]
            /\ state' = IF Contains(listeners, d) THEN OnDrain(state, listeners) ELSE state
         \/ UNCHANGED <<destNeedDrain, state>>
  BY DEF DestWrites, hist
<1>2. CASE UNCHANGED <<destNeedDrain, state>>
  BY <1>1, <1>2 DEF DrainInv
<1>3. CASE /\ destNeedDrain[d] /\ destNeedDrain' = [destNeedDrain EXCEPT ![d] = FALSE]
           /\ state' = IF Contains(listeners, d) THEN OnDrain(state, listeners) ELSE state
  <2> DEFINE A == Counted(state.todo, listeners, destNeedDrain)
             B == Counted(state.todo, listeners, destNeedDrain')
  <2>1. /\ Typed(state) /\ Calm(state) /\ Len(state.todo) = 0 /\ state.awaitDrain \in Nat
        /\ listeners \in Seq(Dests \cup {User})
    BY <1>1, IdleGoes, Fields DEF Inv, Around
  <2>2. Drain(state, listeners, destNeedDrain, paused)
    BY DEF DrainInv
  <2>3. /\ destNeedDrain' \in [Dests -> BOOLEAN] /\ ~destNeedDrain'[d]
        /\ \A e \in Dests : e # d => destNeedDrain'[e] = destNeedDrain[e]
    BY <1>3, <2>2 DEF Drain
  <2>4. B = A \ {d}
    BY <2>3 DEF Counted
  <2>5. /\ IsFiniteSet(A) /\ Cardinality(A) \in Nat /\ Cardinality(B) \in Nat
        /\ Cardinality(B) = IF d \in A THEN Cardinality(A) - 1 ELSE Cardinality(A)
    BY <2>4, CountedFinite, FS_RemoveElement
  <2>6. state.awaitDrain <= Cardinality(A)
    BY <2>2 DEF Drain, Awaits
  <2>7. CASE Contains(listeners, d)
    <3>1. state.awaitDrain - 1 <= Cardinality(B)
      BY <2>1, <2>5, <2>6
    <3> HIDE DEF B
    <3>2. Drain(OnDrain(state, listeners), listeners, destNeedDrain', paused)
      BY <2>1, <2>2, <2>3, <3>1, OnDrainDrains DEF Drain, Stops, B
    <3> QED
      BY <1>1, <1>3, <2>7, <3>2 DEF DrainInv
  <2>8. CASE ~Contains(listeners, d)
    <3>1. d \notin ToSet(listeners)
      BY <2>1, <2>8, ToSetPlaces DEF Contains
    <3>2. d \notin A
      BY <3>1 DEF Counted
    <3>3. Awaits(state, listeners, destNeedDrain')
      BY <2>5, <2>6, <3>2 DEF Awaits
    <3>4. Drain(state, listeners, destNeedDrain', paused)
      BY <2>2, <2>3, <3>3 DEF Drain
    <3> QED
      BY <1>1, <1>3, <2>8, <3>4 DEF DrainInv
  <2> QED
    BY <2>7, <2>8
<1> QED
  BY <1>1, <1>2, <1>3

\* What is left of a 'data' that has reached its first listener: no more are due.
LEMMA AfterDrains ==
  ASSUME Inv, DrainInv, Running("data"), state.todo[1].to # <<>>
  PROVE  \A l : l = Run(Popped, <<Onward(state.todo[1])>>) =>
            /\ Typed(l) /\ Flags(state, l) /\ Calm(l) /\ Connected(l.todo, l.pipes, listeners)
            /\ Listed(l.todo, listeners)
            /\ \A d \in Dests : \A i \in 1 .. Len(l.todo) :
                 DueTo(l.todo[i], d) => DueTo(state.todo[i], d) /\ i \in 1 .. Len(state.todo)
<1> SUFFICES ASSUME NEW l, l = Run(Popped, <<Onward(state.todo[1])>>)
             PROVE  /\ Typed(l) /\ Flags(state, l) /\ Calm(l)
                    /\ Connected(l.todo, l.pipes, listeners) /\ Listed(l.todo, listeners)
                    /\ \A d \in Dests : \A i \in 1 .. Len(l.todo) :
                         DueTo(l.todo[i], d) => DueTo(state.todo[i], d) /\ i \in 1 .. Len(state.todo)
  OBVIOUS
<1> DEFINE item == state.todo[1]
<1>1. /\ Typed(l) /\ Calm(l) /\ l.todo[1].k = "data" /\ l.todo[1] = Onward(item)
      /\ Len(l.todo) = Len(state.todo) /\ Len(l.todo) \in Nat
      /\ \A i \in 2 .. Len(l.todo) : l.todo[i] = state.todo[i]
  BY AfterGoes
<1>2. /\ item.k = "data" /\ item \in Items(state.ended)
  BY Top
<1>3. Flags(state, l)
  <2>1. Popped \in Streams /\ Flags(state, Popped)
    BY PoppedStays DEF Stays
  <2> HIDE DEF Popped
  <2> QED
    BY <2>1 DEF Run, Flags, Streams
<1>4. \A d \in Dests : DueTo(Onward(item), d) => DueTo(item, d)
  BY <1>2, OnwardGoes
<1>5. \A i \in 1 .. Len(l.todo) : i = 1 \/ i \in 2 .. Len(l.todo)
  BY <1>1
<1> HIDE DEF item
<1>6. \A d \in Dests : \A i \in 1 .. Len(l.todo) :
        DueTo(l.todo[i], d) => DueTo(state.todo[i], d) /\ i \in 1 .. Len(state.todo)
  BY <1>1, <1>4, <1>5 DEF item
<1>7. Listed(l.todo, listeners)
  BY <1>6 DEF DrainInv, Drain, Listed
<1>8. Connected(l.todo, l.pipes, listeners)
  <2>1. ASSUME NEW i \in 1 .. Len(l.todo), l.todo[i].k = "cleanup" \/ state.todo[i].k = "cleanup"
        PROVE  l.todo[i] = state.todo[i]
    <3>1. i # 1
      BY <1>1, <1>2, <2>1 DEF item
    <3> QED
      BY <1>1, <1>5, <3>1
  <2>2. \A i \in 1 .. Len(l.todo) : i + 0 = i /\ i - 0 = i
    BY <1>1
  <2>3. Cleaning(state.todo, l.todo, 0)
    BY <1>1, <2>1, <2>2 DEF Cleaning
  <2>4. Connected(l.todo, state.pipes, listeners)
    BY <1>1, <2>3, ConnectedStays DEF DrainInv, Drain
  <2> QED
    BY <1>3, <2>4 DEF Flags
<1> QED
  BY <1>1, <1>3, <1>6, <1>7, <1>8

\* 'data' reaches its next listener, who may be full with it.
LEMMA DataDrains ==
  ASSUME Inv, DrainInv, Barge = FALSE, Data
  PROVE  DrainInv'
<1> DEFINE item == state.todo[1]
           after == Run(Popped, <<Onward(item)>>)
<1>1. Running("data") /\ UNCHANGED <<listeners, paused>>
  BY DEF Data
<1>2. /\ state.todo # <<>> /\ item.k = "data" /\ item \in Items(state.ended)
      /\ Head(state.todo) = item /\ Typed(state) /\ Len(state.todo) \in Nat
      /\ state.awaitDrain \in Nat
  BY <1>1, Top, Fields DEF Inv, Core
<1>3. Drain(state, listeners, destNeedDrain, paused)
  BY DEF DrainInv
<1>4. CASE item.to = <<>> /\ state' = Popped /\ UNCHANGED destNeedDrain
  <2>1. Stays(state, state') /\ Quietly
    BY <1>1, <1>4, PoppedStays DEF Quietly
  <2> QED
    BY <2>1, StaysKeeps
<1>5. ASSUME item.to # <<>>
      PROVE  /\ Typed(after) /\ Flags(state, after) /\ Calm(after)
             /\ Connected(after.todo, after.pipes, listeners) /\ Listed(after.todo, listeners)
             /\ \A d \in Dests : \A i \in 1 .. Len(after.todo) :
                  DueTo(after.todo[i], d) => DueTo(state.todo[i], d) /\ i \in 1 .. Len(state.todo)
  BY <1>1, <1>5, AfterDrains
<1>6. ASSUME item.to # <<>>
      PROVE  Drain(after, listeners, destNeedDrain, paused)
  <2> HIDE DEF after
  <2> DEFINE A == Counted(state.todo, listeners, destNeedDrain)
             B == Counted(after.todo, listeners, destNeedDrain)
  <2>1. A \in SUBSET B
    BY <1>5, <1>6 DEF Counted
  <2>2. IsFiniteSet(B) /\ Cardinality(A) \in Nat /\ Cardinality(B) \in Nat
    BY CountedFinite
  <2>3. Cardinality(A) <= Cardinality(B)
    BY <2>1, <2>2, FS_Subset
  <2>4. after.awaitDrain = state.awaitDrain /\ state.awaitDrain <= Cardinality(A)
    BY <1>3, <1>5, <1>6 DEF Flags, Drain, Awaits
  <2>5. Awaits(after, listeners, destNeedDrain)
    BY <1>2, <2>2, <2>3, <2>4 DEF Awaits
  <2>6. Stops(after, paused)
    BY <1>3, <1>5, <1>6 DEF Flags, Drain, Stops, Calm, Counts, Returning
  <2> QED
    BY <1>3, <1>5, <1>6, <2>5, <2>6 DEF Drain
<1>7. CASE /\ item.to # <<>> /\ UNCHANGED destNeedDrain
           /\ state' = after \/ state' = Run(after, <<Item("user")>>)
  <2>1. Typed(after) /\ Drain(after, listeners, destNeedDrain, paused)
    BY <1>5, <1>6, <1>7
  <2> HIDE DEF after
  <2>2. Drain(Run(after, <<Item("user")>>), listeners, destNeedDrain, paused)
    BY <2>1, RunFreeStays, StaysDrain DEF Kinds, Returning
  <2> QED
    BY <1>1, <1>7, <2>1, <2>2 DEF DrainInv
<1>8. ASSUME NEW d \in Dests, item.to # <<>>, Head(item.to) = d,
             destNeedDrain' = [destNeedDrain EXCEPT ![d] = TRUE],
             state' = Pause([after EXCEPT !.awaitDrain = @ + 1])
      PROVE  DrainInv'
  <2> DEFINE A == Counted(state.todo, listeners, destNeedDrain)
             B == Counted(after.todo, listeners, destNeedDrain')
  <2>1. /\ Typed(after) /\ Flags(state, after) /\ Calm(after)
        /\ Connected(after.todo, after.pipes, listeners) /\ Listed(after.todo, listeners)
        /\ \A e \in Dests : \A i \in 1 .. Len(after.todo) :
             DueTo(after.todo[i], e) => DueTo(state.todo[i], e) /\ i \in 1 .. Len(state.todo)
    BY <1>5, <1>8
  <2>2. /\ after.todo[1] = Onward(item) /\ Len(after.todo) = Len(state.todo)
        /\ \A i \in 2 .. Len(after.todo) : after.todo[i] = state.todo[i]
    BY <1>1, <1>8, AfterGoes
  <2>3. DueTo(item, d) /\ 1 \in 1 .. Len(state.todo)
    <3>1. DueTo(item, d)
      BY <1>2, <1>8, OnwardGoes
    <3>2. state.todo # <<>> => 1 \in 1 .. Len(state.todo)
      <4>1. state.todo \in Seq(Items(state.ended))
        BY <1>2, Fields
      <4> QED
        BY <4>1
    <3> QED
      BY <1>2, <3>1, <3>2
  <2>4. Told(state.todo, taken, got, listeners, steady)
    BY <1>8 DEF Inv
  <2>5. d \in ToSet(listeners)
    BY <1>3, <2>3 DEF Drain, Listed
  <2>6. ~DueTo(Onward(item), d)
    <3>1. IsInjective(item.to)
      BY <2>3, <2>4 DEF Told, Pending, Due
    <3> QED
      BY <1>2, <1>8, <3>1, OnwardGoes DEF DueTo
  <2>7. \A i \in 2 .. Len(state.todo) : ~DueTo(state.todo[i], d)
    BY <1>2, <2>4, OnlyTop DEF Pending
  <2> HIDE DEF after
  <2>8. \A i \in 1 .. Len(after.todo) : ~DueTo(after.todo[i], d)
    <3> TAKE i \in 1 .. Len(after.todo)
    <3>1. i = 1 \/ i \in 2 .. Len(after.todo)
      BY <1>2, <2>2
    <3> QED
      BY <2>2, <2>6, <2>7, <3>1
  <2>9. /\ destNeedDrain' \in [Dests -> BOOLEAN] /\ destNeedDrain'[d]
        /\ \A e \in Dests : e # d => destNeedDrain'[e] = destNeedDrain[e]
    BY <1>3, <1>8 DEF Drain
  <2>10. A \cup {d} \in SUBSET B
    <3>1. d \in B
      BY <2>5, <2>8, <2>9 DEF Counted
    <3>2. ASSUME NEW e \in A
          PROVE  e \in B
      <4>1. e \in Dests /\ e \in ToSet(listeners) /\ destNeedDrain'[e]
        BY <2>9 DEF Counted
      <4>2. \A i \in 1 .. Len(after.todo) : ~DueTo(after.todo[i], e)
        BY <2>1 DEF Counted
      <4> QED
        BY <4>1, <4>2 DEF Counted
    <3> QED
      BY <3>1, <3>2
  <2>11. d \notin A
    BY <2>3 DEF Counted
  <2>12. /\ IsFiniteSet(A) /\ IsFiniteSet(B) /\ Cardinality(A) \in Nat /\ Cardinality(B) \in Nat
    BY CountedFinite
  <2>13. Cardinality(A) + 1 <= Cardinality(B)
    <3>1. Cardinality(A \cup {d}) = Cardinality(A) + 1
      BY <2>11, <2>12, FS_AddElement
    <3> QED
      BY <2>10, <2>12, <3>1, FS_Subset
  <2>14. state.awaitDrain <= Cardinality(A)
    BY <1>3 DEF Drain, Awaits
  <2> DEFINE n == after.awaitDrain + 1
             k == [after EXCEPT !.awaitDrain = n, !.flowing = "false"]
  <2>15. after \in Streams /\ after.awaitDrain = state.awaitDrain
    BY <2>1, Fields DEF Flags
  <2>16. n \in Nat /\ n > 0 /\ n <= Cardinality(B)
    BY <1>2, <2>12, <2>13, <2>14, <2>15
  <2>17. state' = k
    BY <1>8, <2>15 DEF Pause, Streams
  <2> HIDE DEF n, A, B
  <2>18. k.todo = after.todo /\ k.pipes = after.pipes /\ k.awaitDrain = n /\ k.flowing = "false"
    BY <2>15 DEF Streams
  <2> HIDE DEF k
  <2>19. Stops(k, paused)
    BY <2>1, <2>16, <2>18 DEF Stops, Calm, Counts, Returning
  <2>20. Awaits(k, listeners, destNeedDrain')
    BY <2>16, <2>18 DEF Awaits, B
  <2>21. Drain(k, listeners, destNeedDrain', paused)
    BY <2>1, <2>9, <2>18, <2>19, <2>20 DEF Drain
  <2> QED
    BY <1>1, <2>17, <2>21 DEF DrainInv
<1>9. \/ item.to = <<>> /\ state' = Popped /\ UNCHANGED destNeedDrain
      \/ /\ item.to # <<>> /\ UNCHANGED destNeedDrain
         /\ state' = after \/ state' = Run(after, <<Item("user")>>)
      \/ \E d \in Dests :
           /\ item.to # <<>> /\ Head(item.to) = d
           /\ destNeedDrain' = [destNeedDrain EXCEPT ![d] = TRUE]
           /\ state' = Pause([after EXCEPT !.awaitDrain = @ + 1])
  BY <1>2 DEF Data, Onward, dest
<1> QED
  BY <1>4, <1>7, <1>8, <1>9

\* Two stacks hold the same that clean up, one of them n places deeper, but for one
\* destination, which is done.
Without(a, b, n, d) ==
  /\ Len(b) \in Nat
  /\ \A i \in 1 .. Len(b) :
       b[i].k = "cleanup" => IsInjective(b[i].to) /\ ToSet(b[i].to) \subseteq Dests
  /\ \A e \in Dests : \A i \in 1 .. Len(b) :
       Leaving(b[i], e) => e # d /\ i + n \in 1 .. Len(a) /\ Leaving(a[i + n], e)
  /\ \A e \in Dests : \A j \in 1 .. Len(a) :
       e # d /\ Leaving(a[j], e) => \E i \in 1 .. Len(b) : Leaving(b[i], e)

\* A destination cleans up, and leaves the listeners.
LEMMA ConnectedWithout ==
  ASSUME NEW todo, NEW new, NEW n \in Int, NEW pipes, NEW ls, Connected(todo, pipes, ls),
         NEW d, d \notin ToSet(pipes), NEW left, ToSet(left) = ToSet(ls) \ {d},
         Without(todo, new, n, d)
  PROVE  Connected(new, pipes, left)
<1>1. ASSUME NEW e \in Dests
      PROVE  /\ e \in ToSet(pipes) => e \in ToSet(left) /\ \A i \in 1 .. Len(new) : ~Leaving(new[i], e)
             /\ e \in ToSet(left) => e \in ToSet(pipes) \/ \E i \in 1 .. Len(new) : Leaving(new[i], e)
             /\ \A i \in 1 .. Len(new) : Leaving(new[i], e) => e \in ToSet(left)
  <2>1. /\ e \in ToSet(pipes) => e \in ToSet(ls) /\ \A i \in 1 .. Len(todo) : ~Leaving(todo[i], e)
        /\ e \in ToSet(ls) => e \in ToSet(pipes) \/ \E i \in 1 .. Len(todo) : Leaving(todo[i], e)
        /\ \A i \in 1 .. Len(todo) : Leaving(todo[i], e) => e \in ToSet(ls)
    BY DEF Connected
  <2>2. e \in ToSet(pipes) => e \in ToSet(left) /\ \A i \in 1 .. Len(new) : ~Leaving(new[i], e)
    BY <2>1 DEF Without
  <2>3. e \in ToSet(left) => e \in ToSet(pipes) \/ \E i \in 1 .. Len(new) : Leaving(new[i], e)
    BY <2>1 DEF Without
  <2>4. \A i \in 1 .. Len(new) : Leaving(new[i], e) => e \in ToSet(left)
    BY <2>1 DEF Without
  <2> QED
    BY <2>2, <2>3, <2>4
<1>2. ASSUME NEW e \in Dests, NEW i \in 1 .. Len(new), NEW j \in 1 .. Len(new),
             Leaving(new[i], e), Leaving(new[j], e)
      PROVE  i = j
  <2>1. i + n \in 1 .. Len(todo) /\ Leaving(todo[i + n], e) /\ j + n \in 1 .. Len(todo) /\ Leaving(todo[j + n], e)
    BY <1>2 DEF Without
  <2>2. i + n = j + n
    BY <2>1 DEF Connected
  <2> QED
    BY <2>2
<1> QED
  BY <1>1, <1>2 DEF Connected, Without

\* What is left of the cleaning up, on the stack.
LEMMA CleanupStack ==
  ASSUME Inv, DrainInv, Running("cleanup")
  PROVE  LET item == state.todo[1]
             d    == Head(item.to)
             rest == Run(Popped, IF Len(item.to) = 1 THEN <<>>
                                 ELSE <<[item EXCEPT !.to = Tail(@)]>>)
         IN /\ d \in Dests /\ d \in ToSet(listeners) /\ d \notin ToSet(state.pipes)
            /\ Flags(state, rest)
            /\ \A left : ToSet(left) = ToSet(listeners) \ {d} => Connected(rest.todo, rest.pipes, left)
<1> DEFINE item == state.todo[1]
           to == item.to
           d == Head(to)
           x == [item EXCEPT !.to = Tail(@)]
           items == IF Len(to) = 1 THEN <<>> ELSE <<x>>
           rest == Run(Popped, items)
<1>1. /\ state.todo # <<>> /\ item.k = "cleanup" /\ item \in Items(state.ended)
      /\ state.todo \in Seq(Items(state.ended)) /\ Len(state.todo) \in Nat \ {0}
  <2>1. state.todo # <<>> /\ item.k = "cleanup" /\ item \in Items(state.ended)
    BY Top
  <2>2. state.todo \in Seq(Items(state.ended))
    BY Fields DEF Inv, Core
  <2>3. Len(state.todo) \in Nat \ {0}
    BY <2>1, <2>2
  <2> QED
    BY <2>1, <2>2, <2>3
<1>2. 1 \in 1 .. Len(state.todo)
  BY <1>1
<1>3. Connected(state.todo, state.pipes, listeners)
  BY DEF DrainInv, Drain
<1>4. /\ to \in Seq(Dests \cup {User}) /\ to # <<>> /\ IsInjective(to) /\ ToSet(to) \subseteq Dests
  BY <1>1, <1>2, <1>3 DEF Connected, Items
<1>5. /\ Tail(to) \in Seq(Dests \cup {User}) /\ ToSet(to) = {d} \cup ToSet(Tail(to))
      /\ Len(Tail(to)) = Len(to) - 1 /\ Len(to) \in Nat \ {0}
      /\ IsInjective(Tail(to)) /\ d \notin ToSet(Tail(to))
  BY <1>4, TailElements
<1>6. d \in Dests /\ Leaving(item, d)
  BY <1>1, <1>4, <1>5 DEF Leaving
<1>7. d \in ToSet(listeners) /\ d \notin ToSet(state.pipes)
  BY <1>2, <1>3, <1>6 DEF Connected
<1>8. /\ Popped = [state EXCEPT !.todo = Tail(state.todo)] /\ Typed(Popped)
      /\ Popped.ended = state.ended
  BY <1>1, PoppedGoes DEF SameData
<1>9. /\ Len(Popped.todo) = Len(state.todo) - 1
      /\ \A i \in 1 .. Len(Popped.todo) : i + 1 \in 1 .. Len(state.todo) /\ Popped.todo[i] = state.todo[i + 1]
  <2>1. Typed(state)
    BY DEF Inv, Core
  <2> QED
    BY <1>1, <1>8, <2>1, PopTyped
<1>10. Flags(state, Popped) /\ Popped \in Streams
  <2>1. state \in Streams
    BY Fields DEF Inv, Core
  <2> QED
    BY <1>8, <2>1, Fields DEF Flags, Streams
<1> DEFINE less == Tail(to)
<1>11. x = [item EXCEPT !.to = less]
  OBVIOUS
<1>12. less \in Seq(Dests \cup {User}) /\ ToSet(to) = {d} \cup ToSet(less)
       /\ IsInjective(less) /\ d \notin ToSet(less) /\ Len(less) = Len(to) - 1
  BY <1>5
<1> HIDE DEF less
<1>13. x.k = "cleanup" /\ x.to = less
  BY <1>1, <1>11 DEF Items
<1>14. Len(to) # 1 => x \in Items(Popped.ended)
  <2>1. Len(to) # 1 => less # <<>>
    <3>1. \A m \in Nat \ {0} : m - 1 = 0 => m = 1
      OBVIOUS
    <3>2. less = <<>> => Len(less) = 0
      BY EmptySequence
    <3> HIDE DEF to
    <3> QED
      BY <1>5, <1>12, <3>1, <3>2
  <2> QED
    BY <1>1, <1>8, <1>11, <1>12, <2>1 DEF Items
<1> HIDE DEF x, Popped
<1>15. Flags(state, rest)
  BY <1>10 DEF Run, Flags, Streams
<1>16. ASSUME NEW left, ToSet(left) = ToSet(listeners) \ {d}
       PROVE  Connected(rest.todo, rest.pipes, left)
  <2>1. CASE Len(to) = 1
    <3> DEFINE new == rest.todo
    <3>1. new = Popped.todo
      <4>1. <<>> \in Seq(Items(Popped.ended)) /\ Popped.todo \in Seq(Items(Popped.ended))
        <5>1. Typed(Popped)
          BY <1>8
        <5>2. Popped.todo \in Seq(Items(Popped.ended))
          BY <5>1, Fields
        <5> QED
          BY <5>2, EmptySequence
      <4>2. rest.todo = <<>> \o Popped.todo
        BY <1>8, <2>1, <4>1, RunTyped
      <4> QED
        BY <4>1, <4>2, ConcatEmptySeq
    <3> HIDE DEF rest, new
    <3>2. ToSet(to) = {d}
      <4>1. less = <<>>
        BY <1>12, <2>1
      <4> QED
        BY <1>12, <4>1, EmptySequence
    <3>3. ASSUME NEW i \in 1 .. Len(new)
          PROVE  i + 1 \in 1 .. Len(state.todo) /\ new[i] = state.todo[i + 1] /\ i + 1 # 1
      BY <1>9, <3>1
    <3>4. \A i \in 1 .. Len(new) :
            new[i].k = "cleanup" => IsInjective(new[i].to) /\ ToSet(new[i].to) \subseteq Dests
      BY <1>3, <3>3 DEF Connected
    <3>5. ASSUME NEW e \in Dests, NEW i \in 1 .. Len(new), Leaving(new[i], e)
          PROVE  e # d /\ i + 1 \in 1 .. Len(state.todo) /\ Leaving(state.todo[i + 1], e)
      <4>1. i + 1 \in 1 .. Len(state.todo) /\ Leaving(state.todo[i + 1], e) /\ i + 1 # 1
        BY <3>3, <3>5
      <4>2. e # d
        BY <1>2, <1>3, <1>6, <4>1 DEF Connected
      <4> QED
        BY <4>1, <4>2
    <3>6. ASSUME NEW e \in Dests, NEW j \in 1 .. Len(state.todo), e # d, Leaving(state.todo[j], e)
          PROVE  \E i \in 1 .. Len(new) : Leaving(new[i], e)
      <4>1. j # 1
        BY <3>2, <3>6 DEF Leaving
      <4>2. j - 1 \in 1 .. Len(new) /\ (j - 1) + 1 = j
        BY <1>1, <1>9, <3>1, <4>1
      <4>3. new[j - 1] = state.todo[j]
        BY <3>3, <4>2
      <4> QED
        BY <3>6, <4>2, <4>3
    <3>7. Len(new) \in Nat
      BY <1>1, <1>9, <3>1
    <3>8. Connected(new, state.pipes, left)
      <4> PICK n \in Int : n = 1
        OBVIOUS
      <4>1. \A e \in Dests : \A i \in 1 .. Len(new) :
              Leaving(new[i], e) => e # d /\ i + n \in 1 .. Len(state.todo) /\ Leaving(state.todo[i + n], e)
        BY <3>5
      <4>2. \A e \in Dests : \A j \in 1 .. Len(state.todo) :
              e # d /\ Leaving(state.todo[j], e) => \E i \in 1 .. Len(new) : Leaving(new[i], e)
        BY <3>6
      <4>3. Without(state.todo, new, n, d)
        BY <3>4, <3>7, <4>1, <4>2 DEF Without
      <4> HIDE DEF d
      <4> QED
        BY <1>3, <1>7, <1>16, <4>3, ConnectedWithout
    <3> QED
      BY <1>15, <3>8 DEF Flags, new
  <2>2. CASE Len(to) # 1
    <3> DEFINE new == rest.todo
    <3>1. /\ Len(new) = Len(Popped.todo) + 1 /\ new[1] = x
          /\ \A i \in 2 .. Len(new) : i - 1 \in 1 .. Len(Popped.todo) /\ new[i] = Popped.todo[i - 1]
      <4>1. x \in Items(Popped.ended) /\ Typed(Popped)
        BY <1>8, <1>14, <2>2
      <4>2. \A l : l = Run(Popped, <<x>>) =>
              /\ Len(l.todo) = Len(Popped.todo) + 1 /\ l.todo[1] = x
              /\ \A i \in 2 .. Len(l.todo) : i - 1 \in 1 .. Len(Popped.todo) /\ l.todo[i] = Popped.todo[i - 1]
        BY ONLY <4>1, RunOne
      <4>3. rest = Run(Popped, <<x>>)
        BY <2>2
      <4> QED
        BY <4>2, <4>3
    <3> HIDE DEF rest, new
    <3>2. Len(new) = Len(state.todo) /\ Len(new) \in Nat \ {0}
      BY <1>1, <1>9, <3>1
    <3>3. ASSUME NEW i \in 1 .. Len(new), i # 1
          PROVE  new[i] = state.todo[i]
      <4>1. i \in 2 .. Len(new) /\ (i - 1) + 1 = i
        BY <3>3
      <4> QED
        BY <1>9, <3>1, <4>1
    <3>4. \A e : Leaving(new[1], e) <=> Leaving(item, e) /\ e # d
      BY <1>1, <1>12, <1>13, <3>1 DEF Leaving
    <3>5. ASSUME NEW i \in 1 .. Len(new), new[i].k = "cleanup"
          PROVE  IsInjective(new[i].to) /\ ToSet(new[i].to) \subseteq Dests
      <4>1. CASE i = 1
        BY <1>4, <1>12, <1>13, <3>1, <4>1
      <4>2. CASE i # 1
        BY <1>3, <3>2, <3>3, <3>5, <4>2 DEF Connected
      <4> QED
        BY <4>1, <4>2
    <3>6. ASSUME NEW e \in Dests, NEW i \in 1 .. Len(new)
          PROVE  Leaving(new[i], e) <=> Leaving(state.todo[i], e) /\ e # d
      <4>1. CASE i = 1
        BY <3>4, <4>1
      <4>2. CASE i # 1
        <5>1. Leaving(state.todo[i], e) => e # d
          BY <1>2, <1>3, <1>6, <3>2, <4>2 DEF Connected
        <5> QED
          BY <3>3, <4>2, <5>1
      <4> QED
        BY <4>1, <4>2
    <3>7. \A i \in 1 .. Len(new) : i + 0 = i
      BY <3>2
    <3>8. Connected(new, state.pipes, left)
      <4> PICK n \in Int : n = 0
        OBVIOUS
      <4>1. \A e \in Dests : \A i \in 1 .. Len(new) :
              Leaving(new[i], e) => e # d /\ i + n \in 1 .. Len(state.todo) /\ Leaving(state.todo[i + n], e)
        BY <3>2, <3>6, <3>7
      <4>2. \A e \in Dests : \A j \in 1 .. Len(state.todo) :
              e # d /\ Leaving(state.todo[j], e) => \E i \in 1 .. Len(new) : Leaving(new[i], e)
        BY <3>2, <3>6
      <4>3. Len(new) \in Nat
        BY <3>2
      <4>4. \A i \in 1 .. Len(new) :
              new[i].k = "cleanup" => IsInjective(new[i].to) /\ ToSet(new[i].to) \subseteq Dests
        BY <3>5
      <4>5. Without(state.todo, new, n, d)
        BY <4>1, <4>2, <4>3, <4>4 DEF Without
      <4> HIDE DEF d
      <4> QED
        BY <1>3, <1>7, <1>16, <4>5, ConnectedWithout
    <3> QED
      BY <1>15, <3>8 DEF Flags, new
  <2> QED
    BY <2>1, <2>2
<1> QED
  BY <1>6, <1>7, <1>15, <1>16 DEF x, less

\* cleanup() of a destination, whom the source may have waited for.
LEMMA CleanupDrains ==
  ASSUME Inv, DrainInv, Barge = FALSE, Cleanup
  PROVE  DrainInv'
<1> DEFINE item == state.todo[1]
           d == Head(item.to)
           rest == Run(Popped, IF Len(item.to) = 1 THEN <<>>
                               ELSE <<[item EXCEPT !.to = Tail(@)]>>)
           left == RemoveFirst(listeners, d)
           A == Counted(state.todo, listeners, destNeedDrain)
           B == Counted(rest.todo, left, destNeedDrain)
<1>1. Running("cleanup") /\ UNCHANGED <<destNeedDrain, paused>>
  BY DEF Cleanup, dest
<1>2. /\ state.todo # <<>> /\ item.k = "cleanup" /\ Head(state.todo) = item
      /\ Typed(state) /\ state.awaitDrain \in Nat
  BY <1>1, Top, Fields DEF Inv, Core
<1>3. /\ listeners' = left
      /\ state' = IF Awaited(d) THEN OnDrain(rest, left) ELSE rest
  BY <1>2 DEF Cleanup
<1>4. /\ d \in Dests /\ d \in ToSet(listeners) /\ d \notin ToSet(state.pipes)
      /\ Flags(state, rest)
      /\ \A ls : ToSet(ls) = ToSet(listeners) \ {d} => Connected(rest.todo, rest.pipes, ls)
  BY <1>1, CleanupStack
<1>5. Over(Popped, rest)
  BY <1>1, <1>2, CleanupGoes
<1>6. Over(state, Popped) /\ Calm(Popped)
  BY <1>2, PoppedGoes
<1> HIDE DEF rest, d, Popped
<1>7. Typed(rest) /\ Calm(rest) /\ Quiet(rest.todo)
  <2>1. Quiet(state.todo)
    BY <1>2, TopQuiet DEF Inv
  <2>2. Quiet(rest.todo)
    <3>1. Over(state, rest)
      BY <1>5, <1>6, OverTransitive
    <3> QED
      BY <2>1, <3>1 DEF Quiet, Over, Plain, Pending, DueTo
  <2> QED
    BY <1>5, <1>6, <2>2, OverCalm DEF Over
<1>8. ToSet(left) = ToSet(listeners) \ {d}
  BY RemoveFirstElement DEF Inv, Around
<1> HIDE DEF left
<1>9. Connected(rest.todo, rest.pipes, left) /\ Listed(rest.todo, left)
  BY <1>4, <1>7, <1>8 DEF Listed, Quiet, Pending
<1>10. Drain(state, listeners, destNeedDrain, paused)
  BY DEF DrainInv
<1>11. A \ {d} \in SUBSET B
  BY <1>7, <1>8 DEF Counted, Quiet, Pending
<1>12. /\ IsFiniteSet(A) /\ Cardinality(A) \in Nat /\ IsFiniteSet(B) /\ Cardinality(B) \in Nat
       /\ state.awaitDrain <= Cardinality(A)
  BY <1>10, CountedFinite DEF Drain, Awaits
<1>13. (IF d \in A THEN Cardinality(A) - 1 ELSE Cardinality(A)) <= Cardinality(B)
  <2>1. Cardinality(A \ {d}) = IF d \in A THEN Cardinality(A) - 1 ELSE Cardinality(A)
    BY <1>12, FS_RemoveElement
  <2>2. Cardinality(A \ {d}) <= Cardinality(B)
    BY <1>11, <1>12, FS_Subset
  <2> QED
    BY <2>1, <2>2
<1>14. rest.awaitDrain = state.awaitDrain /\ rest.flowing = state.flowing /\ rest.pipes = state.pipes
  BY <1>4 DEF Flags
<1>15. CASE Awaited(d)
  <2>1. rest.awaitDrain - 1 <= Cardinality(B)
    BY <1>2, <1>12, <1>13, <1>14
  <2> HIDE DEF B
  <2>2. Drain(OnDrain(rest, left), left, destNeedDrain, paused)
    BY <1>7, <1>9, <1>10, <1>14, <2>1, OnDrainDrains DEF Drain, Stops, B
  <2> QED
    BY <1>1, <1>3, <1>15, <2>2 DEF DrainInv
<1>16. CASE ~Awaited(d)
  <2>1. state.awaitDrain = 0 \/ d \notin A
    BY <1>2, <1>16 DEF Awaited, Counted
  <2>2. rest.awaitDrain <= Cardinality(B)
    BY <1>2, <1>12, <1>13, <1>14, <2>1
  <2>3. Awaits(rest, left, destNeedDrain)
    BY <2>2 DEF Awaits
  <2>4. Stops(rest, paused)
    BY <1>7, <1>10, <1>14 DEF Drain, Stops, Calm, Counts, Returning
  <2>5. Drain(rest, left, destNeedDrain, paused)
    BY <1>9, <1>10, <2>3, <2>4 DEF Drain
  <2> QED
    BY <1>1, <1>3, <1>16, <2>5 DEF DrainInv
<1> QED
  BY <1>15, <1>16

\* A new stream waits for none.
LEMMA InitDrains == Init => DrainInv
<1> SUFFICES ASSUME Init PROVE DrainInv
  OBVIOUS
<1>1. /\ state.todo = <<>> /\ state.pipes = <<>> /\ state.awaitDrain = 0 /\ listeners = <<>>
      /\ destNeedDrain = [d \in Dests |-> FALSE] /\ paused = FALSE
  BY DEF Init
<1>2. Len(state.todo) = 0 /\ ToSet(<<>>) = {} /\ IsInjective(<<>>)
  BY <1>1, EmptySequence
<1>3. Connected(state.todo, state.pipes, listeners)
  BY <1>1, <1>2 DEF Connected
<1>4. Listed(state.todo, listeners) /\ Stops(state, paused)
  BY <1>1, <1>2 DEF Listed, Stops
<1>5. Awaits(state, listeners, destNeedDrain)
  BY <1>1, CountedFinite DEF Awaits
<1> QED
  BY <1>1, <1>3, <1>4, <1>5 DEF DrainInv, Drain

\* A step, of a user who does not barge.
LEMMA NextDrains ==
  ASSUME Inv, DrainInv, Barge = FALSE, Next
  PROVE  DrainInv'
<1>1. CASE UserRead \/ UserPause \/ UserResume
  BY <1>1, UserReadDrains, UserPauseDrains, UserResumeDrains
<1>2. CASE OnData \/ OnReadable \/ Unshift \/ Unpipe
  BY <1>2, OnDataDrains, OnReadableDrains, UnshiftDrains, UnpipeDrains
<1>3. ASSUME NEW d \in Dests, Pipe(d)
      PROVE  DrainInv'
  BY <1>3, PipeDrains
<1>4. CASE ReadZeroRuns \/ Flow \/ ReadReturns \/ EmitReadableEvent
  BY <1>4, ReadZeroRunsDrains, FlowDrains, ReadReturnsDrains, EmitReadableEventDrains
<1>5. CASE More \/ MoreRead \/ ResumeTick \/ Resumed \/ ResumeRest
  BY <1>5, MoreDrains, MoreReadDrains, ResumingDrains
<1>6. CASE End \/ EndLate \/ Data \/ Cleanup
  BY <1>6, EndingDrains, DataDrains, CleanupDrains
<1>7. CASE Pushed \/ PushMore \/ BodyReturns \/ UserReturns \/ RunTick
  BY <1>7, PushingDrains, EndingDrains, RunTickDrains
<1>8. CASE Source
  BY <1>8, PushEofDrains, PushDrains DEF Source
<1>9. ASSUME NEW d \in Dests, DestWrites(d) \/ DestFinishes(d) \/ DestBreaks(d)
      PROVE  DrainInv'
  BY <1>9, DestWritesDrains, DestLeavesDrains
<1> QED
  BY <1>1, <1>2, <1>3, <1>4, <1>5, <1>6, <1>7, <1>8, <1>9 DEF Next, UserCall, Step

\* The second invariant, of a user who does not barge.
LEMMA DrainInvHolds ==
  ASSUME Barge = FALSE
  PROVE  Spec => []DrainInv
<1>1. Init => Inv /\ DrainInv
  BY InitKeeps, InitDrains
<1>2. Inv /\ DrainInv /\ [Next]_vars => Inv' /\ DrainInv'
  <2>1. Inv /\ DrainInv /\ Next => Inv' /\ DrainInv'
    BY NextKeeps, NextDrains
  <2>2. Inv /\ UNCHANGED vars => Inv'
    BY DEF vars, dest, hist, Inv
  <2>3. DrainInv /\ UNCHANGED vars => DrainInv'
    BY DEF vars, dest, hist, DrainInv
  <2> QED
    BY <2>1, <2>2, <2>3
<1> QED
  BY <1>1, <1>2, PTL DEF Spec

\* What the comment at line 82 of _stream_readable.js says of awaitDrain holds while the
\* user makes nothing flow past a destination that is full: it counts no more than
\* the writers that await a 'drain'.
THEOREM WritersAwaitedHolds ==
  ASSUME Barge = FALSE
  PROVE  Spec => []WritersAwaited
<1>1. Inv /\ DrainInv => WritersAwaited
  <2> SUFFICES ASSUME Inv, DrainInv PROVE WritersAwaited
    OBVIOUS
  <2> DEFINE A == Counted(state.todo, listeners, destNeedDrain)
             W == {d \in ToSet(listeners) \ {User} : destNeedDrain[d]}
  <2>1. A \in SUBSET W
    BY ReadableAssumption DEF Counted
  <2>2. W \in SUBSET Dests
    <3>1. ToSet(listeners) \subseteq Dests \cup {User}
      BY ToSetPlaces DEF Inv, Around
    <3> QED
      BY <3>1
  <2>3. IsFiniteSet(W) /\ Cardinality(W) \in Nat
    <3>1. IsFiniteSet(Dests)
      BY ReadableAssumption
    <3>2. IsFiniteSet(W)
      BY <2>2, <3>1, FS_Subset
    <3> QED
      BY <3>2, FS_CardinalityType
  <2>4. Cardinality(A) <= Cardinality(W)
    BY <2>1, <2>3, FS_Subset
  <2>5. state.awaitDrain <= Cardinality(A) /\ Cardinality(A) \in Nat
    BY CountedFinite DEF DrainInv, Drain, Awaits
  <2>6. state.awaitDrain \in Nat
    BY Fields DEF Inv, Core
  <2> HIDE DEF A, W
  <2>7. state.awaitDrain <= Cardinality(W)
    BY <2>3, <2>4, <2>5, <2>6
  <2> QED
    BY <2>7 DEF WritersAwaited, W
<1> QED
  BY <1>1, InvHolds, DrainInvHolds, PTL

\* A source that pipes and was paused by the library waits for the 'drain' of one that it
\* pipes to: it does not wait for nothing.
THEOREM DrainAwaitedHolds ==
  ASSUME Barge = FALSE
  PROVE  Spec => []DrainAwaited
<1>1. Inv /\ DrainInv => DrainAwaited
  <2> SUFFICES ASSUME Inv, DrainInv, AtRest, state.pipes # <<>>, state.flowing # "true", ~paused
               PROVE  \E d \in ToSet(state.pipes) : destNeedDrain[d]
    BY DEF DrainAwaited
  <2>1. Len(state.todo) = 0 /\ Typed(state) /\ state.awaitDrain \in Nat
    BY IdleGoes, Fields DEF AtRest
  <2>2. state.awaitDrain > 0
    BY DEF DrainInv, Drain, Stops
  <2>3. PICK d : d \in Counted(state.todo, listeners, destNeedDrain)
    <3>1. CASE Counted(state.todo, listeners, destNeedDrain) = {}
      <4>1. Cardinality(Counted(state.todo, listeners, destNeedDrain)) = 0
        BY <3>1, FS_EmptySet
      <4> QED
        BY <2>1, <2>2, <4>1 DEF DrainInv, Drain, Awaits
    <3> QED
      BY <3>1
  <2>4. d \in Dests /\ d \in ToSet(listeners) /\ destNeedDrain[d]
    BY <2>3 DEF Counted
  <2>5. d \in ToSet(state.pipes)
    BY <2>1, <2>4 DEF DrainInv, Drain, Connected
  <2> QED
    BY <2>4, <2>5
<1> QED
  BY <1>1, InvHolds, DrainInvHolds, PTL

=============================================================================
