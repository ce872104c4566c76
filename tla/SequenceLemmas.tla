--------------------------- MODULE SequenceLemmas ---------------------------
(***************************************************************************)
(* Facts about the operators on sequences that the modules share: the      *)
(* elements of a sequence (ToSet), sequences without repetitions           *)
(* (IsInjective), RemoveFirst, which models arr.splice(indexOf(x), 1) and  *)
(* the removal from a linked list, and sequences of sequences that are     *)
(* joined (FlattenSeq) or begin another (IsPrefix).                        *)
(***************************************************************************)
EXTENDS Integers, Sequences, SequencesExt, SequenceTheorems, FiniteSetTheorems,
        WellFoundedInduction, TLAPS

\* An element of a sequence is at some place of it.
LEMMA ToSetPlaces ==
  ASSUME NEW S, NEW s \in Seq(S)
  PROVE  /\ ToSet(s) \subseteq S
         /\ \A x : x \in ToSet(s) <=> \E i \in 1 .. Len(s) : s[i] = x
<1>1. DOMAIN s = 1 .. Len(s) /\ \A i \in 1 .. Len(s) : s[i] \in S
  OBVIOUS
<1> QED
  BY <1>1 DEF ToSet

\* No repetitions, by the places.
LEMMA InjectivePlaces ==
  ASSUME NEW S, NEW s \in Seq(S)
  PROVE  IsInjective(s) <=> \A i, j \in 1 .. Len(s) : s[i] = s[j] => i = j
<1>1. DOMAIN s = 1 .. Len(s)
  OBVIOUS
<1> QED
  BY <1>1 DEF IsInjective

\* The empty sequence.
LEMMA EmptySequence ==
  ASSUME NEW S
  PROVE  <<>> \in Seq(S) /\ ToSet(<<>>) = {} /\ IsInjective(<<>>) /\ Len(<<>>) = 0
<1> QED
  BY DEF ToSet, IsInjective

\* A sequence without repetitions has as many elements as places.
LEMMA InjectiveCount ==
  ASSUME NEW S, NEW s \in Seq(S), IsInjective(s)
  PROVE  /\ IsFiniteSet(ToSet(s)) /\ Cardinality(ToSet(s)) = Len(s) /\ Len(s) \in Nat
<1>1. /\ Len(s) \in Nat /\ DOMAIN s = 1 .. Len(s) /\ s \in [1 .. Len(s) -> S]
  OBVIOUS
<1>2. \A i, j \in 1 .. Len(s) : s[i] = s[j] => i = j
  BY InjectivePlaces
<1>3. /\ ToSet(s) \subseteq S
      /\ \A x : x \in ToSet(s) <=> \E i \in 1 .. Len(s) : s[i] = x
  BY ToSetPlaces
<1>4. s \in [1 .. Len(s) -> ToSet(s)]
  BY <1>1, <1>3
<1>5. s \in Bijection(1 .. Len(s), ToSet(s))
  BY <1>2, <1>3, <1>4 DEF Bijection, Injection, Surjection, IsInjective
<1>6. ExistsBijection(1 .. Len(s), ToSet(s))
  BY <1>5 DEF ExistsBijection
<1>7. Cardinality(ToSet(s)) = Len(s)
  BY <1>1, <1>6, FS_CountingElements
<1>8. IsFiniteSet(ToSet(s))
  BY <1>1, <1>6, FS_NatBijection
<1> QED
  BY <1>1, <1>7, <1>8

\* push()
LEMMA AppendElement ==
  ASSUME NEW S, NEW s \in Seq(S), NEW x \in S
  PROVE  /\ Append(s, x) \in Seq(S) /\ Len(Append(s, x)) = Len(s) + 1
         /\ ToSet(Append(s, x)) = ToSet(s) \cup {x}
         /\ IsInjective(s) /\ x \notin ToSet(s) => IsInjective(Append(s, x))
<1> DEFINE t == Append(s, x)
<1>1. /\ t \in Seq(S) /\ Len(t) = Len(s) + 1 /\ Len(s) \in Nat /\ t[Len(s) + 1] = x
      /\ \A i \in 1 .. Len(s) : t[i] = s[i]
  OBVIOUS
<1> HIDE DEF t
<1>2. /\ \A y : y \in ToSet(s) <=> \E i \in 1 .. Len(s) : s[i] = y
      /\ \A y : y \in ToSet(t) <=> \E i \in 1 .. Len(t) : t[i] = y
  BY <1>1, ToSetPlaces
<1>3. ToSet(t) = ToSet(s) \cup {x}
  <2>1. \A y \in ToSet(t) : y \in ToSet(s) \cup {x}
    BY <1>1, <1>2
  <2>2. \A y \in ToSet(s) : y \in ToSet(t)
    BY <1>1, <1>2
  <2>3. x \in ToSet(t)
    BY <1>1, <1>2
  <2> QED
    BY <2>1, <2>2, <2>3
<1>4. IsInjective(s) /\ x \notin ToSet(s) => IsInjective(t)
  <2> SUFFICES ASSUME IsInjective(s), x \notin ToSet(s),
                      NEW i \in 1 .. Len(t), NEW j \in 1 .. Len(t), t[i] = t[j]
               PROVE  i = j
    BY <1>1, InjectivePlaces
  <2>1. \A a, b \in 1 .. Len(s) : s[a] = s[b] => a = b
    BY InjectivePlaces
  <2>2. \A a \in 1 .. Len(s) : s[a] # x
    BY <1>2
  <2> QED
    BY <1>1, <2>1, <2>2
<1> QED
  BY <1>1, <1>3, <1>4 DEF t

\* shift()
LEMMA TailElements ==
  ASSUME NEW S, NEW s \in Seq(S), s # <<>>
  PROVE  /\ Tail(s) \in Seq(S) /\ Head(s) \in S /\ Len(Tail(s)) = Len(s) - 1 /\ Len(s) \in Nat \ {0}
         /\ ToSet(s) = {Head(s)} \cup ToSet(Tail(s))
         /\ IsInjective(s) => IsInjective(Tail(s)) /\ Head(s) \notin ToSet(Tail(s))
<1> DEFINE t == Tail(s)
<1>1. /\ t \in Seq(S) /\ Len(t) = Len(s) - 1 /\ Len(s) \in Nat \ {0} /\ Head(s) = s[1] /\ s[1] \in S
      /\ \A i \in 1 .. Len(t) : t[i] = s[i + 1]
  OBVIOUS
<1> HIDE DEF t
<1>2. /\ \A y : y \in ToSet(s) <=> \E i \in 1 .. Len(s) : s[i] = y
      /\ \A y : y \in ToSet(t) <=> \E i \in 1 .. Len(t) : t[i] = y
  BY <1>1, ToSetPlaces
<1>3. \A i \in 1 .. Len(t) : i + 1 \in 1 .. Len(s) /\ i + 1 # 1
  BY <1>1
<1>4. \A i \in 1 .. Len(s) : i # 1 => i - 1 \in 1 .. Len(t) /\ t[i - 1] = s[i]
  BY <1>1
<1>5. ToSet(s) = {Head(s)} \cup ToSet(t)
  <2>1. \A y \in ToSet(t) : y \in ToSet(s)
    BY <1>1, <1>2, <1>3
  <2>2. Head(s) \in ToSet(s)
    BY <1>1, <1>2
  <2>3. \A y \in ToSet(s) : y = Head(s) \/ y \in ToSet(t)
    BY <1>1, <1>2, <1>4
  <2> QED
    BY <2>1, <2>2, <2>3
<1>6. ASSUME IsInjective(s) PROVE IsInjective(t) /\ Head(s) \notin ToSet(t)
  <2>1. \A a, b \in 1 .. Len(s) : s[a] = s[b] => a = b
    BY <1>6, InjectivePlaces
  <2>2. Head(s) \notin ToSet(t)
    BY <1>1, <1>2, <1>3, <2>1
  <2>3. ASSUME NEW i \in 1 .. Len(t), NEW j \in 1 .. Len(t), t[i] = t[j] PROVE i = j
    <3>1. i + 1 = j + 1
      BY <1>1, <1>3, <2>1, <2>3
    <3> QED
      BY <3>1
  <2>4. IsInjective(t)
    BY <1>1, <2>3, InjectivePlaces
  <2> QED
    BY <2>2, <2>4
<1> QED
  BY <1>1, <1>5, <1>6 DEF t

\* Every set of numbers has a least element.
LEMMA LeastNumber ==
  ASSUME NEW I \in SUBSET Nat, I # {}
  PROVE  Min(I) \in I /\ \A y \in I : Min(I) =< y
<1> DEFINE R == OpToRel(<, Nat)
<1>1. \A x, y \in Nat : <<x, y>> \in R <=> x < y
  BY DEF OpToRel
<1>2. IsWellFoundedOn(R, Nat)
  BY NatLessThanWellFounded
<1> HIDE DEF R
<1>3. PICK x \in I : \A y \in I : ~(<<y, x>> \in R)
  BY <1>2, WFMin
<1>4. \A y \in I : ~(y < x)
  BY <1>1, <1>3
<1>5. x \in I /\ \A y \in I : x =< y
  BY <1>4
<1> QED
  BY <1>5 DEF Min

\* The places of a sequence without its first occurrence of an element.
LEMMA RemoveFirstPlaces ==
  ASSUME NEW S, NEW s \in Seq(S), NEW x \in ToSet(s)
  PROVE  \E k \in 1 .. Len(s) :
           /\ s[k] = x
           /\ RemoveFirst(s, x) \in Seq(S) /\ Len(RemoveFirst(s, x)) = Len(s) - 1
           /\ \A i \in 1 .. Len(s) - 1 :
                RemoveFirst(s, x)[i] = IF i < k THEN s[i] ELSE s[i + 1]
<1> DEFINE I == {i \in 1 .. Len(s) : s[i] = x}
           k == Min(I)
           t == RemoveFirst(s, x)
<1>a. /\ Len(s) \in Nat /\ \A i \in 1 .. Len(s) : s[i] \in S
      /\ \E i \in 1 .. Len(s) : s[i] = x
  BY ToSetPlaces
<1>1. I # {} /\ I \in SUBSET Nat
  BY <1>a
<1>2. k \in I
  BY <1>1, LeastNumber
<1>3. t = SubSeq(s, 1, k - 1) \o SubSeq(s, k + 1, Len(s))
  BY <1>a, <1>1 DEF RemoveFirst, RemoveAt, SelectInSeq
<1> HIDE DEF k, t
<1>4. k \in 1 .. Len(s) /\ s[k] = x
  BY <1>2
<1> DEFINE a == SubSeq(s, 1, k - 1)
           b == SubSeq(s, k + 1, Len(s))
<1>5. /\ a \in Seq(S) /\ Len(a) = k - 1 /\ \A i \in 1 .. k - 1 : a[i] = s[i]
  BY <1>a, <1>4
<1>6. /\ b \in Seq(S) /\ Len(b) = Len(s) - k /\ \A i \in 1 .. Len(s) - k : b[i] = s[k + i]
  BY <1>a, <1>4
<1> HIDE DEF a, b
<1>7. /\ t \in Seq(S) /\ Len(t) = Len(s) - 1
      /\ \A i \in 1 .. Len(t) : t[i] = IF i < k THEN s[i] ELSE s[i + 1]
  <2>1. t = a \o b
    BY <1>3 DEF a, b
  <2>2. /\ t \in Seq(S) /\ Len(t) = Len(a) + Len(b)
        /\ \A i \in 1 .. Len(a) + Len(b) : t[i] = IF i <= Len(a) THEN a[i] ELSE b[i - Len(a)]
    BY <1>5, <1>6, <2>1, ConcatProperties
  <2>3. Len(t) = Len(s) - 1
    BY <1>a, <1>4, <1>5, <1>6, <2>2
  <2>4. ASSUME NEW i \in 1 .. Len(t)
        PROVE  t[i] = IF i < k THEN s[i] ELSE s[i + 1]
    <3>1. CASE i < k
      BY <1>a, <1>4, <1>5, <1>6, <2>2, <2>3, <3>1
    <3>2. CASE ~(i < k)
      <4>1. ~(i <= Len(a)) /\ i - Len(a) \in 1 .. Len(s) - k /\ k + (i - Len(a)) = i + 1
        BY <1>a, <1>4, <1>5, <2>3, <3>2
      <4>2. t[i] = b[i - Len(a)]
        BY <1>5, <1>6, <2>2, <4>1
      <4> QED
        BY <1>6, <3>2, <4>1, <4>2
    <3> QED
      BY <3>1, <3>2
  <2> QED
    BY <2>2, <2>3, <2>4
<1>8. /\ k \in 1 .. Len(s) /\ s[k] = x /\ t \in Seq(S) /\ Len(t) = Len(s) - 1
      /\ \A i \in 1 .. Len(s) - 1 : t[i] = IF i < k THEN s[i] ELSE s[i + 1]
  BY <1>4, <1>7
<1> QED
  BY <1>8 DEF t

\* A sequence without its first occurrence of an element.
LEMMA RemoveFirstElement ==
  ASSUME NEW S, NEW s \in Seq(S), NEW x
  PROVE  /\ RemoveFirst(s, x) \in Seq(S)
         /\ ToSet(RemoveFirst(s, x)) \subseteq ToSet(s)
         /\ x \notin ToSet(s) => RemoveFirst(s, x) = s
         /\ IsInjective(s) => /\ IsInjective(RemoveFirst(s, x))
                              /\ ToSet(RemoveFirst(s, x)) = ToSet(s) \ {x}
<1> DEFINE t == RemoveFirst(s, x)
<1>1. /\ Len(s) \in Nat /\ \A i \in 1 .. Len(s) : s[i] \in S
      /\ \A y : y \in ToSet(s) <=> \E i \in 1 .. Len(s) : s[i] = y
  BY ToSetPlaces
<1>2. CASE x \notin ToSet(s)
  <2>1. t = s
    BY <1>1, <1>2 DEF RemoveFirst
  <2> QED
    BY <1>2, <2>1
<1>3. CASE x \in ToSet(s)
  <2>3. PICK k \in 1 .. Len(s) :
           /\ s[k] = x
           /\ RemoveFirst(s, x) \in Seq(S) /\ Len(RemoveFirst(s, x)) = Len(s) - 1
           /\ \A i \in 1 .. Len(s) - 1 :
                RemoveFirst(s, x)[i] = IF i < k THEN s[i] ELSE s[i + 1]
    BY <1>3, RemoveFirstPlaces
  <2>4. k \in 1 .. Len(s) /\ s[k] = x
    BY <2>3
  <2>7. /\ t \in Seq(S) /\ Len(t) = Len(s) - 1
        /\ \A i \in 1 .. Len(t) : t[i] = IF i < k THEN s[i] ELSE s[i + 1]
    BY <2>3
  <2> HIDE DEF t
  <2>8. \A y : y \in ToSet(t) <=> \E i \in 1 .. Len(t) : t[i] = y
    BY <2>7, ToSetPlaces
  <2> DEFINE g(i) == IF i < k THEN i ELSE i + 1
  <2>9. \A i \in 1 .. Len(t) : g(i) \in 1 .. Len(s) /\ g(i) # k /\ t[i] = s[g(i)]
    BY <1>1, <2>4, <2>7
  <2>10. ToSet(t) \subseteq ToSet(s)
    BY <1>1, <2>8, <2>9
  <2>11. \A i, j \in 1 .. Len(t) : g(i) = g(j) => i = j
    BY <2>4
  <2>12. ASSUME IsInjective(s) PROVE IsInjective(t) /\ ToSet(t) = ToSet(s) \ {x}
    <3>1. \A i, j \in 1 .. Len(s) : s[i] = s[j] => i = j
      BY <2>12, InjectivePlaces
    <3>2. \A i, j \in 1 .. Len(t) : t[i] = t[j] => i = j
      BY <2>9, <2>11, <3>1
    <3>3. IsInjective(t)
      BY <2>7, <3>2, InjectivePlaces
    <3>4. x \notin ToSet(t)
      BY <2>4, <2>8, <2>9, <3>1
    <3>5. \A y \in ToSet(s) \ {x} : y \in ToSet(t)
      <4> TAKE y \in ToSet(s) \ {x}
      <4>1. PICK i \in 1 .. Len(s) : s[i] = y /\ i # k
        BY <1>1, <2>4
      <4>2. CASE i < k
        <5>1. i \in 1 .. Len(t) /\ t[i] = y
          BY <1>1, <2>4, <2>7, <4>1, <4>2
        <5> QED
          BY <2>8, <5>1
      <4>3. CASE ~(i < k)
        <5>1. i - 1 \in 1 .. Len(t) /\ ~(i - 1 < k) /\ (i - 1) + 1 = i
          BY <1>1, <2>4, <2>7, <4>1, <4>3
        <5>2. t[i - 1] = y
          BY <2>7, <4>1, <5>1
        <5> QED
          BY <2>8, <5>1, <5>2
      <4> QED
        BY <4>2, <4>3
    <3> QED
      BY <2>10, <3>3, <3>4, <3>5
  <2> QED
    BY <1>3, <2>7, <2>10, <2>12 DEF t
<1> QED
  BY <1>2, <1>3

\* A sequence without an element keeps the order of the others.
LEMMA RemoveFirstOrder ==
  ASSUME NEW S, NEW s \in Seq(S), NEW x,
         NEW i \in 1 .. Len(RemoveFirst(s, x)), NEW j \in 1 .. Len(RemoveFirst(s, x)), i < j
  PROVE  \E m, n \in 1 .. Len(s) :
           m < n /\ RemoveFirst(s, x)[i] = s[m] /\ RemoveFirst(s, x)[j] = s[n]
<1> DEFINE t == RemoveFirst(s, x)
<1>1. CASE x \notin ToSet(s)
  <2>1. t = s
    BY <1>1, RemoveFirstElement
  <2> QED
    BY <2>1
<1>2. CASE x \in ToSet(s)
  <2>1. PICK k \in 1 .. Len(s) :
           /\ t \in Seq(S) /\ Len(t) = Len(s) - 1
           /\ \A l \in 1 .. Len(s) - 1 : t[l] = IF l < k THEN s[l] ELSE s[l + 1]
    BY <1>2, RemoveFirstPlaces
  <2> DEFINE g(l) == IF l < k THEN l ELSE l + 1
  <2>2. i \in 1 .. Len(t) /\ j \in 1 .. Len(t) /\ Len(s) \in Nat
    OBVIOUS
  <2> HIDE DEF t
  <2>3. g(i) \in 1 .. Len(s) /\ g(j) \in 1 .. Len(s) /\ g(i) < g(j)
    BY <2>1, <2>2
  <2>4. t[i] = s[g(i)] /\ t[j] = s[g(j)]
    BY <2>1, <2>2
  <2> QED
    BY <2>3, <2>4 DEF t
<1> QED
  BY <1>1, <1>2

\* A set none of whose members differ has at most one, and one if any.
LEMMA AtMostOne ==
  ASSUME NEW I, \A i, j \in I : i = j
  PROVE  Cardinality(I) = IF I = {} THEN 0 ELSE 1
<1>1. CASE I = {}
  BY <1>1, FS_EmptySet
<1>2. CASE I # {}
  <2>1. PICK i : i \in I
    BY <1>2
  <2>2. I = {i}
    BY <2>1
  <2> QED
    BY <1>2, <2>2, FS_Singleton
<1> QED
  BY <1>1, <1>2

\* Two sequences without repetitions that share nothing, one after the other.
LEMMA InjectiveConcat ==
  ASSUME NEW S, NEW s \in Seq(S), NEW t \in Seq(S), IsInjective(s), IsInjective(t),
         ToSet(s) \cap ToSet(t) = {}
  PROVE  IsInjective(s \o t)
<1> DEFINE c == s \o t
<1>1. /\ c \in Seq(S) /\ Len(c) = Len(s) + Len(t) /\ Len(s) \in Nat /\ Len(t) \in Nat
      /\ \A i \in 1 .. Len(s) : c[i] = s[i]
      /\ \A i \in 1 .. Len(t) : c[Len(s) + i] = t[i]
  OBVIOUS
<1> HIDE DEF c
<1>2. /\ \A i, j \in 1 .. Len(s) : s[i] = s[j] => i = j
      /\ \A i, j \in 1 .. Len(t) : t[i] = t[j] => i = j
      /\ \A i \in 1 .. Len(s), j \in 1 .. Len(t) : s[i] # t[j]
  BY InjectivePlaces, ToSetPlaces
<1>3. \A i \in 1 .. Len(c) : \/ i \in 1 .. Len(s)
                             \/ i - Len(s) \in 1 .. Len(t) /\ Len(s) + (i - Len(s)) = i
  BY <1>1
<1>4. \A i \in 1 .. Len(c) : i \notin 1 .. Len(s) => c[i] = t[i - Len(s)]
  BY <1>1, <1>3
<1>5. ASSUME NEW i \in 1 .. Len(c), NEW j \in 1 .. Len(c), c[i] = c[j]
      PROVE  i = j
  <2>1. CASE i \in 1 .. Len(s) /\ j \in 1 .. Len(s)
    BY <1>1, <1>2, <1>5, <2>1
  <2>2. CASE i \notin 1 .. Len(s) /\ j \notin 1 .. Len(s)
    <3>1. i - Len(s) = j - Len(s)
      BY <1>2, <1>3, <1>4, <1>5, <2>2
    <3> QED
      BY <1>1, <3>1
  <2>3. CASE i \in 1 .. Len(s) /\ j \notin 1 .. Len(s)
    BY <1>1, <1>2, <1>3, <1>4, <1>5, <2>3
  <2>4. CASE i \notin 1 .. Len(s) /\ j \in 1 .. Len(s)
    BY <1>1, <1>2, <1>3, <1>4, <1>5, <2>4
  <2> QED
    BY <2>1, <2>2, <2>3, <2>4
<1>6. IsInjective(c)
  BY <1>1, <1>5, InjectivePlaces
<1> QED
  BY <1>6 DEF c

\* The elements of two sequences, one after the other.
LEMMA ConcatElements ==
  ASSUME NEW S, NEW s \in Seq(S), NEW t \in Seq(S)
  PROVE  s \o t \in Seq(S) /\ ToSet(s \o t) = ToSet(s) \cup ToSet(t)
<1> DEFINE c == s \o t
<1>1. /\ c \in Seq(S) /\ Len(c) = Len(s) + Len(t)
      /\ \A i \in 1 .. Len(s) + Len(t) : c[i] = IF i <= Len(s) THEN s[i] ELSE t[i - Len(s)]
  BY ConcatProperties
<1> HIDE DEF c
<1>2. \A y : y \in ToSet(c) <=> \E i \in 1 .. Len(c) : c[i] = y
  BY <1>1, ToSetPlaces
<1>3. \A y : y \in ToSet(s) <=> \E i \in 1 .. Len(s) : s[i] = y
  BY ToSetPlaces
<1>4. \A y : y \in ToSet(t) <=> \E i \in 1 .. Len(t) : t[i] = y
  BY ToSetPlaces
<1>5. ASSUME NEW y \in ToSet(c) PROVE y \in ToSet(s) \cup ToSet(t)
  <2>1. PICK i \in 1 .. Len(c) : c[i] = y
    BY <1>2
  <2>2. CASE i <= Len(s)
    BY <1>1, <1>3, <2>1, <2>2
  <2>3. CASE ~(i <= Len(s))
    <3>1. i - Len(s) \in 1 .. Len(t) /\ t[i - Len(s)] = y
      BY <1>1, <2>1, <2>3
    <3> QED
      BY <1>4, <3>1
  <2> QED
    BY <2>2, <2>3
<1>6. ASSUME NEW y \in ToSet(s) PROVE y \in ToSet(c)
  <2>1. PICK i \in 1 .. Len(s) : s[i] = y
    BY <1>3
  <2>2. i \in 1 .. Len(c) /\ c[i] = y
    BY <1>1, <2>1
  <2> QED
    BY <1>2, <2>2
<1>7. ASSUME NEW y \in ToSet(t) PROVE y \in ToSet(c)
  <2>1. PICK i \in 1 .. Len(t) : t[i] = y
    BY <1>4
  <2> DEFINE j == Len(s) + i
  <2>2. j \in 1 .. Len(s) + Len(t) /\ ~(j <= Len(s)) /\ j - Len(s) = i
    OBVIOUS
  <2> HIDE DEF j
  <2>3. j \in 1 .. Len(c) /\ c[j] = y
    BY <1>1, <2>1, <2>2
  <2> QED
    BY <1>2, <2>3
<1>8. c \in Seq(S) /\ ToSet(c) = ToSet(s) \cup ToSet(t)
  BY <1>1, <1>5, <1>6, <1>7
<1> QED
  BY <1>8 DEF c

\* The flattening function of FlattenSeq for the first n members of s.
IsFlatten(f, s, S, n) ==
  /\ f \in [1 .. n -> Seq(S)]
  /\ \A i \in 1 .. n : f[i] = IF i = 1 THEN s[1] ELSE f[i - 1] \o s[i]

\* There is one.
LEMMA FlattenExists ==
  ASSUME NEW S, NEW s \in Seq(Seq(S)), NEW n \in 1 .. Len(s)
  PROVE  \E f : IsFlatten(f, s, S, n)
<1> DEFINE I == {m \in 1 .. Len(s) : ~ \E f : IsFlatten(f, s, S, m)}
<1>0. Len(s) \in Nat /\ \A i \in 1 .. Len(s) : s[i] \in Seq(S)
  OBVIOUS
<1>1. I = {}
  <2> SUFFICES ASSUME I # {} PROVE FALSE
    OBVIOUS
  <2>1. I \in SUBSET Nat
    BY <1>0
  <2>2. PICK m \in I : \A y \in I : m =< y
    BY <2>1, LeastNumber
  <2>3. m \in 1 .. Len(s)
    OBVIOUS
  <2>4. CASE m = 1
    <3> DEFINE f == [i \in 1 .. 1 |-> s[1]]
    <3>1. IsFlatten(f, s, S, 1)
      BY <1>0, <2>3, <2>4 DEF IsFlatten
    <3> QED
      BY <2>2, <2>4, <3>1
  <2>5. CASE m # 1
    <3>0. m - 1 \in 1 .. Len(s) /\ ~(m =< m - 1)
      BY <1>0, <2>3, <2>5
    <3>1. m - 1 \in 1 .. Len(s) /\ m - 1 \notin I
      <4> HIDE DEF I
      <4> QED
        BY <2>2, <3>0
    <3>2. PICK g : IsFlatten(g, s, S, m - 1)
      BY <3>1
    <3> DEFINE last == g[m - 1] \o s[m]
               f == [i \in 1 .. m |-> IF i = m THEN last ELSE g[i]]
    <3>3. m - 1 \in 1 .. m - 1
      BY <2>3, <2>5
    <3>4. g[m - 1] \in Seq(S) /\ s[m] \in Seq(S)
      BY <1>0, <2>3, <3>2, <3>3 DEF IsFlatten
    <3>5. last \in Seq(S)
      BY <3>4
    <3>6. \A i \in 1 .. m : i # m => i \in 1 .. m - 1
      BY <2>3
    <3>7. \A i \in 1 .. m - 1 : i # 1 => i - 1 \in 1 .. m - 1
      BY <2>3
    <3>8. last = g[m - 1] \o s[m]
      OBVIOUS
    <3> HIDE DEF last
    <3>9. f \in [1 .. m -> Seq(S)]
      BY <3>2, <3>5, <3>6 DEF IsFlatten
    <3>10. ASSUME NEW i \in 1 .. m PROVE f[i] = IF i = 1 THEN s[1] ELSE f[i - 1] \o s[i]
      <4>1. CASE i = m
        <5>1. f[i] = last /\ i - 1 \in 1 .. m /\ f[i - 1] = g[m - 1]
          BY <2>3, <2>5, <4>1
        <5> QED
          BY <2>5, <3>8, <4>1, <5>1
      <4>2. CASE i # m
        <5>1. i \in 1 .. m - 1 /\ f[i] = g[i]
          BY <3>6, <4>2
        <5>2. i # 1 => i - 1 \in 1 .. m /\ i - 1 # m /\ f[i - 1] = g[i - 1]
          BY <2>3, <3>7, <5>1
        <5> QED
          BY <3>2, <5>1, <5>2 DEF IsFlatten
      <4> QED
        BY <4>1, <4>2
    <3> HIDE DEF f
    <3>11. IsFlatten(f, s, S, m)
      BY <3>9, <3>10 DEF IsFlatten
    <3> QED
      BY <2>2, <3>11
  <2> QED
    BY <2>4, <2>5
<1> QED
  BY <1>1

\* All agree.
LEMMA FlattenUnique ==
  ASSUME NEW S, NEW s, NEW t, NEW f, NEW g, NEW m \in Nat, NEW n \in Nat,
         IsFlatten(f, s, S, m), IsFlatten(g, t, S, n), m <= n,
         \A i \in 1 .. m : s[i] = t[i]
  PROVE  \A i \in 1 .. m : f[i] = g[i]
<1> DEFINE I == {i \in 1 .. m : f[i] # g[i]}
<1> SUFFICES ASSUME I # {} PROVE FALSE
  OBVIOUS
<1>1. I \in SUBSET Nat
  OBVIOUS
<1>2. PICK i \in I : \A y \in I : i =< y
  BY <1>1, LeastNumber
<1>3. i \in 1 .. m /\ i \in 1 .. n /\ f[i] # g[i]
  OBVIOUS
<1>4. i # 1 => i - 1 \in 1 .. m /\ i - 1 \notin I
  BY <1>1, <1>2, <1>3
<1>5. i # 1 => f[i - 1] = g[i - 1]
  BY <1>4
<1>6. f[i] = IF i = 1 THEN s[1] ELSE f[i - 1] \o s[i]
  BY <1>3 DEF IsFlatten
<1>7. g[i] = IF i = 1 THEN t[1] ELSE g[i - 1] \o t[i]
  BY <1>3 DEF IsFlatten
<1> QED
  BY <1>3, <1>5, <1>6, <1>7

\* What FlattenSeq does: nothing to nothing, else the last value of the function.
LEMMA FlattenValue ==
  ASSUME NEW S, NEW s \in Seq(Seq(S)), s # <<>>
  PROVE  \E f : IsFlatten(f, s, S, Len(s)) /\ FlattenSeq(s) = f[Len(s)]
<1> DEFINE N == Len(s)
           body(f) == [i \in 1 .. N |-> IF i = 1 THEN s[i] ELSE f[i - 1] \o s[i]]
           f == CHOOSE f : f = body(f)
<1>1. N \in Nat \ {0} /\ \A i \in 1 .. N : s[i] \in Seq(S)
  OBVIOUS
<1>2. FlattenSeq(s) = f[N]
  BY <1>1 DEF FlattenSeq
<1>3. PICK g : IsFlatten(g, s, S, N)
  BY <1>1, FlattenExists
<1>4. g = body(g)
  BY <1>1, <1>3 DEF IsFlatten
<1>5. f = body(f)
  <2> HIDE DEF body
  <2> QED
    BY <1>4
<1> HIDE DEF f
<1>6. DOMAIN f = 1 .. N /\ \A i \in 1 .. N : f[i] = IF i = 1 THEN s[1] ELSE f[i - 1] \o s[i]
  <2>1. \A i \in 1 .. N : body(f)[i] = IF i = 1 THEN s[1] ELSE f[i - 1] \o s[i]
    OBVIOUS
  <2>2. DOMAIN body(f) = 1 .. N
    OBVIOUS
  <2> HIDE DEF body
  <2> QED
    BY <1>5, <2>1, <2>2
<1> HIDE DEF body
<1>7. \A i \in 1 .. N : f[i] = g[i]
  <2> DEFINE I == {i \in 1 .. N : f[i] # g[i]}
  <2> SUFFICES ASSUME I # {} PROVE FALSE
    OBVIOUS
  <2>1. I \in SUBSET Nat
    BY <1>1
  <2>2. PICK i \in I : \A y \in I : i =< y
    BY <2>1, LeastNumber
  <2>3. i \in 1 .. N /\ f[i] # g[i]
    OBVIOUS
  <2>4. i # 1 => i - 1 \in 1 .. N /\ ~(i =< i - 1)
    BY <1>1, <2>3
  <2>5. i # 1 => f[i - 1] = g[i - 1]
    BY <2>2, <2>4
  <2> HIDE DEF I
  <2> QED
    BY <1>3, <1>6, <2>3, <2>5 DEF IsFlatten
<1>8. f[N] = g[N]
  BY <1>1, <1>7
<1> QED
  BY <1>2, <1>3, <1>8

\* FlattenSeq, one sequence after the other.
LEMMA FlattenAppend ==
  ASSUME NEW S, NEW s \in Seq(Seq(S)), NEW x \in Seq(S)
  PROVE  /\ FlattenSeq(s) \in Seq(S)
         /\ FlattenSeq(Append(s, x)) = FlattenSeq(s) \o x
<1> DEFINE t == Append(s, x)
           N == Len(s)
<1>1. /\ t \in Seq(Seq(S)) /\ Len(t) = N + 1 /\ N \in Nat /\ t # <<>>
      /\ t[N + 1] = x /\ \A i \in 1 .. N : s[i] = t[i]
  <2> PICK T : T = Seq(S)
    OBVIOUS
  <2>1. s \in Seq(T) /\ x \in T
    OBVIOUS
  <2>2. N \in Nat /\ t \in Seq(T) /\ Len(t) = N + 1
    BY <2>1
  <2>3. t[N + 1] = x /\ \A i \in 1 .. N : s[i] = t[i]
    BY <2>1
  <2>4. t # <<>>
    <3> HIDE DEF t, N
    <3> QED
      BY <2>2
  <2> QED
    BY <2>2, <2>3, <2>4
<1> HIDE DEF t
<1>2. PICK g : IsFlatten(g, t, S, N + 1) /\ FlattenSeq(t) = g[N + 1]
  BY <1>1, FlattenValue
<1>3. CASE s = <<>>
  <2>1. FlattenSeq(s) = <<>> /\ N = 0
    BY <1>3 DEF FlattenSeq
  <2>2. g[1] = x
    BY <1>1, <1>2, <2>1 DEF IsFlatten
  <2>3. <<>> \o x = x /\ <<>> \in Seq(S)
    BY ConcatEmptySeq
  <2> QED
    BY <1>1, <1>2, <2>1, <2>2, <2>3 DEF t
<1>4. CASE s # <<>>
  <2>1. PICK f : IsFlatten(f, s, S, N) /\ FlattenSeq(s) = f[N]
    BY <1>4, FlattenValue
  <2>2. N \in 1 .. N /\ N + 1 \in 1 .. N + 1 /\ N + 1 # 1 /\ (N + 1) - 1 = N /\ N <= N + 1
    BY <1>1, <1>4
  <2>3. \A i \in 1 .. N : f[i] = g[i]
    <3> HIDE DEF N
    <3> QED
      BY <1>1, <1>2, <2>1, <2>2, FlattenUnique, SMTT(60)
  <2>4. g[N + 1] = g[N] \o x
    BY <1>1, <1>2, <2>2 DEF IsFlatten
  <2>5. f[N] \in Seq(S)
    BY <2>1, <2>2 DEF IsFlatten
  <2>6. g[N + 1] = f[N] \o x
    BY <2>2, <2>3, <2>4
  <2> QED
    BY <1>2, <2>1, <2>5, <2>6 DEF t
<1> QED
  BY <1>3, <1>4

\* The beginning of a sequence, by the places.
LEMMA PrefixPlaces ==
  ASSUME NEW S, NEW s \in Seq(S), NEW t \in Seq(S)
  PROVE  IsPrefix(s, t) <=> (Len(s) <= Len(t) /\ \A i \in 1 .. Len(s) : s[i] = t[i])
<1> DEFINE u == SubSeq(t, 1, Len(s))
<1>1. IsPrefix(s, t) <=> Len(s) <= Len(t) /\ SubSeq(s, 1, Len(s)) = u
  BY DEF IsPrefix
<1>2. Len(s) <= Len(t) => /\ SubSeq(s, 1, Len(s)) = s /\ u \in Seq(S) /\ Len(u) = Len(s)
                          /\ \A i \in 1 .. Len(s) : u[i] = t[i]
  OBVIOUS
<1> HIDE DEF u
<1>3. u \in Seq(S) /\ Len(u) = Len(s) => (u = s <=> \A i \in 1 .. Len(s) : u[i] = s[i])
  BY SeqEqual
<1> QED
  BY <1>1, <1>2, <1>3

\* A sequence begins what it is continued to.
LEMMA PrefixConcat ==
  ASSUME NEW S, NEW s \in Seq(S), NEW t \in Seq(S)
  PROVE  IsPrefix(s, s \o t)
<1> DEFINE c == s \o t
<1>1. c \in Seq(S) /\ Len(c) = Len(s) + Len(t) /\ Len(s) \in Nat /\ Len(t) \in Nat
      /\ \A i \in 1 .. Len(s) : c[i] = s[i]
  OBVIOUS
<1> HIDE DEF c
<1>2. IsPrefix(s, c)
  BY <1>1, PrefixPlaces
<1> QED
  BY <1>2 DEF c

\* No sequence, flattened.
LEMMA FlattenNone == FlattenSeq(<<>>) = <<>>
<1> QED
  BY DEF FlattenSeq

\* One sequence, flattened.
LEMMA FlattenOne ==
  ASSUME NEW S, NEW x \in Seq(S)
  PROVE  FlattenSeq(<<x>>) = x
<1>1. FlattenSeq(<<>>) = <<>>
  BY FlattenNone
<1>2. <<>> \in Seq(Seq(S)) /\ Append(<<>>, x) = <<x>>
  OBVIOUS
<1>3. <<>> \o x = x
  BY ConcatEmptySeq
<1> QED
  BY <1>1, <1>2, <1>3, FlattenAppend

\* Appending to what was joined.
LEMMA ConcatAppend ==
  ASSUME NEW S, NEW s \in Seq(S), NEW t \in Seq(S), NEW x \in S
  PROVE  s \o Append(t, x) = Append(s \o t, x)
<1> QED
  OBVIOUS

\* The beginning of a sequence, one element longer.
LEMMA BeginningStep ==
  ASSUME NEW S, NEW s \in Seq(S), NEW n \in 1 .. Len(s)
  PROVE  /\ SubSeq(s, 1, n) = Append(SubSeq(s, 1, n - 1), s[n])
         /\ SubSeq(s, 1, n - 1) \in Seq(S) /\ s[n] \in S
<1> QED
  OBVIOUS

\* Flattening two sequences that are joined.
LEMMA FlattenConcat ==
  ASSUME NEW S, NEW s \in Seq(Seq(S)), NEW t \in Seq(Seq(S))
  PROVE  /\ FlattenSeq(s \o t) = FlattenSeq(s) \o FlattenSeq(t)
         /\ FlattenSeq(s) \in Seq(S) /\ FlattenSeq(t) \in Seq(S)
<1> DEFINE T == Seq(S)
           b(n) == SubSeq(t, 1, n)
           holds(n) == FlattenSeq(s \o b(n)) = FlattenSeq(s) \o FlattenSeq(b(n))
           C == {n \in 0 .. Len(t) : ~holds(n)}
<1>1. FlattenSeq(s) \in Seq(S) /\ FlattenSeq(t) \in Seq(S)
  BY FlattenAppend, EmptySeq
<1>2. Len(t) \in Nat /\ b(Len(t)) = t /\ b(0) = <<>>
  OBVIOUS
<1>3. holds(0)
  <2>1. s \o <<>> = s /\ FlattenSeq(s) \o <<>> = FlattenSeq(s)
    BY <1>1, ConcatEmptySeq
  <2>2. FlattenSeq(<<>>) = <<>>
    BY FlattenNone
  <2> QED
    BY <1>2, <2>1, <2>2
<1>4. ASSUME NEW n \in 1 .. Len(t), holds(n - 1)
      PROVE  holds(n)
  <2> DEFINE u == b(n - 1)
             x == t[n]
  <2>1. b(n) = Append(u, x) /\ u \in Seq(Seq(S)) /\ x \in Seq(S)
    BY BeginningStep
  <2>2. FlattenSeq(s \o u) = FlattenSeq(s) \o FlattenSeq(u)
    BY <1>4
  <2> HIDE DEF u, x, b
  <2>3. s \o Append(u, x) = Append(s \o u, x) /\ s \o u \in Seq(Seq(S))
    <3> PICK Q : Q = Seq(S)
      OBVIOUS
    <3>1. s \in Seq(Q) /\ u \in Seq(Q) /\ x \in Q
      BY <2>1
    <3>2. s \o Append(u, x) = Append(s \o u, x)
      BY <3>1, ConcatAppend
    <3>3. s \o u \in Seq(Q)
      BY <3>1
    <3> QED
      BY <3>2, <3>3
  <2>4. FlattenSeq(Append(s \o u, x)) = FlattenSeq(s \o u) \o x
    BY <2>1, <2>3, FlattenAppend
  <2>5. FlattenSeq(Append(u, x)) = FlattenSeq(u) \o x /\ FlattenSeq(u) \in Seq(S)
    BY <2>1, FlattenAppend
  <2>6. (FlattenSeq(s) \o FlattenSeq(u)) \o x = FlattenSeq(s) \o (FlattenSeq(u) \o x)
    <3>1. \A p, q, r \in Seq(S) : (p \o q) \o r = p \o (q \o r)
      BY ConcatAssociative, SMTT(60)
    <3> QED
      BY <1>1, <2>1, <2>5, <3>1
  <2> QED
    BY <2>1, <2>2, <2>3, <2>4, <2>5, <2>6
<1> HIDE DEF holds, b
<1>5. C = {}
  <2> SUFFICES ASSUME C # {} PROVE FALSE
    OBVIOUS
  <2>1. C \in SUBSET Nat /\ C \subseteq 0 .. Len(t)
    OBVIOUS
  <2> DEFINE n == Min(C)
  <2>2. n \in C /\ \A y \in C : n =< y
    BY <2>1, LeastNumber
  <2> HIDE DEF n
  <2>3. n \in 1 .. Len(t)
    BY <1>2, <1>3, <2>1, <2>2
  <2>4. n - 1 \notin C /\ n - 1 \in 0 .. Len(t)
    BY <1>2, <2>1, <2>2, <2>3
  <2> QED
    BY <1>4, <2>2, <2>3, <2>4
<1>6. holds(Len(t))
  BY <1>2, <1>5
<1> QED
  BY <1>1, <1>2, <1>6 DEF holds

\* Three sequences, joined.
LEMMA ThreeParts ==
  ASSUME NEW S, NEW s \in Seq(S), NEW t \in Seq(S), NEW u \in Seq(S),
         NEW c, c = t \o u, NEW d, d = s \o c
  PROVE  /\ (s \o t) \o u = d /\ s \o t \in Seq(S) /\ Len(s) \in Nat
         /\ \A i \in 1 .. Len(t) : Len(s) + i \in 1 .. Len(d) /\ d[Len(s) + i] = t[i]
<1>1. (s \o t) \o u = d /\ s \o t \in Seq(S)
  BY ConcatAssociative, ConcatProperties
<1>2. c \in Seq(S)
  BY ConcatProperties
<1>3. /\ Len(c) = Len(t) + Len(u) /\ Len(s) \in Nat /\ Len(t) \in Nat /\ Len(u) \in Nat
      /\ \A i \in 1 .. Len(t) : c[i] = t[i]
  OBVIOUS
<1>4. /\ Len(d) = Len(s) + Len(c)
      /\ \A i \in 1 .. Len(s) + Len(c) : d[i] = IF i <= Len(s) THEN s[i] ELSE c[i - Len(s)]
  <2>1. /\ Len(s \o c) = Len(s) + Len(c)
        /\ \A i \in 1 .. Len(s) + Len(c) : (s \o c)[i] = IF i <= Len(s) THEN s[i] ELSE c[i - Len(s)]
    BY <1>2, ConcatProperties
  <2> QED
    BY <2>1
<1>5. ASSUME NEW i \in 1 .. Len(t)
      PROVE  Len(s) + i \in 1 .. Len(d) /\ d[Len(s) + i] = t[i]
  <2>1. /\ Len(s) + i \in 1 .. Len(s) + Len(c) /\ ~(Len(s) + i <= Len(s))
        /\ (Len(s) + i) - Len(s) = i
    BY <1>3
  <2> QED
    BY <1>3, <1>4, <2>1
<1> QED
  BY <1>1, <1>3, <1>5

=============================================================================
