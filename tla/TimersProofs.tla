---------------------------- MODULE TimersProofs ----------------------------
(***************************************************************************)
(* Proofs about Timers: the types, Armed (no timer that is set is          *)
(* forgotten) and OnceInTime (no callback too early, after it was cleared, *)
(* or twice).                                                              *)
(*                                                                         *)
(* The invariant has two parts.  Looked is about the lists: somebody looks *)
(* at each list that holds a timer (Watched), in time for its first timer, *)
(* and at each list that a new timer would join.  Timer is about one timer *)
(* at a time: what its place in a list, its own handle and its callback    *)
(* say of one another.                                                     *)
(***************************************************************************)
EXTENDS Timers, SequenceLemmas, TLAPS

-----------------------------------------------------------------------------
(* The invariant *)

\* Is somebody about to look at the list?
Watched(l) == l = running \/ l \in ToSet(ticks) \/ due[l] # 0

\* A list is in the order of expiry, and holds a timer once.
Sorted(q, start) ==
  \A i, j \in DOMAIN q : i < j => start[q[i]] <= start[q[j]] /\ q[i] # q[j]

Lists ==
  /\ \A l \in Ids : Sorted(items[l], idleStart)
  /\ \A k, l \in Ids : k # l => ToSet(items[k]) \cap ToSet(items[l]) = {}

\* The handle of a list is never armed for later than a timer of the list allows.
Timely ==
  \A l \in Ids :
    /\ items[l] # <<>> => Watched(l)
    /\ due[l] <= now + msecs(l) + drift
    /\ \A t \in ToSet(items[l]) : due[l] <= idleStart[t] + msecs(l) + drift

\* A list that a new timer joins is watched.
Named ==
  \A m \in Delays :
    lists[m] # None => lists[m] \in Ids /\ msecs(lists[m]) = m /\ Watched(lists[m])

\* The times noted are past; what passes in listOnTimeout is drift.
Clock ==
  /\ \A t \in Timers : idleStart[t] <= now
  /\ running # None => started <= now /\ now - started <= drift

Looked == Lists /\ Timely /\ Named /\ Clock

-----------------------------------------------------------------------------

\* A timer that is in a list.
ListedTimer(t) ==
  \A l \in Ids : t \in ToSet(items[l]) =>
    /\ armed[t] = idleStart[t] /\ delay[t] = msecs(l)
    /\ handle[t].due = 0 /\ calling # t
    /\ t \in Timeouts /\ unrefd[t] # "late" => fired[t] = 0

\* Its handle.
HandleOf(t) ==
  /\ ~handle[t].made => handle[t].due = 0 /\ ~handle[t].call /\ unrefd[t] = "no"
  /\ handle[t].due # 0 /\ handle[t].call => handle[t].due >= armed[t] + delay[t]
  /\ handle[t].due # 0 /\ t \in Timeouts /\ unrefd[t] # "late" => fired[t] = 0
  /\ onTimeout[t] /\ ~handle[t].made => idleTimeout[t] = delay[t] /\ armed[t] = idleStart[t]

\* What has not been set, or has been cleared, is not called; only an interval
\* repeats.
Called(t) ==
  /\ delay[t] = 0 => /\ ~onTimeout[t] /\ ~repeat[t] /\ ~handle[t].made /\ calling # t
                     /\ fired[t] = 0
  /\ t \in cleared => delay[t] # 0 /\ ~onTimeout[t] /\ ~handle[t].call
  /\ t \in Timeouts => ~repeat[t]
  /\ calling = t /\ running = None => handle[t].made /\ handle[t].due = 0

Timer == \A t \in Timers : ListedTimer(t) /\ HandleOf(t) /\ Called(t)

IInv == TypeOK /\ Looked /\ Timer

-----------------------------------------------------------------------------
(* Sorted sequences *)

\* A list holds a timer once.
LEMMA SortedInjective ==
  ASSUME NEW q \in Seq(Timers), NEW start, Sorted(q, start)
  PROVE  IsInjective(q)
<1>1. \A i, j \in 1 .. Len(q) : q[i] = q[j] => i = j
  <2> SUFFICES ASSUME NEW i \in 1 .. Len(q), NEW j \in 1 .. Len(q), q[i] = q[j], i # j
               PROVE  FALSE
    OBVIOUS
  <2>1. i < j \/ j < i
    OBVIOUS
  <2> QED
    BY <2>1 DEF Sorted
<1> QED
  BY <1>1, InjectivePlaces

\* L.remove(x)
LEMMA SortedRemove ==
  ASSUME NEW q \in Seq(Timers), NEW start, Sorted(q, start), NEW x
  PROVE  /\ RemoveFirst(q, x) \in Seq(Timers) /\ Sorted(RemoveFirst(q, x), start)
         /\ ToSet(RemoveFirst(q, x)) = ToSet(q) \ {x}
<1> DEFINE r == RemoveFirst(q, x)
<1>1. r \in Seq(Timers) /\ ToSet(r) = ToSet(q) \ {x}
  BY SortedInjective, RemoveFirstElement
<1>2. ASSUME NEW i \in 1 .. Len(r), NEW j \in 1 .. Len(r), i < j
      PROVE  start[r[i]] <= start[r[j]] /\ r[i] # r[j]
  <2>1. PICK m \in 1 .. Len(q), n \in 1 .. Len(q) : m < n /\ r[i] = q[m] /\ r[j] = q[n]
    BY <1>2, RemoveFirstOrder
  <2> QED
    BY <2>1 DEF Sorted
<1>3. DOMAIN r = 1 .. Len(r)
  BY <1>1
<1> HIDE DEF r
<1>4. Sorted(r, start)
  BY <1>2, <1>3 DEF Sorted
<1> QED
  BY <1>1, <1>4 DEF r

\* L.append(list, t)
LEMMA SortedAppend ==
  ASSUME NEW q \in Seq(Timers), NEW start \in [Timers -> Int], Sorted(q, start),
         NEW t \in Timers, t \notin ToSet(q), \A u \in ToSet(q) : start[u] <= start[t]
  PROVE  Sorted(Append(q, t), start)
<1> DEFINE r == Append(q, t)
<1>1. /\ r \in Seq(Timers) /\ Len(r) = Len(q) + 1 /\ r[Len(q) + 1] = t
      /\ \A i \in 1 .. Len(q) : r[i] = q[i]
  OBVIOUS
<1>2. \A i \in 1 .. Len(q) : q[i] \in ToSet(q)
  BY ToSetPlaces
<1>3. Len(q) \in Nat /\ DOMAIN q = 1 .. Len(q) /\ DOMAIN r = 1 .. Len(r)
  BY <1>1
<1> HIDE DEF r
<1>4. ASSUME NEW i \in 1 .. Len(r), NEW j \in 1 .. Len(r), i < j
      PROVE  start[r[i]] <= start[r[j]] /\ r[i] # r[j]
  <2>1. i \in 1 .. Len(q) /\ r[i] = q[i]
    BY <1>1, <1>3, <1>4
  <2>2. CASE j = Len(q) + 1
    BY <1>1, <1>2, <2>1, <2>2
  <2>3. CASE j # Len(q) + 1
    <3>1. j \in 1 .. Len(q) /\ r[j] = q[j]
      BY <1>1, <1>3, <2>3
    <3> QED
      BY <1>3, <1>4, <2>1, <3>1 DEF Sorted
  <2> QED
    BY <2>2, <2>3
<1>5. Sorted(r, start)
  BY <1>3, <1>4 DEF Sorted
<1> QED
  BY <1>5 DEF r

\* A list does not depend on the times of timers that are not in it.
LEMMA SortedSame ==
  ASSUME NEW q \in Seq(Timers), NEW start, NEW start2, Sorted(q, start),
         \A u \in ToSet(q) : start2[u] = start[u]
  PROVE  Sorted(q, start2)
<1>1. \A i \in 1 .. Len(q) : q[i] \in ToSet(q)
  BY ToSetPlaces
<1>2. DOMAIN q = 1 .. Len(q)
  OBVIOUS
<1> QED
  BY <1>1, <1>2 DEF Sorted

\* The first timer of a list expires first.
LEMMA SortedHead ==
  ASSUME NEW q \in Seq(Timers), NEW start \in [Timers -> Int], Sorted(q, start), q # <<>>
  PROVE  /\ Head(q) \in Timers /\ Head(q) \in ToSet(q)
         /\ \A u \in ToSet(q) : start[Head(q)] <= start[u]
<1>1. Head(q) = q[1] /\ 1 \in 1 .. Len(q) /\ DOMAIN q = 1 .. Len(q) /\ q[1] \in Timers
  OBVIOUS
<1>2. \A u \in ToSet(q) : \E i \in 1 .. Len(q) : q[i] = u
  BY ToSetPlaces
<1>3. Head(q) \in ToSet(q)
  BY <1>1, ToSetPlaces
<1>4. ASSUME NEW u \in ToSet(q) PROVE start[q[1]] <= start[u]
  <2>1. PICK i \in 1 .. Len(q) : q[i] = u
    BY <1>2
  <2>2. CASE i = 1
    BY <1>1, <2>1, <2>2
  <2>3. CASE i # 1
    <3>1. 1 < i
      BY <2>3
    <3> QED
      BY <1>1, <2>1, <3>1 DEF Sorted
  <2> QED
    BY <2>2, <2>3
<1> QED
  BY <1>1, <1>3, <1>4

-----------------------------------------------------------------------------
(* Lists *)

\* A timer is in list l and in no other.
Joins(t, l) ==
  /\ items' \in [Ids -> Seq(Timers)]
  /\ \A k \in Ids :
       ToSet(items'[k]) = IF k = l THEN ToSet(items[k]) \cup {t} ELSE ToSet(items[k]) \ {t}

\* A timer is in no list.
Leaves(t) ==
  /\ items' \in [Ids -> Seq(Timers)]
  /\ \A k \in Ids : ToSet(items'[k]) = ToSet(items[k]) \ {t}

\* The variables that a change of the lists leaves alone.
OnlyLists == UNCHANGED <<clock, running, started, ticks>>

\* What the lists are before a step.
LEMMA ListTypes ==
  ASSUME TypeOK
  PROVE  /\ now \in Nat \ {0} /\ drift \in Nat
         /\ items \in [Ids -> Seq(Timers)] /\ due \in [Ids -> Nat]
         /\ lists \in [Delays -> Ids \cup {None}] /\ None \notin Ids
         /\ idleStart \in [Timers -> Int]
         /\ \A m \in Delays : m \in Nat \ {0}
         /\ \A l \in Ids : msecs(l) \in Delays /\ msecs(l) \in Nat
         /\ \A l \in Ids : items[l] \in Seq(Timers) /\ due[l] \in Nat
         /\ \A l \in Ids : \A t \in ToSet(items[l]) : t \in Timers
<1>1. now \in Nat \ {0} /\ drift \in Nat
  BY TimersAssumption DEF TypeOK
<1>2. \A m \in Delays : m \in Nat \ {0}
  BY TimersAssumption
<1>3. \A l \in Ids : msecs(l) \in Delays
  BY DEF Ids, msecs
<1>4. items \in [Ids -> Seq(Timers)] /\ due \in [Ids -> Nat]
  BY DEF TypeOK
<1>5. \A l \in Ids : items[l] \in Seq(Timers) /\ due[l] \in Nat
  BY <1>4
<1>6. \A l \in Ids : \A t \in ToSet(items[l]) : t \in Timers
  BY <1>5, ToSetPlaces
<1>7. idleStart \in [Timers -> Int]
  <2>1. idleStart \in [Timers -> 0 .. MaxTime] /\ 0 .. MaxTime \subseteq Int
    BY TimersAssumption DEF TypeOK
  <2> QED
    BY <2>1
<1> QED
  BY <1>1, <1>2, <1>3, <1>4, <1>5, <1>6, <1>7, TimersAssumption DEF TypeOK

\* What exports.active does to the lists: t is the last of the list of duration m.
LEMMA ActiveChange ==
  ASSUME TypeOK, Looked, NEW t \in Timers, NEW m \in Delays, Active(t, m)
  PROVE  \E l \in Ids :
           /\ msecs(l) = m
           /\ items' = [Removed(t) EXCEPT ![l] = Append(RemoveFirst(items[l], t), t)]
           /\ \/ Watched(l) /\ due' = due /\ lists' = lists
              \/ /\ items[l] = <<>>
                 /\ due' = [due EXCEPT ![l] = now + m] /\ lists' = [lists EXCEPT ![m] = l]
<1> USE ListTypes
<1>1. CASE lists[m] # None
  <2>1. /\ items' = [Removed(t) EXCEPT ![lists[m]] = Append(@, t)]
        /\ due' = due /\ lists' = lists
    BY <1>1 DEF Active
  <2>2. lists[m] \in Ids /\ msecs(lists[m]) = m /\ Watched(lists[m])
    BY <1>1 DEF Looked, Named
  <2>3. Removed(t)[lists[m]] = RemoveFirst(items[lists[m]], t) /\ lists[m] \in DOMAIN Removed(t)
    BY <2>2 DEF Removed
  <2> QED
    BY <2>1, <2>2, <2>3
<1>2. CASE lists[m] = None
  <2>1. Insert(t, m)
    BY <1>2 DEF Active
  <2>2. PICK n \in 1 .. MaxLists :
          /\ Unused(<<m, n>>)
          /\ items' = [Removed(t) EXCEPT ![<<m, n>>] = <<t>>]
          /\ due' = [due EXCEPT ![<<m, n>>] = now + m]
          /\ lists' = [lists EXCEPT ![m] = <<m, n>>]
    BY <2>1 DEF Insert
  <2>3. <<m, n>> \in Ids /\ msecs(<<m, n>>) = m
    BY DEF Ids, msecs
  <2>4. items[<<m, n>>] = <<>>
    BY <2>2 DEF Unused
  <2>5. t \notin ToSet(<<>>) /\ <<>> \in Seq(Timers)
    BY EmptySequence
  <2>6. RemoveFirst(<<>>, t) = <<>>
    BY <2>5, RemoveFirstElement
  <2>7. Append(<<>>, t) = <<t>>
    OBVIOUS
  <2> QED
    BY <2>2, <2>3, <2>4, <2>6, <2>7
<1> QED
  BY <1>1, <1>2

\* exports.active keeps the lists looked at and sorted.
LEMMA ActiveKeeps ==
  ASSUME TypeOK, Looked, NEW t \in Timers, NEW m \in Delays, Active(t, m), OnlyLists
  PROVE  /\ Looked'
         /\ due' \in [Ids -> Nat] /\ lists' \in [Delays -> Ids \cup {None}]
         /\ \E l \in Ids : msecs(l) = m /\ Joins(t, l)
<1> USE ListTypes
<1>1. PICK l \in Ids :
           /\ msecs(l) = m
           /\ items' = [Removed(t) EXCEPT ![l] = Append(RemoveFirst(items[l], t), t)]
           /\ \/ Watched(l) /\ due' = due /\ lists' = lists
              \/ /\ items[l] = <<>>
                 /\ due' = [due EXCEPT ![l] = now + m] /\ lists' = [lists EXCEPT ![m] = l]
  BY ActiveChange
<1>2. /\ idleStart' = [idleStart EXCEPT ![t] = now]
      /\ now' = now /\ drift' = drift /\ running' = running /\ started' = started /\ ticks' = ticks
  BY DEF Active, OnlyLists, clock
<1>3. \A k \in Ids : Sorted(items[k], idleStart)
  BY DEF Looked, Lists
<1>4. \A k \in Ids : /\ RemoveFirst(items[k], t) \in Seq(Timers)
                     /\ Sorted(RemoveFirst(items[k], t), idleStart)
                     /\ ToSet(RemoveFirst(items[k], t)) = ToSet(items[k]) \ {t}
  BY <1>3, SortedRemove
<1>5. idleStart' \in [Timers -> Int] /\ idleStart'[t] = now
      /\ \A u \in Timers : idleStart[u] <= now /\ (u # t => idleStart'[u] = idleStart[u])
  BY <1>2 DEF Looked, Clock
<1>6. \A k \in Ids : k # l => items'[k] = RemoveFirst(items[k], t)
  BY <1>1 DEF Removed
<1>7. items'[l] = Append(RemoveFirst(items[l], t), t)
  BY <1>1 DEF Removed
<1>8. /\ items'[l] \in Seq(Timers) /\ ToSet(items'[l]) = ToSet(items[l]) \cup {t}
  BY <1>4, <1>7, AppendElement
<1>9. \A k \in Ids : items'[k] \in Seq(Timers)
  BY <1>4, <1>6, <1>8
<1>10. Joins(t, l)
  <2>1. items' = [k \in Ids |-> items'[k]]
    BY <1>1 DEF Removed
  <2>2. items' \in [Ids -> Seq(Timers)]
    BY <1>9, <2>1
  <2> QED
    BY <1>4, <1>6, <1>8, <2>2 DEF Joins
<1>11. /\ due' \in [Ids -> Nat] /\ lists' \in [Delays -> Ids \cup {None}]
       /\ \A k \in Ids : k # l => due'[k] = due[k]
       /\ (due'[l] = due[l] /\ Watched(l)) \/ (due'[l] = now + m /\ items[l] = <<>>)
       /\ \A n \in Delays : lists'[n] = lists[n] \/ (n = m /\ lists'[n] = l)
  <2>1. CASE Watched(l) /\ due' = due /\ lists' = lists
    BY <2>1
  <2>2. CASE items[l] = <<>> /\ due' = [due EXCEPT ![l] = now + m] /\ lists' = [lists EXCEPT ![m] = l]
    <3>1. now + m \in Nat
      OBVIOUS
    <3>2. /\ due' \in [Ids -> Nat] /\ due'[l] = now + m
          /\ \A k \in Ids : k # l => due'[k] = due[k]
      BY <2>2, <3>1
    <3>3. /\ lists' \in [Delays -> Ids \cup {None}]
          /\ \A n \in Delays : lists'[n] = lists[n] \/ (n = m /\ lists'[n] = l)
      BY <2>2
    <3> QED
      BY <2>2, <3>2, <3>3
  <2> QED
    BY <1>1, <2>1, <2>2
<1>12. Lists'
  <2>1. \A k \in Ids : Sorted(RemoveFirst(items[k], t), idleStart')
    <3> TAKE k \in Ids
    <3>1. \A u \in ToSet(RemoveFirst(items[k], t)) : u \in Timers /\ u # t
      BY <1>4
    <3>2. \A u \in ToSet(RemoveFirst(items[k], t)) : idleStart'[u] = idleStart[u]
      BY <1>5, <3>1
    <3> QED
      BY <1>4, <3>2, SortedSame
  <2>2. Sorted(items'[l], idleStart')
    <3>1. t \notin ToSet(RemoveFirst(items[l], t))
      BY <1>4
    <3>2. \A u \in ToSet(RemoveFirst(items[l], t)) : idleStart'[u] <= idleStart'[t]
      BY <1>4, <1>5
    <3> DEFINE q == RemoveFirst(items[l], t)
               s == idleStart'
    <3>3. q \in Seq(Timers) /\ Sorted(q, s) /\ t \notin ToSet(q) /\ s \in [Timers -> Int]
          /\ \A u \in ToSet(q) : s[u] <= s[t]
      BY <1>4, <1>5, <2>1, <3>1, <3>2
    <3> HIDE DEF q, s
    <3>4. Sorted(Append(q, t), s)
      BY <3>3, SortedAppend
    <3> QED
      BY <1>7, <3>4 DEF q, s
  <2>3. \A k \in Ids : Sorted(items'[k], idleStart')
    BY <1>6, <2>1, <2>2
  <2>4. \A j, k \in Ids : j # k => ToSet(items'[j]) \cap ToSet(items'[k]) = {}
    BY <1>10 DEF Joins, Looked, Lists
  <2> QED
    BY <2>3, <2>4 DEF Lists, Sorted
<1>13. Watched(l)'
  BY <1>2, <1>11 DEF Watched
<1>14. \A k \in Ids : Watched(k) => Watched(k)'
  BY <1>2, <1>11, <1>13 DEF Watched
<1>15. Timely'
  <2> SUFFICES ASSUME NEW k \in Ids
               PROVE  /\ items'[k] # <<>> => Watched(k)'
                      /\ due'[k] <= now + msecs(k) + drift
                      /\ \A u \in ToSet(items'[k]) : due'[k] <= idleStart'[u] + msecs(k) + drift
    BY <1>2 DEF Timely
  <2>1. CASE k = l
    <3>1. due'[k] <= now + msecs(k) + drift
      BY <1>1, <1>11, <2>1 DEF Looked, Timely
    <3>2. ASSUME NEW u \in ToSet(items'[k]) PROVE due'[k] <= idleStart'[u] + msecs(k) + drift
      <4>1. CASE u = t
        BY <1>5, <3>1, <4>1
      <4>2. CASE u # t
        <5>1. u \in ToSet(items[l]) /\ idleStart'[u] = idleStart[u]
          BY <1>5, <1>8, <2>1, <3>2, <4>2
        <5>2. due[l] <= idleStart[u] + msecs(l) + drift /\ items[l] # <<>>
          BY <5>1, EmptySequence DEF Looked, Timely
        <5>3. due'[l] = due[l]
          BY <1>11, <5>2
        <5> QED
          BY <2>1, <5>1, <5>2, <5>3
      <4> QED
        BY <4>1, <4>2
    <3> QED
      BY <1>13, <2>1, <3>1, <3>2
  <2>2. CASE k # l
    <3>1. ToSet(items'[k]) = ToSet(items[k]) \ {t} /\ due'[k] = due[k]
      BY <1>4, <1>6, <1>11, <2>2
    <3>2. items'[k] # <<>> => items[k] # <<>>
      <4>1. items[k] = <<>> => RemoveFirst(items[k], t) = <<>>
        BY EmptySequence, RemoveFirstElement
      <4> QED
        BY <1>6, <2>2, <4>1
    <3>3. \A u \in ToSet(items'[k]) : u \in ToSet(items[k]) /\ idleStart'[u] = idleStart[u]
      BY <1>5, <3>1
    <3>4. items'[k] # <<>> => Watched(k)'
      BY <1>14, <3>2 DEF Looked, Timely
    <3> QED
      BY <3>1, <3>3, <3>4 DEF Looked, Timely
  <2> QED
    BY <2>1, <2>2
<1>16. Named'
  BY <1>1, <1>11, <1>13, <1>14 DEF Looked, Named
<1>17. Clock'
  BY <1>2, <1>5 DEF Looked, Clock
<1> QED
  BY <1>1, <1>10, <1>11, <1>12, <1>15, <1>16, <1>17 DEF Looked

\* L.remove(t), after which an empty list may be closed and forgotten.
LEMMA RemovedKeeps ==
  ASSUME TypeOK, Looked, NEW t \in Timers, items' = Removed(t), OnlyLists, idleStart' = idleStart,
         \/ due' = due /\ lists' = lists
         \/ \E l \in Ids : /\ lists[msecs(l)] = l /\ RemoveFirst(items[l], t) = <<>>
                           /\ due' = [due EXCEPT ![l] = 0]
                           /\ lists' = [lists EXCEPT ![msecs(l)] = None]
  PROVE  /\ Looked' /\ Leaves(t)
         /\ due' \in [Ids -> Nat] /\ lists' \in [Delays -> Ids \cup {None}]
<1> USE ListTypes
<1>1. now' = now /\ drift' = drift /\ running' = running /\ started' = started /\ ticks' = ticks
  BY DEF OnlyLists, clock
<1>2. \A k \in Ids : /\ items'[k] \in Seq(Timers)
                     /\ Sorted(items'[k], idleStart)
                     /\ ToSet(items'[k]) = ToSet(items[k]) \ {t}
  BY SortedRemove DEF Removed, Looked, Lists
<1>3. Leaves(t)
  <2>1. items' = [k \in Ids |-> items'[k]]
    BY DEF Removed
  <2>2. items' \in [Ids -> Seq(Timers)]
    BY <1>2, <2>1
  <2> QED
    BY <1>2, <2>2 DEF Leaves
<1>4. /\ due' \in [Ids -> Nat] /\ lists' \in [Delays -> Ids \cup {None}]
      /\ \A k \in Ids : due'[k] = due[k] \/ (due'[k] = 0 /\ items'[k] = <<>> /\ lists[msecs(k)] = k)
      /\ \A m \in Delays : lists'[m] # None => lists'[m] = lists[m] /\ due'[lists[m]] = due[lists[m]]
  <2>1. CASE due' = due /\ lists' = lists
    BY <2>1
  <2>2. ASSUME NEW l \in Ids, lists[msecs(l)] = l, RemoveFirst(items[l], t) = <<>>,
               due' = [due EXCEPT ![l] = 0], lists' = [lists EXCEPT ![msecs(l)] = None]
        PROVE  <1>4!:
    <3>1. due' \in [Ids -> Nat] /\ due'[l] = 0 /\ \A k \in Ids : k # l => due'[k] = due[k]
      BY <2>2
    <3>2. lists' \in [Delays -> Ids \cup {None}] /\ lists'[msecs(l)] = None
          /\ \A m \in Delays : m # msecs(l) => lists'[m] = lists[m]
      BY <2>2
    <3>3. items'[l] = <<>>
      BY <2>2 DEF Removed
    <3>4. ASSUME NEW m \in Delays, lists'[m] # None
          PROVE  lists'[m] = lists[m] /\ due'[lists[m]] = due[lists[m]]
      <4>1. m # msecs(l) /\ lists'[m] = lists[m]
        BY <3>2, <3>4
      <4>2. lists[m] \in Ids /\ msecs(lists[m]) = m
        BY <3>4, <4>1 DEF Looked, Named
      <4> QED
        BY <3>1, <4>1, <4>2
    <3> QED
      BY <2>2, <3>1, <3>2, <3>3, <3>4
  <2> QED
    BY <2>1, <2>2
<1>5. Lists'
  <2>1. \A j, k \in Ids : j # k => ToSet(items'[j]) \cap ToSet(items'[k]) = {}
    BY <1>2 DEF Looked, Lists
  <2>2. \A k \in Ids : Sorted(items'[k], idleStart')
    BY <1>2
  <2> QED
    BY <2>1, <2>2 DEF Lists, Sorted
<1>6. Timely'
  <2> SUFFICES ASSUME NEW k \in Ids
               PROVE  /\ items'[k] # <<>> => Watched(k)'
                      /\ due'[k] <= now + msecs(k) + drift
                      /\ \A u \in ToSet(items'[k]) : due'[k] <= idleStart[u] + msecs(k) + drift
    BY <1>1 DEF Timely
  <2>1. items'[k] # <<>> => items[k] # <<>> /\ due'[k] = due[k]
    <3>1. items[k] = <<>> => RemoveFirst(items[k], t) = <<>>
      BY EmptySequence, RemoveFirstElement
    <3> QED
      BY <1>4, <3>1 DEF Removed
  <2>2. items'[k] # <<>> => Watched(k)'
    BY <1>1, <2>1 DEF Looked, Timely, Watched
  <2>3. due'[k] <= due[k] /\ due'[k] \in Nat
    BY <1>4
  <2>4. due'[k] <= now + msecs(k) + drift
    BY <2>3 DEF Looked, Timely
  <2>5. ASSUME NEW u \in ToSet(items'[k]) PROVE due'[k] <= idleStart[u] + msecs(k) + drift
    <3>1. u \in ToSet(items[k]) /\ u \in Timers
      BY <1>2
    <3> QED
      BY <2>3, <3>1 DEF Looked, Timely
  <2> QED
    BY <2>2, <2>4, <2>5
<1>7. Named'
  <2> SUFFICES ASSUME NEW m \in Delays, lists'[m] # None
               PROVE  (lists[m] \in Ids /\ msecs(lists[m]) = m /\ Watched(lists[m]))'
    BY DEF Named
  <2>1. lists'[m] = lists[m] /\ due'[lists[m]] = due[lists[m]]
    BY <1>4
  <2>2. lists[m] \in Ids /\ msecs(lists[m]) = m /\ Watched(lists[m])
    BY <2>1 DEF Looked, Named
  <2> QED
    BY <1>1, <2>1, <2>2 DEF Watched
<1>8. Clock'
  BY <1>1 DEF Looked, Clock
<1> QED
  BY <1>3, <1>4, <1>5, <1>6, <1>7, <1>8 DEF Looked

\* unenroll()
LEMMA UnenrollKeeps ==
  ASSUME TypeOK, Looked, NEW t \in Timers, Unenroll(t), OnlyLists, idleStart' = idleStart
  PROVE  /\ Looked' /\ Leaves(t)
         /\ due' \in [Ids -> Nat] /\ lists' \in [Delays -> Ids \cup {None}]
<1> DEFINE m == idleTimeout[t]
           l == IF m \in Delays THEN lists[m] ELSE None
<1>1. items' = Removed(t)
  BY DEF Unenroll
<1>2. CASE due' = due /\ lists' = lists
  BY <1>1, <1>2, RemovedKeeps
<1>3. CASE l # None /\ Emptied(l, t) /\ due' = [due EXCEPT ![l] = 0] /\ lists' = [lists EXCEPT ![m] = None]
  <2>1. m \in Delays /\ l = lists[m] /\ lists[m] # None
    BY <1>3
  <2>2. l \in Ids /\ msecs(l) = m
    BY <2>1 DEF Looked, Named
  <2>3. RemoveFirst(items[l], t) = <<>>
    BY <1>3 DEF Emptied
  <2> QED
    BY <1>1, <1>3, <2>1, <2>2, <2>3, RemovedKeeps
<1> QED
  BY <1>2, <1>3 DEF Unenroll

-----------------------------------------------------------------------------
(* The steps that take no timer out of its list *)

\* Lists that do not change stay sorted.
LEMMA SameLists ==
  ASSUME Lists, items' = items, idleStart' = idleStart
  PROVE  Lists'
BY DEF Lists, Sorted

\* Nothing about the lists changes.
LEMMA QuietKeeps ==
  ASSUME Looked, UNCHANGED <<clock, lists, object, running, started, ticks, idleStart>>
  PROVE  Looked'
<1>1. /\ now' = now /\ drift' = drift /\ lists' = lists /\ items' = items /\ due' = due
      /\ running' = running /\ started' = started /\ ticks' = ticks /\ idleStart' = idleStart
  BY DEF clock, object
<1>2. Lists'
  BY <1>1, SameLists DEF Looked
<1>3. Timely' /\ Named' /\ Clock'
  BY <1>1 DEF Looked, Timely, Named, Clock, Watched
<1> QED
  BY <1>2, <1>3 DEF Looked

\* Time passes; inside listOnTimeout it is drift.
LEMMA TimeKeeps ==
  ASSUME TypeOK, Looked, Advance \/ Drift
  PROVE  Looked'
<1> USE ListTypes
<1>1. /\ now' = now + 1 /\ lists' = lists /\ items' = items /\ due' = due
      /\ running' = running /\ started' = started /\ ticks' = ticks /\ idleStart' = idleStart
      /\ (drift' = drift /\ running = None) \/ drift' = drift + 1
  BY DEF Advance, Drift, object, loop, timer, Idle
<1>2. Lists'
  BY <1>1, SameLists DEF Looked
<1>3. Timely'
  <2> SUFFICES ASSUME NEW k \in Ids
               PROVE  (/\ items[k] # <<>> => Watched(k)
                       /\ due[k] <= now + msecs(k) + drift
                       /\ \A u \in ToSet(items[k]) : due[k] <= idleStart[u] + msecs(k) + drift)'
    BY DEF Timely
  <2>1. (items[k] # <<>> => Watched(k))'
    BY <1>1 DEF Looked, Timely, Watched
  <2>2. due[k] <= now' + msecs(k) + drift'
    BY <1>1 DEF Looked, Timely
  <2>3. \A u \in ToSet(items[k]) : due[k] <= idleStart[u] + msecs(k) + drift'
    BY <1>1 DEF Looked, Timely
  <2> QED
    BY <1>1, <2>1, <2>2, <2>3
<1>4. Named'
  BY <1>1 DEF Looked, Named, Watched
<1>5. Clock'
  <2>1. \A t \in Timers : idleStart[t] <= now'
    BY <1>1 DEF Looked, Clock
  <2>2. started \in Int
    BY TimersAssumption DEF TypeOK
  <2>3. running # None => started <= now' /\ now' - started <= drift'
    BY <1>1, <2>2 DEF Looked, Clock
  <2> QED
    BY <1>1, <2>1, <2>3 DEF Clock
<1> QED
  BY <1>2, <1>3, <1>4, <1>5 DEF Looked

\* Whoever looked at a list still does, or the list is empty and forgotten, and
\* no handle is armed for later.
LEMMA LookKeeps ==
  ASSUME TypeOK, Looked, UNCHANGED <<clock, items, idleStart>>,
         \A k \in Ids : \/ Watched(k)' \/ ~Watched(k)
                        \/ items[k] = <<>> /\ \A m \in Delays : (lists[m] # k)',
         \A k \in Ids : \/ due'[k] = due[k] \/ due'[k] = 0
                        \/ /\ due'[k] <= now + msecs(k) + drift
                           /\ \A u \in ToSet(items[k]) : due'[k] <= idleStart[u] + msecs(k) + drift,
         \A m \in Delays : lists'[m] = lists[m] \/ lists'[m] = None,
         running' # None => started' <= now /\ now - started' <= drift
  PROVE  Looked'
<1> USE ListTypes
<1>1. now' = now /\ drift' = drift /\ items' = items /\ idleStart' = idleStart
  BY DEF clock
<1>2. Lists'
  BY <1>1, SameLists DEF Looked
<1>3. Timely'
  <2> SUFFICES ASSUME NEW k \in Ids
               PROVE  (/\ items[k] # <<>> => Watched(k)
                       /\ due[k] <= now + msecs(k) + drift
                       /\ \A u \in ToSet(items[k]) : due[k] <= idleStart[u] + msecs(k) + drift)'
    BY DEF Timely
  <2>1. (items[k] # <<>> => Watched(k))'
    BY <1>1 DEF Looked, Timely
  <2>2. /\ due[k] <= now + msecs(k) + drift
        /\ \A u \in ToSet(items[k]) : due[k] <= idleStart[u] + msecs(k) + drift
    BY DEF Looked, Timely
  <2>3. /\ 0 <= now + msecs(k) + drift
        /\ \A u \in ToSet(items[k]) : 0 <= idleStart[u] + msecs(k) + drift
    <3>1. \A u \in Timers : idleStart[u] >= 0
      BY TimersAssumption DEF TypeOK
    <3> QED
      BY <3>1
  <2>4. /\ due'[k] <= now + msecs(k) + drift
        /\ \A u \in ToSet(items[k]) : due'[k] <= idleStart[u] + msecs(k) + drift
    BY <2>2, <2>3
  <2> QED
    BY <1>1, <2>1, <2>4
<1>4. Named'
  <2> SUFFICES ASSUME NEW m \in Delays, lists'[m] # None
               PROVE  (lists[m] \in Ids /\ msecs(lists[m]) = m /\ Watched(lists[m]))'
    BY DEF Named
  <2>1. lists'[m] = lists[m]
    OBVIOUS
  <2>2. lists[m] \in Ids /\ msecs(lists[m]) = m /\ Watched(lists[m])
    BY <2>1 DEF Looked, Named
  <2> DEFINE k == lists[m]
  <2>3. k \in Ids /\ Watched(k) /\ (lists[m])' = k
    BY <2>1, <2>2
  <2>4. Watched(k)'
    BY <2>1, <2>3 DEF Watched
  <2> QED
    BY <2>1, <2>2, <2>4 DEF Watched
<1>5. Clock'
  BY <1>1 DEF Looked, Clock
<1> QED
  BY <1>2, <1>3, <1>4, <1>5 DEF Looked

\* The handle of a list fires and listOnTimeout begins.
LEMMA ListFiresKeeps ==
  ASSUME TypeOK, Looked, NEW l \in Ids, ListFires(l)
  PROVE  Looked' /\ due' \in [Ids -> Nat]
<1> USE ListTypes
<1>1. /\ running = None /\ running' = l /\ started' = now
      /\ due' = [due EXCEPT ![l] = 0]
      /\ UNCHANGED <<clock, items, idleStart>> /\ lists' = lists /\ ticks' = ticks
  BY DEF ListFires, Idle, timer
<1>2. due' \in [Ids -> Nat] /\ \A k \in Ids : due'[k] = due[k] \/ (k = l /\ due'[k] = 0)
  BY <1>1
<1>3. \A k \in Ids : Watched(k) => Watched(k)'
  BY <1>1, <1>2 DEF Watched
<1>4. started' <= now /\ now - started' <= drift
  BY <1>1
<1>5. Looked'
  BY <1>1, <1>2, <1>3, <1>4, LookKeeps
<1> QED
  BY <1>2, <1>5

\* listOnTimeout is resumed by process.nextTick.
LEMMA RunTickKeeps ==
  ASSUME TypeOK, Looked, RunTick
  PROVE  Looked' /\ ticks' \in Seq(Ids) /\ running' \in Ids
<1> USE ListTypes
<1>1. /\ running = None /\ running' = Head(ticks) /\ started' = now /\ ticks' = Tail(ticks)
      /\ UNCHANGED <<clock, items, idleStart>> /\ lists' = lists /\ due' = due /\ ticks # <<>>
  BY DEF RunTick, Idle, object, timer
<1>2. ticks \in Seq(Ids)
  BY DEF TypeOK
<1>3. /\ Tail(ticks) \in Seq(Ids) /\ Head(ticks) \in Ids
      /\ ToSet(ticks) = {Head(ticks)} \cup ToSet(Tail(ticks))
  BY <1>1, <1>2, TailElements
<1>4. \A k \in Ids : Watched(k) => Watched(k)'
  BY <1>1, <1>3 DEF Watched
<1>5. started' <= now /\ now - started' <= drift
  BY <1>1
<1>6. Looked'
  BY <1>1, <1>4, <1>5, LookKeeps
<1> QED
  BY <1>1, <1>3, <1>6

\* The list is armed for its first timer.
LEMMA LoopWaitKeeps ==
  ASSUME TypeOK, Looked, LoopWait
  PROVE  Looked' /\ due' \in [Ids -> Nat]
<1> USE ListTypes
<1>1. /\ running # None /\ running \in Ids /\ items[running] # <<>>
      /\ due' = [due EXCEPT ![running] = now + Wait] /\ running' = None
      /\ UNCHANGED <<clock, items, idleStart>> /\ lists' = lists /\ ticks' = ticks
      /\ ~(Elapsed >= msecs(running))
  BY DEF LoopWait, InLoop, timer, Expired, TypeOK
<1>2. /\ First \in Timers /\ First \in ToSet(items[running])
      /\ \A u \in ToSet(items[running]) : idleStart[First] <= idleStart[u]
  BY <1>1, SortedHead DEF First, Looked, Lists
<1>3. idleStart[First] \in Nat /\ started \in Nat /\ msecs(running) \in Nat
  <2>1. idleStart[First] \in 0 .. MaxTime /\ started \in 0 .. MaxTime
    BY <1>2 DEF TypeOK
  <2> QED
    BY <1>1, <2>1, TimersAssumption
<1>4. Elapsed = started - idleStart[First] /\ Wait = msecs(running) - Elapsed
  BY DEF Elapsed, Wait
<1>5. now + Wait \in Nat \ {0} /\ now + Wait <= idleStart[First] + msecs(running) + drift
  <2> DEFINE f == idleStart[First]
             m == msecs(running)
             w == Wait
  <2>1. /\ f \in Nat /\ m \in Nat /\ started \in Nat /\ now \in Nat \ {0} /\ drift \in Nat
        /\ w = m - (started - f) /\ ~(started - f >= m)
        /\ now - started <= drift
    BY <1>1, <1>3, <1>4 DEF Looked, Clock
  <2> HIDE DEF f, m, w
  <2>2. now + w \in Nat \ {0} /\ now + w <= f + m + drift
    BY <2>1
  <2> QED
    BY <2>2 DEF f, m, w
<1>6. idleStart[First] <= now
  BY <1>2 DEF Looked, Clock
<1>7. due' \in [Ids -> Nat] /\ \A k \in Ids : due'[k] = due[k] \/ (k = running /\ due'[k] = now + Wait)
  BY <1>1, <1>5
<1>8. \A k \in Ids : Watched(k) => Watched(k)'
  <2>1. due'[running] # 0
    BY <1>1, <1>5
  <2> QED
    BY <1>1, <1>5, <1>7, <2>1 DEF Watched
<1>9. /\ now + Wait <= now + msecs(running) + drift
      /\ \A u \in ToSet(items[running]) : now + Wait <= idleStart[u] + msecs(running) + drift
  <2>1. now + Wait <= now + msecs(running) + drift
    BY <1>3, <1>5, <1>6
  <2>2. ASSUME NEW u \in ToSet(items[running])
        PROVE  now + Wait <= idleStart[u] + msecs(running) + drift
    <3>1. idleStart[u] \in Int /\ idleStart[First] <= idleStart[u]
      BY <1>1, <1>2
    <3> QED
      BY <1>3, <1>5, <3>1
  <2> QED
    BY <2>1, <2>2
<1>10. Looked'
  BY <1>1, <1>7, <1>8, <1>9, LookKeeps
<1> QED
  BY <1>7, <1>10

\* An empty list is closed, and the list of its duration forgotten.
LEMMA LoopEndKeeps ==
  ASSUME TypeOK, Looked, LoopEnd
  PROVE  /\ Looked'
         /\ due' \in [Ids -> Nat] /\ lists' \in [Delays -> Ids \cup {None}]
<1> USE ListTypes
<1>1. /\ running # None /\ running \in Ids /\ items[running] = <<>>
      /\ due' = [due EXCEPT ![running] = 0] /\ running' = None
      /\ lists' = [lists EXCEPT ![msecs(running)] = None]
      /\ UNCHANGED <<clock, items, idleStart>> /\ ticks' = ticks
  BY DEF LoopEnd, InLoop, timer, TypeOK
<1>2. due' \in [Ids -> Nat] /\ \A k \in Ids : due'[k] = due[k] \/ (k = running /\ due'[k] = 0)
  BY <1>1
<1>3. /\ lists' \in [Delays -> Ids \cup {None}] /\ lists'[msecs(running)] = None
      /\ \A m \in Delays : lists'[m] = lists[m] \/ lists'[m] = None
  BY <1>1
<1>4. \A m \in Delays : lists'[m] # running
  <2> SUFFICES ASSUME NEW m \in Delays, lists'[m] = running PROVE FALSE
    OBVIOUS
  <2>1. lists'[m] # None /\ lists'[m] = lists[m]
    BY <1>1, <1>3
  <2>2. msecs(running) = m
    BY <2>1 DEF Looked, Named
  <2> QED
    BY <1>1, <1>3, <2>2
<1>6. \A k \in Ids : \/ Watched(k)' \/ ~Watched(k)
                     \/ items[k] = <<>> /\ \A m \in Delays : (lists[m] # k)'
  <2> TAKE k \in Ids
  <2>1. CASE k = running
    BY <1>1, <1>4, <2>1
  <2>2. CASE k # running
    BY <1>1, <1>2, <2>2 DEF Watched
  <2> QED
    BY <2>1, <2>2
<1>7. Looked'
  BY <1>1, <1>2, <1>3, <1>6, LookKeeps
<1> QED
  BY <1>2, <1>3, <1>7

\* A callback throws: the rest of the list waits for a tick.
LEMMA ThrowKeeps ==
  ASSUME TypeOK, Looked, Throw
  PROVE  Looked' /\ ticks' \in Seq(Ids)
<1> USE ListTypes
<1>1. /\ running' = None /\ ticks' = (IF running # None THEN Append(ticks, running) ELSE ticks)
      /\ UNCHANGED <<clock, items, idleStart>> /\ lists' = lists /\ due' = due
  BY DEF Throw, Resume, object, timer
<1>2. ticks \in Seq(Ids) /\ running \in Ids \cup {None}
  BY DEF TypeOK
<1>3. /\ ticks' \in Seq(Ids) /\ ToSet(ticks) \subseteq ToSet(ticks')
      /\ running # None => running \in ToSet(ticks')
  BY <1>1, <1>2, AppendElement
<1>4. \A k \in Ids : Watched(k) => Watched(k)'
  BY <1>1, <1>3 DEF Watched
<1>5. Looked'
  BY <1>1, <1>4, LookKeeps
<1> QED
  BY <1>3, <1>5

-----------------------------------------------------------------------------
(* Timers *)

\* A timer that a step does not touch, but for taking it out of its list.
Untouched(u) ==
  /\ \A l \in Ids : u \in ToSet(items'[l]) => u \in ToSet(items[l])
  /\ delay'[u] = delay[u] /\ idleTimeout'[u] = idleTimeout[u] /\ idleStart'[u] = idleStart[u]
  /\ onTimeout'[u] = onTimeout[u] /\ repeat'[u] = repeat[u] /\ handle'[u] = handle[u]
  /\ armed'[u] = armed[u] /\ fired'[u] = fired[u] /\ unrefd'[u] = unrefd[u]
  /\ u \in cleared' <=> u \in cleared
  /\ calling' = u => calling = u /\ running' = running

\* What is said of it still holds.
LEMMA UntouchedKeeps ==
  ASSUME NEW u \in Timers, ListedTimer(u), HandleOf(u), Called(u), Untouched(u)
  PROVE  (ListedTimer(u) /\ HandleOf(u) /\ Called(u))'
<1>1. ListedTimer(u)'
  BY DEF Untouched, ListedTimer
<1>2. HandleOf(u)'
  BY DEF Untouched, HandleOf
<1>3. Called(u)'
  BY DEF Untouched, Called
<1> QED
  BY <1>1, <1>2, <1>3

\* Where a list looks for its timers, and how long a callback lasts.
LoopType ==
  /\ now \in 1 .. MaxTime /\ drift \in 0 .. MaxDrift
  /\ lists \in [Delays -> Ids \cup {None}]
  /\ items \in [Ids -> Seq(Timers)] /\ due \in [Ids -> Nat]
  /\ running \in Ids \cup {None} /\ started \in 0 .. MaxTime
  /\ calling \in Timers \cup {None}
  /\ ticks \in Seq(Ids) /\ throws \in 0 .. MaxThrows

\* The fields of the timers, and what has become of them.
TimerType ==
  /\ delay \in [Timers -> Delays \cup {0}]
  /\ idleTimeout \in [Timers -> Delays \cup {0, -1}] /\ idleStart \in [Timers -> 0 .. MaxTime]
  /\ onTimeout \in [Timers -> BOOLEAN] /\ repeat \in [Timers -> BOOLEAN]
  /\ handle \in [Timers -> [made : BOOLEAN, due : Nat, call : BOOLEAN]]
  /\ armed \in [Timers -> 0 .. MaxTime] /\ fired \in [Timers -> Nat]
  /\ cleared \subseteq Timers /\ unrefd \in [Timers -> {"no", "pending", "late"}]

\* They make up TypeOK.
LEMMA TwoTypes == TypeOK <=> LoopType /\ TimerType
BY DEF TypeOK, LoopType, TimerType

\* The steps of the host and of listOnTimeout that touch no timer.
LEMMA LoopStep ==
  ASSUME IInv, \/ \E l \in Ids : ListFires(l)
               \/ RunTick \/ LoopWait \/ LoopEnd \/ Throw \/ Advance \/ Drift
               \/ UNCHANGED vars
  PROVE  IInv'
<1> TypeOK /\ Looked /\ Timer /\ LoopType
  BY TwoTypes DEF IInv
<1> USE TimersAssumption
<1>1. UNCHANGED <<items, timer, handle, hist>>
  BY DEF ListFires, RunTick, LoopWait, LoopEnd, Throw, Advance, Drift, vars, object
<1>2. calling' = None \/ (calling' = calling /\ (calling = None \/ running' = running))
  BY DEF ListFires, RunTick, LoopWait, LoopEnd, Throw, Advance, Drift, vars, loop, Idle, InLoop
<1>3. TimerType'
  BY <1>1 DEF TypeOK, TimerType, timer, hist
<1>4. Timer'
  <2>1. None \notin Timers
    OBVIOUS
  <2>2. \A u \in Timers : Untouched(u)
    BY <1>1, <1>2, <2>1 DEF Untouched, timer, hist
  <2>3. \A u \in Timers : (ListedTimer(u) /\ HandleOf(u) /\ Called(u))'
    BY <2>2, UntouchedKeeps DEF Timer
  <2> QED
    BY <2>3 DEF Timer
<1>5. Looked' /\ LoopType'
  <2>1. CASE \E l \in Ids : ListFires(l)
    <3>1. PICK l \in Ids : ListFires(l)
      BY <2>1
    <3>2. Looked' /\ due' \in [Ids -> Nat]
      BY <3>1, ListFiresKeeps
    <3> QED
      BY <3>1, <3>2 DEF ListFires, LoopType, clock
  <2>2. CASE RunTick
    <3>1. Looked' /\ ticks' \in Seq(Ids) /\ running' \in Ids
      BY <2>2, RunTickKeeps
    <3> QED
      BY <2>2, <3>1 DEF RunTick, LoopType, clock, object
  <2>3. CASE LoopWait
    <3>1. Looked' /\ due' \in [Ids -> Nat]
      BY <2>3, LoopWaitKeeps
    <3> QED
      BY <2>3, <3>1 DEF LoopWait, LoopType, clock
  <2>4. CASE LoopEnd
    <3>1. Looked' /\ due' \in [Ids -> Nat] /\ lists' \in [Delays -> Ids \cup {None}]
      BY <2>4, LoopEndKeeps
    <3> QED
      BY <2>4, <3>1 DEF LoopEnd, LoopType, clock
  <2>5. CASE Throw
    <3>1. Looked' /\ ticks' \in Seq(Ids)
      BY <2>5, ThrowKeeps
    <3> QED
      BY <2>5, <3>1 DEF Throw, LoopType, clock, object
  <2>6. CASE Advance \/ Drift
    <3>1. Looked'
      BY <2>6, TimeKeeps
    <3> QED
      BY <2>6, <3>1 DEF Advance, Drift, LoopType, object, loop
  <2>7. CASE UNCHANGED vars
    <3>1. Looked'
      BY <2>7, QuietKeeps DEF vars, loop, timer
    <3> QED
      BY <2>7, <3>1 DEF vars, clock, object, loop, LoopType
  <2> QED
    BY <2>1, <2>2, <2>3, <2>4, <2>5, <2>6, <2>7
<1>6. TypeOK'
  BY <1>3, <1>5 DEF TypeOK, LoopType, TimerType
<1> QED
  BY <1>4, <1>5, <1>6 DEF IInv

\* A step that touches one timer keeps the invariant, if it keeps what is said
\* of the lists and of that timer.
LEMMA OneTimer ==
  ASSUME IInv, NEW t \in Timers, Looked', LoopType', TimerType',
         \A u \in Timers : u # t => Untouched(u),
         ListedTimer(t)', HandleOf(t)', Called(t)'
  PROVE  IInv'
<1>1. ASSUME NEW u \in Timers PROVE (ListedTimer(u) /\ HandleOf(u) /\ Called(u))'
  <2>1. CASE u = t
    BY <2>1
  <2>2. CASE u # t
    BY <2>2, UntouchedKeeps DEF IInv, Timer
  <2> QED
    BY <2>1, <2>2
<1>2. Timer'
  BY <1>1 DEF Timer
<1>3. TypeOK'
  BY DEF TypeOK, LoopType, TimerType
<1> QED
  BY <1>2, <1>3 DEF IInv

\* setTimeout and setInterval: a new timer joins the list of its duration.
LEMMA StartKeeps ==
  ASSUME IInv, NEW t \in Timers, NEW d \in Delays, Start(t, d),
         repeat' \in [Timers -> BOOLEAN], \A u \in Timers : u # t => repeat'[u] = repeat[u],
         t \in Timeouts => ~repeat'[t]
  PROVE  IInv'
<1> USE TimersAssumption
<1> TypeOK /\ Looked /\ LoopType /\ TimerType
  BY TwoTypes DEF IInv
<1>1. ListedTimer(t) /\ HandleOf(t) /\ Called(t)
  BY DEF IInv, Timer
<1>2. /\ delay[t] = 0 /\ d \in Nat \ {0}
      /\ ~handle[t].made /\ handle[t].due = 0 /\ ~handle[t].call
      /\ calling # t /\ fired[t] = 0 /\ t \notin cleared
  <2>1. delay[t] = 0 /\ d \in Nat \ {0}
    BY DEF Start
  <2> QED
    BY <1>1, <2>1 DEF Called, HandleOf
<1>3. /\ delay' = [delay EXCEPT ![t] = d] /\ onTimeout' = [onTimeout EXCEPT ![t] = TRUE]
      /\ idleStart' = [idleStart EXCEPT ![t] = now]
      /\ idleTimeout' = [idleTimeout EXCEPT ![t] = d]
      /\ armed' = [armed EXCEPT ![t] = now]
      /\ now' = now /\ drift' = drift /\ running' = running /\ started' = started
      /\ calling' = calling /\ ticks' = ticks /\ throws' = throws
      /\ handle' = handle /\ fired' = fired /\ cleared' = cleared /\ unrefd' = unrefd
  BY DEF Start, Active, clock, loop
<1>4. /\ Looked' /\ due' \in [Ids -> Nat] /\ lists' \in [Delays -> Ids \cup {None}]
      /\ \E l \in Ids : msecs(l) = d /\ Joins(t, l)
  <2>1. Active(t, d) /\ OnlyLists
    BY <1>3 DEF Start, OnlyLists, clock
  <2> QED
    BY <2>1, ActiveKeeps
<1>5. PICK l \in Ids : msecs(l) = d /\ Joins(t, l)
  BY <1>4
<1>6. LoopType'
  BY <1>3, <1>4, <1>5 DEF Joins, LoopType
<1>7. TimerType'
  <2>1. now \in 0 .. MaxTime
    BY DEF LoopType
  <2> QED
    BY <1>3, <2>1 DEF TimerType
<1>8. ASSUME NEW u \in Timers, u # t PROVE Untouched(u)
  <2>1. \A k \in Ids : u \in ToSet(items'[k]) => u \in ToSet(items[k])
    BY <1>5, <1>8 DEF Joins
  <2> QED
    BY <1>3, <1>8, <2>1 DEF Untouched, TimerType
<1>9. ListedTimer(t)'
  <2>1. \A k \in Ids : t \in ToSet(items'[k]) => k = l
    BY <1>5 DEF Joins
  <2>2. armed'[t] = idleStart'[t] /\ delay'[t] = d
    BY <1>3 DEF TimerType
  <2> QED
    BY <1>2, <1>3, <1>5, <2>1, <2>2 DEF ListedTimer
<1>10. HandleOf(t)'
  <2>1. armed'[t] = idleStart'[t] /\ delay'[t] = d /\ idleTimeout'[t] = d
    BY <1>3 DEF TimerType
  <2> QED
    BY <1>1, <1>2, <1>3, <2>1 DEF HandleOf
<1>11. Called(t)'
  <2>1. delay'[t] = d
    BY <1>3 DEF TimerType
  <2> QED
    BY <1>2, <1>3, <2>1 DEF Called
<1> QED
  BY <1>4, <1>6, <1>7, <1>8, <1>9, <1>10, <1>11, OneTimer

\* Timeout.close: the timer leaves its list, or its handle is closed.
LEMMA CloseKeeps ==
  ASSUME IInv, NEW t \in Timers, onTimeout[t], Close(t),
         repeat' \in [Timers -> BOOLEAN], \A u \in Timers : u # t => repeat'[u] = repeat[u],
         repeat'[t] => repeat[t],
         UNCHANGED <<clock, loop, ticks, delay, idleStart, throws, armed, fired, unrefd>>
  PROVE  IInv'
<1> USE TimersAssumption
<1> TypeOK /\ Looked /\ LoopType /\ TimerType
  BY TwoTypes DEF IInv
<1>1. ListedTimer(t) /\ HandleOf(t) /\ Called(t)
  BY DEF IInv, Timer
<1>2. /\ onTimeout' = [onTimeout EXCEPT ![t] = FALSE] /\ cleared' = cleared \cup {t}
      /\ now' = now /\ drift' = drift /\ running' = running /\ started' = started
      /\ calling' = calling /\ ticks' = ticks /\ throws' = throws /\ delay' = delay
      /\ idleStart' = idleStart /\ armed' = armed /\ fired' = fired /\ unrefd' = unrefd
  BY DEF Close, clock, loop
<1>3. delay[t] # 0
  BY <1>1 DEF Called
<1>4. \/ /\ handle[t].made /\ handle' = [handle EXCEPT ![t].due = 0, ![t].call = FALSE]
         /\ UNCHANGED <<lists, object, idleTimeout>>
      \/ ~handle[t].made /\ Unenroll(t) /\ handle' = handle
  BY DEF Close
<1>5. handle[t] \in [made : BOOLEAN, due : Nat, call : BOOLEAN]
  BY DEF TimerType
<1>6. /\ handle' \in [Timers -> [made : BOOLEAN, due : Nat, call : BOOLEAN]]
      /\ handle'[t].due = 0 /\ ~handle'[t].call /\ handle'[t].made = handle[t].made
      /\ \A u \in Timers : u # t => handle'[u] = handle[u]
  <2>1. CASE handle' = [handle EXCEPT ![t].due = 0, ![t].call = FALSE]
    BY <1>5, <2>1 DEF TimerType
  <2>2. CASE ~handle[t].made /\ handle' = handle
    BY <1>1, <2>2 DEF TimerType, HandleOf
  <2> QED
    BY <1>4, <2>1, <2>2
<1>7. /\ Looked' /\ due' \in [Ids -> Nat] /\ lists' \in [Delays -> Ids \cup {None}]
      /\ items' \in [Ids -> Seq(Timers)]
      /\ \A k \in Ids : ToSet(items'[k]) \subseteq ToSet(items[k])
      /\ idleTimeout' \in [Timers -> Delays \cup {0, -1}]
      /\ \A u \in Timers : u # t => idleTimeout'[u] = idleTimeout[u]
  <2>1. CASE UNCHANGED <<lists, object, idleTimeout>>
    <3>1. Looked'
      BY <1>2, <2>1, QuietKeeps DEF clock
    <3> QED
      BY <2>1, <3>1 DEF object, LoopType, TimerType
  <2>2. CASE Unenroll(t)
    <3>1. OnlyLists
      BY <1>2 DEF OnlyLists, clock
    <3>2. /\ Looked' /\ Leaves(t)
          /\ due' \in [Ids -> Nat] /\ lists' \in [Delays -> Ids \cup {None}]
      BY <1>2, <2>2, <3>1, UnenrollKeeps
    <3>3. idleTimeout' = [idleTimeout EXCEPT ![t] = -1]
      BY <2>2 DEF Unenroll
    <3> QED
      BY <3>2, <3>3 DEF Leaves, TimerType
  <2> QED
    BY <1>4, <2>1, <2>2
<1>8. LoopType'
  BY <1>2, <1>7 DEF LoopType
<1>9. TimerType'
  BY <1>2, <1>6, <1>7 DEF TimerType
<1>10. ASSUME NEW u \in Timers, u # t PROVE Untouched(u)
  BY <1>2, <1>6, <1>7, <1>10 DEF Untouched, TimerType
<1>11. ListedTimer(t)'
  BY <1>1, <1>2, <1>6, <1>7 DEF ListedTimer
<1>12. ~onTimeout'[t]
  BY <1>2 DEF TimerType
<1>13. HandleOf(t)'
  <2>1. ~handle'[t].made => unrefd'[t] = "no"
    BY <1>1, <1>2, <1>6 DEF HandleOf
  <2> QED
    BY <1>6, <1>12, <2>1 DEF HandleOf
<1>14. Called(t)'
  BY <1>1, <1>2, <1>3, <1>6, <1>12 DEF Called
<1> QED
  BY <1>7, <1>8, <1>9, <1>10, <1>11, <1>13, <1>14, OneTimer

\* clearTimeout and clearInterval
LEMMA ClearKeeps ==
  ASSUME IInv, NEW t \in Timers, ClearTimeout(t) \/ ClearInterval(t)
  PROVE  IInv'
<1> TypeOK /\ Looked /\ LoopType /\ TimerType
  BY TwoTypes DEF IInv
<1>1. CASE ClearTimeout(t)
  <2>1. onTimeout[t] /\ Close(t) /\ repeat' = repeat
        /\ UNCHANGED <<clock, loop, ticks, delay, idleStart, throws, armed, fired, unrefd>>
    BY <1>1 DEF ClearTimeout
  <2> QED
    BY <2>1, CloseKeeps DEF TimerType
<1>2. CASE ClearInterval(t)
  <2>1. /\ repeat[t] /\ repeat' = [repeat EXCEPT ![t] = FALSE]
        /\ UNCHANGED <<clock, loop, ticks, delay, idleStart, throws, armed, fired, unrefd>>
    BY <1>2 DEF ClearInterval
  <2>2. /\ repeat' \in [Timers -> BOOLEAN] /\ ~repeat'[t]
        /\ \A u \in Timers : u # t => repeat'[u] = repeat[u]
    BY <2>1 DEF TimerType
  <2>3. CASE onTimeout[t] /\ Close(t)
    BY <2>1, <2>2, <2>3, CloseKeeps
  <2>4. CASE UNCHANGED <<onTimeout, cleared, handle, lists, object, idleTimeout>>
    <3>1. Looked'
      BY <2>1, <2>4, QuietKeeps DEF loop
    <3>2. LoopType'
      BY <2>1, <2>4 DEF LoopType, clock, loop, object
    <3>3. TimerType'
      BY <2>1, <2>2, <2>4 DEF TimerType
    <3>4. ASSUME NEW u \in Timers, u # t PROVE Untouched(u)
      BY <2>1, <2>2, <2>4, <3>4 DEF Untouched, loop, object
    <3>5. ListedTimer(t) /\ HandleOf(t) /\ Called(t)
      BY DEF IInv, Timer
    <3>6. ListedTimer(t)' /\ HandleOf(t)'
      BY <2>1, <2>4, <3>5 DEF ListedTimer, HandleOf, loop, object
    <3>7. Called(t)'
      BY <2>1, <2>2, <2>4, <3>5 DEF Called, loop
    <3> QED
      BY <3>1, <3>2, <3>3, <3>4, <3>6, <3>7, OneTimer
  <2> QED
    BY <1>2, <2>3, <2>4 DEF ClearInterval
<1> QED
  BY <1>1, <1>2

\* unref(): the timer leaves its list for a handle of its own.
LEMMA UnrefKeeps ==
  ASSUME IInv, NEW t \in Timers, Unref(t)
  PROVE  IInv'
<1> USE TimersAssumption
<1> TypeOK /\ Looked /\ LoopType /\ TimerType
  BY TwoTypes DEF IInv
<1>1. ListedTimer(t) /\ HandleOf(t) /\ Called(t)
  BY DEF IInv, Timer
<1> DEFINE left == idleStart[t] + idleTimeout[t] - now
           end  == IF left < 0 THEN now ELSE now + left
<1>2. /\ UserRuns /\ delay[t] # 0 /\ ~handle[t].made
      /\ handle' = [handle EXCEPT ![t] = [made |-> TRUE, call |-> onTimeout[t], due |-> end]]
      /\ Unenroll(t)
      /\ unrefd' = [unrefd EXCEPT ![t] = IF Listed(t) THEN "pending" ELSE "late"]
      /\ now' = now /\ drift' = drift /\ running' = running /\ started' = started
      /\ calling' = calling /\ ticks' = ticks /\ throws' = throws /\ delay' = delay
      /\ idleStart' = idleStart /\ onTimeout' = onTimeout /\ repeat' = repeat
      /\ armed' = armed /\ fired' = fired /\ cleared' = cleared
  BY DEF Unref, clock, loop
<1>3. /\ idleStart[t] \in Nat /\ idleTimeout[t] \in Int /\ now \in Nat /\ onTimeout[t] \in BOOLEAN
      /\ unrefd[t] = "no"
  <2>1. idleStart[t] \in 0 .. MaxTime /\ now \in 0 .. MaxTime /\ onTimeout[t] \in BOOLEAN
    BY DEF LoopType, TimerType
  <2>2. idleTimeout[t] \in Int
    <3>1. idleTimeout[t] \in Delays \cup {0, -1}
      BY DEF TimerType
    <3>2. Delays \subseteq Int /\ 0 \in Int /\ -1 \in Int
      OBVIOUS
    <3> HIDE TimersAssumption
    <3> QED
      BY <3>1, <3>2
  <2>3. unrefd[t] = "no"
    BY <1>1, <1>2 DEF HandleOf
  <2> QED
    BY <2>1, <2>2, <2>3
<1>4. end \in Nat /\ end >= idleStart[t] + idleTimeout[t]
  BY <1>3
<1>5. onTimeout[t] => end >= armed[t] + delay[t]
  BY <1>1, <1>2, <1>4 DEF HandleOf
<1>6. Listed(t) /\ t \in Timeouts => fired[t] = 0
  BY <1>1, <1>3 DEF Listed, ListedTimer
<1> HIDE DEF end
<1>7. /\ Looked' /\ Leaves(t)
      /\ due' \in [Ids -> Nat] /\ lists' \in [Delays -> Ids \cup {None}]
  <2>1. OnlyLists
    BY <1>2 DEF OnlyLists, clock
  <2> QED
    BY <1>2, <2>1, UnenrollKeeps
<1>8. LoopType'
  BY <1>2, <1>7 DEF LoopType, Leaves
<1>9. /\ handle' \in [Timers -> [made : BOOLEAN, due : Nat, call : BOOLEAN]]
      /\ handle'[t].made /\ handle'[t].due = end /\ handle'[t].call = onTimeout[t]
      /\ \A u \in Timers : u # t => handle'[u] = handle[u]
  BY <1>2, <1>3, <1>4 DEF TimerType
<1>10. /\ unrefd' \in [Timers -> {"no", "pending", "late"}]
       /\ unrefd'[t] # "late" => Listed(t)
       /\ \A u \in Timers : u # t => unrefd'[u] = unrefd[u]
  BY <1>2 DEF TimerType
<1>11. /\ idleTimeout' \in [Timers -> Delays \cup {0, -1}]
       /\ \A u \in Timers : u # t => idleTimeout'[u] = idleTimeout[u]
  BY <1>2 DEF TimerType, Unenroll
<1>12. TimerType'
  BY <1>2, <1>9, <1>10, <1>11 DEF TimerType
<1>13. ASSUME NEW u \in Timers, u # t PROVE Untouched(u)
  BY <1>2, <1>7, <1>9, <1>10, <1>11, <1>13 DEF Untouched, Leaves
<1>14. ListedTimer(t)'
  BY <1>7 DEF ListedTimer, Leaves
<1>15. HandleOf(t)'
  BY <1>2, <1>5, <1>6, <1>9, <1>10 DEF HandleOf
<1>16. Called(t)'
  BY <1>1, <1>2, <1>9 DEF Called
<1> QED
  BY <1>7, <1>8, <1>12, <1>13, <1>14, <1>15, <1>16, OneTimer

\* The handle of an unref'd timer fires.
LEMMA HandleFiresKeeps ==
  ASSUME IInv, NEW t \in Timers, HandleFires(t)
  PROVE  IInv'
<1> USE TimersAssumption
<1> TypeOK /\ Looked /\ LoopType /\ TimerType
  BY TwoTypes DEF IInv
<1>1. ListedTimer(t) /\ HandleOf(t) /\ Called(t)
  BY DEF IInv, Timer
<1>2. /\ running = None /\ calling = None /\ handle[t].due # 0
      /\ handle' = [handle EXCEPT ![t].due = 0]
      /\ now' = now /\ drift' = drift /\ lists' = lists /\ items' = items /\ due' = due
      /\ running' = running /\ started' = started /\ ticks' = ticks /\ throws' = throws
      /\ delay' = delay /\ idleTimeout' = idleTimeout /\ idleStart' = idleStart
      /\ onTimeout' = onTimeout /\ repeat' = repeat
      /\ armed' = armed /\ cleared' = cleared /\ unrefd' = unrefd
  BY DEF HandleFires, Idle, clock, object, timer
<1>3. /\ calling' \in {t, None}
      /\ fired' \in [Timers -> Nat] /\ \A u \in Timers : u # t => fired'[u] = fired[u]
  BY DEF HandleFires, Call, Idle, TimerType
<1>4. handle[t].made /\ delay[t] # 0
  BY <1>1, <1>2 DEF HandleOf, Called
<1>5. /\ handle' \in [Timers -> [made : BOOLEAN, due : Nat, call : BOOLEAN]]
      /\ handle'[t].due = 0 /\ handle'[t].made = handle[t].made /\ handle'[t].call = handle[t].call
      /\ \A u \in Timers : u # t => handle'[u] = handle[u]
  <2>1. handle[t] \in [made : BOOLEAN, due : Nat, call : BOOLEAN]
    BY DEF TimerType
  <2> QED
    BY <1>2, <2>1 DEF TimerType
<1>6. Looked'
  BY <1>2, QuietKeeps DEF clock, object
<1>7. LoopType'
  BY <1>2, <1>3 DEF LoopType
<1>8. TimerType'
  BY <1>2, <1>3, <1>5 DEF TimerType
<1>9. ASSUME NEW u \in Timers, u # t PROVE Untouched(u)
  BY <1>2, <1>3, <1>5, <1>9 DEF Untouched
<1>10. \A l \in Ids : t \notin ToSet(items[l])
  BY <1>1, <1>2 DEF ListedTimer
<1>11. ListedTimer(t)'
  BY <1>2, <1>10 DEF ListedTimer
<1>12. HandleOf(t)'
  BY <1>4, <1>5 DEF HandleOf
<1>13. Called(t)'
  BY <1>1, <1>2, <1>4, <1>5 DEF Called
<1> QED
  BY <1>6, <1>7, <1>8, <1>9, <1>11, <1>12, <1>13, OneTimer

\* The timer that listOnTimeout looks at.
LEMMA FirstListed ==
  ASSUME TypeOK, Looked, running # None, items[running] # <<>>
  PROVE  running \in Ids /\ First \in Timers /\ First \in ToSet(items[running])
<1>1. running \in Ids /\ items[running] \in Seq(Timers) /\ idleStart \in [Timers -> Int]
  BY ListTypes DEF TypeOK
<1>2. Sorted(items[running], idleStart)
  BY <1>1 DEF Looked, Lists
<1> QED
  BY <1>1, <1>2, SortedHead DEF First

\* The first timer of the list is called.
LEMMA LoopCallKeeps ==
  ASSUME IInv, LoopCall
  PROVE  IInv'
<1> USE TimersAssumption
<1> TypeOK /\ Looked /\ LoopType /\ TimerType
  BY TwoTypes DEF IInv
<1>1. /\ running # None /\ calling = None /\ items[running] # <<>> /\ items' = Removed(First)
      /\ now' = now /\ drift' = drift /\ lists' = lists /\ due' = due
      /\ running' = running /\ started' = started /\ ticks' = ticks /\ throws' = throws
      /\ delay' = delay /\ idleTimeout' = idleTimeout /\ idleStart' = idleStart
      /\ onTimeout' = onTimeout /\ repeat' = repeat /\ handle' = handle
      /\ armed' = armed /\ cleared' = cleared /\ unrefd' = unrefd
  BY DEF LoopCall, InLoop, Shift, clock, timer
<1>2. running \in Ids /\ First \in Timers /\ First \in ToSet(items[running])
  BY <1>1, FirstListed
<1> PICK t \in Timers : t = First
  BY <1>2
<1>3. /\ calling' \in {t, None}
      /\ fired' \in [Timers -> Nat] /\ \A u \in Timers : u # t => fired'[u] = fired[u]
  <2>1. CASE Call(t)
    BY <2>1 DEF Call, TimerType
  <2>2. CASE UNCHANGED <<calling, fired>>
    BY <1>1, <2>2 DEF TimerType
  <2> QED
    BY <2>1, <2>2 DEF LoopCall
<1>4. ListedTimer(t) /\ HandleOf(t) /\ Called(t)
  BY <1>2 DEF IInv, Timer
<1>5. handle[t].due = 0 /\ delay[t] # 0
  <2>1. msecs(running) # 0
    BY <1>2, ListTypes
  <2> QED
    BY <1>2, <1>4, <2>1 DEF ListedTimer
<1>6. Looked' /\ Leaves(t)
  <2>1. OnlyLists
    BY <1>1 DEF OnlyLists, clock
  <2> QED
    BY <1>1, <1>2, <2>1, RemovedKeeps
<1>7. LoopType'
  BY <1>1, <1>2, <1>3, <1>6 DEF LoopType, Leaves
<1>8. TimerType'
  BY <1>1, <1>3 DEF TimerType
<1>9. ASSUME NEW u \in Timers, u # t PROVE Untouched(u)
  BY <1>1, <1>3, <1>6, <1>9 DEF Untouched, Leaves
<1>10. ListedTimer(t)'
  BY <1>6 DEF ListedTimer, Leaves
<1>11. HandleOf(t)'
  BY <1>1, <1>4, <1>5 DEF HandleOf
<1>12. Called(t)'
  BY <1>1, <1>4, <1>5 DEF Called
<1> QED
  BY <1>2, <1>6, <1>7, <1>8, <1>9, <1>10, <1>11, <1>12, OneTimer

\* The callback returns, and the timer of an interval starts again.
LEMMA ReturnKeeps ==
  ASSUME IInv, Return
  PROVE  IInv'
<1> USE TimersAssumption
<1> TypeOK /\ Looked /\ LoopType /\ TimerType
  BY TwoTypes DEF IInv
<1>1. /\ calling # None /\ calling' = None
      /\ now' = now /\ drift' = drift
      /\ running' = running /\ started' = started /\ ticks' = ticks /\ throws' = throws
      /\ fired' = fired /\ cleared' = cleared /\ unrefd' = unrefd
  BY DEF Return, clock
<1>2. calling \in Timers
  BY <1>1 DEF LoopType
<1> PICK t \in Timers : t = calling
  BY <1>2
<1>3. ListedTimer(t) /\ HandleOf(t) /\ Called(t)
  BY <1>2 DEF IInv, Timer
<1>4. \A l \in Ids : t \notin ToSet(items[l])
  BY <1>3 DEF ListedTimer
<1>5. CASE UNCHANGED <<lists, object, timer, handle, armed>>
  <2>1. Looked'
    BY <1>1, <1>5, QuietKeeps DEF clock, timer
  <2>2. LoopType' /\ TimerType'
    BY <1>1, <1>5 DEF LoopType, TimerType, object, timer
  <2>3. ASSUME NEW u \in Timers, u # t PROVE Untouched(u)
    BY <1>1, <1>5, <2>3 DEF Untouched, object, timer
  <2>4. ListedTimer(t)'
    BY <1>4, <1>5 DEF ListedTimer, object
  <2>5. HandleOf(t)'
    BY <1>1, <1>3, <1>5 DEF HandleOf, timer
  <2>6. Called(t)'
    BY <1>1, <1>2, <1>3, <1>5 DEF Called, timer
  <2> QED
    BY <1>2, <2>1, <2>2, <2>3, <2>4, <2>5, <2>6, OneTimer
<1>6. ASSUME repeat[t], running # None, handle[t].made,
             handle' = [handle EXCEPT ![t].due = IF handle[t].call THEN now + delay[t] ELSE 0],
             armed' = [armed EXCEPT ![t] = now], UNCHANGED <<lists, object, timer>>
      PROVE  IInv'
  <2>1. /\ handle[t] \in [made : BOOLEAN, due : Nat, call : BOOLEAN]
        /\ now \in 0 .. MaxTime /\ delay[t] \in Nat /\ now + delay[t] \in Nat
    <3>1. handle[t] \in [made : BOOLEAN, due : Nat, call : BOOLEAN] /\ now \in 0 .. MaxTime
      BY <1>2 DEF LoopType, TimerType
    <3>2. delay[t] \in Nat
      <4>1. delay[t] \in Delays \cup {0}
        BY DEF TimerType
      <4> QED
        BY <4>1, ListTypes
    <3> QED
      BY <3>1, <3>2
  <2>2. /\ handle' \in [Timers -> [made : BOOLEAN, due : Nat, call : BOOLEAN]]
        /\ handle'[t].due \in {now + delay[t], 0}
        /\ handle'[t].made /\ handle'[t].call = handle[t].call
        /\ \A u \in Timers : u # t => handle'[u] = handle[u]
    <3> DEFINE e == IF handle[t].call THEN now + delay[t] ELSE 0
    <3>1. e \in Nat /\ e \in {now + delay[t], 0}
      BY <2>1
    <3>2. handle' = [handle EXCEPT ![t].due = e]
      BY <1>6
    <3> HIDE DEF e
    <3> QED
      BY <1>2, <1>6, <2>1, <3>1, <3>2 DEF TimerType
  <2>3. /\ armed' \in [Timers -> 0 .. MaxTime] /\ armed'[t] = now
        /\ \A u \in Timers : u # t => armed'[u] = armed[u]
    BY <1>2, <1>6, <2>1 DEF TimerType
  <2>4. Looked'
    BY <1>1, <1>6, QuietKeeps DEF clock, timer
  <2>5. LoopType' /\ TimerType'
    BY <1>1, <1>6, <2>2, <2>3 DEF LoopType, TimerType, object, timer
  <2>6. ASSUME NEW u \in Timers, u # t PROVE Untouched(u)
    BY <1>1, <1>6, <2>2, <2>3, <2>6 DEF Untouched, object, timer
  <2>7. ListedTimer(t)'
    BY <1>4, <1>6 DEF ListedTimer, object
  <2>8. HandleOf(t)'
    <3>1. t \notin Timeouts
      BY <1>3, <1>6 DEF Called
    <3>2. handle'[t].due # 0 => handle'[t].due >= armed'[t] + delay'[t]
      BY <1>6, <2>1, <2>2, <2>3 DEF timer
    <3> QED
      BY <1>1, <2>2, <3>1, <3>2 DEF HandleOf
  <2>9. Called(t)'
    BY <1>1, <1>2, <1>3, <1>6, <2>2 DEF Called, timer
  <2> QED
    BY <1>2, <2>4, <2>5, <2>6, <2>7, <2>8, <2>9, OneTimer
<1>7. ASSUME repeat[t], ~(running # None /\ handle[t].made), Active(t, delay[t]),
             UNCHANGED <<delay, onTimeout, repeat, handle>>
      PROVE  IInv'
  <2>1. /\ delay[t] \in Delays /\ handle[t].due = 0
    <3>1. delay[t] # 0
      BY <1>3, <1>7 DEF Called
    <3>2. handle[t].due = 0
      BY <1>3, <1>7 DEF Called, HandleOf
    <3> QED
      BY <1>2, <3>1, <3>2 DEF TimerType
  <2>2. /\ idleStart' = [idleStart EXCEPT ![t] = now]
        /\ idleTimeout' = [idleTimeout EXCEPT ![t] = delay[t]]
        /\ armed' = [armed EXCEPT ![t] = now]
        /\ delay' = delay /\ onTimeout' = onTimeout /\ repeat' = repeat /\ handle' = handle
    BY <1>7 DEF Active
  <2>3. OnlyLists
    BY <1>1 DEF OnlyLists, clock
  <2>4. /\ Looked' /\ due' \in [Ids -> Nat] /\ lists' \in [Delays -> Ids \cup {None}]
        /\ \E l \in Ids : msecs(l) = delay[t] /\ Joins(t, l)
    BY <1>2, <1>7, <2>1, <2>3, ActiveKeeps
  <2>5. PICK l \in Ids : msecs(l) = delay[t] /\ Joins(t, l)
    BY <2>4
  <2>6. LoopType'
    BY <1>1, <2>4, <2>5 DEF Joins, LoopType
  <2>7. TimerType'
    <3>1. now \in 0 .. MaxTime
      BY DEF LoopType
    <3> QED
      BY <1>1, <2>1, <2>2, <3>1 DEF TimerType
  <2>8. ASSUME NEW u \in Timers, u # t PROVE Untouched(u)
    <3>1. \A k \in Ids : u \in ToSet(items'[k]) => u \in ToSet(items[k])
      BY <2>5, <2>8 DEF Joins
    <3> QED
      BY <1>1, <2>2, <2>8, <3>1 DEF Untouched, TimerType
  <2>9. armed'[t] = idleStart'[t] /\ idleTimeout'[t] = delay'[t]
    BY <1>2, <2>2 DEF TimerType
  <2>10. ListedTimer(t)'
    <3>1. \A k \in Ids : t \in ToSet(items'[k]) => k = l
      BY <2>5 DEF Joins
    <3>2. t \notin Timeouts
      BY <1>3, <1>7 DEF Called
    <3> QED
      BY <1>1, <1>2, <2>1, <2>2, <2>5, <2>9, <3>1, <3>2 DEF ListedTimer
  <2>11. HandleOf(t)'
    BY <1>1, <1>3, <2>1, <2>2, <2>9 DEF HandleOf
  <2>12. Called(t)'
    BY <1>1, <1>2, <1>3, <2>2 DEF Called
  <2> QED
    BY <1>2, <2>4, <2>6, <2>7, <2>8, <2>10, <2>11, <2>12, OneTimer
<1> QED
  BY <1>5, <1>6, <1>7 DEF Return

-----------------------------------------------------------------------------
(* Theorems *)

\* The initial state: no timer is set, no list is made.
LEMMA InitIInv == Init => IInv
<1> SUFFICES ASSUME Init PROVE IInv
  OBVIOUS
<1> USE TimersAssumption
<1>1. /\ now = 1 /\ drift = 0 /\ started = 0 /\ throws = 0
      /\ lists = [d \in Delays |-> None]
      /\ items = [l \in Ids |-> <<>>] /\ due = [l \in Ids |-> 0]
      /\ running = None /\ calling = None /\ ticks = <<>>
  BY DEF Init
<1>2. <<>> \in Seq(Timers) /\ <<>> \in Seq(Ids) /\ ToSet(<<>>) = {}
  BY EmptySequence
<1>3. LoopType
  BY <1>1, <1>2 DEF LoopType
<1>4. TimerType
  BY DEF Init, TimerType, NoHandle
<1>5. \A l \in Ids : msecs(l) \in Delays
  BY DEF Ids, msecs
<1>6. Looked
  <2>1. Lists
    BY <1>1, <1>2 DEF Lists, Sorted
  <2>2. Timely
    <3> SUFFICES ASSUME NEW l \in Ids
                 PROVE  0 <= now + msecs(l) + drift
      BY <1>1, <1>2 DEF Timely
    <3>1. msecs(l) \in Nat
      BY <1>5
    <3> QED
      BY <1>1, <3>1
  <2>3. Named
    BY <1>1 DEF Named
  <2>4. Clock
    BY <1>1 DEF Init, Clock
  <2> QED
    BY <2>1, <2>2, <2>3, <2>4 DEF Looked
<1>7. Timer
  <2> SUFFICES ASSUME NEW t \in Timers PROVE ListedTimer(t) /\ HandleOf(t) /\ Called(t)
    BY DEF Timer
  <2>1. /\ delay[t] = 0 /\ ~onTimeout[t] /\ ~repeat[t] /\ handle[t] = NoHandle
        /\ fired[t] = 0 /\ cleared = {} /\ unrefd[t] = "no"
    BY DEF Init
  <2>2. ListedTimer(t)
    BY <1>1, <1>2 DEF ListedTimer
  <2>3. HandleOf(t)
    BY <2>1 DEF HandleOf, NoHandle
  <2>4. Called(t)
    BY <1>1, <2>1 DEF Called, NoHandle
  <2> QED
    BY <2>2, <2>3, <2>4
<1> QED
  BY <1>3, <1>4, <1>6, <1>7, TwoTypes DEF IInv

\* Every step keeps the invariant.
LEMMA NextIInv == IInv /\ [Next]_vars => IInv'
<1> SUFFICES ASSUME IInv, [Next]_vars PROVE IInv'
  OBVIOUS
<1> USE TimersAssumption
<1>1. ASSUME NEW t \in Timers, SetTimeout(t) PROVE IInv'
  <2>1. PICK d \in Delays : Start(t, d)
    BY <1>1 DEF SetTimeout
  <2>2. repeat' = repeat /\ repeat \in [Timers -> BOOLEAN]
    BY <1>1 DEF SetTimeout, IInv, TypeOK
  <2>3. t \in Timeouts => ~repeat[t]
    BY DEF IInv, Timer, Called
  <2> QED
    BY <2>1, <2>2, <2>3, StartKeeps
<1>2. ASSUME NEW t \in Timers, SetInterval(t) PROVE IInv'
  <2>1. PICK d \in Delays : Start(t, d)
    BY <1>2 DEF SetInterval
  <2>2. t \notin Timeouts
    BY <1>2 DEF SetInterval
  <2>3. repeat \in [Timers -> BOOLEAN] /\ repeat' = [repeat EXCEPT ![t] = TRUE]
    BY <1>2 DEF SetInterval, IInv, TypeOK
  <2>4. repeat' \in [Timers -> BOOLEAN] /\ \A u \in Timers : u # t => repeat'[u] = repeat[u]
    BY <2>3
  <2> QED
    BY <2>1, <2>2, <2>4, StartKeeps
<1>3. ASSUME NEW t \in Timers, ClearTimeout(t) \/ ClearInterval(t) PROVE IInv'
  BY <1>3, ClearKeeps
<1>4. ASSUME NEW t \in Timers, Unref(t) PROVE IInv'
  BY <1>4, UnrefKeeps
<1>5. ASSUME NEW t \in Timers, HandleFires(t) PROVE IInv'
  BY <1>5, HandleFiresKeeps
<1>6. CASE LoopCall
  BY <1>6, LoopCallKeeps
<1>7. CASE Return
  BY <1>7, ReturnKeeps
<1>8. CASE \/ \E l \in Ids : ListFires(l)
           \/ RunTick \/ LoopWait \/ LoopEnd \/ Throw \/ Advance \/ Drift
           \/ UNCHANGED vars
  BY <1>8, LoopStep
<1> QED
  BY <1>1, <1>2, <1>3, <1>4, <1>5, <1>6, <1>7, <1>8 DEF Next, Step

\* The invariant holds in every behaviour.
LEMMA IInvHolds == Spec => []IInv
BY InitIInv, NextIInv, PTL DEF Spec

\* The types of the variables of timers.js.
THEOREM TypeCorrect == Spec => []TypeOK
<1>1. IInv => TypeOK
  BY DEF IInv
<1> QED
  BY <1>1, IInvHolds, PTL

\* What somebody looks at is armed for its first timer, late by no more than
\* the drift.
LEMMA ArmedInv == IInv => Armed
<1> SUFFICES ASSUME IInv, NEW l \in Ids
             PROVE  /\ items[l] # <<>> =>
                         \/ l = running \/ l \in ToSet(ticks)
                         \/ due[l] # 0 /\ due[l] <= idleStart[Head(items[l])] + msecs(l) + drift
                    /\ \A i, j \in DOMAIN items[l] :
                         i < j => /\ idleStart[items[l][i]] <= idleStart[items[l][j]]
                                  /\ items[l][i] # items[l][j]
                    /\ \A k \in Ids \ {l} : ToSet(items[k]) \cap ToSet(items[l]) = {}
  BY DEF Armed
<1> TypeOK /\ Looked
  BY DEF IInv
<1>1. items[l] \in Seq(Timers) /\ idleStart \in [Timers -> Int] /\ Sorted(items[l], idleStart)
  BY ListTypes DEF Looked, Lists
<1>2. ASSUME items[l] # <<>>
      PROVE  \/ l = running \/ l \in ToSet(ticks)
             \/ due[l] # 0 /\ due[l] <= idleStart[Head(items[l])] + msecs(l) + drift
  <2>1. Head(items[l]) \in ToSet(items[l])
    BY <1>1, <1>2, SortedHead
  <2> QED
    BY <1>2, <2>1 DEF Looked, Timely, Watched
<1> QED
  BY <1>1, <1>2 DEF Sorted, Looked, Lists

\* Every list that holds timers is being processed, waits for its tick, or is
\* armed for the expiry of its first timer: no set timer is forgotten.
THEOREM ArmedHolds == Spec => []Armed
BY ArmedInv, IInvHolds, PTL

\* The callback that listOnTimeout starts.
LEMMA LoopCallInTime ==
  ASSUME IInv, LoopCall, NEW t \in Timers, calling' = t
  PROVE  /\ now >= armed[t] + delay[t]
         /\ t \notin cleared
         /\ t \in Timeouts /\ unrefd[t] # "late" => fired'[t] <= 1
<1> USE TimersAssumption
<1> TypeOK /\ Looked
  BY DEF IInv
<1>1. /\ running # None /\ calling = None /\ items[running] # <<>> /\ Expired
      /\ onTimeout[First] /\ Call(First)
  BY DEF LoopCall, InLoop
<1>2. t = First /\ fired' = [fired EXCEPT ![t] = IF t \in Timeouts THEN @ + 1 ELSE @]
  BY <1>1 DEF Call
<1>3. running \in Ids /\ t \in ToSet(items[running])
  BY <1>1, <1>2, FirstListed
<1>4. ListedTimer(t) /\ HandleOf(t) /\ Called(t)
  BY DEF IInv, Timer
<1>5. /\ armed[t] = idleStart[t] /\ delay[t] = msecs(running)
      /\ t \in Timeouts /\ unrefd[t] # "late" => fired[t] = 0
  BY <1>3, <1>4 DEF ListedTimer
<1>6. now >= armed[t] + delay[t]
  <2>1. started - idleStart[t] >= msecs(running)
    BY <1>1, <1>2 DEF Expired, Elapsed
  <2>2. started <= now
    BY <1>1 DEF Looked, Clock
  <2>3. now \in Int /\ started \in Int /\ idleStart[t] \in Int /\ msecs(running) \in Int
    <3>1. started \in 0 .. MaxTime
      BY DEF TypeOK
    <3>2. now \in Int /\ idleStart[t] \in Int /\ msecs(running) \in Int
      BY <1>3, ListTypes
    <3> QED
      BY <3>1, <3>2
  <2> QED
    BY <1>5, <2>1, <2>2, <2>3
<1>7. t \notin cleared
  BY <1>1, <1>2, <1>4 DEF Called
<1>8. ASSUME t \in Timeouts, unrefd[t] # "late" PROVE fired'[t] <= 1
  <2>1. fired[t] = 0 /\ fired \in [Timers -> Nat]
    BY <1>5, <1>8 DEF TypeOK
  <2>2. fired'[t] = 0 + 1
    BY <1>2, <1>8, <2>1
  <2> QED
    BY <2>2
<1> QED
  BY <1>6, <1>7, <1>8

\* The callback that an unref'd timer's own handle starts.
LEMMA HandleFiresInTime ==
  ASSUME IInv, NEW t \in Timers, HandleFires(t), calling' # None
  PROVE  /\ calling' = t /\ now >= armed[t] + delay[t]
         /\ t \notin cleared
         /\ t \in Timeouts /\ unrefd[t] # "late" => fired'[t] <= 1
<1>1. /\ handle[t].due # 0 /\ handle[t].due <= now /\ handle[t].call
      /\ calling' = t /\ fired' = [fired EXCEPT ![t] = IF t \in Timeouts THEN @ + 1 ELSE @]
  BY DEF HandleFires, Idle, Call
<1>2. ListedTimer(t) /\ HandleOf(t) /\ Called(t)
  BY DEF IInv, Timer
<1>3. now >= armed[t] + delay[t]
  <2>1. handle[t].due >= armed[t] + delay[t]
    BY <1>1, <1>2 DEF HandleOf
  <2>2. /\ handle[t].due \in Nat /\ now \in Int /\ armed[t] \in Int /\ delay[t] \in Int
    <3>1. /\ handle[t] \in [made : BOOLEAN, due : Nat, call : BOOLEAN]
          /\ armed[t] \in 0 .. MaxTime /\ now \in 1 .. MaxTime /\ delay[t] \in Delays \cup {0}
      BY DEF IInv, TypeOK
    <3>2. Delays \subseteq Int /\ 0 .. MaxTime \subseteq Int /\ 1 .. MaxTime \subseteq Int
      BY TimersAssumption
    <3>3. delay[t] \in Int
      <4>1. \A m \in Delays : m \in Int
        BY <3>2
      <4>2. delay[t] \in Delays \/ delay[t] = 0
        BY <3>1
      <4> QED
        BY <4>1, <4>2
    <3> QED
      BY <3>1, <3>2, <3>3
  <2> QED
    BY <1>1, <2>1, <2>2
<1>4. t \notin cleared
  BY <1>1, <1>2 DEF Called
<1>5. ASSUME t \in Timeouts, unrefd[t] # "late" PROVE fired'[t] <= 1
  <2>1. fired[t] = 0 /\ fired \in [Timers -> Nat]
    BY <1>1, <1>2, <1>5 DEF HandleOf, IInv, TypeOK
  <2>2. fired'[t] = 0 + 1
    BY <1>1, <1>5, <2>1
  <2> QED
    BY <2>2
<1> QED
  BY <1>1, <1>3, <1>4, <1>5

\* No callback runs before its delay has passed, none after it was cleared, and
\* that of a timeout once, however callbacks set, clear, unref and throw.
THEOREM OnceInTimeHolds == Spec => OnceInTime
<1> DEFINE Good ==
             calling' \notin {None, calling} =>
               /\ now >= armed[calling'] + delay[calling']
               /\ calling' \notin cleared
               /\ calling' \in Timeouts /\ unrefd[calling'] # "late" => fired'[calling'] <= 1
<1>1. ASSUME IInv, [Next]_vars PROVE [Good]_vars
  <2> SUFFICES ASSUME Next, calling' \notin {None, calling} PROVE Good
    BY <1>1
  <2>1. CASE LoopCall
    <3>1. First \in Timers /\ calling' = First
      BY <1>1, <2>1, FirstListed DEF IInv, LoopCall, InLoop, Call
    <3> QED
      BY <1>1, <2>1, <3>1, LoopCallInTime
  <2>2. ASSUME NEW t \in Timers, HandleFires(t) PROVE Good
    BY <1>1, <2>2, HandleFiresInTime
  <2>3. CASE RunTick \/ LoopWait \/ LoopEnd \/ Return \/ Throw \/ Advance \/ Drift
             \/ \E l \in Ids : ListFires(l)
    BY <2>3 DEF RunTick, LoopWait, LoopEnd, Return, Throw, Advance, Drift, ListFires, loop
  <2>4. ASSUME NEW t \in Timers,
               SetTimeout(t) \/ SetInterval(t) \/ ClearTimeout(t) \/ ClearInterval(t) \/ Unref(t)
        PROVE  Good
    BY <2>4 DEF SetTimeout, SetInterval, Start, ClearTimeout, ClearInterval, Unref, loop
  <2> QED
    BY <2>1, <2>2, <2>3, <2>4 DEF Next, Step
<1> QED
  BY <1>1, IInvHolds, PTL DEF Spec, OnceInTime

=============================================================================
