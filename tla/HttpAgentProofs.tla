--------------------------- MODULE HttpAgentProofs ---------------------------
(***************************************************************************)
(* Proofs about HttpAgent: the types, which say that a socket is made for  *)
(* a request only; Exclusive, that no socket serves two requests; and      *)
(* NoLostWakeup, that a queued request waits for a socket that will come.  *)
(*                                                                         *)
(* A socket is idle when no tick names it and no request is on it.  Only   *)
(* idle sockets enter the free pool or are given to a request, and the     *)
(* tick that hands one over, or announces it free, is the only one that    *)
(* names it.  Consistent says so of the parts of the state it depends on;  *)
(* each step of the agent is a composition of a few changes that keep it.  *)
(*                                                                         *)
(* The wakeup rests on Watchful: the agent listens to every pooled socket, *)
(* and one that is out of the free pool is in use, named by a tick, about  *)
(* to close, or being ended.                                               *)
(***************************************************************************)
EXTENDS HttpAgent, SequenceLemmas, FiniteSetTheorems, TLAPS

Serving == {"active", "responding"}

\* The ticks that name a socket, or a request.
Held(tk, s) == \E i \in 1 .. Len(tk) : tk[i].s = s
Due(tk, r) == \E i \in 1 .. Len(tk) : tk[i].r = r

\* No two ticks name one socket or one request.
Apart(tk) ==
  \A i, j \in 1 .. Len(tk) :
    /\ tk[i].s = tk[j].s => i = j
    /\ tk[i].r = tk[j].r /\ tk[i].r # NoRequest => i = j

Started(ph) == {r \in Requests : ph[r] # "new"}

TickTypes == [r : Requests \cup {NoRequest}, s : Sockets]

ConsistentTypes(rq, sk, fr, cr, tk, ph, so) ==
  /\ rq \in Seq(Requests) /\ sk \in Seq(Sockets) /\ fr \in Seq(Sockets)
  /\ cr \in Nat /\ tk \in Seq(TickTypes)
  /\ ph \in [Requests -> Phases] /\ so \in [Requests -> Sockets \cup {0}]

Consistent(rq, sk, fr, cr, tk, ph, so) ==
  /\ ConsistentTypes(rq, sk, fr, cr, tk, ph, so)
  /\ cr + Len(rq) <= Cardinality(Started(ph))
  /\ IsInjective(rq) /\ IsInjective(sk) /\ IsInjective(fr)
  /\ ToSet(sk) \cap ToSet(fr) = {}
  /\ \A s \in ToSet(sk) \cup ToSet(fr) : s <= cr
  /\ Apart(tk)
  /\ \A s \in Sockets : Held(tk, s) => s <= cr /\ s \notin ToSet(fr)
  /\ \A r \in Requests :
       /\ ph[r] = "waiting" <=> r \in ToSet(rq) \/ Due(tk, r)
       /\ ~(r \in ToSet(rq) /\ Due(tk, r))
       /\ ph[r] \in Serving =>
            /\ so[r] \in Sockets /\ so[r] <= cr
            /\ so[r] \notin ToSet(fr) /\ ~Held(tk, so[r])
            /\ \A q \in Requests \ {r} : ph[q] \in Serving => so[q] # so[r]

Now == Consistent(requests, sockets, freeSockets, created, ticks, phase, socketOf)

\* The rest of the types.
OtherTypes ==
  /\ destroyed \subseteq Sockets /\ closing \subseteq destroyed /\ ending \subseteq Sockets
  /\ listening \subseteq Sockets
  /\ message \in [Sockets -> Requests \cup {NoRequest}]
  /\ shouldKeepAlive \in [Requests -> BOOLEAN]
  /\ aborted \subseteq Requests

\* The inductive invariant.
IInv == OtherTypes /\ Now

\* A socket that nobody uses or is about to use.
IdleSocket(s, fr, cr, tk, ph, so) ==
  /\ s \in Sockets /\ s <= cr /\ s \notin ToSet(fr) /\ ~Held(tk, s)
  /\ \A r \in Requests : ph[r] \in Serving => so[r] # s

-----------------------------------------------------------------------------
(* The tick queue *)

\* The first tick is taken: no other names its socket or its request.
LEMMA TicksTail ==
  ASSUME NEW tk \in Seq(TickTypes), tk # <<>>, Apart(tk)
  PROVE  /\ Tail(tk) \in Seq(TickTypes) /\ Head(tk) \in TickTypes /\ Apart(Tail(tk))
         /\ \A s : Held(tk, s) <=> s = Head(tk).s \/ Held(Tail(tk), s)
         /\ \A r : Due(tk, r) <=> r = Head(tk).r \/ Due(Tail(tk), r)
         /\ ~Held(Tail(tk), Head(tk).s)
         /\ Head(tk).r # NoRequest => ~Due(Tail(tk), Head(tk).r)
<1> DEFINE t == Tail(tk)
<1>1. /\ t \in Seq(TickTypes) /\ Len(t) = Len(tk) - 1 /\ Len(tk) \in Nat \ {0}
      /\ Head(tk) = tk[1] /\ tk[1] \in TickTypes
      /\ \A i \in 1 .. Len(t) : t[i] = tk[i + 1]
  OBVIOUS
<1> HIDE DEF t
<1>2. \A i \in 1 .. Len(t) : i + 1 \in 1 .. Len(tk) /\ i + 1 # 1
  BY <1>1
<1>3. \A i \in 1 .. Len(tk) : i # 1 => i - 1 \in 1 .. Len(t) /\ t[i - 1] = tk[i]
  BY <1>1
<1>4. 1 \in 1 .. Len(tk)
  BY <1>1
<1>5. \A s : Held(tk, s) <=> s = Head(tk).s \/ Held(t, s)
  BY <1>1, <1>2, <1>3, <1>4 DEF Held
<1>6. \A r : Due(tk, r) <=> r = Head(tk).r \/ Due(t, r)
  BY <1>1, <1>2, <1>3, <1>4 DEF Due
<1>7. ~Held(t, Head(tk).s) /\ (Head(tk).r # NoRequest => ~Due(t, Head(tk).r))
  BY <1>1, <1>2, <1>4 DEF Apart, Held, Due
<1>8. Apart(t)
  <2> SUFFICES ASSUME NEW i \in 1 .. Len(t), NEW j \in 1 .. Len(t)
               PROVE  /\ t[i].s = t[j].s => i = j
                      /\ t[i].r = t[j].r /\ t[i].r # NoRequest => i = j
    BY DEF Apart
  <2>0. /\ t[i] = tk[i + 1] /\ i + 1 \in 1 .. Len(tk)
        /\ t[j] = tk[j + 1] /\ j + 1 \in 1 .. Len(tk)
    BY <1>1, <1>2
  <2>1. /\ t[i].s = t[j].s => i + 1 = j + 1
        /\ t[i].r = t[j].r /\ t[i].r # NoRequest => i + 1 = j + 1
    BY <2>0 DEF Apart
  <2>2. i + 1 = j + 1 => i = j
    OBVIOUS
  <2> QED
    BY <2>1, <2>2
<1> QED
  BY <1>1, <1>5, <1>6, <1>7, <1>8 DEF t

\* A socket is named by a tick at the end of the queue.
LEMMA AppendedHeld ==
  ASSUME NEW tk \in Seq(TickTypes), NEW x \in TickTypes
  PROVE  \A s : Held(Append(tk, x), s) <=> s = x.s \/ Held(tk, s)
<1> DEFINE t == Append(tk, x)
<1>1. /\ Len(t) = Len(tk) + 1 /\ Len(tk) \in Nat
      /\ t[Len(tk) + 1] = x /\ \A i \in 1 .. Len(tk) : t[i] = tk[i]
  OBVIOUS
<1> HIDE DEF t
<1>2. /\ Len(tk) + 1 \in 1 .. Len(t)
      /\ \A i \in 1 .. Len(t) : i \in 1 .. Len(tk) \/ i = Len(tk) + 1
      /\ \A i \in 1 .. Len(tk) : i \in 1 .. Len(t)
  BY <1>1
<1>3. \A s : Held(t, s) <=> s = x.s \/ Held(tk, s)
  BY <1>1, <1>2 DEF Held
<1> QED
  BY <1>3 DEF t

\* A tick is queued for a socket and a request that no tick names.
LEMMA TicksAppend ==
  ASSUME NEW tk \in Seq(TickTypes), Apart(tk), NEW x \in TickTypes,
         ~Held(tk, x.s), x.r = NoRequest \/ ~Due(tk, x.r)
  PROVE  /\ Append(tk, x) \in Seq(TickTypes) /\ Apart(Append(tk, x))
         /\ \A s : Held(Append(tk, x), s) <=> s = x.s \/ Held(tk, s)
         /\ \A r : Due(Append(tk, x), r) <=> r = x.r \/ Due(tk, r)
<1> DEFINE t == Append(tk, x)
<1>1. /\ t \in Seq(TickTypes) /\ Len(t) = Len(tk) + 1 /\ Len(tk) \in Nat
      /\ t[Len(tk) + 1] = x /\ \A i \in 1 .. Len(tk) : t[i] = tk[i]
  OBVIOUS
<1> HIDE DEF t
<1>2. /\ Len(tk) + 1 \in 1 .. Len(t)
      /\ \A i \in 1 .. Len(t) : i \in 1 .. Len(tk) \/ i = Len(tk) + 1
      /\ \A i \in 1 .. Len(tk) : i \in 1 .. Len(t)
  BY <1>1
<1>3. \A s : Held(t, s) <=> s = x.s \/ Held(tk, s)
  BY <1>1, <1>2 DEF Held
<1>4. \A r : Due(t, r) <=> r = x.r \/ Due(tk, r)
  BY <1>1, <1>2 DEF Due
<1>5. Apart(t)
  <2> SUFFICES ASSUME NEW i \in 1 .. Len(t), NEW j \in 1 .. Len(t)
               PROVE  /\ t[i].s = t[j].s => i = j
                      /\ t[i].r = t[j].r /\ t[i].r # NoRequest => i = j
    BY DEF Apart
  <2>1. CASE i \in 1 .. Len(tk) /\ j \in 1 .. Len(tk)
    BY <1>1, <2>1 DEF Apart
  <2>2. CASE i = Len(tk) + 1 /\ j = Len(tk) + 1
    BY <2>2
  <2>3. CASE i \in 1 .. Len(tk) /\ j = Len(tk) + 1
    BY <1>1, <2>3 DEF Held, Due
  <2>4. CASE j \in 1 .. Len(tk) /\ i = Len(tk) + 1
    BY <1>1, <2>4 DEF Held, Due
  <2> QED
    BY <1>2, <2>1, <2>2, <2>3, <2>4
<1> QED
  BY <1>1, <1>3, <1>4, <1>5 DEF t

-----------------------------------------------------------------------------
(* Changes that keep the parts consistent *)

\* No more sockets than requests are ever made.
LEMMA Budget ==
  ASSUME NEW ph \in [Requests -> Phases]
  PROVE  Cardinality(Started(ph)) \in Nat /\ Cardinality(Requests) \in Nat
         /\ Cardinality(Started(ph)) <= Cardinality(Requests)
<1>1. IsFiniteSet(Requests) /\ Started(ph) \subseteq Requests
  BY AgentAssumption DEF Started
<1> QED
  BY <1>1, FS_Subset, FS_CardinalityType

\* One more request has been started.
LEMMA StartsOne ==
  ASSUME NEW ph \in [Requests -> Phases], NEW r \in Requests, ph[r] = "new"
  PROVE  Cardinality(Started([ph EXCEPT ![r] = "waiting"])) = Cardinality(Started(ph)) + 1
<1>1. IsFiniteSet(Requests) /\ Started(ph) \subseteq Requests
  BY AgentAssumption DEF Started
<1>2. IsFiniteSet(Started(ph))
  BY <1>1, FS_Subset
<1>3. r \notin Started(ph) /\ Started([ph EXCEPT ![r] = "waiting"]) = Started(ph) \cup {r}
  BY DEF Started
<1> QED
  BY <1>2, <1>3, FS_AddElement

\* The next number for a socket, while a request is in the queue or starts.
LEMMA NextSocket ==
  ASSUME NEW rq, NEW sk, NEW fr, NEW cr, NEW tk, NEW ph, NEW so,
         Consistent(rq, sk, fr, cr, tk, ph, so), cr + 1 <= Cardinality(Requests)
  PROVE  /\ cr + 1 \in Sockets /\ cr + 1 \notin ToSet(sk) \cup ToSet(fr) /\ ~Held(tk, cr + 1)
         /\ \A r \in Requests : ph[r] \in Serving => so[r] # cr + 1
<1>1. cr \in Nat /\ ~(cr + 1 <= cr)
  BY DEF Consistent, ConsistentTypes
<1>2. Cardinality(Requests) \in Nat
  BY Budget, AgentAssumption, FS_CardinalityType
<1>3. cr + 1 \in Sockets
  BY <1>1, <1>2 DEF Sockets
<1> QED
  BY <1>1, <1>3 DEF Consistent

\* A socket leaves the pool, or both pools.
LEMMA RemoveKeeps ==
  ASSUME NEW rq, NEW sk, NEW fr, NEW cr, NEW tk, NEW ph, NEW so, NEW s,
         Consistent(rq, sk, fr, cr, tk, ph, so),
         NEW f \in {fr, RemoveFirst(fr, s)}
  PROVE  Consistent(rq, RemoveFirst(sk, s), f, cr, tk, ph, so)
<1>1. sk \in Seq(Sockets) /\ fr \in Seq(Sockets) /\ IsInjective(sk) /\ IsInjective(fr)
  BY DEF Consistent, ConsistentTypes
<1>2. /\ RemoveFirst(sk, s) \in Seq(Sockets) /\ IsInjective(RemoveFirst(sk, s))
      /\ ToSet(RemoveFirst(sk, s)) \subseteq ToSet(sk)
  BY <1>1, RemoveFirstElement
<1>3. f \in Seq(Sockets) /\ IsInjective(f) /\ ToSet(f) \subseteq ToSet(fr)
  BY <1>1, RemoveFirstElement
<1> DEFINE k == RemoveFirst(sk, s)
<1> HIDE DEF k
<1>4. k \in Seq(Sockets) /\ IsInjective(k) /\ ToSet(k) \subseteq ToSet(sk)
  BY <1>2 DEF k
<1>5. Consistent(rq, k, f, cr, tk, ph, so)
  BY <1>3, <1>4 DEF Consistent, ConsistentTypes
<1> QED
  BY <1>5 DEF k

\* The first queued request is given a socket that nobody uses.
LEMMA ReuseKeeps ==
  ASSUME NEW rq, NEW sk, NEW fr, NEW cr, NEW tk, NEW ph, NEW so, NEW s,
         Consistent(rq, sk, fr, cr, tk, ph, so), rq # <<>>, IdleSocket(s, fr, cr, tk, ph, so)
  PROVE  Consistent(Tail(rq), sk, fr, cr, Append(tk, OnSocket(Head(rq), s)), ph, so)
<1> DEFINE r == Head(rq)
           q == Tail(rq)
           x == OnSocket(r, s)
           t == Append(tk, x)
<1>1. rq \in Seq(Requests) /\ IsInjective(rq) /\ tk \in Seq(TickTypes) /\ Apart(tk)
      /\ cr \in Nat /\ ph \in [Requests -> Phases]
  BY DEF Consistent, ConsistentTypes
<1>2. /\ q \in Seq(Requests) /\ r \in Requests /\ Len(q) = Len(rq) - 1 /\ Len(rq) \in Nat \ {0}
      /\ ToSet(rq) = {r} \cup ToSet(q) /\ IsInjective(q) /\ r \notin ToSet(q)
  BY <1>1, TailElements
<1>3. s \in Sockets /\ s <= cr /\ s \notin ToSet(fr) /\ ~Held(tk, s)
      /\ \A a \in Requests : ph[a] \in Serving => so[a] # s
  BY DEF IdleSocket
<1> HIDE DEF r, q
<1>4. ~Due(tk, r) /\ ph[r] = "waiting"
  BY <1>2 DEF Consistent
<1>5. x \in TickTypes /\ x.r = r /\ x.s = s
  BY <1>2, <1>3 DEF TickTypes, OnSocket
<1> HIDE DEF x
<1>6. /\ t \in Seq(TickTypes) /\ Apart(t)
      /\ \A a : Held(t, a) <=> a = s \/ Held(tk, a)
      /\ \A a : Due(t, a) <=> a = r \/ Due(tk, a)
  BY <1>1, <1>3, <1>4, <1>5, TicksAppend
<1> HIDE DEF t
<1>7. cr + Len(q) <= Cardinality(Started(ph))
  BY <1>1, <1>2, Budget DEF Consistent
<1>8. ConsistentTypes(q, sk, fr, cr, t, ph, so)
  BY <1>2, <1>6 DEF Consistent, ConsistentTypes
<1>9. \A a \in Sockets : Held(t, a) => a <= cr /\ a \notin ToSet(fr)
  BY <1>3, <1>6 DEF Consistent
<1>10. ASSUME NEW a \in Requests
       PROVE  /\ ph[a] = "waiting" <=> a \in ToSet(q) \/ Due(t, a)
              /\ ~(a \in ToSet(q) /\ Due(t, a))
              /\ ph[a] \in Serving =>
                   /\ so[a] \in Sockets /\ so[a] <= cr
                   /\ so[a] \notin ToSet(fr) /\ ~Held(t, so[a])
                   /\ \A b \in Requests \ {a} : ph[b] \in Serving => so[b] # so[a]
  <2>1. /\ ph[a] = "waiting" <=> a \in ToSet(rq) \/ Due(tk, a)
        /\ ~(a \in ToSet(rq) /\ Due(tk, a))
        /\ ph[a] \in Serving =>
             /\ so[a] \in Sockets /\ so[a] <= cr
             /\ so[a] \notin ToSet(fr) /\ ~Held(tk, so[a])
             /\ \A b \in Requests \ {a} : ph[b] \in Serving => so[b] # so[a]
    BY DEF Consistent
  <2>2. /\ ph[a] = "waiting" <=> a \in ToSet(q) \/ Due(t, a)
        /\ ~(a \in ToSet(q) /\ Due(t, a))
    BY <1>2, <1>6, <2>1
  <2> QED
    BY <1>3, <1>6, <2>1, <2>2
<1>11. Consistent(q, sk, fr, cr, t, ph, so)
  BY <1>2, <1>6, <1>7, <1>8, <1>9, <1>10 DEF Consistent
<1> QED
  BY <1>11 DEF q, r, t, x

\* The first queued request is given a new socket.
LEMMA NewSocketKeeps ==
  ASSUME NEW rq, NEW sk, NEW fr, NEW cr, NEW tk, NEW ph, NEW so,
         Consistent(rq, sk, fr, cr, tk, ph, so), rq # <<>>
  PROVE  Consistent(Tail(rq), Append(sk, cr + 1), fr, cr + 1,
                    Append(tk, OnSocket(Head(rq), cr + 1)), ph, so)
<1> DEFINE r == Head(rq)
           q == Tail(rq)
           s == cr + 1
           k == Append(sk, s)
           x == OnSocket(r, s)
           t == Append(tk, x)
<1>1. rq \in Seq(Requests) /\ IsInjective(rq) /\ tk \in Seq(TickTypes) /\ Apart(tk)
      /\ cr \in Nat /\ ph \in [Requests -> Phases] /\ sk \in Seq(Sockets) /\ IsInjective(sk)
  BY DEF Consistent, ConsistentTypes
<1>2. /\ q \in Seq(Requests) /\ r \in Requests /\ Len(q) = Len(rq) - 1 /\ Len(rq) \in Nat \ {0}
      /\ ToSet(rq) = {r} \cup ToSet(q) /\ IsInjective(q) /\ r \notin ToSet(q)
  BY <1>1, TailElements
<1> HIDE DEF r, q
<1>3. /\ cr + 1 <= Cardinality(Requests) /\ s + Len(q) <= Cardinality(Started(ph))
  <2>1. cr + Len(rq) <= Cardinality(Started(ph))
    BY DEF Consistent
  <2> QED
    BY <1>1, <1>2, <2>1, Budget
<1>4. /\ s \in Sockets /\ s \notin ToSet(sk) \cup ToSet(fr) /\ ~Held(tk, s)
      /\ \A a \in Requests : ph[a] \in Serving => so[a] # s
  BY <1>3, NextSocket
<1>5. s \in Nat /\ s <= s /\ \A n \in Nat : n <= cr => n <= s
  BY <1>1
<1> HIDE DEF s
<1>6. ~Due(tk, r) /\ ph[r] = "waiting"
  BY <1>2 DEF Consistent
<1>7. x \in TickTypes /\ x.r = r /\ x.s = s
  BY <1>2, <1>4 DEF TickTypes, OnSocket
<1> HIDE DEF x
<1>8. /\ t \in Seq(TickTypes) /\ Apart(t)
      /\ \A a : Held(t, a) <=> a = s \/ Held(tk, a)
      /\ \A a : Due(t, a) <=> a = r \/ Due(tk, a)
  BY <1>1, <1>4, <1>6, <1>7, TicksAppend
<1> HIDE DEF t
<1>9. k \in Seq(Sockets) /\ IsInjective(k) /\ ToSet(k) = ToSet(sk) \cup {s}
  BY <1>1, <1>4, AppendElement
<1> HIDE DEF k
<1>10. Sockets \subseteq Nat
  BY DEF Sockets
<1>11. ConsistentTypes(q, k, fr, s, t, ph, so)
  BY <1>2, <1>5, <1>8, <1>9 DEF Consistent, ConsistentTypes
<1>12. \A a \in ToSet(k) \cup ToSet(fr) : a <= s
  <2>1. \A a \in ToSet(sk) \cup ToSet(fr) : a \in Nat /\ a <= cr
    BY <1>1, <1>10, ToSetPlaces DEF Consistent, ConsistentTypes
  <2> QED
    BY <1>5, <1>9, <2>1
<1>13. \A a \in Sockets : Held(t, a) => a <= s /\ a \notin ToSet(fr)
  BY <1>4, <1>5, <1>8, <1>10 DEF Consistent
<1>14. ASSUME NEW a \in Requests
       PROVE  /\ ph[a] = "waiting" <=> a \in ToSet(q) \/ Due(t, a)
              /\ ~(a \in ToSet(q) /\ Due(t, a))
              /\ ph[a] \in Serving =>
                   /\ so[a] \in Sockets /\ so[a] <= s
                   /\ so[a] \notin ToSet(fr) /\ ~Held(t, so[a])
                   /\ \A b \in Requests \ {a} : ph[b] \in Serving => so[b] # so[a]
  <2>1. /\ ph[a] = "waiting" <=> a \in ToSet(rq) \/ Due(tk, a)
        /\ ~(a \in ToSet(rq) /\ Due(tk, a))
        /\ ph[a] \in Serving =>
             /\ so[a] \in Sockets /\ so[a] <= cr
             /\ so[a] \notin ToSet(fr) /\ ~Held(tk, so[a])
             /\ \A b \in Requests \ {a} : ph[b] \in Serving => so[b] # so[a]
    BY DEF Consistent
  <2>2. /\ ph[a] = "waiting" <=> a \in ToSet(q) \/ Due(t, a)
        /\ ~(a \in ToSet(q) /\ Due(t, a))
    BY <1>2, <1>8, <2>1
  <2> QED
    BY <1>4, <1>5, <1>8, <1>10, <2>1, <2>2
<1>15. ToSet(k) \cap ToSet(fr) = {}
  BY <1>4, <1>9 DEF Consistent
<1>16. IsInjective(fr)
  BY DEF Consistent
<1>17. Consistent(q, k, fr, s, t, ph, so)
  BY <1>2, <1>3, <1>8, <1>9, <1>11, <1>12, <1>13, <1>14, <1>15, <1>16 DEF Consistent
<1> QED
  BY <1>17 DEF q, r, t, x, k, s

\* A socket that nobody uses enters the free pool.
LEMMA PoolKeeps ==
  ASSUME NEW rq, NEW sk, NEW fr, NEW cr, NEW tk, NEW ph, NEW so, NEW s,
         Consistent(rq, sk, fr, cr, tk, ph, so), IdleSocket(s, fr, cr, tk, ph, so)
  PROVE  Consistent(rq, RemoveFirst(sk, s), Append(fr, s), cr, tk, ph, so)
<1> DEFINE k == RemoveFirst(sk, s)
           f == Append(fr, s)
<1>1. sk \in Seq(Sockets) /\ fr \in Seq(Sockets) /\ IsInjective(sk) /\ IsInjective(fr)
  BY DEF Consistent, ConsistentTypes
<1>2. s \in Sockets /\ s <= cr /\ s \notin ToSet(fr) /\ ~Held(tk, s)
      /\ \A a \in Requests : ph[a] \in Serving => so[a] # s
  BY DEF IdleSocket
<1>3. k \in Seq(Sockets) /\ IsInjective(k) /\ ToSet(k) = ToSet(sk) \ {s}
  BY <1>1, RemoveFirstElement
<1>4. f \in Seq(Sockets) /\ IsInjective(f) /\ ToSet(f) = ToSet(fr) \cup {s}
  BY <1>1, <1>2, AppendElement
<1> HIDE DEF k, f
<1>5. ToSet(k) \cap ToSet(f) = {} /\ \A a \in ToSet(k) \cup ToSet(f) : a <= cr
  BY <1>2, <1>3, <1>4 DEF Consistent
<1>6. ConsistentTypes(rq, k, f, cr, tk, ph, so)
  BY <1>3, <1>4 DEF Consistent, ConsistentTypes
<1>7. \A a \in Sockets : Held(tk, a) => a <= cr /\ a \notin ToSet(f)
  BY <1>2, <1>4 DEF Consistent
<1>8. \A a \in Requests :
        /\ ph[a] = "waiting" <=> a \in ToSet(rq) \/ Due(tk, a)
        /\ ~(a \in ToSet(rq) /\ Due(tk, a))
        /\ ph[a] \in Serving =>
             /\ so[a] \in Sockets /\ so[a] <= cr
             /\ so[a] \notin ToSet(f) /\ ~Held(tk, so[a])
             /\ \A b \in Requests \ {a} : ph[b] \in Serving => so[b] # so[a]
  BY <1>2, <1>4 DEF Consistent
<1>9. Consistent(rq, k, f, cr, tk, ph, so)
  BY <1>3, <1>4, <1>5, <1>6, <1>7, <1>8 DEF Consistent
<1> QED
  BY <1>9 DEF k, f

\* Requests that neither start nor wait change their phase; none comes to a socket.
LEMMA PhaseKeeps ==
  ASSUME NEW rq, NEW sk, NEW fr, NEW cr, NEW tk, NEW ph, NEW so,
         Consistent(rq, sk, fr, cr, tk, ph, so),
         NEW p \in [Requests -> Phases],
         \A r \in Requests : /\ p[r] = "new" <=> ph[r] = "new"
                             /\ p[r] = "waiting" <=> ph[r] = "waiting"
                             /\ p[r] \in Serving => ph[r] \in Serving
  PROVE  Consistent(rq, sk, fr, cr, tk, p, so)
<1>1. Started(p) = Started(ph)
  BY DEF Started
<1>2. ConsistentTypes(rq, sk, fr, cr, tk, p, so)
  BY DEF Consistent, ConsistentTypes
<1>3. \A a \in Requests :
        /\ p[a] = "waiting" <=> a \in ToSet(rq) \/ Due(tk, a)
        /\ ~(a \in ToSet(rq) /\ Due(tk, a))
        /\ p[a] \in Serving =>
             /\ so[a] \in Sockets /\ so[a] <= cr
             /\ so[a] \notin ToSet(fr) /\ ~Held(tk, so[a])
             /\ \A b \in Requests \ {a} : p[b] \in Serving => so[b] # so[a]
  BY DEF Consistent
<1> QED
  BY <1>1, <1>2, <1>3 DEF Consistent

\* The tick of a 'free' event, or of the onSocket of an aborted request, is taken:
\* its socket is used by nobody.
LEMMA FreeTickKeeps ==
  ASSUME NEW rq, NEW sk, NEW fr, NEW cr, NEW tk, NEW ph, NEW so,
         Consistent(rq, sk, fr, cr, tk, ph, so), tk # <<>>, NEW p,
         \/ Head(tk).r = NoRequest /\ p = ph
         \/ Head(tk).r # NoRequest /\ p = [ph EXCEPT ![Head(tk).r] = "ended"]
  PROVE  /\ Consistent(rq, sk, fr, cr, Tail(tk), p, so)
         /\ IdleSocket(Head(tk).s, fr, cr, Tail(tk), p, so)
<1> DEFINE t == Tail(tk)
           s == Head(tk).s
           r == Head(tk).r
<1>1. tk \in Seq(TickTypes) /\ Apart(tk) /\ ph \in [Requests -> Phases]
  BY DEF Consistent, ConsistentTypes
<1>2. /\ t \in Seq(TickTypes) /\ Head(tk) \in TickTypes /\ Apart(t)
      /\ \A a : Held(tk, a) <=> a = s \/ Held(t, a)
      /\ \A a : Due(tk, a) <=> a = r \/ Due(t, a)
      /\ ~Held(t, s) /\ (r # NoRequest => ~Due(t, r))
  BY <1>1, TicksTail
<1>3. s \in Sockets /\ r \in Requests \cup {NoRequest} /\ NoRequest \notin Requests
  BY <1>2, AgentAssumption DEF TickTypes
<1>4. \/ r = NoRequest /\ p = ph
      \/ r # NoRequest /\ p = [ph EXCEPT ![r] = "ended"]
  OBVIOUS
<1> HIDE DEF t, s, r
<1>5. r # NoRequest => ph[r] = "waiting" /\ r \notin ToSet(rq)
  BY <1>2, <1>3 DEF Consistent
<1>6. p \in [Requests -> Phases] /\ Started(p) = Started(ph)
      /\ \A a \in Requests : p[a] = IF a = r THEN "ended" ELSE ph[a]
  BY <1>1, <1>3, <1>4, <1>5 DEF Phases, Started
<1>7. ConsistentTypes(rq, sk, fr, cr, t, p, so)
  BY <1>2, <1>6 DEF Consistent, ConsistentTypes
<1>8. \A a \in Sockets : Held(t, a) => a <= cr /\ a \notin ToSet(fr)
  BY <1>2 DEF Consistent
<1>9. \A a \in Requests :
        /\ p[a] = "waiting" <=> a \in ToSet(rq) \/ Due(t, a)
        /\ ~(a \in ToSet(rq) /\ Due(t, a))
        /\ p[a] \in Serving =>
             /\ so[a] \in Sockets /\ so[a] <= cr
             /\ so[a] \notin ToSet(fr) /\ ~Held(t, so[a])
             /\ \A b \in Requests \ {a} : p[b] \in Serving => so[b] # so[a]
  <2> TAKE a \in Requests
  <2>1. CASE a = r
    <3>1. p[a] = "ended" /\ ~Due(t, a) /\ a \notin ToSet(rq)
      BY <1>2, <1>3, <1>5, <1>6, <2>1
    <3> QED
      BY <3>1 DEF Serving
  <2>2. CASE a # r
    <3>1. p[a] = ph[a] /\ (Due(t, a) <=> Due(tk, a))
      BY <1>2, <1>6, <2>2
    <3>2. \A b \in Requests : p[b] \in Serving => ph[b] \in Serving
      BY <1>6 DEF Serving
    <3> QED
      BY <1>2, <3>1, <3>2 DEF Consistent
  <2> QED
    BY <2>1, <2>2
<1>10. Consistent(rq, sk, fr, cr, t, p, so)
  BY <1>2, <1>6, <1>7, <1>8, <1>9 DEF Consistent
<1>11. IdleSocket(s, fr, cr, t, p, so)
  <2>1. s <= cr /\ s \notin ToSet(fr)
    BY <1>2, <1>3 DEF Consistent
  <2>2. \A a \in Requests : p[a] \in Serving => so[a] # s
    <3> SUFFICES ASSUME NEW a \in Requests, p[a] \in Serving PROVE so[a] # s
      OBVIOUS
    <3>1. ph[a] \in Serving
      BY <1>6 DEF Serving
    <3> QED
      BY <1>2, <3>1 DEF Consistent
  <2> QED
    BY <1>2, <1>3, <2>1, <2>2 DEF IdleSocket
<1> QED
  BY <1>10, <1>11 DEF t, s

\* The tick of onSocket is taken: the request is on the socket.
LEMMA ServeKeeps ==
  ASSUME NEW rq, NEW sk, NEW fr, NEW cr, NEW tk, NEW ph, NEW so,
         Consistent(rq, sk, fr, cr, tk, ph, so), tk # <<>>, Head(tk).r # NoRequest
  PROVE  Consistent(rq, sk, fr, cr, Tail(tk), [ph EXCEPT ![Head(tk).r] = "active"],
                    [so EXCEPT ![Head(tk).r] = Head(tk).s])
<1> DEFINE t == Tail(tk)
           s == Head(tk).s
           r == Head(tk).r
           p == [ph EXCEPT ![r] = "active"]
           o == [so EXCEPT ![r] = s]
<1>1. tk \in Seq(TickTypes) /\ Apart(tk) /\ ph \in [Requests -> Phases]
      /\ so \in [Requests -> Sockets \cup {0}]
  BY DEF Consistent, ConsistentTypes
<1>2. /\ t \in Seq(TickTypes) /\ Head(tk) \in TickTypes /\ Apart(t)
      /\ \A a : Held(tk, a) <=> a = s \/ Held(t, a)
      /\ \A a : Due(tk, a) <=> a = r \/ Due(t, a)
      /\ ~Held(t, s) /\ ~Due(t, r)
  BY <1>1, TicksTail
<1>3. s \in Sockets /\ r \in Requests
  BY <1>2 DEF TickTypes
<1> HIDE DEF t, s, r
<1>4. ph[r] = "waiting" /\ r \notin ToSet(rq) /\ s <= cr /\ s \notin ToSet(fr)
  BY <1>2, <1>3 DEF Consistent
<1>5. p \in [Requests -> Phases] /\ Started(p) = Started(ph)
      /\ \A a \in Requests : p[a] = IF a = r THEN "active" ELSE ph[a]
  BY <1>1, <1>3, <1>4 DEF Phases, Started
<1>6. o \in [Requests -> Sockets \cup {0}]
      /\ \A a \in Requests : o[a] = IF a = r THEN s ELSE so[a]
  BY <1>1, <1>3
<1> HIDE DEF p, o
<1>7. ConsistentTypes(rq, sk, fr, cr, t, p, o)
  BY <1>2, <1>5, <1>6 DEF Consistent, ConsistentTypes
<1>8. \A a \in Sockets : Held(t, a) => a <= cr /\ a \notin ToSet(fr)
  BY <1>2 DEF Consistent
<1>9. \A a \in Requests \ {r} : ph[a] \in Serving => so[a] # s
  BY <1>2 DEF Consistent
<1>10. \A a \in Requests :
        /\ p[a] = "waiting" <=> a \in ToSet(rq) \/ Due(t, a)
        /\ ~(a \in ToSet(rq) /\ Due(t, a))
        /\ p[a] \in Serving =>
             /\ o[a] \in Sockets /\ o[a] <= cr
             /\ o[a] \notin ToSet(fr) /\ ~Held(t, o[a])
             /\ \A b \in Requests \ {a} : p[b] \in Serving => o[b] # o[a]
  <2> TAKE a \in Requests
  <2>1. CASE a = r
    <3>1. p[a] = "active" /\ ~Due(t, a) /\ a \notin ToSet(rq) /\ o[a] = s
      BY <1>2, <1>4, <1>5, <1>6, <2>1
    <3>2. \A b \in Requests \ {a} : p[b] \in Serving => o[b] # o[a]
      BY <1>5, <1>6, <1>9, <2>1, <3>1
    <3> QED
      BY <1>2, <1>3, <1>4, <3>1, <3>2
  <2>2. CASE a # r
    <3>1. p[a] = ph[a] /\ (Due(t, a) <=> Due(tk, a)) /\ o[a] = so[a]
      BY <1>2, <1>5, <1>6, <2>2
    <3>2. p[a] \in Serving => \A b \in Requests \ {a} : p[b] \in Serving => o[b] # o[a]
      BY <1>5, <1>6, <1>9, <2>2, <3>1 DEF Consistent
    <3> QED
      BY <1>2, <3>1, <3>2 DEF Consistent
  <2> QED
    BY <2>1, <2>2
<1>11. Consistent(rq, sk, fr, cr, t, p, o)
  BY <1>2, <1>5, <1>7, <1>8, <1>10 DEF Consistent
<1> QED
  BY <1>11 DEF t, s, r, p, o

\* The response has ended: a tick is queued that announces the socket free.
LEMMA AnnounceKeeps ==
  ASSUME NEW rq, NEW sk, NEW fr, NEW cr, NEW tk, NEW ph, NEW so, NEW r \in Requests,
         Consistent(rq, sk, fr, cr, tk, ph, so), ph[r] = "responding"
  PROVE  Consistent(rq, sk, fr, cr, Append(tk, FreeEvent(so[r])),
                    [ph EXCEPT ![r] = "ended"], so)
<1> DEFINE s == so[r]
           x == FreeEvent(s)
           t == Append(tk, x)
           p == [ph EXCEPT ![r] = "ended"]
<1>1. tk \in Seq(TickTypes) /\ Apart(tk) /\ ph \in [Requests -> Phases]
  BY DEF Consistent, ConsistentTypes
<1>2. /\ s \in Sockets /\ s <= cr /\ s \notin ToSet(fr) /\ ~Held(tk, s)
      /\ \A b \in Requests \ {r} : ph[b] \in Serving => so[b] # s
  BY DEF Consistent, Serving
<1> HIDE DEF s
<1>3. x \in TickTypes /\ x.r = NoRequest /\ x.s = s
  BY <1>2 DEF TickTypes, FreeEvent
<1> HIDE DEF x
<1>4. /\ t \in Seq(TickTypes) /\ Apart(t)
      /\ \A a : Held(t, a) <=> a = s \/ Held(tk, a)
      /\ \A a : Due(t, a) <=> a = NoRequest \/ Due(tk, a)
  BY <1>1, <1>2, <1>3, TicksAppend
<1> HIDE DEF t
<1>5. p \in [Requests -> Phases] /\ Started(p) = Started(ph)
      /\ \A a \in Requests : p[a] = IF a = r THEN "ended" ELSE ph[a]
  BY <1>1 DEF Phases, Started
<1> HIDE DEF p
<1>6. ConsistentTypes(rq, sk, fr, cr, t, p, so)
  BY <1>4, <1>5 DEF Consistent, ConsistentTypes
<1>7. \A a \in Sockets : Held(t, a) => a <= cr /\ a \notin ToSet(fr)
  BY <1>2, <1>4 DEF Consistent
<1>8. \A a \in Requests :
        /\ p[a] = "waiting" <=> a \in ToSet(rq) \/ Due(t, a)
        /\ ~(a \in ToSet(rq) /\ Due(t, a))
        /\ p[a] \in Serving =>
             /\ so[a] \in Sockets /\ so[a] <= cr
             /\ so[a] \notin ToSet(fr) /\ ~Held(t, so[a])
             /\ \A b \in Requests \ {a} : p[b] \in Serving => so[b] # so[a]
  <2> TAKE a \in Requests
  <2>1. a # NoRequest
    BY AgentAssumption
  <2>2. CASE a = r
    <3>1. p[a] = "ended" /\ ~(a \in ToSet(rq) \/ Due(tk, a))
      BY <1>5, <2>2 DEF Consistent
    <3> QED
      BY <1>4, <2>1, <3>1 DEF Serving
  <2>3. CASE a # r
    <3>1. p[a] = ph[a] /\ (Due(t, a) <=> Due(tk, a))
      BY <1>4, <1>5, <2>1, <2>3
    <3>2. \A b \in Requests : p[b] \in Serving => ph[b] \in Serving
      BY <1>5 DEF Serving
    <3>3. ph[a] \in Serving => so[a] # s
      BY <1>2, <2>3
    <3> QED
      BY <1>4, <3>1, <3>2, <3>3 DEF Consistent
  <2> QED
    BY <2>2, <2>3
<1>9. Consistent(rq, sk, fr, cr, t, p, so)
  BY <1>4, <1>5, <1>6, <1>7, <1>8 DEF Consistent
<1> QED
  BY <1>9 DEF t, x, s, p

\* A request starts with a socket that it alone will use.
LEMMA StartsOnSocket ==
  ASSUME NEW rq, NEW sk, NEW fr, NEW cr, NEW tk, NEW ph, NEW so,
         NEW k, NEW f, NEW c, NEW r \in Requests, NEW s,
         Consistent(rq, sk, fr, cr, tk, ph, so), ph[r] = "new",
         k \in Seq(Sockets), IsInjective(k), f \in Seq(Sockets), IsInjective(f),
         ToSet(k) = ToSet(sk) \cup {s}, ToSet(f) = ToSet(fr) \ {s}, s \notin ToSet(sk),
         s \in Sockets, s <= c, ~Held(tk, s),
         \A a \in Requests : ph[a] \in Serving => so[a] # s,
         c \in {cr, cr + 1}
  PROVE  Consistent(rq, k, f, c, Append(tk, OnSocket(r, s)), [ph EXCEPT ![r] = "waiting"], so)
<1> DEFINE x == OnSocket(r, s)
           t == Append(tk, x)
           p == [ph EXCEPT ![r] = "waiting"]
<1>1. tk \in Seq(TickTypes) /\ Apart(tk) /\ ph \in [Requests -> Phases] /\ cr \in Nat
      /\ rq \in Seq(Requests) /\ sk \in Seq(Sockets) /\ fr \in Seq(Sockets)
      /\ so \in [Requests -> Sockets \cup {0}] /\ Sockets \subseteq Nat
  BY DEF Consistent, ConsistentTypes, Sockets
<1>2. ~Due(tk, r) /\ r \notin ToSet(rq) /\ r # NoRequest
  BY AgentAssumption DEF Consistent
<1>3. x \in TickTypes /\ x.r = r /\ x.s = s
  BY DEF TickTypes, OnSocket
<1> HIDE DEF x
<1>4. /\ t \in Seq(TickTypes) /\ Apart(t)
      /\ \A a : Held(t, a) <=> a = s \/ Held(tk, a)
      /\ \A a : Due(t, a) <=> a = r \/ Due(tk, a)
  BY <1>1, <1>2, <1>3, TicksAppend
<1> HIDE DEF t
<1>5. p \in [Requests -> Phases]
      /\ \A a \in Requests : p[a] = IF a = r THEN "waiting" ELSE ph[a]
  BY <1>1 DEF Phases
<1>6. c \in Nat /\ cr <= c /\ c + Len(rq) <= Cardinality(Started(p))
  <2>1. cr + Len(rq) <= Cardinality(Started(ph)) /\ Len(rq) \in Nat
    BY <1>1 DEF Consistent
  <2>2. Cardinality(Started(p)) = Cardinality(Started(ph)) + 1
    BY <1>1, StartsOne
  <2>3. Cardinality(Started(ph)) \in Nat
    BY <1>1, Budget
  <2> QED
    BY <1>1, <2>1, <2>2, <2>3
<1> HIDE DEF p
<1>7. ConsistentTypes(rq, k, f, c, t, p, so)
  BY <1>1, <1>4, <1>5, <1>6 DEF ConsistentTypes
<1>8. \A n \in Nat : n <= cr => n <= c
  BY <1>1, <1>6
<1>9. \A a \in ToSet(k) \cup ToSet(f) : a <= c
  <2>1. \A a \in ToSet(sk) \cup ToSet(fr) : a \in Nat /\ a <= cr
    BY <1>1, ToSetPlaces DEF Consistent
  <2> QED
    BY <1>8, <2>1
<1>10. ToSet(k) \cap ToSet(f) = {}
  BY DEF Consistent
<1>11. \A a \in Sockets : Held(t, a) => a <= c /\ a \notin ToSet(f)
  BY <1>1, <1>4, <1>8 DEF Consistent
<1>12. \A a \in Requests :
        /\ p[a] = "waiting" <=> a \in ToSet(rq) \/ Due(t, a)
        /\ ~(a \in ToSet(rq) /\ Due(t, a))
        /\ p[a] \in Serving =>
             /\ so[a] \in Sockets /\ so[a] <= c
             /\ so[a] \notin ToSet(f) /\ ~Held(t, so[a])
             /\ \A b \in Requests \ {a} : p[b] \in Serving => so[b] # so[a]
  <2> TAKE a \in Requests
  <2>1. CASE a = r
    <3>1. p[a] = "waiting" /\ Due(t, a) /\ a \notin ToSet(rq)
      BY <1>2, <1>4, <1>5, <2>1
    <3> QED
      BY <3>1 DEF Serving
  <2>2. CASE a # r
    <3>1. p[a] = ph[a] /\ (Due(t, a) <=> Due(tk, a))
      BY <1>4, <1>5, <2>2
    <3>2. \A b \in Requests : p[b] \in Serving => ph[b] \in Serving
      BY <1>5 DEF Serving
    <3>3. /\ ph[a] = "waiting" <=> a \in ToSet(rq) \/ Due(tk, a)
          /\ ~(a \in ToSet(rq) /\ Due(tk, a))
          /\ ph[a] \in Serving =>
               /\ so[a] \in Sockets /\ so[a] <= cr
               /\ so[a] \notin ToSet(fr) /\ ~Held(tk, so[a])
               /\ \A b \in Requests \ {a} : ph[b] \in Serving => so[b] # so[a]
      BY DEF Consistent
    <3> QED
      BY <1>1, <1>4, <1>8, <3>1, <3>2, <3>3
  <2> QED
    BY <2>1, <2>2
<1>13. IsInjective(rq)
  BY DEF Consistent
<1>14. Consistent(rq, k, f, c, t, p, so)
  BY <1>4, <1>6, <1>7, <1>9, <1>10, <1>11, <1>12, <1>13 DEF Consistent
<1> QED
  BY <1>14 DEF t, x, p

\* A request starts in the queue.
LEMMA StartsQueued ==
  ASSUME NEW rq, NEW sk, NEW fr, NEW cr, NEW tk, NEW ph, NEW so, NEW r \in Requests,
         Consistent(rq, sk, fr, cr, tk, ph, so), ph[r] = "new"
  PROVE  Consistent(Append(rq, r), sk, fr, cr, tk, [ph EXCEPT ![r] = "waiting"], so)
<1> DEFINE q == Append(rq, r)
           p == [ph EXCEPT ![r] = "waiting"]
<1>1. ph \in [Requests -> Phases] /\ cr \in Nat /\ rq \in Seq(Requests) /\ IsInjective(rq)
  BY DEF Consistent, ConsistentTypes
<1>2. ~Due(tk, r) /\ r \notin ToSet(rq)
  BY DEF Consistent
<1>3. /\ q \in Seq(Requests) /\ Len(q) = Len(rq) + 1 /\ ToSet(q) = ToSet(rq) \cup {r}
      /\ IsInjective(q)
  BY <1>1, <1>2, AppendElement
<1> HIDE DEF q
<1>4. p \in [Requests -> Phases]
      /\ \A a \in Requests : p[a] = IF a = r THEN "waiting" ELSE ph[a]
  BY <1>1 DEF Phases
<1>5. cr + Len(q) <= Cardinality(Started(p))
  <2>1. cr + Len(rq) <= Cardinality(Started(ph)) /\ Len(rq) \in Nat
    BY <1>1 DEF Consistent
  <2>2. Cardinality(Started(p)) = Cardinality(Started(ph)) + 1
    BY <1>1, StartsOne
  <2>3. Cardinality(Started(ph)) \in Nat
    BY <1>1, Budget
  <2> QED
    BY <1>1, <1>3, <2>1, <2>2, <2>3
<1> HIDE DEF p
<1>6. ConsistentTypes(q, sk, fr, cr, tk, p, so)
  BY <1>3, <1>4 DEF Consistent, ConsistentTypes
<1>7. \A a \in Requests :
        /\ p[a] = "waiting" <=> a \in ToSet(q) \/ Due(tk, a)
        /\ ~(a \in ToSet(q) /\ Due(tk, a))
        /\ p[a] \in Serving =>
             /\ so[a] \in Sockets /\ so[a] <= cr
             /\ so[a] \notin ToSet(fr) /\ ~Held(tk, so[a])
             /\ \A b \in Requests \ {a} : p[b] \in Serving => so[b] # so[a]
  <2> TAKE a \in Requests
  <2>1. CASE a = r
    <3>1. p[a] = "waiting" /\ ~Due(tk, a) /\ a \in ToSet(q)
      BY <1>2, <1>3, <1>4, <2>1
    <3> QED
      BY <3>1 DEF Serving
  <2>2. CASE a # r
    <3>1. p[a] = ph[a] /\ (a \in ToSet(q) <=> a \in ToSet(rq))
      BY <1>3, <1>4, <2>2
    <3>2. \A b \in Requests : p[b] \in Serving => ph[b] \in Serving
      BY <1>4 DEF Serving
    <3> QED
      BY <3>1, <3>2 DEF Consistent
  <2> QED
    BY <2>1, <2>2
<1>8. Consistent(q, sk, fr, cr, tk, p, so)
  BY <1>3, <1>5, <1>6, <1>7 DEF Consistent
<1> QED
  BY <1>8 DEF q, p

-----------------------------------------------------------------------------
(* The actions *)

\* removeSocket keeps the pools consistent, with the ticks that are left.
LEMMA RemoveSocketKeeps ==
  ASSUME NEW s, NEW due, NEW ph, NEW so,
         Consistent(requests, sockets, freeSockets, created, due, ph, so),
         RemoveSocket(s, due)
  PROVE  Consistent(requests', sockets', freeSockets', created', ticks', ph, so)
<1>1. FreeWithout(s) \in {freeSockets, RemoveFirst(freeSockets, s)}
  BY DEF FreeWithout
<1> DEFINE k == RemoveFirst(sockets, s)
           f == FreeWithout(s)
<1>2. Consistent(requests, k, f, created, due, ph, so)
  BY <1>1, RemoveKeeps
<1> HIDE DEF k, f
<1>3. CASE requests = <<>>
  <2>1. requests' = requests /\ sockets' = k /\ freeSockets' = f /\ created' = created
        /\ ticks' = due
    BY <1>3 DEF RemoveSocket, k, f
  <2> QED
    BY <1>2, <2>1
<1>4. CASE requests # <<>>
  <2>1. /\ requests' = Tail(requests) /\ sockets' = Append(k, created + 1) /\ freeSockets' = f
        /\ created' = created + 1 /\ ticks' = Append(due, OnSocket(Head(requests), created + 1))
    BY <1>4 DEF RemoveSocket, k, f
  <2> QED
    BY <1>2, <1>4, <2>1, NewSocketKeeps
<1> QED
  BY <1>3, <1>4

\* The agent's handler of 'free' does too, for a socket that nobody uses.
LEMMA EmitFreeKeeps ==
  ASSUME NEW s, NEW due, NEW ph, NEW so,
         Consistent(requests, sockets, freeSockets, created, due, ph, so),
         IdleSocket(s, freeSockets, created, due, ph, so),
         EmitFree(s, due)
  PROVE  Consistent(requests', sockets', freeSockets', created', ticks', ph, so)
<1>1. CASE s \notin listening /\ ticks' = due /\ UNCHANGED <<pools, destroyed, closing, message>>
  BY <1>1 DEF pools
<1>2. CASE /\ requests # <<>>
           /\ requests' = Tail(requests)
           /\ ticks' = Append(due, OnSocket(Head(requests), s))
           /\ UNCHANGED <<sockets, freeSockets, created>>
  BY <1>2, ReuseKeeps
<1>3. CASE Pool(s) /\ ticks' = due /\ UNCHANGED <<requests, created>>
  BY <1>3, PoolKeeps DEF Pool
<1>4. CASE RemoveSocket(s, due)
  BY <1>4, RemoveSocketKeeps
<1> QED
  BY <1>1, <1>2, <1>3, <1>4 DEF EmitFree, OnFree

\* The bound on the number of sockets follows: one for each started request.
LEMMA TypesFollow == IInv => TypeOK
<1> SUFFICES ASSUME IInv PROVE TypeOK
  OBVIOUS
<1>1. /\ ConsistentTypes(requests, sockets, freeSockets, created, ticks, phase, socketOf)
      /\ created + Len(requests) <= Cardinality(Started(phase))
  BY DEF IInv, Now, Consistent
<1>2. phase \in [Requests -> Phases] /\ created \in Nat /\ Len(requests) \in Nat
  BY <1>1 DEF ConsistentTypes
<1>3. created \in 0 .. Cardinality(Requests)
  BY <1>1, <1>2, Budget
<1> QED
  BY <1>1, <1>3 DEF IInv, TypeOK, OtherTypes, ConsistentTypes, TickTypes

\* Nothing is queued, made or served at the start.
LEMMA InitHolds == Init => IInv
<1> SUFFICES ASSUME Init PROVE IInv
  OBVIOUS
<1>1. /\ requests = <<>> /\ sockets = <<>> /\ freeSockets = <<>> /\ created = 0 /\ ticks = <<>>
      /\ \A r \in Requests : phase[r] = "new"
      /\ phase \in [Requests -> Phases] /\ socketOf \in [Requests -> Sockets \cup {0}]
  BY DEF Init, Phases
<1>2. \A S : <<>> \in Seq(S) /\ ToSet(<<>>) = {} /\ IsInjective(<<>>) /\ Len(<<>>) = 0
  BY EmptySequence
<1>3. \A x : ~Held(<<>>, x) /\ ~Due(<<>>, x)
  BY DEF Held, Due
<1>4. Apart(<<>>)
  BY DEF Apart
<1>5. 0 + 0 <= Cardinality(Started(phase))
  BY <1>1, Budget
<1>6. ConsistentTypes(requests, sockets, freeSockets, created, ticks, phase, socketOf)
  BY <1>1, <1>2 DEF ConsistentTypes
<1>7. Now
  BY <1>1, <1>2, <1>3, <1>4, <1>5, <1>6 DEF Now, Consistent, Serving
<1>8. OtherTypes
  BY DEF Init, OtherTypes
<1> QED
  BY <1>7, <1>8 DEF IInv

\* new ClientRequest: it gets an idle socket, a new one, or its place in the queue.
LEMMA AddRequestKeeps ==
  ASSUME IInv, NEW r \in Requests, AddRequest(r)
  PROVE  Now'
<1>1. /\ Consistent(requests, sockets, freeSockets, created, ticks, phase, socketOf)
      /\ phase[r] = "new" /\ socketOf' = socketOf /\ phase' = [phase EXCEPT ![r] = "waiting"]
      /\ sockets \in Seq(Sockets) /\ freeSockets \in Seq(Sockets)
      /\ IsInjective(sockets) /\ IsInjective(freeSockets)
      /\ ToSet(sockets) \cap ToSet(freeSockets) = {}
  BY DEF IInv, Now, Consistent, ConsistentTypes, AddRequest
<1>2. CASE /\ freeSockets # <<>>
           /\ freeSockets' = Tail(freeSockets)
           /\ sockets' = Append(sockets, Head(freeSockets))
           /\ ticks' = Append(ticks, OnSocket(r, Head(freeSockets)))
           /\ UNCHANGED <<requests, created>>
  <2> DEFINE s == Head(freeSockets)
             f == Tail(freeSockets)
             k == Append(sockets, s)
  <2>1. /\ f \in Seq(Sockets) /\ s \in Sockets /\ IsInjective(f)
        /\ ToSet(freeSockets) = {s} \cup ToSet(f) /\ s \notin ToSet(f)
    BY <1>1, <1>2, TailElements
  <2> HIDE DEF s, f
  <2>2. s \notin ToSet(sockets) /\ s <= created /\ ~Held(ticks, s)
        /\ \A a \in Requests : phase[a] \in Serving => socketOf[a] # s
    BY <1>1, <2>1 DEF Consistent
  <2>3. k \in Seq(Sockets) /\ IsInjective(k) /\ ToSet(k) = ToSet(sockets) \cup {s}
    BY <1>1, <2>1, <2>2, AppendElement
  <2> HIDE DEF k
  <2>4. ToSet(f) = ToSet(freeSockets) \ {s}
    BY <2>1
  <2>5. created \in {created, created + 1}
    OBVIOUS
  <2>6. Consistent(requests, k, f, created, Append(ticks, OnSocket(r, s)),
                   [phase EXCEPT ![r] = "waiting"], socketOf)
    BY <1>1, <2>1, <2>2, <2>3, <2>4, <2>5, StartsOnSocket
  <2> QED
    BY <1>1, <1>2, <2>6 DEF Now, k, f, s
<1>3. CASE /\ freeSockets = <<>>
           /\ created' = created + 1
           /\ sockets' = Append(sockets, created + 1)
           /\ ticks' = Append(ticks, OnSocket(r, created + 1))
           /\ UNCHANGED <<requests, freeSockets>>
  <2> DEFINE s == created + 1
             k == Append(sockets, s)
  <2>1. created + 1 <= Cardinality(Requests)
    <3>1. phase \in [Requests -> Phases] /\ created \in Nat /\ Len(requests) \in Nat
          /\ created + Len(requests) <= Cardinality(Started(phase))
      BY <1>1 DEF Consistent, ConsistentTypes
    <3> DEFINE p == [phase EXCEPT ![r] = "waiting"]
    <3>2. p \in [Requests -> Phases]
      BY <3>1 DEF Phases
    <3>3. Cardinality(Started(p)) = Cardinality(Started(phase)) + 1
      BY <1>1, <3>1, StartsOne
    <3> HIDE DEF p
    <3>4. Cardinality(Started(p)) <= Cardinality(Requests) /\ Cardinality(Requests) \in Nat
          /\ Cardinality(Started(phase)) \in Nat
      BY <3>1, <3>2, Budget
    <3> QED
      BY <3>1, <3>3, <3>4
  <2>2. /\ s \in Sockets /\ s \notin ToSet(sockets) \cup ToSet(freeSockets) /\ ~Held(ticks, s)
        /\ \A a \in Requests : phase[a] \in Serving => socketOf[a] # s
    BY <1>1, <2>1, NextSocket
  <2>3. s <= s /\ s \in {created, s}
    BY <1>1 DEF Consistent, ConsistentTypes
  <2>4. ToSet(freeSockets) = ToSet(freeSockets) \ {s} /\ s \in {created, created + 1}
    BY <2>2
  <2> HIDE DEF s
  <2>5. k \in Seq(Sockets) /\ IsInjective(k) /\ ToSet(k) = ToSet(sockets) \cup {s}
    BY <1>1, <2>2, AppendElement
  <2> HIDE DEF k
  <2>6. Consistent(requests, k, freeSockets, s, Append(ticks, OnSocket(r, s)),
                   [phase EXCEPT ![r] = "waiting"], socketOf)
    BY <1>1, <2>2, <2>3, <2>4, <2>5, StartsOnSocket
  <2> QED
    BY <1>1, <1>3, <2>6 DEF Now, k, s
<1>4. CASE requests' = Append(requests, r) /\ UNCHANGED <<sockets, freeSockets, created, ticks>>
  <2>1. Consistent(Append(requests, r), sockets, freeSockets, created, ticks,
                   [phase EXCEPT ![r] = "waiting"], socketOf)
    BY <1>1, StartsQueued
  <2> QED
    BY <1>1, <1>4, <2>1 DEF Now
<1> QED
  BY <1>2, <1>3, <1>4 DEF AddRequest

\* The tick at the head of the queue: onSocket, or a 'free' event.
LEMMA RunTickKeeps ==
  ASSUME IInv, RunTick
  PROVE  Now' /\ OtherTypes'
<1> DEFINE r == Head(ticks).r
           s == Head(ticks).s
           t == Tail(ticks)
<1>1. /\ Consistent(requests, sockets, freeSockets, created, ticks, phase, socketOf)
      /\ ticks # <<>> /\ OtherTypes /\ UNCHANGED <<ending, listening>>
      /\ s \in Sockets /\ r \in Requests \cup {NoRequest}
  <2>1. ticks \in Seq(TickTypes) /\ ticks # <<>>
    BY DEF IInv, Now, Consistent, ConsistentTypes, RunTick
  <2>2. Head(ticks) \in TickTypes
    BY <2>1
  <2> QED
    BY <2>1, <2>2 DEF IInv, Now, TickTypes, RunTick
<1>2. ASSUME NEW p, EmitFree(s, t), phase' = p,
             \/ r = NoRequest /\ p = phase
             \/ r # NoRequest /\ p = [phase EXCEPT ![r] = "ended"],
             UNCHANGED <<socketOf, shouldKeepAlive, aborted>>
      PROVE  Now' /\ OtherTypes'
  <2>1. /\ Consistent(requests, sockets, freeSockets, created, t, p, socketOf)
        /\ IdleSocket(s, freeSockets, created, t, p, socketOf)
    BY <1>1, <1>2, FreeTickKeeps
  <2>2. Now'
    BY <1>2, <2>1, EmitFreeKeeps DEF Now
  <2>3. /\ message' = message \/ message' = [message EXCEPT ![s] = NoRequest]
        /\ \/ destroyed' = destroyed /\ closing' = closing
           \/ destroyed' = destroyed \cup {s} /\ closing' \subseteq closing \cup {s}
    BY <1>2 DEF EmitFree, OnFree, Destroy
  <2>4. OtherTypes'
    BY <1>1, <1>2, <2>3 DEF OtherTypes
  <2> QED
    BY <2>2, <2>4
<1>3. CASE r = NoRequest /\ EmitFree(s, t) /\ UNCHANGED reqs
  BY <1>2, <1>3 DEF reqs
<1>4. CASE /\ r # NoRequest /\ EmitFree(s, t) /\ phase' = [phase EXCEPT ![r] = "ended"]
           /\ UNCHANGED <<socketOf, shouldKeepAlive, aborted>>
  BY <1>2, <1>4
<1>5. CASE /\ r # NoRequest
           /\ socketOf' = [socketOf EXCEPT ![r] = s]
           /\ message' = [message EXCEPT ![s] = r]
           /\ phase' = [phase EXCEPT ![r] = "active"]
           /\ ticks' = t
           /\ UNCHANGED <<pools, destroyed, closing, shouldKeepAlive, aborted>>
  <2>1. Consistent(requests, sockets, freeSockets, created, t, [phase EXCEPT ![r] = "active"],
                   [socketOf EXCEPT ![r] = s])
    BY <1>1, <1>5, ServeKeeps
  <2>2. Now'
    BY <1>5, <2>1 DEF Now, pools
  <2>3. OtherTypes'
    BY <1>1, <1>5 DEF OtherTypes
  <2> QED
    BY <2>2, <2>3
<1> QED
  BY <1>3, <1>4, <1>5 DEF RunTick

\* The other steps change the phase of requests on a socket, or the pools by
\* removeSocket, or what is in no pool.
LEMMA OtherStepsKeep ==
  ASSUME IInv, NEW r \in Requests, NEW s \in Sockets,
         \/ Respond(r) \/ ResponseEnd(r) \/ Upgrade(r) \/ Abort(r)
         \/ SocketFails(s) \/ Close(s)
  PROVE  Now'
<1>1. /\ Consistent(requests, sockets, freeSockets, created, ticks, phase, socketOf)
      /\ phase \in [Requests -> Phases]
  BY DEF IInv, Now, Consistent, ConsistentTypes
<1>2. CASE /\ phase[r] = "active" /\ phase' = [phase EXCEPT ![r] = "responding"]
           /\ UNCHANGED <<pools, ticks, socketOf>>
  <2>1. /\ phase' \in [Requests -> Phases]
        /\ \A a \in Requests : /\ phase'[a] = "new" <=> phase[a] = "new"
                               /\ phase'[a] = "waiting" <=> phase[a] = "waiting"
                               /\ phase'[a] \in Serving => phase[a] \in Serving
    BY <1>1, <1>2 DEF Phases, Serving
  <2>2. Consistent(requests, sockets, freeSockets, created, ticks, phase', socketOf)
    BY <1>1, <2>1, PhaseKeeps
  <2> QED
    BY <1>2, <2>2 DEF Now, pools
<1>3. CASE ResponseEnd(r)
  <2>1. phase[r] = "responding" /\ phase' = [phase EXCEPT ![r] = "ended"]
        /\ UNCHANGED <<pools, socketOf>>
    BY <1>3 DEF ResponseEnd
  <2>2. CASE ticks' = Append(ticks, FreeEvent(socketOf[r]))
    <3>1. Consistent(requests, sockets, freeSockets, created,
                     Append(ticks, FreeEvent(socketOf[r])), [phase EXCEPT ![r] = "ended"], socketOf)
      BY <1>1, <2>1, AnnounceKeeps
    <3> QED
      BY <2>1, <2>2, <3>1 DEF Now, pools
  <2>3. CASE UNCHANGED ticks
    <3>1. /\ phase' \in [Requests -> Phases]
          /\ \A a \in Requests : /\ phase'[a] = "new" <=> phase[a] = "new"
                                 /\ phase'[a] = "waiting" <=> phase[a] = "waiting"
                                 /\ phase'[a] \in Serving => phase[a] \in Serving
      BY <1>1, <2>1 DEF Phases, Serving
    <3>2. Consistent(requests, sockets, freeSockets, created, ticks, phase', socketOf)
      BY <1>1, <3>1, PhaseKeeps
    <3> QED
      BY <2>1, <2>3, <3>2 DEF Now, pools
  <2> QED
    BY <1>3, <2>2, <2>3 DEF ResponseEnd
<1>4. CASE Upgrade(r)
  <2>1. /\ phase' \in [Requests -> Phases]
        /\ \A a \in Requests : /\ phase'[a] = "new" <=> phase[a] = "new"
                               /\ phase'[a] = "waiting" <=> phase[a] = "waiting"
                               /\ phase'[a] \in Serving => phase[a] \in Serving
    BY <1>1, <1>4 DEF Phases, Serving, Upgrade
  <2>2. Consistent(requests, sockets, freeSockets, created, ticks, phase', socketOf)
    BY <1>1, <2>1, PhaseKeeps
  <2>3. RemoveSocket(socketOf[r], ticks) /\ UNCHANGED socketOf
    BY <1>4 DEF Upgrade
  <2>4. Consistent(requests', sockets', freeSockets', created', ticks', phase', socketOf)
    BY <2>2, <2>3, RemoveSocketKeeps
  <2> QED
    BY <2>3, <2>4 DEF Now
<1>5. CASE Abort(r) \/ SocketFails(s)
  <2>1. UNCHANGED <<requests, sockets, freeSockets, created, ticks, phase, socketOf>>
    BY <1>5 DEF Abort, SocketFails, pools, reqs
  <2> QED
    BY <1>1, <2>1 DEF Now
<1>6. CASE Close(s)
  <2>1. /\ phase' \in [Requests -> Phases]
        /\ \A a \in Requests : /\ phase'[a] = "new" <=> phase[a] = "new"
                               /\ phase'[a] = "waiting" <=> phase[a] = "waiting"
                               /\ phase'[a] \in Serving => phase[a] \in Serving
    BY <1>1, <1>6 DEF Phases, Serving, Close
  <2>2. Consistent(requests, sockets, freeSockets, created, ticks, phase', socketOf)
    BY <1>1, <2>1, PhaseKeeps
  <2>3. (RemoveSocket(s, ticks) \/ UNCHANGED <<pools, ticks>>) /\ UNCHANGED socketOf
    BY <1>6 DEF Close
  <2>4. Consistent(requests', sockets', freeSockets', created', ticks', phase', socketOf)
    <3>1. CASE RemoveSocket(s, ticks)
      BY <2>2, <3>1, RemoveSocketKeeps
    <3>2. CASE UNCHANGED <<pools, ticks>>
      BY <2>2, <3>2 DEF pools
    <3> QED
      BY <2>3, <3>1, <3>2
  <2> QED
    BY <2>3, <2>4 DEF Now
<1> QED
  BY <1>2, <1>3, <1>4, <1>5, <1>6 DEF Respond

\* The remaining types, by the same steps.
LEMMA OtherTypesKept ==
  ASSUME IInv, NEW r \in Requests, NEW s \in Sockets,
         \/ AddRequest(r) \/ Respond(r) \/ ResponseEnd(r) \/ Upgrade(r) \/ Abort(r)
         \/ SocketFails(s) \/ Close(s)
  PROVE  OtherTypes'
<1>1. OtherTypes /\ socketOf \in [Requests -> Sockets \cup {0}]
  BY DEF IInv, Now, Consistent, ConsistentTypes
<1>2. CASE AddRequest(r)
  BY <1>1, <1>2 DEF OtherTypes, AddRequest, life
<1>3. CASE Respond(r)
  BY <1>1, <1>3 DEF OtherTypes, Respond, life
<1>4. CASE ResponseEnd(r)
  <2>1. phase[r] = "responding" => socketOf[r] \in Sockets
    BY DEF IInv, Now, Consistent, Serving
  <2> QED
    BY <1>1, <1>4, <2>1 DEF OtherTypes, ResponseEnd
<1>5. CASE Upgrade(r)
  BY <1>1, <1>5 DEF OtherTypes, Upgrade, life
<1>6. CASE Abort(r)
  BY <1>1, <1>6 DEF OtherTypes, Abort, Destroy
<1>7. CASE SocketFails(s)
  BY <1>1, <1>7 DEF OtherTypes, SocketFails, Destroy, reqs
<1>8. CASE Close(s)
  BY <1>1, <1>8 DEF OtherTypes, Close
<1> QED
  BY <1>2, <1>3, <1>4, <1>5, <1>6, <1>7, <1>8

\* Every step keeps the invariant.
LEMMA NextHolds == IInv /\ [Next]_vars => IInv'
<1> SUFFICES ASSUME IInv, [Next]_vars PROVE IInv'
  OBVIOUS
<1>1. CASE RunTick
  BY <1>1, RunTickKeeps DEF IInv
<1>2. ASSUME NEW r \in Requests,
             AddRequest(r) \/ Respond(r) \/ ResponseEnd(r) \/ Upgrade(r) \/ Abort(r)
      PROVE  IInv'
  <2>1. PICK s : s \in Sockets
    <3>1. IsFiniteSet(Requests) /\ Cardinality(Requests) \in Nat
      BY AgentAssumption, FS_CardinalityType
    <3>2. Cardinality(Requests) # 0
      BY <3>1, FS_EmptySet
    <3>3. 1 \in Sockets
      BY <3>1, <3>2 DEF Sockets
    <3> QED
      BY <3>3
  <2>2. Now' /\ OtherTypes'
    BY <1>2, <2>1, AddRequestKeeps, OtherStepsKeep, OtherTypesKept
  <2> QED
    BY <2>2 DEF IInv
<1>3. ASSUME NEW s \in Sockets, SocketFails(s) \/ Close(s)
      PROVE  IInv'
  <2>1. PICK r : r \in Requests
    <3>1. Sockets # {}
      OBVIOUS
    <3>2. Requests # {}
      BY <3>1, FS_EmptySet DEF Sockets
    <3> QED
      BY <3>2
  <2>2. Now' /\ OtherTypes'
    BY <1>3, <2>1, OtherStepsKeep, OtherTypesKept
  <2> QED
    BY <2>2 DEF IInv
<1>4. CASE DestroyAgent \/ UNCHANGED vars
  <2>1. UNCHANGED <<requests, sockets, freeSockets, created, ticks, phase, socketOf>>
    BY <1>4 DEF DestroyAgent, pools, reqs, vars
  <2>2. Now'
    BY <2>1 DEF IInv, Now
  <2>3. ToSet(sockets) \cup ToSet(freeSockets) \subseteq Sockets
    BY ToSetPlaces DEF IInv, Now, Consistent, ConsistentTypes
  <2>4. OtherTypes'
    BY <1>4, <2>3 DEF IInv, OtherTypes, DestroyAgent, reqs, life, vars
  <2> QED
    BY <2>2, <2>4 DEF IInv
<1> QED
  BY <1>1, <1>2, <1>3, <1>4 DEF Next

-----------------------------------------------------------------------------
(* The results *)

\* The invariant holds in every reachable state.
THEOREM IInvHolds == Spec => []IInv
<1> QED
  BY InitHolds, NextHolds, PTL DEF Spec

\* TypeOK: every number in the pools is a socket that was made, destroyed
\* sockets close once, and the agent makes no more sockets than there are
\* requests.
THEOREM TypeCorrect == Spec => []TypeOK
<1> QED
  BY IInvHolds, TypesFollow, PTL

\* In a consistent state no socket serves two requests.
LEMMA ExclusiveFollows == IInv => Exclusive
<1> SUFFICES ASSUME IInv PROVE Exclusive
  OBVIOUS
<1>1. /\ Consistent(requests, sockets, freeSockets, created, ticks, phase, socketOf)
      /\ requests \in Seq(Requests) /\ sockets \in Seq(Sockets) /\ freeSockets \in Seq(Sockets)
      /\ ticks \in Seq(TickTypes)
  BY DEF IInv, Now, Consistent, ConsistentTypes
<1>2. /\ IsInjective(requests) /\ IsInjective(sockets) /\ IsInjective(freeSockets)
      /\ ToSet(sockets) \cap ToSet(freeSockets) = {} /\ Apart(ticks)
  BY <1>1 DEF Consistent
<1>3. IsInjective(sockets \o freeSockets)
  BY <1>1, <1>2, InjectiveConcat
<1>4. DOMAIN ticks = 1 .. Len(ticks) /\ DOMAIN requests = 1 .. Len(requests)
  BY <1>1
<1>5. ASSUME NEW r \in Requests, NEW s
      PROVE  s \in Using(r) <=>
               s \in Sockets /\ \/ phase[r] \in Serving /\ socketOf[r] = s
                                \/ \E i \in 1 .. Len(ticks) : ticks[i].r = r /\ ticks[i].s = s
  <2>1. \A i \in 1 .. Len(ticks) : ticks[i] = OnSocket(r, s) <=> ticks[i].r = r /\ ticks[i].s = s
    <3>1. \A i \in 1 .. Len(ticks) : ticks[i] \in TickTypes
      BY <1>1
    <3> QED
      BY <3>1 DEF TickTypes, OnSocket
  <2> QED
    BY <1>4, <2>1 DEF Using, Serving
<1>6. ASSUME NEW r \in Requests
      PROVE  /\ Cardinality(Using(r)) <= 1
             /\ Cardinality({i \in DOMAIN requests : requests[i] = r})
                  + Cardinality({i \in DOMAIN ticks : ticks[i].r = r})
                = IF phase[r] = "waiting" THEN 1 ELSE 0
             /\ \A q \in Requests \ {r} : Using(r) \cap Using(q) = {}
             /\ Using(r) \cap ToSet(freeSockets) = {}
  <2>0. r # NoRequest
    BY AgentAssumption
  <2>1. \A q \in Requests :
          /\ phase[q] = "waiting" <=> q \in ToSet(requests) \/ Due(ticks, q)
          /\ ~(q \in ToSet(requests) /\ Due(ticks, q))
          /\ phase[q] \in Serving =>
               /\ socketOf[q] \notin ToSet(freeSockets) /\ ~Held(ticks, socketOf[q])
               /\ \A b \in Requests \ {q} : phase[b] \in Serving => socketOf[b] # socketOf[q]
    BY <1>1 DEF Consistent
  <2>2. \A i, j \in 1 .. Len(ticks) : /\ ticks[i].s = ticks[j].s => i = j
                                      /\ ticks[i].r = ticks[j].r /\ ticks[i].r = r => i = j
    BY <1>2, <2>0 DEF Apart
  <2>3. phase[r] \in Serving => ~\E i \in 1 .. Len(ticks) : ticks[i].r = r
    BY <2>1 DEF Serving, Due
  <2>4. Cardinality(Using(r)) <= 1
    <3>1. \A s, u \in Using(r) : s = u
      BY <1>5, <2>2, <2>3
    <3> QED
      BY <3>1, AtMostOne
  <2>5. Using(r) \cap ToSet(freeSockets) = {}
    BY <1>1, <1>5, <2>1 DEF Consistent, Held
  <2>6. \A q \in Requests \ {r} : Using(r) \cap Using(q) = {}
    <3> SUFFICES ASSUME NEW q \in Requests \ {r}, NEW s \in Using(r) \cap Using(q) PROVE FALSE
      OBVIOUS
    <3>1. CASE phase[r] \in Serving /\ socketOf[r] = s
      BY <1>5, <2>1, <3>1 DEF Held
    <3>2. CASE phase[q] \in Serving /\ socketOf[q] = s
      BY <1>5, <2>1, <3>2 DEF Held
    <3>3. CASE /\ \E i \in 1 .. Len(ticks) : ticks[i].r = r /\ ticks[i].s = s
               /\ \E i \in 1 .. Len(ticks) : ticks[i].r = q /\ ticks[i].s = s
      BY <2>2, <3>3
    <3> QED
      BY <1>5, <3>1, <3>2, <3>3
  <2> DEFINE I == {i \in DOMAIN requests : requests[i] = r}
             J == {i \in DOMAIN ticks : ticks[i].r = r}
  <2>7. Cardinality(I) = IF r \in ToSet(requests) THEN 1 ELSE 0
    <3>1. \A i, j \in I : i = j
      BY <1>1, <1>2, <1>4, InjectivePlaces
    <3>2. I = {} <=> r \notin ToSet(requests)
      BY <1>1, <1>4, ToSetPlaces
    <3> HIDE DEF I
    <3> QED
      BY <3>1, <3>2, AtMostOne
  <2>8. Cardinality(J) = IF Due(ticks, r) THEN 1 ELSE 0
    <3>1. \A i, j \in J : i = j
      BY <1>4, <2>2
    <3>2. J = {} <=> ~Due(ticks, r)
      BY <1>4 DEF Due
    <3> HIDE DEF J
    <3> QED
      BY <3>1, <3>2, AtMostOne
  <2>9. Cardinality(I) + Cardinality(J) = IF phase[r] = "waiting" THEN 1 ELSE 0
    <3> HIDE DEF I, J
    <3> QED
      BY <2>1, <2>7, <2>8
  <2> QED
    BY <2>4, <2>5, <2>6, <2>9
<1> QED
  BY <1>3, <1>6 DEF Exclusive

\* Exclusive: whatever aborts, failures and late 'free' and 'close' events come
\* between, no socket serves two requests, no request has two sockets, a waiting
\* request is queued or promised one socket, once, and an idle socket is idle.
THEOREM ExclusiveHolds == Spec => []Exclusive
<1> QED
  BY IInvHolds, ExclusiveFollows, PTL

-----------------------------------------------------------------------------
(* No wakeup is lost *)

\* Something will happen to a socket: a request is on it, a tick names it, its
\* 'close' is due, or it is being ended.
Awake(s) ==
  \/ \E r \in Requests : phase[r] \in Serving /\ socketOf[r] = s
  \/ Held(ticks, s)
  \/ s \in closing \/ s \in ending \ destroyed

\* Sockets that were never made are as new, and no request was on one; the agent
\* listens to every pooled socket, and hears its 'close' if it is destroyed; a
\* socket out of the free pool is awake; and requests are queued only behind one.
Watchful ==
  /\ \A s \in Sockets : s > created => s \in listening /\ s \notin destroyed
  /\ \A s \in ToSet(sockets) \cup ToSet(freeSockets) :
       s \in listening /\ (s \in destroyed => s \in closing)
  /\ \A s \in ToSet(sockets) : Awake(s)
  /\ requests # <<>> => sockets # <<>>
  /\ \A r \in Requests : socketOf[r] <= created

\* What removeSocket does to the pools.
LEMMA RemoveSocketPools ==
  ASSUME Now, NEW s \in Sockets, s <= created, NEW due \in Seq(TickTypes), RemoveSocket(s, due)
  PROVE  /\ ToSet(freeSockets') \subseteq ToSet(freeSockets)
         /\ s \in destroyed => s \notin ToSet(freeSockets')
         /\ s \notin ToSet(sockets')
         /\ \A a \in ToSet(sockets') \ ToSet(sockets) :
              a = created + 1 /\ a \in Sockets /\ Held(ticks', a)
         /\ created + 1 \notin ToSet(freeSockets)
         /\ \A a : Held(due, a) => Held(ticks', a)
         /\ created' \in {created, created + 1}
         /\ requests' # <<>> => sockets' # <<>>
<1>1. /\ Consistent(requests, sockets, freeSockets, created, ticks, phase, socketOf)
      /\ sockets \in Seq(Sockets) /\ freeSockets \in Seq(Sockets) /\ requests \in Seq(Requests)
      /\ IsInjective(sockets) /\ IsInjective(freeSockets) /\ created \in Nat
      /\ phase \in [Requests -> Phases]
  BY DEF Now, Consistent, ConsistentTypes
<1> DEFINE k == RemoveFirst(sockets, s)
           f == FreeWithout(s)
<1>2. k \in Seq(Sockets) /\ ToSet(k) = ToSet(sockets) \ {s}
  BY <1>1, RemoveFirstElement
<1>3. ToSet(f) \subseteq ToSet(freeSockets) /\ (s \in destroyed => s \notin ToSet(f))
  BY <1>1, RemoveFirstElement DEF FreeWithout
<1> HIDE DEF k, f
<1>4. \A a \in ToSet(freeSockets) : a \in Nat /\ a <= created
  <2>1. ToSet(freeSockets) \subseteq Sockets
    BY <1>1, ToSetPlaces
  <2>2. Sockets \subseteq Nat
    BY DEF Sockets
  <2> QED
    BY <1>1, <2>1, <2>2 DEF Consistent
<1>5. created + 1 \notin ToSet(freeSockets)
  BY <1>1, <1>4
<1>6. CASE requests = <<>>
  <2>1. requests' = requests /\ sockets' = k /\ freeSockets' = f /\ created' = created
        /\ ticks' = due
    BY <1>6 DEF RemoveSocket, k, f
  <2> QED
    BY <1>2, <1>3, <1>5, <1>6, <2>1
<1>7. CASE requests # <<>>
  <2> DEFINE x == OnSocket(Head(requests), created + 1)
  <2>1. /\ requests' = Tail(requests) /\ sockets' = Append(k, created + 1) /\ freeSockets' = f
        /\ created' = created + 1 /\ ticks' = Append(due, x)
    BY <1>7 DEF RemoveSocket, k, f
  <2>2. created + 1 \in Sockets /\ created + 1 # s
    <3>1. created + Len(requests) <= Cardinality(Started(phase)) /\ Len(requests) \in Nat \ {0}
      BY <1>1, <1>7 DEF Consistent
    <3>2. created + 1 <= Cardinality(Requests)
      BY <1>1, <3>1, Budget
    <3> QED
      BY <1>1, <3>2, NextSocket DEF Sockets
  <2>3. ToSet(sockets') = ToSet(k) \cup {created + 1}
    BY <1>2, <2>1, <2>2, AppendElement
  <2>4. sockets' # <<>>
    BY <2>3 DEF ToSet
  <2>5. Head(requests) \in Requests
    BY <1>1, <1>7
  <2>6. x \in TickTypes /\ x.s = created + 1
    BY <2>2, <2>5 DEF OnSocket, TickTypes
  <2> HIDE DEF x
  <2>7. \A a : Held(Append(due, x), a) <=> a = x.s \/ Held(due, a)
    BY <2>6, AppendedHeld
  <2> QED
    BY <1>2, <1>3, <1>5, <2>1, <2>2, <2>3, <2>4, <2>6, <2>7
<1> QED
  BY <1>6, <1>7

\* removeSocket keeps the agent watchful if the other sockets stay awake.
LEMMA RemoveSocketWatchful ==
  ASSUME IInv, Watchful, NEW s \in Sockets, s <= created, NEW due \in Seq(TickTypes),
         RemoveSocket(s, due),
         listening \ {s} \subseteq listening', destroyed' \subseteq destroyed \cup {s},
         closing \ {s} \subseteq closing', socketOf' = socketOf,
         s \in ToSet(freeSockets') => s \in listening' /\ (s \in destroyed' => s \in closing'),
         \A a \in ToSet(sockets) \ {s} : Awake(a) => Awake(a)'
  PROVE  Watchful'
<1>1. /\ ToSet(freeSockets') \subseteq ToSet(freeSockets)
      /\ s \notin ToSet(sockets')
      /\ \A a \in ToSet(sockets') \ ToSet(sockets) :
           a = created + 1 /\ a \in Sockets /\ Held(ticks', a)
      /\ created' \in {created, created + 1}
      /\ requests' # <<>> => sockets' # <<>>
  BY RemoveSocketPools DEF IInv
<1>2. created \in Nat /\ created + 1 > created /\ Sockets \subseteq Nat
  BY DEF IInv, Now, Consistent, ConsistentTypes, Sockets
<1>3. \A a \in Sockets : a > created => a \in listening' /\ a \notin destroyed'
  BY <1>2 DEF Watchful
<1>4. \A a \in Sockets : a > created' => a > created
  BY <1>1, <1>2
<1>5. \A a \in ToSet(sockets') \ ToSet(sockets) :
        a \in listening' /\ a \notin destroyed' /\ Awake(a)'
  BY <1>1, <1>2, <1>3 DEF Awake
<1>6. \A a \in (ToSet(sockets) \cup ToSet(freeSockets)) \ {s} :
        a \in listening' /\ (a \in destroyed' => a \in closing')
  BY DEF Watchful
<1>7. \A a \in ToSet(sockets') : Awake(a)'
  BY <1>1, <1>5 DEF Watchful
<1>8. \A r \in Requests : socketOf'[r] <= created'
  <2>1. \A r \in Requests : socketOf[r] \in Nat /\ socketOf[r] <= created
    BY DEF IInv, Now, Consistent, ConsistentTypes, Sockets, Watchful
  <2> QED
    BY <1>1, <1>2, <2>1
<1> QED
  BY <1>1, <1>3, <1>4, <1>5, <1>6, <1>7, <1>8 DEF Watchful

\* A tick is run: the socket it names is on its way again, on a request, pooled
\* or out of the pools.
LEMMA RunTickWatchful ==
  ASSUME IInv, Watchful, RunTick
  PROVE  Watchful'
<1> DEFINE r == Head(ticks).r
           s == Head(ticks).s
           t == Tail(ticks)
<1>1. /\ Consistent(requests, sockets, freeSockets, created, ticks, phase, socketOf)
      /\ ticks # <<>> /\ OtherTypes /\ UNCHANGED <<ending, listening>>
      /\ ticks \in Seq(TickTypes) /\ Apart(ticks) /\ phase \in [Requests -> Phases]
      /\ socketOf \in [Requests -> Sockets \cup {0}] /\ NoRequest \notin Requests
      /\ sockets \in Seq(Sockets) /\ freeSockets \in Seq(Sockets)
  BY AgentAssumption DEF IInv, Now, Consistent, ConsistentTypes, RunTick
<1>2. /\ t \in Seq(TickTypes) /\ s \in Sockets /\ r \in Requests \cup {NoRequest}
      /\ \A a : Held(ticks, a) <=> a = s \/ Held(t, a)
      /\ r # NoRequest => phase[r] = "waiting"
  <2>1. /\ t \in Seq(TickTypes) /\ Head(ticks) \in TickTypes
        /\ \A a : Held(ticks, a) <=> a = s \/ Held(t, a)
        /\ \A a : Due(ticks, a) <=> a = r \/ Due(t, a)
    BY <1>1, TicksTail
  <2> QED
    BY <1>1, <2>1 DEF TickTypes, Consistent
<1>3. s <= created /\ s \notin ToSet(freeSockets)
  BY <1>1, <1>2 DEF Consistent
<1> HIDE DEF r, s, t
<1>4. ASSUME EmitFree(s, t),
             \A a \in Requests : phase'[a] \in Serving <=> phase[a] \in Serving,
             UNCHANGED socketOf
      PROVE  Watchful'
  <2>1. CASE s \notin listening /\ ticks' = t /\ UNCHANGED <<pools, destroyed, closing, message>>
    <3>1. s \notin ToSet(sockets)
      BY <2>1 DEF Watchful
    <3>2. \A a \in ToSet(sockets) : Awake(a)'
      BY <1>1, <1>2, <1>4, <2>1, <3>1 DEF Watchful, Awake
    <3> QED
      BY <1>1, <1>4, <2>1, <3>2 DEF Watchful, pools
  <2>2. CASE /\ requests # <<>>
             /\ ticks' = Append(t, OnSocket(Head(requests), s))
             /\ UNCHANGED <<sockets, freeSockets, created, destroyed, closing>>
    <3>1. Head(requests) \in Requests
      BY <2>2 DEF IInv, Now, Consistent, ConsistentTypes
    <3> DEFINE x == OnSocket(Head(requests), s)
    <3>2. x \in TickTypes /\ x.s = s
      BY <1>2, <3>1 DEF OnSocket, TickTypes
    <3> HIDE DEF x
    <3>3. \A a : Held(Append(t, x), a) <=> a = x.s \/ Held(t, a)
      BY <1>2, <3>2, AppendedHeld
    <3>4. ticks' = Append(t, x)
      BY <2>2 DEF x
    <3>5. \A a \in ToSet(sockets) : Awake(a)'
      BY <1>1, <1>2, <1>4, <2>2, <3>2, <3>3, <3>4 DEF Watchful, Awake
    <3> QED
      BY <1>1, <1>4, <2>2, <3>5 DEF Watchful
  <2>3. CASE /\ s \in listening /\ s \notin destroyed /\ Pool(s) /\ requests = <<>> /\ ticks' = t
             /\ UNCHANGED <<requests, created, destroyed, closing>>
    <3>1. ToSet(sockets') = ToSet(sockets) \ {s}
      <4>1. IsInjective(sockets)
        BY <1>1 DEF Consistent
      <4> QED
        BY <1>1, <2>3, <4>1, RemoveFirstElement DEF Pool
    <3>2. ToSet(freeSockets') = ToSet(freeSockets) \cup {s}
      BY <1>1, <1>2, <2>3, AppendElement DEF Pool
    <3>3. \A a \in ToSet(sockets') : Awake(a)'
      BY <1>1, <1>2, <1>4, <2>3, <3>1 DEF Watchful, Awake
    <3> QED
      BY <1>1, <1>4, <2>3, <3>1, <3>2, <3>3 DEF Watchful
  <2>4. CASE RemoveSocket(s, t) /\ Destroy(s)
    <3>1. ToSet(freeSockets') \subseteq ToSet(freeSockets)
          /\ \A a : Held(t, a) => Held(ticks', a)
      BY <1>2, <1>3, <2>4, RemoveSocketPools DEF IInv
    <3>2. /\ destroyed' = destroyed \cup {s} /\ closing \subseteq closing'
      BY <2>4 DEF Destroy
    <3>3. \A a \in ToSet(sockets) \ {s} : Awake(a) => Awake(a)'
      BY <1>1, <1>2, <1>4, <3>1, <3>2 DEF Awake
    <3> QED
      BY <1>1, <1>2, <1>3, <1>4, <2>4, <3>1, <3>2, <3>3, RemoveSocketWatchful
  <2> QED
    BY <1>4, <2>1, <2>2, <2>3, <2>4 DEF EmitFree, OnFree, Reusable
<1>5. CASE r = NoRequest /\ EmitFree(s, t) /\ UNCHANGED reqs
  BY <1>4, <1>5 DEF reqs
<1>6. CASE /\ r # NoRequest /\ EmitFree(s, t) /\ phase' = [phase EXCEPT ![r] = "ended"]
           /\ UNCHANGED <<socketOf, shouldKeepAlive, aborted>>
  <2>1. \A a \in Requests : phase'[a] \in Serving <=> phase[a] \in Serving
    BY <1>1, <1>2, <1>6 DEF Serving
  <2> QED
    BY <1>4, <1>6, <2>1
<1>7. CASE /\ r # NoRequest
           /\ socketOf' = [socketOf EXCEPT ![r] = s]
           /\ phase' = [phase EXCEPT ![r] = "active"]
           /\ ticks' = t
           /\ UNCHANGED <<pools, destroyed, closing>>
  <2>1. /\ phase'[r] \in Serving /\ socketOf'[r] = s /\ r \in Requests
        /\ \A a \in Requests \ {r} : phase'[a] = phase[a] /\ socketOf'[a] = socketOf[a]
    BY <1>1, <1>2, <1>7 DEF Serving
  <2>2. phase[r] \notin Serving
    BY <1>2, <1>7 DEF Serving
  <2>3. \A a \in ToSet(sockets) : Awake(a)'
    BY <1>1, <1>2, <1>7, <2>1, <2>2 DEF Watchful, Awake
  <2>4. \A a \in Requests : socketOf'[a] <= created
    BY <1>3, <2>1 DEF Watchful
  <2> QED
    BY <1>1, <1>7, <2>3, <2>4 DEF Watchful, pools
<1> QED
  BY <1>5, <1>6, <1>7 DEF RunTick, r, s, t

\* A new request takes a socket of the free pool, a new one, or a place behind
\* sockets that are out.
LEMMA AddRequestWatchful ==
  ASSUME IInv, Watchful, NEW r \in Requests, AddRequest(r)
  PROVE  Watchful'
<1>1. /\ Consistent(requests, sockets, freeSockets, created, ticks, phase, socketOf)
      /\ phase[r] = "new" /\ phase' = [phase EXCEPT ![r] = "waiting"]
      /\ UNCHANGED <<listening, socketOf, destroyed, closing, ending>>
      /\ sockets \in Seq(Sockets) /\ freeSockets \in Seq(Sockets) /\ IsInjective(freeSockets)
      /\ ticks \in Seq(TickTypes) /\ phase \in [Requests -> Phases] /\ created \in Nat
      /\ socketOf \in [Requests -> Sockets \cup {0}]
  BY DEF IInv, Now, Consistent, ConsistentTypes, AddRequest, life
<1>2. \A a \in Requests : phase'[a] \in Serving <=> phase[a] \in Serving
  BY <1>1 DEF Serving
<1>3. ASSUME NEW s \in Sockets, ticks' = Append(ticks, OnSocket(r, s)),
             sockets' = Append(sockets, s)
      PROVE  /\ ToSet(sockets') = ToSet(sockets) \cup {s} /\ sockets' # <<>>
             /\ \A a \in ToSet(sockets') : Awake(a)'
  <2> DEFINE x == OnSocket(r, s)
  <2>1. x \in TickTypes /\ x.s = s
    BY DEF OnSocket, TickTypes
  <2>2. ticks' = Append(ticks, x)
    BY <1>3
  <2> HIDE DEF x
  <2>3. \A a : Held(ticks', a) <=> a = s \/ Held(ticks, a)
    BY <1>1, <2>1, <2>2, AppendedHeld
  <2>4. ToSet(sockets') = ToSet(sockets) \cup {s}
    BY <1>1, <1>3, AppendElement
  <2>5. sockets' # <<>>
    BY <2>4 DEF ToSet
  <2>6. \A a \in ToSet(sockets') : Awake(a)'
    BY <1>1, <1>2, <2>3, <2>4 DEF Awake, Watchful
  <2> QED
    BY <2>4, <2>5, <2>6
<1>4. CASE /\ freeSockets # <<>>
           /\ freeSockets' = Tail(freeSockets)
           /\ sockets' = Append(sockets, Head(freeSockets))
           /\ ticks' = Append(ticks, OnSocket(r, Head(freeSockets)))
           /\ UNCHANGED <<requests, created>>
  <2>1. ToSet(freeSockets) = {Head(freeSockets)} \cup ToSet(Tail(freeSockets))
        /\ Head(freeSockets) \in Sockets
    BY <1>1, <1>4, TailElements
  <2>2. /\ ToSet(sockets') = ToSet(sockets) \cup {Head(freeSockets)} /\ sockets' # <<>>
        /\ \A a \in ToSet(sockets') : Awake(a)'
    BY <1>3, <1>4, <2>1
  <2> QED
    BY <1>1, <1>4, <2>1, <2>2 DEF Watchful
<1>5. CASE /\ freeSockets = <<>>
           /\ created' = created + 1
           /\ sockets' = Append(sockets, created + 1)
           /\ ticks' = Append(ticks, OnSocket(r, created + 1))
           /\ UNCHANGED <<requests, freeSockets>>
  <2>1. created + 1 \in Sockets
    <3>1. IInv'
      BY <1>1, NextHolds DEF Next
    <3>2. TypeOK'
      BY <3>1, TypesFollow, PTL
    <3> QED
      BY <1>1, <1>5, <3>2 DEF TypeOK, Sockets
  <2>2. /\ ToSet(sockets') = ToSet(sockets) \cup {created + 1} /\ sockets' # <<>>
        /\ \A a \in ToSet(sockets') : Awake(a)'
    BY <1>3, <1>5, <2>1
  <2>3. Sockets \subseteq Nat /\ created + 1 > created
        /\ \A n \in Nat : n > created + 1 => n > created
    BY <1>1 DEF Sockets
  <2>4. \A a \in Requests : socketOf'[a] <= created'
    <3>1. \A a \in Requests : socketOf[a] \in Nat
      <4>1. \A n \in Sockets \cup {0} : n \in Nat
        BY DEF Sockets
      <4>2. \A a \in Requests : socketOf[a] \in Sockets \cup {0}
        BY <1>1
      <4> QED
        BY <4>1, <4>2
    <3>2. \A a \in Requests : socketOf[a] <= created
      BY DEF Watchful
    <3> QED
      BY <1>1, <1>5, <3>1, <3>2
  <2>5. created + 1 \in listening' /\ created + 1 \notin destroyed'
    BY <1>1, <2>1, <2>3 DEF Watchful
  <2> QED
    BY <1>1, <1>5, <2>2, <2>3, <2>4, <2>5 DEF Watchful
<1>6. CASE /\ Len(sockets) >= MaxSockets /\ requests' = Append(requests, r)
           /\ UNCHANGED <<sockets, freeSockets, created, ticks>>
  <2>1. sockets # <<>>
    BY <1>6, AgentAssumption
  <2>2. \A a \in ToSet(sockets) : Awake(a)'
    BY <1>1, <1>2, <1>6 DEF Watchful, Awake
  <2> QED
    BY <1>1, <1>6, <2>1, <2>2 DEF Watchful
<1> QED
  BY <1>4, <1>5, <1>6 DEF AddRequest

\* A response ends: its socket is announced free or is ended.
LEMMA ResponseEndWatchful ==
  ASSUME IInv, Watchful, NEW r \in Requests, ResponseEnd(r)
  PROVE  Watchful'
<1> DEFINE s == socketOf[r]
<1>1. /\ phase[r] = "responding" /\ phase' = [phase EXCEPT ![r] = "ended"]
      /\ UNCHANGED <<pools, listening, socketOf, destroyed, closing>>
      /\ ticks \in Seq(TickTypes) /\ phase \in [Requests -> Phases] /\ s \in Sockets
  BY DEF IInv, Now, Consistent, ConsistentTypes, ResponseEnd, Serving
<1>2. \A q \in Requests : phase[q] \in Serving => phase'[q] \in Serving \/ q = r
  BY <1>1 DEF Serving
<1>3. \A a : Held(ticks, a) => Held(ticks', a)
  <2>1. FreeEvent(s) \in TickTypes
    BY <1>1 DEF FreeEvent, TickTypes
  <2> QED
    BY <1>1, <2>1, AppendedHeld DEF ResponseEnd
<1>4. ending \subseteq ending'
  BY DEF ResponseEnd
<1>5. \/ Held(ticks', s) \/ s \in ending' \ destroyed \/ s \in destroyed
  <2>1. FreeEvent(s) \in TickTypes /\ FreeEvent(s).s = s
    BY <1>1 DEF FreeEvent, TickTypes
  <2>2. CASE ticks' = Append(ticks, FreeEvent(s))
    BY <1>1, <2>1, <2>2, AppendedHeld
  <2>3. CASE ending' = ending \cup ({s} \ destroyed)
    BY <2>3
  <2> QED
    BY <2>2, <2>3 DEF ResponseEnd
<1>6. ASSUME NEW a \in ToSet(sockets)
      PROVE  Awake(a)'
  <2>1. CASE a = s
    BY <1>1, <1>5, <1>6, <2>1 DEF Watchful, Awake
  <2>2. CASE a # s
    BY <1>1, <1>2, <1>3, <1>4, <1>6, <2>2 DEF Watchful, Awake
  <2> QED
    BY <2>1, <2>2
<1> QED
  BY <1>1, <1>6 DEF Watchful, pools

\* An upgraded socket, or one that has closed, leaves the pools.
LEMMA LeavesWatchful ==
  ASSUME IInv, Watchful, NEW r \in Requests, NEW s \in Sockets, Upgrade(r) \/ Close(s)
  PROVE  Watchful'
<1>1. /\ Consistent(requests, sockets, freeSockets, created, ticks, phase, socketOf)
      /\ ticks \in Seq(TickTypes) /\ phase \in [Requests -> Phases]
      /\ closing \subseteq destroyed
  BY DEF IInv, Now, Consistent, ConsistentTypes, OtherTypes
<1>2. CASE Upgrade(r)
  <2> DEFINE u == socketOf[r]
  <2>1. /\ phase[r] = "active" /\ phase' = [phase EXCEPT ![r] = "ended"]
        /\ RemoveSocket(u, ticks) /\ listening' = listening \ {u}
        /\ UNCHANGED <<destroyed, closing, ending, socketOf>>
    BY <1>2 DEF Upgrade, life
  <2>2. u \in Sockets /\ u <= created /\ u \notin ToSet(freeSockets)
    BY <1>1, <2>1 DEF Consistent, Serving
  <2>3. \A q \in Requests : phase[q] \in Serving => phase'[q] \in Serving \/ q = r
    BY <1>1, <2>1 DEF Serving
  <2> HIDE DEF u
  <2>4. ToSet(freeSockets') \subseteq ToSet(freeSockets)
        /\ \A a : Held(ticks, a) => Held(ticks', a)
    BY <1>1, <2>1, <2>2, RemoveSocketPools DEF IInv
  <2>5. \A a \in ToSet(sockets) \ {u} : Awake(a) => Awake(a)'
    BY <2>1, <2>3, <2>4 DEF Awake, u
  <2> QED
    BY <1>1, <2>1, <2>2, <2>4, <2>5, RemoveSocketWatchful
<1>3. CASE Close(s)
  <2>1. /\ s \in closing /\ closing' = closing \ {s}
        /\ UNCHANGED <<destroyed, ending, listening, socketOf>>
        /\ \A q \in Requests : phase'[q] = IF phase[q] = "active" /\ socketOf[q] = s
                                           THEN "failed" ELSE phase[q]
    BY <1>3 DEF Close
  <2>2. s \in destroyed /\ s <= created
    <3>1. s \in destroyed /\ ~(s > created)
      BY <1>1, <2>1 DEF Watchful
    <3>2. s \in Nat /\ created \in Nat
      BY <1>1 DEF Consistent, ConsistentTypes, Sockets
    <3> QED
      BY <3>1, <3>2
  <2>3. \A q \in Requests : phase[q] \in Serving => phase'[q] \in Serving \/ socketOf[q] = s
    BY <2>1 DEF Serving
  <2>4. CASE RemoveSocket(s, ticks)
    <3>1. s \notin ToSet(freeSockets') /\ \A a : Held(ticks, a) => Held(ticks', a)
      BY <1>1, <2>2, <2>4, RemoveSocketPools DEF IInv
    <3>2. \A a \in ToSet(sockets) \ {s} : Awake(a) => Awake(a)'
      BY <2>1, <2>3, <3>1 DEF Awake
    <3> QED
      BY <1>1, <2>1, <2>2, <2>4, <3>1, <3>2, RemoveSocketWatchful
  <2>5. CASE s \notin listening /\ UNCHANGED <<pools, ticks>>
    <3>1. s \notin ToSet(sockets) \cup ToSet(freeSockets)
      BY <2>5 DEF Watchful
    <3>2. \A a \in ToSet(sockets) : Awake(a)'
      BY <2>1, <2>3, <2>5, <3>1 DEF Awake, Watchful
    <3> QED
      BY <2>1, <2>5, <3>1, <3>2 DEF Watchful, pools
  <2> QED
    BY <1>3, <2>4, <2>5 DEF Close
<1> QED
  BY <1>2, <1>3

\* Sockets are destroyed: their 'close' is due.
LEMMA DestroyWatchful ==
  ASSUME IInv, Watchful, NEW D \in SUBSET Sockets, \A s \in D : s <= created,
         destroyed' = destroyed \cup D, closing' = closing \cup (D \ destroyed),
         UNCHANGED <<pools, ending, listening, phase, socketOf, ticks>>
  PROVE  Watchful'
<1>1. \A s \in Sockets : s \in Nat /\ created \in Nat
  BY DEF IInv, Now, Consistent, ConsistentTypes, Sockets
<1>2. \A s \in Sockets : s > created => s \notin D
  BY <1>1
<1>3. \A s \in ToSet(sockets) : Awake(s)'
  BY DEF Awake, Watchful
<1>4. \A s \in ToSet(sockets) \cup ToSet(freeSockets) :
        s \in listening /\ (s \in destroyed' => s \in closing')
  BY DEF Watchful
<1> QED
  BY <1>2, <1>3, <1>4 DEF Watchful, pools

\* Every step keeps the agent watchful.
LEMMA NextWatchful == IInv /\ Watchful /\ [Next]_vars => Watchful'
<1> SUFFICES ASSUME IInv, Watchful, [Next]_vars PROVE Watchful'
  OBVIOUS
<1>1. /\ Consistent(requests, sockets, freeSockets, created, ticks, phase, socketOf)
      /\ phase \in [Requests -> Phases] /\ socketOf \in [Requests -> Sockets \cup {0}]
      /\ sockets \in Seq(Sockets) /\ freeSockets \in Seq(Sockets)
  BY DEF IInv, Now, Consistent, ConsistentTypes
<1>2. ASSUME NEW r \in Requests, AddRequest(r) PROVE Watchful'
  BY <1>2, AddRequestWatchful
<1>3. ASSUME NEW r \in Requests, Respond(r) PROVE Watchful'
  <2>1. UNCHANGED <<pools, destroyed, closing, ending, listening, socketOf, ticks>>
    BY <1>3 DEF Respond, life
  <2>2. \A q \in Requests : phase[q] \in Serving => phase'[q] \in Serving
    BY <1>1, <1>3 DEF Respond, Serving
  <2>3. \A s \in ToSet(sockets) : Awake(s)'
    BY <2>1, <2>2 DEF Awake, Watchful
  <2> QED
    BY <2>1, <2>3 DEF Watchful, pools
<1>4. ASSUME NEW r \in Requests, ResponseEnd(r) PROVE Watchful'
  BY <1>4, ResponseEndWatchful
<1>5. ASSUME NEW r \in Requests, Upgrade(r) PROVE Watchful'
  <2>1. socketOf[r] \in Sockets
    BY <1>1, <1>5 DEF Upgrade, Consistent, Serving
  <2> QED
    BY <1>5, <2>1, LeavesWatchful
<1>6. ASSUME NEW r \in Requests, Abort(r) PROVE Watchful'
  <2> DEFINE D == {socketOf[r]} \ {0}
  <2>1. D \subseteq Sockets /\ \A s \in D : s <= created
    BY <1>1 DEF Watchful
  <2>2. /\ destroyed' = destroyed \cup D /\ closing' = closing \cup (D \ destroyed)
        /\ UNCHANGED <<pools, ending, listening, phase, socketOf, ticks>>
    BY <1>6 DEF Abort, Destroy
  <2> HIDE DEF D
  <2> QED
    BY <2>1, <2>2, DestroyWatchful
<1>7. ASSUME NEW s \in Sockets, SocketFails(s) PROVE Watchful'
  <2> DEFINE D == {s}
  <2>1. D \subseteq Sockets /\ \A u \in D : u <= created
    BY <1>7 DEF SocketFails
  <2>2. /\ destroyed' = destroyed \cup D /\ closing' = closing \cup (D \ destroyed)
        /\ UNCHANGED <<pools, ending, listening, phase, socketOf, ticks>>
    BY <1>7 DEF SocketFails, Destroy, reqs
  <2> HIDE DEF D
  <2> QED
    BY <2>1, <2>2, DestroyWatchful
<1>8. ASSUME NEW s \in Sockets, Close(s) PROVE Watchful'
  <2>1. PICK r : r \in Requests
    BY FS_EmptySet DEF Sockets
  <2> QED
    BY <1>8, <2>1, LeavesWatchful
<1>9. CASE DestroyAgent
  <2> DEFINE D == ToSet(sockets) \cup ToSet(freeSockets)
  <2>1. D \subseteq Sockets
    BY <1>1, ToSetPlaces
  <2>2. \A s \in D : s <= created
    BY <1>1 DEF Consistent
  <2>3. /\ destroyed' = destroyed \cup D /\ closing' = closing \cup (D \ destroyed)
        /\ UNCHANGED <<pools, ending, listening, phase, socketOf, ticks>>
    BY <1>9 DEF DestroyAgent, reqs
  <2> HIDE DEF D
  <2> QED
    BY <2>1, <2>2, <2>3, DestroyWatchful
<1>10. CASE UNCHANGED vars
  BY <1>10 DEF vars, pools, life, reqs, Watchful, Awake
<1> QED
  BY <1>2, <1>3, <1>4, <1>5, <1>6, <1>7, <1>8, <1>9, <1>10, RunTickWatchful DEF Next

\* A watchful agent with a queue has a socket that will wake it up.
LEMMA WakeupFollows == IInv /\ Watchful => NoLostWakeup
<1> SUFFICES ASSUME IInv, Watchful, requests # <<>>
             PROVE  \E i \in DOMAIN sockets :
                      LET s == sockets[i]
                      IN /\ s \in listening
                         /\ \/ \E r \in Requests : s \in Using(r)
                            \/ \E j \in DOMAIN ticks : ticks[j].s = s
                            \/ s \in closing \cup (ending \ destroyed)
  BY DEF NoLostWakeup
<1>1. sockets \in Seq(Sockets) /\ ticks \in Seq(TickTypes) /\ sockets # <<>>
  BY DEF IInv, Now, Consistent, ConsistentTypes, Watchful
<1> DEFINE s == sockets[1]
<1>2. 1 \in DOMAIN sockets /\ s \in Sockets /\ s \in ToSet(sockets)
  <2>1. 1 \in 1 .. Len(sockets) /\ DOMAIN sockets = 1 .. Len(sockets)
    BY <1>1
  <2> QED
    BY <1>1, <2>1, ToSetPlaces
<1> HIDE DEF s
<1>3. s \in listening /\ Awake(s)
  BY <1>2 DEF Watchful
<1>4. DOMAIN ticks = 1 .. Len(ticks)
  BY <1>1
<1>5. \/ \E r \in Requests : s \in Using(r)
      \/ \E j \in DOMAIN ticks : ticks[j].s = s
      \/ s \in closing \cup (ending \ destroyed)
  BY <1>2, <1>3, <1>4 DEF Awake, Held, Using, Serving
<1> QED
  BY <1>2, <1>3, <1>5 DEF s

\* NoLostWakeup: a queued request always waits for a socket of the pool that is
\* in use, announced, closing or ending, and whose event the agent will hear.
THEOREM NoLostWakeupHolds == Spec => []NoLostWakeup
<1>1. Init => Watchful
  <2>1. ToSet(<<>>) = {}
    BY EmptySequence
  <2> QED
    BY <2>1 DEF Init, Watchful
<1>2. Spec => [](IInv /\ Watchful)
  <2>1. Init => IInv /\ Watchful
    BY <1>1, InitHolds
  <2>2. (IInv /\ Watchful) /\ [Next]_vars => (IInv /\ Watchful)'
    BY NextHolds, NextWatchful
  <2> QED
    BY <2>1, <2>2, PTL DEF Spec
<1> QED
  BY <1>2, WakeupFollows, PTL

=============================================================================
