------------------------ MODULE AgentSchedulerProofs ------------------------
(***************************************************************************)
(* Theorems about the agent scheduler, for any agents, scenes, cap and     *)
(* number of slots, and for any cadences that nest.  They are stated with  *)
(* the assumption on the constants as a hypothesis, so that the modules    *)
(* that build on the scheduler can use them of their own constants.        *)
(***************************************************************************)
EXTENDS AgentScheduler, FiniteSetTheorems, SequenceTheorems,
        WellFoundedInduction, TLAPS

-----------------------------------------------------------------------------
(* Numbers and finite sets. *)

(* Every set of numbers that is not empty has a least element. *)
LEMMA LeastNumber ==
  ASSUME NEW T \in SUBSET Nat, T # {}
  PROVE  \E x \in T : \A y \in T : x <= y
<1>1. PICK x \in T : \A y \in T : ~ (<<y, x>> \in OpToRel(<, Nat))
  BY NatLessThanWellFounded, WFMin
<1>2. \A y \in T : ~ (y < x)
  BY <1>1 DEF OpToRel
<1>3. QED
  BY <1>2

(* In a finite set that is not empty some element has the greatest value:  *)
(* one that the fewest others exceed.                                      *)
LEMMA GreatestValue ==
  ASSUME NEW T, IsFiniteSet(T), T # {}, NEW f, \A x \in T : f[x] \in Nat
  PROVE  \E x \in T : \A y \in T : f[y] <= f[x]
<1> DEFINE Above(x) == {y \in T : f[x] < f[y]}
           aboves == {Above(x) : x \in T}
<1>1. aboves \subseteq FiniteSubsetsOf(T) /\ aboves # {}
  <2>1. \A x \in T : Above(x) \in SUBSET T
    OBVIOUS
  <2>2. FiniteSubsetsOf(T) = SUBSET T
    BY FS_FiniteSubsetsOfFinite
  <2>3. aboves \subseteq SUBSET T
    BY <2>1
  <2>4. aboves # {}
    OBVIOUS
  <2>5. QED
    <3> HIDE DEF aboves
    <3> QED BY <2>2, <2>3, <2>4
<1>2. PICK least \in aboves :
        \A other \in aboves : ~ (<<other, least>> \in StrictSubsetOrdering(T))
  <2> HIDE DEF aboves
  <2> QED BY <1>1, FS_StrictSubsetOrderingWellFounded, WFMin
<1>3. PICK x \in T : least = Above(x)
  OBVIOUS
<1>4. ASSUME NEW y \in T, f[x] < f[y] PROVE FALSE
  <2>1. Above(y) \subseteq Above(x) /\ y \in Above(x) /\ y \notin Above(y)
    BY <1>4
  <2>2. <<Above(y), Above(x)>> \in StrictSubsetOrdering(T)
    BY <2>1 DEF StrictSubsetOrdering
  <2>3. Above(y) \in aboves
    OBVIOUS
  <2>4. QED
    <3> HIDE DEF Above, aboves
    <3> QED BY <1>2, <1>3, <2>2, <2>3
<1>5. QED
  BY <1>4

(* Remainders.  A number between two multiples is as far from the lower    *)
(* one as its remainder says.                                              *)
LEMMA NoMultipleBetween ==
  ASSUME NEW c \in Nat \ {0}, NEW x \in Int, NEW y \in Int, y = c * x, -c < y, y < c
  PROVE  x = 0
<1>1. ASSUME NEW z \in Nat \ {0} PROVE c * z >= c
  OBVIOUS
<1>2. CASE x > 0
  <2>1. c * x >= c
    BY <1>1, <1>2
  <2>2. QED
    BY <2>1
<1>3. CASE x < 0
  <2>1. -x \in Nat \ {0} /\ c * (-x) = -(c * x)
    BY <1>3
  <2>2. c * (-x) >= c
    BY <1>1, <2>1
  <2>3. QED
    BY <2>1, <2>2
<1>4. QED
  BY <1>2, <1>3

LEMMA Remainder ==
  ASSUME NEW n \in Nat, NEW c \in Nat \ {0}
  PROVE  n % c \in 0..(c - 1) /\ n \div c \in Nat /\ n = c * (n \div c) + (n % c)
<1> DEFINE q == n \div c
           r == n % c
<1>1. r \in 0..(c - 1) /\ q \in Int
  OBVIOUS
<1>2. n = c * q + r
  OBVIOUS
<1> HIDE DEF q, r
<1>3. ASSUME q < 0 PROVE FALSE
  <2>1. -q \in Nat \ {0} /\ c * q = -(c * (-q))
    BY <1>1, <1>3
  <2>2. c * (-q) >= c
    BY <2>1
  <2>3. QED
    BY <1>1, <1>2, <2>1, <2>2
<1>4. q \in Nat
  BY <1>1, <1>3
<1>5. r \in 0..(c - 1) /\ q \in Nat /\ n = c * q + r
  BY <1>1, <1>2, <1>4
<1>6. QED
  BY <1>5 DEF q, r

LEMMA RemainderIs ==
  ASSUME NEW n \in Nat, NEW c \in Nat \ {0}, NEW q \in Int, NEW r \in Int,
         n = c * q + r, 0 <= r, r < c
  PROVE  n % c = r
<1> DEFINE q2 == n \div c
           r2 == n % c
<1>1. r2 \in 0..(c - 1) /\ q2 \in Nat /\ n = c * q2 + r2
  BY Remainder
<1> HIDE DEF q2, r2
<1>2. c * (q - q2) = r2 - r
  <2>1. c * (q - q2) = c * q - c * q2
    BY <1>1
  <2>2. c * q \in Int /\ c * q2 \in Int
    BY <1>1
  <2>3. QED
    BY <1>1, <2>1, <2>2
<1>3. q - q2 \in Int /\ r2 - r \in Int /\ -c < r2 - r /\ r2 - r < c
  BY <1>1
<1>4. q - q2 = 0
  BY <1>2, <1>3, NoMultipleBetween
<1>5. c * (q - q2) = 0
  BY <1>4
<1>6. QED
  BY <1>1, <1>2, <1>5 DEF r2

LEMMA NextRemainder ==
  ASSUME NEW n \in Nat, NEW c \in Nat \ {0}, (n + 1) % c # 0
  PROVE  (n + 1) % c = (n % c) + 1
<1> DEFINE q == n \div c
           r == n % c
<1>1. r \in 0..(c - 1) /\ q \in Nat /\ n = c * q + r
  BY Remainder
<1> HIDE DEF q, r
<1>2. CASE r + 1 < c
  <2>1. n + 1 = c * q + (r + 1) /\ c * q \in Int
    BY <1>1
  <2>2. (n + 1) % c = r + 1
    BY <1>1, <1>2, <2>1, RemainderIs
  <2>3. QED
    BY <2>2 DEF r
<1>3. CASE r + 1 = c
  <2>1. n + 1 = c * (q + 1) + 0
    BY <1>1, <1>3
  <2>2. (n + 1) % c = 0
    BY <1>1, <2>1, RemainderIs
  <2>3. QED
    BY <2>2
<1>4. QED
  BY <1>1, <1>2, <1>3

(* A multiple of the period leaves as much of a number at least. *)
LEMMA CoarserRemainder ==
  ASSUME NEW n \in Nat, NEW c \in Nat \ {0}, NEW d \in Nat \ {0}, d % c = 0
  PROVE  n % c <= n % d
<1> DEFINE q == n \div d
           s == n % d
           m == d \div c
           p == s \div c
           u == s % c
<1>1. s \in 0..(d - 1) /\ q \in Nat /\ n = d * q + s
  BY Remainder
<1>2. m \in Nat /\ d = c * m
  BY Remainder
<1>3. u \in 0..(c - 1) /\ p \in Nat /\ s = c * p + u
  <2>1. s \in Nat
    BY <1>1
  <2> HIDE DEF s
  <2>2. QED
    BY <2>1, Remainder
<1> HIDE DEF q, s, m, p, u
<1>4. n = c * (m * q + p) + u
  <2>1. d * q = c * (m * q)
    BY <1>1, <1>2
  <2>2. c * (m * q) + c * p = c * (m * q + p)
    BY <1>1, <1>2, <1>3
  <2>3. m * q \in Int /\ c * (m * q) \in Int /\ c * p \in Int
    BY <1>1, <1>2, <1>3
  <2>4. QED
    BY <1>1, <1>3, <2>1, <2>2, <2>3
<1>5. m * q + p \in Int /\ c * p >= 0
  BY <1>1, <1>2, <1>3
<1>6. n % c = u
  <2> DEFINE w == m * q + p
  <2>1. w \in Int /\ n = c * w + u /\ u \in Int /\ 0 <= u /\ u < c
    BY <1>3, <1>4, <1>5
  <2> HIDE DEF w
  <2>2. QED
    BY <2>1, RemainderIs
<1>7. u <= s
  BY <1>3, <1>5
<1>8. QED
  BY <1>6, <1>7 DEF s

LEMMA SchedulerConstants ==
  ASSUME SchedulerAssumption
  PROVE  /\ Cadence \in [0..3 -> Nat \ {0}]
         /\ \A t, u \in 0..3 : t <= u => Cadence[u] % Cadence[t] = 0
         /\ MaxAgents \in Nat /\ MaxSlots \in Nat /\ MaxTurns \in Nat
         /\ \A active \in Scenes : active \in Seq(Npcs)
         /\ \A i \in Infos : i.ring \in 0..3 \/ i.ring = -1
BY DEF SchedulerAssumption, Info, Tiers

(* Every position has its rank, and every rank is a position's: as many of  *)
(* them as there are positions, no two of which share one, in order.       *)
LEMMA RanksAreTaken ==
  ASSUME NEW m \in Nat, NEW K \in SUBSET (1..m)
  PROVE  /\ IsFiniteSet(K) /\ Cardinality(K) \in Nat /\ Cardinality(K) <= m
         /\ \A i \in 1..Cardinality(K) : Nth(K, i) \in K
         /\ \A k \in K : \E i \in 1..Cardinality(K) : Nth(K, i) = k
         /\ \A i, j \in 1..Cardinality(K) : i < j => Nth(K, i) < Nth(K, j)
<1> DEFINE size == Cardinality(K)
           upTo(k) == {j \in K : j <= k}
           rank == [k \in K |-> Cardinality(upTo(k))]
<1>1. IsFiniteSet(K) /\ size \in Nat /\ size <= m
  <2>1. IsFiniteSet(1..m) /\ Cardinality(1..m) = m
    BY FS_Interval
  <2>2. QED
    BY <2>1, FS_Subset, FS_CardinalityType
<1>2. \A k \in K : IsFiniteSet(upTo(k)) /\ Cardinality(upTo(k)) \in Nat
  <2> SUFFICES ASSUME NEW k \in K PROVE IsFiniteSet(upTo(k)) /\ Cardinality(upTo(k)) \in Nat
    OBVIOUS
  <2>1. upTo(k) \in SUBSET K
    OBVIOUS
  <2> HIDE DEF upTo
  <2>2. QED
    BY <1>1, <2>1, FS_Subset, FS_CardinalityType
<1>3. \A k \in K : rank[k] \in 1..size
  <2> SUFFICES ASSUME NEW k \in K PROVE Cardinality(upTo(k)) \in 1..size
    OBVIOUS
  <2>1. upTo(k) \in SUBSET K /\ k \in upTo(k)
    OBVIOUS
  <2>2. IsFiniteSet(upTo(k)) /\ Cardinality(upTo(k)) \in Nat
    BY <1>2
  <2> HIDE DEF upTo
  <2>3. Cardinality(upTo(k)) <= size
    BY <1>1, <2>1, FS_Subset
  <2>4. Cardinality(upTo(k)) # 0
    BY <2>1, <2>2, FS_EmptySet
  <2>5. QED
    BY <1>1, <2>2, <2>3, <2>4
<1>4. ASSUME NEW j \in K, NEW k \in K, j < k PROVE rank[j] < rank[k]
  <2>1. upTo(j) \in SUBSET upTo(k) /\ k \in upTo(k) /\ k \notin upTo(j)
    <3>1. \A x \in K : x <= j => x <= k
      BY <1>4
    <3>2. ~ (k <= j) /\ k <= k
      BY <1>4
    <3>3. QED
      BY <3>1, <3>2, Zenon
  <2>2. IsFiniteSet(upTo(k)) /\ IsFiniteSet(upTo(j))
    BY <1>2
  <2>3. rank[j] = Cardinality(upTo(j)) /\ rank[k] = Cardinality(upTo(k))
    OBVIOUS
  <2>4. Cardinality(upTo(j)) \in Nat /\ Cardinality(upTo(k)) \in Nat
    BY <1>2
  <2> HIDE DEF upTo, rank
  <2>5. Cardinality(upTo(j)) <= Cardinality(upTo(k)) /\
        (Cardinality(upTo(j)) = Cardinality(upTo(k)) => upTo(j) = upTo(k))
    BY <2>1, <2>2, FS_Subset
  <2>6. QED
    BY <2>1, <2>3, <2>4, <2>5
<1>5. \A j, k \in K : rank[j] = rank[k] => j = k
  <2> SUFFICES ASSUME NEW j \in K, NEW k \in K, rank[j] = rank[k] PROVE j = k
    OBVIOUS
  <2>1. j < k \/ j = k \/ k < j
    OBVIOUS
  <2>2. rank[j] \in Nat /\ rank[k] \in Nat
    BY <1>2
  <2> HIDE DEF rank
  <2>3. QED
    BY <1>4, <2>1, <2>2
<1>6. rank \in Injection(K, 1..size)
  <2>1. rank \in [K -> 1..size]
    BY <1>3
  <2> HIDE DEF rank
  <2>2. QED
    BY <1>5, <2>1 DEF Injection, IsInjective
<1>7. \A i \in 1..size : \E k \in K : rank[k] = i
  <2>1. IsFiniteSet(1..size) /\ Cardinality(1..size) = size
    BY <1>1, FS_Interval
  <2> HIDE DEF rank
  <2>2. rank \in Surjection(K, 1..size)
    BY <1>1, <1>6, <2>1, FS_Injection
  <2>3. QED
    BY <2>2 DEF Surjection
<1>8. ASSUME NEW k \in K PROVE Nth(K, rank[k]) = k
  <2>1. Nth(K, rank[k]) = CHOOSE j \in K : rank[j] = rank[k]
    <3>1. \A j \in K : Cardinality({x \in K : x <= j}) = rank[j]
      OBVIOUS
    <3>2. Nth(K, rank[k]) = CHOOSE j \in K : Cardinality({x \in K : x <= j}) = rank[k]
      BY DEF Nth
    <3> HIDE DEF rank
    <3>3. QED
      BY <3>1, <3>2
  <2> HIDE DEF rank
  <2>2. QED
    BY <1>5, <2>1
<1>9. \A i \in 1..size : Nth(K, i) \in K
  <2> HIDE DEF rank
  <2>1. QED
    BY <1>7, <1>8
<1>10. \A k \in K : \E i \in 1..size : Nth(K, i) = k
  <2> HIDE DEF rank
  <2>1. QED
    BY <1>3, <1>8
<1>11. ASSUME NEW i \in 1..size, NEW j \in 1..size, i < j
       PROVE  Nth(K, i) < Nth(K, j)
  <2> HIDE DEF rank
  <2>1. PICK x \in K : rank[x] = i
    BY <1>7
  <2>2. PICK y \in K : rank[y] = j
    BY <1>7
  <2>3. Nth(K, i) = x /\ Nth(K, j) = y
    BY <1>8, <2>1, <2>2
  <2>4. x # y /\ ~ (y < x)
    BY <1>1, <1>4, <1>11, <2>1, <2>2
  <2>5. QED
    BY <2>3, <2>4
<1>12. QED
  BY <1>1, <1>9, <1>10, <1>11

(* What is picked of a list is at the positions, each once. *)
LEMMA PickedIs ==
  ASSUME NEW X, NEW s \in Seq(X), NEW K \in SUBSET DOMAIN s
  PROVE  /\ Picked(s, K) \in Seq(X)
         /\ Len(Picked(s, K)) <= Len(s)
         /\ \A k \in K : \E i \in DOMAIN Picked(s, K) : Picked(s, K)[i] = s[k]
<1> DEFINE size == Cardinality(K)
           p == [i \in 1..size |-> s[Nth(K, i)]]
<1>1. Picked(s, K) = p
  BY DEF Picked
<1>2. Len(s) \in Nat /\ DOMAIN s = 1..Len(s)
  OBVIOUS
<1>3. /\ size \in Nat /\ size <= Len(s)
      /\ \A i \in 1..size : Nth(K, i) \in K
      /\ \A k \in K : \E i \in 1..size : Nth(K, i) = k
  BY <1>2, RanksAreTaken
<1> HIDE DEF size
<1>4. p \in Seq(X) /\ Len(p) = size /\ DOMAIN p = 1..size
  BY <1>2, <1>3
<1>5. \A k \in K : \E i \in DOMAIN p : p[i] = s[k]
  BY <1>3, <1>4
<1>6. QED
  BY <1>1, <1>3, <1>4, <1>5

(* Sorting by tier keeps everybody. *)
LEMMA EverybodySorted ==
  ASSUME NEW X, NEW s \in Seq(X), \A x \in X : x.tier \in 0..3
  PROVE  \A k \in DOMAIN s : \E i \in DOMAIN ByTier(s) : ByTier(s)[i] = s[k]
<1> DEFINE K(t) == {k \in DOMAIN s : s[k].tier = t}
           p0 == OfTier(s, 0)
           p1 == OfTier(s, 1)
           p2 == OfTier(s, 2)
           p3 == OfTier(s, 3)
<1>1. ASSUME NEW t \in 0..3
      PROVE  /\ OfTier(s, t) \in Seq(X)
             /\ \A k \in K(t) : \E i \in DOMAIN OfTier(s, t) : OfTier(s, t)[i] = s[k]
  <2>1. OfTier(s, t) = Picked(s, K(t))
    BY DEF OfTier
  <2>2. K(t) \in SUBSET DOMAIN s
    OBVIOUS
  <2> HIDE DEF K
  <2>3. QED
    BY <2>1, <2>2, PickedIs
<1>2. ByTier(s) = p0 \o p1 \o p2 \o p3
  BY DEF ByTier
<1>3. p0 \in Seq(X) /\ p1 \in Seq(X) /\ p2 \in Seq(X) /\ p3 \in Seq(X)
  BY <1>1
<1>4. ASSUME NEW k \in DOMAIN s
      PROVE  \/ \E i \in DOMAIN p0 : p0[i] = s[k]
             \/ \E i \in DOMAIN p1 : p1[i] = s[k]
             \/ \E i \in DOMAIN p2 : p2[i] = s[k]
             \/ \E i \in DOMAIN p3 : p3[i] = s[k]
  <2>1. s[k] \in X
    OBVIOUS
  <2>2. s[k].tier \in 0..3
    BY <2>1
  <2>3. k \in K(s[k].tier)
    OBVIOUS
  <2>4. \E i \in DOMAIN OfTier(s, s[k].tier) : OfTier(s, s[k].tier)[i] = s[k]
    BY <1>1, <2>2, <2>3
  <2>5. s[k].tier = 0 \/ s[k].tier = 1 \/ s[k].tier = 2 \/ s[k].tier = 3
    BY <2>2
  <2>6. QED
    BY <2>4, <2>5
<1> HIDE DEF p0, p1, p2, p3
<1> DEFINE has(p, x) == \E i \in DOMAIN p : p[i] = x
<1>5. ASSUME NEW p \in Seq(X), NEW q \in Seq(X), NEW x, has(p, x) \/ has(q, x)
      PROVE  has(p \o q, x)
  <2>2. CASE \E i \in DOMAIN p : p[i] = x
    <3>1. PICK i \in DOMAIN p : p[i] = x
      BY <2>2
    <3>2. i \in DOMAIN (p \o q) /\ (p \o q)[i] = x
      BY <3>1, ConcatProperties
    <3>3. QED
      BY <3>2
  <2>3. CASE \E i \in DOMAIN q : q[i] = x
    <3>1. PICK i \in DOMAIN q : q[i] = x
      BY <2>3
    <3>2. Len(p) + i \in DOMAIN (p \o q) /\ (p \o q)[Len(p) + i] = x
      BY <3>1, ConcatProperties
    <3>3. QED
      BY <3>2
  <2>4. QED
    BY <1>5, <2>2, <2>3
<1>6. p0 \o p1 \in Seq(X) /\ p0 \o p1 \o p2 \in Seq(X)
  BY <1>3
<1>7. ASSUME NEW k \in DOMAIN s PROVE has(p0 \o p1 \o p2 \o p3, s[k])
  <2>1. has(p0, s[k]) \/ has(p1, s[k]) \/ has(p2, s[k]) \/ has(p3, s[k])
    BY <1>4
  <2> HIDE DEF has
  <2>2. has(p0, s[k]) \/ has(p1, s[k]) => has(p0 \o p1, s[k])
    BY <1>3, <1>5
  <2>3. has(p0 \o p1, s[k]) \/ has(p2, s[k]) => has(p0 \o p1 \o p2, s[k])
    BY <1>3, <1>5, <1>6
  <2>4. has(p0 \o p1 \o p2, s[k]) \/ has(p3, s[k]) => has(p0 \o p1 \o p2 \o p3, s[k])
    BY <1>3, <1>5, <1>6
  <2>5. QED
    BY <2>1, <2>2, <2>3, <2>4
<1>8. QED
  BY <1>2, <1>7

(* In a scene within the cap, whoever is due is in the roster. *)
LEMMA DueAreScheduled ==
  ASSUME SchedulerAssumption, NEW active \in Seq(Npcs), Len(active) <= MaxAgents,
         NEW info, \A k \in DOMAIN active : ComputeTier(info[active[k]]) \in 0..3,
         NEW turn, NEW k \in DOMAIN active,
         turn % Cadence[ComputeTier(info[active[k]])] = 0
  PROVE  active[k] \in Ids(Roster(turn, active, info))
<1> DEFINE all == Tiered(active, info, Counted(active))
           X == {all[j] : j \in DOMAIN active}
           K == {j \in DOMAIN all : Due(turn, all[j])}
           due == Picked(all, K)
<1>1. DOMAIN all = DOMAIN active /\ DOMAIN active = 1..Len(active) /\ Len(active) \in Nat
  BY DEF Tiered
<1>2. \A j \in DOMAIN active : /\ all[j].id = active[j]
                                /\ all[j].tier = ComputeTier(info[active[j]])
  BY DEF Tiered
<1>3. all \in Seq(X) /\ Len(all) = Len(active)
  <2>1. all = [j \in 1..Len(active) |-> all[j]]
    BY <1>1 DEF Tiered
  <2> HIDE DEF all
  <2>2. QED
    BY <1>1, <2>1
<1>4. \A x \in X : x.tier \in 0..3
  BY <1>2
<1>5. k \in K
  BY <1>1, <1>2 DEF Due
<1>6. K \in SUBSET DOMAIN all
  OBVIOUS
<1>7. Roster(turn, active, info) = ByTier(Capped(due))
  BY DEF Roster
<1> HIDE DEF all, X, K
<1>8. /\ due \in Seq(X) /\ Len(due) <= Len(active)
      /\ \E i \in DOMAIN due : due[i] = all[k]
  BY <1>3, <1>5, <1>6, PickedIs
<1> HIDE DEF due
<1>9. Capped(due) = due
  <2>1. Len(due) \in Nat /\ Len(due) <= MaxAgents /\ MaxAgents \in Nat
    BY <1>1, <1>8, SchedulerConstants
  <2>2. Capped(due) = SubSeq(due, 1, Len(due))
    BY <2>1 DEF Capped
  <2>3. QED
    BY <1>8, <2>2
<1>10. PICK i \in DOMAIN due : due[i] = all[k]
  BY <1>8
<1>11. \E j \in DOMAIN ByTier(due) : ByTier(due)[j] = due[i]
  BY <1>4, <1>8, EverybodySorted
<1>12. PICK j \in DOMAIN ByTier(due) : ByTier(due)[j] = all[k]
  BY <1>10, <1>11
<1>13. ByTier(due)[j].id = active[k]
  BY <1>2, <1>12
<1>14. QED
  BY <1>7, <1>9, <1>12, <1>13 DEF Ids

(* An agent that is left out has waited since a turn that was due for the   *)
(* farthest tier it had since.                                             *)
WaitsSinceDue ==
  /\ turnCounter \in Nat
  /\ waited \in [Npcs -> Nat] /\ farthest \in [Npcs -> 0..3]
  /\ \A a \in Npcs : waited[a] <= turnCounter % Cadence[farthest[a]]

LEMMA WaitInit == ASSUME SchedulerAssumption, Init PROVE WaitsSinceDue
<1>1. Cadence[0] \in Nat \ {0}
  BY SchedulerConstants
<1>2. 0 % Cadence[0] \in Nat
  BY <1>1
<1>3. turnCounter = 0 /\ waited = [a \in Npcs |-> 0] /\ farthest = [a \in Npcs |-> 0]
  BY DEF Init
<1>4. waited \in [Npcs -> Nat] /\ farthest \in [Npcs -> 0..3]
  BY <1>3
<1>5. \A a \in Npcs : waited[a] = 0 /\ farthest[a] = 0
  BY <1>3
<1>6. QED
  BY <1>2, <1>3, <1>4, <1>5 DEF WaitsSinceDue

(* One turn more of waiting, if the turn is not due for the tier t. *)
LEMMA OneTurnMore ==
  ASSUME SchedulerAssumption, NEW n \in Nat, NEW w \in Nat, NEW f \in 0..3, NEW t \in 0..3,
         w <= n % Cadence[f], (n + 1) % Cadence[t] # 0
  PROVE  w + 1 <= (n + 1) % Cadence[IF f < t THEN t ELSE f]
<1>1. /\ Cadence[f] \in Nat \ {0} /\ Cadence[t] \in Nat \ {0}
      /\ f <= t => Cadence[t] % Cadence[f] = 0
      /\ t <= f => Cadence[f] % Cadence[t] = 0
  BY SchedulerConstants
<1>2. /\ n % Cadence[f] \in Nat /\ n % Cadence[t] \in Nat
      /\ (n + 1) % Cadence[f] \in Nat /\ (n + 1) % Cadence[t] \in Nat
  BY <1>1
<1>3. CASE f < t
  <2>1. Cadence[t] % Cadence[f] = 0
    BY <1>1, <1>3
  <2>2. n % Cadence[f] <= n % Cadence[t]
    BY <1>1, <2>1, CoarserRemainder, Zenon
  <2>3. (n + 1) % Cadence[t] = (n % Cadence[t]) + 1
    BY <1>1, NextRemainder
  <2>4. QED
    BY <1>2, <1>3, <2>2, <2>3
<1>4. CASE ~ (f < t)
  <2>1. (n + 1) % Cadence[t] <= (n + 1) % Cadence[f]
    <3>1. n + 1 \in Nat /\ t <= f
      BY <1>4
    <3>2. QED
      BY <1>1, <3>1, CoarserRemainder
  <2>2. (n + 1) % Cadence[f] # 0
    BY <1>2, <2>1
  <2>3. (n + 1) % Cadence[f] = (n % Cadence[f]) + 1
    BY <1>1, <2>2, NextRemainder
  <2>4. QED
    BY <1>2, <1>4, <2>3
<1>5. QED
  BY <1>3, <1>4

LEMMA TurnKeepsWait ==
  ASSUME SchedulerAssumption, WaitsSinceDue, NEW active \in Scenes, NEW info \in [Range(active) -> Infos],
         Turn(active, info)
  PROVE  WaitsSinceDue'
<1> DEFINE turn == turnCounter + 1
           r == Roster(turn, active, info)
           waits(a) == a \in Range(active) \ Ids(r) /\ Len(active) <= MaxAgents
           tier(a) == ComputeTier(info[a])
<1>1. /\ turnCounter' = turn
      /\ waited' = [a \in Npcs |-> IF waits(a) THEN waited[a] + 1 ELSE 0]
      /\ farthest' = [a \in Npcs |-> IF ~waits(a) THEN 0
                                       ELSE IF farthest[a] < tier(a) THEN tier(a)
                                       ELSE farthest[a]]
  BY DEF Turn, Range
<1>2. active \in Seq(Npcs)
  BY SchedulerConstants
<1>3. \A a \in Range(active) : tier(a) \in 0..3
  <2> SUFFICES ASSUME NEW a \in Range(active) PROVE tier(a) \in 0..3
    OBVIOUS
  <2>1. info[a] \in Infos
    OBVIOUS
  <2>2. info[a].ring \in 0..3 \/ info[a].ring = -1
    BY <2>1, SchedulerConstants
  <2>3. QED
    BY <2>2 DEF ComputeTier, Floored, CollaborationFloor
<1>4. ASSUME NEW a \in Npcs, waits(a) PROVE turn % Cadence[tier(a)] # 0
  <2>1. PICK k \in DOMAIN active : active[k] = a
    BY <1>4 DEF Range
  <2>2. \A j \in DOMAIN active : ComputeTier(info[active[j]]) \in 0..3
    BY <1>3 DEF Range
  <2>3. Len(active) <= MaxAgents /\ a \notin Ids(Roster(turn, active, info))
    BY <1>4
  <2> HIDE DEF turn, r, waits
  <2>4. QED
    BY <1>2, <2>1, <2>2, <2>3, DueAreScheduled
<1>5. turnCounter' \in Nat
  BY <1>1 DEF WaitsSinceDue
<1> HIDE DEF waits, tier
<1>6. ASSUME NEW a \in Npcs
      PROVE  /\ waited'[a] \in Nat /\ farthest'[a] \in 0..3
             /\ waited'[a] <= turnCounter' % Cadence[farthest'[a]]
  <2>1. turnCounter \in Nat /\ waited[a] \in Nat /\ farthest[a] \in 0..3
        /\ waited[a] <= turnCounter % Cadence[farthest[a]]
    BY DEF WaitsSinceDue
  <2>2. CASE waits(a)
    <3>1. tier(a) \in 0..3
      BY <1>3, <2>2 DEF waits
    <3>2. turn % Cadence[tier(a)] # 0
      BY <1>4, <2>2
    <3>3. waited'[a] = waited[a] + 1
          /\ farthest'[a] = IF farthest[a] < tier(a) THEN tier(a) ELSE farthest[a]
      BY <1>1, <2>2
    <3>4. waited[a] + 1 <= turn % Cadence[IF farthest[a] < tier(a) THEN tier(a) ELSE farthest[a]]
      BY <2>1, <3>1, <3>2, OneTurnMore
    <3>5. farthest'[a] \in 0..3
      BY <2>1, <3>1, <3>3
    <3>6. QED
      BY <1>1, <2>1, <3>3, <3>4, <3>5
  <2>3. CASE ~waits(a)
    <3>1. waited'[a] = 0 /\ farthest'[a] = 0
      BY <1>1, <2>3
    <3>2. Cadence[0] \in Nat \ {0}
      BY SchedulerConstants
    <3>3. turnCounter' % Cadence[0] \in Nat
      BY <1>5, <3>2
    <3>4. QED
      BY <3>1, <3>3
  <2>4. QED
    BY <2>2, <2>3
<1>7. waited' \in [Npcs -> Nat] /\ farthest' \in [Npcs -> 0..3]
  <2>1. DOMAIN waited' = Npcs /\ waited' = [a \in Npcs |-> waited'[a]]
    BY <1>1
  <2>2. DOMAIN farthest' = Npcs /\ farthest' = [a \in Npcs |-> farthest'[a]]
    BY <1>1
  <2>3. QED
    BY <1>6, <2>1, <2>2
<1>8. QED
  BY <1>5, <1>6, <1>7 DEF WaitsSinceDue

LEMMA SchedulerKeepsWait ==
  ASSUME SchedulerAssumption, WaitsSinceDue, Next
  PROVE  WaitsSinceDue'
<1>1. CASE \E active \in Scenes : \E info \in [Range(active) -> Infos] : Turn(active, info)
  BY <1>1, TurnKeepsWait DEF Range
<1>2. CASE \E a \in Npcs : RecordAction(a)
  BY <1>2 DEF RecordAction, WaitsSinceDue
<1>3. QED
  BY <1>1, <1>2 DEF Next

(* Induction up to m, for what holds of the numbers in T. *)
LEMMA InductionUpTo ==
  ASSUME NEW T, NEW m \in Nat, m > 0 => 1 \in T,
         \A n \in 1..m : n \in T /\ n # m => n + 1 \in T
  PROVE  \A n \in 1..m : n \in T
<1> DEFINE Out == {n \in 1..m : n \notin T}
<1>1. SUFFICES ASSUME Out # {} PROVE FALSE
  OBVIOUS
<1>2. PICK n \in Out : \A k \in Out : n <= k
  <2>1. Out \in SUBSET Nat
    OBVIOUS
  <2> HIDE DEF Out
  <2>2. QED
    BY <1>1, <2>1, LeastNumber
<1>3. n \in 1..m /\ n \notin T
  OBVIOUS
<1>4. \A k \in 1..m : k < n => k \in T
  <2>1. \A k \in Out : k \in 1..m
    OBVIOUS
  <2>2. \A k \in 1..m : k \in T \/ k \in Out
    OBVIOUS
  <2> HIDE DEF Out
  <2>3. QED
    BY <1>2, <1>3, <2>1, <2>2
<1>5. n # 1
  BY <1>3
<1>6. n - 1 \in 1..m /\ n - 1 < n /\ n - 1 # m /\ (n - 1) + 1 = n
  BY <1>3, <1>5
<1>7. n - 1 \in T
  BY <1>4, <1>6
<1>8. QED
  BY <1>3, <1>6, <1>7

-----------------------------------------------------------------------------
(* Sequences of sequences, and the one that FlattenSeq makes of them. *)

(* The flattening of the first n of ss, for each n up to m. *)
Unfolds(h, ss, m) ==
  \A i \in 1..m : h[i] = IF i = 1 THEN ss[i] ELSE h[i - 1] \o ss[i]
Flattens(h, ss, X, m) == h \in [1..m -> Seq(X)] /\ Unfolds(h, ss, m)

LEMMA FlatteningsExist ==
  ASSUME NEW X, NEW ss \in Seq(Seq(X)), NEW m \in 1..Len(ss)
  PROVE  \E h : Flattens(h, ss, X, m)
<1> DEFINE T == {n \in Nat : \E h : Flattens(h, ss, X, n)}
<1>1. m \in Nat \ {0} /\ \A i \in 1..m : ss[i] \in Seq(X)
  OBVIOUS
<1>2. 1 \in T
  <2>1. Flattens([i \in 1..1 |-> ss[1]], ss, X, 1)
    BY <1>1 DEF Flattens, Unfolds
  <2>2. QED
    BY <2>1
<1>3. ASSUME NEW n \in 1..m, n \in T, n # m PROVE n + 1 \in T
  <2>1. PICK h : Flattens(h, ss, X, n)
    BY <1>3
  <2> DEFINE g == [i \in 1..(n + 1) |-> IF i = n + 1 THEN h[n] \o ss[n + 1] ELSE h[i]]
  <2>2. n + 1 \in 1..m /\ h[n] \in Seq(X) /\ ss[n + 1] \in Seq(X)
    BY <1>1, <1>3, <2>1 DEF Flattens, Unfolds
  <2>3. h[n] \o ss[n + 1] \in Seq(X)
    BY <2>2, ConcatProperties
  <2>4. \A i \in 1..(n + 1) : i = n + 1 \/ i \in 1..n
    BY <1>1, <1>3
  <2>5. \A i \in 1..(n + 1) : g[i] \in Seq(X)
    BY <2>1, <2>3, <2>4 DEF Flattens, Unfolds
  <2>6. \A i \in 1..(n + 1) : g[i] = IF i = 1 THEN ss[i] ELSE g[i - 1] \o ss[i]
    <3> SUFFICES ASSUME NEW i \in 1..(n + 1)
                 PROVE  g[i] = IF i = 1 THEN ss[i] ELSE g[i - 1] \o ss[i]
      OBVIOUS
    <3>1. CASE i = n + 1
      <4>1. i # 1 /\ i - 1 = n /\ n \in 1..(n + 1) /\ n # n + 1
        BY <1>3, <3>1
      <4>2. g[i] = h[n] \o ss[n + 1] /\ g[n] = h[n]
        BY <3>1, <4>1
      <4>3. QED
        BY <3>1, <4>1, <4>2
    <3>2. CASE i # n + 1
      <4>1. i \in 1..n /\ (i # 1 => i - 1 \in 1..n /\ i - 1 \in 1..(n + 1) /\ i - 1 # n + 1)
        BY <1>3, <3>2
      <4>2. g[i] = h[i] /\ (i # 1 => g[i - 1] = h[i - 1])
        BY <3>2, <4>1
      <4>3. h[i] = IF i = 1 THEN ss[i] ELSE h[i - 1] \o ss[i]
        BY <2>1, <4>1 DEF Flattens, Unfolds
      <4>4. QED
        BY <4>2, <4>3
    <3>3. QED
      BY <3>1, <3>2
  <2>7. Flattens(g, ss, X, n + 1)
    <3>1. g = [i \in 1..(n + 1) |-> g[i]]
      OBVIOUS
    <3> HIDE DEF g
    <3>2. QED
      BY <2>5, <2>6, <3>1 DEF Flattens, Unfolds
  <2>8. QED
    BY <1>1, <1>3, <2>7
<1>4. m \in T
  <2> HIDE DEF T
  <2>1. m \in Nat /\ m \in 1..m /\ (m > 0 => 1 \in T)
        /\ \A n \in 1..m : n \in T /\ n # m => n + 1 \in T
    BY <1>1, <1>2, <1>3
  <2>2. \A n \in 1..m : n \in T
    BY <2>1, InductionUpTo
  <2>3. QED
    BY <2>1, <2>2
<1>5. QED
  BY <1>4

(* What flattens a sequence is unique. *)
LEMMA FlatteningIsUnique ==
  ASSUME NEW X, NEW ss, NEW m \in Nat, NEW g, Flattens(g, ss, X, m),
         NEW h, Unfolds(h, ss, m)
  PROVE  \A i \in 1..m : h[i] = g[i]
<1> DEFINE T == {i \in 1..m : h[i] = g[i]}
<1>1. /\ \A i \in 1..m : g[i] = IF i = 1 THEN ss[i] ELSE g[i - 1] \o ss[i]
      /\ \A i \in 1..m : h[i] = IF i = 1 THEN ss[i] ELSE h[i - 1] \o ss[i]
  BY DEF Flattens, Unfolds
<1>2. m > 0 => 1 \in T
  BY <1>1
<1>3. ASSUME NEW n \in 1..m, n \in T, n # m PROVE n + 1 \in T
  <2>1. n + 1 \in 1..m /\ n + 1 # 1 /\ (n + 1) - 1 = n /\ h[n] = g[n]
    BY <1>3
  <2>2. h[n + 1] = h[n] \o ss[n + 1] /\ g[n + 1] = g[n] \o ss[n + 1]
    BY <1>1, <2>1
  <2>3. QED
    BY <2>1, <2>2
<1>4. \A n \in 1..m : n \in T
  <2> HIDE DEF T
  <2> QED BY <1>2, <1>3, InductionUpTo
<1>5. QED
  BY <1>4

(* FlattenSeq is the last of them. *)
LEMMA FlattenIsLast ==
  ASSUME NEW X, NEW ss \in Seq(Seq(X)), Len(ss) > 0
  PROVE  \E h : Flattens(h, ss, X, Len(ss)) /\ FlattenSeq(ss) = h[Len(ss)]
<1>1. Len(ss) \in Nat \ {0} /\ Len(ss) \in 1..Len(ss)
  OBVIOUS
<1>2. PICK g : Flattens(g, ss, X, Len(ss))
  BY <1>1, FlatteningsExist
<1>3. ASSUME NEW f, f = [i \in 1..Len(ss) |-> IF i = 1 THEN ss[i] ELSE f[i - 1] \o ss[i]]
      PROVE  f[Len(ss)] = g[Len(ss)]
  <2>1. Unfolds(f, ss, Len(ss))
    BY <1>3 DEF Unfolds
  <2>2. \A i \in 1..Len(ss) : f[i] = g[i]
    BY <1>1, <1>2, <2>1, FlatteningIsUnique
  <2>3. QED
    BY <1>1, <2>2
<1> DEFINE rec(f) == [i \in 1..Len(ss) |-> IF i = 1 THEN ss[i] ELSE f[i - 1] \o ss[i]]
           h == CHOOSE f : f = rec(f)
<1>4. g = rec(g)
  BY <1>2 DEF Flattens, Unfolds
<1>5. h = rec(h)
  <2> HIDE DEF rec
  <2> QED BY <1>4
<1>6. FlattenSeq(ss) = h[Len(ss)]
  BY <1>1 DEF FlattenSeq
<1> HIDE DEF h
<1>7. QED
  BY <1>2, <1>3, <1>5, <1>6

(* One sequence more. *)
LEMMA FlattenAppend ==
  ASSUME NEW X, NEW ss \in Seq(Seq(X)), NEW s \in Seq(X)
  PROVE  /\ FlattenSeq(Append(ss, s)) = FlattenSeq(ss) \o s
         /\ FlattenSeq(ss) \in Seq(X)
<1> DEFINE m == Len(ss)
           tt == Append(ss, s)
<1>1. /\ tt \in Seq(Seq(X)) /\ Len(tt) = m + 1 /\ m \in Nat
      /\ tt[m + 1] = s /\ \A i \in 1..m : tt[i] = ss[i]
  BY AppendProperties
<1> HIDE DEF tt
<1>2. PICK g : Flattens(g, tt, X, m + 1) /\ FlattenSeq(tt) = g[m + 1]
  <2>1. Len(tt) > 0
    BY <1>1
  <2>2. \E g : Flattens(g, tt, X, Len(tt)) /\ FlattenSeq(tt) = g[Len(tt)]
    BY <1>1, <2>1, FlattenIsLast
  <2>3. QED
    BY <1>1, <2>2
<1>3. CASE m = 0
  <2>1. ss = <<>> /\ FlattenSeq(ss) = <<>>
    BY <1>3 DEF FlattenSeq
  <2>2. FlattenSeq(tt) = s
    BY <1>1, <1>2, <1>3 DEF Flattens, Unfolds
  <2>3. <<>> \o s = s /\ <<>> \in Seq(X)
    OBVIOUS
  <2>4. QED
    BY <2>1, <2>2, <2>3 DEF tt
<1>4. CASE m # 0
  <2>1. PICK h : Flattens(h, ss, X, m) /\ FlattenSeq(ss) = h[m]
    BY <1>1, <1>4, FlattenIsLast
  <2>2. Unfolds(g, ss, m)
    <3>1. \A i \in 1..m : i \in 1..(m + 1)
      BY <1>1
    <3>2. QED
      BY <1>1, <1>2, <3>1 DEF Flattens, Unfolds
  <2>3. m \in 1..m
    BY <1>1, <1>4
  <2>4. g[m] = h[m]
    BY <1>1, <2>1, <2>2, <2>3, FlatteningIsUnique
  <2>5. g[m + 1] = g[m] \o s
    <3>1. m + 1 \in 1..(m + 1) /\ m + 1 # 1 /\ (m + 1) - 1 = m
      BY <1>1, <1>4
    <3>2. QED
      BY <1>1, <1>2, <3>1 DEF Flattens, Unfolds
  <2>6. h[m] \in Seq(X)
    BY <2>1, <2>3 DEF Flattens, Unfolds
  <2>7. QED
    BY <1>2, <2>1, <2>4, <2>5, <2>6 DEF tt
<1>5. QED
  BY <1>3, <1>4

-----------------------------------------------------------------------------
(* The roster is sorted by tier. *)

Sorted(r) == \A i, j \in DOMAIN r : i <= j => r[i].tier <= r[j].tier
Between(r, low, high) == \A i \in DOMAIN r : low <= r[i].tier /\ r[i].tier <= high

(* What is of one tier only is sorted; so is what follows it with higher    *)
(* ones.                                                                   *)
LEMMA SortedConcat ==
  ASSUME NEW p \in Seq(Scheduled), NEW q \in Seq(Scheduled), Sorted(p), Sorted(q),
         NEW low \in Nat, NEW mid \in Nat, NEW high \in Nat, low <= mid, mid <= high,
         Between(p, low, mid), Between(q, mid, high)
  PROVE  /\ p \o q \in Seq(Scheduled) /\ Sorted(p \o q) /\ Between(p \o q, low, high)
         /\ Len(p \o q) = Len(p) + Len(q)
<1> DEFINE s == p \o q
           m == Len(p)
           n == Len(q)
<1>1. /\ s \in Seq(Scheduled) /\ Len(s) = m + n /\ m \in Nat /\ n \in Nat
      /\ \A i \in 1..m : s[i] = p[i]
      /\ \A i \in (m + 1)..(m + n) : s[i] = q[i - m]
  BY ConcatProperties
<1> HIDE DEF s
<1>2. /\ \A i \in 1..m : p[i].tier \in Nat /\ low <= p[i].tier /\ p[i].tier <= mid
      /\ \A i \in 1..n : q[i].tier \in Nat /\ mid <= q[i].tier /\ q[i].tier <= high
  <2>1. \A i \in 1..m : p[i] \in Scheduled
    OBVIOUS
  <2>2. \A i \in 1..n : q[i] \in Scheduled
    OBVIOUS
  <2>3. \A x \in Scheduled : x.tier \in Nat
    BY DEF Scheduled, Tiers
  <2>4. DOMAIN p = 1..m /\ DOMAIN q = 1..n
    OBVIOUS
  <2>5. QED
    BY <2>1, <2>2, <2>3, <2>4 DEF Between
<1>3. /\ \A i, j \in 1..m : i <= j => p[i].tier <= p[j].tier
      /\ \A i, j \in 1..n : i <= j => q[i].tier <= q[j].tier
  BY DEF Sorted
<1>4. \A i \in 1..(m + n) : i \in 1..m \/ (i \in (m + 1)..(m + n) /\ i - m \in 1..n)
  BY <1>1
<1>5. DOMAIN s = 1..(m + n)
  BY <1>1
<1>6. Between(s, low, high)
  <2> SUFFICES ASSUME NEW i \in 1..(m + n) PROVE low <= s[i].tier /\ s[i].tier <= high
    BY <1>5 DEF Between
  <2>1. CASE i \in 1..m
    BY <1>1, <1>2, <2>1
  <2>2. CASE i \in (m + 1)..(m + n) /\ i - m \in 1..n
    <3>1. s[i] = q[i - m]
      BY <1>1, <2>2
    <3>2. q[i - m].tier \in Nat /\ mid <= q[i - m].tier /\ q[i - m].tier <= high
      BY <1>2, <2>2
    <3>3. QED
      BY <3>1, <3>2
  <2>3. QED
    BY <1>4, <2>1, <2>2
<1>7. Sorted(s)
  <2> SUFFICES ASSUME NEW i \in 1..(m + n), NEW j \in 1..(m + n), i <= j
               PROVE  s[i].tier <= s[j].tier
    BY <1>5 DEF Sorted
  <2>1. CASE j \in 1..m
    <3>1. i \in 1..m
      BY <1>1, <2>1
    <3>2. QED
      BY <1>1, <1>3, <2>1, <3>1
  <2>2. CASE i \in 1..m /\ j \in (m + 1)..(m + n) /\ j - m \in 1..n
    <3>1. s[i] = p[i] /\ s[j] = q[j - m]
      BY <1>1, <2>2
    <3>2. p[i].tier \in Nat /\ q[j - m].tier \in Nat
          /\ p[i].tier <= mid /\ mid <= q[j - m].tier
      BY <1>2, <2>2
    <3>3. QED
      BY <3>1, <3>2
  <2>3. CASE i \in (m + 1)..(m + n) /\ i - m \in 1..n
             /\ j \in (m + 1)..(m + n) /\ j - m \in 1..n
    <3>1. s[i] = q[i - m] /\ s[j] = q[j - m] /\ i - m <= j - m
      BY <1>1, <2>3
    <3>2. q[i - m].tier <= q[j - m].tier
      BY <1>3, <2>3, <3>1
    <3>3. QED
      BY <3>1, <3>2
  <2>4. QED
    BY <1>4, <2>1, <2>2, <2>3
<1>8. QED
  BY <1>1, <1>6, <1>7 DEF s

(* What is picked of one tier. *)
LEMMA OfOneTier ==
  ASSUME NEW s \in Seq(Scheduled), NEW t \in Nat
  PROVE  /\ OfTier(s, t) \in Seq(Scheduled) /\ Sorted(OfTier(s, t))
         /\ Between(OfTier(s, t), t, t)
         /\ Len(OfTier(s, t)) = Cardinality({k \in DOMAIN s : s[k].tier = t})
         /\ IsFiniteSet({k \in DOMAIN s : s[k].tier = t})
<1> DEFINE K == {k \in DOMAIN s : s[k].tier = t}
           size == Cardinality(K)
           p == [i \in 1..size |-> s[Nth(K, i)]]
<1>1. OfTier(s, t) = p
  BY DEF OfTier, Picked
<1>2. Len(s) \in Nat /\ DOMAIN s = 1..Len(s) /\ K \in SUBSET (1..Len(s))
  OBVIOUS
<1>3. IsFiniteSet(K) /\ size \in Nat /\ \A i \in 1..size : Nth(K, i) \in K
  <2> HIDE DEF K
  <2> QED BY <1>2, RanksAreTaken
<1>4. \A i \in 1..size : p[i] \in Scheduled /\ p[i].tier = t
  BY <1>3
<1> HIDE DEF size
<1>5. p \in Seq(Scheduled) /\ Len(p) = size /\ DOMAIN p = 1..size
  BY <1>3, <1>4
<1> HIDE DEF p
<1>6. Sorted(p) /\ Between(p, t, t)
  BY <1>4, <1>5 DEF Sorted, Between
<1>7. QED
  BY <1>1, <1>3, <1>5, <1>6 DEF size

(* Two finite sets that share nothing count for both. *)
LEMMA CountedApart ==
  ASSUME NEW A, NEW B, IsFiniteSet(A), IsFiniteSet(B), A \intersect B = {}
  PROVE  /\ IsFiniteSet(A \union B)
         /\ Cardinality(A \union B) = Cardinality(A) + Cardinality(B)
<1>1. Cardinality(A \intersect B) = 0
  BY FS_EmptySet
<1>2. Cardinality(A) \in Nat /\ Cardinality(B) \in Nat
  BY FS_CardinalityType
<1>3. /\ IsFiniteSet(A \union B)
      /\ Cardinality(A \union B) = Cardinality(A) + Cardinality(B) - Cardinality(A \intersect B)
  BY FS_Union
<1>4. QED
  BY <1>1, <1>2, <1>3

(* The sort keeps the length. *)
LEMMA ByTierSorts ==
  ASSUME NEW s \in Seq(Scheduled)
  PROVE  ByTier(s) \in Seq(Scheduled) /\ Sorted(ByTier(s)) /\ Len(ByTier(s)) = Len(s)
<1> DEFINE K(t) == {k \in DOMAIN s : s[k].tier = t}
           p0 == OfTier(s, 0)
           p1 == OfTier(s, 1)
           p2 == OfTier(s, 2)
           p3 == OfTier(s, 3)
<1>1. ASSUME NEW t \in Nat
      PROVE  /\ OfTier(s, t) \in Seq(Scheduled) /\ Sorted(OfTier(s, t))
             /\ Between(OfTier(s, t), t, t)
             /\ Len(OfTier(s, t)) = Cardinality(K(t)) /\ IsFiniteSet(K(t))
  BY OfOneTier
<1>2. /\ p0 \in Seq(Scheduled) /\ Sorted(p0) /\ Between(p0, 0, 0)
      /\ Len(p0) = Cardinality(K(0)) /\ IsFiniteSet(K(0))
      /\ p1 \in Seq(Scheduled) /\ Sorted(p1) /\ Between(p1, 1, 1)
      /\ Len(p1) = Cardinality(K(1)) /\ IsFiniteSet(K(1))
      /\ p2 \in Seq(Scheduled) /\ Sorted(p2) /\ Between(p2, 2, 2)
      /\ Len(p2) = Cardinality(K(2)) /\ IsFiniteSet(K(2))
      /\ p3 \in Seq(Scheduled) /\ Sorted(p3) /\ Between(p3, 3, 3)
      /\ Len(p3) = Cardinality(K(3)) /\ IsFiniteSet(K(3))
  <2> HIDE DEF K
  <2> QED BY <1>1
<1>3. Between(p0, 0, 1) /\ Between(p1, 1, 2) /\ Between(p2, 2, 3)
  <2>1. ASSUME NEW p \in Seq(Scheduled), NEW t \in Nat, Between(p, t, t)
        PROVE  Between(p, t, t + 1)
    <3>1. \A i \in DOMAIN p : p[i] \in Scheduled
      OBVIOUS
    <3>2. \A i \in DOMAIN p : p[i].tier \in Int
      BY <3>1 DEF Scheduled, Tiers
    <3>3. QED
      BY <2>1, <3>2 DEF Between
  <2>2. Between(p0, 0, 0 + 1) /\ Between(p1, 1, 1 + 1) /\ Between(p2, 2, 2 + 1)
    <3> HIDE DEF K, p0, p1, p2
    <3> QED BY <1>2, <2>1
  <2>3. QED
    BY <2>2
<1> HIDE DEF p0, p1, p2, p3, K
<1>4. /\ 0 \in Nat /\ 1 \in Nat /\ 2 \in Nat /\ 3 \in Nat
      /\ 0 <= 1 /\ 1 <= 2 /\ 0 <= 2 /\ 2 <= 3 /\ 0 <= 3 /\ 3 <= 3
  OBVIOUS
<1>5. /\ p0 \o p1 \in Seq(Scheduled) /\ Sorted(p0 \o p1) /\ Between(p0 \o p1, 0, 2)
      /\ Len(p0 \o p1) = Len(p0) + Len(p1)
  BY <1>2, <1>3, <1>4, SortedConcat, Zenon
<1>6. /\ p0 \o p1 \o p2 \in Seq(Scheduled) /\ Sorted(p0 \o p1 \o p2)
      /\ Between(p0 \o p1 \o p2, 0, 3)
      /\ Len(p0 \o p1 \o p2) = Len(p0 \o p1) + Len(p2)
  BY <1>2, <1>3, <1>4, <1>5, SortedConcat, Zenon
<1>7. /\ p0 \o p1 \o p2 \o p3 \in Seq(Scheduled) /\ Sorted(p0 \o p1 \o p2 \o p3)
      /\ Len(p0 \o p1 \o p2 \o p3) = Len(p0 \o p1 \o p2) + Len(p3)
  BY <1>2, <1>4, <1>6, SortedConcat, Zenon
<1>8. Cardinality(K(0)) + Cardinality(K(1)) + Cardinality(K(2)) + Cardinality(K(3)) = Len(s)
  <2>1. DOMAIN s = K(0) \union K(1) \union K(2) \union K(3)
    <3>1. \A k \in DOMAIN s : s[k] \in Scheduled
      OBVIOUS
    <3>2. \A k \in DOMAIN s : s[k].tier \in 0..3
      BY <3>1 DEF Scheduled, Tiers
    <3>3. \A k \in DOMAIN s : s[k].tier = 0 \/ s[k].tier = 1 \/ s[k].tier = 2 \/ s[k].tier = 3
      BY <3>2
    <3>4. \A k \in DOMAIN s : k \in K(0) \/ k \in K(1) \/ k \in K(2) \/ k \in K(3)
      BY <3>3, Zenon DEF K
    <3>5. \A t : K(t) \subseteq DOMAIN s
      BY DEF K
    <3>6. QED
      BY <3>4, <3>5, Zenon
  <2>2. /\ IsFiniteSet(K(0) \union K(1))
        /\ Cardinality(K(0) \union K(1)) = Cardinality(K(0)) + Cardinality(K(1))
    <3>1. K(0) \intersect K(1) = {}
      BY DEF K
    <3>2. QED
      BY <1>2, <3>1, CountedApart, Zenon
  <2>3. /\ IsFiniteSet(K(0) \union K(1) \union K(2))
        /\ Cardinality(K(0) \union K(1) \union K(2))
             = Cardinality(K(0) \union K(1)) + Cardinality(K(2))
    <3>1. (K(0) \union K(1)) \intersect K(2) = {}
      BY DEF K
    <3>2. QED
      BY <1>2, <2>2, <3>1, CountedApart, Zenon
  <2>4. Cardinality(K(0) \union K(1) \union K(2) \union K(3))
          = Cardinality(K(0) \union K(1) \union K(2)) + Cardinality(K(3))
    <3>1. (K(0) \union K(1) \union K(2)) \intersect K(3) = {}
      BY DEF K
    <3>2. QED
      BY <1>2, <2>3, <3>1, CountedApart, Zenon
  <2>5. Cardinality(DOMAIN s) = Len(s)
    <3>1. DOMAIN s = 1..Len(s) /\ Len(s) \in Nat
      OBVIOUS
    <3> DEFINE n == Len(s)
    <3> HIDE DEF n
    <3>2. n \in Nat => Cardinality(1..n) = n
      BY FS_Interval
    <3>3. QED
      BY <3>1, <3>2 DEF n
  <2>6. QED
    BY <2>1, <2>2, <2>3, <2>4, <2>5
<1>9. QED
  BY <1>2, <1>5, <1>6, <1>7, <1>8 DEF ByTier, p0, p1, p2, p3

-----------------------------------------------------------------------------
(* The dispatch of a sorted roster. *)

(* What is picked at the positions of an interval. *)
LEMMA PickedInterval ==
  ASSUME NEW X, NEW s \in Seq(X), NEW a \in 1..(Len(s) + 1), NEW b \in (a - 1)..Len(s)
  PROVE  Picked(s, a..b) = SubSeq(s, a, b)
<1>1. /\ a \in Nat /\ b \in Nat /\ a >= 1 /\ a <= b + 1 /\ b <= Len(s) /\ Len(s) \in Nat
      /\ DOMAIN s = 1..Len(s)
  OBVIOUS
<1>2. Cardinality(a..b) = b - a + 1
  <2>1. Cardinality(a..b) = IF a > b THEN 0 ELSE b - a + 1
    BY <1>1, FS_Interval
  <2>2. QED
    BY <1>1, <2>1
<1>3. ASSUME NEW k \in a..b PROVE Cardinality({j \in a..b : j <= k}) = k - a + 1
  <2>1. {j \in a..b : j <= k} = a..k
    BY <1>1
  <2>2. k \in Int /\ a <= k
    BY <1>1
  <2>3. Cardinality(a..k) = k - a + 1
    BY <1>1, <2>2, FS_Interval
  <2>4. QED
    BY <2>1, <2>3
<1>4. ASSUME NEW i \in 1..(b - a + 1) PROVE Nth(a..b, i) = a + i - 1
  <2>1. a + i - 1 \in a..b /\ (a + i - 1) - a + 1 = i
    BY <1>1
  <2>2. \A k \in a..b : Cardinality({j \in a..b : j <= k}) = i <=> k = a + i - 1
    <3> SUFFICES ASSUME NEW k \in a..b
                 PROVE  Cardinality({j \in a..b : j <= k}) = i <=> k = a + i - 1
      OBVIOUS
    <3>1. Cardinality({j \in a..b : j <= k}) = k - a + 1
      BY <1>3
    <3>2. k - a + 1 = i <=> k = a + i - 1
      BY <1>1
    <3>3. QED
      BY <3>1, <3>2
  <2>3. Nth(a..b, i) = CHOOSE k \in a..b : Cardinality({j \in a..b : j <= k}) = i
    BY DEF Nth
  <2>4. QED
    BY <2>1, <2>2, <2>3
<1> DEFINE p == [i \in 1..(b - a + 1) |-> s[a + i - 1]]
<1>5. Picked(s, a..b) = p
  BY <1>2, <1>4 DEF Picked
<1>6. \A i \in a..b : s[i] \in X
  BY <1>1
<1> DEFINE sub == SubSeq(s, a, b)
<1>7. /\ sub \in Seq(X) /\ Len(sub) = b - a + 1
      /\ \A i \in 1..(b - a + 1) : sub[i] = s[a + i - 1]
  <2>1. /\ sub \in Seq(X) /\ Len(sub) = IF a <= b THEN b - a + 1 ELSE 0
        /\ \A i \in 1..(b - a + 1) : sub[i] = s[a + i - 1]
    BY <1>1, <1>6, SubSeqProperties
  <2> HIDE DEF sub
  <2>2. QED
    BY <1>1, <2>1
<1>8. \A i \in 1..(b - a + 1) : s[a + i - 1] \in X
  BY <1>1
<1>9. p \in Seq(X) /\ Len(p) = b - a + 1 /\ \A i \in 1..(b - a + 1) : p[i] = s[a + i - 1]
  <2>1. b - a + 1 \in Nat
    BY <1>1
  <2>2. QED
    BY <1>8, <2>1
<1> HIDE DEF p, sub
<1>10. p = sub
  BY <1>7, <1>9
<1>11. QED
  BY <1>5, <1>10 DEF sub

(* The lower tiers of a sorted roster come first: the n that are below t. *)
Lowest(r, t, n) == n \in 0..Len(r) /\ \A k \in DOMAIN r : r[k].tier < t <=> k <= n

LEMMA TierBound ==
  ASSUME NEW r \in Seq(Scheduled), Sorted(r), NEW t \in Nat
  PROVE  \E n : Lowest(r, t, n)
<1> DEFINE T == {n \in 0..Len(r) : \A k \in DOMAIN r : n < k => t <= r[k].tier}
<1>1. /\ Len(r) \in Nat /\ DOMAIN r = 1..Len(r)
      /\ \A k \in DOMAIN r : r[k].tier \in Nat
  <2>1. \A k \in DOMAIN r : r[k] \in Scheduled
    OBVIOUS
  <2>2. QED
    BY <2>1 DEF Scheduled, Tiers
<1>2. Len(r) \in T
  BY <1>1
<1>3. PICK n \in T : \A x \in T : n <= x
  <2>1. T \in SUBSET Nat /\ T # {}
    BY <1>1, <1>2
  <2> HIDE DEF T
  <2>2. QED
    BY <2>1, LeastNumber
<1>4. n \in 0..Len(r) /\ \A k \in DOMAIN r : n < k => t <= r[k].tier
  OBVIOUS
<1>5. ASSUME NEW k \in DOMAIN r, k <= n, t <= r[k].tier PROVE FALSE
  <2>1. \A j \in DOMAIN r : k <= j => r[k].tier <= r[j].tier
    BY DEF Sorted
  <2>2. \A j \in DOMAIN r : k - 1 < j => t <= r[j].tier
    BY <1>1, <1>5, <2>1
  <2>3. k - 1 \in 0..Len(r)
    BY <1>1
  <2>4. k - 1 \in T
    BY <2>2, <2>3
  <2>5. n <= k - 1
    <3> HIDE DEF T
    <3> QED BY <1>3, <2>4
  <2>6. QED
    BY <1>1, <1>4, <1>5, <2>5
<1>6. \A k \in DOMAIN r : r[k].tier < t <=> k <= n
  <2> SUFFICES ASSUME NEW k \in DOMAIN r PROVE r[k].tier < t <=> k <= n
    OBVIOUS
  <2>1. k \in Nat /\ n \in Nat /\ r[k].tier \in Nat
    BY <1>1, <1>4
  <2>2. QED
    BY <1>4, <1>5, <2>1
<1>7. QED
  BY <1>4, <1>6 DEF Lowest

(* Those of one tier are next to each other. *)
NextTier(r, t, u, m, n) == t \in Nat /\ u = t + 1 /\ Lowest(r, t, m) /\ Lowest(r, u, n)

LEMMA TierBlock ==
  ASSUME NEW r \in Seq(Scheduled), NEW t, NEW u, NEW m, NEW n, NextTier(r, t, u, m, n)
  PROVE  m <= n /\ OfTier(r, t) = SubSeq(r, m + 1, n)
<1>1. /\ Len(r) \in Nat /\ DOMAIN r = 1..Len(r)
      /\ \A k \in DOMAIN r : r[k].tier \in Nat
  <2>1. \A k \in DOMAIN r : r[k] \in Scheduled
    OBVIOUS
  <2>2. QED
    BY <2>1 DEF Scheduled, Tiers
<1>n. /\ m \in 0..Len(r) /\ \A k \in DOMAIN r : r[k].tier < t <=> k <= m
      /\ n \in 0..Len(r) /\ \A k \in DOMAIN r : r[k].tier < t + 1 <=> k <= n
  BY DEF Lowest, NextTier
<1>t. t \in Nat
  BY DEF NextTier
<1>2. m <= n
  <2>1. CASE m = 0
    BY <1>1, <1>n, <2>1
  <2>2. CASE m # 0
    <3>1. m \in DOMAIN r /\ m <= m
      BY <1>1, <1>n, <2>2
    <3>2. r[m].tier < t
      BY <1>n, <3>1
    <3>3. r[m].tier < t + 1
      BY <1>1, <1>t, <3>1, <3>2
    <3>4. QED
      BY <1>n, <3>1, <3>3
  <2>3. QED
    BY <2>1, <2>2
<1>3. {k \in DOMAIN r : r[k].tier = t} = (m + 1)..n
  <2>1. ASSUME NEW k \in DOMAIN r PROVE r[k].tier = t <=> k \in (m + 1)..n
    <3>1. r[k].tier \in Nat /\ k \in Nat
      BY <1>1
    <3>2. r[k].tier = t <=> ~(r[k].tier < t) /\ r[k].tier < t + 1
      BY <1>t, <3>1
    <3>3. QED
      BY <1>1, <1>n, <3>1, <3>2
  <2>2. (m + 1)..n \subseteq DOMAIN r
    BY <1>1, <1>n
  <2>3. QED
    BY <2>1, <2>2
<1>4. OfTier(r, t) = Picked(r, (m + 1)..n)
  BY <1>3 DEF OfTier
<1>5. m + 1 \in 1..(Len(r) + 1) /\ n \in ((m + 1) - 1)..Len(r)
  BY <1>1, <1>2, <1>n
<1>6. QED
  BY <1>2, <1>4, <1>5, PickedInterval

Batch(s) == IF s = <<>> THEN <<>> ELSE <<s>>
Alone(r, m) == [k \in 1..m |-> <<r[k]>>]
Fewer(m, n) == IF m < n THEN m ELSE n
Parts(r, n, m) == Alone(r, m) \o Batch(SubSeq(r, m + 1, n)) \o Batch(SubSeq(r, n + 1, Len(r)))

(* plan_dispatch cuts a sorted roster: the first ones alone, what is left   *)
(* of tier 0, and the rest.                                                *)
LEMMA PlanCuts ==
  ASSUME NEW r \in Seq(Scheduled), Sorted(r), MaxSlots \in Nat
  PROVE  \E n \in 0..Len(r) :
           /\ \A k \in DOMAIN r : r[k].tier = 0 <=> k <= n
           /\ PlanDispatch(r) = Parts(r, n, Fewer(n, MaxSlots))
<1>1. /\ Len(r) \in Nat /\ DOMAIN r = 1..Len(r)
      /\ \A k \in DOMAIN r : r[k].tier \in 0..3
  <2>1. \A k \in DOMAIN r : r[k] \in Scheduled
    OBVIOUS
  <2>2. QED
    BY <2>1 DEF Scheduled, Tiers
<1>n. /\ 0 \in Nat /\ 1 \in Nat /\ 2 \in Nat /\ 3 \in Nat
      /\ 1 = 0 + 1 /\ 2 = 1 + 1 /\ 3 = 2 + 1 /\ 4 = 3 + 1
  OBVIOUS
<1>2. PICK n1 : Lowest(r, 1, n1)
  BY <1>n, TierBound, Zenon
<1>3. PICK n2 : Lowest(r, 2, n2)
  BY <1>n, TierBound, Zenon
<1>4. PICK n3 : Lowest(r, 3, n3)
  BY <1>n, TierBound, Zenon
<1>5. Lowest(r, 0, 0)
  BY <1>1 DEF Lowest
<1>6. Lowest(r, 4, Len(r))
  BY <1>1 DEF Lowest
<1>7. OfTier(r, 0) = SubSeq(r, 0 + 1, n1)
  <2>1. NextTier(r, 0, 1, 0, n1)
    BY <1>n, <1>2, <1>5, Zenon DEF NextTier
  <2>2. QED
    BY <2>1, TierBlock, Zenon
<1>8. n1 <= n2 /\ OfTier(r, 1) = SubSeq(r, n1 + 1, n2)
  <2>1. NextTier(r, 1, 2, n1, n2)
    BY <1>n, <1>2, <1>3, Zenon DEF NextTier
  <2>2. QED
    BY <2>1, TierBlock, Zenon
<1>9. n2 <= n3 /\ OfTier(r, 2) = SubSeq(r, n2 + 1, n3)
  <2>1. NextTier(r, 2, 3, n2, n3)
    BY <1>n, <1>3, <1>4, Zenon DEF NextTier
  <2>2. QED
    BY <2>1, TierBlock, Zenon
<1>10. OfTier(r, 3) = SubSeq(r, n3 + 1, Len(r))
  <2>1. NextTier(r, 3, 4, n3, Len(r))
    BY <1>n, <1>4, <1>6, Zenon DEF NextTier
  <2>2. QED
    BY <2>1, TierBlock, Zenon
<1>p. n1 \in 0..Len(r) /\ n2 \in 0..Len(r) /\ n3 \in 0..Len(r)
  BY <1>2, <1>3, <1>4 DEF Lowest
<1>11. OfTier(r, 1) \o OfTier(r, 2) \o OfTier(r, 3) = SubSeq(r, n1 + 1, Len(r))
  <2>1. /\ n1 + 1 \in 1..(Len(r) + 1) /\ n2 \in ((n1 + 1) - 1)..Len(r) /\ n3 \in n2..Len(r)
        /\ n3 \in ((n1 + 1) - 1)..Len(r) /\ Len(r) \in n3..Len(r)
    BY <1>1, <1>p, <1>8, <1>9
  <2>2. SubSeq(r, n1 + 1, n2) \o SubSeq(r, n2 + 1, n3) = SubSeq(r, n1 + 1, n3)
    BY <2>1, ConcatAdjacentSubSeq
  <2>3. SubSeq(r, n1 + 1, n3) \o SubSeq(r, n3 + 1, Len(r)) = SubSeq(r, n1 + 1, Len(r))
    BY <2>1, ConcatAdjacentSubSeq
  <2>4. QED
    BY <1>8, <1>9, <1>10, <2>2, <2>3
<1> DEFINE tier0 == OfTier(r, 0)
           m == Fewer(n1, MaxSlots)
<1>12. /\ \A i \in 1..n1 : tier0[i] = r[i]
       /\ Len(tier0) = n1 /\ n1 \in Nat /\ n1 <= Len(r)
  <2>1. \A i \in 1..n1 : r[i] \in Scheduled
    BY <1>1, <1>p
  <2>2. n1 \in Int /\ n1 \in Nat /\ n1 <= Len(r)
    BY <1>1, <1>p
  <2>3. /\ Len(SubSeq(r, 1, n1)) = IF 1 <= n1 THEN n1 - 1 + 1 ELSE 0
        /\ \A i \in 1..(n1 - 1 + 1) : SubSeq(r, 1, n1)[i] = r[1 + i - 1]
    BY <2>1, <2>2, SubSeqProperties
  <2>4. tier0 = SubSeq(r, 1, n1)
    BY <1>7
  <2> HIDE DEF tier0
  <2>5. QED
    BY <2>2, <2>3, <2>4
<1>13. m \in 0..n1
  BY <1>12 DEF Fewer
<1> HIDE DEF tier0
<1>14. SubSeq(tier0, m + 1, Len(tier0)) = SubSeq(r, m + 1, n1)
  <2>1. \A i \in 1..n1 : tier0[i] \in Scheduled /\ r[i] \in Scheduled
    BY <1>1, <1>12
  <2> HIDE DEF m
  <2> DEFINE left == SubSeq(tier0, m + 1, n1)
             right == SubSeq(r, m + 1, n1)
  <2>2. m + 1 \in Int /\ n1 \in Int /\ m \in Nat
    BY <1>12, <1>13
  <2>3. \A i \in (m + 1)..n1 : i \in 1..n1
    BY <2>2
  <2>4. \A i \in (m + 1)..n1 : tier0[i] \in Scheduled /\ r[i] \in Scheduled
    BY <2>1, <2>3
  <2>5. /\ left \in Seq(Scheduled) /\ Len(left) = IF m + 1 <= n1 THEN n1 - (m + 1) + 1 ELSE 0
        /\ \A i \in 1..(n1 - (m + 1) + 1) : left[i] = tier0[(m + 1) + i - 1]
    BY <2>2, <2>4, SubSeqProperties
  <2>6. /\ right \in Seq(Scheduled) /\ Len(right) = IF m + 1 <= n1 THEN n1 - (m + 1) + 1 ELSE 0
        /\ \A i \in 1..(n1 - (m + 1) + 1) : right[i] = r[(m + 1) + i - 1]
    BY <2>2, <2>4, SubSeqProperties
  <2>7. \A i \in 1..(n1 - (m + 1) + 1) : (m + 1) + i - 1 \in 1..n1
    BY <2>2
  <2>8. \A i \in 1..(n1 - (m + 1) + 1) : left[i] = right[i]
    BY <1>12, <2>5, <2>6, <2>7
  <2>9. \A i \in 1..Len(left) : i \in 1..(n1 - (m + 1) + 1)
    BY <2>2, <2>5
  <2> HIDE DEF left, right
  <2>10. left = right
    BY <2>5, <2>6, <2>8, <2>9
  <2>11. QED
    BY <1>12, <2>10 DEF left, right
<1>15. [k \in 1..m |-> <<tier0[k]>>] = Alone(r, m)
  <2>1. \A k \in 1..m : k \in 1..n1
    BY <1>12, <1>13
  <2> HIDE DEF m
  <2>2. QED
    BY <1>12, <2>1 DEF Alone
<1>16. PlanDispatch(r) = [k \in 1..m |-> <<tier0[k]>>]
                           \o Batch(SubSeq(tier0, m + 1, Len(tier0)))
                           \o Batch(OfTier(r, 1) \o OfTier(r, 2) \o OfTier(r, 3))
  BY <1>12, Zenon DEF PlanDispatch, Batch, Fewer, tier0
<1>17. PlanDispatch(r) = Parts(r, n1, m)
  <2> HIDE DEF m
  <2> QED BY <1>11, <1>14, <1>15, <1>16 DEF Parts
<1>18. \A k \in DOMAIN r : r[k].tier = 0 <=> k <= n1
  BY <1>1, <1>2 DEF Lowest
<1>19. QED
  BY <1>p, <1>17, <1>18

LEMMA BatchAdds ==
  ASSUME NEW X, NEW ss \in Seq(Seq(X)), NEW s \in Seq(X)
  PROVE  /\ ss \o Batch(s) \in Seq(Seq(X))
         /\ FlattenSeq(ss \o Batch(s)) = FlattenSeq(ss) \o s
         /\ s = <<>> => ss \o Batch(s) = ss
         /\ s # <<>> => ss \o Batch(s) = Append(ss, s)
<1>1. CASE s = <<>>
  <2>1. ss \o Batch(s) = ss
    BY <1>1 DEF Batch
  <2>2. FlattenSeq(ss) \in Seq(X)
    BY FlattenAppend
  <2>3. FlattenSeq(ss) \o s = FlattenSeq(ss)
    BY <1>1, <2>2
  <2>4. QED
    BY <1>1, <2>1, <2>3
<1>2. CASE s # <<>>
  <2>1. ss \o Batch(s) = Append(ss, s)
    BY <1>2 DEF Batch
  <2>2. Append(ss, s) \in Seq(Seq(X))
    BY AppendProperties
  <2>3. QED
    BY <1>2, <2>1, <2>2, FlattenAppend
<1>3. QED
  BY <1>1, <1>2

(* Those who are alone, one after the other. *)
LEMMA AloneFlattens ==
  ASSUME NEW r \in Seq(Scheduled), NEW m \in 0..Len(r)
  PROVE  /\ Alone(r, m) \in Seq(Seq(Scheduled)) /\ Len(Alone(r, m)) = m
         /\ \A k \in 1..m : Alone(r, m)[k] = <<r[k]>>
         /\ FlattenSeq(Alone(r, m)) = SubSeq(r, 1, m)
<1>1. /\ m \in Nat /\ Len(r) \in Nat /\ m <= Len(r)
      /\ \A k \in 1..m : k \in 1..Len(r) /\ r[k] \in Scheduled
  OBVIOUS
<1> DEFINE a == Alone(r, m)
<1>2. /\ a \in Seq(Seq(Scheduled)) /\ Len(a) = m
      /\ \A k \in 1..m : a[k] = <<r[k]>>
  BY <1>1 DEF Alone
<1> HIDE DEF a
<1>3. CASE m = 0
  <2>1. a = <<>> /\ FlattenSeq(a) = <<>>
    BY <1>2, <1>3 DEF FlattenSeq
  <2>2. SubSeq(r, 1, m) = <<>>
    BY <1>3, SubSeqEmpty
  <2>3. QED
    BY <1>2, <2>1, <2>2 DEF a
<1>4. CASE m # 0
  <2>1. PICK h : Flattens(h, a, Scheduled, m) /\ FlattenSeq(a) = h[m]
    <3>1. Len(a) > 0
      BY <1>1, <1>2, <1>4
    <3>2. QED
      BY <1>2, <3>1, FlattenIsLast
  <2> DEFINE T == {n \in 1..m : h[n] = SubSeq(r, 1, n)}
  <2>2. h[1] = <<r[1]>> /\ \A n \in 1..m : n # 1 => h[n] = h[n - 1] \o <<r[n]>>
    <3>1. 1 \in 1..m
      BY <1>1, <1>4
    <3>2. \A n \in 1..m : h[n] = IF n = 1 THEN a[n] ELSE h[n - 1] \o a[n]
      BY <2>1 DEF Flattens, Unfolds
    <3>3. QED
      BY <1>2, <3>1, <3>2
  <2>3. 1 \in T
    <3>1. 1 \in 1..Len(r) /\ 1 \in 1..m
      BY <1>1, <1>4
    <3>2. SubSeq(r, 1, 1) = <<r[1]>>
      <4>1. SubSeq(r, 1, 1) = SubSeq(r, 1, 1 - 1) \o <<r[1]>>
        BY <3>1, SubSeqRecursiveSecond
      <4>2. SubSeq(r, 1, 1 - 1) = <<>> /\ r[1] \in Scheduled
        BY <1>1, <3>1, SubSeqEmpty
      <4>3. <<>> \o <<r[1]>> = <<r[1]>>
        OBVIOUS
      <4>4. QED
        BY <4>1, <4>2, <4>3
    <3>3. QED
      BY <2>2, <3>1, <3>2
  <2>4. ASSUME NEW n \in 1..m, n \in T, n # m PROVE n + 1 \in T
    <3>1. n + 1 \in 1..m /\ n + 1 # 1 /\ (n + 1) - 1 = n
      BY <2>4
    <3>2. h[n + 1] = SubSeq(r, 1, n) \o <<r[n + 1]>>
      BY <2>2, <2>4, <3>1
    <3>3. SubSeq(r, 1, n + 1) = SubSeq(r, 1, (n + 1) - 1) \o <<r[n + 1]>>
      <4>1. ASSUME NEW j \in 1..Len(r) PROVE SubSeq(r, 1, j) = SubSeq(r, 1, j - 1) \o <<r[j]>>
        <5>1. 1 \in 1..Len(r) /\ j \in 1..Len(r)
          OBVIOUS
        <5>2. QED
          BY <5>1, SubSeqRecursiveSecond, Zenon
      <4>2. n + 1 \in 1..Len(r)
        BY <1>1, <2>4, <3>1
      <4>3. QED
        BY <4>1, <4>2
    <3>4. QED
      BY <3>1, <3>2, <3>3
  <2>5. m \in T
    <3>1. m \in 1..m
      BY <1>1, <1>4
    <3> HIDE DEF T
    <3>2. \A n \in 1..m : n \in T
      BY <1>1, <2>3, <2>4, InductionUpTo
    <3>3. QED
      BY <3>1, <3>2
  <2>6. h[m] = SubSeq(r, 1, m)
    BY <2>5
  <2>7. QED
    BY <1>2, <2>1, <2>6 DEF a
<1>5. QED
  BY <1>3, <1>4

(* The dispatch of a roster partitions it. *)
Partitions(gs, r) ==
  /\ FlattenSeq(gs) = r
  /\ \A k \in DOMAIN gs : gs[k] # <<>>
  /\ Cardinality({k \in DOMAIN gs : Len(gs[k]) = 1 /\ gs[k][1].tier = 0}) <= MaxSlots + 1
  /\ \A k \in DOMAIN gs : \A i, j \in DOMAIN gs[k] :
       gs[k][i].tier = 0 <=> gs[k][j].tier = 0

LEMMA PlanPartitions ==
  ASSUME NEW r \in Seq(Scheduled), Sorted(r), MaxSlots \in Nat
  PROVE  PlanDispatch(r) \in Seq(Seq(Scheduled)) /\ Partitions(PlanDispatch(r), r)
<1>1. PICK n \in 0..Len(r) : /\ \A k \in DOMAIN r : r[k].tier = 0 <=> k <= n
                             /\ PlanDispatch(r) = Parts(r, n, Fewer(n, MaxSlots))
  BY PlanCuts
<1> DEFINE gs == PlanDispatch(r)
           m == Fewer(n, MaxSlots)
           alone == Alone(r, m)
           over == SubSeq(r, m + 1, n)
           rest == SubSeq(r, n + 1, Len(r))
           two == alone \o Batch(over)
<1>2. gs = two \o Batch(rest)
  BY <1>1 DEF Parts
<1>3. /\ n \in Nat /\ m \in Nat /\ m <= n /\ n <= Len(r) /\ Len(r) \in Nat /\ m <= MaxSlots
      /\ m \in 0..Len(r) /\ DOMAIN r = 1..Len(r)
      /\ \A i \in 1..Len(r) : r[i] \in Scheduled
  BY DEF Fewer
<1> HIDE DEF m
<1>4. /\ over \in Seq(Scheduled) /\ (over # <<>> => m + 1 <= n)
      /\ \A i \in 1..Len(over) : over[i].tier = 0
  <2>1. m + 1 \in Int /\ n \in Int /\ \A i \in (m + 1)..n : r[i] \in Scheduled
    BY <1>3
  <2>2. /\ over \in Seq(Scheduled) /\ Len(over) = IF m + 1 <= n THEN n - (m + 1) + 1 ELSE 0
        /\ \A i \in 1..(n - (m + 1) + 1) : over[i] = r[(m + 1) + i - 1]
    BY <2>1, SubSeqProperties
  <2> HIDE DEF over
  <2>3. ASSUME NEW i \in 1..Len(over) PROVE over[i].tier = 0
    <3>a. m + 1 <= n /\ Len(over) = n - (m + 1) + 1
      <4>1. i \in Nat /\ 1 <= i /\ i <= Len(over)
        OBVIOUS
      <4>2. QED
        BY <1>3, <2>2, <4>1
    <3>1. i \in 1..(n - (m + 1) + 1)
      BY <3>a
    <3>2. (m + 1) + i - 1 \in 1..Len(r) /\ (m + 1) + i - 1 <= n
      BY <1>3, <3>1
    <3>3. QED
      BY <1>1, <1>3, <2>2, <3>1, <3>2
  <2>4. over # <<>> => m + 1 <= n
    <3>1. over # <<>> => Len(over) # 0
      BY <2>2
    <3>2. QED
      BY <2>2, <3>1
  <2>5. QED
    BY <2>2, <2>3, <2>4
<1>5. /\ rest \in Seq(Scheduled)
      /\ \A i \in 1..Len(rest) : rest[i].tier # 0
  <2>1. n + 1 \in Int /\ Len(r) \in Int /\ \A i \in (n + 1)..Len(r) : r[i] \in Scheduled
    BY <1>3
  <2>2. /\ rest \in Seq(Scheduled)
        /\ Len(rest) = IF n + 1 <= Len(r) THEN Len(r) - (n + 1) + 1 ELSE 0
        /\ \A i \in 1..(Len(r) - (n + 1) + 1) : rest[i] = r[(n + 1) + i - 1]
    BY <2>1, SubSeqProperties
  <2> HIDE DEF rest
  <2>3. ASSUME NEW i \in 1..Len(rest) PROVE rest[i].tier # 0
    <3>a. n + 1 <= Len(r) /\ Len(rest) = Len(r) - (n + 1) + 1
      <4>1. i \in Nat /\ 1 <= i /\ i <= Len(rest)
        OBVIOUS
      <4>2. CASE n + 1 <= Len(r)
        BY <2>2, <4>2
      <4>3. CASE ~(n + 1 <= Len(r))
        BY <2>2, <4>1, <4>3
      <4>4. QED
        BY <4>2, <4>3
    <3>1. i \in 1..(Len(r) - (n + 1) + 1)
      BY <3>a
    <3>2. (n + 1) + i - 1 \in 1..Len(r) /\ ~((n + 1) + i - 1 <= n)
      BY <1>3, <3>1
    <3>3. QED
      BY <1>1, <1>3, <2>2, <3>1, <3>2
  <2>4. QED
    BY <2>2, <2>3
<1>6. /\ alone \in Seq(Seq(Scheduled)) /\ Len(alone) = m
      /\ \A k \in 1..m : alone[k] = <<r[k]>>
      /\ FlattenSeq(alone) = SubSeq(r, 1, m)
  BY <1>3, AloneFlattens
<1>7. FlattenSeq(alone) \o over \o rest = r
  <2>1. /\ 1 \in 1..(Len(r) + 1) /\ m \in (1 - 1)..Len(r) /\ n \in m..Len(r)
        /\ n \in (1 - 1)..Len(r) /\ Len(r) \in n..Len(r)
    BY <1>3
  <2>2. SubSeq(r, 1, m) \o SubSeq(r, m + 1, n) = SubSeq(r, 1, n)
    BY <2>1, ConcatAdjacentSubSeq
  <2>3. SubSeq(r, 1, n) \o SubSeq(r, n + 1, Len(r)) = SubSeq(r, 1, Len(r))
    BY <2>1, ConcatAdjacentSubSeq
  <2>4. QED
    BY <1>6, <2>2, <2>3, SubSeqFull
<1>c. two = alone \o Batch(over)
  OBVIOUS
<1> HIDE DEF gs, over, rest, alone, two
<1>8. /\ two \in Seq(Seq(Scheduled)) /\ FlattenSeq(two) = FlattenSeq(alone) \o over
      /\ over = <<>> => two = alone
      /\ over # <<>> => two = Append(alone, over)
  <2>1. alone \in Seq(Seq(Scheduled)) /\ over \in Seq(Scheduled)
    BY <1>4, <1>6
  <2>2. /\ alone \o Batch(over) \in Seq(Seq(Scheduled))
        /\ FlattenSeq(alone \o Batch(over)) = FlattenSeq(alone) \o over
        /\ over = <<>> => alone \o Batch(over) = alone
        /\ over # <<>> => alone \o Batch(over) = Append(alone, over)
    BY <2>1, BatchAdds, Zenon
  <2>3. QED
    BY ONLY <2>2, <1>c
<1>9. /\ gs \in Seq(Seq(Scheduled)) /\ FlattenSeq(gs) = FlattenSeq(two) \o rest
      /\ rest = <<>> => gs = two
      /\ rest # <<>> => gs = Append(two, rest)
  <2>1. two \in Seq(Seq(Scheduled)) /\ rest \in Seq(Scheduled)
    BY <1>5, <1>8
  <2>2. /\ two \o Batch(rest) \in Seq(Seq(Scheduled))
        /\ FlattenSeq(two \o Batch(rest)) = FlattenSeq(two) \o rest
        /\ rest = <<>> => two \o Batch(rest) = two
        /\ rest # <<>> => two \o Batch(rest) = Append(two, rest)
    BY <2>1, BatchAdds, Zenon
  <2>3. QED
    BY ONLY <2>2, <1>2
<1>10. FlattenSeq(gs) = r
  BY <1>7, <1>8, <1>9
<1>11. /\ Len(two) \in m..(m + 1)
       /\ \A k \in 1..m : two[k] = <<r[k]>>
       /\ \A k \in 1..Len(two) : k \notin 1..m => two[k] = over /\ over # <<>>
  <2>1. CASE over = <<>>
    BY <1>3, <1>6, <1>8, <2>1
  <2>2. CASE over # <<>>
    <3>1. /\ Len(two) = m + 1 /\ two[m + 1] = over
          /\ \A k \in 1..m : two[k] = alone[k]
      <4>1. two = Append(alone, over)
        BY <1>8, <2>2
      <4>2. over \in Seq(Scheduled) /\ alone \in Seq(Seq(Scheduled)) /\ Len(alone) = m
        BY <1>4, <1>6
      <4>3. QED
        BY <4>1, <4>2, AppendProperties
    <3>2. \A k \in 1..(m + 1) : k \in 1..m \/ k = m + 1
      BY <1>3
    <3>3. QED
      BY <1>3, <1>6, <2>2, <3>1, <3>2
  <2>3. QED
    BY <2>1, <2>2
<1>12. ASSUME NEW k \in DOMAIN gs
       PROVE  \/ k \in 1..m /\ gs[k] = <<r[k]>>
              \/ k \in 1..(m + 1) /\ gs[k] = over /\ over # <<>>
              \/ gs[k] = rest /\ rest # <<>>
  <2>1. CASE k \in 1..Len(two)
    <3>1. gs[k] = two[k]
      BY <1>8, <1>9, <2>1, AppendProperties
    <3>2. k \in 1..(m + 1)
      BY <1>3, <1>11, <2>1
    <3>3. QED
      BY <1>11, <2>1, <3>1, <3>2
  <2>2. CASE k \notin 1..Len(two)
    <3>1. DOMAIN gs = 1..Len(gs) /\ Len(two) \in Nat
      BY <1>8, <1>9
    <3>2. rest # <<>> /\ gs = Append(two, rest)
      BY <1>9, <2>2, <3>1
    <3>3. Len(gs) = Len(two) + 1 /\ gs[Len(two) + 1] = rest
      BY <1>5, <1>8, <3>2, AppendProperties
    <3>4. k = Len(two) + 1
      BY <2>2, <3>1, <3>3
    <3>5. QED
      BY <3>2, <3>3, <3>4
  <2>3. QED
    BY <2>1, <2>2
<1>13. \A k \in DOMAIN gs : gs[k] # <<>>
  <2>1. \A x : <<x>> # <<>>
    OBVIOUS
  <2>2. QED
    BY <1>12, <2>1, Zenon
<1>14. \A k \in DOMAIN gs : \A i, j \in DOMAIN gs[k] : gs[k][i].tier = 0 <=> gs[k][j].tier = 0
  <2> SUFFICES ASSUME NEW k \in DOMAIN gs, NEW i \in DOMAIN gs[k], NEW j \in DOMAIN gs[k]
               PROVE  gs[k][i].tier = 0 <=> gs[k][j].tier = 0
    OBVIOUS
  <2>1. CASE gs[k] = <<r[k]>>
    <3>1. i = 1 /\ j = 1
      BY <2>1
    <3>2. QED
      BY <3>1
  <2>2. CASE gs[k] = over
    <3>1. DOMAIN over = 1..Len(over)
      BY <1>4
    <3>2. QED
      BY <1>4, <2>2, <3>1
  <2>3. CASE gs[k] = rest
    <3>1. DOMAIN rest = 1..Len(rest)
      BY <1>5
    <3>2. QED
      BY <1>5, <2>3, <3>1
  <2>4. QED
    BY <1>12, <2>1, <2>2, <2>3
<1>15. Cardinality({k \in DOMAIN gs : Len(gs[k]) = 1 /\ gs[k][1].tier = 0}) <= MaxSlots + 1
  <2> DEFINE K == {k \in DOMAIN gs : Len(gs[k]) = 1 /\ gs[k][1].tier = 0}
  <2>1. K \in SUBSET (1..(m + 1))
    <3> SUFFICES ASSUME NEW k \in DOMAIN gs, Len(gs[k]) = 1, gs[k][1].tier = 0
                 PROVE  k \in 1..(m + 1)
      OBVIOUS
    <3>1. CASE gs[k] = rest
      <4>a. Len(rest) = 1
        BY <3>1
      <4>1. rest[1].tier # 0
        BY <1>5, <4>a
      <4>2. QED
        BY <3>1, <4>1
    <3>2. CASE k \in 1..m
      BY <1>3, <3>2
    <3>3. QED
      BY <1>12, <3>1, <3>2
  <2>2. IsFiniteSet(1..(m + 1)) /\ Cardinality(1..(m + 1)) = m + 1
    <3>1. 1 \in Int /\ m + 1 \in Int /\ ~(1 > m + 1) /\ (m + 1) - 1 + 1 = m + 1
      BY <1>3
    <3>2. QED
      BY <3>1, FS_Interval
  <2> HIDE DEF K
  <2>3. Cardinality(K) <= m + 1 /\ Cardinality(K) \in Nat
    BY <2>1, <2>2, FS_Subset, FS_CardinalityType
  <2>4. QED
    <3>1. Cardinality(K) <= MaxSlots + 1
      BY <1>3, <2>3
    <3>2. QED
      BY <3>1 DEF K
<1>16. QED
  BY <1>9, <1>10, <1>13, <1>14, <1>15 DEF Partitions, gs

-----------------------------------------------------------------------------
(* The turns. *)

(* What schedule returns: a roster within the cap, sorted by tier. *)
LEMMA RosterIs ==
  ASSUME SchedulerAssumption, NEW active \in Seq(Npcs),
         NEW info, \A k \in DOMAIN active : ComputeTier(info[active[k]]) \in Tiers,
         \A k \in DOMAIN active : Counted(active)[active[k]] \in Nat,
         NEW turn
  PROVE  /\ Roster(turn, active, info) \in Seq(Scheduled)
         /\ Len(Roster(turn, active, info)) <= MaxAgents
         /\ Sorted(Roster(turn, active, info))
<1> DEFINE all == Tiered(active, info, Counted(active))
           K == {j \in DOMAIN all : Due(turn, all[j])}
           due == Picked(all, K)
           n == IF Len(due) < MaxAgents THEN Len(due) ELSE MaxAgents
<1>1. all \in Seq(Scheduled)
  <2>1. DOMAIN active = 1..Len(active) /\ Len(active) \in Nat
        /\ \A k \in 1..Len(active) : active[k] \in Npcs
    OBVIOUS
  <2>2. \A k \in 1..Len(active) :
          [id |-> active[k], tier |-> ComputeTier(info[active[k]]),
           ticks |-> Counted(active)[active[k]]] \in Scheduled
    BY <2>1 DEF Scheduled
  <2>3. QED
    BY <2>1, <2>2 DEF Tiered
<1>2. K \in SUBSET DOMAIN all
  OBVIOUS
<1>3. Roster(turn, active, info) = ByTier(Capped(due))
  BY DEF Roster
<1> HIDE DEF all, K
<1>4. due \in Seq(Scheduled)
  BY <1>1, <1>2, PickedIs
<1> HIDE DEF due
<1>5. Capped(due) = SubSeq(due, 1, n)
  BY DEF Capped
<1>6. n \in Nat /\ n <= MaxAgents /\ n <= Len(due)
  BY <1>4, SchedulerConstants
<1> HIDE DEF n
<1>7. Capped(due) \in Seq(Scheduled) /\ Len(Capped(due)) <= MaxAgents
  <2>1. \A i \in 1..n : due[i] \in Scheduled
    BY <1>4, <1>6
  <2>2. 1 \in Int /\ n \in Int
    BY <1>6
  <2>3. /\ SubSeq(due, 1, n) \in Seq(Scheduled)
        /\ Len(SubSeq(due, 1, n)) = IF 1 <= n THEN n - 1 + 1 ELSE 0
    BY <2>1, <2>2, SubSeqProperties
  <2>4. MaxAgents \in Nat
    BY SchedulerConstants
  <2>5. Len(SubSeq(due, 1, n)) <= MaxAgents
    BY <1>6, <2>3, <2>4
  <2>6. QED
    BY <1>5, <2>3, <2>5
<1>8. QED
  BY <1>3, <1>7, ByTierSorts

(* The calls of a turn are those of its roster. *)
Planned ==
  /\ turnCounter \in 0..MaxTurns
  /\ DOMAIN ticks \subseteq Npcs /\ \A a \in DOMAIN ticks : ticks[a] \in Nat
  /\ scene \in Seq(Npcs)
  /\ roster \in Seq(Scheduled) /\ Len(roster) <= MaxAgents
  /\ Sorted(roster)
  /\ groups = PlanDispatch(roster)

LEMMA NothingPlanned ==
  ASSUME SchedulerAssumption
  PROVE  PlanDispatch(<<>>) = <<>>
<1>1. MaxSlots \in Nat
  BY SchedulerConstants
<1>2. <<>> \in Seq(Scheduled) /\ Sorted(<<>>)
  BY DEF Sorted
<1>3. PICK n \in 0..Len(<<>>) : PlanDispatch(<<>>) = Parts(<<>>, n, Fewer(n, MaxSlots))
  BY <1>1, <1>2, PlanCuts
<1>4. n = 0 /\ Fewer(0, MaxSlots) = 0
  BY <1>1 DEF Fewer
<1>5. Parts(<<>>, 0, 0) = Alone(<<>>, 0) \o Batch(SubSeq(<<>>, 0 + 1, 0))
                            \o Batch(SubSeq(<<>>, 0 + 1, Len(<<>>)))
  BY DEF Parts
<1>6. SubSeq(<<>>, 0 + 1, 0) = <<>> /\ Len(<<>>) = 0
  BY SubSeqEmpty
<1>7. Alone(<<>>, 0) = <<>>
  BY DEF Alone
<1>8. QED
  BY <1>3, <1>4, <1>5, <1>6, <1>7 DEF Batch

LEMMA PlanInit == ASSUME SchedulerAssumption, Init PROVE Planned
<1>1. PlanDispatch(<<>>) = <<>>
  BY NothingPlanned
<1>2. MaxAgents \in Nat /\ MaxTurns \in Nat
  BY SchedulerConstants
<1>3. QED
  BY <1>1, <1>2 DEF Init, Planned, Sorted

LEMMA TurnPlans ==
  ASSUME SchedulerAssumption, Planned, NEW active \in Scenes,
         NEW info \in [Range(active) -> Info], Turn(active, info)
  PROVE  Planned'
<1>1. active \in Seq(Npcs) /\ MaxTurns \in Nat
  BY SchedulerConstants
<1>2. ASSUME NEW k \in DOMAIN active PROVE ComputeTier(info[active[k]]) \in Tiers
  <2>1. active[k] \in Range(active)
    BY DEF Range
  <2>2. info[active[k]] \in Info
    BY <2>1
  <2>3. QED
    BY <2>2 DEF Info, Tiers, ComputeTier, Floored, CollaborationFloor
<1>3. /\ DOMAIN Counted(active) \subseteq Npcs
      /\ \A a \in DOMAIN Counted(active) : Counted(active)[a] \in Nat
      /\ \A k \in DOMAIN active : active[k] \in DOMAIN Counted(active)
  BY <1>1 DEF Counted, Planned, Range
<1> DEFINE r == Roster(turnCounter + 1, active, info)
<1>4. r \in Seq(Scheduled) /\ Len(r) <= MaxAgents /\ Sorted(r)
  BY <1>1, <1>2, <1>3, RosterIs
<1>5. /\ turnCounter < MaxTurns /\ turnCounter' = turnCounter + 1 /\ ticks' = Counted(active)
      /\ scene' = active /\ roster' = r /\ groups' = PlanDispatch(r)
  BY Zenon DEF Turn
<1>6. turnCounter' \in 0..MaxTurns
  BY <1>1, <1>5 DEF Planned
<1> HIDE DEF r
<1>7. Sorted(roster')
  BY <1>4, <1>5
<1>8. QED
  BY <1>1, <1>3, <1>4, <1>5, <1>6, <1>7 DEF Planned

(* What the scheduler promises of a turn. *)
LEMMA PlannedPartitions ==
  ASSUME SchedulerAssumption, Planned
  PROVE  groups \in Seq(Seq(Scheduled)) /\ DispatchPartitions
<1>1. MaxSlots \in Nat
  BY SchedulerConstants
<1>2. roster \in Seq(Scheduled) /\ Sorted(roster) /\ groups = PlanDispatch(roster)
  BY DEF Planned
<1>3. groups \in Seq(Seq(Scheduled)) /\ Partitions(groups, roster)
  BY <1>1, <1>2, PlanPartitions
<1>4. QED
  BY <1>3 DEF Partitions, DispatchPartitions

SchedulerInv == Planned /\ WaitsSinceDue

LEMMA SchedulerInit == ASSUME SchedulerAssumption, Init PROVE SchedulerInv
  BY PlanInit, WaitInit DEF SchedulerInv

LEMMA SchedulerStep ==
  ASSUME SchedulerAssumption, SchedulerInv, Next
  PROVE  SchedulerInv'
<1>1. WaitsSinceDue'
  BY SchedulerKeepsWait DEF SchedulerInv
<1>2. CASE \E active \in Scenes : \E info \in [Range(active) -> Infos] : Turn(active, info)
  <2>a. PICK active \in Scenes : \E info \in [Range(active) -> Infos] : Turn(active, info)
    BY <1>2
  <2>1. PICK info \in [Range(active) -> Infos] : Turn(active, info)
    BY <2>a
  <2>2. info \in [Range(active) -> Info]
    BY DEF SchedulerAssumption
  <2>3. Planned'
    BY <2>1, <2>2, TurnPlans DEF SchedulerInv
  <2>4. QED
    BY <1>1, <2>3 DEF SchedulerInv
<1>3. CASE \E a \in Npcs : RecordAction(a)
  <2>1. PICK a \in Npcs : RecordAction(a)
    BY <1>3
  <2>2. ticks' = [ticks EXCEPT ![a] = 0]
        /\ UNCHANGED <<turnCounter, scene, roster, groups>>
    BY <2>1 DEF RecordAction
  <2>3. Planned'
    BY <2>2 DEF SchedulerInv, Planned
  <2>4. QED
    BY <1>1, <2>3 DEF SchedulerInv
<1>4. QED
  BY <1>2, <1>3 DEF Next

LEMMA SchedulerStutters ==
  ASSUME SchedulerInv, UNCHANGED schedVars
  PROVE  SchedulerInv'
BY DEF SchedulerInv, schedVars, Planned,
       WaitsSinceDue

LEMMA SchedulerImplies ==
  ASSUME SchedulerAssumption, SchedulerInv
  PROVE  TypeOK /\ DispatchPartitions /\ CadenceHonoured
<1>1. groups \in Seq(Seq(Scheduled)) /\ DispatchPartitions
  BY PlannedPartitions DEF SchedulerInv
<1>2. TypeOK
  BY <1>1 DEF SchedulerInv, Planned, WaitsSinceDue, TypeOK, Tiers
<1>3. ASSUME NEW a \in Npcs PROVE waited[a] < Cadence[farthest[a]]
  <2>1. /\ turnCounter \in Nat /\ waited[a] \in Nat /\ farthest[a] \in 0..3
        /\ waited[a] <= turnCounter % Cadence[farthest[a]]
    BY DEF SchedulerInv, WaitsSinceDue
  <2>2. Cadence[farthest[a]] \in Nat \ {0}
    BY <2>1, SchedulerConstants
  <2>3. turnCounter % Cadence[farthest[a]] \in 0..(Cadence[farthest[a]] - 1)
    BY <2>1, <2>2
  <2>4. QED
    BY <2>1, <2>2, <2>3
<1>4. QED
  BY <1>1, <1>2, <1>3 DEF CadenceHonoured

(* For any agents, scenes, cap, slots and nesting cadences, the calls of    *)
(* every turn partition its roster, in its order, and nobody in a scene     *)
(* within the cap is left out for as long as the cadence of its tier        *)
(* (schedule, plan_dispatch).                                              *)
THEOREM SchedulerIsSafe ==
  ASSUME SchedulerAssumption
  PROVE  Spec => [](TypeOK /\ DispatchPartitions /\ CadenceHonoured)
<1>1. Init => SchedulerInv
  BY SchedulerInit
<1>2. SchedulerInv /\ [Next]_schedVars => SchedulerInv'
  BY SchedulerStep, SchedulerStutters
<1>3. SchedulerInv => TypeOK /\ DispatchPartitions /\ CadenceHonoured
  BY SchedulerImplies
<1>4. QED
  BY <1>1, <1>2, <1>3, PTL DEF Spec
=============================================================================
