------------------------- MODULE TurnDispatchProofs -------------------------
(***************************************************************************)
(* Theorems about a turn's calls, their answers and its prompts, for any   *)
(* agents, inputs, curvatures, replies and number of retries.              *)
(***************************************************************************)
EXTENDS TurnDispatch, AgentSchedulerProofs

-----------------------------------------------------------------------------
(* How much of its data an agent is shown. *)

LEMMA LinesShrink ==
  ASSUME NEW s \in 0..3, NEW t \in 0..3, s <= t, NEW c \in 0..20, NEW u \in 0..20, c <= u,
         NEW n \in {0, 1, 3, 8}
  PROVE  Lines(t, u, n) <= Lines(s, c, n)
<1> DEFINE depth(v) == (n * (20 - v)) \div 20
<1>1. depth(u) \in Int /\ depth(c) \in Int /\ depth(u) <= depth(c) /\ depth(u) >= 0
  <2>1. CASE n = 0
    BY <2>1
  <2>2. CASE n = 1
    BY <2>2
  <2>3. CASE n = 3
    BY <2>3
  <2>4. CASE n = 8
    BY <2>4
  <2>5. QED
    BY <2>1, <2>2, <2>3, <2>4
<1>2. /\ Lines(t, u, n) = IF t > 1 \/ u >= 14 \/ n = 0 THEN 0
                          ELSE Most(1, IF t = 1 THEN Least(3, depth(u)) ELSE depth(u))
      /\ Lines(s, c, n) = IF s > 1 \/ c >= 14 \/ n = 0 THEN 0
                          ELSE Most(1, IF s = 1 THEN Least(3, depth(c)) ELSE depth(c))
  BY DEF Lines
<1> HIDE DEF depth
<1>3. QED
  BY <1>1, <1>2 DEF Most, Least

LEMMA BlocksShrink ==
  ASSUME NEW s \in 0..3, NEW t \in 0..3, s <= t, NEW c \in 0..20, NEW u \in 0..20, c <= u,
         NEW n \in {0, 1, 3, 8}
  PROVE  Within(Block(t, u, n), Block(s, c, n))
<1>1. SharedFields(u) \subseteq SharedFields(c)
  BY DEF SharedFields
<1>2. OwnFields(t, u) \subseteq OwnFields(s, c)
  BY DEF OwnFields
<1>3. EventsShown[t + 1] <= EventsShown[s + 1]
  BY DEF EventsShown
<1>4. Lines(t, u, n) <= Lines(s, c, n)
  BY LinesShrink
<1>5. QED
  BY <1>1, <1>2, <1>3, <1>4 DEF Within, Block

-----------------------------------------------------------------------------
(* Who is in a roster, and how urgent a turn is. *)

(* The sort, like every pick, brings in nobody. *)
LEMMA ByTierKeeps ==
  ASSUME NEW X, NEW s \in Seq(X)
  PROVE  ByTier(s) \in Seq(X)
<1>1. ASSUME NEW t PROVE OfTier(s, t) \in Seq(X)
  <2>1. {k \in DOMAIN s : s[k].tier = t} \in SUBSET DOMAIN s
    OBVIOUS
  <2>2. QED
    BY <2>1, PickedIs DEF OfTier
<1>2. QED
  BY <1>1, ConcatProperties DEF ByTier

LEMMA RosterIsActive ==
  ASSUME SchedulerAssumption, NEW active \in Seq(Npcs), NEW info, NEW turn
  PROVE  Ids(Roster(turn, active, info)) \subseteq Range(active)
<1> DEFINE all == Tiered(active, info, Counted(active))
           X == {x \in {all[j] : j \in DOMAIN active} : x.id \in Range(active)}
           K == {j \in DOMAIN all : Due(turn, all[j])}
           due == Picked(all, K)
           n == IF Len(due) < MaxAgents THEN Len(due) ELSE MaxAgents
<1>1. all \in Seq(X)
  <2>1. DOMAIN active = 1..Len(active) /\ Len(active) \in Nat
    OBVIOUS
  <2>2. \A j \in DOMAIN active : all[j].id = active[j]
    BY DEF Tiered
  <2>3. \A j \in DOMAIN active : all[j] \in X
    BY <2>2 DEF Range
  <2>4. all = [j \in 1..Len(active) |-> all[j]]
    BY <2>1 DEF Tiered
  <2> HIDE DEF all, X
  <2>5. QED
    BY <2>1, <2>3, <2>4
<1>2. K \in SUBSET DOMAIN all
  OBVIOUS
<1>3. Roster(turn, active, info) = ByTier(Capped(due))
  BY DEF Roster
<1>4. \A x \in X : x.id \in Range(active)
  OBVIOUS
<1> HIDE DEF all, K, X
<1>5. due \in Seq(X)
  BY <1>1, <1>2, PickedIs
<1> HIDE DEF due
<1>6. n \in Nat /\ n <= Len(due) /\ Capped(due) = SubSeq(due, 1, n)
  BY <1>5, SchedulerConstants DEF Capped
<1> HIDE DEF n
<1>7. Capped(due) \in Seq(X)
  <2>1. \A i \in 1..n : due[i] \in X
    BY <1>5, <1>6
  <2>2. 1 \in Int /\ n \in Int
    BY <1>6
  <2>3. QED
    BY <1>6, <2>1, <2>2, SubSeqProperties
<1>8. ByTier(Capped(due)) \in Seq(X)
  BY <1>7, ByTierKeeps
<1>9. QED
  BY <1>3, <1>4, <1>8 DEF Ids

(* The values of a function on a finite set are finitely many. *)
LEMMA FiniteImage ==
  ASSUME NEW T, IsFiniteSet(T), NEW f
  PROVE  IsFiniteSet({f[x] : x \in T})
<1> DEFINE g == [x \in T |-> f[x]]
<1>1. g \in Surjection(T, {f[x] : x \in T})
  BY DEF Surjection
<1>2. QED
  BY <1>1, FS_Surjection

(* An urgency is a part of 20, whatever the curvatures. *)
LEMMA UrgencyIs ==
  ASSUME NEW ids \in Seq(Npcs), NEW curvature, \A a \in Range(ids) : curvature[a] \in Nat
  PROVE  Urgency(ids, curvature) \in 0..20
<1> DEFINE T == {0} \union {curvature[a] : a \in Range(ids)}
           value == [x \in T |-> x]
<1>1. T # {} /\ \A x \in T : x \in Nat
  OBVIOUS
<1>2. IsFiniteSet(T)
  <2>1. IsFiniteSet(Range(ids))
    <3>1. IsFiniteSet(1..Len(ids))
      BY FS_Interval
    <3>2. Range(ids) = {ids[k] : k \in 1..Len(ids)}
      BY DEF Range
    <3>3. IsFiniteSet({ids[k] : k \in 1..Len(ids)})
      BY <3>1, FiniteImage
    <3>4. QED
      BY <3>2, <3>3
  <2>2. IsFiniteSet({curvature[a] : a \in Range(ids)})
    BY <2>1, FiniteImage
  <2>3. IsFiniteSet({0})
    BY FS_Singleton
  <2>4. QED
    BY <2>2, <2>3, FS_Union
<1>3. \A x \in T : value[x] = x
  OBVIOUS
<1> HIDE DEF T, value
<1>4. PICK x \in T : \A y \in T : value[y] <= value[x]
  <2>1. \A x \in T : value[x] \in Nat
    BY <1>1, <1>3
  <2>2. QED
    BY <1>1, <1>2, <2>1, GreatestValue
<1>5. \A y \in T : x >= y
  BY <1>1, <1>3, <1>4
<1>6. Max(T) \in T
  BY <1>5 DEF Max
<1>7. Max(T) \in Nat
  BY <1>1, <1>6
<1>8. Urgency(ids, curvature) = IF Max(T) <= 5 THEN 0
                                ELSE IF Max(T) >= 25 THEN 20 ELSE Max(T) - 5
  BY Zenon DEF Urgency, T
<1>9. QED
  <2> HIDE DEF T
  <2>1. ASSUME NEW most, most = Max(T)
        PROVE  (IF most <= 5 THEN 0 ELSE IF most >= 25 THEN 20 ELSE most - 5) \in 0..20
    <3>1. most \in Nat
      BY <1>7, <2>1
    <3>2. CASE most <= 5
      BY <3>1, <3>2
    <3>3. CASE ~(most <= 5) /\ most >= 25
      BY <3>1, <3>3
    <3>4. CASE ~(most <= 5) /\ ~(most >= 25)
      BY <3>1, <3>4
    <3>5. QED
      BY <3>2, <3>3, <3>4
  <2>2. QED
    BY <1>8, <2>1, Zenon

-----------------------------------------------------------------------------
(* The answers of all groups, one after the other. *)

LEMMA IdsOfIs ==
  ASSUME NEW X, NEW r \in Seq(X)
  PROVE  /\ IdsOf(r) \in Seq({x.id : x \in X}) /\ Len(IdsOf(r)) = Len(r)
         /\ \A i \in 1..Len(r) : IdsOf(r)[i] = r[i].id
<1> DEFINE Z == {x.id : x \in X}
<1>1. IdsOf(r) = [i \in 1..Len(r) |-> r[i].id] /\ Len(r) \in Nat
  BY DEF IdsOf
<1>2. \A i \in 1..Len(r) : r[i] \in X /\ r[i].id \in Z
  OBVIOUS
<1> HIDE DEF Z
<1>3. IdsOf(r) \in Seq(Z) /\ Len(IdsOf(r)) = Len(r) /\ \A i \in 1..Len(r) : IdsOf(r)[i] = r[i].id
  BY <1>1, <1>2
<1>4. QED
  BY <1>3 DEF Z

LEMMA IdsOfConcat ==
  ASSUME NEW X, NEW p \in Seq(X), NEW q \in Seq(X)
  PROVE  IdsOf(p \o q) = IdsOf(p) \o IdsOf(q)
<1>1. ASSUME NEW Z, NEW a \in Seq(Z), Len(a) = Len(p), \A i \in 1..Len(p) : a[i] = p[i].id,
             NEW b \in Seq(Z), Len(b) = Len(q), \A i \in 1..Len(q) : b[i] = q[i].id
      PROVE  IdsOf(p \o q) = a \o b
  <2>1. /\ p \o q \in Seq(X) /\ Len(p \o q) = Len(p) + Len(q)
        /\ \A i \in 1..(Len(p) + Len(q)) :
             (p \o q)[i] = IF i <= Len(p) THEN p[i] ELSE q[i - Len(p)]
    BY ConcatProperties
  <2>2. /\ a \o b \in Seq(Z) /\ Len(a \o b) = Len(a) + Len(b)
        /\ \A i \in 1..(Len(a) + Len(b)) :
             (a \o b)[i] = IF i <= Len(a) THEN a[i] ELSE b[i - Len(a)]
    BY ConcatProperties
  <2> DEFINE s == p \o q
             c == a \o b
  <2>3. Len(p) \in Nat /\ Len(q) \in Nat
    OBVIOUS
  <2> HIDE DEF s, c
  <2>4. /\ DOMAIN s = 1..(Len(p) + Len(q))
        /\ c = [i \in 1..(Len(p) + Len(q)) |-> c[i]]
    <3>1. s \in Seq(X) /\ Len(s) = Len(p) + Len(q) /\ c \in Seq(Z) /\ Len(c) = Len(p) + Len(q)
      BY <1>1, <2>1, <2>2 DEF s, c
    <3>2. QED
      BY <3>1
  <2>5. ASSUME NEW i \in 1..(Len(p) + Len(q)) PROVE c[i] = s[i].id
    <3>1. s[i] = IF i <= Len(p) THEN p[i] ELSE q[i - Len(p)]
      BY <2>1 DEF s
    <3>2. c[i] = IF i <= Len(p) THEN a[i] ELSE b[i - Len(p)]
      BY <1>1, <2>2 DEF c
    <3>3. i <= Len(p) => i \in 1..Len(p)
      BY <2>3
    <3>4. ~(i <= Len(p)) => i - Len(p) \in 1..Len(q)
      BY <2>3
    <3>5. QED
      BY <1>1, <3>1, <3>2, <3>3, <3>4
  <2>6. IdsOf(s) = [i \in 1..(Len(p) + Len(q)) |-> s[i].id]
    BY <2>4 DEF IdsOf
  <2>7. IdsOf(s) = c
    BY <2>4, <2>5, <2>6
  <2>8. QED
    BY <2>7 DEF s, c
<1>2. /\ IdsOf(p) \in Seq({x.id : x \in X}) /\ Len(IdsOf(p)) = Len(p)
      /\ \A i \in 1..Len(p) : IdsOf(p)[i] = p[i].id
      /\ IdsOf(q) \in Seq({x.id : x \in X}) /\ Len(IdsOf(q)) = Len(q)
      /\ \A i \in 1..Len(q) : IdsOf(q)[i] = q[i].id
  BY IdsOfIs
<1>3. QED
  BY <1>1, <1>2, Zenon

(* Groups of the same ids, flattened, have the same ids. *)
LEMMA FlattenIds ==
  ASSUME NEW X, NEW ss \in Seq(Seq(X)), NEW Y, NEW tt \in Seq(Seq(Y)),
         Len(ss) = Len(tt), \A k \in 1..Len(ss) : IdsOf(ss[k]) = IdsOf(tt[k])
  PROVE  IdsOf(FlattenSeq(ss)) = IdsOf(FlattenSeq(tt))
<1> DEFINE m == Len(ss)
<1>1. m \in Nat /\ \A k \in 1..m : ss[k] \in Seq(X) /\ tt[k] \in Seq(Y)
  OBVIOUS
<1>2. CASE m = 0
  <2>1. ss = <<>> /\ tt = <<>>
    <3>1. Len(ss) = 0 /\ Len(tt) = 0
      BY <1>2
    <3>2. \A z \in Seq(Seq(X)) : Len(z) = 0 => z = <<>>
      OBVIOUS
    <3>3. \A z \in Seq(Seq(Y)) : Len(z) = 0 => z = <<>>
      OBVIOUS
    <3>4. QED
      BY <3>1, <3>2, <3>3
  <2>2. QED
    BY <2>1
<1>3. CASE m # 0
  <2>1. Len(ss) > 0 /\ Len(tt) > 0
    BY <1>1, <1>3
  <2>2. PICK g : Flattens(g, ss, X, m) /\ FlattenSeq(ss) = g[m]
    BY <2>1, FlattenIsLast
  <2>3. PICK h : Flattens(h, tt, Y, m) /\ FlattenSeq(tt) = h[m]
    BY <2>1, FlattenIsLast
  <2>4. /\ \A k \in 1..m : g[k] \in Seq(X) /\ h[k] \in Seq(Y)
        /\ \A k \in 1..m : g[k] = IF k = 1 THEN ss[k] ELSE g[k - 1] \o ss[k]
        /\ \A k \in 1..m : h[k] = IF k = 1 THEN tt[k] ELSE h[k - 1] \o tt[k]
    BY <2>2, <2>3 DEF Flattens, Unfolds
  <2> DEFINE T == {k \in 1..m : IdsOf(g[k]) = IdsOf(h[k])}
  <2>5. 1 \in T
    <3>1. 1 \in 1..m
      BY <1>1, <1>3
    <3>2. QED
      BY <2>4, <3>1
  <2>6. ASSUME NEW k \in 1..m, k \in T, k # m PROVE k + 1 \in T
    <3>1. k + 1 \in 1..m /\ k + 1 # 1 /\ (k + 1) - 1 = k
      BY <1>1, <2>6
    <3>2. g[k + 1] = g[k] \o ss[k + 1] /\ h[k + 1] = h[k] \o tt[k + 1]
      BY <2>4, <3>1
    <3>3. IdsOf(g[k] \o ss[k + 1]) = IdsOf(g[k]) \o IdsOf(ss[k + 1])
      BY <1>1, <2>4, <3>1, IdsOfConcat
    <3>4. IdsOf(h[k] \o tt[k + 1]) = IdsOf(h[k]) \o IdsOf(tt[k + 1])
      BY <1>1, <2>4, <3>1, IdsOfConcat
    <3>5. IdsOf(g[k]) = IdsOf(h[k]) /\ IdsOf(ss[k + 1]) = IdsOf(tt[k + 1])
      BY <2>6, <3>1
    <3>6. QED
      BY <3>1, <3>2, <3>3, <3>4, <3>5
  <2>7. m \in T
    <3>1. m \in 1..m
      BY <1>1, <1>3
    <3> HIDE DEF T
    <3>2. \A k \in 1..m : k \in T
      BY <1>1, <2>5, <2>6, InductionUpTo
    <3>3. QED
      BY <3>1, <3>2
  <2>8. QED
    BY <2>2, <2>3, <2>7
<1>4. QED
  BY <1>2, <1>3
-----------------------------------------------------------------------------
(* The calls of a turn are about its groups, one each and in their order;   *)
(* what a call has to say is about those it asked for, in their order, and  *)
(* of this turn.                                                           *)

Heard(r, n, gs) ==
  /\ r \in Response /\ r.turn = n
  /\ r.group \in DOMAIN gs /\ r.id \in Ids(gs[r.group])
  /\ r.words = "whole" => r.id = gs[r.group][1].id

CallOK(c, k, n, gs) ==
  /\ c \in Call /\ c.tries <= Retries
  /\ c.turn = n /\ c.group = k /\ c.ids = IdsOf(gs[k])
  /\ c.state = "done" => /\ DOMAIN c.responses = DOMAIN c.ids
                         /\ \A i \in DOMAIN c.ids : /\ c.responses[i].id = c.ids[i]
                                                    /\ Heard(c.responses[i], n, gs)

CallsOK ==
  /\ stage = "idle" => calls = <<>>
  /\ stage = "asking" => /\ turnCounter > 0 /\ answer.turn = 0
                         /\ Len(calls) = Len(groups)
                         /\ \A k \in DOMAIN calls : CallOK(calls[k], k, turnCounter, groups)

AnswerOK ==
  stage = "idle" /\ answer.turn = turnCounter /\ turnCounter > 0 =>
    /\ IdsOf(answer.responses) = IdsOf(roster)
    /\ \A r \in Range(answer.responses) : Heard(r, turnCounter, groups)

DispatchInv == Planned /\ DispatchTypeOK /\ CallsOK /\ AnswerOK

LEMMA InitDispatchInv == DispatchInit => DispatchInv
<1> SUFFICES ASSUME DispatchInit PROVE DispatchInv
  OBVIOUS
<1>1. Init /\ stage = "idle" /\ urgency = 0 /\ calls = <<>> /\ orphans = {} /\ answer = NoAnswer
      /\ input = [named |-> {}, speaker |-> NoOne, listener |-> NoOne,
                  companions |-> {}, context |-> FALSE]
  BY DEF DispatchInit
<1>2. Planned
  BY <1>1, DispatchAssumption, PlanInit
<1>3. turnCounter = 0
  BY <1>1 DEF Init
<1>4. input \in Input
  BY <1>1 DEF Input
<1>5. DispatchTypeOK
  BY <1>1, <1>3, <1>4 DEF DispatchTypeOK, NoAnswer
<1>6. CallsOK /\ AnswerOK
  BY <1>1, <1>3 DEF CallsOK, AnswerOK
<1>7. QED
  BY <1>2, <1>5, <1>6 DEF DispatchInv

LEMMA ListOf ==
  ASSUME NEW X, NEW n \in Nat, NEW f \in [1..n -> X]
  PROVE  f \in Seq(X) /\ Len(f) = n /\ DOMAIN f = 1..n
OBVIOUS

(* A call that is done says one thing of each agent it asked for. *)
LEMMA DoneCallOK ==
  ASSUME NEW n, NEW gs \in Seq(Seq(Scheduled)), NEW k \in DOMAIN gs, NEW c, CallOK(c, k, n, gs),
         NEW w \in [DOMAIN c.ids -> {"none", "own", "whole"}],
         \A i \in DOMAIN c.ids : w[i] = "whole" => i = 1,
         NEW rs, rs = [i \in DOMAIN c.ids |-> Speaking(c, c.ids[i], w[i])]
  PROVE  CallOK([c EXCEPT !.state = "done", !.responses = rs], k, n, gs)
<1>1. /\ c \in Call /\ c.tries <= Retries /\ c.turn = n /\ c.group = k
      /\ c.ids = IdsOf(gs[k]) /\ c.ids \in Seq(Npcs) /\ c.turn \in Nat /\ c.group \in Nat
  BY DEF CallOK, Call
<1>2. /\ gs[k] \in Seq(Scheduled) /\ DOMAIN c.ids = DOMAIN gs[k]
      /\ \A i \in DOMAIN c.ids : c.ids[i] = gs[k][i].id /\ c.ids[i] \in Npcs
  BY <1>1 DEF IdsOf
<1>3. ASSUME NEW i \in DOMAIN c.ids
      PROVE  rs[i] = [id |-> c.ids[i], words |-> w[i], turn |-> c.turn, group |-> c.group]
  BY DEF Speaking, Silent
<1>4. ASSUME NEW i \in DOMAIN c.ids PROVE rs[i].id = c.ids[i] /\ Heard(rs[i], n, gs)
  <2>1. rs[i] \in Response
    BY <1>1, <1>2, <1>3 DEF Response
  <2>2. /\ rs[i].id = c.ids[i] /\ rs[i].turn = n /\ rs[i].group = k
        /\ rs[i].words = w[i]
    BY <1>1, <1>3
  <2>3. rs[i].id \in Ids(gs[k])
    BY <1>2, <2>2 DEF Ids
  <2>4. rs[i].words = "whole" => rs[i].id = gs[k][1].id
    BY <1>2, <2>2
  <2>5. QED
    BY <2>1, <2>2, <2>3, <2>4 DEF Heard
<1>5. rs \in Seq(Response) /\ DOMAIN rs = DOMAIN c.ids
  <2>1. DOMAIN c.ids = 1..Len(c.ids) /\ Len(c.ids) \in Nat
    BY <1>1
  <2>2. \A i \in 1..Len(c.ids) : rs[i] \in Response
    BY <1>4, <2>1 DEF Heard
  <2>3. rs = [i \in 1..Len(c.ids) |-> rs[i]]
    BY <2>1
  <2>4. rs \in [1..Len(c.ids) -> Response]
    BY <2>2, <2>3, Zenon
  <2>5. rs \in Seq(Response) /\ DOMAIN rs = 1..Len(c.ids)
    BY <2>1, <2>4, ListOf, Zenon
  <2>6. QED
    BY <2>1, <2>5
<1> DEFINE d == [c EXCEPT !.state = "done", !.responses = rs]
<1>6. /\ d \in Call /\ d.tries = c.tries /\ d.turn = c.turn /\ d.group = c.group
      /\ d.ids = c.ids /\ d.responses = rs
  BY <1>1, <1>5 DEF Call
<1> HIDE DEF d
<1>7. CallOK(d, k, n, gs)
  BY <1>1, <1>4, <1>5, <1>6 DEF CallOK
<1>8. QED
  BY <1>7 DEF d

LEMMA FailedCallOK ==
  ASSUME NEW n, NEW gs \in Seq(Seq(Scheduled)), NEW k \in DOMAIN gs, NEW c, CallOK(c, k, n, gs),
         c.state = "asking"
  PROVE  CallOK(Failed(c), k, n, gs)
<1>1. CASE c.tries < Retries
  <2> DEFINE d == [c EXCEPT !.tries = @ + 1]
  <2>1. c \in Call /\ c.tries \in Nat
    BY DEF CallOK, Call
  <2>2. /\ d \in Call /\ d.tries = c.tries + 1 /\ d.turn = c.turn /\ d.group = c.group
        /\ d.ids = c.ids /\ d.state = "asking"
    <3>1. c.tries + 1 \in Nat
      BY <2>1
    <3>2. d \in Call
      BY <2>1, <3>1, Zenon DEF Call
    <3>3. c = [c EXCEPT !.tries = c.tries] /\ DOMAIN c = {"turn", "group", "ids", "tries", "state", "responses"}
      BY <2>1 DEF Call
    <3>4. QED
      BY <3>2, <3>3, Zenon
  <2>3. c.tries + 1 <= Retries
    BY <1>1, DispatchAssumption DEF CallOK, Call
  <2>4. Failed(c) = d
    BY <1>1 DEF Failed
  <2> HIDE DEF d
  <2>5. QED
    BY <2>2, <2>3, <2>4 DEF CallOK
<1>2. CASE ~(c.tries < Retries)
  <2> DEFINE w == [i \in DOMAIN c.ids |-> "none"]
             rs == [i \in DOMAIN c.ids |-> Speaking(c, c.ids[i], w[i])]
  <2>1. rs = [i \in DOMAIN c.ids |-> Silent(c, c.ids[i])]
    BY DEF Speaking, Silent
  <2>2. w \in [DOMAIN c.ids -> {"none", "own", "whole"}]
        /\ \A i \in DOMAIN c.ids : w[i] = "whole" => i = 1
    OBVIOUS
  <2>3. CallOK([c EXCEPT !.state = "done", !.responses = rs], k, n, gs)
    BY <2>2, DoneCallOK
  <2>4. QED
    BY <1>2, <2>1, <2>3 DEF Failed
<1>3. QED
  BY <1>1, <1>2

LEMMA ExpandedCallOK ==
  ASSUME NEW n, NEW gs \in Seq(Seq(Scheduled)), NEW k \in DOMAIN gs, NEW c, CallOK(c, k, n, gs), NEW reply
  PROVE  CallOK([c EXCEPT !.state = "done", !.responses = Expand(c, reply)], k, n, gs)
<1> DEFINE w == [i \in DOMAIN c.ids |->
                   IF reply.kind = "json" /\ c.ids[i] \in reply.speaks THEN "own"
                   ELSE IF reply.kind = "text" /\ i = 1 THEN "whole"
                   ELSE "none"]
           rs == [i \in DOMAIN c.ids |-> Speaking(c, c.ids[i], w[i])]
<1>1. rs = Expand(c, reply)
  <2> DEFINE said(i) == IF reply.kind = "json" /\ c.ids[i] \in reply.speaks
                          THEN Speaking(c, c.ids[i], "own")
                        ELSE IF reply.kind = "text" /\ i = 1
                          THEN Speaking(c, c.ids[i], "whole")
                        ELSE Silent(c, c.ids[i])
  <2>1. Expand(c, reply) = [i \in DOMAIN c.ids |-> said(i)]
    BY DEF Expand
  <2>2. ASSUME NEW i \in DOMAIN c.ids PROVE Speaking(c, c.ids[i], w[i]) = said(i)
    <3>1. Speaking(c, c.ids[i], "none") = Silent(c, c.ids[i])
      BY DEF Speaking, Silent
    <3>2. w[i] = IF reply.kind = "json" /\ c.ids[i] \in reply.speaks THEN "own"
                 ELSE IF reply.kind = "text" /\ i = 1 THEN "whole"
                 ELSE "none"
      OBVIOUS
    <3> HIDE DEF w
    <3>3. QED
      BY <3>1, <3>2
  <2> HIDE DEF said, w
  <2>3. QED
    BY <2>1, <2>2
<1>2. w \in [DOMAIN c.ids -> {"none", "own", "whole"}]
      /\ \A i \in DOMAIN c.ids : w[i] = "whole" => i = 1
  OBVIOUS
<1>3. CallOK([c EXCEPT !.state = "done", !.responses = rs], k, n, gs)
  BY <1>2, DoneCallOK
<1>4. QED
  BY <1>1, <1>3
-----------------------------------------------------------------------------
(* The steps. *)

LEMMA DispatchKeeps ==
  ASSUME DispatchInv, NEW in \in Inputs, NEW active \in Scenes,
         NEW info \in [Range(active) -> Infos], NEW curvature \in [Range(active) -> Curvatures],
         Dispatch(active, info, in, curvature)
  PROVE  DispatchInv'
<1> DEFINE known == [a \in Range(active) |->
                       [info[a] EXCEPT !.volatile = curvature[a] >= 10]]
<1>1. /\ Turn(active, known) /\ input' = in
      /\ urgency' = Urgency(IdsOf(roster'), curvature)
      /\ answer' = [turn |-> IF roster' = <<>> THEN turnCounter' ELSE 0, responses |-> <<>>]
      /\ calls' = [k \in DOMAIN groups' |-> NewCall(turnCounter', k, groups'[k])]
      /\ stage' = IF roster' = <<>> THEN "idle" ELSE "asking"
      /\ orphans' = orphans
  BY DEF Dispatch
<1>2. SchedulerAssumption /\ active \in Seq(Npcs) /\ MaxSlots \in Nat
  BY DispatchAssumption, SchedulerConstants
<1>3. Planned'
  <2>1. known \in [Range(active) -> Info]
    <3> SUFFICES ASSUME NEW a \in Range(active)
                 PROVE  [info[a] EXCEPT !.volatile = curvature[a] >= 10] \in Info
      OBVIOUS
    <3>1. info[a] \in Info
      BY DispatchAssumption DEF SchedulerAssumption
    <3>2. (curvature[a] >= 10) \in BOOLEAN
      OBVIOUS
    <3>3. QED
      BY <3>1, <3>2 DEF Info
  <2> HIDE DEF known
  <2>2. QED
    BY <1>1, <1>2, <2>1, TurnPlans DEF DispatchInv
<1>4. /\ turnCounter' = turnCounter + 1 /\ turnCounter \in Nat
      /\ roster' = Roster(turnCounter + 1, active, known)
      /\ groups' = PlanDispatch(roster')
  <2>1. turnCounter \in Nat
    BY DEF DispatchInv, Planned
  <2> HIDE DEF known
  <2>2. QED
    BY <1>1, <2>1, Zenon DEF Turn
<1>5. roster' \in Seq(Scheduled) /\ Sorted(roster') /\ Ids(roster') \subseteq Range(active)
  <2>1. roster' \in Seq(Scheduled) /\ Sorted(roster')
    BY <1>3 DEF Planned
  <2> HIDE DEF known
  <2>2. QED
    BY <1>2, <1>4, <2>1, RosterIsActive
<1>6. groups' \in Seq(Seq(Scheduled))
  BY <1>2, <1>4, <1>5, PlanPartitions
<1> HIDE DEF known
<1>7. ASSUME NEW r \in Seq(Scheduled)
      PROVE  IdsOf(r) \in Seq(Npcs) /\ Range(IdsOf(r)) = Ids(r)
  <2>1. \A k \in 1..Len(r) : r[k].id \in Npcs
    <3>1. \A k \in 1..Len(r) : r[k] \in Scheduled
      OBVIOUS
    <3>2. QED
      BY <3>1 DEF Scheduled
  <2>2. IdsOf(r) \in [1..Len(r) -> Npcs] /\ Len(r) \in Nat
    BY <2>1 DEF IdsOf
  <2>3. IdsOf(r) \in Seq(Npcs)
    BY <2>2, ListOf, Zenon
  <2>4. Range(IdsOf(r)) = Ids(r)
    BY DEF IdsOf, Range, Ids
  <2>5. QED
    BY <2>3, <2>4
<1>8. urgency' \in 0..20
  <2>1. IdsOf(roster') \in Seq(Npcs)
    BY <1>5, <1>7
  <2>2. \A a \in Range(IdsOf(roster')) : a \in Range(active)
    BY <1>5, <1>7
  <2>3. \A a \in Range(active) : curvature[a] \in Nat
    BY DispatchAssumption
  <2>4. QED
    BY <1>1, <2>1, <2>2, <2>3, UrgencyIs
<1>9. ASSUME NEW k \in DOMAIN groups'
      PROVE  CallOK(calls'[k], k, turnCounter', groups') /\ calls'[k].tries <= Retries
  <2>1. groups'[k] \in Seq(Scheduled) /\ k \in Nat
    BY <1>6
  <2>2. IdsOf(groups'[k]) \in Seq(Npcs)
    BY <1>7, <2>1
  <2>3. calls'[k] = [turn |-> turnCounter', group |-> k, ids |-> IdsOf(groups'[k]),
                     tries |-> 0, state |-> "asking", responses |-> <<>>]
    BY <1>1 DEF NewCall
  <2>4. calls'[k] \in Call
    BY <1>4, <2>1, <2>2, <2>3 DEF Call
  <2>5. Retries \in Nat
    BY DispatchAssumption
  <2>6. QED
    BY <2>3, <2>4, <2>5 DEF CallOK
<1>10. calls' \in Seq(Call) /\ DOMAIN calls' = DOMAIN groups' /\ Len(calls') = Len(groups')
  <2>1. DOMAIN groups' = 1..Len(groups') /\ Len(groups') \in Nat
    BY <1>6
  <2>2. calls' \in [1..Len(groups') -> Call]
    BY <1>1, <1>9, <2>1 DEF CallOK
  <2>3. calls' \in Seq(Call) /\ Len(calls') = Len(groups') /\ DOMAIN calls' = 1..Len(groups')
    BY <2>1, <2>2, ListOf, Zenon
  <2>4. QED
    BY <2>1, <2>3
<1>11. DispatchTypeOK'
  <2>1. input' \in Input
    BY <1>1, DispatchAssumption
  <2>2. orphans' \subseteq Call
    BY <1>1 DEF DispatchInv, DispatchTypeOK
  <2>3. answer'.turn \in 0..turnCounter' /\ answer'.responses \in Seq(Response)
    BY <1>1, <1>4
  <2>4. stage' \in {"idle", "asking"}
    BY <1>1
  <2>5. \A k \in DOMAIN calls' : calls'[k].tries <= Retries
    BY <1>9, <1>10
  <2>6. QED
    BY <1>8, <1>10, <2>1, <2>2, <2>3, <2>4, <2>5 DEF DispatchTypeOK
<1>12. CASE roster' = <<>>
  <2>1. groups' = <<>>
    BY <1>2, <1>4, <1>12, NothingPlanned
  <2>2. stage' = "idle" /\ calls' = <<>> /\ answer'.responses = <<>>
    BY <1>1, <1>12, <2>1
  <2>3. CallsOK'
    BY <2>2 DEF CallsOK
  <2>4. AnswerOK'
    BY <1>12, <2>2 DEF AnswerOK, IdsOf, Range
  <2>5. QED
    BY <1>3, <1>11, <2>3, <2>4 DEF DispatchInv
<1>13. CASE roster' # <<>>
  <2>1. stage' = "asking" /\ answer'.turn = 0 /\ turnCounter' > 0
    BY <1>1, <1>4, <1>13
  <2>2. CallsOK'
    BY <1>9, <1>10, <2>1 DEF CallsOK
  <2>3. AnswerOK'
    BY <2>1 DEF AnswerOK
  <2>4. QED
    BY <1>3, <1>11, <2>2, <2>3 DEF DispatchInv
<1>14. QED
  BY <1>12, <1>13

(* One call of the turn moves on. *)
LEMMA OneCallMoves ==
  ASSUME DispatchInv, NEW k \in DOMAIN calls, NEW c, CallOK(c, k, turnCounter, groups),
         calls' = [calls EXCEPT ![k] = c],
         UNCHANGED <<schedVars, stage, input, urgency, orphans, answer>>
  PROVE  DispatchInv'
<1>1. /\ turnCounter' = turnCounter /\ ticks' = ticks /\ scene' = scene
      /\ roster' = roster /\ groups' = groups /\ stage' = stage
      /\ input' = input /\ urgency' = urgency /\ orphans' = orphans /\ answer' = answer
  BY DEF schedVars
<1>2. Planned' /\ AnswerOK'
  BY <1>1 DEF DispatchInv, Planned, AnswerOK
<1>3. stage = "asking" /\ stage # "idle"
  BY DEF DispatchInv, DispatchTypeOK, CallsOK
<1>4. c \in Call /\ c.tries <= Retries
  BY DEF CallOK
<1>5. calls \in Seq(Call) /\ calls' \in Seq(Call) /\ Len(calls') = Len(calls)
      /\ DOMAIN calls' = DOMAIN calls
      /\ \A j \in DOMAIN calls : calls'[j] = IF j = k THEN c ELSE calls[j]
  BY <1>4 DEF DispatchInv, DispatchTypeOK
<1>6. \A j \in DOMAIN calls : CallOK(calls'[j], j, turnCounter, groups)
                              /\ calls'[j].tries <= Retries
  BY <1>3, <1>4, <1>5 DEF DispatchInv, CallsOK, DispatchTypeOK
<1>7. DispatchTypeOK'
  BY <1>1, <1>5, <1>6 DEF DispatchInv, DispatchTypeOK
<1>8. CallsOK'
  BY <1>1, <1>3, <1>5, <1>6 DEF DispatchInv, CallsOK
<1>9. QED
  BY <1>2, <1>7, <1>8 DEF DispatchInv

LEMMA AskingCall ==
  ASSUME DispatchInv, NEW k \in DOMAIN calls
  PROVE  /\ stage = "asking" /\ k \in DOMAIN groups /\ groups \in Seq(Seq(Scheduled))
         /\ CallOK(calls[k], k, turnCounter, groups)
<1>1. stage = "asking"
  BY DEF DispatchInv, DispatchTypeOK, CallsOK
<1>2. groups \in Seq(Seq(Scheduled))
  BY DispatchAssumption, PlannedPartitions DEF DispatchInv
<1>3. calls \in Seq(Call) /\ Len(calls) = Len(groups) /\ CallOK(calls[k], k, turnCounter, groups)
  BY <1>1 DEF DispatchInv, DispatchTypeOK, CallsOK
<1>4. QED
  BY <1>1, <1>2, <1>3

LEMMA CallFailsKeeps ==
  ASSUME DispatchInv, NEW k \in DOMAIN calls, CallFails(k)
  PROVE  DispatchInv'
<1>1. /\ calls[k].state = "asking" /\ calls' = [calls EXCEPT ![k] = Failed(calls[k])]
      /\ UNCHANGED <<schedVars, stage, input, urgency, orphans, answer>>
  BY DEF CallFails
<1>2. CallOK(Failed(calls[k]), k, turnCounter, groups)
  BY <1>1, AskingCall, FailedCallOK
<1>3. QED
  BY <1>1, <1>2, OneCallMoves

LEMMA CallReturnsKeeps ==
  ASSUME DispatchInv, NEW k \in DOMAIN calls, NEW reply, CallReturns(k, reply)
  PROVE  DispatchInv'
<1> DEFINE c == [calls[k] EXCEPT !.state = "done", !.responses = Expand(calls[k], reply)]
<1>1. UNCHANGED <<schedVars, stage, input, urgency, orphans, answer>>
  BY DEF CallReturns
<1>2. calls' = [calls EXCEPT ![k] = c]
  BY DEF CallReturns
<1>3. CallOK(c, k, turnCounter, groups)
  BY AskingCall, ExpandedCallOK
<1> HIDE DEF c
<1>4. QED
  BY <1>1, <1>2, <1>3, OneCallMoves

LEMMA CallRaisesKeeps ==
  ASSUME DispatchInv, NEW k \in DOMAIN calls, CallRaises(k)
  PROVE  DispatchInv'
<1>1. /\ stage' = "idle" /\ calls' = <<>>
      /\ orphans' = orphans \union {c \in Range(calls) : c.state = "asking" /\ c # calls[k]}
      /\ turnCounter' = turnCounter /\ ticks' = ticks /\ scene' = scene
      /\ roster' = roster /\ groups' = groups
      /\ input' = input /\ urgency' = urgency /\ answer' = answer
  BY DEF CallRaises, schedVars
<1>2. turnCounter > 0 /\ answer.turn = 0 /\ turnCounter \in Nat
  BY AskingCall DEF DispatchInv, CallsOK, Planned
<1>3. Planned'
  BY <1>1 DEF DispatchInv, Planned
<1>4. orphans' \subseteq Call
  <2>1. \A j \in DOMAIN calls : calls[j] \in Call
    BY DEF DispatchInv, DispatchTypeOK
  <2>2. Range(calls) \subseteq Call
    BY <2>1 DEF Range
  <2>3. QED
    BY <1>1, <2>2 DEF DispatchInv, DispatchTypeOK
<1>5. DispatchTypeOK'
  BY <1>1, <1>4 DEF DispatchInv, DispatchTypeOK
<1>6. CallsOK' /\ AnswerOK'
  BY <1>1, <1>2 DEF CallsOK, AnswerOK
<1>7. QED
  BY <1>3, <1>5, <1>6 DEF DispatchInv

LEMMA OrphanKeeps ==
  ASSUME DispatchInv, NEW c \in orphans, NEW reply, OrphanReturns(c, reply)
  PROVE  DispatchInv'
<1>1. /\ orphans' \subseteq orphans \union
           (IF reply.kind = "fails" /\ c.tries < Retries THEN {Failed(c)} ELSE {})
      /\ turnCounter' = turnCounter /\ ticks' = ticks /\ scene' = scene
      /\ roster' = roster /\ groups' = groups /\ stage' = stage /\ calls' = calls
      /\ input' = input /\ urgency' = urgency /\ answer' = answer
  BY DEF OrphanReturns, schedVars
<1>2. c \in Call
  BY DEF DispatchInv, DispatchTypeOK
<1>3. ASSUME c.tries < Retries PROVE Failed(c) \in Call
  <2>1. c.tries + 1 \in Nat
    BY <1>2 DEF Call
  <2>2. Failed(c) = [c EXCEPT !.tries = c.tries + 1]
    BY <1>3 DEF Failed
  <2>3. QED
    BY <1>2, <2>1, <2>2, Zenon DEF Call
<1>4. orphans' \subseteq Call
  BY <1>1, <1>3 DEF DispatchInv, DispatchTypeOK
<1>5. DispatchTypeOK'
  BY <1>1, <1>4 DEF DispatchInv, DispatchTypeOK
<1>6. Planned' /\ CallsOK' /\ AnswerOK'
  BY <1>1 DEF DispatchInv, Planned, CallsOK, AnswerOK
<1>7. QED
  BY <1>5, <1>6 DEF DispatchInv

(* The answers of all groups are those of the roster, one each. *)
LEMMA MergedIs ==
  ASSUME DispatchInv, stage = "asking", AllDone
  PROVE  /\ Responses \in Seq(Response) /\ IdsOf(Responses) = IdsOf(roster)
         /\ \A r \in Range(Responses) : Heard(r, turnCounter, groups)
<1> DEFINE parts == [k \in DOMAIN calls |-> calls[k].responses]
           X == {r \in Response : Heard(r, turnCounter, groups)}
<1>1. /\ groups \in Seq(Seq(Scheduled)) /\ FlattenSeq(groups) = roster
  BY DispatchAssumption, PlannedPartitions DEF DispatchInv, DispatchPartitions
<1>2. /\ calls \in Seq(Call) /\ Len(calls) = Len(groups)
      /\ DOMAIN calls = 1..Len(calls) /\ Len(calls) \in Nat
  BY DEF DispatchInv, DispatchTypeOK, CallsOK
<1>3. ASSUME NEW k \in 1..Len(calls)
      PROVE  /\ calls[k].responses \in Seq(X)
             /\ IdsOf(calls[k].responses) = IdsOf(groups[k])
  <2> DEFINE c == calls[k]
  <2>1. k \in DOMAIN calls /\ c.state = "done" /\ CallOK(c, k, turnCounter, groups)
    BY <1>2, AskingCall DEF AllDone
  <2> HIDE DEF c
  <2>2. /\ c.ids = IdsOf(groups[k]) /\ c.responses \in Seq(Response) /\ c.ids \in Seq(Npcs)
        /\ DOMAIN c.responses = DOMAIN c.ids
        /\ \A i \in DOMAIN c.ids : /\ c.responses[i].id = c.ids[i]
                                   /\ Heard(c.responses[i], turnCounter, groups)
    BY <2>1 DEF CallOK, Call
  <2>3. IdsOf(c.responses) = c.ids
    <3>1. c.ids = [i \in DOMAIN c.ids |-> c.ids[i]]
      BY <2>2
    <3>2. QED
      BY <2>2, <3>1 DEF IdsOf
  <2>4. c.responses \in Seq(X)
    <3> DEFINE list == c.responses
               m == Len(c.responses)
    <3>1. list = [i \in 1..m |-> list[i]] /\ DOMAIN list = 1..m /\ m \in Nat
          /\ \A i \in 1..m : list[i] \in Response
      BY <2>2
    <3>2. \A i \in 1..m : list[i] \in X
      BY <2>2, <3>1
    <3> HIDE DEF list, m, X
    <3>3. list \in [1..m -> X]
      BY <3>1, <3>2, Zenon
    <3>4. list \in Seq(X)
      BY <3>1, <3>3, ListOf, Zenon
    <3>5. QED
      BY <3>4 DEF list
  <2>5. QED
    BY <2>2, <2>3, <2>4 DEF c
<1>4. parts \in Seq(Seq(X)) /\ Len(parts) = Len(groups)
      /\ \A k \in 1..Len(parts) : IdsOf(parts[k]) = IdsOf(groups[k])
  <2> HIDE DEF X
  <2>1. parts \in [1..Len(calls) -> Seq(X)]
    BY <1>2, <1>3
  <2>2. parts \in Seq(Seq(X)) /\ Len(parts) = Len(calls)
    BY <1>2, <2>1, ListOf, Zenon
  <2>3. \A k \in 1..Len(calls) : parts[k] = calls[k].responses
    BY <1>2
  <2> HIDE DEF parts
  <2>4. QED
    BY <1>2, <1>3, <2>2, <2>3
<1>5. Responses = FlattenSeq(parts)
  BY DEF Responses
<1> HIDE DEF parts, X
<1>6. IdsOf(Responses) = IdsOf(roster)
  BY <1>1, <1>4, <1>5, FlattenIds
<1>7. Responses \in Seq(X)
  <2>1. <<>> \in Seq(X)
    OBVIOUS
  <2>2. QED
    BY <1>4, <1>5, <2>1, FlattenAppend
<1>8. \A i \in 1..Len(Responses) : /\ Responses[i] \in Response
                                   /\ Heard(Responses[i], turnCounter, groups)
  <2>1. \A r \in X : r \in Response /\ Heard(r, turnCounter, groups)
    BY DEF X
  <2>2. QED
    BY <1>7, <2>1
<1>9. DOMAIN Responses = 1..Len(Responses) /\ Len(Responses) \in Nat
      /\ Responses = [i \in 1..Len(Responses) |-> Responses[i]]
  BY <1>7
<1>10. Responses \in Seq(Response)
  BY <1>8, <1>9
<1>11. QED
  BY <1>6, <1>8, <1>9, <1>10 DEF Range

LEMMA MergeKeeps == ASSUME DispatchInv, Merge PROVE DispatchInv'
<1> DEFINE acted == {r.id : r \in Range(Responses)}
<1>1. /\ stage = "asking" /\ AllDone /\ stage' = "idle" /\ calls' = <<>>
      /\ answer' = [turn |-> turnCounter, responses |-> Responses]
      /\ ticks' = [a \in DOMAIN ticks \union acted |-> IF a \in acted THEN 0 ELSE ticks[a]]
      /\ turnCounter' = turnCounter /\ scene' = scene /\ roster' = roster /\ groups' = groups
      /\ input' = input /\ urgency' = urgency /\ orphans' = orphans
  BY Zenon DEF Merge
<1>2. /\ Responses \in Seq(Response) /\ IdsOf(Responses) = IdsOf(roster)
      /\ \A r \in Range(Responses) : Heard(r, turnCounter, groups)
  BY <1>1, MergedIs
<1>3. acted \subseteq Npcs
  BY <1>2 DEF Heard, Response
<1> HIDE DEF acted
<1>4. Planned'
  BY <1>1, <1>3 DEF DispatchInv, Planned
<1>5. DispatchTypeOK'
  <2>1. turnCounter \in Nat
    BY DEF DispatchInv, Planned
  <2>2. QED
    BY <1>1, <1>2, <2>1 DEF DispatchInv, DispatchTypeOK
<1>6. CallsOK' /\ AnswerOK'
  BY <1>1, <1>2 DEF CallsOK, AnswerOK
<1>7. QED
  BY <1>4, <1>5, <1>6 DEF DispatchInv

LEMMA DispatchInvStep == DispatchInv /\ [DispatchNext]_vars => DispatchInv'
<1> SUFFICES ASSUME DispatchInv, [DispatchNext]_vars PROVE DispatchInv'
  OBVIOUS
<1>1. CASE \E in \in Inputs, active \in Scenes :
             \E info \in [Range(active) -> Infos], curvature \in [Range(active) -> Curvatures] :
               Dispatch(active, info, in, curvature)
  BY <1>1, DispatchKeeps
<1>2. ASSUME NEW k \in DOMAIN calls, Proceeds(k) PROVE DispatchInv'
  BY <1>2, CallFailsKeeps, CallReturnsKeeps, CallRaisesKeeps DEF Proceeds
<1>3. CASE \E c \in orphans, reply \in Replies : OrphanReturns(c, reply)
  BY <1>3, OrphanKeeps
<1>4. CASE Merge
  BY <1>4, MergeKeeps
<1>5. CASE UNCHANGED vars
  BY <1>5 DEF vars, schedVars, dispatchVars, DispatchInv, Planned, DispatchTypeOK,
              CallsOK, AnswerOK
<1>6. QED
  BY <1>1, <1>2, <1>3, <1>4, <1>5 DEF DispatchNext

LEMMA DispatchInvAlways == DispatchSpec => []DispatchInv
  BY InitDispatchInv, DispatchInvStep, PTL DEF DispatchSpec

(* For any agents, replies and number of retries, a turn that is answered   *)
(* is answered for its roster: one response for each agent, in the order of *)
(* the roster, whichever call came back first, and every word is of this    *)
(* turn and from the call that was about the agent (_run_group,             *)
(* expand_response, the merge of step 5).                                  *)
THEOREM RosterIsAnswered == DispatchSpec => []RosterAnswered
<1>1. DispatchInv => RosterAnswered
  <2> SUFFICES ASSUME DispatchInv PROVE RosterAnswered
    OBVIOUS
  <2>1. DispatchPartitions /\ DispatchTypeOK
    BY DispatchAssumption, PlannedPartitions DEF DispatchInv
  <2>2. ASSUME stage = "idle", answer.turn = turnCounter, turnCounter > 0
        PROVE  /\ IdsOf(answer.responses) = IdsOf(roster)
               /\ \A r \in Range(answer.responses) : Heard(r, turnCounter, groups)
    BY <2>2 DEF DispatchInv, AnswerOK
  <2>3. QED
    BY <2>1, <2>2 DEF RosterAnswered, Heard
<1>2. QED
  BY <1>1, DispatchInvAlways, PTL

(* For any agents and curvatures, a prompt shows an agent that is farther   *)
(* away nothing that a nearer one is not shown, and no more than in a       *)
(* calmer turn (_build_agent_block, build_shared_prefix).                  *)
THEOREM PromptsAreSmaller == DispatchSpec => []PromptsShrink
<1>1. DispatchInv => PromptsShrink
  <2> SUFFICES ASSUME DispatchInv, NEW i \in DOMAIN roster, NEW j \in DOMAIN roster,
                      NEW n \in {0, 1, 3, 8}, i <= j
               PROVE  /\ Within(Block(roster[j].tier, urgency, n),
                                Block(roster[i].tier, urgency, n))
                      /\ \A calmer \in 0..urgency :
                           Within(Block(roster[j].tier, urgency, n),
                                  Block(roster[j].tier, calmer, n))
    BY DEF PromptsShrink
  <2>1. urgency \in 0..20 /\ roster \in Seq(Scheduled) /\ roster[i].tier <= roster[j].tier
    BY DEF DispatchInv, DispatchTypeOK, Planned, Sorted
  <2>2. roster[i] \in Scheduled /\ roster[j] \in Scheduled
    BY <2>1
  <2>3. roster[i].tier \in 0..3 /\ roster[j].tier \in 0..3
    BY <2>2 DEF Scheduled, Tiers
  <2>4. Within(Block(roster[j].tier, urgency, n), Block(roster[i].tier, urgency, n))
    <3>1. urgency <= urgency
      BY <2>1
    <3>2. QED
      BY <2>1, <2>3, <3>1, BlocksShrink
  <2>5. ASSUME NEW calmer \in 0..urgency
        PROVE  Within(Block(roster[j].tier, urgency, n), Block(roster[j].tier, calmer, n))
    <3>1. calmer \in 0..20 /\ calmer <= urgency /\ roster[j].tier <= roster[j].tier
      BY <2>1, <2>3
    <3>2. QED
      BY <2>1, <2>3, <3>1, BlocksShrink
  <2>6. QED
    BY <2>4, <2>5
<1>2. QED
  BY <1>1, DispatchInvAlways, PTL
=============================================================================
