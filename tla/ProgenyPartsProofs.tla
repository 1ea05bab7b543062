-------------------------- MODULE ProgenyPartsProofs --------------------------
(***************************************************************************)
(* Theorems about the parts of Progeny: the fact pool, for every finite    *)
(* set of characters and any number of facts, supersessions and            *)
(* introductions; the scheduler, for any agents, scenes and cadences that  *)
(* nest; the goals of an agent, for any goals, parents and thresholds; its *)
(* memories and their recall, for any store and limits; the nights, for    *)
(* any memories, drift and number of nights; the tiers of the dialogue,    *)
(* for any sizes and any number of lines.                                  *)
(***************************************************************************)
EXTENDS ProgenyParts, FiniteSetTheorems, SequenceTheorems, TLAPS

(* The theorems of the scheduler, for the agents of the composition.       *)
Sched == INSTANCE AgentSchedulerProofs WITH Npcs <- Party

(* The ids that uuids number are told apart by their numbers, and are not   *)
(* those of introductions.                                                 *)
LEMMA IdsApart ==
  /\ \A j, k \in Nat : Id(j) = Id(k) => j = k
  /\ \A k \in Nat : Id(k) \notin IdentityIds
  /\ \A k \in Nat : Id(k)[2] = k
  /\ \A k \in 1..MaxFacts : Id(k) \in NumberedIds /\ Id(k) # None
  /\ \A id \in NumberedIds : id[2] \in 1..MaxFacts /\ id = Id(id[2])
  /\ \A id \in IdentityIds : id[1] \in Npcs /\ id[2] \in Npcs
<1>1. \A k \in Nat : Id(k) \notin IdentityIds
  BY PoolAssumption DEF Id, IdentityIds
<1>2. QED
  BY <1>1, PoolAssumption DEF Id, NumberedIds, IdentityIds, None

(* Those who have no bit yet take the next positions, each of them one, and *)
(* leave none of them out.                                                 *)
LEMMA FreshPositions ==
  ASSUME TypeOK, NEW names \in SUBSET Names, NEW b \in Assignments(names)
  PROVE  /\ Cardinality(Newcomers(names)) \in Nat
         /\ DOMAIN b = Newcomers(names)
         /\ \A n \in Newcomers(names) :
              /\ b[n] \in Nat /\ nextBit <= b[n]
              /\ b[n] < nextBit + Cardinality(Newcomers(names))
         /\ \A m, n \in Newcomers(names) : b[m] = b[n] => m = n
         /\ \A k \in Positions(names) : \E n \in Newcomers(names) : b[n] = k
<1> DEFINE size == Cardinality(Newcomers(names))
<1>1. IsFiniteSet(Names)
  <2>1. IsFiniteSet(Npcs \union {Player})
    BY PoolAssumption, FS_AddElement
  <2>2. QED
    BY <2>1 DEF Names
<1>2. IsFiniteSet(Newcomers(names)) /\ size \in Nat
  <2>1. Newcomers(names) \in SUBSET Names
    BY DEF Newcomers
  <2>2. IsFiniteSet(Newcomers(names))
    BY <1>1, <2>1, FS_Subset
  <2>3. QED
    BY <2>2, FS_CardinalityType
<1>3. nextBit \in Nat
  BY DEF TypeOK
<1>4. /\ b \in [Newcomers(names) -> Positions(names)]
      /\ \A m, n \in Newcomers(names) : b[m] = b[n] => m = n
  BY DEF Assignments
<1>5. b \in Injection(Newcomers(names), Positions(names))
  BY <1>4 DEF Injection, IsInjective
<1>6. IsFiniteSet(Positions(names)) /\ Cardinality(Positions(names)) = size
  <2> HIDE DEF size
  <2>1. Positions(names) = nextBit..(nextBit + size - 1)
    BY DEF Positions, size
  <2>2. /\ IsFiniteSet(nextBit..(nextBit + size - 1))
        /\ Cardinality(nextBit..(nextBit + size - 1))
             = IF nextBit > nextBit + size - 1 THEN 0 ELSE (nextBit + size - 1) - nextBit + 1
    BY <1>2, <1>3, FS_Interval
  <2>3. QED
    BY <1>2, <1>3, <2>1, <2>2
<1>7. b \in Surjection(Newcomers(names), Positions(names))
  BY <1>5, <1>6, FS_Injection
<1>8. \A k \in Positions(names) : \E n \in Newcomers(names) : b[n] = k
  BY <1>7 DEF Surjection
<1>9. QED
  BY <1>2, <1>3, <1>4, <1>8 DEF Positions

(* What the bit index promises of itself, without the facts. *)
IndexInv ==
  /\ Registered \subseteq Names
  /\ bitOf \in [Registered -> Nat]
  /\ nextBit \in Nat
  /\ Player \in Registered /\ bitOf[Player] = 0
  /\ \A m, n \in Registered : bitOf[m] = bitOf[n] => m = n
  /\ \A n \in Registered : bitOf[n] < nextBit
  /\ BitsDense

(* A registration keeps the index, leaves the bits there are alone, and     *)
(* makes masks of bits that are assigned.                                  *)
LEMMA RegistrationKeepsIndex ==
  ASSUME TypeOK, IndexInv, NEW names \in SUBSET Names, NEW b, Assign(names, b)
  PROVE  /\ IndexInv'
         /\ nextBit <= nextBit'
         /\ Registered' = Registered \union names
         /\ \A n \in Registered : bitOf'[n] = bitOf[n]
         /\ Mask(names, b) = {bitOf'[n] : n \in names}
         /\ \A k \in Mask(names, b) : k \in Nat /\ k < nextBit'
<1> DEFINE size == Cardinality(Newcomers(names))
<1>1. /\ b \in Assignments(names)
      /\ bitOf' = Extended(b)
      /\ nextBit' = nextBit + size
  BY DEF Assign
<1>2. /\ size \in Nat
      /\ DOMAIN b = Newcomers(names)
      /\ \A n \in Newcomers(names) :
           b[n] \in Nat /\ nextBit <= b[n] /\ b[n] < nextBit + size
      /\ \A m, n \in Newcomers(names) : b[m] = b[n] => m = n
      /\ \A k \in nextBit..(nextBit + size - 1) : \E n \in Newcomers(names) : b[n] = k
  BY <1>1, FreshPositions DEF Positions
<1> HIDE DEF size
<1>3. DOMAIN bitOf' = DOMAIN bitOf \union names
  BY <1>1, <1>2 DEF Extended, Newcomers, Registered
<1>4. /\ \A n \in DOMAIN bitOf : bitOf'[n] = bitOf[n]
      /\ \A n \in Newcomers(names) : bitOf'[n] = b[n]
      /\ \A n \in DOMAIN bitOf' : n \in DOMAIN bitOf \/ n \in Newcomers(names)
  BY <1>1, <1>2, <1>3 DEF Extended, Newcomers, Registered
<1>5. /\ nextBit \in Nat /\ nextBit' \in Nat /\ nextBit <= nextBit'
  BY <1>1, <1>2 DEF IndexInv
<1>6. \A n \in DOMAIN bitOf' : bitOf'[n] \in Nat /\ bitOf'[n] < nextBit'
  BY <1>1, <1>2, <1>4, <1>5 DEF IndexInv, Registered
<1>7. \A m, n \in DOMAIN bitOf' : bitOf'[m] = bitOf'[n] => m = n
  BY <1>2, <1>4, <1>5 DEF IndexInv, Registered
<1>8. BitsDense'
  <2> SUFFICES ASSUME NEW k \in 0..(nextBit' - 1)
               PROVE  \E n \in DOMAIN bitOf' : bitOf'[n] = k
    BY DEF BitsDense, Registered
  <2>1. CASE k < nextBit
    <3>1. \E n \in DOMAIN bitOf : bitOf[n] = k
      BY <1>5, <2>1 DEF IndexInv, BitsDense, Registered
    <3>2. QED
      BY <1>3, <1>4, <3>1
  <2>2. CASE ~(k < nextBit)
    <3>1. k \in nextBit..(nextBit + size - 1)
      BY <1>1, <1>2, <1>5, <2>2
    <3>2. \E n \in Newcomers(names) : b[n] = k
      BY <1>2, <3>1
    <3>3. QED
      BY <1>3, <1>4, <3>2 DEF Newcomers
  <2>3. QED
    BY <2>1, <2>2
<1>9. Mask(names, b) = {bitOf'[n] : n \in names}
  BY <1>1 DEF Mask
<1>10. bitOf' \in [DOMAIN bitOf' -> Nat]
  BY <1>1, <1>6 DEF Extended
<1>11. IndexInv'
  BY <1>3, <1>4, <1>5, <1>6, <1>7, <1>8, <1>10 DEF IndexInv, Registered
<1>12. QED
  BY <1>3, <1>4, <1>5, <1>6, <1>9, <1>11 DEF Registered

-----------------------------------------------------------------------------
(* An introduction's fact is known to its two parties and to nobody else:  *)
(* telling it again takes nothing from anyone.                             *)
IntroductionsAreBetweenTwo ==
  \A id \in DOMAIN facts \intersect IdentityIds :
    /\ id[1] \in Registered /\ id[2] \in Registered
    /\ facts[id].category = "identity"
    /\ facts[id].bits \subseteq {bitOf[id[1]], bitOf[id[2]]}

FactsInv ==
  /\ DOMAIN facts \subseteq FactIds
  /\ facts \in [DOMAIN facts -> Fact]
  /\ \A id \in DOMAIN facts : \A k \in facts[id].bits : k < nextBit
  /\ \A id \in DOMAIN facts \intersect NumberedIds : id[2] <= made
  /\ SupersededByLater
  /\ IntroductionsAreBetweenTwo

PoolInv == TypeOK /\ IndexInv /\ FactsInv

(* What every step does to the pool: the bits that are assigned stay, new   *)
(* ones are higher, and every fact keeps its place and its knowers.        *)
IndexGrows ==
  /\ IndexInv'
  /\ nextBit <= nextBit'
  /\ \A n \in Registered : n \in Registered' /\ bitOf'[n] = bitOf[n]
FactsKept ==
  \A id \in DOMAIN facts : id \in DOMAIN facts' /\ facts[id].bits \subseteq facts'[id].bits

(* A fact under a new number keeps the invariant, also if it supersedes    *)
(* facts of its category (add_fact, add_lore, supersede).                  *)
LEMMA NewFactKeeps ==
  ASSUME PoolInv, IndexGrows, made < MaxFacts, made' = made + 1,
         NEW category \in Categories, NEW bits \in SUBSET Nat,
         \A k \in bits : k < nextBit',
         facts' = [i \in DOMAIN facts' |-> facts'[i]],
         DOMAIN facts' = DOMAIN facts \union {Id(made + 1)},
         facts'[Id(made + 1)] = [category |-> category, bits |-> bits, supersededBy |-> None],
         \A id \in DOMAIN facts :
           /\ facts'[id] \in Fact
           /\ facts'[id].category = facts[id].category /\ facts'[id].bits = facts[id].bits
           /\ \/ facts'[id].supersededBy = facts[id].supersededBy
              \/ facts'[id].supersededBy = Id(made + 1) /\ facts[id].category = category
  PROVE  FactsInv' /\ FactsKept
<1> DEFINE new == Id(made + 1)
<1>1. /\ made \in Nat /\ made + 1 \in 1..MaxFacts
      /\ DOMAIN facts \subseteq FactIds
      /\ facts \in [DOMAIN facts -> Fact]
      /\ nextBit \in Nat /\ nextBit' \in Nat
  BY PoolAssumption DEF PoolInv, TypeOK, IndexGrows, IndexInv
<1>2. /\ new \in NumberedIds /\ new[2] = made + 1 /\ new # None
      /\ new \notin IdentityIds /\ new \in FactIds
  BY <1>1, IdsApart DEF FactIds
<1>3. new \notin DOMAIN facts
  BY <1>1, <1>2 DEF PoolInv, FactsInv
<1>4. facts'[new] \in Fact
  BY DEF Fact
<1>5. facts' \in [DOMAIN facts' -> Fact]
  <2>1. \A id \in DOMAIN facts' : facts'[id] \in Fact
    BY <1>4
  <2>2. QED
    BY <2>1
<1>6. DOMAIN facts' \subseteq FactIds
  BY <1>1, <1>2
<1>7. ASSUME NEW id \in DOMAIN facts', NEW k \in facts'[id].bits
      PROVE  k < nextBit'
  <2>1. CASE id = new
    BY <2>1
  <2>2. CASE id \in DOMAIN facts
    <3>1. facts[id].bits \subseteq Nat
      BY <1>1, <2>2 DEF Fact
    <3>2. k \in Nat /\ k < nextBit
      BY <1>7, <2>2, <3>1 DEF PoolInv, FactsInv
    <3>3. QED
      BY <1>1, <3>2 DEF IndexGrows
  <2>3. QED
    BY <2>1, <2>2
<1>8. ASSUME NEW id \in DOMAIN facts' \intersect NumberedIds
      PROVE  id[2] <= made'
  <2>1. CASE id = new
    BY <1>1, <1>2, <2>1
  <2>2. CASE id \in DOMAIN facts
    BY <1>1, <2>2, IdsApart, PoolAssumption DEF PoolInv, FactsInv
  <2>3. QED
    BY <2>1, <2>2
<1>9. SupersededByLater'
  <2> SUFFICES ASSUME NEW id \in DOMAIN facts', facts'[id].supersededBy # None
               PROVE  /\ facts'[id].supersededBy \in DOMAIN facts'
                      /\ facts'[facts'[id].supersededBy].category = facts'[id].category
                      /\ id \in NumberedIds => id[2] < facts'[id].supersededBy[2]
    BY DEF SupersededByLater
  <2>1. id \in DOMAIN facts
    OBVIOUS
  <2>2. CASE facts'[id].supersededBy = facts[id].supersededBy
    <3> DEFINE next == facts[id].supersededBy
    <3>1. /\ next \in DOMAIN facts /\ facts[next].category = facts[id].category
          /\ id \in NumberedIds => id[2] < next[2]
      BY <2>1, <2>2 DEF PoolInv, FactsInv, SupersededByLater
    <3>2. QED
      BY <2>1, <2>2, <3>1
  <2>3. CASE facts'[id].supersededBy = new /\ facts[id].category = category
    <3>1. id \in NumberedIds => id[2] \in Nat /\ id[2] <= made
      BY <2>1, IdsApart, PoolAssumption DEF PoolInv, FactsInv
    <3>2. facts'[new].category = facts'[id].category
      BY <2>1, <2>3
    <3>3. QED
      BY <1>1, <1>2, <2>3, <3>1, <3>2
  <2>4. QED
    BY <2>1, <2>2, <2>3
<1>10. IntroductionsAreBetweenTwo'
  <2> SUFFICES ASSUME NEW id \in DOMAIN facts' \intersect IdentityIds
               PROVE  /\ id[1] \in Registered' /\ id[2] \in Registered'
                      /\ facts'[id].category = "identity"
                      /\ facts'[id].bits \subseteq {bitOf'[id[1]], bitOf'[id[2]]}
    BY DEF IntroductionsAreBetweenTwo
  <2>1. id \in DOMAIN facts
    BY <1>2
  <2>2. QED
    BY <2>1 DEF PoolInv, FactsInv, IntroductionsAreBetweenTwo, IndexGrows
<1>11. FactsKept
  BY DEF FactsKept
<1>12. QED
  BY <1>5, <1>6, <1>7, <1>8, <1>9, <1>10, <1>11 DEF FactsInv

(* A fact whose knowers grow by characters with a bit keeps the invariant,  *)
(* if it is none of an introduction (propagation, lore for a newcomer).    *)
LEMMA LearningKeeps ==
  ASSUME PoolInv, IndexGrows, made' = made, NEW more \in SUBSET Nat,
         \A k \in more : k < nextBit',
         NEW learned \in SUBSET DOMAIN facts, learned \intersect IdentityIds = {},
         facts' = [i \in DOMAIN facts |->
                     IF i \in learned THEN [facts[i] EXCEPT !.bits = @ \union more]
                                      ELSE facts[i]]
  PROVE  FactsInv' /\ FactsKept
<1>1. /\ DOMAIN facts \subseteq FactIds
      /\ facts \in [DOMAIN facts -> Fact]
      /\ nextBit \in Nat /\ nextBit' \in Nat /\ nextBit <= nextBit'
  BY DEF PoolInv, TypeOK, IndexGrows, IndexInv
<1>2. DOMAIN facts' = DOMAIN facts
  OBVIOUS
<1>3. ASSUME NEW id \in DOMAIN facts
      PROVE  /\ facts'[id] \in Fact
             /\ facts'[id].category = facts[id].category
             /\ facts'[id].supersededBy = facts[id].supersededBy
             /\ facts[id].bits \subseteq facts'[id].bits
             /\ facts'[id].bits \subseteq facts[id].bits \union more
             /\ id \in IdentityIds => facts'[id] = facts[id]
  <2>1. facts[id] \in Fact
    BY <1>1, <1>3
  <2>2. [facts[id] EXCEPT !.bits = @ \union more] \in Fact
    BY <2>1 DEF Fact
  <2>3. QED
    BY <1>3, <2>1, <2>2 DEF Fact
<1>4. facts' \in [DOMAIN facts' -> Fact]
  BY <1>3
<1>5. ASSUME NEW id \in DOMAIN facts', NEW k \in facts'[id].bits
      PROVE  k < nextBit'
  <2>1. CASE k \in more
    BY <2>1
  <2>2. CASE k \in facts[id].bits
    <3>1. facts[id].bits \subseteq Nat
      BY <1>1, <1>2 DEF Fact
    <3>2. k < nextBit
      BY <1>2, <2>2 DEF PoolInv, FactsInv
    <3>3. QED
      BY <1>1, <2>2, <3>1, <3>2
  <2>3. QED
    BY <1>2, <1>3, <1>5, <2>1, <2>2
<1>6. \A id \in DOMAIN facts' \intersect NumberedIds : id[2] <= made'
  BY <1>2 DEF PoolInv, FactsInv
<1>7. SupersededByLater'
  <2> SUFFICES ASSUME NEW id \in DOMAIN facts, facts[id].supersededBy # None
               PROVE  /\ facts[id].supersededBy \in DOMAIN facts
                      /\ facts'[facts[id].supersededBy].category = facts[id].category
                      /\ id \in NumberedIds => id[2] < facts[id].supersededBy[2]
    BY <1>2, <1>3 DEF SupersededByLater
  <2>1. QED
    BY <1>3 DEF PoolInv, FactsInv, SupersededByLater
<1>8. IntroductionsAreBetweenTwo'
  <2> SUFFICES ASSUME NEW id \in DOMAIN facts \intersect IdentityIds
               PROVE  /\ id[1] \in Registered' /\ id[2] \in Registered'
                      /\ facts'[id].category = "identity"
                      /\ facts'[id].bits \subseteq {bitOf'[id[1]], bitOf'[id[2]]}
    BY <1>2 DEF IntroductionsAreBetweenTwo
  <2>1. facts'[id] = facts[id]
    BY <1>3
  <2>2. QED
    BY <2>1 DEF PoolInv, FactsInv, IntroductionsAreBetweenTwo, IndexGrows
<1>9. FactsKept
  BY <1>2, <1>3 DEF FactsKept
<1>10. QED
  BY <1>1, <1>2, <1>4, <1>5, <1>6, <1>7, <1>8, <1>9 DEF FactsInv

(* The facts of introductions that are told, for the first time or again    *)
(* (add_fact with a deterministic id).                                     *)
LEMMA IntroductionKeeps ==
  ASSUME PoolInv, IndexGrows, made' = made,
         NEW s \in Npcs, NEW l \in Npcs, s \in Registered', l \in Registered',
         facts' = WithFact(<<s, l>>, "identity", {bitOf'[s], bitOf'[l]})
  PROVE  FactsInv' /\ FactsKept
<1> DEFINE told == <<s, l>>
<1>1. /\ DOMAIN facts \subseteq FactIds
      /\ facts \in [DOMAIN facts -> Fact]
      /\ nextBit \in Nat /\ nextBit' \in Nat /\ nextBit <= nextBit'
      /\ bitOf'[s] \in Nat /\ bitOf'[s] < nextBit'
      /\ bitOf'[l] \in Nat /\ bitOf'[l] < nextBit'
  BY DEF PoolInv, TypeOK, IndexGrows, IndexInv
<1>2. told \in IdentityIds /\ told \notin NumberedIds /\ told \in FactIds
      /\ told[1] = s /\ told[2] = l
  <2>1. told \in IdentityIds
    BY DEF IdentityIds
  <2>2. told \notin NumberedIds
    BY <2>1, IdsApart, PoolAssumption DEF NumberedIds
  <2>3. QED
    BY <2>1, <2>2 DEF FactIds
<1>3. /\ DOMAIN facts' = DOMAIN facts \union {told}
      /\ facts'[told] = [category |-> "identity", bits |-> {bitOf'[s], bitOf'[l]},
                         supersededBy |-> None]
      /\ \A id \in DOMAIN facts : id # told => facts'[id] = facts[id]
      /\ facts' = [id \in DOMAIN facts' |-> facts'[id]]
  <2> HIDE DEF told
  <2>1. facts' = [i \in DOMAIN facts \union {told} |->
          IF i = told THEN [category |-> "identity", bits |-> {bitOf'[s], bitOf'[l]},
                            supersededBy |-> None]
                      ELSE facts[i]]
    BY DEF WithFact, told
  <2>2. QED
    BY <2>1
<1> HIDE DEF told
<1>4. facts' \in [DOMAIN facts' -> Fact]
  <2>1. facts'[told] \in Fact
    <3>1. {bitOf'[s], bitOf'[l]} \in SUBSET Nat /\ "identity" \in Categories
      BY <1>1 DEF Categories
    <3>2. facts'[told] = [category |-> "identity", bits |-> {bitOf'[s], bitOf'[l]},
                           supersededBy |-> None]
      BY <1>3
    <3>3. QED
      BY <3>1, <3>2 DEF Fact
  <2>2. \A id \in DOMAIN facts' : facts'[id] \in Fact
    BY <1>1, <1>3, <2>1
  <2>3. QED
    BY <1>3, <2>2
<1>5. ASSUME NEW id \in DOMAIN facts', NEW k \in facts'[id].bits
      PROVE  k < nextBit'
  <2>1. CASE id = told
    BY <1>1, <1>3, <1>5, <2>1
  <2>2. CASE id # told
    <3>1. facts[id].bits \subseteq Nat
      BY <1>1, <1>3, <2>2 DEF Fact
    <3>2. k < nextBit /\ k \in Nat
      BY <1>3, <1>5, <2>2, <3>1 DEF PoolInv, FactsInv
    <3>3. QED
      BY <1>1, <3>2
  <2>3. QED
    BY <2>1, <2>2
<1>6. \A id \in DOMAIN facts' \intersect NumberedIds : id[2] <= made'
  BY <1>2, <1>3 DEF PoolInv, FactsInv
<1>7. \A id \in DOMAIN facts \intersect IdentityIds : facts[id].category = "identity"
  BY DEF PoolInv, FactsInv, IntroductionsAreBetweenTwo
<1>8. SupersededByLater'
  <2> SUFFICES ASSUME NEW id \in DOMAIN facts', facts'[id].supersededBy # None
               PROVE  /\ facts'[id].supersededBy \in DOMAIN facts'
                      /\ facts'[facts'[id].supersededBy].category = facts'[id].category
                      /\ id \in NumberedIds => id[2] < facts'[id].supersededBy[2]
    BY DEF SupersededByLater
  <2>1. id # told /\ id \in DOMAIN facts /\ facts'[id] = facts[id]
    BY <1>3
  <2> DEFINE next == facts[id].supersededBy
  <2>2. /\ next \in DOMAIN facts /\ facts[next].category = facts[id].category
        /\ id \in NumberedIds => id[2] < next[2]
    BY <2>1 DEF PoolInv, FactsInv, SupersededByLater
  <2>3. facts'[next].category = facts[next].category
    <3> HIDE DEF next
    <3>1. CASE next = told
      <4>1. facts'[told].category = "identity"
        BY <1>3
      <4>2. facts[told].category = "identity"
        BY <1>2, <1>7, <2>2, <3>1
      <4>3. QED
        BY <3>1, <4>1, <4>2
    <3>2. CASE next # told
      BY <1>3, <2>2, <3>2
    <3>3. QED
      BY <3>1, <3>2
  <2>4. QED
    BY <1>3, <2>1, <2>2, <2>3
<1>9. IntroductionsAreBetweenTwo'
  <2> SUFFICES ASSUME NEW id \in DOMAIN facts' \intersect IdentityIds
               PROVE  /\ id[1] \in Registered' /\ id[2] \in Registered'
                      /\ facts'[id].category = "identity"
                      /\ facts'[id].bits \subseteq {bitOf'[id[1]], bitOf'[id[2]]}
    BY DEF IntroductionsAreBetweenTwo
  <2>1. CASE id = told
    <3>1. id[1] = s /\ id[2] = l
      BY <1>2, <2>1
    <3>2. /\ facts'[id].category = "identity"
          /\ facts'[id].bits = {bitOf'[s], bitOf'[l]}
      <4>1. facts'[id] = [category |-> "identity", bits |-> {bitOf'[s], bitOf'[l]},
                          supersededBy |-> None]
        BY <1>3, <2>1, Zenon
      <4>2. QED
        BY <4>1
    <3>3. s \in Registered' /\ l \in Registered'
      OBVIOUS
    <3>4. {bitOf'[s], bitOf'[l]} = {bitOf'[id[1]], bitOf'[id[2]]}
      BY <3>1
    <3>5. QED
      BY <3>1, <3>2, <3>3, <3>4
  <2>2. CASE id # told
    BY <1>3, <2>2 DEF PoolInv, FactsInv, IntroductionsAreBetweenTwo, IndexGrows
  <2>3. QED
    BY <2>1, <2>2
<1>10. FactsKept
  <2> SUFFICES ASSUME NEW id \in DOMAIN facts
               PROVE  id \in DOMAIN facts' /\ facts[id].bits \subseteq facts'[id].bits
    BY DEF FactsKept
  <2>1. CASE id = told
    <3>1. facts[told].bits \subseteq {bitOf[s], bitOf[l]} /\ s \in Registered /\ l \in Registered
      BY <1>2, <2>1 DEF PoolInv, FactsInv, IntroductionsAreBetweenTwo
    <3>2. bitOf'[s] = bitOf[s] /\ bitOf'[l] = bitOf[l]
      BY <3>1 DEF IndexGrows
    <3>3. facts'[told].bits = {bitOf'[s], bitOf'[l]}
      BY <1>3
    <3>4. QED
      BY <1>3, <2>1, <3>1, <3>2, <3>3
  <2>2. CASE id # told
    BY <1>3, <2>2
  <2>3. QED
    BY <2>1, <2>2
<1>11. QED
  BY <1>3, <1>4, <1>5, <1>6, <1>8, <1>9, <1>10, <1>1, <1>2 DEF FactsInv

-----------------------------------------------------------------------------
(* The lists of a category get well-typed entries. *)
LEMMA ListedTypes ==
  ASSUME TypeOK, NEW id \in FactIds, NEW category \in Categories,
         byCategory' = Listed(id, category)
  PROVE  byCategory' \in [Categories -> Seq(FactIds)]
<1>1. byCategory[category] \in Seq(FactIds)
  BY DEF TypeOK
<1>2. Append(byCategory[category], id) \in Seq(FactIds)
  BY <1>1
<1>3. QED
  BY <1>2 DEF Listed, TypeOK

(* Every call keeps the invariant, the bits that are assigned, and every   *)
(* fact with its knowers.                                                  *)
LEMMA StepKeeps == ASSUME PoolInv, Next PROVE PoolInv' /\ IndexGrows /\ FactsKept
<1>1. TypeOK /\ IndexInv /\ FactsInv /\ made \in 0..MaxFacts /\ MaxFacts \in Nat
  BY PoolAssumption DEF PoolInv, TypeOK
<1>2. ASSUME NEW names \in SUBSET Names, NEW b, Assign(names, b)
      PROVE  /\ IndexGrows
             /\ Registered' = Registered \union names
             /\ Mask(names, b) = {bitOf'[n] : n \in names}
             /\ Mask(names, b) \subseteq Nat /\ \A k \in Mask(names, b) : k < nextBit'
  BY <1>1, <1>2, RegistrationKeepsIndex DEF IndexGrows
<1>3. (bitOf' = bitOf /\ nextBit' = nextBit) => IndexGrows
  BY <1>1 DEF IndexGrows, IndexInv, BitsDense, Registered
<1>4. ASSUME IndexGrows, FactsInv', made' \in 0..MaxFacts, met' \subseteq Npcs,
             byCategory' \in [Categories -> Seq(FactIds)]
      PROVE  PoolInv'
  BY <1>4 DEF PoolInv, TypeOK, IndexGrows, IndexInv, FactsInv
<1>5. made < MaxFacts => /\ Id(made + 1) \in FactIds /\ made + 1 \in 0..MaxFacts
  BY <1>1, IdsApart DEF FactIds
<1>6. met \subseteq Npcs /\ byCategory \in [Categories -> Seq(FactIds)]
  BY <1>1 DEF TypeOK
<1>7. ASSUME NEW K \in SUBSET Names, AddFact(K)
      PROVE  PoolInv' /\ IndexGrows /\ FactsKept
  <2>1. PICK b \in Assignments(K) :
          Assign(K, b) /\ facts' = WithFact(Id(made + 1), "event", Mask(K, b))
    BY <1>7 DEF AddFact
  <2>2. IndexGrows /\ Mask(K, b) \in SUBSET Nat /\ \A k \in Mask(K, b) : k < nextBit'
    BY <1>2, <2>1
  <2>3. made < MaxFacts /\ made' = made + 1
    BY <1>7 DEF AddFact
  <2>4. Id(made + 1) \notin DOMAIN facts
    BY <1>1, <1>5, <2>3, IdsApart DEF FactsInv
  <2>5. facts \in [DOMAIN facts -> Fact]
    BY <1>1 DEF FactsInv
  <2>6. FactsInv' /\ FactsKept
    BY <2>1, <2>2, <2>3, <2>4, <2>5, NewFactKeeps DEF WithFact, PoolInv, Categories
  <2>7. byCategory' \in [Categories -> Seq(FactIds)]
    BY <1>1, <1>5, <1>7, <2>3, ListedTypes DEF AddFact, Categories
  <2>8. QED
    BY <1>4, <1>5, <1>6, <1>7, <2>2, <2>3, <2>6, <2>7 DEF AddFact
<1>8. ASSUME NEW s \in Npcs, NEW l \in Npcs, AddIdentity(s, l)
      PROVE  PoolInv' /\ IndexGrows /\ FactsKept
  <2>1. PICK b \in Assignments({s, l}) :
          Assign({s, l}, b) /\ facts' = WithFact(<<s, l>>, "identity", Mask({s, l}, b))
    BY <1>8 DEF AddIdentity
  <2>2. {s, l} \in SUBSET Names /\ <<s, l>> \in FactIds
    BY DEF Names, FactIds, IdentityIds
  <2>3. /\ IndexGrows /\ s \in Registered' /\ l \in Registered'
        /\ Mask({s, l}, b) = {bitOf'[s], bitOf'[l]}
    BY <1>2, <2>1, <2>2
  <2>4. FactsInv' /\ FactsKept
    BY <1>8, <2>1, <2>3, IntroductionKeeps DEF AddIdentity
  <2>5. byCategory' \in [Categories -> Seq(FactIds)]
    BY <1>1, <1>8, <2>2, ListedTypes DEF AddIdentity, Categories
  <2>6. QED
    BY <1>1, <1>4, <1>6, <1>8, <2>3, <2>4, <2>5 DEF AddIdentity
<1>9. CASE AddLore
  <2> DEFINE all == {bitOf[n] : n \in Registered}
  <2>1. IndexGrows /\ made < MaxFacts /\ made' = made + 1 /\ nextBit' = nextBit
        /\ facts' = WithFact(Id(made + 1), "lore", all)
    BY <1>3, <1>9 DEF AddLore
  <2>2. all \in SUBSET Nat /\ \A k \in all : k < nextBit'
    BY <1>1, <2>1 DEF IndexInv
  <2>3. Id(made + 1) \notin DOMAIN facts
    BY <1>1, <1>5, <2>1, IdsApart DEF FactsInv
  <2>4. facts \in [DOMAIN facts -> Fact]
    BY <1>1 DEF FactsInv
  <2> HIDE DEF all
  <2>5. FactsInv' /\ FactsKept
    BY <2>1, <2>2, <2>3, <2>4, NewFactKeeps DEF WithFact, PoolInv, Categories
  <2>6. byCategory' \in [Categories -> Seq(FactIds)]
    BY <1>1, <1>5, <1>9, <2>1, ListedTypes DEF AddLore, Categories
  <2>7. QED
    BY <1>4, <1>5, <1>6, <1>9, <2>1, <2>5, <2>6 DEF AddLore
<1>10. ASSUME NEW n \in Npcs, RegisterActive(n)
       PROVE  PoolInv' /\ IndexGrows /\ FactsKept
  <2>1. met' \subseteq Npcs /\ byCategory' = byCategory /\ made' = made
    BY <1>6, <1>10 DEF RegisterActive
  <2>2. CASE n \in Registered
    <3>1. bitOf' = bitOf /\ nextBit' = nextBit /\ facts' = facts
      BY <1>10, <2>2 DEF RegisterActive
    <3>2. FactsInv' /\ FactsKept
      BY <1>1, <2>1, <3>1
         DEF FactsInv, FactsKept, SupersededByLater, IntroductionsAreBetweenTwo, Registered
    <3>3. QED
      BY <1>1, <1>3, <1>4, <1>6, <2>1, <3>1, <3>2
  <2>3. CASE n \notin Registered
    <3>1. PICK b \in Assignments({n}) :
            /\ Assign({n}, b)
            /\ facts' = [i \in DOMAIN facts |->
                           IF facts[i].category = "lore"
                             THEN [facts[i] EXCEPT !.bits = @ \union Mask({n}, b)]
                             ELSE facts[i]]
      BY <1>10, <2>3 DEF RegisterActive
    <3>2. IndexGrows /\ Mask({n}, b) \in SUBSET Nat /\ \A k \in Mask({n}, b) : k < nextBit'
      BY <1>2, <3>1 DEF Names
    <3> DEFINE lore == {i \in DOMAIN facts : facts[i].category = "lore"}
               mask == Mask({n}, b)
    <3>3. lore \in SUBSET DOMAIN facts /\ lore \intersect IdentityIds = {}
      BY <1>1 DEF FactsInv, IntroductionsAreBetweenTwo
    <3>4. facts' = [i \in DOMAIN facts |->
                      IF i \in lore THEN [facts[i] EXCEPT !.bits = @ \union mask]
                                    ELSE facts[i]]
      BY <3>1
    <3> HIDE DEF lore, mask
    <3>5. mask \in SUBSET Nat /\ \A k \in mask : k < nextBit'
      BY <3>2 DEF mask
    <3>6. FactsInv' /\ FactsKept
      BY <2>1, <3>2, <3>3, <3>4, <3>5, LearningKeeps
    <3>7. QED
      BY <1>1, <1>4, <1>6, <2>1, <3>2, <3>6
  <2>4. QED
    BY <2>2, <2>3
<1>11. ASSUME NEW id \in DOMAIN facts, NEW L \in SUBSET Npcs, Propagate(id, L)
       PROVE  PoolInv' /\ IndexGrows /\ FactsKept
  <2>1. PICK b \in Assignments(L) :
          Assign(L, b) /\ facts' = [facts EXCEPT ![id].bits = @ \union Mask(L, b)]
    BY <1>11 DEF Propagate
  <2>2. byCategory' = byCategory /\ made' = made /\ met' = met /\ id \in NumberedIds
    BY <1>11 DEF Propagate
  <2>3. IndexGrows /\ Mask(L, b) \in SUBSET Nat /\ \A k \in Mask(L, b) : k < nextBit'
    BY <1>2, <2>1 DEF Names
  <2> DEFINE mask == Mask(L, b)
  <2>4. {id} \intersect IdentityIds = {}
    BY <2>2, IdsApart, PoolAssumption
  <2>5. facts' = [i \in DOMAIN facts |->
                    IF i \in {id} THEN [facts[i] EXCEPT !.bits = @ \union mask]
                                  ELSE facts[i]]
    BY <1>1, <2>1 DEF FactsInv
  <2> HIDE DEF mask
  <2>6. mask \in SUBSET Nat /\ \A k \in mask : k < nextBit'
    BY <2>3 DEF mask
  <2>7. FactsInv' /\ FactsKept
    BY <2>2, <2>3, <2>4, <2>5, <2>6, LearningKeeps
  <2>8. QED
    BY <1>1, <1>4, <1>6, <2>2, <2>3, <2>7
<1>12. ASSUME NEW old \in DOMAIN facts, NEW K \in SUBSET Names, Supersede(old, K)
       PROVE  PoolInv' /\ IndexGrows /\ FactsKept
  <2> DEFINE new == Id(made + 1)
             category == facts[old].category
  <2>1. PICK b \in Assignments(K) :
          /\ Assign(K, b)
          /\ facts' = [WithFact(new, category, Mask(K, b)) EXCEPT ![old].supersededBy = new]
    BY <1>12 DEF Supersede
  <2>2. IndexGrows /\ Mask(K, b) \in SUBSET Nat /\ \A k \in Mask(K, b) : k < nextBit'
    BY <1>2, <2>1
  <2>3. made < MaxFacts /\ made' = made + 1 /\ byCategory' = Listed(new, category) /\ met' = met
    BY <1>12 DEF Supersede
  <2>4. new \notin DOMAIN facts /\ new \in NumberedIds
    BY <1>1, <1>5, <2>3, IdsApart DEF FactsInv
  <2>5. facts \in [DOMAIN facts -> Fact] /\ category \in Categories
    BY <1>1 DEF FactsInv, Fact
  <2> DEFINE mask == Mask(K, b)
  <2> HIDE DEF new, category, mask
  <2>6. /\ facts' = [i \in DOMAIN facts' |-> facts'[i]]
        /\ DOMAIN facts' = DOMAIN facts \union {new}
        /\ facts'[new] = [category |-> category, bits |-> mask, supersededBy |-> None]
        /\ facts'[old] = [facts[old] EXCEPT !.supersededBy = new]
        /\ \A id \in DOMAIN facts : id # old => facts'[id] = facts[id]
    BY <2>1, <2>4 DEF WithFact, mask
  <2>7. ASSUME NEW id \in DOMAIN facts
        PROVE  /\ facts'[id] \in Fact
               /\ facts'[id].category = facts[id].category /\ facts'[id].bits = facts[id].bits
               /\ \/ facts'[id].supersededBy = facts[id].supersededBy
                  \/ facts'[id].supersededBy = new /\ facts[id].category = category
    <3>1. facts[id] \in Fact
      BY <2>5
    <3>2. CASE id = old
      BY <2>4, <2>6, <3>1, <3>2 DEF Fact, category
    <3>3. CASE id # old
      BY <2>6, <3>1, <3>3
    <3>4. QED
      BY <3>2, <3>3
  <2>8. mask \in SUBSET Nat /\ \A k \in mask : k < nextBit'
    BY <2>2 DEF mask
  <2>9. FactsInv' /\ FactsKept
    BY <2>2, <2>3, <2>5, <2>6, <2>7, <2>8, NewFactKeeps DEF new
  <2>10. byCategory' \in [Categories -> Seq(FactIds)]
    BY <1>1, <2>3, <2>4, <2>5, ListedTypes DEF FactIds
  <2>11. QED
    BY <1>4, <1>5, <1>6, <2>2, <2>3, <2>9, <2>10
<1>13. QED
  BY <1>7, <1>8, <1>9, <1>10, <1>11, <1>12 DEF Next

-----------------------------------------------------------------------------
(* A step that changes nothing keeps everything. *)
LEMMA StutterKeeps ==
  ASSUME PoolInv, UNCHANGED poolVars PROVE PoolInv' /\ IndexGrows /\ FactsKept
BY DEF PoolInv, TypeOK, IndexInv, FactsInv, IndexGrows, FactsKept, BitsDense,
       SupersededByLater, IntroductionsAreBetweenTwo, Registered, poolVars

(* The pool starts with the player's bit and no facts. *)
LEMMA InitPool == Init => PoolInv
<1> SUFFICES ASSUME Init PROVE PoolInv
  OBVIOUS
<1>1. TypeOK
  <2>1. [c \in Categories |-> <<>>] \in [Categories -> Seq(FactIds)]
    OBVIOUS
  <2>2. QED
    BY <2>1, PoolAssumption DEF Init, TypeOK, Registered, Names
<1>2. IndexInv
  BY DEF Init, IndexInv, BitsDense, Registered, Names
<1>3. FactsInv
  BY DEF Init, FactsInv, SupersededByLater, IntroductionsAreBetweenTwo
<1>4. QED
  BY <1>1, <1>2, <1>3 DEF PoolInv

LEMMA PoolInvariance == Spec => []PoolInv
<1>1. PoolInv /\ [Next]_poolVars => PoolInv'
  BY StepKeeps, StutterKeeps
<1>2. QED
  BY InitPool, <1>1, PTL DEF Spec

(* What a scene shares and what a member keeps to itself are disjoint, and *)
(* make up what it knows of the facts that nobody has replaced.            *)
LEMMA ScenesSplit == SharedOrPrivate
<1> SUFFICES ASSUME NEW P \in SUBSET Names, NEW n \in P
             PROVE  /\ Current(QueryShared(P)) \union Current(QueryPrivate(n, P))
                         = Current(Query(n))
                    /\ QueryShared(P) \intersect QueryPrivate(n, P) = {}
  BY DEF SharedOrPrivate
<1>1. \A id : AllKnow(P, id) => Knows(n, id)
  BY DEF AllKnow
<1>2. \A id \in DOMAIN facts : facts[id].supersededBy = None
        => ~Replaced(P, id) /\ ~Replaced({n}, id)
  BY DEF Replaced
<1>3. QED
  BY <1>1, <1>2 DEF Current, QueryShared, QueryPrivate, Query

(* A bit names one character for good and none is left out, supersessions  *)
(* point ahead within a category, and a scene's context splits without     *)
(* loss, after any sequence of calls (NpcBitIndex, FactPool).              *)
THEOREM PoolStaysSound == Spec => []PoolInvariant
<1>1. PoolInv => PoolInvariant
  BY ScenesSplit DEF PoolInv, IndexInv, FactsInv, PoolInvariant, BitsNameOneCharacter
<1>2. QED
  BY PoolInvariance, <1>1, PTL

(* Nobody ever forgets a fact: not when it is superseded, not when an       *)
(* introduction is told again over it, and not because bits move           *)
(* (add_fact, supersede, get_or_assign).                                   *)
THEOREM NobodyEverForgets == Spec => NobodyForgets
<1>1. ASSUME PoolInv, [Next]_poolVars
      PROVE  [\A id \in DOMAIN facts :
                /\ id \in DOMAIN facts'
                /\ KnowersOf(id) \subseteq KnowersOf(id)']_poolVars
  <2>1. IndexGrows /\ FactsKept
    BY <1>1, StepKeeps, StutterKeeps
  <2>2. QED
    BY <2>1 DEF IndexGrows, FactsKept, KnowersOf
<1>2. QED
  BY PoolInvariance, <1>1, PTL DEF Spec, NobodyForgets

-----------------------------------------------------------------------------
(* What its knowers are shown of a fact. *)

(* Every set of numbers that is not empty has a least element. *)
LEMMA LeastNumber ==
  ASSUME NEW T \in SUBSET Nat, T # {}
  PROVE  \E x \in T : \A y \in T : x <= y
BY Sched!LeastNumber

(* How many supersessions a fact can still be followed by: an introduction *)
(* is followed by numbered facts, and these by later ones.                 *)
Ahead(id) == IF id \in NumberedIds THEN MaxFacts - id[2] ELSE MaxFacts + 1

(* The knower's latest version of a fact is the one it is shown: had it     *)
(* heard of a replacement, that would be a later one still.                *)
LEMMA LatestIsShown == ASSUME TypeOK, SupersededByLater PROVE NoBeliefVanishes
<1> SUFFICES ASSUME NEW n \in Registered, NEW id \in DOMAIN facts, Knows(n, id)
             PROVE  LaterVersions(id) \intersect Query(n) # {}
  BY DEF NoBeliefVanishes
<1> DEFINE known == {x \in LaterVersions(id) : Knows(n, x)}
           ahead == {Ahead(x) : x \in known}
<1>1. known \subseteq DOMAIN facts /\ id \in known
  BY DEF LaterVersions
<1>2. \A x \in FactIds : Ahead(x) \in Nat
  BY IdsApart, PoolAssumption DEF Ahead
<1>3. ahead \in SUBSET Nat /\ ahead # {}
  BY <1>1, <1>2 DEF TypeOK
<1>4. PICK least \in ahead : \A y \in ahead : least <= y
  <2> HIDE DEF ahead
  <2> QED BY <1>3, LeastNumber
<1>5. PICK x \in known : \A y \in known : Ahead(x) <= Ahead(y)
  BY <1>4
<1>6. ~Replaced({n}, x)
  <2> SUFFICES ASSUME Replaced({n}, x) PROVE FALSE
    OBVIOUS
  <2> DEFINE new == facts[x].supersededBy
  <2>1. new # None /\ Knows(n, new)
    BY DEF Replaced, AllKnow
  <2>2. /\ new \in DOMAIN facts /\ new \in NumberedIds
        /\ x \in NumberedIds => x[2] < new[2]
    BY <1>1, <2>1 DEF SupersededByLater, TypeOK, Fact
  <2>3. new \in LaterVersions(id)
    BY <1>1, <2>1, <2>2 DEF LaterVersions, ClosedUnderReplacement
  <2>4. new \in known
    BY <2>1, <2>3
  <2>5. Ahead(new) < Ahead(x)
    BY <2>2, IdsApart, PoolAssumption DEF Ahead
  <2>6. Ahead(x) \in Nat /\ Ahead(new) \in Nat
    BY <1>1, <1>2, <2>2 DEF TypeOK
  <2>7. QED
    <3> HIDE DEF new, known
    <3> QED BY <1>5, <2>4, <2>5, <2>6
<1>7. QED
  BY <1>1, <1>6 DEF Query

(* Whoever knew of a fact can still be told of it: its context shows the   *)
(* latest version of the fact that it knows, however often the fact was    *)
(* superseded behind its back (query_npc_knowledge).                       *)
THEOREM BeliefsOnlyMove == Spec => []NoBeliefVanishes
<1>1. PoolInv => NoBeliefVanishes
  BY LatestIsShown DEF PoolInv, FactsInv
<1>2. QED
  BY PoolInvariance, <1>1, PTL

-----------------------------------------------------------------------------
(* The scheduler. *)

(* The scheduler's operators, as the two instances name them. *)
LEMMA PlansNames ==
  /\ \A r : S!PlanDispatch(r) = Sched!PlanDispatch(r)
  /\ \A active : S!Counted(active) = Sched!Counted(active)
  /\ \A turn, active, info : S!Roster(turn, active, info) = Sched!Roster(turn, active, info)
<1>1. \A s, K : S!Picked(s, K) = Sched!Picked(s, K)
  BY DEF S!Picked, Sched!Picked, S!Nth, Sched!Nth,
       S!Cardinality, Sched!Cardinality
<1>2. \A s, t : S!OfTier(s, t) = Sched!OfTier(s, t)
  BY <1>1 DEF S!OfTier, Sched!OfTier
<1>3. \A s : S!ByTier(s) = Sched!ByTier(s)
  BY <1>2 DEF S!ByTier, Sched!ByTier
<1>4. \A r : S!PlanDispatch(r) = Sched!PlanDispatch(r)
  BY <1>2 DEF S!PlanDispatch, Sched!PlanDispatch
<1>5. \A active : S!Counted(active) = Sched!Counted(active)
  BY DEF S!Counted, Sched!Counted, S!Range, Sched!Range
<1>6. \A s : S!Capped(s) = Sched!Capped(s)
  BY DEF S!Capped, Sched!Capped
<1>7. \A active, info, count : S!Tiered(active, info, count) = Sched!Tiered(active, info, count)
  BY DEF S!Tiered, Sched!Tiered, S!ComputeTier, Sched!ComputeTier,
       S!Floored, Sched!Floored, S!CollaborationFloor, Sched!CollaborationFloor
<1>8. \A turn, agent : S!Due(turn, agent) = Sched!Due(turn, agent)
  BY DEF S!Due, Sched!Due
<1>9. ASSUME NEW turn, NEW active, NEW info
      PROVE  S!Roster(turn, active, info) = Sched!Roster(turn, active, info)
  <2> DEFINE all == S!Tiered(active, info, S!Counted(active))
  <2>1. all = Sched!Tiered(active, info, Sched!Counted(active))
    BY <1>5, <1>7
  <2> HIDE DEF all
  <2>2. {k \in DOMAIN all : S!Due(turn, all[k])} = {k \in DOMAIN all : Sched!Due(turn, all[k])}
    BY <1>8
  <2> DEFINE dues == {k \in DOMAIN all : S!Due(turn, all[k])}
  <2>3. /\ S!Roster(turn, active, info) = S!ByTier(S!Capped(S!Picked(all, dues)))
    BY Zenon DEF S!Roster, all
  <2>4. Sched!Roster(turn, active, info) = Sched!ByTier(Sched!Capped(Sched!Picked(all, dues)))
    BY <2>1, <2>2, Zenon DEF Sched!Roster
  <2> HIDE DEF dues
  <2>5. QED
    BY <1>1, <1>3, <1>6, <2>3, <2>4
<1>10. QED
  BY <1>4, <1>5, <1>9

LEMMA SchedulerNames ==
  /\ Sched!SchedulerAssumption
  /\ S!Init => Sched!Init
  /\ S!Next => Sched!Next
  /\ schedVars = Sched!schedVars
  /\ Sched!TypeOK => S!TypeOK
  /\ Sched!DispatchPartitions => S!DispatchPartitions
  /\ Sched!CadenceHonoured => S!CadenceHonoured
<1>1. S!SchedulerAssumption = Sched!SchedulerAssumption
  BY DEF S!SchedulerAssumption, Sched!SchedulerAssumption, S!IsInjective, Sched!IsInjective,
       S!Tiers, Sched!Tiers, S!Info, Sched!Info
<1>2. S!Init = Sched!Init
  BY DEF S!Init, Sched!Init
<1>3. S!Next => Sched!Next
  <2>1. ASSUME NEW active \in Scenes, NEW info, S!Turn(active, info) PROVE Sched!Turn(active, info)
    BY <2>1, PlansNames
    DEF S!Turn, Sched!Turn, S!Range, Sched!Range,
        S!Ids, Sched!Ids, S!ComputeTier, Sched!ComputeTier,
        S!Floored, Sched!Floored, S!CollaborationFloor, Sched!CollaborationFloor
  <2>2. ASSUME NEW a \in Party, S!RecordAction(a) PROVE Sched!RecordAction(a)
    BY <2>2 DEF S!RecordAction, Sched!RecordAction, S!Ids, Sched!Ids
  <2>3. QED
    BY <2>1, <2>2, Zenon DEF S!Next, Sched!Next, S!Range, Sched!Range
<1>4. schedVars = Sched!schedVars
  BY DEF schedVars, Sched!schedVars
<1>5. Sched!TypeOK => S!TypeOK
  BY DEF S!TypeOK, Sched!TypeOK, S!Scheduled, Sched!Scheduled, S!Tiers, Sched!Tiers
<1>6. Sched!DispatchPartitions => S!DispatchPartitions
  BY DEF S!DispatchPartitions, Sched!DispatchPartitions, S!FlattenSeq, Sched!FlattenSeq,
       S!Cardinality, Sched!Cardinality
<1>7. Sched!CadenceHonoured => S!CadenceHonoured
  BY DEF S!CadenceHonoured, Sched!CadenceHonoured
<1>8. QED
  BY <1>1, <1>2, <1>3, <1>4, <1>5, <1>6, <1>7, PartsAssumption

LEMMA SchedulerAlways == PartsSpec => []Sched!SchedulerInv
<1>1. PartsInit => Sched!SchedulerInv
  BY SchedulerNames, Sched!SchedulerInit DEF PartsInit
<1>2. ASSUME Sched!SchedulerInv, [PartsNext]_vars PROVE Sched!SchedulerInv'
  <2>1. CASE SchedulerStep
    <3>1. Sched!Next
      BY <2>1, SchedulerNames DEF SchedulerStep
    <3>2. QED
      BY <1>2, <3>1, SchedulerNames, Sched!SchedulerStep
  <2>2. CASE UNCHANGED schedVars
    <3>1. UNCHANGED Sched!schedVars
      BY <2>2 DEF schedVars, Sched!schedVars
    <3>2. QED
      BY <1>2, <3>1, Sched!SchedulerStutters
  <2>3. QED
    BY <1>2, <2>1, <2>2 DEF PartsNext, vars, FactsStep, GoalsStep, MemoriesStep,
       NightsStep, TiersStep
<1>3. QED
  BY <1>1, <1>2, PTL DEF PartsSpec

LEMMA SchedulerIsSound ==
  ASSUME Sched!SchedulerInv
  PROVE  S!TypeOK /\ S!DispatchPartitions /\ S!CadenceHonoured
BY SchedulerNames, Sched!SchedulerImplies

(* Nobody in a scene within the cap waits for as long as the cadence of     *)
(* the farthest tier it had, whatever it does and however it moves         *)
(* (schedule).                                                             *)
THEOREM CadenceIsHonoured == PartsSpec => []CadenceHonoured
<1>1. Sched!SchedulerInv => CadenceHonoured
  BY SchedulerIsSound DEF CadenceHonoured
<1>2. QED
  BY <1>1, SchedulerAlways, PTL

-----------------------------------------------------------------------------
(* One agent's goals. *)

(* In a finite set that is not empty some element has the greatest value.  *)
LEMMA GreatestValue ==
  ASSUME NEW T, IsFiniteSet(T), T # {}, NEW f, \A x \in T : f[x] \in Nat
  PROVE  \E x \in T : \A y \in T : f[y] <= f[x]
<1>1. Sched!IsFiniteSet(T)
  BY Zenon DEF IsFiniteSet, Sched!IsFiniteSet
<1>2. QED
  BY <1>1, Sched!GreatestValue

(* Cardinality, as the instance of GoalLifecycle names it. *)
LEMMA GoalsCounted == ASSUME NEW T PROVE G!Cardinality(T) = Cardinality(T)
  BY DEF G!Cardinality, Cardinality

LEMMA LifecycleConstants ==
  /\ NumGoals \in Nat
  /\ \A a \in Levels \union {0} : a \in Nat
  /\ CandidateAt \in Nat \ {0} /\ CommitAt \in Nat /\ CandidateAt < CommitAt
  /\ CommitTicks \in Nat \ {0} /\ Margin \in Nat \ {0}
  BY PartsAssumption DEF G!LifecycleAssumption

(* The alternatives of a parent are goals, finitely many, and a goal is an  *)
(* alternative of one parent only.                                         *)
LEMMA GroupsApart ==
  /\ G!Goals \subseteq Nat /\ IsFiniteSet(G!Goals)
  /\ \A T \in G!Groups : T \subseteq G!Goals /\ T # {} /\ IsFiniteSet(T)
  /\ \A T, U \in G!Groups : \A g \in T : g \in U => T = U
<1>1. G!Goals \subseteq Nat /\ IsFiniteSet(G!Goals)
  BY LifecycleConstants, FS_Interval DEF G!Goals
<1>2. \A g \in G!Goals : G!Siblings(g) \subseteq G!Goals
  BY DEF G!Siblings
<1>3. ASSUME NEW T \in G!Groups PROVE T \subseteq G!Goals /\ T # {} /\ IsFiniteSet(T)
  <2>1. T \subseteq G!Goals
    BY <1>2 DEF G!Groups
  <2>2. T # {}
    BY FS_EmptySet, GoalsCounted DEF G!Groups
  <2>3. QED
    BY <1>1, <2>1, <2>2, FS_Subset
<1>4. ASSUME NEW T \in G!Groups, NEW g \in T PROVE T = G!Siblings(g)
  BY <1>4 DEF G!Groups, G!Siblings
<1>5. QED
  BY <1>1, <1>3, <1>4

LEMMA FirstIsOneOf ==
  ASSUME NEW T \in SUBSET G!Goals, T # {}
  PROVE  G!First(T) \in T
<1>1. \E x \in T : \A y \in T : x <= y
  BY GroupsApart, LeastNumber
<1>2. QED
  BY <1>1 DEF G!First

(* The leader of a group is one of it, leads already unless nobody does or  *)
(* it is the strongest, and nobody beats it by the margin.                 *)
LEMMA LeaderIsStrong ==
  ASSUME NEW r \in [G!Goals -> G!Runtime], NEW T \in G!Groups
  PROVE  /\ G!Leader(r, T) \in T
         /\ \A h \in T : r[h].act < r[G!Leader(r, T)].act + Margin
         /\ \/ r[G!Leader(r, T)].state \in G!Leading
            \/ \A h \in T : r[h].act <= r[G!Leader(r, T)].act
<1> DEFINE strong == {g \in T : \A h \in T : r[g].act >= r[h].act}
           challenger == G!Strongest(r, T)
           leading == G!Incumbents(r, T)
           incumbent == G!First(leading)
<1>1. T \subseteq G!Goals /\ T # {} /\ IsFiniteSet(T)
  BY GroupsApart
<1>2. \A g \in G!Goals : r[g].act \in Nat
  <2> SUFFICES ASSUME NEW g \in G!Goals PROVE r[g].act \in Nat
    OBVIOUS
  <2>1. r[g] \in G!Runtime
    OBVIOUS
  <2>2. r[g].act \in Levels \union {0}
    BY <2>1 DEF G!Runtime
  <2>3. QED
    BY <2>2, LifecycleConstants
<1>3. strong # {}
  <2> DEFINE f == [g \in T |-> r[g].act]
  <2>1. \A g \in T : f[g] \in Nat
    BY <1>1, <1>2
  <2>2. \E x \in T : \A y \in T : f[y] <= f[x]
    <3> HIDE DEF f
    <3> QED BY <1>1, <2>1, GreatestValue
  <2>3. PICK x \in T : \A y \in T : r[y].act <= r[x].act
    BY <2>2
  <2>4. QED
    BY <1>1, <1>2, <2>3
<1>4. challenger \in strong
  <2>1. strong \subseteq G!Goals
    BY <1>1
  <2>2. challenger = G!First(strong)
    BY DEF G!Strongest
  <2>3. QED
    <3> HIDE DEF strong, challenger
    <3> QED BY <1>3, <2>1, <2>2, FirstIsOneOf
<1>5. /\ challenger \in T /\ \A h \in T : r[h].act <= r[challenger].act
  BY <1>1, <1>2, <1>4
<1>6. ASSUME leading # {} PROVE incumbent \in T /\ r[incumbent].state \in G!Leading
  <2>1. leading \subseteq G!Goals
    BY <1>1 DEF G!Incumbents
  <2>2. incumbent \in leading
    BY <1>6, <2>1, FirstIsOneOf
  <2>3. QED
    BY <2>2 DEF G!Incumbents
<1>7. G!Leader(r, T) = IF leading = {} THEN challenger
                       ELSE IF r[challenger].act >= r[incumbent].act + Margin
                         THEN challenger ELSE incumbent
  BY DEF G!Leader
<1> HIDE DEF challenger, leading, incumbent
<1>8. CASE G!Leader(r, T) = challenger
  BY <1>1, <1>2, <1>5, <1>8, LifecycleConstants
<1>9. CASE G!Leader(r, T) = incumbent /\ leading # {}
              /\ ~ (r[challenger].act >= r[incumbent].act + Margin)
  <2>1. \A h \in T : r[h].act < r[incumbent].act + Margin
    BY <1>1, <1>2, <1>5, <1>6, <1>9, LifecycleConstants
  <2>2. QED
    BY <1>6, <1>9, <2>1
<1>10. QED
  BY <1>7, <1>8, <1>9

(* What update_lifecycle keeps. *)
GoalsInv == /\ G!TypeOK
            /\ G!OneLeader /\ G!CommitNeedsPersistence /\ G!NothingLatched
            /\ G!SomeoneLeads /\ G!NoMuchStrongerLoser

LEMMA GoalsInit == G!Init => GoalsInv
<1> SUFFICES ASSUME G!Init PROVE GoalsInv
  OBVIOUS
<1>1. \A g \in G!Goals : /\ rt[g].state = "primed" /\ rt[g].lead = 0
                          /\ rt[g].act = 0 /\ streak[g] = 0
  BY DEF G!Init, G!Created
<1>2. G!TypeOK
  <2>1. G!Created \in G!Runtime
    BY LifecycleConstants DEF G!Created, G!Runtime, G!States, G!Leading
  <2>2. QED
    BY <2>1, LifecycleConstants DEF G!Init, G!TypeOK
<1>3. ASSUME NEW T \in G!Groups PROVE G!Incumbents(rt, T) = {}
  <2>1. \A g \in T : rt[g].state \notin G!Leading
    BY <1>1, GroupsApart DEF G!Leading
  <2>2. QED
    BY <2>1 DEF G!Incumbents
<1>4. G!OneLeader
  <2> SUFFICES ASSUME NEW T \in G!Groups PROVE G!Cardinality(G!Incumbents(rt, T)) <= 1
    BY DEF G!OneLeader
  <2>1. Cardinality(G!Incumbents(rt, T)) = 0
    BY <1>3, FS_EmptySet
  <2>2. QED
    BY <2>1, GoalsCounted
<1>5. G!CommitNeedsPersistence /\ G!NothingLatched
  BY <1>1, LifecycleConstants DEF G!CommitNeedsPersistence, G!NothingLatched, G!Init
<1>6. G!SomeoneLeads
  <2>1. ASSUME NEW T \in G!Groups, NEW g \in T PROVE ~ (rt[g].act >= CandidateAt)
    <3>1. rt[g].act = 0
      BY <1>1, GroupsApart
    <3>2. QED
      BY <3>1, LifecycleConstants
  <2>2. QED
    BY <2>1 DEF G!SomeoneLeads
<1>7. G!NoMuchStrongerLoser
  BY <1>3 DEF G!NoMuchStrongerLoser
<1>8. QED
  BY <1>2, <1>4, <1>5, <1>6, <1>7 DEF GoalsInv

(* One goal's transition, where its predicate holds and where not. *)
LEMMA SatisfiedIs ==
  ASSUME NEW a \in Levels
  PROVE  /\ G!Satisfied(a) \in G!Runtime /\ G!Satisfied(a).act = a
         /\ G!Satisfied(a).state = "satisfied" /\ G!Satisfied(a).lead = 0
  BY LifecycleConstants DEF G!Satisfied, G!Runtime, G!States, G!Leading

LEMMA RampedIs ==
  ASSUME NEW old \in G!Runtime, NEW a \in Levels
  PROVE  /\ G!Ramped(old, a) \in G!Runtime /\ G!Ramped(old, a).act = a
         /\ G!Ramped(old, a).state # "satisfied"
         /\ G!Ramped(old, a).state = "committed" <=> G!Ramped(old, a).lead = CommitTicks
         /\ G!Ramped(old, a).state \in G!Leading <=> a >= CandidateAt
         /\ G!Ramped(old, a).lead = IF a >= CommitAt THEN G!OneMore(old.lead) ELSE 0
<1> DEFINE lead == IF a >= CommitAt THEN G!OneMore(old.lead) ELSE 0
<1>1. a \in Nat /\ old.lead \in 0..CommitTicks
  BY LifecycleConstants DEF G!Runtime
<1>2. G!OneMore(old.lead) \in 1..CommitTicks
  BY <1>1, LifecycleConstants DEF G!OneMore
<1>3. lead \in 0..CommitTicks /\ (lead = CommitTicks => a >= CommitAt)
  BY <1>2, LifecycleConstants
<1>4. G!Ramped(old, a) =
        [state |-> IF lead = CommitTicks THEN "committed"
                   ELSE IF a >= CandidateAt THEN "candidate" ELSE "primed",
         lead |-> lead, commitment |-> lead, act |-> a]
  BY DEF G!Ramped
<1>5. lead = IF a >= CommitAt THEN G!OneMore(old.lead) ELSE 0
  OBVIOUS
<1> HIDE DEF lead
<1>6. QED
  BY <1>1, <1>3, <1>4, <1>5, LifecycleConstants DEF G!Runtime, G!States, G!Leading

(* The runtimes after the transitions and before the siblings inhibit each  *)
(* other.                                                                  *)
Moved(acts, satisfied) == [g \in G!Goals |-> G!Transition(rt[g], acts[g], g \in satisfied)]

LEMMA UpdateKeepsGoals ==
  ASSUME GoalsInv, NEW acts \in [G!Goals -> Levels], NEW fulfilled \in SUBSET G!Goals,
         G!Update(acts, fulfilled)
  PROVE  GoalsInv'
<1> DEFINE r == Moved(acts, fulfilled)
           loses(g) == /\ r[g].state \in G!Leading
                       /\ \E T \in G!Groups : g \in T /\ g # G!Leader(r, T)
<1>1. \A g \in G!Goals : /\ rt[g] \in G!Runtime /\ acts[g] \in Levels /\ acts[g] \in Nat
                        /\ streak[g] \in 0..CommitTicks
  BY LifecycleConstants DEF GoalsInv, G!TypeOK
<1>2. ASSUME NEW g \in G!Goals
      PROVE  /\ r[g] \in G!Runtime /\ r[g].act = acts[g]
             /\ r[g].state = "satisfied" <=> g \in fulfilled
             /\ r[g].state = "committed" <=> r[g].lead = CommitTicks
             /\ g \notin fulfilled => (r[g].state \in G!Leading <=> acts[g] >= CandidateAt)
             /\ r[g].lead = IF g \notin fulfilled /\ acts[g] >= CommitAt
                              THEN G!OneMore(rt[g].lead) ELSE 0
  <2>1. r[g] = G!Transition(rt[g], acts[g], g \in fulfilled)
    BY DEF Moved
  <2> HIDE DEF r
  <2>2. rt[g] \in G!Runtime /\ acts[g] \in Levels
    BY <1>1
  <2>3. CASE g \in fulfilled
    <3>1. r[g] = G!Satisfied(acts[g])
      BY <2>1, <2>3 DEF G!Transition
    <3>2. QED
      BY <2>2, <2>3, <3>1, SatisfiedIs, LifecycleConstants
  <2>4. CASE g \notin fulfilled
    <3>1. r[g] = G!Ramped(rt[g], acts[g])
      BY <2>1, <2>4 DEF G!Transition
    <3>2. QED
      BY <2>2, <2>4, <3>1, RampedIs
  <2>5. QED
    BY <2>3, <2>4
<1>3. r \in [G!Goals -> G!Runtime]
  <2>1. r = [g \in G!Goals |-> r[g]]
    BY DEF Moved
  <2> HIDE DEF r
  <2>2. QED
    BY <1>2, <2>1
<1>4. /\ rt' = G!Inhibited(r) /\ holds' = fulfilled
      /\ streak' = [g \in G!Goals |-> IF g \notin fulfilled /\ acts[g] >= CommitAt
                                        THEN G!OneMore(streak[g]) ELSE 0]
  BY DEF G!Update, Moved
<1> HIDE DEF r
<1>5. ASSUME NEW g \in G!Goals
      PROVE  rt'[g] = IF loses(g)
                        THEN [r[g] EXCEPT !.state = "primed", !.lead = 0, !.commitment = 0]
                        ELSE r[g]
  BY <1>4 DEF G!Inhibited
<1> HIDE DEF loses
<1>6. ASSUME NEW g \in G!Goals
      PROVE  /\ rt'[g] \in G!Runtime /\ rt'[g].act = acts[g]
             /\ loses(g) => rt'[g].state = "primed" /\ rt'[g].lead = 0
             /\ ~loses(g) => rt'[g].state = r[g].state /\ rt'[g].lead = r[g].lead
  <2>1. CASE loses(g)
    <3>1. rt'[g] = [r[g] EXCEPT !.state = "primed", !.lead = 0, !.commitment = 0]
      BY <1>5, <2>1
    <3>2. r[g] \in G!Runtime /\ r[g].act = acts[g]
      BY <1>2
    <3>3. /\ r[g].lead \in 0..CommitTicks /\ r[g].act \in Levels \union {0}
          /\ 0 \in 0..CommitTicks
          /\ r[g] = [state |-> r[g].state, lead |-> r[g].lead,
                     commitment |-> r[g].commitment, act |-> r[g].act]
      BY <3>2, LifecycleConstants DEF G!Runtime
    <3>4. rt'[g] = [state |-> "primed", lead |-> 0, commitment |-> 0, act |-> acts[g]]
      BY <3>1, <3>2, <3>3
    <3>5. QED
      BY <2>1, <3>2, <3>3, <3>4 DEF G!Runtime, G!States
  <2>2. CASE ~loses(g)
    BY <1>2, <1>5, <2>2
  <2>3. QED
    BY <2>1, <2>2
<1>7. \A n \in 0..CommitTicks : G!OneMore(n) \in 0..CommitTicks /\ n <= G!OneMore(n)
  BY LifecycleConstants DEF G!OneMore
<1>8. G!TypeOK'
  <2>1. rt' \in [G!Goals -> G!Runtime]
    <3>1. rt' = [g \in G!Goals |-> rt'[g]]
      BY <1>4 DEF G!Inhibited
    <3>2. QED
      BY <1>6, <3>1
  <2>2. streak' \in [G!Goals -> 0..CommitTicks]
    BY <1>1, <1>4, <1>7, LifecycleConstants
  <2>3. QED
    BY <1>4, <2>1, <2>2 DEF G!TypeOK
<1>9. (G!CommitNeedsPersistence /\ G!NothingLatched)'
  <2> SUFFICES ASSUME NEW g \in G!Goals
               PROVE  /\ rt'[g].state = "committed" => streak'[g] = CommitTicks
                      /\ rt'[g].lead <= streak'[g]
                      /\ rt'[g].state = "satisfied" <=> g \in holds'
                      /\ rt'[g].state = "committed" <=> rt'[g].lead = CommitTicks
    BY DEF G!CommitNeedsPersistence, G!NothingLatched
  <2>1. rt[g].lead \in 0..CommitTicks /\ streak[g] \in 0..CommitTicks
        /\ rt[g].lead <= streak[g]
    BY <1>1 DEF GoalsInv, G!CommitNeedsPersistence, G!Runtime
  <2>2. G!OneMore(rt[g].lead) <= G!OneMore(streak[g])
        /\ G!OneMore(streak[g]) <= CommitTicks
    BY <2>1, LifecycleConstants DEF G!OneMore
  <2>3. r[g].lead <= streak'[g] /\ streak'[g] \in 0..CommitTicks
        /\ r[g].lead \in 0..CommitTicks
    <3>1. streak'[g] = IF g \notin fulfilled /\ acts[g] >= CommitAt
                         THEN G!OneMore(streak[g]) ELSE 0
      BY <1>4
    <3>2. r[g].lead = IF g \notin fulfilled /\ acts[g] >= CommitAt
                         THEN G!OneMore(rt[g].lead) ELSE 0
      BY <1>2
    <3>3. QED
      BY <1>7, <2>1, <2>2, <3>1, <3>2, LifecycleConstants
  <2>4. CASE loses(g)
    <3>1. rt'[g].state = "primed" /\ rt'[g].lead = 0
      BY <1>6, <2>4
    <3>2. g \notin fulfilled
      <4>1. r[g].state # "satisfied"
        BY <2>4 DEF loses, G!Leading
      <4>2. QED
        BY <1>2, <4>1
    <3>3. QED
      BY <1>4, <2>3, <3>1, <3>2, LifecycleConstants
  <2>5. CASE ~loses(g)
    <3>1. rt'[g].state = r[g].state /\ rt'[g].lead = r[g].lead
      BY <1>6, <2>5
    <3>2. /\ r[g].state = "satisfied" <=> g \in fulfilled
          /\ r[g].state = "committed" <=> r[g].lead = CommitTicks
      BY <1>2
    <3>3. QED
      BY <1>4, <2>3, <3>1, <3>2, LifecycleConstants
  <2>6. QED
    BY <2>4, <2>5
(* Whoever leads after the update is the leader that was selected. *)
<1>10. ASSUME NEW T \in G!Groups
       PROVE  G!Incumbents(rt, T)' = {g \in {G!Leader(r, T)} : r[g].state \in G!Leading}
  <2>1. T \subseteq G!Goals /\ G!Leader(r, T) \in T
    BY <1>3, GroupsApart, LeaderIsStrong
  <2>2. ASSUME NEW g \in T, g # G!Leader(r, T) PROVE rt'[g].state \notin G!Leading
    <3>1. CASE loses(g)
      BY <1>6, <2>1, <3>1 DEF G!Leading
    <3>2. CASE ~loses(g)
      <4>1. r[g].state \notin G!Leading
        BY <2>2, <3>2 DEF loses
      <4>2. QED
        BY <1>6, <2>1, <3>2, <4>1
    <3>3. QED
      BY <3>1, <3>2
  <2>3. ~loses(G!Leader(r, T))
    BY <2>1, GroupsApart DEF loses
  <2>4. rt'[G!Leader(r, T)].state = r[G!Leader(r, T)].state
    BY <1>6, <2>1, <2>3
  <2>5. QED
    BY <2>1, <2>2, <2>4 DEF G!Incumbents
<1>11. G!OneLeader'
  <2> SUFFICES ASSUME NEW T \in G!Groups
               PROVE  G!Cardinality(G!Incumbents(rt, T)') <= 1
    BY DEF G!OneLeader
  <2>1. G!Incumbents(rt, T)' \in SUBSET {G!Leader(r, T)}
    BY <1>10
  <2>2. Cardinality(G!Incumbents(rt, T)') <= Cardinality({G!Leader(r, T)})
    BY <2>1, FS_Singleton, FS_Subset
  <2>3. Cardinality({G!Leader(r, T)}) = 1
    BY FS_Singleton
  <2>4. QED
    BY <2>2, <2>3, GoalsCounted
<1>12. G!NoMuchStrongerLoser'
  <2> SUFFICES ASSUME NEW T \in G!Groups, NEW g \in G!Incumbents(rt, T)', NEW h \in T
               PROVE  rt'[h].act < rt'[g].act + Margin
    BY DEF G!NoMuchStrongerLoser
  <2>1. g = G!Leader(r, T)
    BY <1>10
  <2>2. g \in T /\ r[h].act < r[g].act + Margin
    BY <1>3, <2>1, LeaderIsStrong
  <2>3. g \in G!Goals /\ h \in G!Goals
    BY <2>2, GroupsApart
  <2>4. rt'[h].act = r[h].act /\ rt'[g].act = r[g].act
    BY <1>2, <1>6, <2>3
  <2>5. QED
    BY <2>2, <2>4
<1>13. G!SomeoneLeads'
  <2> SUFFICES ASSUME NEW T \in G!Groups, NEW g \in T, g \notin holds',
                      rt'[g].act >= CandidateAt
               PROVE  \/ G!Incumbents(rt, T)' # {}
                      \/ \E s \in T \intersect holds' : \A h \in T : rt'[s].act >= rt'[h].act
    BY DEF G!SomeoneLeads
  <2> DEFINE leader == G!Leader(r, T)
  <2>1. /\ leader \in T /\ T \subseteq G!Goals
        /\ \/ r[leader].state \in G!Leading
           \/ \A h \in T : r[h].act <= r[leader].act
    BY <1>3, GroupsApart, LeaderIsStrong
  <2>2. \A h \in T : rt'[h].act = acts[h] /\ r[h].act = acts[h] /\ acts[h] \in Nat
    BY <1>1, <1>2, <1>6, <2>1
  <2> HIDE DEF leader
  <2>3. CASE r[leader].state \in G!Leading
    BY <1>10, <2>3 DEF leader
  <2>4. CASE r[leader].state \notin G!Leading
    <3>1. \A h \in T : acts[h] <= acts[leader]
      BY <2>1, <2>2, <2>4
    <3>2. acts[leader] >= CandidateAt
      BY <2>1, <2>2, <3>1, LifecycleConstants
    <3>3. leader \in fulfilled
      BY <1>2, <2>1, <2>4, <3>2
    <3>4. QED
      BY <1>4, <2>1, <2>2, <3>1, <3>3
  <2>5. QED
    BY <2>3, <2>4
<1>14. QED
  BY <1>8, <1>9, <1>11, <1>12, <1>13 DEF GoalsInv

LEMMA GoalsAlways == PartsSpec => []GoalsInv
<1>1. PartsInit => GoalsInv
  BY GoalsInit DEF PartsInit
<1>2. ASSUME GoalsInv, [PartsNext]_vars PROVE GoalsInv'
  <2>1. CASE GoalsStep
    <3>1. PICK acts \in [G!Goals -> Levels], fulfilled \in SUBSET G!Goals :
            G!Update(acts, fulfilled)
      BY <2>1 DEF GoalsStep, G!Next
    <3>2. QED
      BY <1>2, <3>1, UpdateKeepsGoals
  <2>2. CASE UNCHANGED goalVars
    BY <1>2, <2>2 DEF goalVars, GoalsInv, G!TypeOK, G!OneLeader,
       G!CommitNeedsPersistence, G!NothingLatched, G!SomeoneLeads,
       G!NoMuchStrongerLoser, G!Incumbents
  <2>3. QED
    BY <1>2, <2>1, <2>2 DEF PartsNext, vars, FactsStep, SchedulerStep,
       MemoriesStep, NightsStep, TiersStep
<1>3. QED
  BY <1>1, <1>2, PTL DEF PartsSpec

(* The commitment ramp and the inhibition of siblings hold what they       *)
(* promise, for any goals, parents, activations and thresholds             *)
(* (update_lifecycle, _select_leader).                                     *)
THEOREM GoalsStayCommitted == PartsSpec => []GoalInvariant
<1>1. GoalsInv => GoalInvariant
  BY DEF GoalsInv, GoalInvariant
<1>2. QED
  BY <1>1, GoalsAlways, PTL

-----------------------------------------------------------------------------
(* The memories of an agent and their recall. *)

(* What is in a list, and whether each of it once. *)
LEMMA ElementsAre == ASSUME NEW X, NEW s \in Seq(X) PROVE R!ToSet(s) \subseteq X
  BY DEF R!ToSet

LEMMA AppendedIs ==
  ASSUME NEW X, NEW s \in Seq(X), NEW x \in X
  PROVE  /\ Append(s, x) \in Seq(X)
         /\ R!ToSet(Append(s, x)) = R!ToSet(s) \union {x}
         /\ R!IsInjective(s) /\ x \notin R!ToSet(s) => R!IsInjective(Append(s, x))
<1> DEFINE t == Append(s, x)
<1>1. /\ t \in Seq(X) /\ Len(s) \in Nat /\ DOMAIN s = 1..Len(s)
      /\ DOMAIN t = 1..(Len(s) + 1) /\ t[Len(s) + 1] = x
      /\ \A i \in 1..Len(s) : t[i] = s[i]
  BY AppendProperties
<1>2. /\ \A i \in DOMAIN t : i = Len(s) + 1 \/ i \in DOMAIN s
      /\ \A i \in DOMAIN s : i \in DOMAIN t /\ t[i] = s[i]
      /\ Len(s) + 1 \in DOMAIN t
  BY <1>1
<1> HIDE DEF t
<1>3. R!ToSet(t) = R!ToSet(s) \union {x}
  BY <1>1, <1>2 DEF R!ToSet
<1>4. ASSUME R!IsInjective(s), x \notin R!ToSet(s) PROVE R!IsInjective(t)
  BY <1>1, <1>2, <1>4 DEF R!ToSet, R!IsInjective
<1>5. QED
  BY <1>1, <1>3, <1>4 DEF t

LEMMA JoinedIs ==
  ASSUME NEW X, NEW s \in Seq(X), NEW t \in Seq(X)
  PROVE  /\ s \o t \in Seq(X)
         /\ R!ToSet(s \o t) = R!ToSet(s) \union R!ToSet(t)
         /\ R!IsInjective(s) /\ R!IsInjective(t) /\ R!ToSet(s) \intersect R!ToSet(t) = {}
              => R!IsInjective(s \o t)
<1> DEFINE c == s \o t
           m == Len(s)
           n == Len(t)
<1>1. /\ c \in Seq(X) /\ m \in Nat /\ n \in Nat /\ DOMAIN s = 1..m /\ DOMAIN t = 1..n
      /\ DOMAIN c = 1..(m + n)
      /\ \A i \in 1..(m + n) : c[i] = IF i <= m THEN s[i] ELSE t[i - m]
  BY ConcatProperties
<1> HIDE DEF c, m, n
<1>2. ASSUME NEW i \in DOMAIN c
      PROVE  \/ i \in DOMAIN s /\ c[i] = s[i]
             \/ i - m \in DOMAIN t /\ c[i] = t[i - m] /\ i = (i - m) + m
  <2>1. CASE i <= m
    BY <1>1, <2>1
  <2>2. CASE ~(i <= m)
    BY <1>1, <2>2
  <2>3. QED
    BY <2>1, <2>2
<1>3. \A i \in DOMAIN s : i \in DOMAIN c /\ c[i] = s[i]
  BY <1>1
<1>4. \A i \in DOMAIN t : i + m \in DOMAIN c /\ c[i + m] = t[i]
  <2> SUFFICES ASSUME NEW i \in DOMAIN t PROVE i + m \in DOMAIN c /\ c[i + m] = t[i]
    OBVIOUS
  <2>1. i + m \in 1..(m + n) /\ ~(i + m <= m) /\ (i + m) - m = i
    BY <1>1
  <2>2. QED
    BY <1>1, <2>1
<1>5. R!ToSet(c) = R!ToSet(s) \union R!ToSet(t)
  BY <1>2, <1>3, <1>4 DEF R!ToSet
<1>6. ASSUME R!IsInjective(s), R!IsInjective(t), R!ToSet(s) \intersect R!ToSet(t) = {}
      PROVE  R!IsInjective(c)
  <2>1. /\ \A i, j \in DOMAIN s : s[i] = s[j] => i = j
        /\ \A i, j \in DOMAIN t : t[i] = t[j] => i = j
        /\ \A i \in DOMAIN s : \A j \in DOMAIN t : s[i] # t[j]
    BY <1>6 DEF R!ToSet, R!IsInjective
  <2>2. \A i, j \in DOMAIN c : c[i] = c[j] => i = j
    BY <1>2, <2>1
  <2>3. QED
    BY <2>2 DEF R!IsInjective
<1>7. QED
  BY <1>1, <1>5, <1>6 DEF c

(* A page of points in the order in which Qdrant gives them. *)
LEMMA PageIs ==
  ASSUME NEW T, IsFiniteSet(T)
  PROVE  /\ R!SetToSeq(T) \in Seq(T) /\ R!IsInjective(R!SetToSeq(T))
         /\ R!ToSet(R!SetToSeq(T)) \subseteq T
<1> DEFINE n == Cardinality(T)
<1>1. n \in Nat /\ ExistsBijection(1..n, T)
  BY FS_CardinalityType
<1>2. R!Cardinality(T) = n
  BY DEF R!Cardinality, Cardinality, R!IsFiniteSet, IsFiniteSet
<1>3. \E f \in [1..n -> T] : R!IsInjective(f)
  BY <1>1 DEF ExistsBijection, Bijection, Injection, IsInjective, R!IsInjective
<1>4. R!SetToSeq(T) = CHOOSE f \in [1..n -> T] : R!IsInjective(f)
  BY <1>2 DEF R!SetToSeq
<1>5. R!SetToSeq(T) \in [1..n -> T] /\ R!IsInjective(R!SetToSeq(T))
  <2> HIDE DEF n
  <2> QED BY <1>3, <1>4
<1>6. R!SetToSeq(T) \in Seq(T)
  BY <1>1, <1>5
<1>7. R!ToSet(R!SetToSeq(T)) \subseteq T
  <2> HIDE DEF n
  <2> QED BY <1>5 DEF R!ToSet
<1>8. QED
  BY <1>5, <1>6, <1>7

(* What is worth different numbers can be put in order. *)
LEMMA OrderExists ==
  ASSUME NEW n \in Nat, NEW m \in Nat, NEW t \in [1..n -> 1..m],
         \A i, j \in 1..n : t[i] = t[j] => i = j
  PROVE  \E p \in [1..n -> 1..n] :
           /\ \A i, j \in 1..n : p[i] = p[j] => i = j
           /\ \A k \in 1..n : \E i \in 1..n : p[i] = k
           /\ \A i, j \in 1..n : i < j => t[p[i]] < t[p[j]]
<1> DEFINE K == {t[i] : i \in 1..n}
           at(i) == Sched!Nth(K, i)
           pos(i) == CHOOSE x \in 1..n : t[x] = at(i)
           p == [i \in 1..n |-> pos(i)]
<1>1. K \in SUBSET (1..m)
  OBVIOUS
<1>2. Sched!Cardinality(K) = n
  <2>1. t \in Bijection(1..n, K)
    BY DEF Bijection, Injection, Surjection, IsInjective
  <2>2. IsFiniteSet(1..n) /\ Cardinality(1..n) = n
    BY FS_Interval
  <2> HIDE DEF K
  <2>3. Cardinality(K) = n
    BY <2>1, <2>2, FS_Bijection DEF ExistsBijection
  <2>4. QED
    BY <2>3 DEF Sched!Cardinality, Cardinality
<1>3. /\ \A i \in 1..n : at(i) \in K
      /\ \A k \in K : \E i \in 1..n : at(i) = k
      /\ \A i, j \in 1..n : i < j => at(i) < at(j)
  <2> HIDE DEF K
  <2> QED BY <1>1, <1>2, Sched!RanksAreTaken
<1> HIDE DEF at
<1>4. ASSUME NEW i \in 1..n PROVE pos(i) \in 1..n /\ t[pos(i)] = at(i)
  <2>1. PICK x \in 1..n : t[x] = at(i)
    BY <1>3
  <2>2. QED
    BY <2>1
<1> HIDE DEF pos
<1>5. /\ p \in [1..n -> 1..n] /\ \A i \in 1..n : p[i] \in 1..n /\ t[p[i]] = at(i)
      /\ \A i \in 1..n : t[p[i]] \in 1..m
  <2>1. \A i \in 1..n : p[i] = pos(i)
    OBVIOUS
  <2>2. p \in [1..n -> 1..n]
    BY <1>4
  <2> HIDE DEF p
  <2>3. \A i \in 1..n : p[i] \in 1..n /\ t[p[i]] = at(i)
    BY <1>4, <2>1
  <2>4. \A i \in 1..n : t[p[i]] \in 1..m
    BY <2>3
  <2>5. QED
    BY <2>2, <2>3, <2>4
<1> HIDE DEF p
<1>6. \A i, j \in 1..n : i < j => t[p[i]] < t[p[j]]
  <2> HIDE DEF K
  <2>1. \A i \in 1..n : t[p[i]] = at(i)
    BY <1>5
  <2>2. \A i, j \in 1..n : i < j => at(i) < at(j)
    BY <1>3
  <2>3. QED
    BY <2>1, <2>2
<1>7. \A i, j \in 1..n : p[i] = p[j] => i = j
  <2> SUFFICES ASSUME NEW i \in 1..n, NEW j \in 1..n, p[i] = p[j], i # j PROVE FALSE
    OBVIOUS
  <2>1. i < j \/ j < i
    OBVIOUS
  <2>2. t[p[i]] \in 1..m /\ t[p[j]] = t[p[i]]
    BY <1>5
  <2>3. ~ (t[p[i]] < t[p[i]])
    BY <2>2
  <2>4. i < j => t[p[i]] < t[p[j]]
    BY <1>6, Zenon
  <2>5. j < i => t[p[j]] < t[p[i]]
    BY <1>6, Zenon
  <2>6. QED
    BY <2>1, <2>2, <2>3, <2>4, <2>5, Zenon
<1>8. ASSUME NEW k \in 1..n PROVE \E i \in 1..n : p[i] = k
  <2>1. t[k] \in K
    OBVIOUS
  <2>2. PICK i \in 1..n : at(i) = t[k]
    BY <1>3, <2>1
  <2>3. t[p[i]] = t[k] /\ p[i] \in 1..n
    BY <1>5, <2>2
  <2>4. QED
    BY <2>3
<1>9. QED
  BY <1>5, <1>6, <1>7, <1>8

LEMMA RecallConstants ==
  /\ MaxRaw \in Nat /\ MaxArcs \in Nat /\ MaxVersions \in Nat
  /\ ScrollLimit \in Nat \ {0} /\ FinalLimit \in Nat \ {0} /\ Fails \in BOOLEAN
BY PartsAssumption DEF R!RecallAssumption

(* Sorting by game_ts keeps every memory, and each once. *)
LEMMA ChronologyIs ==
  ASSUME raw \in Seq({"event", "utterance"}), Len(raw) <= MaxRaw,
         NEW s \in Seq(R!RawIds), R!IsInjective(s)
  PROVE  /\ R!ByGameTs(s) \in Seq(R!RawIds)
         /\ R!ToSet(R!ByGameTs(s)) = R!ToSet(s)
         /\ R!IsInjective(R!ByGameTs(s))
<1> DEFINE n == Len(s)
           ts(i) == R!GameTs(i)
           InOrder(p) == \A j, k \in DOMAIN s : j < k => ts(s[p[j]]) <= ts(s[p[k]])
           order == CHOOSE p \in R!Bijection(DOMAIN s, DOMAIN s) : InOrder(p)
           sorted == [k \in DOMAIN s |-> s[order[k]]]
<1>1. /\ n \in Nat /\ DOMAIN s = 1..n /\ Len(raw) \in Nat /\ MaxRaw \in Nat
      /\ R!RawIds = 1..Len(raw) /\ \A i \in 1..n : s[i] \in 1..Len(raw)
  BY RecallConstants DEF R!RawIds
<1>2. /\ \A i \in 1..Len(raw) : ts(i) \in 1..(MaxRaw + MaxRaw)
      /\ \A i, j \in 1..Len(raw) : ts(i) = ts(j) => i = j
  <2>1. ASSUME NEW i \in 1..Len(raw)
        PROVE  ts(i) = (IF raw[i] = "utterance" THEN MaxRaw + i ELSE i) /\ i <= MaxRaw
    BY <1>1 DEF R!GameTs
  <2> HIDE DEF ts
  <2>2. ASSUME NEW i \in 1..Len(raw)
        PROVE  ts(i) \in 1..(MaxRaw + MaxRaw) /\ (ts(i) <= MaxRaw <=> raw[i] # "utterance")
    BY <1>1, <2>1
  <2>3. ASSUME NEW i \in 1..Len(raw), NEW j \in 1..Len(raw), ts(i) = ts(j)
        PROVE  i = j
    <3>1. CASE raw[i] = "utterance"
      <4>1. raw[j] = "utterance"
        BY <2>2, <2>3, <3>1
      <4>2. QED
        BY <1>1, <2>1, <2>3, <3>1, <4>1
    <3>2. CASE raw[i] # "utterance"
      <4>1. raw[j] # "utterance"
        BY <2>2, <2>3, <3>2
      <4>2. QED
        BY <1>1, <2>1, <2>3, <3>2, <4>1
    <3>3. QED
      BY <3>1, <3>2
  <2>4. QED
    BY <2>2, <2>3
<1> HIDE DEF n, ts
<1>3. PICK p \in [1..n -> 1..n] :
           /\ \A i, j \in 1..n : p[i] = p[j] => i = j
           /\ \A k \in 1..n : \E i \in 1..n : p[i] = k
           /\ \A i, j \in 1..n : i < j => ts(s[p[i]]) < ts(s[p[j]])
  <2> DEFINE t == [i \in 1..n |-> ts(s[i])]
  <2>1. t \in [1..n -> 1..(MaxRaw + MaxRaw)]
    BY <1>1, <1>2
  <2>2. \A i, j \in 1..n : t[i] = t[j] => i = j
    <3>1. \A i, j \in 1..n : s[i] = s[j] => i = j
      BY <1>1 DEF R!IsInjective
    <3>2. QED
      BY <1>1, <1>2, <3>1
  <2>3. MaxRaw + MaxRaw \in Nat
    BY <1>1
  <2>4. \A i \in 1..n : t[i] = ts(s[i])
    OBVIOUS
  <2> HIDE DEF t
  <2>5. PICK p \in [1..n -> 1..n] :
           /\ \A i, j \in 1..n : p[i] = p[j] => i = j
           /\ \A k \in 1..n : \E i \in 1..n : p[i] = k
           /\ \A i, j \in 1..n : i < j => t[p[i]] < t[p[j]]
    BY <1>1, <2>1, <2>2, <2>3, OrderExists
  <2>6. ASSUME NEW i \in 1..n, NEW j \in 1..n, i < j
        PROVE  ts(s[p[i]]) < ts(s[p[j]])
    <3>1. p[i] \in 1..n /\ p[j] \in 1..n /\ t[p[i]] < t[p[j]]
      BY <2>5, <2>6
    <3>2. QED
      BY <2>4, <3>1
  <2>7. QED
    BY <2>5, <2>6
<1>4. p \in R!Bijection(DOMAIN s, DOMAIN s)
  BY <1>1, <1>3 DEF R!Bijection, R!Injection, R!Surjection, R!IsInjective
<1>5. InOrder(p)
  <2>1. ASSUME NEW i \in 1..n PROVE ts(s[p[i]]) \in Int
    <3>1. p[i] \in 1..n
      BY <1>3
    <3>2. s[p[i]] \in 1..Len(raw)
      BY <1>1, <3>1
    <3>3. ts(s[p[i]]) \in 1..(MaxRaw + MaxRaw)
      BY <1>2, <3>2
    <3>4. QED
      BY <3>3
  <2>2. ASSUME NEW i \in 1..n, NEW j \in 1..n, i < j
        PROVE  ts(s[p[i]]) <= ts(s[p[j]])
    BY <1>3, <2>1, <2>2
  <2>3. QED
    BY <1>1, <2>2
<1>6. order \in R!Bijection(DOMAIN s, DOMAIN s)
  <2> HIDE DEF InOrder
  <2> QED BY <1>4, <1>5
<1>7. R!ByGameTs(s) = sorted
  BY DEF R!ByGameTs, ts
<1> HIDE DEF order
<1>8. /\ order \in [1..n -> 1..n]
      /\ \A i, j \in 1..n : order[i] = order[j] => i = j
      /\ \A k \in 1..n : \E i \in 1..n : order[i] = k
  BY <1>1, <1>6 DEF R!Bijection, R!Injection, R!Surjection, R!IsInjective
<1>9. /\ \A k \in 1..n : sorted[k] = s[order[k]] /\ sorted[k] \in R!RawIds
      /\ DOMAIN sorted = 1..n /\ sorted \in Seq(R!RawIds)
  <2>1. \A k \in 1..n : order[k] \in 1..n
    BY <1>8
  <2>2. \A k \in 1..n : s[order[k]] \in R!RawIds
    BY <1>1, <2>1
  <2>3. QED
    BY <1>1, <2>2
<1> HIDE DEF sorted
<1>10. R!ToSet(sorted) = R!ToSet(s)
  <2>1. R!ToSet(sorted) = {sorted[k] : k \in 1..n} /\ R!ToSet(s) = {s[k] : k \in 1..n}
    BY <1>1, <1>9 DEF R!ToSet
  <2>2. \A k \in 1..n : sorted[k] = s[order[k]] /\ order[k] \in 1..n
    BY <1>8, <1>9
  <2>3. ASSUME NEW k \in 1..n PROVE \E i \in 1..n : s[k] = sorted[i]
    <3>1. PICK i \in 1..n : order[i] = k
      BY <1>8
    <3>2. QED
      BY <2>2, <3>1
  <2>4. \A k \in 1..n : sorted[k] \in R!ToSet(s) /\ s[k] \in R!ToSet(sorted)
    <3>1. \A k \in 1..n : s[k] \in R!ToSet(s) /\ sorted[k] \in R!ToSet(sorted)
      BY <2>1
    <3>2. QED
      BY <2>2, <2>3, <3>1
  <2>5. QED
    BY <2>1, <2>4
<1>11. R!IsInjective(sorted)
  <2>1. \A i, j \in 1..n : s[i] = s[j] => i = j
    BY <1>1 DEF R!IsInjective
  <2>2. ASSUME NEW i \in 1..n, NEW j \in 1..n, sorted[i] = sorted[j] PROVE i = j
    <3>1. /\ s[order[i]] = s[order[j]] /\ order[i] \in 1..n /\ order[j] \in 1..n
      BY <1>8, <1>9, <2>2
    <3>2. order[i] = order[j]
      BY <2>1, <3>1
    <3>3. QED
      BY <1>8, <3>2
  <2>3. QED
    BY <1>9, <2>2 DEF R!IsInjective
<1>12. QED
  BY <1>7, <1>9, <1>10, <1>11

(* The points in the collection: each of the three tiers. *)
LEMMA StoredIs ==
  \A p : p \in R!Stored <=>
           \/ \E i \in R!RawIds : p = R!Raw(i)
           \/ \E k \in DOMAIN arcs : p = R!Mod(k)
           \/ \E i \in R!RawIds, v \in 1..MaxVersions : p = R!Recon(i, v) /\ v <= versions[i]
<1> TAKE p
<1>1. \A i : R!Raw(i).tier = "RAW"
  BY DEF R!Raw
<1>2. \A k : R!Mod(k).tier = "MOD"
  BY DEF R!Mod
<1>3. \A i, v : R!Recon(i, v).of = i /\ R!Recon(i, v).version = v
                /\ R!Recon(i, v).tier = "RECON"
  BY DEF R!Recon
<1>4. p \in R!Points <=>
        \/ \E i \in R!RawIds : p = R!Raw(i)
        \/ \E k \in DOMAIN arcs : p = R!Mod(k)
        \/ \E i \in R!RawIds, v \in 1..MaxVersions : p = R!Recon(i, v)
  BY SMT DEF R!Points
<1>5. p \in R!Stored <=> p \in R!Points /\ (p.tier = "RECON" => p.version <= versions[p.of])
  BY DEF R!Stored
<1>6. CASE \E i \in R!RawIds : p = R!Raw(i)
  BY <1>1, <1>4, <1>5, <1>6
<1>7. CASE \E k \in DOMAIN arcs : p = R!Mod(k)
  BY <1>2, <1>4, <1>5, <1>7
<1>8. ASSUME NEW i \in R!RawIds, NEW v \in 1..MaxVersions, p = R!Recon(i, v)
      PROVE  p \in R!Stored <=> v <= versions[i]
  BY <1>3, <1>4, <1>5, <1>8
<1>9. QED
  BY <1>4, <1>5, <1>6, <1>7, <1>8, Zenon

(* What they say of themselves. *)
LEMMA PointsAre ==
  ASSUME NEW p \in R!Stored
  PROVE  /\ p.tier \in {"RAW", "MOD", "RECON"}
         /\ p.tier \in {"RAW", "RECON"} => p.of \in R!RawIds
         /\ p.tier = "MOD" => p.of \in DOMAIN arcs
<1>1. \/ \E i \in R!RawIds : p = R!Raw(i)
      \/ \E k \in DOMAIN arcs : p = R!Mod(k)
      \/ \E i \in R!RawIds, v \in 1..MaxVersions : p = R!Recon(i, v) /\ v <= versions[i]
  BY StoredIs
<1>2. CASE \E i \in R!RawIds : p = R!Raw(i)
  BY <1>2 DEF R!Raw
<1>3. CASE \E k \in DOMAIN arcs : p = R!Mod(k)
  BY <1>3 DEF R!Mod
<1>4. CASE \E i \in R!RawIds, v \in 1..MaxVersions : p = R!Recon(i, v)
  BY <1>4 DEF R!Recon
<1>5. QED
  BY <1>1, <1>2, <1>3, <1>4

(* The store: as many versions as memories, and arcs of some of them. *)
StoreInv ==
  /\ raw \in Seq({"event", "utterance"}) /\ Len(raw) <= MaxRaw
  /\ versions \in Seq(0..MaxVersions) /\ Len(versions) = Len(raw)
  /\ arcs \in Seq(SUBSET R!RawIds) /\ \A k \in DOMAIN arcs : arcs[k] # {}

(* There are finitely many of them. *)
LEMMA StoredIsFinite ==
  ASSUME StoreInv
  PROVE  IsFiniteSet(R!Stored) /\ R!Cardinality(R!Stored) \in Nat
<1> DEFINE T == {"RAW", "MOD", "RECON"}
           I == 0..(Len(raw) + Len(arcs))
           V == 0..MaxVersions
           point == [x \in T \X (I \X V) |->
                       [tier |-> x[1], of |-> x[2][1], version |-> x[2][2]]]
           All == {point[x] : x \in T \X (I \X V)}
<1>1. Len(raw) \in Nat /\ Len(arcs) \in Nat /\ MaxVersions \in Nat
      /\ R!RawIds = 1..Len(raw) /\ DOMAIN arcs = 1..Len(arcs)
  BY RecallConstants DEF StoreInv, R!RawIds
<1>2. IsFiniteSet(T \X (I \X V))
  <2>1. IsFiniteSet(T)
    <3>1. T = {"RAW"} \union {"MOD"} \union {"RECON"}
      OBVIOUS
    <3>2. IsFiniteSet({"RAW"}) /\ IsFiniteSet({"MOD"}) /\ IsFiniteSet({"RECON"})
      BY FS_Singleton
    <3> HIDE DEF T
    <3>3. IsFiniteSet({"RAW"} \union {"MOD"})
      BY <3>2, FS_Union
    <3>4. QED
      BY <3>1, <3>2, <3>3, FS_Union
  <2>2. IsFiniteSet(I) /\ IsFiniteSet(V)
    <3>1. 0 \in Int /\ Len(raw) + Len(arcs) \in Int /\ MaxVersions \in Int
      BY <1>1
    <3>2. QED
      BY <3>1, FS_Interval
  <2> HIDE DEF T, I, V
  <2>3. IsFiniteSet(I \X V)
    BY <2>2, FS_Product
  <2>4. QED
    BY <2>1, <2>3, FS_Product
<1>3. IsFiniteSet(All)
  <2>1. point \in Surjection(T \X (I \X V), All)
    BY DEF Surjection
  <2> HIDE DEF All, T, I, V, point
  <2>2. QED
    BY <1>2, <2>1, FS_Surjection
<1>4. \A t \in T, i \in I, v \in V : [tier |-> t, of |-> i, version |-> v] \in All
  <2> SUFFICES ASSUME NEW t \in T, NEW i \in I, NEW v \in V
               PROVE  [tier |-> t, of |-> i, version |-> v] \in All
    OBVIOUS
  <2>1. <<t, <<i, v>>>> \in T \X (I \X V)
    OBVIOUS
  <2> HIDE DEF T, I, V
  <2>2. point[<<t, <<i, v>>>>] = [tier |-> t, of |-> i, version |-> v]
    BY <2>1
  <2> HIDE DEF point
  <2>3. QED
    BY <2>1, <2>2
<1> HIDE DEF All
<1>5. ASSUME NEW p \in R!Stored PROVE p \in All
  <2>1. "RAW" \in T /\ "MOD" \in T /\ "RECON" \in T /\ 0 \in V
        /\ (\A i \in R!RawIds : i \in I) /\ (\A k \in DOMAIN arcs : k \in I)
        /\ (\A v \in 1..MaxVersions : v \in V)
    BY <1>1
  <2> HIDE DEF T, I, V
  <2>2. \/ \E i \in R!RawIds : p = R!Raw(i)
        \/ \E k \in DOMAIN arcs : p = R!Mod(k)
        \/ \E i \in R!RawIds, v \in 1..MaxVersions : p = R!Recon(i, v)
    BY StoredIs
  <2>3. QED
    BY <1>4, <2>1, <2>2 DEF R!Raw, R!Mod, R!Recon
<1>6. R!Stored \in SUBSET All
  BY <1>5
<1>7. IsFiniteSet(R!Stored) /\ Cardinality(R!Stored) \in Nat
  BY <1>3, <1>6, FS_Subset, FS_CardinalityType
<1>8. ASSUME NEW U PROVE R!Cardinality(U) = Cardinality(U)
  BY DEF R!Cardinality, Cardinality, R!IsFiniteSet, IsFiniteSet
<1>9. QED
  BY <1>7, <1>8

(* A bundle in the making, and what an anchor leaves in it. *)
Bundles == [recent : Seq(R!RawIds), summaries : Seq(R!Stored), refs : Seq(R!RawIds)]

Carries(best, a, b) ==
  \/ a \in R!ToSet(b.summaries)
  \/ a.tier = "RAW" /\ a.of \in R!Covered(best) \union R!ToSet(b.recent)
  \/ a.tier = "MOD" /\ arcs[a.of] \subseteq R!Covered(best)

(* The bundle after the first k anchors. *)
SoundBundle(best, k, b) ==
  /\ b \in Bundles
  /\ R!IsInjective(b.recent) /\ R!IsInjective(b.summaries) /\ R!IsInjective(b.refs)
  /\ R!ToSet(b.recent) \intersect R!Covered(best) = {}
  /\ R!ToSet(b.summaries) \subseteq {best[j] : j \in 1..k}
  /\ \A s \in R!ToSet(b.summaries) : s.tier = "RECON" => s.of \in R!ToSet(b.refs)
  /\ \A j \in 1..k : Carries(best, best[j], b)

LEMMA CarriedOn ==
  ASSUME NEW best, NEW a, NEW b, NEW t, Carries(best, a, b),
         R!ToSet(b.summaries) \subseteq R!ToSet(t.summaries),
         R!ToSet(b.recent) \subseteq R!ToSet(t.recent)
  PROVE  Carries(best, a, t)
BY DEF Carries

(* What the three steps make of a bundle. *)
LEMMA TakeReconIs ==
  ASSUME NEW b \in Bundles, NEW a \in R!Stored, a.tier = "RECON",
         NEW covered, NEW fetched, NEW t, t = R!Take(b, a, covered, fetched)
  PROVE  /\ t \in Bundles /\ t.recent = b.recent /\ t.summaries = Append(b.summaries, a)
         /\ t.refs = IF a.of \in R!ToSet(b.refs) THEN b.refs ELSE Append(b.refs, a.of)
<1>1. t = R!TakeRecon(b, a)
  BY DEF R!Take
<1>2. t.recent = b.recent /\ t.summaries = Append(b.summaries, a)
      /\ t.refs = IF a.of \in R!ToSet(b.refs) THEN b.refs ELSE Append(b.refs, a.of)
  BY <1>1 DEF R!TakeRecon, Bundles
<1>3. t = [recent |-> t.recent, summaries |-> t.summaries, refs |-> t.refs]
  BY <1>1 DEF R!TakeRecon, Bundles
<1>4. /\ t.recent \in Seq(R!RawIds) /\ t.summaries \in Seq(R!Stored)
      /\ t.refs \in Seq(R!RawIds)
  <2>1. /\ b.recent \in Seq(R!RawIds) /\ b.summaries \in Seq(R!Stored)
        /\ b.refs \in Seq(R!RawIds)
    BY DEF Bundles
  <2>2. a.of \in R!RawIds
    BY PointsAre
  <2>3. Append(b.summaries, a) \in Seq(R!Stored) /\ Append(b.refs, a.of) \in Seq(R!RawIds)
    BY <2>1, <2>2, AppendProperties
  <2>4. QED
    BY <1>2, <2>1, <2>3
<1>5. QED
  BY <1>2, <1>3, <1>4 DEF Bundles

TakesMod(b, a, covered, t) ==
  \/ t = b /\ arcs[a.of] \subseteq covered
  \/ /\ t.summaries = Append(b.summaries, a) /\ t.refs = b.refs
     /\ \/ t.recent = b.recent
        \/ \E page \in Seq(R!RawIds) :
             /\ t.recent = b.recent \o page /\ R!IsInjective(page)
             /\ R!ToSet(page) \intersect (covered \union R!ToSet(b.recent)) = {}

LEMMA TakeModIs ==
  ASSUME StoreInv, NEW b \in Bundles, NEW a \in R!Stored, a.tier = "MOD",
         NEW covered, NEW fetched \in BOOLEAN, NEW t, t = R!Take(b, a, covered, fetched)
  PROVE  t \in Bundles /\ TakesMod(b, a, covered, t)
<1> DEFINE unseen == arcs[a.of] \ (covered \union R!ToSet(b.recent))
           page == R!SetToSeq(unseen)
<1>1. t = IF arcs[a.of] \subseteq covered THEN b
          ELSE [b EXCEPT !.summaries = Append(@, a),
                         !.recent = IF fetched THEN @ \o page ELSE @]
  BY DEF R!Take, R!TakeMod
<1>2. /\ b.recent \in Seq(R!RawIds) /\ b.summaries \in Seq(R!Stored)
      /\ b.refs \in Seq(R!RawIds)
  BY DEF Bundles
<1>3. page \in Seq(R!RawIds) /\ R!IsInjective(page) /\ R!ToSet(page) \subseteq unseen
  <2>1. unseen \in SUBSET R!RawIds
    BY PointsAre DEF StoreInv
  <2>2. IsFiniteSet(R!RawIds)
    <3>1. 1 \in Int /\ Len(raw) \in Int
      BY DEF StoreInv
    <3>2. QED
      BY <3>1, FS_Interval DEF R!RawIds
  <2> HIDE DEF unseen
  <2>3. IsFiniteSet(unseen)
    BY <2>1, <2>2, FS_Subset
  <2>4. page \in Seq(unseen) /\ R!IsInjective(page) /\ R!ToSet(page) \subseteq unseen
    BY <2>3, PageIs
  <2>5. Seq(unseen) \subseteq Seq(R!RawIds)
    BY <2>1
  <2>6. QED
    BY <2>4, <2>5
<1>4. R!ToSet(page) \intersect (covered \union R!ToSet(b.recent)) = {}
  <2> HIDE DEF page
  <2> QED BY <1>3
<1>5. Append(b.summaries, a) \in Seq(R!Stored) /\ b.recent \o page \in Seq(R!RawIds)
  <2> HIDE DEF page, unseen
  <2>1. Append(b.summaries, a) \in Seq(R!Stored)
    BY <1>2, AppendProperties
  <2>2. b.recent \o page \in Seq(R!RawIds)
    BY <1>2, <1>3, ConcatProperties
  <2>3. QED
    BY <2>1, <2>2
<1> HIDE DEF page
<1>6. CASE arcs[a.of] \subseteq covered
  BY <1>1, <1>6 DEF TakesMod
<1>7. ASSUME ~(arcs[a.of] \subseteq covered), fetched
      PROVE  /\ t = [recent |-> b.recent \o page, summaries |-> Append(b.summaries, a),
                     refs |-> b.refs]
             /\ t \in Bundles
  <2>1. t = [recent |-> b.recent \o page, summaries |-> Append(b.summaries, a),
             refs |-> b.refs]
    BY <1>1, <1>7 DEF Bundles
  <2>2. QED
    BY <1>2, <1>5, <2>1 DEF Bundles
<1>8. ASSUME ~(arcs[a.of] \subseteq covered), ~fetched
      PROVE  /\ t = [recent |-> b.recent, summaries |-> Append(b.summaries, a),
                     refs |-> b.refs]
             /\ t \in Bundles
  <2>1. t = [recent |-> b.recent, summaries |-> Append(b.summaries, a), refs |-> b.refs]
    BY <1>1, <1>8 DEF Bundles
  <2>2. QED
    BY <1>2, <1>5, <2>1 DEF Bundles
<1>9. CASE ~(arcs[a.of] \subseteq covered) /\ fetched
  <2>1. /\ t = [recent |-> b.recent \o page, summaries |-> Append(b.summaries, a),
                refs |-> b.refs]
        /\ t \in Bundles
    BY <1>7, <1>9, Zenon
  <2>2. t.recent = b.recent \o page /\ t.summaries = Append(b.summaries, a)
        /\ t.refs = b.refs
    BY <2>1
  <2>3. \E q \in Seq(R!RawIds) :
          /\ t.recent = b.recent \o q /\ R!IsInjective(q)
          /\ R!ToSet(q) \intersect (covered \union R!ToSet(b.recent)) = {}
    BY <1>3, <1>4, <2>2, Zenon
  <2>4. QED
    BY <2>1, <2>2, <2>3, Zenon DEF TakesMod
<1>10. CASE ~(arcs[a.of] \subseteq covered) /\ ~fetched
  BY <1>8, <1>10 DEF TakesMod
<1>11. QED
  BY <1>6, <1>9, <1>10 DEF TakesMod

LEMMA TakeRawIs ==
  ASSUME NEW b \in Bundles, NEW a \in R!Stored, a.tier = "RAW",
         NEW covered, NEW fetched, NEW t, t = R!Take(b, a, covered, fetched)
  PROVE  /\ t \in Bundles
         /\ \/ t = b /\ a.of \in covered \union R!ToSet(b.recent)
            \/ /\ t.recent = Append(b.recent, a.of) /\ t.summaries = b.summaries
               /\ t.refs = b.refs /\ a.of \notin covered \union R!ToSet(b.recent)
<1>1. t = IF a.of \in covered \union R!ToSet(b.recent) THEN b
          ELSE [b EXCEPT !.recent = Append(@, a.of)]
  BY DEF R!Take, R!TakeRaw
<1>2. /\ b.recent \in Seq(R!RawIds) /\ a.of \in R!RawIds
  BY PointsAre DEF Bundles
<1>3. Append(b.recent, a.of) \in Seq(R!RawIds)
  BY <1>2, AppendProperties
<1>4. QED
  BY <1>1, <1>3 DEF Bundles

LEMMA PositionsAre ==
  ASSUME NEW X, NEW s \in Seq(X), NEW k \in 1..Len(s)
  PROVE  /\ s[k] \in X /\ k \in DOMAIN s /\ k - 1 \in Int
         /\ \A j \in 1..(k - 1) : j \in DOMAIN s /\ j # k /\ j \in 1..k
         /\ \A j \in 1..k : j = k \/ j \in 1..(k - 1)
         /\ k \in 1..k
<1>1. Len(s) \in Nat /\ DOMAIN s = 1..Len(s) /\ s[k] \in X
  OBVIOUS
<1>2. QED
  BY <1>1

LEMMA TakeKeeps ==
  ASSUME StoreInv, NEW best \in Seq(R!Stored), R!IsInjective(best), NEW k \in 1..Len(best),
         NEW b, SoundBundle(best, k - 1, b), NEW fetched \in BOOLEAN
  PROVE  SoundBundle(best, k, R!Take(b, best[k], R!Covered(best), fetched))
<1> DEFINE c == R!Covered(best)
           a == best[k]
           t == R!Take(b, a, c, fetched)
<1>1. /\ a \in R!Stored /\ k \in DOMAIN best /\ k - 1 \in Int
      /\ \A j \in 1..(k - 1) : j \in DOMAIN best /\ j # k /\ j \in 1..k
      /\ \A j \in 1..k : j = k \/ j \in 1..(k - 1)
      /\ k \in 1..k
  BY PositionsAre
<1>2. /\ b \in Bundles /\ b.recent \in Seq(R!RawIds) /\ b.summaries \in Seq(R!Stored)
      /\ b.refs \in Seq(R!RawIds)
      /\ R!IsInjective(b.recent) /\ R!IsInjective(b.summaries) /\ R!IsInjective(b.refs)
      /\ R!ToSet(b.recent) \intersect c = {}
      /\ R!ToSet(b.summaries) \subseteq {best[j] : j \in 1..(k - 1)}
      /\ \A s \in R!ToSet(b.summaries) : s.tier = "RECON" => s.of \in R!ToSet(b.refs)
      /\ \A j \in 1..(k - 1) : Carries(best, best[j], b)
  BY DEF SoundBundle, Bundles
<1>3. a \notin R!ToSet(b.summaries)
  <2>1. \A j \in 1..(k - 1) : best[j] # a
    BY <1>1 DEF R!IsInjective
  <2> HIDE DEF a
  <2>2. QED
    BY <1>2, <2>1
<1>4. /\ \A j \in 1..(k - 1) : best[j] \in {best[i] : i \in 1..k}
      /\ a \in {best[i] : i \in 1..k}
  BY <1>1
<1>5. R!ToSet(b.summaries) \subseteq {best[i] : i \in 1..k}
  BY <1>2, <1>4
<1> HIDE DEF c
<1>6. ASSUME NEW u, Carries(best, a, u),
             R!ToSet(b.summaries) \subseteq R!ToSet(u.summaries),
             R!ToSet(b.recent) \subseteq R!ToSet(u.recent)
      PROVE  \A j \in 1..k : Carries(best, best[j], u)
  <2> SUFFICES ASSUME NEW j \in 1..k PROVE Carries(best, best[j], u)
    OBVIOUS
  <2>1. CASE j = k
    BY <1>6, <2>1
  <2>2. CASE j \in 1..(k - 1)
    <3>1. Carries(best, best[j], b)
      BY <1>2, <2>2
    <3>2. QED
      BY <1>6, <3>1, CarriedOn
  <2>3. QED
    BY <1>1, <2>1, <2>2
<1> HIDE DEF a
<1>7. a.tier \in {"RAW", "MOD", "RECON"}
  BY <1>1, PointsAre
<1>8. PICK u : u = t
  OBVIOUS
<1> HIDE DEF t
<1>9. u = R!Take(b, a, c, fetched)
  BY <1>8 DEF t
<1> SUFFICES SoundBundle(best, k, u)
  BY <1>9 DEF a, c
<1>10. /\ Append(b.summaries, a) \in Seq(R!Stored)
       /\ R!ToSet(Append(b.summaries, a)) = R!ToSet(b.summaries) \union {a}
       /\ R!IsInjective(Append(b.summaries, a))
  BY <1>1, <1>2, <1>3, AppendedIs
<1>11. CASE a.tier = "RECON"
  <2>1. /\ u \in Bundles /\ u.recent = b.recent /\ u.summaries = Append(b.summaries, a)
        /\ u.refs = IF a.of \in R!ToSet(b.refs) THEN b.refs ELSE Append(b.refs, a.of)
    BY <1>1, <1>2, <1>9, <1>11, TakeReconIs
  <2>2. /\ R!ToSet(u.refs) = R!ToSet(b.refs) \union {a.of} /\ R!IsInjective(u.refs)
    <3>1. CASE a.of \in R!ToSet(b.refs)
      BY <1>2, <2>1, <3>1
    <3>2. CASE a.of \notin R!ToSet(b.refs)
      <4>1. a.of \in R!RawIds
        BY <1>1, <1>11, PointsAre
      <4>2. u.refs = Append(b.refs, a.of)
        BY <2>1, <3>2
      <4>3. QED
        BY <1>2, <3>2, <4>1, <4>2, AppendedIs
    <3>3. QED
      BY <3>1, <3>2
  <2>3. Carries(best, a, u)
    BY <1>10, <2>1 DEF Carries
  <2>4. \A j \in 1..k : Carries(best, best[j], u)
    BY <1>6, <1>10, <2>1, <2>3
  <2>5. \A s \in R!ToSet(u.summaries) : s.tier = "RECON" => s.of \in R!ToSet(u.refs)
    BY <1>2, <1>10, <2>1, <2>2
  <2>6. R!ToSet(u.summaries) \subseteq {best[i] : i \in 1..k}
    BY <1>4, <1>5, <1>10, <2>1 DEF a
  <2>7. QED
    BY <1>2, <1>10, <2>1, <2>2, <2>4, <2>5, <2>6 DEF SoundBundle, c
<1>12. CASE a.tier = "MOD"
  <2>1. u \in Bundles
    BY <1>1, <1>2, <1>9, <1>12, TakeModIs
  <2>2. CASE u = b /\ arcs[a.of] \subseteq c
    <3>1. Carries(best, a, u)
      BY <1>12, <2>2 DEF Carries, c
    <3>2. \A j \in 1..k : Carries(best, best[j], u)
      BY <1>6, <2>2, <3>1
    <3>3. QED
      BY <1>2, <1>5, <2>2, <3>2 DEF SoundBundle, c
  <2>3. ASSUME u.summaries = Append(b.summaries, a), u.refs = b.refs,
               R!ToSet(b.recent) \subseteq R!ToSet(u.recent), R!IsInjective(u.recent),
               R!ToSet(u.recent) \intersect c = {}
        PROVE  SoundBundle(best, k, u)
    <3>1. Carries(best, a, u)
      BY <1>10, <2>3 DEF Carries
    <3>2. \A j \in 1..k : Carries(best, best[j], u)
      BY <1>6, <1>10, <2>3, <3>1
    <3>3. \A s \in R!ToSet(u.summaries) : s.tier = "RECON" => s.of \in R!ToSet(u.refs)
      <4>1. "MOD" # "RECON"
        OBVIOUS
      <4>2. QED
        BY <1>2, <1>10, <1>12, <2>3, <4>1
    <3>4. R!ToSet(u.summaries) \subseteq {best[i] : i \in 1..k}
      BY <1>4, <1>5, <1>10, <2>3 DEF a
    <3>5. QED
      BY <1>2, <1>10, <2>1, <2>3, <3>2, <3>3, <3>4 DEF SoundBundle, c
  <2>4. CASE u.summaries = Append(b.summaries, a) /\ u.refs = b.refs /\ u.recent = b.recent
    BY <1>2, <2>3, <2>4
  <2>5. ASSUME u.summaries = Append(b.summaries, a), u.refs = b.refs,
               NEW page \in Seq(R!RawIds), u.recent = b.recent \o page, R!IsInjective(page),
               R!ToSet(page) \intersect (c \union R!ToSet(b.recent)) = {}
        PROVE  SoundBundle(best, k, u)
    <3>1. R!ToSet(u.recent) = R!ToSet(b.recent) \union R!ToSet(page)
      BY <1>2, <2>5, JoinedIs
    <3>2. R!ToSet(b.recent) \intersect R!ToSet(page) = {}
      BY <2>5
    <3>3. R!IsInjective(u.recent)
      BY <1>2, <2>5, <3>2, JoinedIs
    <3>4. QED
      BY <1>2, <2>3, <2>5, <3>1, <3>3
  <2>6. \/ u = b /\ arcs[a.of] \subseteq c
        \/ /\ u.summaries = Append(b.summaries, a) /\ u.refs = b.refs
           /\ \/ u.recent = b.recent
              \/ \E page \in Seq(R!RawIds) :
                   /\ u.recent = b.recent \o page /\ R!IsInjective(page)
                   /\ R!ToSet(page) \intersect (c \union R!ToSet(b.recent)) = {}
    <3>1. a \in R!Stored /\ b \in Bundles /\ u = R!Take(b, a, c, fetched)
      BY <1>1, <1>2, <1>9
    <3>2. TakesMod(b, a, c, u)
      BY <1>12, <3>1, TakeModIs
    <3>3. QED
      BY <3>2, Zenon DEF TakesMod
  <2>7. CASE /\ u.summaries = Append(b.summaries, a) /\ u.refs = b.refs
             /\ \E page \in Seq(R!RawIds) :
                  /\ u.recent = b.recent \o page /\ R!IsInjective(page)
                  /\ R!ToSet(page) \intersect (c \union R!ToSet(b.recent)) = {}
    BY <2>5, <2>7, Zenon
  <2>8. QED
    BY <2>2, <2>4, <2>6, <2>7, Zenon
<1>13. CASE a.tier = "RAW"
  <2>1. /\ u \in Bundles
        /\ \/ u = b /\ a.of \in c \union R!ToSet(b.recent)
           \/ /\ u.recent = Append(b.recent, a.of) /\ u.summaries = b.summaries
              /\ u.refs = b.refs /\ a.of \notin c \union R!ToSet(b.recent)
    BY <1>1, <1>2, <1>9, <1>13, TakeRawIs
  <2>2. ASSUME R!ToSet(b.recent) \subseteq R!ToSet(u.recent), R!IsInjective(u.recent),
               R!ToSet(u.recent) \intersect c = {}, u.summaries = b.summaries,
               u.refs = b.refs, a.of \in c \union R!ToSet(u.recent)
        PROVE  SoundBundle(best, k, u)
    <3>1. Carries(best, a, u)
      BY <1>13, <2>2 DEF Carries, c
    <3>2. \A j \in 1..k : Carries(best, best[j], u)
      BY <1>6, <2>2, <3>1
    <3>3. QED
      BY <1>2, <1>5, <2>1, <2>2, <3>2 DEF SoundBundle, c
  <2>3. CASE u = b /\ a.of \in c \union R!ToSet(b.recent)
    <3>1. /\ R!ToSet(u.recent) = R!ToSet(b.recent) /\ u.summaries = b.summaries
          /\ u.refs = b.refs /\ R!IsInjective(u.recent)
          /\ R!ToSet(u.recent) \intersect c = {}
          /\ a.of \in c \union R!ToSet(u.recent)
      BY <1>2, <2>3
    <3>2. QED
      BY <2>2, <3>1
  <2>4. CASE /\ u.recent = Append(b.recent, a.of) /\ u.summaries = b.summaries
             /\ u.refs = b.refs /\ a.of \notin c \union R!ToSet(b.recent)
    <3>1. a.of \in R!RawIds
      BY <1>1, <1>13, PointsAre
    <3>2. /\ R!ToSet(u.recent) = R!ToSet(b.recent) \union {a.of} /\ R!IsInjective(u.recent)
      BY <1>2, <2>4, <3>1, AppendedIs
    <3>3. QED
      BY <1>2, <2>2, <2>4, <3>2
  <2>5. QED
    BY <2>1, <2>3, <2>4
<1>14. QED
  BY <1>7, <1>11, <1>12, <1>13

(* The bundles on the way through the anchors, one step after the other. *)
NextBundle(b, best, k, fetched) == R!Take(b, best[k], R!Covered(best), k \in fetched)
Way(f, best, m, fetched) ==
  f = [k \in 0..m |-> IF k = 0 THEN R!EmptyBundle
                      ELSE NextBundle(f[k - 1], best, k, fetched)]
TakesEach(f, best, m, fetched) ==
  \A k \in 0..m : f[k] = IF k = 0 THEN R!EmptyBundle
                         ELSE NextBundle(f[k - 1], best, k, fetched)

LEMMA EmptyBundleIs ==
  ASSUME NEW best
  PROVE  SoundBundle(best, 0, R!EmptyBundle)
<1>1. /\ R!EmptyBundle.recent = <<>> /\ R!EmptyBundle.summaries = <<>>
      /\ R!EmptyBundle.refs = <<>>
  BY DEF R!EmptyBundle
<1>2. R!ToSet(<<>>) = {} /\ R!IsInjective(<<>>)
  BY DEF R!ToSet, R!IsInjective
<1>3. R!EmptyBundle \in Bundles
  BY DEF R!EmptyBundle, Bundles
<1>4. QED
  BY <1>1, <1>2, <1>3 DEF SoundBundle

(* Whatever takes each anchor in turn is sound at every step. *)
LEMMA StepsAreSound ==
  ASSUME StoreInv, NEW best \in Seq(R!Stored), R!IsInjective(best), NEW m \in 0..Len(best),
         NEW fetched, NEW f, TakesEach(f, best, m, fetched)
  PROVE  \A k \in 0..m : SoundBundle(best, k, f[k])
<1> DEFINE T == {k \in 1..m : SoundBundle(best, k, f[k])}
<1>1. m \in Nat /\ m <= Len(best) /\ Len(best) \in Nat
  OBVIOUS
<1>2. SoundBundle(best, 0, f[0])
  BY <1>1, EmptyBundleIs DEF TakesEach
<1>3. ASSUME NEW k \in 1..m, SoundBundle(best, k - 1, f[k - 1])
      PROVE  SoundBundle(best, k, f[k])
  <2>1. k \in 0..m /\ k # 0 /\ k \in 1..Len(best)
    BY <1>1
  <2>2. f[k] = R!Take(f[k - 1], best[k], R!Covered(best), k \in fetched)
    BY <2>1 DEF TakesEach, NextBundle
  <2>3. \A works \in BOOLEAN :
          SoundBundle(best, k, R!Take(f[k - 1], best[k], R!Covered(best), works))
    BY <1>3, <2>1, TakeKeeps
  <2>4. (k \in fetched) \in BOOLEAN
    OBVIOUS
  <2>5. SoundBundle(best, k, R!Take(f[k - 1], best[k], R!Covered(best), k \in fetched))
    BY <2>3, <2>4, Zenon
  <2>6. QED
    BY <2>2, <2>5
<1>4. m > 0 => 1 \in T
  <2>1. CASE m > 0
    <3>1. 1 \in 1..m /\ 1 - 1 = 0
      BY <1>1, <2>1
    <3>2. QED
      BY <1>2, <1>3, <3>1
  <2>2. QED
    BY <2>1
<1>5. ASSUME NEW k \in 1..m, k \in T, k # m PROVE k + 1 \in T
  <2>1. k + 1 \in 1..m /\ (k + 1) - 1 = k
    BY <1>1, <1>5
  <2>2. SoundBundle(best, k, f[k])
    BY <1>5
  <2>3. QED
    BY <1>3, <2>1, <2>2
<1>6. \A k \in 1..m : k \in T
  <2> HIDE DEF T
  <2> QED BY <1>1, <1>4, <1>5, Sched!InductionUpTo
<1>7. ASSUME NEW k \in 0..m PROVE SoundBundle(best, k, f[k])
  <2>1. k = 0 \/ k \in 1..m
    OBVIOUS
  <2>2. QED
    BY <1>2, <1>6, <2>1
<1>8. QED
  BY <1>7

(* Something does. *)
LEMMA StepsExist ==
  ASSUME NEW best, NEW fetched, NEW m \in Nat
  PROVE  \E f : Way(f, best, m, fetched)
<1> DEFINE next(b, k) == NextBundle(b, best, k, fetched)
           Steps(f, n) == f = [k \in 0..n |-> IF k = 0 THEN R!EmptyBundle
                                              ELSE next(f[k - 1], k)]
           T == {n \in Nat : \E f : Steps(f, n)}
<1> HIDE DEF next
<1>1. ASSUME NEW n \in Nat, n \in T PROVE n + 1 \in T
  <2>1. PICK f : Steps(f, n)
    BY <1>1
  <2> DEFINE g == [k \in 0..(n + 1) |-> IF k = n + 1 THEN next(f[n], k) ELSE f[k]]
  <2>2. ASSUME NEW k \in 0..(n + 1)
        PROVE  g[k] = IF k = 0 THEN R!EmptyBundle ELSE next(g[k - 1], k)
    <3>1. CASE k = n + 1
      <4>1. k # 0 /\ k - 1 = n /\ n \in 0..(n + 1) /\ n # n + 1
        BY <1>1, <3>1
      <4>2. g[k] = next(f[n], k) /\ g[n] = f[n]
        BY <3>1, <4>1
      <4>3. QED
        BY <4>1, <4>2
    <3>2. CASE k # n + 1
      <4>1. k \in 0..n
        BY <1>1, <3>2
      <4>2. g[k] = f[k]
        BY <3>2
      <4>3. CASE k = 0
        <5>1. f[k] = R!EmptyBundle
          BY <2>1, <4>1, <4>3
        <5>2. QED
          BY <4>2, <4>3, <5>1
      <4>4. CASE k # 0
        <5>1. k - 1 \in 0..(n + 1) /\ k - 1 # n + 1
          BY <4>1, <4>4
        <5>2. g[k - 1] = f[k - 1]
          BY <5>1
        <5>3. f[k] = next(f[k - 1], k)
          BY <2>1, <4>1, <4>4
        <5>4. QED
          BY <4>2, <4>4, <5>2, <5>3
      <4>5. QED
        BY <4>3, <4>4
    <3>3. QED
      BY <3>1, <3>2
  <2>3. g = [k \in 0..(n + 1) |-> g[k]]
    OBVIOUS
  <2> HIDE DEF g
  <2>4. Steps(g, n + 1)
    BY <2>2, <2>3
  <2>5. n + 1 \in Nat
    OBVIOUS
  <2>6. QED
    BY <2>4, <2>5
<1>2. 0 \in T
  <2> DEFINE z == [k \in 0..0 |-> R!EmptyBundle]
  <2>1. \A k \in 0..0 : k = 0
    OBVIOUS
  <2>2. Steps(z, 0)
    BY <2>1
  <2>3. QED
    BY <2>2
<1> HIDE DEF T
<1>3. m \in T
  <2>1. CASE m = 0
    BY <1>2, <2>1
  <2>2. CASE m # 0
    <3>1. m \in 1..m /\ (m > 0 => 1 \in T)
      <4>1. 0 \in Nat /\ 0 + 1 = 1
        OBVIOUS
      <4>2. 1 \in T
        BY <1>1, <1>2, <4>1
      <4>3. m \in 1..m
        BY <2>2
      <4>4. QED
        BY <4>2, <4>3
    <3>2. \A n \in 1..m : n \in T /\ n # m => n + 1 \in T
      BY <1>1
    <3>3. \A n \in 1..m : n \in T
      BY <3>1, <3>2, Sched!InductionUpTo
    <3>4. QED
      BY <3>1, <3>3
  <2>3. QED
    BY <2>1, <2>2
<1>4. PICK f : Steps(f, m)
  BY <1>3 DEF T
<1>5. QED
  BY <1>4, Zenon DEF next, Way

(* The bundle of a retrieval. *)
LEMMA ExpandIs ==
  ASSUME StoreInv, NEW best \in Seq(R!Stored), R!IsInjective(best), NEW fetched
  PROVE  \E b : /\ SoundBundle(best, Len(best), b)
                /\ R!Expand(best, fetched) = [b EXCEPT !.recent = R!ByGameTs(@)]
<1> DEFINE m == Len(best)
           taken == CHOOSE f : Way(f, best, m, fetched)
<1>1. m \in Nat /\ m \in 0..Len(best) /\ m \in 0..m
  OBVIOUS
<1>2. Way(taken, best, m, fetched)
  <2>1. \E f : Way(f, best, m, fetched)
    BY <1>1, StepsExist
  <2>2. QED
    BY <2>1
<1>3. R!Expand(best, fetched) = [taken[m] EXCEPT !.recent = R!ByGameTs(@)]
  BY DEF R!Expand, Way, NextBundle
<1> HIDE DEF taken, m
<1>4. TakesEach(taken, best, m, fetched)
  BY <1>2 DEF Way, TakesEach
<1>5. SoundBundle(best, m, taken[m])
  <2>1. \A k \in 0..m : SoundBundle(best, k, taken[k])
    BY <1>1, <1>4, StepsAreSound
  <2>2. QED
    BY <1>1, <2>1
<1>6. QED
  BY <1>3, <1>5 DEF m

(* The invariant of the memories: every bundle keeps its promises, whatever *)
(* is written while the turn uses it.                                      *)
RecallInv ==
  /\ StoreInv
  /\ R!ToSet(anchors) \subseteq R!Stored /\ bundle \in Bundles
  /\ R!NothingTwice /\ R!AnchorsSurface /\ R!OriginalsInReach
  /\ R!NeverBesideItsReframing

LEMMA BundlesAre ==
  ASSUME NEW b \in Bundles
  PROVE  /\ b.recent \in Seq(R!RawIds) /\ b.summaries \in Seq(R!Stored)
         /\ b.refs \in Seq(R!RawIds)
         /\ R!ToSet(b.recent) \subseteq R!RawIds /\ R!ToSet(b.refs) \subseteq R!RawIds
         /\ R!ToSet(b.summaries) \subseteq R!Stored
<1>1. /\ b.recent \in Seq(R!RawIds) /\ b.summaries \in Seq(R!Stored)
      /\ b.refs \in Seq(R!RawIds)
  BY DEF Bundles
<1>2. QED
  BY <1>1, ElementsAre

LEMMA RecallIsTyped == RecallInv => R!TypeOK
<1> SUFFICES ASSUME RecallInv PROVE R!TypeOK
  OBVIOUS
<1>1. /\ raw \in Seq({"event", "utterance"}) /\ Len(raw) <= MaxRaw
      /\ versions \in Seq(0..MaxVersions) /\ Len(versions) = Len(raw)
      /\ arcs \in Seq(SUBSET R!RawIds) /\ \A k \in DOMAIN arcs : arcs[k] # {}
      /\ R!ToSet(anchors) \subseteq R!Stored /\ bundle \in Bundles
  BY DEF RecallInv, StoreInv
<1>2. R!ToSet(versions) \subseteq 0..MaxVersions
  BY <1>1, ElementsAre
<1>3. \A k \in DOMAIN arcs : arcs[k] # {} /\ arcs[k] \subseteq R!RawIds
  BY <1>1
<1>4. R!ToSet(bundle.recent) \union R!ToSet(bundle.refs) \subseteq R!RawIds
      /\ R!ToSet(bundle.summaries) \subseteq R!Stored
  BY <1>1, BundlesAre
<1>5. QED
  BY <1>1, <1>2, <1>3, <1>4 DEF R!TypeOK

LEMMA RecallInit == R!Init => RecallInv
<1> SUFFICES ASSUME R!Init PROVE RecallInv
  OBVIOUS
<1>1. /\ raw = <<>> /\ arcs = <<>> /\ versions = <<>> /\ anchors = <<>>
      /\ bundle = R!EmptyBundle
  BY DEF R!Init
<1>2. R!ToSet(<<>>) = {} /\ R!IsInjective(<<>>)
  BY DEF R!ToSet, R!IsInjective
<1>3. /\ R!EmptyBundle.recent = <<>> /\ R!EmptyBundle.summaries = <<>>
      /\ R!EmptyBundle.refs = <<>> /\ R!EmptyBundle \in Bundles
  BY DEF R!EmptyBundle, Bundles
<1>4. StoreInv
  BY <1>1, RecallConstants DEF StoreInv
<1>5. QED
  BY <1>1, <1>2, <1>3, <1>4
     DEF RecallInv, R!NothingTwice, R!AnchorsSurface, R!OriginalsInReach,
         R!NeverBesideItsReframing

(* What is written beside a bundle takes nothing from it. *)
LEMMA BundleLasts ==
  ASSUME RecallInv, StoreInv', UNCHANGED <<anchors, bundle>>,
         R!RawIds \subseteq R!RawIds',
         \A k \in DOMAIN arcs : k \in DOMAIN arcs' /\ arcs'[k] = arcs[k],
         \A i \in R!RawIds : versions[i] <= versions'[i],
         \A i \in R!RawIds : versions[i] \in Nat /\ versions'[i] \in Nat
  PROVE  RecallInv'
<1>0. (\A p : p \in R!Stored <=>
           \/ \E i \in R!RawIds : p = R!Raw(i)
           \/ \E k \in DOMAIN arcs : p = R!Mod(k)
           \/ \E i \in R!RawIds, v \in 1..MaxVersions : p = R!Recon(i, v) /\ v <= versions[i])'
  BY StoredIs, PTL
<1>1. ASSUME NEW p \in R!Stored PROVE p \in R!Stored'
  <2>1. \/ \E i \in R!RawIds : p = R!Raw(i)
        \/ \E k \in DOMAIN arcs : p = R!Mod(k)
        \/ \E i \in R!RawIds, v \in 1..MaxVersions : p = R!Recon(i, v) /\ v <= versions[i]
    BY StoredIs
  <2>2. \/ \E i \in R!RawIds' : p = R!Raw(i)
        \/ \E k \in DOMAIN arcs' : p = R!Mod(k)
        \/ \E i \in R!RawIds', v \in 1..MaxVersions : p = R!Recon(i, v) /\ v <= versions'[i]
    <3>1. ASSUME NEW i \in R!RawIds, NEW v \in 1..MaxVersions, v <= versions[i]
          PROVE  i \in R!RawIds' /\ v <= versions'[i]
      <4>1. versions[i] \in Nat /\ versions'[i] \in Nat /\ versions[i] <= versions'[i]
        OBVIOUS
      <4>2. QED
        BY <3>1, <4>1
    <3>2. QED
      BY <2>1, <3>1
  <2>3. QED
    BY <1>0, <2>2
<1>2. bundle \in Bundles'
  <2>1. bundle \in Bundles
    BY DEF RecallInv
  <2>2. Seq(R!RawIds) \subseteq Seq(R!RawIds') /\ Seq(R!Stored) \subseteq Seq(R!Stored')
    BY <1>1
  <2>3. QED
    BY <2>1, <2>2 DEF Bundles
<1>3. R!ToSet(anchors) \subseteq R!Stored'
  BY <1>1 DEF RecallInv
<1>4. R!AnchorsSurface'
  <2>1. ASSUME NEW a \in R!ToSet(anchors) PROVE R!Surfaces(a)'
    <3>1. R!Surfaces(a) /\ a \in R!Stored
      BY DEF RecallInv, R!AnchorsSurface
    <3>2. a.tier = "MOD" => arcs'[a.of] = arcs[a.of]
      BY <3>1, PointsAre
    <3>3. QED
      BY <3>1, <3>2 DEF R!Surfaces
  <2>2. QED
    BY <2>1 DEF R!AnchorsSurface
<1>5. /\ R!NothingTwice' /\ R!OriginalsInReach' /\ R!NeverBesideItsReframing'
  BY DEF RecallInv, R!NothingTwice, R!OriginalsInReach, R!NeverBesideItsReframing
<1>6. QED
  BY <1>2, <1>3, <1>4, <1>5 DEF RecallInv

LEMMA WritingKeepsRecall ==
  ASSUME RecallInv, \/ \E kind \in {"event", "utterance"} : R!WriteRaw(kind)
                    \/ \E end \in {R!GameTs(i) : i \in R!RawIds} : R!GenerateArc(end)
                    \/ \E i \in R!RawIds : R!Reinterpret(i)
  PROVE  RecallInv'
<1>1. /\ raw \in Seq({"event", "utterance"}) /\ Len(raw) <= MaxRaw
      /\ versions \in Seq(0..MaxVersions) /\ Len(versions) = Len(raw)
      /\ arcs \in Seq(SUBSET R!RawIds) /\ \A k \in DOMAIN arcs : arcs[k] # {}
      /\ R!RawIds = 1..Len(raw) /\ Len(raw) \in Nat /\ MaxRaw \in Nat /\ MaxVersions \in Nat
      /\ DOMAIN versions = 1..Len(raw)
  BY RecallConstants DEF RecallInv, StoreInv, R!RawIds
<1>2. /\ \A i \in R!RawIds : versions[i] \in 0..MaxVersions
      /\ \A k \in DOMAIN arcs : arcs[k] \in SUBSET R!RawIds
  BY <1>1
<1>3. ASSUME NEW kind \in {"event", "utterance"}, R!WriteRaw(kind) PROVE RecallInv'
  <2>1. /\ Len(raw) < MaxRaw /\ raw' = Append(raw, kind) /\ versions' = Append(versions, 0)
        /\ UNCHANGED <<arcs, anchors, bundle>>
    BY <1>3 DEF R!WriteRaw
  <2>2. /\ raw' \in Seq({"event", "utterance"}) /\ Len(raw') = Len(raw) + 1
    BY <1>1, <2>1, AppendProperties
  <2>3. /\ versions' \in Seq(0..MaxVersions) /\ Len(versions') = Len(raw) + 1
        /\ \A i \in 1..Len(raw) : versions'[i] = versions[i]
    <3>1. 0 \in 0..MaxVersions
      BY <1>1
    <3>2. QED
      BY <1>1, <2>1, <3>1, AppendProperties
  <2>4. R!RawIds' = 1..(Len(raw) + 1) /\ R!RawIds \subseteq R!RawIds'
    BY <1>1, <2>2 DEF R!RawIds
  <2>5. StoreInv'
    <3>1. Seq(SUBSET R!RawIds) \subseteq Seq(SUBSET R!RawIds')
      <4>1. SUBSET R!RawIds \subseteq SUBSET R!RawIds'
        BY <2>4
      <4>2. QED
        BY <4>1
    <3>2. arcs' \in Seq(SUBSET R!RawIds') /\ \A k \in DOMAIN arcs' : arcs'[k] # {}
      BY <1>1, <2>1, <3>1
    <3>3. Len(raw') <= MaxRaw /\ Len(versions') = Len(raw')
      BY <1>1, <2>1, <2>2, <2>3
    <3>4. QED
      BY <2>2, <2>3, <3>2, <3>3 DEF StoreInv
  <2>6. \A i \in R!RawIds : versions[i] <= versions'[i] /\ versions[i] \in Nat
                            /\ versions'[i] \in Nat
    BY <1>1, <1>2, <2>3
  <2>7. QED
    BY <2>1, <2>4, <2>5, <2>6, BundleLasts
<1>4. ASSUME NEW end \in {R!GameTs(i) : i \in R!RawIds}, R!GenerateArc(end) PROVE RecallInv'
  <2> DEFINE before == {i \in R!RawIds : R!GameTs(i) <= end}
  <2>1. PICK page \in R!Pages(before) : page # {} /\ arcs' = Append(arcs, page)
    BY <1>4 DEF R!GenerateArc
  <2>2. UNCHANGED <<raw, versions, anchors, bundle>> /\ R!RawIds' = R!RawIds
    BY <1>4 DEF R!GenerateArc, R!RawIds
  <2>3. page \in SUBSET R!RawIds
    BY DEF R!Pages
  <2>4. /\ arcs' \in Seq(SUBSET R!RawIds)
        /\ \A k \in DOMAIN arcs : k \in DOMAIN arcs' /\ arcs'[k] = arcs[k]
        /\ \A k \in DOMAIN arcs' : k \in DOMAIN arcs \/ arcs'[k] = page
    <3> DEFINE len == Len(arcs)
    <3>1. /\ arcs' \in Seq(SUBSET R!RawIds) /\ len \in Nat /\ DOMAIN arcs = 1..len
          /\ DOMAIN arcs' = 1..(len + 1) /\ arcs'[len + 1] = page
          /\ \A k \in 1..len : arcs'[k] = arcs[k]
      BY <1>1, <2>1, <2>3, AppendProperties
    <3> HIDE DEF len
    <3>2. QED
      BY <3>1
  <2>5. StoreInv'
    BY <1>1, <2>1, <2>2, <2>4 DEF StoreInv
  <2>6. \A i \in R!RawIds : versions[i] <= versions'[i] /\ versions[i] \in Nat
                            /\ versions'[i] \in Nat
    BY <1>1, <1>2, <2>2
  <2>7. QED
    BY <2>2, <2>4, <2>5, <2>6, BundleLasts
<1>5. ASSUME NEW i \in R!RawIds, R!Reinterpret(i) PROVE RecallInv'
  <2>1. /\ versions[i] < MaxVersions /\ versions' = [versions EXCEPT ![i] = @ + 1]
        /\ UNCHANGED <<raw, arcs, anchors, bundle>> /\ R!RawIds' = R!RawIds
    BY <1>5 DEF R!Reinterpret, R!RawIds
  <2>2. \A j \in R!RawIds : versions'[j] = IF j = i THEN versions[i] + 1 ELSE versions[j]
    BY <1>1, <2>1
  <2>3. /\ versions[i] \in Nat /\ versions[i] + 1 \in 0..MaxVersions
    BY <1>1, <1>2, <2>1
  <2>4. \A j \in R!RawIds : versions'[j] \in 0..MaxVersions /\ versions[j] <= versions'[j]
    <3> SUFFICES ASSUME NEW j \in R!RawIds
                 PROVE  versions'[j] \in 0..MaxVersions /\ versions[j] <= versions'[j]
      OBVIOUS
    <3>1. CASE j = i
      BY <2>2, <2>3, <3>1
    <3>2. CASE j # i
      <4>1. versions'[j] = versions[j] /\ versions[j] \in 0..MaxVersions
        BY <1>2, <2>2, <3>2
      <4>2. QED
        BY <4>1
    <3>3. QED
      BY <3>1, <3>2
  <2>5. versions' \in Seq(0..MaxVersions) /\ Len(versions') = Len(versions)
    BY <1>1, <2>1, <2>3
  <2>6. StoreInv'
    BY <1>1, <2>1, <2>5 DEF StoreInv
  <2>7. \A j \in R!RawIds : versions[j] <= versions'[j] /\ versions[j] \in Nat
                            /\ versions'[j] \in Nat
    BY <1>1, <1>2, <2>4
  <2>8. QED
    BY <2>1, <2>6, <2>7, BundleLasts
<1>6. QED
  BY <1>3, <1>4, <1>5

(* A retrieval makes a bundle that keeps its promises. *)
LEMMA RetrieveKeeps ==
  ASSUME RecallInv, NEW fetched, R!Retrieve(fetched)
  PROVE  RecallInv'
<1>1. StoreInv
  BY DEF RecallInv
<1>2. PICK best \in R!Rankings : anchors' = best /\ bundle' = R!Expand(best, fetched)
  BY DEF R!Retrieve
<1>3. UNCHANGED <<raw, arcs, versions>>
  BY DEF R!Retrieve, R!storeVars
<1>4. best \in Seq(R!Stored) /\ R!IsInjective(best)
  <2> DEFINE size == R!Cardinality(R!Stored)
             n == IF size <= FinalLimit THEN size ELSE FinalLimit
  <2>1. n \in Nat
    BY <1>1, StoredIsFinite, RecallConstants
  <2>2. (best \in [1..n -> R!Stored] /\ R!IsInjective(best)) \/ best = <<>>
    BY DEF R!Rankings
  <2> HIDE DEF n
  <2>3. CASE best \in [1..n -> R!Stored] /\ R!IsInjective(best)
    BY <2>1, <2>3
  <2>4. CASE best = <<>>
    BY <2>4 DEF R!IsInjective
  <2>5. QED
    BY <2>2, <2>3, <2>4
<1>5. PICK b : /\ SoundBundle(best, Len(best), b)
               /\ R!Expand(best, fetched) = [b EXCEPT !.recent = R!ByGameTs(@)]
  BY <1>1, <1>4, ExpandIs
<1> DEFINE c == R!Covered(best)
<1>6. /\ b \in Bundles /\ b.recent \in Seq(R!RawIds) /\ b.summaries \in Seq(R!Stored)
      /\ b.refs \in Seq(R!RawIds)
      /\ R!IsInjective(b.recent) /\ R!IsInjective(b.summaries) /\ R!IsInjective(b.refs)
      /\ R!ToSet(b.recent) \intersect c = {}
      /\ R!ToSet(b.summaries) \subseteq {best[j] : j \in 1..Len(best)}
      /\ \A s \in R!ToSet(b.summaries) : s.tier = "RECON" => s.of \in R!ToSet(b.refs)
      /\ \A j \in 1..Len(best) : Carries(best, best[j], b)
  BY <1>5 DEF SoundBundle, Bundles
<1>7. /\ R!ByGameTs(b.recent) \in Seq(R!RawIds)
      /\ R!ToSet(R!ByGameTs(b.recent)) = R!ToSet(b.recent)
      /\ R!IsInjective(R!ByGameTs(b.recent))
  BY <1>1, <1>6, ChronologyIs DEF StoreInv
<1>8. bundle' = [recent |-> R!ByGameTs(b.recent), summaries |-> b.summaries, refs |-> b.refs]
  BY <1>2, <1>5, <1>6 DEF Bundles
<1>9. /\ bundle'.summaries = b.summaries /\ bundle'.refs = b.refs
      /\ R!ToSet(bundle'.recent) = R!ToSet(b.recent) /\ R!IsInjective(bundle'.recent)
      /\ bundle' \in Bundles
  BY <1>6, <1>7, <1>8 DEF Bundles
<1>10. Len(best) \in Nat /\ DOMAIN best = 1..Len(best)
  BY <1>4
<1>11. /\ \A j \in 1..Len(best) : best[j].tier = "RECON" =>
            best[j].of \in c /\ best[j] \in R!ToSet(b.summaries)
       /\ \A i \in c : \E s \in R!ToSet(b.summaries) : s.tier = "RECON" /\ s.of = i
  <2>1. ASSUME NEW j \in 1..Len(best), best[j].tier = "RECON"
        PROVE  best[j].of \in c /\ best[j] \in R!ToSet(b.summaries)
    <3>1. best[j].of \in c
      BY <1>10, <2>1 DEF R!Covered
    <3>2. Carries(best, best[j], b)
      BY <1>6
    <3>3. "RECON" # "RAW" /\ "RECON" # "MOD"
      OBVIOUS
    <3>4. QED
      BY <2>1, <3>1, <3>2, <3>3 DEF Carries
  <2>2. ASSUME NEW i \in c
        PROVE  \E s \in R!ToSet(b.summaries) : s.tier = "RECON" /\ s.of = i
    <3>1. PICK k \in DOMAIN best : best[k].tier = "RECON" /\ best[k].of = i
      BY <2>2 DEF R!Covered
    <3>2. best[k] \in R!ToSet(b.summaries)
      BY <1>10, <2>1, <3>1
    <3>3. QED
      BY <3>1, <3>2
  <2>3. QED
    BY <2>1, <2>2
<1> HIDE DEF c
<1>12. R!AnchorsSurface'
  <2> DEFINE reframed == {s.of : s \in {t \in R!ToSet(b.summaries) : t.tier = "RECON"}}
  <2>1. \A i \in c : i \in reframed
    BY <1>11
  <2>2. ASSUME NEW a \in R!ToSet(best) PROVE R!Surfaces(a)'
    <3>1. Carries(best, a, b)
      BY <1>6, <1>10 DEF R!ToSet
    <3>2. \/ a \in R!ToSet(b.summaries)
          \/ a.tier = "RAW" /\ a.of \in reframed \union R!ToSet(b.recent)
          \/ a.tier = "MOD" /\ arcs[a.of] \subseteq reframed
      <4> HIDE DEF reframed
      <4> QED BY <2>1, <3>1 DEF Carries, c
    <3>3. QED
      BY <1>3, <1>9, <3>2 DEF R!Surfaces
  <2>3. QED
    BY <1>2, <2>2 DEF R!AnchorsSurface
<1>13. R!NeverBesideItsReframing'
  <2>1. ASSUME NEW s \in R!ToSet(b.summaries), s.tier = "RECON"
        PROVE  s.of \notin R!ToSet(b.recent)
    <3>1. PICK j \in 1..Len(best) : s = best[j]
      BY <1>6
    <3>2. s.of \in c
      BY <1>11, <2>1, <3>1
    <3>3. QED
      BY <1>6, <3>2
  <2>2. \A k \in DOMAIN b.summaries : b.summaries[k] \in R!ToSet(b.summaries)
    BY DEF R!ToSet
  <2>3. QED
    BY <1>9, <2>1, <2>2 DEF R!NeverBesideItsReframing
<1>14. R!NothingTwice' /\ R!OriginalsInReach'
  BY <1>6, <1>9 DEF R!NothingTwice, R!OriginalsInReach
<1>15. /\ StoreInv' /\ R!ToSet(anchors') \subseteq R!Stored' /\ bundle' \in Bundles'
  <2>1. R!RawIds' = R!RawIds /\ R!Stored' = R!Stored
    BY <1>3 DEF R!RawIds, R!Stored, R!Points
  <2>2. Bundles' = Bundles
    BY <2>1 DEF Bundles
  <2>3. StoreInv'
    BY <1>1, <1>3, <2>1 DEF StoreInv
  <2>4. R!ToSet(anchors') \subseteq R!Stored
    BY <1>2, <1>4, ElementsAre
  <2>5. QED
    BY <1>9, <2>1, <2>2, <2>3, <2>4
<1>16. QED
  BY <1>12, <1>13, <1>14, <1>15 DEF RecallInv

LEMMA RecallStepKeeps ==
  ASSUME RecallInv, R!Next
  PROVE  RecallInv'
<1>1. CASE R!UseBundle
  <2>1. /\ anchors' = <<>> /\ bundle' = R!EmptyBundle /\ UNCHANGED <<raw, arcs, versions>>
    BY <1>1 DEF R!UseBundle, R!storeVars
  <2>2. R!ToSet(<<>>) = {} /\ R!IsInjective(<<>>)
    BY DEF R!ToSet, R!IsInjective
  <2>3. /\ R!EmptyBundle.recent = <<>> /\ R!EmptyBundle.summaries = <<>>
        /\ R!EmptyBundle.refs = <<>> /\ R!EmptyBundle \in Bundles'
    BY DEF R!EmptyBundle, Bundles
  <2>4. StoreInv'
    BY <2>1 DEF RecallInv, StoreInv, R!RawIds
  <2>5. QED
    BY <2>1, <2>2, <2>3, <2>4
       DEF RecallInv, R!NothingTwice, R!AnchorsSurface, R!OriginalsInReach,
           R!NeverBesideItsReframing
<1>2. ASSUME NEW fetched \in R!Fetches, R!Retrieve(fetched) PROVE RecallInv'
  BY <1>2, RetrieveKeeps
<1>3. QED
  BY <1>1, <1>2, WritingKeepsRecall DEF R!Next

LEMMA RecallAlways == PartsSpec => []RecallInv
<1>1. PartsInit => RecallInv
  BY RecallInit DEF PartsInit
<1>2. ASSUME RecallInv, [PartsNext]_vars PROVE RecallInv'
  <2>1. CASE MemoriesStep
    BY <1>2, <2>1, RecallStepKeeps DEF MemoriesStep
  <2>2. CASE UNCHANGED recallVars
    <3>1. UNCHANGED <<raw, arcs, versions, anchors, bundle>>
      BY <2>2 DEF recallVars
    <3>2. R!RawIds' = R!RawIds /\ R!Stored' = R!Stored /\ Bundles' = Bundles
      BY <3>1 DEF R!RawIds, R!Stored, R!Points, Bundles
    <3>3. StoreInv' = StoreInv
      BY <3>1, <3>2 DEF StoreInv
    <3>4. (R!NothingTwice /\ R!AnchorsSurface /\ R!OriginalsInReach
             /\ R!NeverBesideItsReframing)'
      BY <1>2, <3>1 DEF RecallInv, R!NothingTwice, R!AnchorsSurface, R!Surfaces,
         R!OriginalsInReach, R!NeverBesideItsReframing
    <3>5. QED
      BY <1>2, <3>1, <3>2, <3>3, <3>4 DEF RecallInv
  <2>3. QED
    BY <1>2, <2>1, <2>2 DEF PartsNext, vars, FactsStep, SchedulerStep,
       GoalsStep, NightsStep, TiersStep
<1>3. QED
  BY <1>1, <1>2, PTL DEF PartsSpec

(* A bundle repeats nothing, surfaces every anchor in some form, keeps the  *)
(* original of what is reframed in reach and shows no memory beside its    *)
(* reinterpretation, for any store, however arcs overlap, whatever the     *)
(* query ranks first and whatever fails (_expand_to_bundle).               *)
THEOREM BundlesKeepTheirPromises == PartsSpec => []BundleInvariant
<1>1. RecallInv => BundleInvariant
  BY DEF RecallInv, BundleInvariant
<1>2. QED
  BY <1>1, RecallAlways, PTL

-----------------------------------------------------------------------------
(* The nights. *)

(* Finiteness and Cardinality, as the instance of Reconsolidation names    *)
(* them.                                                                   *)
LEMMA NightsCounted ==
  ASSUME NEW T
  PROVE  N!Cardinality(T) = Cardinality(T) /\ N!IsFiniteSet(T) = IsFiniteSet(T)
<1>1. N!Cardinality(T) = Cardinality(T)
  BY DEF N!Cardinality, Cardinality
<1>2. N!IsFiniteSet(T) = IsFiniteSet(T)
  BY Zenon DEF N!IsFiniteSet, IsFiniteSet
<1>3. QED
  BY <1>1, <1>2

LEMMA NightConstants ==
  /\ IsFiniteSet(Sources) /\ RawKey \in [Sources -> N!Keys]
  /\ MaxKey \in Nat /\ TopK \in Nat \ {0} /\ ScanLimit \in Nat
  /\ Threshold \in Nat \ {0} /\ Hysteresis \in Nat /\ MaxDrift \in Nat \ {0}
  /\ MaxNights \in Nat
  BY PartsAssumption, NightsCounted, Zenon DEF N!ReconAssumption

PointIds == Sources \X N!Versions

(* Scans answer, and their limit covers all there can be. *)
ScansAreComplete == ~ScansFail /\ Cardinality(PointIds) <= ScanLimit

LEMMA IdsAreFinite ==
  /\ IsFiniteSet(PointIds) /\ Cardinality(PointIds) \in Nat
  /\ \A s \in Sources, v \in N!Versions : <<s, v>> \in PointIds
  /\ \A p \in PointIds : /\ p = <<p[1], p[2]>> /\ p[1] \in Sources
                    /\ p[2] \in Nat /\ 1 <= p[2] /\ p[2] <= MaxNights
<1>1. IsFiniteSet(N!Versions)
  BY NightConstants, FS_Interval DEF N!Versions
<1>2. IsFiniteSet(PointIds)
  BY <1>1, NightConstants, FS_Product DEF PointIds
<1>3. QED
  BY <1>2, NightConstants, FS_CardinalityType DEF PointIds, N!Versions

LEMMA ScansFindAll ==
  ASSUME ScansAreComplete, DOMAIN recon \subseteq PointIds, NEW found \in N!Scanned
  PROVE  found = DOMAIN recon
<1>1. IsFiniteSet(DOMAIN recon) /\ Cardinality(DOMAIN recon) <= ScanLimit
      /\ Cardinality(DOMAIN recon) \in Nat
  BY IdsAreFinite, NightConstants, FS_Subset, FS_CardinalityType DEF ScansAreComplete
<1>2. found \in SUBSET DOMAIN recon
  BY DEF N!Scanned, N!Page
<1>3. N!Cardinality(found) = IF N!Cardinality(DOMAIN recon) < ScanLimit
                               THEN N!Cardinality(DOMAIN recon) ELSE ScanLimit
  BY DEF N!Scanned, N!Page, ScansAreComplete
<1>4. Cardinality(found) = Cardinality(DOMAIN recon)
  BY <1>1, <1>3, NightConstants, NightsCounted
<1>5. QED
  BY <1>1, <1>2, <1>4, FS_Subset

(* What a scan makes of a memory is its greatest version, or 0. *)
LEMMA LatestIsGreatest ==
  ASSUME NEW found \in SUBSET PointIds, NEW s \in Sources,
         NEW v, v = N!LatestOf(s, found)
  PROVE  /\ v \in 0..MaxNights
         /\ v # 0 => <<s, v>> \in found
         /\ \A q \in found : q[1] = s => q[2] <= v
<1> DEFINE own == {p \in found : p[1] = s}
<1>1. IsFiniteSet(own)
  BY IdsAreFinite, FS_Subset
<1>2. CASE own = {}
  BY <1>2, NightConstants DEF N!LatestOf
<1>3. CASE own # {}
  <2> DEFINE f == [p \in own |-> p[2]]
             best(p) == p[1] = s /\ \A q \in found : q[1] = s => q[2] <= p[2]
  <2>1. \A p \in own : f[p] \in Nat
    BY IdsAreFinite
  <2>2. \E p \in own : \A q \in own : f[q] <= f[p]
    <3> HIDE DEF own, f
    <3> QED BY <1>1, <1>3, <2>1, GreatestValue
  <2>3. \E p \in found : best(p)
    BY <2>2
  <2>4. v = (CHOOSE p \in found : best(p))[2]
    BY <2>3 DEF N!LatestOf
  <2>5. PICK p \in found : best(p) /\ v = p[2]
    <3> HIDE DEF best
    <3> QED BY <2>3, <2>4
  <2>6. p = <<s, v>> /\ v \in 0..MaxNights
    BY <2>5, IdsAreFinite, NightConstants
  <2>7. QED
    BY <2>5, <2>6
<1>4. QED
  BY <1>2, <1>3

(* What a night knows is how far the versions have come: each point is at  *)
(* most the version the night's scan found, from a night before, or the    *)
(* next one, of tonight.                                                   *)
VersionsByNight ==
  /\ todo # <<>> => nights # 0
  /\ \A p \in DOMAIN recon :
       /\ p[2] <= recon[p].night /\ recon[p].attempts = p[2]
       /\ \/ p[2] <= prior[p[1]] /\ recon[p].night < nights
          \/ p[2] = prior[p[1]] + 1 /\ recon[p].night = nights
  /\ \A s \in Sources : prior[s] # 0 =>
       <<s, prior[s]>> \in DOMAIN recon /\ recon[<<s, prior[s]>>].night < nights

NightsInv == N!TypeOK /\ N!ChainUnbroken /\ N!DriftBounded /\ VersionsByNight

LEMMA NightsInit == N!Init => NightsInv
<1> SUFFICES ASSUME N!Init PROVE NightsInv
  OBVIOUS
<1>1. DOMAIN recon = {} /\ nights = 0 /\ todo = <<>> /\ \A s \in Sources : prior[s] = 0
  BY DEF N!Init
<1>2. N!TypeOK
  BY <1>1, NightConstants DEF N!Init, N!TypeOK
<1>3. QED
  BY <1>1, <1>2 DEF NightsInv, N!ChainUnbroken, N!DriftBounded, VersionsByNight

(* Whatever a scan found, a selection is a list of memories. *)
LEMMA SelectionIs ==
  ASSUME NEW seen \in SUBSET Sources, NEW pred, NEW q \in N!Selections(seen, pred)
  PROVE  q \in Seq(Sources)
<1>1. N!Dissonant(seen, pred) \in SUBSET Sources
  BY DEF N!Dissonant
<1>2. Cardinality(N!Dissonant(seen, pred)) \in Nat
  BY <1>1, NightConstants, FS_Subset, FS_CardinalityType
<1>3. N!Count(seen, pred) \in Nat
  BY <1>2, NightConstants, NightsCounted DEF N!Count
<1>4. q \in [1..N!Count(seen, pred) -> N!Dissonant(seen, pred)]
  BY DEF N!Selections
<1>5. QED
  BY <1>1, <1>3, <1>4

(* A night begins: it finds the versions of the nights before. *)
LEMMA GoodnightKeeps ==
  ASSUME NightsInv, ScansAreComplete, NEW pred \in [Sources -> N!Keys],
         N!Goodnight(pred)
  PROVE  NightsInv'
<1>1. DOMAIN recon \in SUBSET PointIds /\ recon' = recon /\ nights' = nights + 1
      /\ nights \in 0..MaxNights /\ nights < MaxNights
  BY DEF NightsInv, N!TypeOK, N!Goodnight, PointIds
<1>2. prior' = [s \in Sources |-> N!LatestOf(s, DOMAIN recon)]
  <2>1. PICK found \in N!Scanned : prior' = [s \in Sources |-> N!LatestOf(s, found)]
    BY DEF N!Goodnight
  <2>2. QED
    BY <1>1, <2>1, ScansFindAll
<1>3. ASSUME NEW s \in Sources
      PROVE  /\ prior'[s] \in 0..MaxNights
             /\ prior'[s] # 0 => <<s, prior'[s]>> \in DOMAIN recon
             /\ \A q \in DOMAIN recon : q[1] = s => q[2] <= prior'[s]
  <2>1. prior'[s] = N!LatestOf(s, DOMAIN recon)
    BY <1>2
  <2>2. QED
    BY <1>1, <2>1, LatestIsGreatest
<1>4. todo' \in Seq(Sources)
  BY SelectionIs DEF N!Goodnight, N!RawScans
<1>5. N!TypeOK'
  <2>1. prior' \in [Sources -> 0..MaxNights]
    BY <1>2, <1>3
  <2>2. mind' \in [Sources -> N!Keys]
    BY DEF N!Goodnight
  <2>3. /\ DOMAIN recon' \subseteq Sources \X N!Versions
        /\ \A p \in DOMAIN recon' : recon'[p] \in N!Point
    BY <1>1 DEF NightsInv, N!TypeOK
  <2>4. nights' \in 0..MaxNights
    BY <1>1, NightConstants
  <2>5. QED
    BY <1>4, <2>1, <2>2, <2>3, <2>4 DEF N!TypeOK
<1>6. (N!ChainUnbroken /\ N!DriftBounded)'
  BY <1>1 DEF NightsInv, N!ChainUnbroken, N!DriftBounded
<1>7. ASSUME NEW p \in DOMAIN recon
      PROVE  /\ recon[p].night \in Nat /\ recon[p].night <= nights
             /\ p[1] \in Sources
             /\ p[2] <= recon[p].night /\ recon[p].attempts = p[2]
             /\ p[2] <= prior'[p[1]]
  <2>1. p[1] \in Sources
    BY <1>1, IdsAreFinite
  <2>2. recon[p] \in N!Point
    BY DEF NightsInv, N!TypeOK
  <2>3. recon[p].night \in Nat
    BY <2>2, NightConstants DEF N!Point, N!Versions
  <2>4. /\ p[2] <= recon[p].night /\ recon[p].attempts = p[2]
        /\ recon[p].night < nights \/ recon[p].night = nights
    BY DEF NightsInv, VersionsByNight
  <2>5. p[2] <= prior'[p[1]]
    BY <1>3, <2>1
  <2>6. recon[p].night <= nights
    BY <1>1, <2>3, <2>4
  <2>7. QED
    BY <2>1, <2>3, <2>4, <2>5, <2>6
<1>8. VersionsByNight'
  <2>1. \A p \in DOMAIN recon :
          /\ p[2] <= recon[p].night /\ recon[p].attempts = p[2]
          /\ p[2] <= prior'[p[1]] /\ recon[p].night < nights + 1
    BY <1>1, <1>7
  <2>2. \A s \in Sources : prior'[s] # 0 =>
          <<s, prior'[s]>> \in DOMAIN recon /\ recon[<<s, prior'[s]>>].night < nights + 1
    BY <1>1, <1>3, <1>7
  <2>3. nights' # 0
    BY <1>1
  <2>4. QED
    BY <1>1, <2>1, <2>2, <2>3 DEF VersionsByNight
<1>9. QED
  BY <1>5, <1>6, <1>8 DEF NightsInv

(* The step of a memory is half of what is left, and MaxDrift at most. *)
LEMMA DriftIsClamped ==
  ASSUME NEW k \in Nat, NEW p \in Nat,
         NEW d, d = (IF k < p THEN p - k ELSE k - p),
         NEW step, step = (IF d \div 2 < MaxDrift THEN d \div 2 ELSE MaxDrift),
         NEW new, new = (IF k < p THEN k + step ELSE k - step),
         k <= MaxKey, p <= MaxKey
  PROVE  /\ new \in 0..MaxKey
         /\ (IF new < k THEN k - new ELSE new - k) <= MaxDrift
<1>1. d \in Nat /\ MaxDrift \in Nat /\ MaxDrift # 0
  BY NightConstants
<1>2. d \div 2 \in Nat /\ d \div 2 <= d
  BY <1>1
<1>3. step \in Nat /\ step <= d /\ step <= MaxDrift
  BY <1>1, <1>2
<1>4. QED
  BY <1>1, <1>3, NightConstants

(* The key of a new version is on the line, and MaxDrift at most from the   *)
(* one it starts from.                                                     *)
LEMMA NewKeyIs ==
  ASSUME NEW s \in Sources, N!BaseKey(s) \in N!Keys, mind[s] \in N!Keys
  PROVE  /\ N!NewKey(s) \in N!Keys
         /\ N!Dissonance(N!NewKey(s), N!BaseKey(s)) <= MaxDrift
<1> DEFINE k == N!BaseKey(s)
           m == mind[s]
           d == IF k < m THEN m - k ELSE k - m
           step == IF d \div 2 < MaxDrift THEN d \div 2 ELSE MaxDrift
           moved == IF k < m THEN k + step ELSE k - step
<1>1. N!NewKey(s) = moved
  BY DEF N!NewKey, N!Step, N!Trigger, N!Dissonance
<1>2. k \in Nat /\ m \in Nat /\ k <= MaxKey /\ m <= MaxKey
  BY NightConstants DEF N!Keys
<1>3. /\ moved \in 0..MaxKey
      /\ (IF moved < k THEN k - moved ELSE moved - k) <= MaxDrift
  <2> HIDE DEF k, m
  <2> QED BY <1>2, DriftIsClamped, Zenon
<1>4. QED
  BY <1>1, <1>3 DEF N!Keys, N!Dissonance

(* A new version follows the one that the night's scan found. *)
LEMMA NewVersionKeeps ==
  ASSUME NightsInv, todo # <<>>, NEW s \in Sources, N!Eligible(s),
         N!Upsert(<<s, N!NextVersion(s)>>, N!Reinterpreted(s)),
         UNCHANGED <<nights, mind, prior>>, todo' \in Seq(Sources)
  PROVE  NightsInv'
<1> DEFINE v == prior[s]
           id == <<s, v + 1>>
           q == <<s, v>>
           new == N!Reinterpreted(s)
<1>1. /\ DOMAIN recon \in SUBSET PointIds /\ \A p \in DOMAIN recon : recon[p] \in N!Point
      /\ nights \in 0..MaxNights /\ nights # 0 /\ v \in 0..MaxNights
  BY DEF NightsInv, N!TypeOK, VersionsByNight, PointIds
<1>2. v # 0 => /\ q \in DOMAIN recon /\ q \in PointIds
               /\ recon[q].night < nights /\ v <= recon[q].night
               /\ recon[q].night \in Nat /\ recon[q].attempts = v
               /\ recon[q].key \in N!Keys /\ ~recon[q].stalled
  <2> SUFFICES ASSUME v # 0
               PROVE  /\ q \in DOMAIN recon /\ q \in PointIds
                      /\ recon[q].night < nights /\ v <= recon[q].night
                      /\ recon[q].night \in Nat /\ recon[q].attempts = v
                      /\ recon[q].key \in N!Keys /\ ~recon[q].stalled
    OBVIOUS
  <2>1. q \in DOMAIN recon /\ recon[q].night < nights
    BY DEF NightsInv, VersionsByNight
  <2>2. q[2] <= recon[q].night /\ recon[q].attempts = q[2]
    BY <2>1 DEF NightsInv, VersionsByNight
  <2>3. recon[q].night \in Nat /\ recon[q].key \in N!Keys
    BY <1>1, <2>1, NightConstants DEF N!Point, N!Versions
  <2>4. ~recon[q].stalled
    BY DEF N!Eligible
  <2>5. QED
    BY <1>1, <2>1, <2>2, <2>3, <2>4
<1>3. v + 1 \in N!Versions /\ v + 1 <= nights /\ id \in PointIds /\ nights \in N!Versions
  <2>1. v + 1 <= nights
    BY <1>1, <1>2
  <2>2. v + 1 \in N!Versions /\ nights \in N!Versions
    BY <1>1, <2>1, NightConstants DEF N!Versions
  <2>3. QED
    BY <2>1, <2>2, IdsAreFinite
<1>4. /\ recon' = [p \in DOMAIN recon \union {id} |-> IF p = id THEN new ELSE recon[p]]
      /\ DOMAIN recon' = DOMAIN recon \union {id}
  BY DEF N!Upsert, N!NextVersion
<1>5. /\ new.supersedes = v /\ new.attempts = v + 1 /\ new.night = nights
      /\ new.key = N!NewKey(s) /\ new.stalled \in BOOLEAN
  <2>1. N!Attempts(s) = v + 1
    BY <1>1, <1>2 DEF N!Attempts
  <2>2. QED
    BY <2>1 DEF N!Reinterpreted
<1>6. /\ N!NewKey(s) \in N!Keys
      /\ N!Dissonance(N!NewKey(s), N!BaseKey(s)) <= MaxDrift
  <2>1. N!BaseKey(s) \in N!Keys
    BY <1>2, NightConstants DEF N!BaseKey
  <2>2. mind[s] \in N!Keys
    BY DEF NightsInv, N!TypeOK
  <2>3. QED
    BY <2>1, <2>2, NewKeyIs
<1>7. new \in N!Point
  BY <1>3, <1>5, <1>6, <1>1 DEF N!Point, N!Reinterpreted, N!Nobody, N!Versions
<1> HIDE DEF new
<1>8. \A p \in DOMAIN recon : p # id => p \in DOMAIN recon' /\ recon'[p] = recon[p]
  BY <1>4
<1>9. recon'[id] = new /\ id \in DOMAIN recon'
  BY <1>4
<1>10. N!TypeOK'
  <2>1. /\ DOMAIN recon' \subseteq Sources \X N!Versions
        /\ \A p \in DOMAIN recon' : recon'[p] \in N!Point
    BY <1>1, <1>3, <1>4, <1>7 DEF PointIds
  <2>2. QED
    BY <2>1 DEF NightsInv, N!TypeOK
(* The version before another one is not the new one: nothing follows it.  *)
<1>11. ASSUME NEW p \in DOMAIN recon, p # id, p[2] # 1
       PROVE  /\ <<p[1], p[2] - 1>> \in DOMAIN recon
              /\ <<p[1], p[2] - 1>> # id
  <2>1. <<p[1], p[2] - 1>> \in DOMAIN recon
    BY <1>11 DEF NightsInv, N!ChainUnbroken
  <2>2. p[1] = s => p[2] <= v + 1
    BY <1>1, <1>11, IdsAreFinite DEF NightsInv, VersionsByNight
  <2>3. p \in PointIds
    BY <1>1
  <2>4. QED
    BY <1>1, <2>1, <2>2, <2>3, IdsAreFinite
<1>12. N!ChainUnbroken'
  <2> SUFFICES ASSUME NEW p \in DOMAIN recon'
               PROVE  IF p[2] = 1 THEN recon'[p].supersedes = N!Nobody
                      ELSE LET b == <<p[1], p[2] - 1>> IN
                           /\ recon'[p].supersedes = b[2]
                           /\ b \in DOMAIN recon'
                           /\ recon'[b].night < recon'[p].night
                           /\ ~recon'[b].stalled
                           /\ recon'[p].attempts = p[2]
    BY DEF N!ChainUnbroken
  <2>1. CASE p = id
    <3>1. CASE v = 0
      BY <1>5, <1>9, <2>1, <3>1 DEF N!Nobody
    <3>2. CASE v # 0
      <4>1. p[1] = s /\ p[2] = v + 1 /\ p[2] # 1 /\ p[2] - 1 = v
        BY <1>1, <2>1, <3>2
      <4>2. q # id /\ recon'[q] = recon[q] /\ q \in DOMAIN recon'
        BY <1>1, <1>2, <1>8, <3>2
      <4>3. QED
        BY <1>2, <1>5, <1>9, <2>1, <3>2, <4>1, <4>2
    <3>3. QED
      BY <3>1, <3>2
  <2>2. CASE p # id
    <3>1. p \in DOMAIN recon /\ recon'[p] = recon[p]
      BY <1>4, <1>8, <2>2
    <3>2. CASE p[2] = 1
      BY <3>1, <3>2 DEF NightsInv, N!ChainUnbroken
    <3>3. CASE p[2] # 1
      <4> DEFINE b == <<p[1], p[2] - 1>>
      <4>1. b \in DOMAIN recon /\ recon'[b] = recon[b] /\ b \in DOMAIN recon'
        BY <1>8, <1>11, <2>2, <3>1, <3>3
      <4>2. /\ recon[p].supersedes = b[2] /\ recon[b].night < recon[p].night
            /\ ~recon[b].stalled /\ recon[p].attempts = p[2]
        BY <3>1, <3>3 DEF NightsInv, N!ChainUnbroken
      <4>3. QED
        BY <3>1, <3>3, <4>1, <4>2
    <3>4. QED
      BY <3>2, <3>3
  <2>3. QED
    BY <2>1, <2>2
<1>13. N!DriftBounded'
  <2> SUFFICES ASSUME NEW p \in DOMAIN recon', NEW before,
                      before = IF p[2] = 1 THEN RawKey[p[1]]
                               ELSE recon'[<<p[1], p[2] - 1>>].key
               PROVE  N!Dissonance(recon'[p].key, before) <= MaxDrift
    BY DEF N!DriftBounded, N!Dissonance
  <2>1. CASE p = id
    <3>1. before = N!BaseKey(s)
      <4>1. CASE v = 0
        BY <2>1, <4>1 DEF N!BaseKey
      <4>2. CASE v # 0
        <5>1. p[1] = s /\ p[2] = v + 1 /\ p[2] # 1 /\ p[2] - 1 = v
          BY <1>1, <2>1, <4>2
        <5>2. q # id /\ recon'[q] = recon[q]
          BY <1>1, <1>2, <1>8, <4>2
        <5>3. QED
          BY <4>2, <5>1, <5>2 DEF N!BaseKey
      <4>3. QED
        BY <4>1, <4>2
    <3>2. QED
      BY <1>5, <1>6, <1>9, <2>1, <3>1
  <2>2. CASE p # id
    <3>1. p \in DOMAIN recon /\ recon'[p] = recon[p]
      BY <1>4, <1>8, <2>2
    <3>2. before = IF p[2] = 1 THEN RawKey[p[1]] ELSE recon[<<p[1], p[2] - 1>>].key
      BY <1>8, <1>11, <2>2, <3>1
    <3>3. QED
      BY <3>1, <3>2 DEF NightsInv, N!DriftBounded
  <2>3. QED
    BY <2>1, <2>2
<1>14. VersionsByNight'
  <2>1. ASSUME NEW p \in DOMAIN recon'
        PROVE  /\ p[2] <= recon'[p].night /\ recon'[p].attempts = p[2]
               /\ \/ p[2] <= prior[p[1]] /\ recon'[p].night < nights
                  \/ p[2] = prior[p[1]] + 1 /\ recon'[p].night = nights
    <3>1. CASE p = id
      BY <1>3, <1>5, <1>9, <3>1
    <3>2. CASE p # id
      <4>1. p \in DOMAIN recon /\ recon'[p] = recon[p]
        BY <1>4, <1>8, <3>2
      <4>2. QED
        BY <4>1 DEF NightsInv, VersionsByNight
    <3>3. QED
      BY <3>1, <3>2
  <2>2. ASSUME NEW t \in Sources, prior[t] # 0
        PROVE  <<t, prior[t]>> \in DOMAIN recon' /\ recon'[<<t, prior[t]>>].night < nights
    <3>1. <<t, prior[t]>> \in DOMAIN recon /\ recon[<<t, prior[t]>>].night < nights
      BY <2>2 DEF NightsInv, VersionsByNight
    <3>2. <<t, prior[t]>> # id
      BY <1>1
    <3>3. QED
      BY <1>8, <3>1, <3>2
  <2>3. nights' = nights /\ prior' = prior /\ nights # 0
    BY <1>1
  <2>4. QED
    BY <2>1, <2>2, <2>3 DEF VersionsByNight
<1>15. QED
  BY <1>10, <1>12, <1>13, <1>14 DEF NightsInv

LEMMA NightStepKeeps ==
  ASSUME NightsInv, ScansAreComplete, N!Next
  PROVE  NightsInv'
<1>1. CASE \E pred \in [Sources -> N!Keys] : N!Goodnight(pred)
  BY <1>1, GoodnightKeeps
<1>2. ASSUME UNCHANGED <<recon, nights, mind, prior>>, todo' \in Seq(Sources),
             todo' # <<>> => todo # <<>>
      PROVE  NightsInv'
  BY <1>2 DEF NightsInv, N!TypeOK, N!ChainUnbroken, N!DriftBounded, VersionsByNight
<1>3. todo \in Seq(Sources)
  BY DEF NightsInv, N!TypeOK
<1>4. todo # <<>> => Tail(todo) \in Seq(Sources) /\ Head(todo) \in Sources
  BY <1>3
<1>5. CASE N!Skip
  BY <1>2, <1>4, <1>5 DEF N!Skip
<1>6. CASE N!Crash
  BY <1>2, <1>6 DEF N!Crash
<1>7. CASE N!Reconsolidate
  <2> DEFINE s == Head(todo)
  <2>1. /\ todo # <<>> /\ s \in Sources /\ todo' \in Seq(Sources)
        /\ N!Eligible(s) /\ UNCHANGED <<nights, mind, prior>>
        /\ \/ N!Upsert(<<s, N!NextVersion(s)>>, N!Reinterpreted(s))
           \/ UNCHANGED recon
    BY <1>4, <1>7 DEF N!Reconsolidate
  <2> HIDE DEF s
  <2>2. CASE UNCHANGED recon
    BY <1>2, <2>1, <2>2
  <2>3. CASE N!Upsert(<<s, N!NextVersion(s)>>, N!Reinterpreted(s))
    BY <2>1, <2>3, NewVersionKeeps
  <2>4. QED
    BY <2>1, <2>2, <2>3
<1>8. QED
  BY <1>1, <1>5, <1>6, <1>7 DEF N!Next

(* The versions of a memory form a chain of bounded steps, over nights      *)
(* that lose writes or are cut short, as long as scans do not fail and     *)
(* their limit is not reached (run_reconsolidation).                       *)
THEOREM NightsKeepTheChain ==
  ASSUME ScansAreComplete
  PROVE  PartsSpec => []NightsInvariant
<1>1. PartsInit => NightsInv
  BY NightsInit DEF PartsInit
<1>2. ASSUME NightsInv, [PartsNext]_vars PROVE NightsInv'
  <2>1. CASE NightsStep
    BY <1>2, <2>1, NightStepKeeps DEF NightsStep
  <2>2. CASE UNCHANGED reconVars
    BY <1>2, <2>2 DEF reconVars, NightsInv, N!TypeOK, N!ChainUnbroken,
       N!DriftBounded, VersionsByNight
  <2>3. QED
    BY <1>2, <2>1, <2>2 DEF PartsNext, vars, FactsStep, SchedulerStep,
       GoalsStep, MemoriesStep, TiersStep
<1>3. NightsInv => NightsInvariant
  BY DEF NightsInv, NightsInvariant
<1>4. QED
  BY <1>1, <1>2, <1>3, PTL DEF PartsSpec

(* The types of the nights, which need neither complete scans nor a chain:  *)
(* versions and attempts do not run ahead of the nights.                   *)
NightsTyped ==
  /\ N!TypeOK
  /\ todo # <<>> => nights # 0
  /\ \A p \in DOMAIN recon :
       /\ p[2] <= recon[p].night /\ recon[p].attempts <= recon[p].night
       /\ recon[p].night <= nights
  /\ \A s \in Sources : prior[s] # 0 =>
       <<s, prior[s]>> \in DOMAIN recon /\ recon[<<s, prior[s]>>].night < nights

LEMMA NightsTypedInit == N!Init => NightsTyped
<1> SUFFICES ASSUME N!Init PROVE NightsTyped
  OBVIOUS
<1>1. DOMAIN recon = {} /\ nights = 0 /\ todo = <<>> /\ \A s \in Sources : prior[s] = 0
  BY DEF N!Init
<1>2. N!TypeOK
  BY NightsInit DEF NightsInv
<1>3. QED
  BY <1>1, <1>2 DEF NightsTyped

(* A night begins with what its scan found, if only a part. *)
LEMMA GoodnightIsTyped ==
  ASSUME NightsTyped, NEW pred \in [Sources -> N!Keys], N!Goodnight(pred)
  PROVE  NightsTyped'
<1>1. DOMAIN recon \in SUBSET PointIds /\ recon' = recon /\ nights' = nights + 1
      /\ nights \in 0..MaxNights /\ nights < MaxNights
  BY DEF NightsTyped, N!TypeOK, N!Goodnight, PointIds
<1>2. PICK found \in N!Scanned : prior' = [s \in Sources |-> N!LatestOf(s, found)]
  BY DEF N!Goodnight
<1>3. ASSUME NEW s \in Sources
      PROVE  /\ prior'[s] \in 0..MaxNights
             /\ prior'[s] # 0 => <<s, prior'[s]>> \in DOMAIN recon
  <2>1. prior'[s] = N!LatestOf(s, found)
    BY <1>2
  <2>2. found \in SUBSET DOMAIN recon /\ found \in SUBSET PointIds
    BY <1>1 DEF N!Scanned, N!Page
  <2>3. QED
    BY <2>1, <2>2, LatestIsGreatest
<1>4. ASSUME NEW p \in DOMAIN recon
      PROVE  /\ p[2] <= recon[p].night /\ recon[p].attempts <= recon[p].night
             /\ recon[p].night <= nights + 1 /\ recon[p].night < nights + 1
  <2>1. recon[p].night \in Nat
    BY NightConstants DEF NightsTyped, N!TypeOK, N!Point, N!Versions
  <2>2. /\ p[2] <= recon[p].night /\ recon[p].attempts <= recon[p].night
        /\ recon[p].night <= nights
    BY DEF NightsTyped
  <2>3. QED
    BY <1>1, <2>1, <2>2
<1>5. N!TypeOK'
  <2>1. prior' \in [Sources -> 0..MaxNights]
    BY <1>2, <1>3
  <2>2. mind' \in [Sources -> N!Keys] /\ todo' \in Seq(Sources)
    BY SelectionIs DEF N!Goodnight, N!RawScans
  <2>3. /\ DOMAIN recon' \subseteq Sources \X N!Versions
        /\ \A p \in DOMAIN recon' : recon'[p] \in N!Point
    BY <1>1 DEF NightsTyped, N!TypeOK
  <2>4. nights' \in 0..MaxNights
    BY <1>1, NightConstants
  <2>5. QED
    BY <2>1, <2>2, <2>3, <2>4 DEF N!TypeOK
<1>6. nights' # 0
  BY <1>1
<1>7. QED
  BY <1>1, <1>3, <1>4, <1>5, <1>6 DEF NightsTyped

(* A new version, be it written over one that a scan missed. *)
LEMMA NewVersionIsTyped ==
  ASSUME NightsTyped, todo # <<>>, NEW s \in Sources,
         N!Upsert(<<s, N!NextVersion(s)>>, N!Reinterpreted(s)),
         UNCHANGED <<nights, mind, prior>>, todo' \in Seq(Sources)
  PROVE  NightsTyped'
<1> DEFINE v == prior[s]
           id == <<s, v + 1>>
           q == <<s, v>>
           new == N!Reinterpreted(s)
<1>1. /\ DOMAIN recon \in SUBSET PointIds /\ \A p \in DOMAIN recon : recon[p] \in N!Point
      /\ nights \in 0..MaxNights /\ nights # 0 /\ v \in 0..MaxNights
  BY DEF NightsTyped, N!TypeOK, PointIds
<1>2. ASSUME v # 0
      PROVE  /\ q \in DOMAIN recon /\ recon[q].night < nights /\ v <= recon[q].night
             /\ recon[q].attempts <= recon[q].night
             /\ recon[q].night \in Nat /\ recon[q].attempts \in Nat
             /\ recon[q].attempts # 0 /\ recon[q].key \in N!Keys
  <2>1. q \in DOMAIN recon /\ recon[q].night < nights
    BY <1>2 DEF NightsTyped
  <2>2. q[2] <= recon[q].night /\ recon[q].attempts <= recon[q].night
    BY <2>1 DEF NightsTyped
  <2>3. recon[q].night \in Nat /\ recon[q].key \in N!Keys
        /\ recon[q].attempts \in Nat /\ recon[q].attempts # 0
    BY <1>1, <2>1, NightConstants DEF N!Point, N!Versions
  <2>4. QED
    BY <2>1, <2>2, <2>3
<1>3. v + 1 \in N!Versions /\ v + 1 <= nights /\ id \in PointIds /\ nights \in N!Versions
  <2>1. v + 1 <= nights
    BY <1>1, <1>2
  <2>2. v + 1 \in N!Versions /\ nights \in N!Versions
    BY <1>1, <2>1, NightConstants DEF N!Versions
  <2>3. QED
    BY <2>1, <2>2, IdsAreFinite
<1>4. /\ recon' = [p \in DOMAIN recon \union {id} |-> IF p = id THEN new ELSE recon[p]]
      /\ DOMAIN recon' = DOMAIN recon \union {id}
  BY DEF N!Upsert, N!NextVersion
<1>5. N!Attempts(s) \in N!Versions /\ N!Attempts(s) <= nights
  <2>1. CASE v = 0
    BY <1>1, <1>3, <2>1, NightConstants DEF N!Attempts, N!Versions
  <2>2. CASE v # 0
    <3>1. N!Attempts(s) = recon[q].attempts + 1
      BY <2>2 DEF N!Attempts
    <3>2. recon[q].attempts + 1 <= nights
      BY <1>1, <1>2, <2>2
    <3>3. recon[q].attempts + 1 \in N!Versions
      BY <1>1, <1>2, <2>2, <3>2, NightConstants DEF N!Versions
    <3>4. QED
      BY <3>1, <3>2, <3>3
  <2>3. QED
    BY <2>1, <2>2
<1>6. N!NewKey(s) \in N!Keys
  <2>1. N!BaseKey(s) \in N!Keys
    BY <1>2, NightConstants DEF N!BaseKey
  <2>2. mind[s] \in N!Keys
    BY DEF NightsTyped, N!TypeOK
  <2>3. QED
    BY <2>1, <2>2, NewKeyIs
<1>7. /\ new \in N!Point /\ new.night = nights /\ new.attempts = N!Attempts(s)
  BY <1>1, <1>3, <1>5, <1>6 DEF N!Point, N!Reinterpreted, N!Nobody, N!Versions
<1> HIDE DEF new
<1>8. \A p \in DOMAIN recon : p # id => p \in DOMAIN recon' /\ recon'[p] = recon[p]
  BY <1>4
<1>9. recon'[id] = new /\ id \in DOMAIN recon'
  BY <1>4
<1>10. N!TypeOK'
  <2>1. /\ DOMAIN recon' \subseteq Sources \X N!Versions
        /\ \A p \in DOMAIN recon' : recon'[p] \in N!Point
    BY <1>1, <1>3, <1>4, <1>7 DEF PointIds
  <2>2. QED
    BY <2>1 DEF NightsTyped, N!TypeOK
<1>11. ASSUME NEW p \in DOMAIN recon'
       PROVE  /\ p[2] <= recon'[p].night /\ recon'[p].attempts <= recon'[p].night
              /\ recon'[p].night <= nights
  <2>1. CASE p = id
    BY <1>1, <1>3, <1>5, <1>7, <1>9, <2>1
  <2>2. CASE p # id
    <3>1. p \in DOMAIN recon /\ recon'[p] = recon[p]
      BY <1>4, <1>8, <2>2
    <3>2. QED
      BY <3>1 DEF NightsTyped
  <2>3. QED
    BY <2>1, <2>2
<1>12. ASSUME NEW t \in Sources, prior[t] # 0
       PROVE  <<t, prior[t]>> \in DOMAIN recon' /\ recon'[<<t, prior[t]>>].night < nights
  <2>1. <<t, prior[t]>> \in DOMAIN recon /\ recon[<<t, prior[t]>>].night < nights
    BY <1>12 DEF NightsTyped
  <2>2. <<t, prior[t]>> # id
    BY <1>1
  <2>3. QED
    BY <1>8, <2>1, <2>2
<1>13. QED
  BY <1>1, <1>10, <1>11, <1>12 DEF NightsTyped

LEMMA NightStepIsTyped ==
  ASSUME NightsTyped, N!Next
  PROVE  NightsTyped'
<1>1. CASE \E pred \in [Sources -> N!Keys] : N!Goodnight(pred)
  BY <1>1, GoodnightIsTyped
<1>2. ASSUME UNCHANGED <<recon, nights, mind, prior>>, todo' \in Seq(Sources),
             todo' # <<>> => todo # <<>>
      PROVE  NightsTyped'
  BY <1>2 DEF NightsTyped, N!TypeOK
<1>3. todo \in Seq(Sources)
  BY DEF NightsTyped, N!TypeOK
<1>4. todo # <<>> => Tail(todo) \in Seq(Sources) /\ Head(todo) \in Sources
  BY <1>3
<1>5. CASE N!Skip
  BY <1>2, <1>4, <1>5 DEF N!Skip
<1>6. CASE N!Crash
  BY <1>2, <1>6 DEF N!Crash
<1>7. CASE N!Reconsolidate
  <2> DEFINE s == Head(todo)
  <2>1. /\ todo # <<>> /\ s \in Sources /\ todo' \in Seq(Sources)
        /\ UNCHANGED <<nights, mind, prior>>
        /\ \/ N!Upsert(<<s, N!NextVersion(s)>>, N!Reinterpreted(s))
           \/ UNCHANGED recon
    BY <1>4, <1>7 DEF N!Reconsolidate
  <2> HIDE DEF s
  <2>2. CASE UNCHANGED recon
    BY <1>2, <2>1, <2>2
  <2>3. CASE N!Upsert(<<s, N!NextVersion(s)>>, N!Reinterpreted(s))
    BY <2>1, <2>3, NewVersionIsTyped
  <2>4. QED
    BY <2>1, <2>2, <2>3
<1>8. QED
  BY <1>1, <1>5, <1>6, <1>7 DEF N!Next

LEMMA NightsAlwaysTyped == PartsSpec => []NightsTyped
<1>1. PartsInit => NightsTyped
  BY NightsTypedInit DEF PartsInit
<1>2. ASSUME NightsTyped, [PartsNext]_vars PROVE NightsTyped'
  <2>1. CASE NightsStep
    BY <1>2, <2>1, NightStepIsTyped DEF NightsStep
  <2>2. CASE UNCHANGED reconVars
    BY <1>2, <2>2 DEF reconVars, NightsTyped, N!TypeOK
  <2>3. QED
    BY <1>2, <2>1, <2>2 DEF PartsNext, vars, FactsStep, SchedulerStep,
       GoalsStep, MemoriesStep, TiersStep
<1>3. QED
  BY <1>1, <1>2, PTL DEF PartsSpec

-----------------------------------------------------------------------------
(* The tiers of the dialogue. *)

(* Concatenation of lines of numbers. *)
LEMMA Reassociated ==
  ASSUME NEW s \in Seq(Nat), NEW t \in Seq(Nat), NEW w \in Seq(Nat)
  PROVE  (s \o t) \o w = s \o (t \o w)
BY ConcatAssociative, SMTT(60)

LEMMA Joined ==
  /\ \A s, t \in Seq(Nat) :
       /\ s \o t \in Seq(Nat) /\ Len(s \o t) = Len(s) + Len(t) /\ Len(s) \in Nat
       /\ \A i \in 1..(Len(s) + Len(t)) :
            (s \o t)[i] = IF i <= Len(s) THEN s[i] ELSE t[i - Len(s)]
  /\ \A s, t, w \in Seq(Nat) : (s \o t) \o w = s \o (t \o w)
<1>1. ASSUME NEW s \in Seq(Nat), NEW t \in Seq(Nat)
      PROVE  /\ s \o t \in Seq(Nat) /\ Len(s \o t) = Len(s) + Len(t) /\ Len(s) \in Nat
             /\ \A i \in 1..(Len(s) + Len(t)) :
                  (s \o t)[i] = IF i <= Len(s) THEN s[i] ELSE t[i - Len(s)]
  BY ConcatProperties
<1>2. ASSUME NEW s \in Seq(Nat), NEW t \in Seq(Nat), NEW w \in Seq(Nat)
      PROVE  (s \o t) \o w = s \o (t \o w)
  BY Reassociated
<1>3. QED
  BY <1>1, <1>2, Zenon

(* A tier parted in two is the tier: what moves on and what stays. *)
LEMMA TierParted ==
  ASSUME NEW s \in Seq(Nat), NEW n \in 0..Len(s)
  PROVE  /\ D!Oldest(s, n) \in Seq(Nat) /\ Len(D!Oldest(s, n)) = n
         /\ D!Rest(s, n) \in Seq(Nat) /\ Len(D!Rest(s, n)) = Len(s) - n
         /\ \A k \in 1..(Len(s) - n) : D!Rest(s, n)[k] = s[k + n]
         /\ D!Oldest(s, n) \o D!Rest(s, n) = s
<1>1. \A k \in 1..Len(s) : s[k] \in Nat
  OBVIOUS
<1>2. /\ D!Oldest(s, n) \in Seq(Nat) /\ Len(D!Oldest(s, n)) = n
  <2>1. \A k \in 1..n : s[k] \in Nat
    BY <1>1
  <2>2. QED
    BY <2>1, SubSeqProperties DEF D!Oldest
<1>3. /\ D!Rest(s, n) \in Seq(Nat) /\ Len(D!Rest(s, n)) = Len(s) - n
      /\ \A k \in 1..(Len(s) - n) : D!Rest(s, n)[k] = s[k + n]
  <2>1. \A k \in (n + 1)..Len(s) : s[k] \in Nat
    BY <1>1
  <2>2. n \in Int /\ n + 1 \in Int /\ Len(s) \in Int /\ n <= Len(s)
    OBVIOUS
  <2>3. /\ SubSeq(s, n + 1, Len(s)) \in Seq(Nat)
        /\ Len(SubSeq(s, n + 1, Len(s))) = IF n + 1 <= Len(s) THEN Len(s) - (n + 1) + 1 ELSE 0
        /\ \A k \in 1..(Len(s) - (n + 1) + 1) :
             SubSeq(s, n + 1, Len(s))[k] = s[n + 1 + k - 1]
    BY <2>1, <2>2, SubSeqProperties
  <2> DEFINE rest == SubSeq(s, n + 1, Len(s))
  <2>4. rest = D!Rest(s, n)
    BY DEF D!Rest
  <2>5. Len(rest) = Len(s) - n
    BY <2>2, <2>3
  <2>6. ASSUME NEW k \in 1..(Len(s) - n) PROVE rest[k] = s[k + n]
    <3>1. k \in 1..(Len(s) - (n + 1) + 1) /\ n + 1 + k - 1 = k + n
      BY <2>2
    <3>2. QED
      BY <2>3, <3>1
  <2>7. rest \in Seq(Nat)
    BY <2>3
  <2> HIDE DEF rest
  <2>8. QED
    BY <2>4, <2>5, <2>6, <2>7
<1>4. D!Oldest(s, n) \o D!Rest(s, n) = s
  <2>1. SubSeq(s, 1, n) \o SubSeq(s, n + 1, Len(s)) = SubSeq(s, 1, Len(s))
    <3>1. /\ Len(s) \in Nat /\ 1 \in 1..(Len(s) + 1) /\ n \in (1 - 1)..Len(s)
          /\ Len(s) \in n..Len(s)
      OBVIOUS
    <3>2. QED
      BY <3>1, ConcatAdjacentSubSeq
  <2>2. SubSeq(s, 1, Len(s)) = s
    BY SubSeqFull
  <2>3. QED
    BY <2>1, <2>2 DEF D!Oldest, D!Rest
<1>5. QED
  BY <1>2, <1>3, <1>4

(* What is left of a line of two parts when less than the first goes. *)
LEMMA RestOfConcat ==
  ASSUME NEW s \in Seq(Nat), NEW t \in Seq(Nat), NEW n \in 0..Len(s)
  PROVE  D!Rest(s, n) \o t = D!Rest(s \o t, n)
<1> DEFINE st == s \o t
<1>1. /\ st \in Seq(Nat) /\ Len(st) = Len(s) + Len(t) /\ n \in 0..Len(st)
      /\ Len(s) \in Nat /\ Len(t) \in Nat
      /\ \A i \in 1..(Len(s) + Len(t)) :
           st[i] = IF i <= Len(s) THEN s[i] ELSE t[i - Len(s)]
  <2>1. /\ st \in Seq(Nat) /\ Len(st) = Len(s) + Len(t)
        /\ Len(s) \in Nat /\ Len(t) \in Nat
        /\ \A i \in 1..(Len(s) + Len(t)) :
             st[i] = IF i <= Len(s) THEN s[i] ELSE t[i - Len(s)]
    BY Joined, Zenon
  <2>2. QED
    <3> HIDE DEF st
    <3> QED BY <2>1
<1>2. /\ D!Rest(s, n) \in Seq(Nat) /\ Len(D!Rest(s, n)) = Len(s) - n
      /\ \A k \in 1..(Len(s) - n) : D!Rest(s, n)[k] = s[k + n]
  BY TierParted
<1> HIDE DEF st
<1>3. /\ D!Rest(st, n) \in Seq(Nat) /\ Len(D!Rest(st, n)) = Len(s) + Len(t) - n
      /\ \A k \in 1..(Len(s) + Len(t) - n) : D!Rest(st, n)[k] = st[k + n]
  <2>1. /\ D!Rest(st, n) \in Seq(Nat) /\ Len(D!Rest(st, n)) = Len(st) - n
        /\ \A k \in 1..(Len(st) - n) : D!Rest(st, n)[k] = st[k + n]
    BY <1>1, TierParted, Zenon
  <2>2. QED
    BY <1>1, <2>1
<1> DEFINE rest == D!Rest(s, n)
<1> HIDE DEF rest
<1>4. /\ rest \o t \in Seq(Nat) /\ Len(rest \o t) = Len(s) - n + Len(t)
      /\ \A i \in 1..(Len(s) - n + Len(t)) :
           (rest \o t)[i] = IF i <= Len(s) - n THEN rest[i] ELSE t[i - (Len(s) - n)]
  <2>1. rest \in Seq(Nat) /\ Len(rest) = Len(s) - n
    BY <1>2 DEF rest
  <2>2. /\ rest \o t \in Seq(Nat) /\ Len(rest \o t) = Len(rest) + Len(t)
        /\ \A i \in 1..(Len(rest) + Len(t)) :
             (rest \o t)[i] = IF i <= Len(rest) THEN rest[i] ELSE t[i - Len(rest)]
    BY <2>1, Joined, Zenon
  <2>3. QED
    BY <2>1, <2>2
<1>5. ASSUME NEW i \in 1..(Len(s) - n + Len(t))
      PROVE  (rest \o t)[i] = D!Rest(st, n)[i]
  <2>1. /\ i + n \in 1..(Len(s) + Len(t)) /\ i \in 1..(Len(s) + Len(t) - n)
        /\ i + n <= Len(s) <=> i <= Len(s) - n
        /\ i + n - Len(s) = i - (Len(s) - n)
    BY <1>1
  <2>2. D!Rest(st, n)[i] = IF i + n <= Len(s) THEN s[i + n] ELSE t[i + n - Len(s)]
    <3>1. D!Rest(st, n)[i] = st[i + n]
      BY <1>3, <2>1
    <3>2. st[i + n] = IF i + n <= Len(s) THEN s[i + n] ELSE t[i + n - Len(s)]
      BY <1>1, <2>1
    <3>3. QED
      BY <3>1, <3>2, Zenon
  <2>3. i <= Len(s) - n => rest[i] = s[i + n]
    BY <1>1, <1>2, <2>1 DEF rest
  <2>4. (rest \o t)[i] = IF i <= Len(s) - n THEN rest[i] ELSE t[i - (Len(s) - n)]
    BY <1>4, Zenon
  <2>5. i + n <= Len(s) <=> i <= Len(s) - n
    BY <2>1
  <2>6. t[i + n - Len(s)] = t[i - (Len(s) - n)]
    BY <2>1
  <2>7. QED
    BY <2>2, <2>3, <2>4, <2>5, <2>6, Zenon
<1>6. rest \o t = D!Rest(st, n)
  <2> DEFINE u == rest \o t
             w == D!Rest(st, n)
  <2>1. /\ u \in Seq(Nat) /\ w \in Seq(Nat)
        /\ Len(u) = Len(s) - n + Len(t) /\ Len(w) = Len(s) + Len(t) - n
        /\ \A i \in 1..(Len(s) - n + Len(t)) : u[i] = w[i]
    BY <1>3, <1>4, <1>5
  <2> HIDE DEF u, w
  <2>4. Len(u) = Len(w)
    BY <1>1, <2>1
  <2>2. u = w
    BY <2>1, <2>4, SeqEqual
  <2>3. QED
    BY <2>2 DEF u, w
<1>7. QED
  BY <1>6 DEF rest, st

LEMMA TierConstants ==
  /\ VerbatimMax \in Nat /\ CompressedMax \in Nat /\ KeywordsMax \in Nat
  /\ MaxLines \in Nat
  BY PartsAssumption DEF D!TiersAssumption

LEMMA MemoryOf ==
  ASSUME NEW v \in Seq(Nat), NEW c \in Seq(Nat), NEW k \in Seq(Nat)
  PROVE  [verbatim |-> v, compressed |-> c, keywords |-> k] \in D!Memory
  BY DEF D!Memory

LEMMA TimelineOf ==
  ASSUME NEW t \in D!Memory
  PROVE  /\ t.verbatim \in Seq(Nat) /\ t.compressed \in Seq(Nat) /\ t.keywords \in Seq(Nat)
         /\ D!Timeline(t) \in Seq(Nat)
         /\ D!Timeline(t) = t.keywords \o (t.compressed \o t.verbatim)
  BY Joined DEF D!Memory, D!Timeline

(* The window takes the oldest lines off the timeline and leaves the rest   *)
(* as it was; if it takes any, the keywords are full.                      *)
LEMMA WindowTakesTheOldest ==
  ASSUME NEW t \in D!Memory, NEW u, u = D!SlideWindow(t)
  PROVE  /\ u \in D!Memory
         /\ \E m \in 0..Len(D!Timeline(t)) :
              /\ D!Timeline(u) = D!Rest(D!Timeline(t), m)
              /\ m # 0 => Len(u.keywords) = KeywordsMax
         /\ Len(t.keywords) = KeywordsMax => Len(u.keywords) = KeywordsMax
<1> DEFINE v == D!Over(t.verbatim, VerbatimMax)
           leaving == D!Oldest(t.verbatim, v)
           staying == D!Rest(t.verbatim, v)
           older == t.compressed \o leaving
           c == D!Over(older, CompressedMax)
           fading == D!Oldest(older, c)
           older2 == D!Rest(older, c)
           oldest == t.keywords \o fading
           m == D!Over(oldest, KeywordsMax)
<1>1. \A s \in Seq(Nat), max \in Nat : D!Over(s, max) \in 0..Len(s)
  BY DEF D!Over
<1>2. /\ u.verbatim = staying /\ u.compressed = older2 /\ u.keywords = D!Rest(oldest, m)
      /\ u = [verbatim |-> staying, compressed |-> older2, keywords |-> D!Rest(oldest, m)]
  BY DEF D!SlideWindow
<1>3. /\ t.verbatim \in Seq(Nat) /\ t.compressed \in Seq(Nat) /\ t.keywords \in Seq(Nat)
      /\ D!Timeline(t) = t.keywords \o (t.compressed \o t.verbatim)
  BY TimelineOf
<1>4. /\ leaving \in Seq(Nat) /\ staying \in Seq(Nat) /\ leaving \o staying = t.verbatim
  <2>1. v \in 0..Len(t.verbatim)
    BY <1>1, <1>3, TierConstants
  <2>2. QED
    BY <1>3, <2>1, TierParted
<1> HIDE DEF leaving, staying
<1>5. older \in Seq(Nat)
  BY <1>3, <1>4
<1> HIDE DEF older
<1>6. /\ fading \in Seq(Nat) /\ older2 \in Seq(Nat) /\ fading \o older2 = older
  <2>1. c \in 0..Len(older)
    BY <1>1, <1>5, TierConstants
  <2>2. QED
    BY <1>5, <2>1, TierParted
<1> HIDE DEF fading, older2
<1>7. oldest \in Seq(Nat) /\ Len(oldest) = Len(t.keywords) + Len(fading)
      /\ Len(t.keywords) \in Nat /\ Len(fading) \in Nat
  BY <1>3, <1>6, Joined
<1>8. m \in 0..Len(oldest)
  BY <1>1, <1>7, TierConstants
<1>9. /\ D!Rest(oldest, m) \in Seq(Nat) /\ Len(D!Rest(oldest, m)) = Len(oldest) - m
  BY <1>7, <1>8, TierParted
<1>10. m # 0 => Len(oldest) - m = KeywordsMax
  BY <1>7, TierConstants DEF D!Over
<1>11. Len(t.keywords) = KeywordsMax => Len(oldest) - m = KeywordsMax
  BY <1>7, TierConstants DEF D!Over
<1>12. D!Timeline(t) = oldest \o (older2 \o staying)
  <2>1. t.compressed \o t.verbatim = older \o staying
    <3>1. (t.compressed \o leaving) \o staying = t.compressed \o (leaving \o staying)
      BY <1>3, <1>4, Joined, Zenon
    <3>2. QED
      BY <1>4, <3>1 DEF older
  <2>2. older \o staying = fading \o (older2 \o staying)
    BY <1>4, <1>6, Joined
  <2>3. older2 \o staying \in Seq(Nat)
    BY <1>4, <1>6
  <2>4. t.keywords \o (fading \o (older2 \o staying)) = oldest \o (older2 \o staying)
    BY <1>3, <1>6, <2>3, Reassociated, Zenon DEF oldest
  <2>5. QED
    BY <1>3, <2>1, <2>2, <2>4
<1>13. u \in D!Memory
  BY <1>2, <1>4, <1>6, <1>9 DEF D!Memory
<1> HIDE DEF oldest, m
<1>14. D!Timeline(u) = D!Rest(oldest, m) \o (older2 \o staying)
  BY <1>2, <1>13, TimelineOf
<1>15. D!Timeline(u) = D!Rest(D!Timeline(t), m)
  <2>1. older2 \o staying \in Seq(Nat)
    BY <1>4, <1>6
  <2>2. QED
    BY <1>7, <1>8, <1>12, <1>14, <2>1, RestOfConcat
<1>16. m \in 0..Len(D!Timeline(t))
  <2> DEFINE younger == older2 \o staying
  <2>1. younger \in Seq(Nat)
    BY <1>4, <1>6
  <2> HIDE DEF younger
  <2>2. Len(oldest \o younger) = Len(oldest) + Len(younger)
        /\ Len(oldest) \in Nat /\ Len(younger) \in Nat
    BY <1>7, <2>1, Joined, Zenon
  <2>3. D!Timeline(t) = oldest \o younger
    BY <1>12 DEF younger
  <2>4. m \in 0..(Len(oldest) + Len(younger))
    BY <1>8, <2>2
  <2>5. QED
    BY <2>2, <2>3, <2>4
<1>17. QED
  BY <1>2, <1>9, <1>10, <1>11, <1>13, <1>15, <1>16

(* A timeline in order that holds the latest of what it recorded by a time, *)
(* markers aside.                                                          *)
HoldsLatest(line, record, now, marks) ==
  /\ line \in Seq(Nat) /\ record \subseteq 1..now /\ record \intersect marks = {}
  /\ \A i \in 1..Len(line) : /\ line[i] \in 1..now
                             /\ line[i] \in marks \/ line[i] \in record
  /\ \A j, k \in 1..Len(line) :
       j < k /\ line[j] \notin marks /\ line[k] \notin marks => line[j] < line[k]
  /\ \A i \in 1..Len(line), new \in record :
       line[i] \notin marks /\ line[i] < new => \E k \in 1..Len(line) : line[k] = new

Whole(line, record) == \A x \in record : \E k \in 1..Len(line) : line[k] = x

Kept(t, record, now, marks) ==
  /\ t \in D!Memory
  /\ HoldsLatest(D!Timeline(t), record, now, marks)
  /\ Whole(D!Timeline(t), record) \/ Len(t.keywords) = KeywordsMax

LEMMA KeptIsThePromise ==
  ASSUME NEW t, NEW record, NEW now \in Nat, Kept(t, record, now, markers)
  PROVE  D!HoldsTheLatest(t, record) /\ D!FullOrWhole(t, record)
<1> DEFINE line == D!Timeline(t)
<1>1. HoldsLatest(line, record, now, markers)
      /\ (Whole(line, record) \/ Len(t.keywords) = KeywordsMax)
  BY DEF Kept
<1> HIDE DEF line
<1>2. DOMAIN line = 1..Len(line) /\ \A x \in record : x \notin markers
      /\ \A i \in 1..Len(line) : line[i] \in Nat
  BY <1>1 DEF HoldsLatest
<1>3. \A x : x \in D!Held(t) <=> x \notin markers /\ \E k \in 1..Len(line) : line[k] = x
  BY <1>2 DEF D!Held, D!Range, line
<1>4. D!InOrder(line)
  <2> SUFFICES ASSUME NEW j \in 1..Len(line), NEW k \in 1..Len(line), j < k,
                      {line[j], line[k]} \intersect markers = {}
               PROVE  line[j] < line[k]
    BY <1>2 DEF D!InOrder
  <2>1. line[j] \notin markers /\ line[k] \notin markers
    OBVIOUS
  <2>2. QED
    BY <1>1, <2>1 DEF HoldsLatest
<1>5. D!Held(t) \subseteq record
  BY <1>1, <1>3 DEF HoldsLatest
<1>6. ASSUME NEW old \in D!Held(t), NEW new \in record, old < new PROVE new \in D!Held(t)
  <2>1. PICK i \in 1..Len(line) : line[i] = old /\ old \notin markers
    BY <1>3
  <2>2. \E k \in 1..Len(line) : line[k] = new
    BY <1>1, <1>6, <2>1 DEF HoldsLatest
  <2>3. QED
    BY <1>2, <1>3, <2>2
<1>7. D!FullOrWhole(t, record)
  <2>1. Whole(line, record) => record \subseteq D!Held(t)
    BY <1>2, <1>3 DEF Whole
  <2>2. QED
    BY <1>1, <2>1 DEF D!FullOrWhole
<1>8. QED
  BY <1>4, <1>5, <1>6, <1>7 DEF D!HoldsTheLatest, line

(* Later lines and markers elsewhere are nothing to it. *)
LEMMA KeptLater ==
  ASSUME NEW t, NEW record, NEW now \in Nat, NEW later \in Nat, NEW marks, NEW more,
         Kept(t, record, now, marks), now <= later, marks \subseteq more,
         \A x \in more \ marks : x \notin 1..now
  PROVE  Kept(t, record, later, more)
<1> DEFINE line == D!Timeline(t)
<1>1. t \in D!Memory /\ HoldsLatest(line, record, now, marks)
      /\ (Whole(line, record) \/ Len(t.keywords) = KeywordsMax)
  BY DEF Kept
<1> HIDE DEF line
<1>2. /\ record \subseteq 1..now /\ \A x \in 1..now : x \in 1..later
      /\ \A x \in 1..now : x \in more <=> x \in marks
      /\ \A i \in 1..Len(line) : line[i] \in 1..now
  BY <1>1 DEF HoldsLatest
<1>3. record \subseteq 1..later /\ record \intersect more = {}
  BY <1>1, <1>2 DEF HoldsLatest
<1>4. \A i \in 1..Len(line) : line[i] \in more <=> line[i] \in marks
  BY <1>2
<1>5. HoldsLatest(line, record, later, more)
  BY <1>1, <1>2, <1>3, <1>4 DEF HoldsLatest
<1>6. QED
  BY <1>1, <1>5 DEF Kept, line

(* A line heard is the newest of the timeline and of the record. *)
LEMMA KeptHearing ==
  ASSUME NEW t, NEW record, NEW now \in Nat, NEW marks, marks \subseteq 1..now,
         Kept(t, record, now, marks),
         NEW u, u = [t EXCEPT !.verbatim = Append(@, now + 1)]
  PROVE  Kept(u, record \union {now + 1}, now + 1, marks)
<1> DEFINE line == D!Timeline(t)
           heard == D!Timeline(u)
           new == now + 1
<1>1. t \in D!Memory /\ HoldsLatest(line, record, now, marks)
      /\ (Whole(line, record) \/ Len(t.keywords) = KeywordsMax)
  BY DEF Kept
<1>2. /\ t.verbatim \in Seq(Nat) /\ t.compressed \in Seq(Nat) /\ t.keywords \in Seq(Nat)
      /\ line \in Seq(Nat) /\ line = t.keywords \o (t.compressed \o t.verbatim)
  BY <1>1, TimelineOf, Zenon
<1>3. u \in D!Memory /\ u.keywords = t.keywords /\ u.compressed = t.compressed
      /\ u.verbatim = Append(t.verbatim, new)
  <2>1. new \in Nat
    OBVIOUS
  <2> HIDE DEF new
  <2>2. Append(t.verbatim, new) \in Seq(Nat)
    BY <1>2, <2>1, AppendProperties
  <2>3. u = [t EXCEPT !.verbatim = Append(t.verbatim, new)]
    BY DEF new
  <2>4. t = [verbatim |-> t.verbatim, compressed |-> t.compressed, keywords |-> t.keywords]
    BY <1>1 DEF D!Memory
  <2>5. u = [verbatim |-> Append(t.verbatim, new), compressed |-> t.compressed,
             keywords |-> t.keywords]
    BY <2>3, <2>4
  <2>6. t.compressed \in Seq(Nat) /\ t.keywords \in Seq(Nat)
    BY <1>2
  <2> DEFINE longer == Append(t.verbatim, new)
  <2>7. longer \in Seq(Nat) /\ u = [verbatim |-> longer, compressed |-> t.compressed,
                                   keywords |-> t.keywords]
    BY <2>2, <2>5
  <2> HIDE DEF longer
  <2>8. u \in D!Memory
    <3>1. [verbatim |-> longer, compressed |-> t.compressed, keywords |-> t.keywords]
            \in D!Memory
      BY <2>6, <2>7, MemoryOf
    <3>2. QED
      BY <2>7, <3>1
  <2>9. u.verbatim = longer /\ u.compressed = t.compressed /\ u.keywords = t.keywords
    BY <2>7
  <2>10. QED
    BY <2>8, <2>9 DEF longer
<1>4. heard = t.keywords \o (t.compressed \o Append(t.verbatim, new))
  <2>1. heard = u.keywords \o (u.compressed \o u.verbatim)
    BY <1>3, TimelineOf, Zenon
  <2>2. QED
    BY <1>3, <2>1
<1> HIDE DEF line, heard
<1>5. heard = Append(line, new)
  <2> DEFINE one == <<new>>
             younger == t.compressed \o t.verbatim
  <2>1. new \in Nat /\ one \in Seq(Nat)
    OBVIOUS
  <2>2. /\ Append(t.verbatim, new) = t.verbatim \o one
        /\ Append(line, new) = line \o one
    BY <1>2, <2>1, AppendIsConcat
  <2> HIDE DEF one
  <2>3. t.compressed \o (t.verbatim \o one) = younger \o one
    <3>1. t.compressed \in Seq(Nat) /\ t.verbatim \in Seq(Nat)
      BY <1>2
    <3>2. QED
      BY <2>1, <3>1, Reassociated, Zenon
  <2>4. younger \in Seq(Nat)
    BY <1>2, Joined, Zenon
  <2> HIDE DEF younger
  <2>5. t.keywords \o (younger \o one) = (t.keywords \o younger) \o one
    <3>1. t.keywords \in Seq(Nat) /\ one \in Seq(Nat)
      BY <1>2, <2>1
    <3>2. QED
      BY <2>4, <3>1, Joined
  <2>6. QED
    BY <1>2, <1>4, <2>2, <2>3, <2>5 DEF younger
<1>6. /\ heard \in Seq(Nat) /\ Len(heard) = Len(line) + 1 /\ Len(line) \in Nat
      /\ \A i \in 1..Len(line) : heard[i] = line[i]
      /\ heard[Len(line) + 1] = new
  <2>1. new \in Nat
    OBVIOUS
  <2>2. QED
    <3> HIDE DEF new
    <3>1. line \in Seq(Nat)
      BY <1>2
    <3>2. /\ Append(line, new) \in Seq(Nat) /\ Len(Append(line, new)) = Len(line) + 1
          /\ \A i \in 1..Len(line) : Append(line, new)[i] = line[i]
          /\ Append(line, new)[Len(line) + 1] = new
      BY <2>1, <3>1, AppendProperties
    <3>3. Len(line) \in Nat
      BY <3>1, LenProperties
    <3>4. QED
      BY <1>5, <3>2, <3>3
<1>7. /\ new \in 1..new /\ new \notin 1..now /\ \A x \in 1..now : x \in 1..new /\ x < new
      /\ new \notin marks
  OBVIOUS
<1>8. HoldsLatest(heard, record \union {new}, new, marks)
  <2>1. record \union {new} \subseteq 1..new /\ (record \union {new}) \intersect marks = {}
    BY <1>1, <1>7 DEF HoldsLatest
  <2>2. \A i \in 1..Len(heard) : i \in 1..Len(line) \/ i = Len(line) + 1
    BY <1>6
  <2>3. ASSUME NEW i \in 1..Len(heard)
        PROVE  /\ heard[i] \in 1..new
               /\ heard[i] \in marks \/ heard[i] \in record \union {new}
    <3> HIDE DEF new
    <3> QED BY <1>1, <1>6, <1>7, <2>2 DEF HoldsLatest
  <2>4. ASSUME NEW j \in 1..Len(heard), NEW k \in 1..Len(heard), j < k,
               heard[j] \notin marks, heard[k] \notin marks
        PROVE  heard[j] < heard[k]
    <3>1. j \in 1..Len(line) /\ heard[j] = line[j] /\ heard[j] \in 1..now
      BY <1>1, <1>6, <2>4 DEF HoldsLatest
    <3>2. CASE k \in 1..Len(line)
      BY <1>1, <1>6, <2>4, <3>1, <3>2 DEF HoldsLatest
    <3>3. CASE k = Len(line) + 1
      BY <1>6, <1>7, <3>1, <3>3
    <3>4. QED
      BY <2>2, <3>2, <3>3
  <2>5. \E k \in 1..Len(heard) : heard[k] = new
    BY <1>6
  <2>6. ASSUME NEW i \in 1..Len(heard), NEW x \in record, heard[i] \notin marks, heard[i] < x
        PROVE  \E k \in 1..Len(heard) : heard[k] = x
    <3>1. x \in 1..now
      BY <1>1 DEF HoldsLatest
    <3>2. i \in 1..Len(line) /\ heard[i] = line[i]
      BY <1>6, <2>2, <2>6, <3>1
    <3>3. PICK k \in 1..Len(line) : line[k] = x
      BY <1>1, <2>6, <3>2 DEF HoldsLatest
    <3>4. QED
      BY <1>6, <3>3
  <2>7. QED
    <3> HIDE DEF new
    <3> QED BY <1>6, <2>1, <2>3, <2>4, <2>5, <2>6 DEF HoldsLatest
<1>9. Whole(line, record) => Whole(heard, record \union {new})
  <2>1. \A k \in 1..Len(line) : k \in 1..Len(heard) /\ heard[k] = line[k]
    BY <1>6
  <2>2. \E k \in 1..Len(heard) : heard[k] = new
    BY <1>6
  <2>3. QED
    <3> HIDE DEF new
    <3> QED BY <2>1, <2>2 DEF Whole
<1>10. QED
  <2>1. Whole(heard, record \union {new}) \/ Len(u.keywords) = KeywordsMax
    BY <1>1, <1>3, <1>9
  <2>2. QED
    <3> HIDE DEF new
    <3>1. Kept(u, record \union {new}, new, marks)
      BY <1>3, <1>8, <2>1 DEF Kept, heard
    <3>2. QED
      BY <3>1 DEF new

(* A number put between two lines moves the second by one place. *)
IsInserted(x, old, line) ==
  /\ line \in Seq(Nat) /\ Len(line) = Len(old) + 1 /\ Len(old) \in Nat
  /\ \E p \in 1..Len(line) :
       /\ line[p] = x
       /\ \A i \in 1..Len(line) :
            \/ i = p
            \/ i < p /\ i \in 1..Len(old) /\ line[i] = old[i]
            \/ i > p /\ (i - 1) \in 1..Len(old) /\ line[i] = old[i - 1]
       /\ \A i \in 1..Len(old) : \E k \in 1..Len(line) : line[k] = old[i]

LEMMA Inserted ==
  ASSUME NEW b \in Seq(Nat), NEW a \in Seq(Nat), NEW x \in Nat,
         NEW old, old = b \o a, NEW line, line = b \o (<<x>> \o a)
  PROVE  IsInserted(x, old, line)
<1> DEFINE one == <<x>>
           tail == one \o a
<1>1. one \in Seq(Nat) /\ Len(one) = 1 /\ one[1] = x
  OBVIOUS
<1> HIDE DEF one
<1>2. /\ tail \in Seq(Nat) /\ Len(tail) = 1 + Len(a) /\ Len(a) \in Nat
      /\ \A i \in 1..(1 + Len(a)) : tail[i] = IF i <= 1 THEN one[i] ELSE a[i - 1]
  <2>1. /\ tail \in Seq(Nat) /\ Len(tail) = Len(one) + Len(a) /\ Len(a) \in Nat
        /\ \A i \in 1..(Len(one) + Len(a)) :
             tail[i] = IF i <= Len(one) THEN one[i] ELSE a[i - Len(one)]
    BY <1>1, Joined, Zenon
  <2> HIDE DEF tail
  <2>2. QED
    BY <1>1, <2>1
<1> HIDE DEF tail
<1>3. /\ line \in Seq(Nat) /\ Len(line) = Len(b) + Len(tail) /\ Len(b) \in Nat
      /\ \A i \in 1..(Len(b) + Len(tail)) :
           line[i] = IF i <= Len(b) THEN b[i] ELSE tail[i - Len(b)]
  <2>1. line = b \o tail
    BY DEF tail, one
  <2>2. /\ b \o tail \in Seq(Nat) /\ Len(b \o tail) = Len(b) + Len(tail) /\ Len(b) \in Nat
        /\ \A i \in 1..(Len(b) + Len(tail)) :
             (b \o tail)[i] = IF i <= Len(b) THEN b[i] ELSE tail[i - Len(b)]
    <3>1. b \in Seq(Nat) /\ tail \in Seq(Nat)
      BY <1>2
    <3>2. QED
      BY <3>1, Joined, Zenon
  <2>3. QED
    BY <2>1, <2>2, Zenon
<1>4. /\ Len(old) = Len(b) + Len(a) /\ Len(a) \in Nat
      /\ \A i \in 1..(Len(b) + Len(a)) :
           old[i] = IF i <= Len(b) THEN b[i] ELSE a[i - Len(b)]
  BY Joined, Zenon
<1> DEFINE p == Len(b) + 1
<1>5. p \in 1..Len(line) /\ line[p] = x
  BY <1>1, <1>2, <1>3
<1>6. ASSUME NEW i \in 1..Len(line), i < p
      PROVE  i \in 1..Len(old) /\ line[i] = old[i]
  BY <1>2, <1>3, <1>4, <1>6
<1>7. ASSUME NEW i \in 1..Len(line), i > p
      PROVE  (i - 1) \in 1..Len(old) /\ line[i] = old[i - 1]
  <2>1. i - Len(b) \in 1..(1 + Len(a)) /\ i - Len(b) > 1 /\ i > Len(b)
        /\ (i - 1) \in 1..(Len(b) + Len(a)) /\ i - 1 > Len(b)
        /\ (i - Len(b)) - 1 = (i - 1) - Len(b)
        /\ i \in 1..(Len(b) + Len(tail)) /\ ~ (i <= Len(b))
    BY <1>2, <1>3, <1>4, <1>7
  <2>2. line[i] = tail[i - Len(b)]
    BY <1>3, <2>1
  <2>3. tail[i - Len(b)] = a[(i - Len(b)) - 1]
    BY <1>2, <2>1, SMTT(20)
  <2>4. old[i - 1] = a[(i - 1) - Len(b)]
    BY <1>3, <1>4, <2>1
  <2>5. QED
    BY <1>4, <2>1, <2>2, <2>3, <2>4
<1>8. ASSUME NEW i \in 1..Len(old) PROVE \E k \in 1..Len(line) : line[k] = old[i]
  <2>1. CASE i < p
    <3>1. i \in 1..Len(line)
      BY <1>2, <1>3, <1>4
    <3>2. line[i] = old[i]
      BY <1>6, <2>1, <3>1
    <3>3. QED
      BY <3>1, <3>2
  <2>2. CASE i >= p
    <3>1. i + 1 \in 1..Len(line) /\ i + 1 > p /\ (i + 1) - 1 = i
      BY <1>2, <1>3, <1>4, <2>2
    <3>2. line[i + 1] = old[i]
      BY <1>7, <3>1
    <3>3. QED
      BY <3>1, <3>2
  <2>3. i < p \/ i >= p
    BY <1>3, <1>4
  <2>4. QED
    BY <2>1, <2>2, <2>3
<1>9. \A i \in 1..Len(line) : i = p \/ i < p \/ i > p
  BY <1>3
<1>10. Len(line) = Len(old) + 1 /\ Len(old) \in Nat
  BY <1>2, <1>3, <1>4
<1>11. QED
  <2> HIDE DEF p
  <2> QED BY <1>3, <1>5, <1>6, <1>7, <1>8, <1>9, <1>10 DEF IsInserted

(* A marker is filed among older lines, and no line moves past another. *)
LEMMA KeptMarking ==
  ASSUME NEW t, NEW record, NEW now \in Nat, NEW marks, NEW x \in 1..now, x \in marks,
         Kept(t, record, now, marks),
         NEW u, u = [t EXCEPT !.compressed = Append(@, x)]
  PROVE  Kept(u, record, now, marks)
<1> DEFINE line == D!Timeline(t)
           marked == D!Timeline(u)
           one == <<x>>
<1>1. t \in D!Memory /\ HoldsLatest(line, record, now, marks)
      /\ (Whole(line, record) \/ Len(t.keywords) = KeywordsMax)
  BY DEF Kept
<1>2. /\ t.verbatim \in Seq(Nat) /\ t.compressed \in Seq(Nat) /\ t.keywords \in Seq(Nat)
      /\ line = t.keywords \o (t.compressed \o t.verbatim)
  BY <1>1, TimelineOf, Zenon
<1>3. x \in Nat /\ one \in Seq(Nat) /\ Append(t.compressed, x) = t.compressed \o one
      /\ t.compressed \o one \in Seq(Nat)
  <2>1. x \in Nat /\ one \in Seq(Nat) /\ t.compressed \in Seq(Nat)
    BY <1>2
  <2>2. Append(t.compressed, x) = t.compressed \o one
    BY <2>1, AppendIsConcat
  <2> HIDE DEF one
  <2>3. t.compressed \o one \in Seq(Nat)
    BY <2>1, Joined, Zenon
  <2>4. QED
    BY <2>1, <2>2, <2>3
<1>4. u \in D!Memory /\ u.keywords = t.keywords /\ u.verbatim = t.verbatim
      /\ u.compressed = t.compressed \o one
  <2> HIDE DEF one
  <2>1. u = [t EXCEPT !.compressed = t.compressed \o one]
    BY <1>3
  <2>2. t = [verbatim |-> t.verbatim, compressed |-> t.compressed, keywords |-> t.keywords]
    BY <1>1 DEF D!Memory
  <2>3. u = [verbatim |-> t.verbatim, compressed |-> t.compressed \o one,
             keywords |-> t.keywords]
    BY <2>1, <2>2
  <2>4. t.verbatim \in Seq(Nat) /\ t.keywords \in Seq(Nat)
    BY <1>2
  <2>5. QED
    BY <1>3, <2>3, <2>4 DEF D!Memory
<1> DEFINE older == t.keywords \o t.compressed
<1>5. older \in Seq(Nat) /\ line = older \o t.verbatim
  BY <1>2, Joined, Zenon
<1>6. marked = older \o (one \o t.verbatim)
  <2>1. marked = t.keywords \o ((t.compressed \o one) \o t.verbatim)
    <3>1. marked = u.keywords \o (u.compressed \o u.verbatim)
      BY <1>4, TimelineOf, Zenon
    <3>2. QED
      BY <1>4, <3>1
  <2> HIDE DEF one
  <2> DEFINE younger == one \o t.verbatim
  <2>2. (t.compressed \o one) \o t.verbatim = t.compressed \o younger /\ younger \in Seq(Nat)
    BY <1>2, <1>3, Joined, Zenon
  <2> HIDE DEF younger
  <2>3. t.keywords \o (t.compressed \o younger) = older \o younger
    BY <1>2, <2>2, Joined
  <2>4. QED
    BY <2>1, <2>2, <2>3 DEF younger
<1> HIDE DEF line, marked, older
<1>7. IsInserted(x, line, marked)
  <2>1. /\ older \in Seq(Nat) /\ t.verbatim \in Seq(Nat) /\ x \in Nat
        /\ line = older \o t.verbatim /\ marked = older \o (<<x>> \o t.verbatim)
    BY <1>2, <1>3, <1>5, <1>6
  <2>2. QED
    BY <2>1, Inserted, Zenon
<1>8. PICK p \in 1..Len(marked) :
        /\ marked[p] = x
        /\ \A i \in 1..Len(marked) :
             \/ i = p
             \/ i < p /\ i \in 1..Len(line) /\ marked[i] = line[i]
             \/ i > p /\ (i - 1) \in 1..Len(line) /\ marked[i] = line[i - 1]
        /\ \A i \in 1..Len(line) : \E k \in 1..Len(marked) : marked[k] = line[i]
  BY <1>7 DEF IsInserted
<1>9. marked \in Seq(Nat) /\ Len(marked) = Len(line) + 1 /\ Len(line) \in Nat
  BY <1>7 DEF IsInserted
<1>10. \A i \in 1..Len(marked) :
         i > p => (i - 1) \in 1..Len(line) /\ marked[i] = line[i - 1]
  BY <1>8
<1>11. HoldsLatest(marked, record, now, marks)
  <2>1. ASSUME NEW i \in 1..Len(marked)
        PROVE  i = p \/ \E k \in 1..Len(line) : marked[i] = line[k]
    BY <1>8
  <2>2. \A i \in 1..Len(line) : line[i] \in 1..now /\ (line[i] \in marks \/ line[i] \in record)
    BY <1>1 DEF HoldsLatest
  <2>3. \A i \in 1..Len(marked) :
          marked[i] \in 1..now /\ (marked[i] \in marks \/ marked[i] \in record)
    BY <1>8, <2>1, <2>2
  <2>4. ASSUME NEW j \in 1..Len(marked), NEW k \in 1..Len(marked), j < k,
               marked[j] \notin marks, marked[k] \notin marks
        PROVE  marked[j] < marked[k]
    <3>1. \A m, n \in 1..Len(line) :
            m < n /\ line[m] \notin marks /\ line[n] \notin marks => line[m] < line[n]
      BY <1>1 DEF HoldsLatest
    <3>2. j # p /\ k # p
      BY <1>8, <2>4
    <3>3. CASE k < p
      <4>1. /\ j \in 1..Len(line) /\ marked[j] = line[j]
            /\ k \in 1..Len(line) /\ marked[k] = line[k]
        BY <1>8, <2>4, <3>2, <3>3
      <4>2. QED
        BY <2>4, <3>1, <4>1
    <3>4. CASE k > p /\ j < p
      <4>1. j \in 1..Len(line) /\ marked[j] = line[j]
        BY <1>8, <3>4
      <4>2. (k - 1) \in 1..Len(line) /\ marked[k] = line[k - 1]
        BY <1>10, <3>4
      <4>3. j < k - 1
        BY <1>9, <3>4
      <4>4. QED
        BY <2>4, <3>1, <4>1, <4>2, <4>3
    <3>5. CASE k > p /\ j > p
      <4>1. (j - 1) \in 1..Len(line) /\ marked[j] = line[j - 1]
        BY <1>10, <3>5
      <4>2. (k - 1) \in 1..Len(line) /\ marked[k] = line[k - 1]
        BY <1>10, <3>5
      <4>3. j - 1 < k - 1
        BY <2>4
      <4>4. QED
        BY <2>4, <3>1, <4>1, <4>2, <4>3
    <3>6. QED
      BY <1>9, <2>4, <3>2, <3>3, <3>4, <3>5
  <2>5. ASSUME NEW i \in 1..Len(marked), NEW new \in record,
               marked[i] \notin marks, marked[i] < new
        PROVE  \E k \in 1..Len(marked) : marked[k] = new
    <3>1. PICK k \in 1..Len(line) : marked[i] = line[k]
      BY <1>8, <2>1, <2>5
    <3>2. \E m \in 1..Len(line) : line[m] = new
      BY <1>1, <2>5, <3>1 DEF HoldsLatest
    <3>3. QED
      BY <1>8, <3>2
  <2>6. QED
    BY <1>1, <1>9, <2>3, <2>4, <2>5 DEF HoldsLatest
<1>12. Whole(line, record) => Whole(marked, record)
  BY <1>8 DEF Whole
<1>13. QED
  BY <1>1, <1>4, <1>11, <1>12 DEF Kept, marked

(* The window leaves the latest lines, and what it takes from a full       *)
(* timeline are its oldest.                                                *)
LEMMA KeptSliding ==
  ASSUME NEW t, NEW record, NEW now \in Nat, NEW marks, Kept(t, record, now, marks),
         NEW u, u = D!SlideWindow(t)
  PROVE  Kept(u, record, now, marks)
<1> DEFINE line == D!Timeline(t)
           left == D!Timeline(u)
<1>1. t \in D!Memory /\ HoldsLatest(line, record, now, marks)
      /\ (Whole(line, record) \/ Len(t.keywords) = KeywordsMax)
  BY DEF Kept
<1>2. PICK m \in 0..Len(line) : left = D!Rest(line, m) /\ (m # 0 => Len(u.keywords) = KeywordsMax)
  BY <1>1, WindowTakesTheOldest
<1>3. u \in D!Memory /\ (Len(t.keywords) = KeywordsMax => Len(u.keywords) = KeywordsMax)
  BY <1>1, WindowTakesTheOldest
<1> HIDE DEF line, left
<1>4. line \in Seq(Nat) /\ Len(line) \in Nat
  BY <1>1, LenProperties DEF HoldsLatest
<1>5. /\ left \in Seq(Nat) /\ Len(left) = Len(line) - m
      /\ \A k \in 1..(Len(line) - m) : left[k] = line[k + m]
  BY <1>2, <1>4, TierParted, Zenon
<1>6. \A k \in 1..Len(left) : k + m \in 1..Len(line) /\ left[k] = line[k + m]
  <2>1. \A k \in 1..(Len(line) - m) : k + m \in 1..Len(line)
    BY <1>4
  <2>2. QED
    BY <1>5, <2>1
<1>7. /\ \A i \in 1..Len(line) : line[i] \in 1..now /\ (line[i] \in marks \/ line[i] \in record)
      /\ \A j, k \in 1..Len(line) :
           j < k /\ line[j] \notin marks /\ line[k] \notin marks => line[j] < line[k]
      /\ record \subseteq 1..now /\ record \intersect marks = {}
  BY <1>1 DEF HoldsLatest
<1>8. HoldsLatest(left, record, now, marks)
  <2>1. \A i \in 1..Len(left) : left[i] \in 1..now /\ (left[i] \in marks \/ left[i] \in record)
    BY <1>6, <1>7
  <2>2. ASSUME NEW j \in 1..Len(left), NEW k \in 1..Len(left), j < k,
               left[j] \notin marks, left[k] \notin marks
        PROVE  left[j] < left[k]
    <3>1. j + m < k + m
      BY <2>2
    <3>2. QED
      BY <1>6, <1>7, <2>2, <3>1
  <2>3. ASSUME NEW i \in 1..Len(left), NEW new \in record, left[i] \notin marks, left[i] < new
        PROVE  \E k \in 1..Len(left) : left[k] = new
    <3>1. i + m \in 1..Len(line) /\ left[i] = line[i + m]
      BY <1>6
    <3>2. PICK k \in 1..Len(line) : line[k] = new
      BY <1>1, <2>3, <3>1 DEF HoldsLatest
    <3>3. new \notin marks /\ new \in Nat /\ line[i + m] \in Nat /\ line[i + m] < new
      BY <1>7, <2>3, <3>1
    <3>4. ~ (k < i + m) /\ k # i + m
      BY <1>7, <2>3, <3>1, <3>2, <3>3
    <3>5. k - m \in 1..Len(left) /\ (k - m) + m = k
      BY <1>4, <1>5, <3>1, <3>4
    <3>6. left[k - m] = new
      BY <1>6, <3>2, <3>5
    <3>7. QED
      BY <3>5, <3>6
  <2>4. QED
    BY <1>5, <1>7, <2>1, <2>2, <2>3 DEF HoldsLatest
<1>9. m = 0 /\ Whole(line, record) => Whole(left, record)
  BY <1>4, <1>5 DEF Whole
<1>10. QED
  BY <1>1, <1>2, <1>3, <1>8, <1>9 DEF Kept, left

-----------------------------------------------------------------------------
(* The timelines of all, and the group's. *)
TiersInv ==
  /\ clock \in Nat /\ markers \subseteq 1..clock
  /\ \A a \in Talkers : Kept(tiers[a], said[a], clock, markers)
  /\ Kept(group, groupSaid, clock, markers)

LEMMA KeptEmpty ==
  ASSUME NEW now \in Nat, NEW marks
  PROVE  Kept(D!TieredMemory, {}, now, marks)
<1>1. <<>> \in Seq(Nat) /\ Len(<<>>) = 0 /\ <<>> \o (<<>> \o <<>>) = <<>>
  BY EmptySeq, ConcatEmptySeq
<1>2. D!TieredMemory \in D!Memory
  BY <1>1, MemoryOf DEF D!TieredMemory
<1>3. D!Timeline(D!TieredMemory) = <<>>
  <2>1. /\ D!TieredMemory.keywords = <<>> /\ D!TieredMemory.compressed = <<>>
        /\ D!TieredMemory.verbatim = <<>>
    BY DEF D!TieredMemory
  <2>2. QED
    BY <1>1, <1>2, <2>1, TimelineOf
<1>4. QED
  BY <1>1, <1>2, <1>3 DEF Kept, HoldsLatest, Whole

LEMMA TiersInit == D!Init => TiersInv
<1> SUFFICES ASSUME D!Init PROVE TiersInv
  OBVIOUS
<1>1. clock = 0 /\ markers = {} /\ group = D!TieredMemory /\ groupSaid = {}
      /\ \A a \in Talkers : tiers[a] = D!TieredMemory /\ said[a] = {}
  BY DEF D!Init, D!Forgotten
<1>2. QED
  BY <1>1, KeptEmpty DEF TiersInv

(* What a hearer hears, it and nobody else records. *)
LEMMA RecordKeeps ==
  ASSUME TiersInv, NEW hearers,
         tiers' = [a \in Talkers |-> IF a \in hearers THEN D!Hears(tiers[a]) ELSE tiers[a]],
         said' = [a \in Talkers |-> said[a] \union (IF a \in hearers THEN {D!This} ELSE {})]
  PROVE  /\ clock + 1 \in Nat /\ markers \subseteq 1..(clock + 1)
         /\ \A a \in Talkers : Kept(tiers'[a], said'[a], clock + 1, markers)
         /\ Kept(group, groupSaid, clock + 1, markers)
         /\ Kept(D!Hears(group), groupSaid \union {clock + 1}, clock + 1, markers)
<1>1. clock \in Nat /\ clock + 1 \in Nat /\ clock <= clock + 1 /\ markers \subseteq 1..clock
      /\ markers \subseteq 1..(clock + 1) /\ D!This = clock + 1
  BY DEF TiersInv, D!This
<1>2. \A t : D!Hears(t) = [t EXCEPT !.verbatim = Append(@, clock + 1)]
  BY <1>1 DEF D!Hears
<1>3. ASSUME NEW t, NEW record, Kept(t, record, clock, markers)
      PROVE  /\ Kept(t, record, clock + 1, markers)
             /\ Kept(D!Hears(t), record \union {clock + 1}, clock + 1, markers)
  <2>1. Kept(t, record, clock + 1, markers)
    BY <1>1, <1>3, KeptLater
  <2>2. Kept(D!Hears(t), record \union {clock + 1}, clock + 1, markers)
    BY <1>1, <1>2, <1>3, KeptHearing
  <2>3. QED
    BY <2>1, <2>2
<1>4. ASSUME NEW a \in Talkers PROVE Kept(tiers'[a], said'[a], clock + 1, markers)
  <2>1. Kept(tiers[a], said[a], clock, markers)
    BY DEF TiersInv
  <2>2. CASE a \in hearers
    <3>1. tiers'[a] = D!Hears(tiers[a]) /\ said'[a] = said[a] \union {clock + 1}
      BY <1>1, <2>2
    <3>2. QED
      BY <1>3, <2>1, <3>1
  <2>3. CASE a \notin hearers
    <3>1. tiers'[a] = tiers[a] /\ said'[a] = said[a]
      BY <2>3
    <3>2. QED
      BY <1>3, <2>1, <3>1
  <2>4. QED
    BY <2>2, <2>3
<1>5. Kept(group, groupSaid, clock, markers)
  BY DEF TiersInv
<1>6. QED
  BY <1>1, <1>3, <1>4, <1>5

LEMMA TiersStepKeeps == ASSUME TiersInv, D!Next PROVE TiersInv'
<1>1. ASSUME UNCHANGED <<clock, tiers, group, said, groupSaid, markers>> PROVE TiersInv'
  BY <1>1 DEF TiersInv
<1>2. ASSUME NEW hearers, NEW shared \in BOOLEAN, D!Record(hearers, shared),
             UNCHANGED markers
      PROVE  TiersInv'
  <2>1. clock' = clock + 1
    BY <1>2 DEF D!Record, D!This
  <2>2. /\ clock + 1 \in Nat /\ markers \subseteq 1..(clock + 1)
        /\ \A a \in Talkers : Kept(tiers'[a], said'[a], clock + 1, markers)
        /\ Kept(group, groupSaid, clock + 1, markers)
        /\ Kept(D!Hears(group), groupSaid \union {clock + 1}, clock + 1, markers)
    <3>1. /\ tiers' = [a \in Talkers |-> IF a \in hearers THEN D!Hears(tiers[a]) ELSE tiers[a]]
          /\ said' = [a \in Talkers |-> said[a] \union (IF a \in hearers THEN {D!This} ELSE {})]
      BY <1>2 DEF D!Record
    <3>2. QED
      BY <3>1, RecordKeeps
  <2>3. Kept(group', groupSaid', clock + 1, markers)
    <3>1. CASE shared
      <4>1. group' = D!Hears(group) /\ groupSaid' = groupSaid \union {clock + 1}
        BY <1>2, <3>1 DEF D!Record, D!This
      <4>2. QED
        BY <2>2, <4>1
    <3>2. CASE ~shared
      <4>1. group' = group /\ groupSaid' = groupSaid
        BY <1>2, <3>2 DEF D!Record
      <4>2. QED
        BY <2>2, <4>1
    <3>3. QED
      BY <3>1, <3>2
  <2>4. QED
    BY <1>2, <2>1, <2>2, <2>3 DEF TiersInv
<1>3. ASSUME NEW here \in Rooms, NEW hearers, D!BeginTurn(here, hearers) PROVE TiersInv'
  <2>1. /\ clock + 1 \in Nat /\ markers \subseteq 1..(clock + 1)
        /\ \A a \in Talkers : Kept(tiers'[a], said'[a], clock + 1, markers)
        /\ Kept(group, groupSaid, clock + 1, markers)
    <3>1. /\ tiers' = [a \in Talkers |-> IF a \in hearers THEN D!Hears(tiers[a]) ELSE tiers[a]]
          /\ said' = [a \in Talkers |-> said[a] \union (IF a \in hearers THEN {D!This} ELSE {})]
      BY <1>3 DEF D!BeginTurn
    <3>2. QED
      BY <3>1, RecordKeeps
  <2>2. groupSaid' = groupSaid
    BY <1>3 DEF D!BeginTurn
  <2>3. CASE ~D!Marks(here)
    <3>1. clock' = clock + 1 /\ group' = group /\ markers' = markers
      BY <1>3, <2>3 DEF D!BeginTurn, D!This
    <3>2. QED
      BY <2>1, <2>2, <3>1 DEF TiersInv
  <2>4. CASE D!Marks(here)
    <3> DEFINE now == clock + 1
               marker == now + 1
               more == markers \union {marker}
    <3>1. /\ group' = [group EXCEPT !.compressed = Append(@, marker)]
          /\ markers' = more /\ clock' = marker
      BY <1>3, <2>4 DEF D!BeginTurn, D!This
    <3>2. /\ now \in Nat /\ marker \in Nat /\ now <= marker /\ markers \subseteq more
          /\ marker \in 1..marker /\ marker \in more /\ more \subseteq 1..marker
          /\ \A x \in more \ markers : x \notin 1..now
      <4>1. now \in Nat /\ markers \subseteq 1..now
        BY <2>1
      <4> HIDE DEF now
      <4>2. /\ marker \in Nat /\ now <= marker /\ marker \in 1..marker
            /\ marker \notin 1..now /\ \A x \in 1..now : x \in 1..marker
        BY <4>1
      <4> HIDE DEF marker
      <4>3. QED
        BY <4>1, <4>2
    <3>3. /\ \A a \in Talkers : Kept(tiers'[a], said'[a], now, markers)
          /\ Kept(group, groupSaid, now, markers)
      BY <2>1
    <3> HIDE DEF now, marker, more
    <3>4. \A t, record : Kept(t, record, now, markers) => Kept(t, record, marker, more)
      BY <3>2, KeptLater
    <3>5. Kept(group', groupSaid, marker, more)
      BY <3>1, <3>2, <3>3, <3>4, KeptMarking
    <3>6. QED
      BY <2>2, <3>1, <3>2, <3>3, <3>4, <3>5 DEF TiersInv
  <2>5. QED
    BY <2>3, <2>4
<1>4. CASE D!Reset
  <2>1. /\ clock' = clock /\ markers' = markers /\ group' = D!TieredMemory /\ groupSaid' = {}
        /\ \A a \in Talkers : tiers'[a] = D!TieredMemory /\ said'[a] = {}
    BY <1>4 DEF D!Reset, D!Forgotten
  <2>2. QED
    BY <2>1, KeptEmpty DEF TiersInv
<1>5. CASE D!EndTurn
  <2>1. /\ clock' = clock /\ markers' = markers /\ groupSaid' = groupSaid /\ said' = said
        /\ group' = D!SlideWindow(group)
        /\ \A a \in Talkers : tiers'[a] = tiers[a] \/ tiers'[a] = D!SlideWindow(tiers[a])
    BY <1>5 DEF D!EndTurn
  <2>2. \A t, record : Kept(t, record, clock, markers)
          => Kept(D!SlideWindow(t), record, clock, markers)
    BY KeptSliding DEF TiersInv
  <2>3. QED
    BY <2>1, <2>2 DEF TiersInv
<1>6. ASSUME NEW a \in Talkers, NEW here \in Rooms, D!Register(a, here) PROVE TiersInv'
  BY <1>1, <1>6 DEF D!Register
<1>7. ASSUME NEW a \in Talkers, NEW here \in Rooms, D!AdoptSpeech(a, here) PROVE TiersInv'
  BY <1>2, <1>7 DEF D!AdoptSpeech
<1>8. ASSUME NEW a \in Talkers, NEW b \in Talkers, NEW here \in Rooms,
             D!AdoptChat({a, b}, here)
      PROVE  TiersInv'
  BY <1>2, <1>8 DEF D!AdoptChat
<1>9. ASSUME NEW a \in Talkers, D!Speak(a) PROVE TiersInv'
  BY <1>2, <1>9 DEF D!Speak
<1>10. ASSUME NEW a \in Talkers, NEW target \in BOOLEAN, D!SetCurrentTask(a, target)
       PROVE  TiersInv'
  BY <1>1, <1>10 DEF D!SetCurrentTask
<1>11. CASE D!TurnFails
  BY <1>1, <1>11 DEF D!TurnFails
<1>12. QED
  BY <1>3, <1>4, <1>5, <1>6, <1>7, <1>8, <1>9, <1>10, <1>11 DEF D!Next

(* Every timeline is in order and holds the latest of what it recorded,     *)
(* and loses nothing before its keywords are full, for any sizes of the    *)
(* tiers and any number of lines, through turns that fail, resets and      *)
(* scene markers (slide_window).                                           *)
THEOREM TiersHoldTheLatest == PartsSpec => []OldestOut
<1>1. PartsInit => TiersInv
  BY TiersInit DEF PartsInit
<1>2. ASSUME TiersInv, [PartsNext]_vars PROVE TiersInv'
  <2>1. CASE TiersStep
    BY <1>2, <2>1, TiersStepKeeps DEF TiersStep
  <2>2. CASE UNCHANGED tierVars
    BY <1>2, <2>2 DEF tierVars, TiersInv
  <2>3. QED
    BY <1>2, <2>1, <2>2 DEF PartsNext, vars, FactsStep, SchedulerStep,
       GoalsStep, MemoriesStep, NightsStep
<1>3. TiersInv => OldestOut
  <2> SUFFICES ASSUME TiersInv PROVE D!OldestOut /\ D!EvictsOnlyWhenFull
    BY DEF OldestOut
  <2>1. clock \in Nat /\ Kept(group, groupSaid, clock, markers)
        /\ \A a \in Talkers : Kept(tiers[a], said[a], clock, markers)
    BY DEF TiersInv
  <2>2. QED
    BY <2>1, KeptIsThePromise DEF D!OldestOut, D!EvictsOnlyWhenFull
<1>4. QED
  BY <1>1, <1>2, <1>3, PTL DEF PartsSpec

(* The types of the tiers. *)
Shown == [memory : D!Memory, task : BOOLEAN]

LEMMA MemoriesAre ==
  /\ D!TieredMemory \in D!Memory
  /\ D!Forgotten(D!TieredMemory) \in [Talkers -> D!Memory]
  /\ D!Nothing \in Shown /\ D!Forgotten(D!Nothing) \in [Talkers -> Shown]
  /\ D!Forgotten(FALSE) \in [Talkers -> BOOLEAN] /\ D!Forgotten({}) \in [Talkers -> SUBSET Nat]
<1>1. D!TieredMemory \in D!Memory
  <2>1. <<>> \in Seq(Nat)
    OBVIOUS
  <2>2. QED
    BY <2>1, MemoryOf DEF D!TieredMemory
<1>2. D!Nothing \in Shown
  BY <1>1 DEF D!Nothing, Shown
<1>3. QED
  BY <1>1, <1>2 DEF D!Forgotten

LEMMA HearingIsTyped ==
  ASSUME NEW t \in D!Memory, clock \in Nat
  PROVE  D!Hears(t) \in D!Memory
<1>1. /\ t.verbatim \in Seq(Nat) /\ t.compressed \in Seq(Nat) /\ t.keywords \in Seq(Nat)
      /\ t = [verbatim |-> t.verbatim, compressed |-> t.compressed, keywords |-> t.keywords]
  BY DEF D!Memory
<1>2. clock + 1 \in Nat
  OBVIOUS
<1>3. Append(t.verbatim, clock + 1) \in Seq(Nat)
  BY <1>1, <1>2, AppendProperties
<1>4. D!Hears(t) = [t EXCEPT !.verbatim = Append(t.verbatim, clock + 1)]
  BY Zenon DEF D!Hears, D!This
<1>5. [t EXCEPT !.verbatim = Append(t.verbatim, clock + 1)] \in D!Memory
  BY <1>3 DEF D!Memory
<1>6. QED
  BY <1>4, <1>5

(* A line, and whoever gets a buffer with it. *)
LEMMA LinesAreTyped ==
  ASSUME D!TypeOK, NEW hearers \in SUBSET Talkers, buffered' = buffered \union hearers,
         tiers' = [a \in Talkers |-> IF a \in hearers THEN D!Hears(tiers[a]) ELSE tiers[a]],
         said' = [a \in Talkers |-> said[a] \union (IF a \in hearers THEN {D!This} ELSE {})]
  PROVE  /\ tiers' \in [Talkers -> D!Memory] /\ said' \in [Talkers -> SUBSET Nat]
         /\ buffered' \subseteq Talkers
         /\ \A a \in Talkers \ buffered' : tiers'[a] = D!TieredMemory /\ ~task[a]
<1>1. /\ clock \in Nat /\ clock + 1 \in Nat /\ D!This = clock + 1
      /\ tiers \in [Talkers -> D!Memory] /\ said \in [Talkers -> SUBSET Nat]
  BY TierConstants DEF D!TypeOK, D!This
<1>2. tiers' \in [Talkers -> D!Memory]
  BY <1>1, HearingIsTyped
<1>3. said' \in [Talkers -> SUBSET Nat]
  BY <1>1
<1>4. QED
  BY <1>2, <1>3 DEF D!TypeOK

LEMMA TiersTypedStep == ASSUME D!TypeOK, D!Next PROVE D!TypeOK'
<1>0. /\ clock \in 0..MaxLines /\ MaxLines \in Nat /\ clock \in Nat
      /\ Rooms \subseteq SUBSET Talkers /\ Earshots \subseteq SUBSET Talkers
  BY TierConstants, PartsAssumption DEF D!TypeOK, D!TiersAssumption
<1>1. ASSUME NEW hearers \in SUBSET Talkers, NEW shared \in BOOLEAN,
             D!Record(hearers, shared), UNCHANGED <<task, turnOf, prompt, markers>>,
             present' \subseteq Talkers
      PROVE  D!TypeOK'
  <2>1. /\ buffered' = buffered \union hearers
        /\ tiers' = [a \in Talkers |-> IF a \in hearers THEN D!Hears(tiers[a]) ELSE tiers[a]]
        /\ said' = [a \in Talkers |-> said[a] \union (IF a \in hearers THEN {D!This} ELSE {})]
    BY <1>1 DEF D!Record
  <2>2. /\ tiers' \in [Talkers -> D!Memory] /\ said' \in [Talkers -> SUBSET Nat]
        /\ buffered' \subseteq Talkers
        /\ \A a \in Talkers \ buffered' : tiers'[a] = D!TieredMemory /\ ~task[a]
    BY <2>1, LinesAreTyped
  <2>3. clock' \in 0..MaxLines
    BY <1>0, <1>1 DEF D!Record, D!This
  <2>4. group' \in D!Memory
    <3>1. group \in D!Memory
      BY DEF D!TypeOK
    <3>2. D!Hears(group) \in D!Memory
      BY <1>0, <3>1, HearingIsTyped
    <3>3. QED
      BY <1>1, <3>1, <3>2 DEF D!Record
  <2>5. groupSaid' \subseteq Nat
    <3>1. groupSaid \subseteq Nat /\ clock + 1 \in Nat
      BY <1>0 DEF D!TypeOK
    <3>2. QED
      BY <1>1, <3>1 DEF D!Record, D!This
  <2>6. QED
    BY <1>1, <2>2, <2>3, <2>4, <2>5 DEF D!TypeOK
<1>2. ASSUME NEW here \in Rooms, NEW hearers \in SUBSET Talkers, D!BeginTurn(here, hearers)
      PROVE  D!TypeOK'
  <2>1. /\ buffered' = buffered \union hearers
        /\ tiers' = [a \in Talkers |-> IF a \in hearers THEN D!Hears(tiers[a]) ELSE tiers[a]]
        /\ said' = [a \in Talkers |-> said[a] \union (IF a \in hearers THEN {D!This} ELSE {})]
        /\ clock + 1 < MaxLines /\ turnOf' = here /\ present' = here
        /\ UNCHANGED <<task, groupSaid>>
    BY <1>2 DEF D!BeginTurn
  <2>2. /\ tiers' \in [Talkers -> D!Memory] /\ said' \in [Talkers -> SUBSET Nat]
        /\ buffered' \subseteq Talkers
        /\ \A a \in Talkers \ buffered' : tiers'[a] = D!TieredMemory /\ ~task[a]
    BY <2>1, LinesAreTyped
  <2>3. group \in D!Memory /\ markers \subseteq 1..MaxLines
    BY DEF D!TypeOK
  <2>4. clock' \in 0..MaxLines /\ group' \in D!Memory /\ markers' \subseteq 1..MaxLines
    <3>1. CASE ~D!Marks(here)
      <4>1. clock' = clock + 1 /\ group' = group /\ markers' = markers
        BY <1>2, <3>1 DEF D!BeginTurn, D!This
      <4>2. QED
        BY <1>0, <2>1, <2>3, <4>1
    <3>2. CASE D!Marks(here)
      <4>1. /\ clock' = clock + 1 + 1 /\ markers' = markers \union {clock + 1 + 1}
            /\ group' = [group EXCEPT !.compressed = Append(@, clock + 1 + 1)]
        BY <1>2, <3>2 DEF D!BeginTurn, D!This
      <4>2. clock + 1 + 1 \in 1..MaxLines /\ clock + 1 + 1 \in Nat
        BY <1>0, <2>1
      <4>3. clock' \in 0..MaxLines /\ markers' \subseteq 1..MaxLines
        BY <1>0, <2>3, <4>1, <4>2
      <4>4. Append(group.compressed, clock + 1 + 1) \in Seq(Nat)
        BY <2>3, <4>2, AppendProperties DEF D!Memory
      <4>5. group' \in D!Memory
        BY <2>3, <4>1, <4>4 DEF D!Memory
      <4>6. QED
        BY <4>3, <4>5
    <3>3. QED
      BY <3>1, <3>2
  <2>5. prompt' \in [Talkers -> Shown]
    <3>1. prompt' = [a \in Talkers |-> IF a \in here THEN D!Snapshot(a) ELSE D!Nothing]
      BY <1>2 DEF D!BeginTurn
    <3>2. ASSUME NEW a \in Talkers PROVE D!Snapshot(a) \in Shown
      <4>1. tiers'[a].verbatim \in Seq(Nat)
        BY <2>2 DEF D!Memory
      <4>2. D!Nothing \in Shown
        BY MemoriesAre
      <4>3. [D!Nothing EXCEPT !.memory.verbatim = tiers'[a].verbatim] \in Shown
        BY <4>1, <4>2 DEF Shown, D!Memory
      <4>4. QED
        BY <4>2, <4>3 DEF D!Snapshot
    <3>3. QED
      BY <3>1, <3>2, MemoriesAre
  <2>6. turnOf' \subseteq Talkers /\ present' \subseteq Talkers /\ task' \in [Talkers -> BOOLEAN]
        /\ groupSaid' \subseteq Nat
    BY <1>0, <2>1 DEF D!TypeOK
  <2>7. QED
    BY <2>1, <2>2, <2>4, <2>5, <2>6 DEF D!TypeOK, Shown
<1>3. CASE D!Reset
  BY <1>3, MemoriesAre DEF D!Reset, D!TypeOK, D!Forgotten
<1>4. CASE D!EndTurn
  <2>1. \A t \in D!Memory : D!SlideWindow(t) \in D!Memory
    BY WindowTakesTheOldest
  <2>2. /\ tiers' = [a \in Talkers |-> IF a \in turnOf \intersect buffered
                                         THEN D!SlideWindow(tiers[a]) ELSE tiers[a]]
        /\ group' = D!SlideWindow(group) /\ turnOf' = {} /\ prompt' = D!Forgotten(D!Nothing)
        /\ UNCHANGED <<clock, buffered, task, present, said, groupSaid, markers>>
    BY <1>4 DEF D!EndTurn, D!NoTurn
  <2>3. /\ tiers' \in [Talkers -> D!Memory] /\ group' \in D!Memory
        /\ \A a \in Talkers \ buffered : tiers'[a] = tiers[a]
    BY <2>1, <2>2 DEF D!TypeOK
  <2>4. prompt' \in [Talkers -> Shown]
    BY <2>2, MemoriesAre
  <2>5. QED
    BY <2>2, <2>3, <2>4 DEF D!TypeOK, Shown
<1>5. CASE D!TurnFails
  <2>1. /\ turnOf' = {} /\ prompt' = D!Forgotten(D!Nothing)
        /\ UNCHANGED <<clock, buffered, tiers, task, group, present, said, groupSaid, markers>>
    BY <1>5 DEF D!TurnFails, D!NoTurn
  <2>2. prompt' \in [Talkers -> Shown]
    BY <2>1, MemoriesAre
  <2>3. QED
    BY <2>1, <2>2 DEF D!TypeOK, Shown
<1>6. ASSUME NEW a \in Talkers, NEW here \in Rooms, D!Register(a, here) PROVE D!TypeOK'
  BY <1>0, <1>6 DEF D!Register, D!TypeOK
<1>7. ASSUME NEW a \in Talkers, NEW here \in Rooms, D!AdoptSpeech(a, here) PROVE D!TypeOK'
  <2>1. D!Record({a}, TRUE) /\ present' \subseteq Talkers
        /\ UNCHANGED <<task, turnOf, prompt, markers>>
    BY <1>0, <1>7 DEF D!AdoptSpeech
  <2>2. QED
    BY <1>1, <2>1
<1>8. ASSUME NEW a \in Talkers, NEW b \in Talkers, NEW here \in Rooms,
             D!AdoptChat({a, b}, here)
      PROVE  D!TypeOK'
  <2>1. D!Record({a, b}, FALSE) /\ present' \subseteq Talkers
        /\ UNCHANGED <<task, turnOf, prompt, markers>>
    BY <1>0, <1>8 DEF D!AdoptChat
  <2>2. {a, b} \in SUBSET Talkers
    OBVIOUS
  <2>3. QED
    BY <1>1, <2>1, <2>2
<1>9. ASSUME NEW a \in Talkers, D!Speak(a) PROVE D!TypeOK'
  <2>1. D!Record({a}, TRUE) /\ present' = present
        /\ UNCHANGED <<task, turnOf, prompt, markers>>
    BY <1>9 DEF D!Speak
  <2>2. present' \subseteq Talkers
    BY <2>1 DEF D!TypeOK
  <2>3. QED
    BY <1>1, <2>1, <2>2
<1>10. ASSUME NEW a \in Talkers, NEW target \in BOOLEAN, D!SetCurrentTask(a, target)
       PROVE  D!TypeOK'
  BY <1>10 DEF D!SetCurrentTask, D!TypeOK
<1>11. ASSUME NEW here \in Rooms, NEW hearers \in Earshots \union {here},
              D!BeginTurn(here, hearers)
       PROVE  D!TypeOK'
  <2>1. hearers \in SUBSET Talkers
    BY <1>0
  <2>2. QED
    BY <1>2, <1>11, <2>1
<1>12. QED
  BY <1>3, <1>4, <1>5, <1>6, <1>7, <1>8, <1>9, <1>10, <1>11 DEF D!Next

LEMMA TiersTypedInit == D!Init => D!TypeOK
BY MemoriesAre, TierConstants DEF D!Init, D!TypeOK, D!NoTurn, D!Forgotten, Shown

LEMMA TiersAlwaysTyped == PartsSpec => []D!TypeOK
<1>1. PartsInit => D!TypeOK
  BY TiersTypedInit DEF PartsInit
<1>2. ASSUME D!TypeOK, [PartsNext]_vars PROVE D!TypeOK'
  <2>1. CASE TiersStep
    BY <1>2, <2>1, TiersTypedStep DEF TiersStep
  <2>2. CASE UNCHANGED tierVars
    BY <1>2, <2>2 DEF tierVars, D!TypeOK
  <2>3. QED
    BY <1>2, <2>1, <2>2 DEF PartsNext, vars, FactsStep, SchedulerStep,
       GoalsStep, MemoriesStep, NightsStep
<1>3. QED
  BY <1>1, <1>2, PTL DEF PartsSpec

-----------------------------------------------------------------------------
(* All parts. *)

PartIsOne == part \in {"facts", "scheduler", "goals", "memories", "nights", "tiers"}

LEMMA PartStays == PartsSpec => []PartIsOne
<1>1. PartsInit => PartIsOne
  BY DEF PartsInit, PartIsOne
<1>2. PartIsOne /\ [PartsNext]_vars => PartIsOne'
  BY DEF PartIsOne, PartsNext, vars, FactsStep, SchedulerStep, GoalsStep, MemoriesStep,
     NightsStep, TiersStep
<1>3. QED
  BY <1>1, <1>2, PTL DEF PartsSpec

(* Every part stays within its types and bounds, and the calls of a turn   *)
(* partition its roster, for any constants: also when scans of the nights  *)
(* fail or are cut, where the chain of versions is not claimed to hold.    *)
THEOREM PartsAreTyped == PartsSpec => []PartsInvariant
<1>1. /\ Sched!SchedulerInv => S!TypeOK /\ S!DispatchPartitions
      /\ GoalsInv => G!TypeOK
      /\ RecallInv => R!TypeOK
      /\ NightsTyped => N!TypeOK
  BY SchedulerIsSound, RecallIsTyped DEF GoalsInv, NightsTyped
<1>2. ASSUME PartIsOne, S!TypeOK /\ S!DispatchPartitions, G!TypeOK, R!TypeOK, N!TypeOK,
             D!TypeOK
      PROVE  PartsInvariant
  BY <1>2 DEF PartIsOne, PartsInvariant
<1>3. QED
  BY <1>1, <1>2, PartStays, SchedulerAlways, GoalsAlways, RecallAlways, NightsAlwaysTyped,
     TiersAlwaysTyped, PTL

-----------------------------------------------------------------------------
(* The composition is each of its parts: where one takes a step, the        *)
(* others stutter, so that what is proved of a part's own specification    *)
(* holds of its runs in the composition.                                   *)
THEOREM EachPartIsItself ==
  PartsSpec => Spec /\ S!Spec /\ G!Spec /\ R!Spec /\ N!Spec /\ D!Spec
<1>1. PartsInit => Init /\ S!Init /\ G!Init /\ R!Init /\ N!Init /\ D!Init
  BY DEF PartsInit
<1>2. [PartsNext]_vars =>
        /\ [Next]_poolVars /\ [S!Next]_S!schedVars /\ [G!Next]_G!goalVars
        /\ [R!Next]_R!recallVars /\ [N!Next]_N!reconVars /\ [D!Next]_D!tierVars
  BY DEF PartsNext, vars, FactsStep, SchedulerStep, GoalsStep, MemoriesStep,
     NightsStep, TiersStep, poolVars, schedVars, goalVars, recallVars, reconVars,
     tierVars, S!schedVars, G!goalVars, R!recallVars, R!storeVars, N!reconVars,
     D!tierVars
<1>3. QED
  BY <1>1, <1>2, PTL DEF PartsSpec, Spec, S!Spec, G!Spec, R!Spec, N!Spec, D!Spec
=============================================================================
