------------------------ MODULE SocialApproachProofs ------------------------
(***************************************************************************)
(* Theorems about an NPC's approach to strangers, for every set of         *)
(* subjects, warmths and resonances, and every bound on its memories and   *)
(* encounters.                                                             *)
(***************************************************************************)
EXTENDS SocialApproach, TLAPS

(* Who has no memories feels nothing yet about anybody: what a reading     *)
(* leaves in the ledger and in the snapshots rests on a memory.            *)
NoFeelingWithoutMemory ==
  memories = {} => \A s \in Subjects :
    prior[s].encounters = 0 /\ (s \in DOMAIN snapshot => snapshot[s] = 0)

(* What the induction needs of the types. *)
Typed ==
  /\ memories \subseteq Memory
  /\ strangers \subseteq Subjects
  /\ DOMAIN prior = Subjects
  /\ \A s \in Subjects : prior[s].estimate \in Int
  /\ scene \subseteq People

(* Nothing that is written or replaced leaves Me without a memory, and     *)
(* what Me ever felt of a subject is in its memories or was.               *)
LEMMA WritesKeep ==
  ASSUME NEW about, Writes(about)
  PROVE  /\ memories' \subseteq Memory
         /\ memories # {} => memories' # {}
         /\ \A s \in Subjects : /\ felt[s] \subseteq felt'[s]
                               /\ WarmthsOf(AboutIn(memories', s)) \subseteq felt'[s]
<1>1. memories' \subseteq Memory
  BY SocialAssumption DEF Writes
<1>2. memories # {} => memories' # {}
  BY DEF Writes
<1>3. ASSUME NEW s \in Subjects
      PROVE  felt'[s] = felt[s] \union WarmthsOf(AboutIn(memories', s))
  BY DEF Writes
<1>4. QED
  BY <1>1, <1>2, <1>3

BlankInv == Typed /\ NoFeelingWithoutMemory /\ StrangersAreBlank

(* Between turns no statement is recalled. *)
RecalledInv == RecalledForSomeone /\ (stage = "idle" => recalled = FALSE)

(* A satisfied goal does not lead: priming recalls the statement only when *)
(* there is a stranger around.                                             *)
LEMMA PrimingNeedsAStranger ==
  ASSUME NEW resonance, Primes(resonance), recalled'
  PROVE  PresentStrangers # {}
<1>1. SUFFICES ASSUME PresentStrangers = {} PROVE FALSE
  OBVIOUS
<1>2. goal'.state = "satisfied"
  BY <1>1 DEF Primes, Lifecycle!Transition, Lifecycle!Satisfied
<1>3. goal'.state \in Lifecycle!Leading
  BY DEF Primes
<1>4. QED
  BY <1>2, <1>3 DEF Lifecycle!Leading

(* The statement about somebody unknown is recalled by the lifecycle only  *)
(* in a turn that has a stranger around the NPC (_prime_goals_for_turn).   *)
THEOREM RecalledOnlyForStrangers == Spec => []RecalledForSomeone
<1>1. Init => RecalledInv
  BY DEF Init, RecalledInv, RecalledForSomeone
<1>2. RecalledInv /\ [Next]_socialVars => RecalledInv'
  <2> SUFFICES ASSUME RecalledInv, [Next]_socialVars
               PROVE  RecalledInv'
    OBVIOUS
  <2>1. ASSUME NEW now \in Scenes, BeginTurn(now)
        PROVE  RecalledInv'
    <3>1. stage' = "prompt" /\ scene' = now
      BY <2>1 DEF BeginTurn
    <3>2. CASE Me \in now /\ \E resonance \in Resonances : Primes(resonance)
      <4>1. recalled' => PresentStrangers # {}
        BY <3>2, PrimingNeedsAStranger
      <4>2. QED
        BY <3>1, <3>2, <4>1 DEF RecalledInv, RecalledForSomeone, PresentStrangers
    <3>3. CASE PrimesNothing
      BY <3>1, <3>3 DEF RecalledInv, RecalledForSomeone, PrimesNothing
    <3>4. QED
      BY <2>1, <3>2, <3>3 DEF BeginTurn
  <2>2. ASSUME NEW heard, NEW told, EndTurn(heard, told)
        PROVE  RecalledInv'
    BY <2>2 DEF EndTurn, RecalledInv, RecalledForSomeone
  <2>3. ASSUME NEW now, NEW learned, Ingest(now, learned)
        PROVE  RecalledInv'
    BY <2>3 DEF Ingest, RecalledInv, RecalledForSomeone
  <2>4. CASE Reset
    BY <2>4 DEF Reset, RecalledInv, RecalledForSomeone
  <2>5. CASE UNCHANGED socialVars
    BY <2>5 DEF socialVars, RecalledInv, RecalledForSomeone
  <2>6. QED
    BY <2>1, <2>2, <2>3, <2>4, <2>5 DEF Next
<1>3. RecalledInv => RecalledForSomeone
  BY DEF RecalledInv
<1>4. QED
  BY <1>1, <1>2, <1>3, PTL DEF Spec

-----------------------------------------------------------------------------
(* A reading is made of some of the memories. *)
LEMMA SurfacedAreMemories ==
  ASSUME NEW s, NEW r \in Readings(s)
  PROVE  \E S \in SUBSET memories : r \in Reading(s, S)
BY DEF Readings, Surfaced

(* A reading in an NPC without memories finds nothing and feels nothing. *)
LEMMA NothingToRead ==
  ASSUME memories = {}, NEW s, NEW r \in Readings(s)
  PROVE  r.some = FALSE /\ r.general = 0
<1>1. PICK S \in SUBSET memories : r \in Reading(s, S)
  BY SurfacedAreMemories
<1>2. S \intersect About(s) = {} /\ WarmthsOf(S \ About(s)) = {}
  BY DEF WarmthsOf
<1>3. Means(WarmthsOf(S \ About(s))) = {0}
  BY <1>2 DEF Means
<1>4. QED
  BY <1>1, <1>2, <1>3 DEF Reading

(* What is read is a warmth, and leaves an estimate that is one. *)
LEMMA ReadingTypes ==
  ASSUME NEW s, NEW r \in Readings(s)
  PROVE  /\ r.individual \in Int
         /\ \A p : p.estimate \in Int => Consolidated(p, r).estimate \in Int
<1>1. ASSUME NEW W PROVE Means(W) \subseteq Int
  <2>1. CASE W = {}
    BY <2>1 DEF Means
  <2>2. CASE W # {}
    BY <2>2, SocialAssumption DEF Means
  <2>3. QED
    BY <2>1, <2>2
<1>2. PICK S \in SUBSET memories : r \in Reading(s, S)
  BY SurfacedAreMemories
<1>3. r.individual \in Int
  BY <1>1, <1>2 DEF Reading
<1>4. ASSUME NEW p, p.estimate \in Int
      PROVE  Consolidated(p, r).estimate \in Int
  BY <1>3, <1>4 DEF Consolidated
<1>5. QED
  BY <1>3, <1>4

(* A prior of no encounter, blended with nothing, is no feeling. *)
LEMMA BlankBlend ==
  ASSUME NEW p, NEW r,
         p.encounters = 0, p.estimate \in Int, r.some = FALSE, r.general = 0
  PROVE  Consolidated(p, r) = p /\ Effective(p, r) = 0
<1>1. Consolidated(p, r) = p
  BY DEF Consolidated
<1>2. HysteresisK \in Nat /\ HysteresisK > 0
  BY SocialAssumption
<1>3. Effective(p, r) = 0 \div HysteresisK
  BY <1>2 DEF Effective
<1>4. 0 \div HysteresisK = 0
  BY <1>2
<1>5. QED
  BY <1>1, <1>3, <1>4

(* Those whom an NPC meets are subjects. *)
LEMMA MetAreSubjects ==
  ASSUME NEW now \in Scenes
  PROVE  now \subseteq People /\ Met(now) \subseteq Subjects
BY SocialAssumption DEF Met, People

(* A stranger is a blank slate: as long as no read of the recognition has  *)
(* failed, the ledger of strangers holds nobody toward whom the NPC has    *)
(* felt anything (_fire_recognition_retrieval, blend_valence).             *)
THEOREM StrangersStayBlank == Spec => []StrangersAreBlank
<1>1. Init => BlankInv
  BY DEF Init, BlankInv, Typed, NoFeelingWithoutMemory, StrangersAreBlank, People
<1>2. BlankInv /\ [Next]_socialVars => BlankInv'
  <2> SUFFICES ASSUME BlankInv, [Next]_socialVars
               PROVE  BlankInv'
    OBVIOUS
  <2> USE DEF BlankInv
  <2>1. ASSUME NEW now \in Scenes, BeginTurn(now)
        PROVE  BlankInv'
    <3> DEFINE M == Met(now)
    <3>1. PICK found \in SUBSET M :
            /\ memories = {} => found = {}
            /\ strangers' = AfterRecognition(M, found)
            /\ missed' = (missed \/ (memories # {} /\ found # M))
      BY <2>1 DEF BeginTurn
    <3> DEFINE Reads(raised, r) ==
                 /\ \A s \in M \ raised : r[s] \in Readings(s)
                 /\ prior' = [s \in Subjects |->
                                IF s \in M \ raised THEN Consolidated(prior[s], r[s])
                                                    ELSE prior[s]]
                 /\ snapshot' = [s \in (M \ raised) \union DOMAIN snapshot |->
                                   IF s \in M \ raised THEN Effective(prior'[s], r[s])
                                                       ELSE snapshot[s]]
    <3>0. PICK raised \in SUBSET (M \intersect Unreadable) : \E r : Reads(raised, r)
      BY <2>1 DEF BeginTurn
    <3>2. PICK r : Reads(raised, r)
      BY <3>0
    <3>3. /\ scene' = now
          /\ memories' \subseteq Memory /\ (memories # {} => memories' # {})
      BY <2>1, WritesKeep DEF BeginTurn
    <3>4. now \subseteq People /\ M \subseteq Subjects
      BY MetAreSubjects
    <3>5. /\ DOMAIN snapshot' = (M \ raised) \union DOMAIN snapshot
          /\ \A s \in M \ raised : snapshot'[s] = Effective(prior'[s], r[s])
          /\ \A s \in DOMAIN snapshot \ (M \ raised) : snapshot'[s] = snapshot[s]
      BY <3>2
    <3> HIDE DEF M
    <3>6. Typed'
      <4>1. strangers' \subseteq Subjects
        BY <3>1, <3>4 DEF AfterRecognition, Typed
      <4>2. ASSUME NEW s \in Subjects PROVE prior'[s].estimate \in Int
        <5>1. CASE s \in M \ raised
          BY <5>1, <3>2, ReadingTypes DEF Typed
        <5>2. CASE s \notin M \ raised
          BY <5>2, <3>2 DEF Typed
        <5>3. QED
          BY <5>1, <5>2
      <4>3. QED
        BY <3>2, <3>3, <3>4, <4>1, <4>2 DEF Typed
    <3>7. CASE memories = {}
      <4>1. ASSUME NEW s \in Subjects
            PROVE  prior'[s] = prior[s] /\ (s \in M \ raised => Effective(prior'[s], r[s]) = 0)
        <5>1. prior[s].encounters = 0 /\ prior[s].estimate \in Int
          BY <3>7 DEF NoFeelingWithoutMemory, Typed
        <5>2. CASE s \in M \ raised
          <6>1. r[s] \in Readings(s)
            BY <5>2, <3>2
          <6>2. r[s].some = FALSE /\ r[s].general = 0
            BY <6>1, <3>7, NothingToRead
          <6>3. Consolidated(prior[s], r[s]) = prior[s] /\ Effective(prior[s], r[s]) = 0
            BY <5>1, <6>2, BlankBlend
          <6>4. QED
            BY <5>2, <6>3, <3>2
        <5>3. CASE s \notin M \ raised
          BY <5>3, <3>2
        <5>4. QED
          BY <5>2, <5>3
      <4>2. \A s \in Subjects :
              prior'[s].encounters = 0 /\ (s \in DOMAIN snapshot' => snapshot'[s] = 0)
        BY <3>5, <3>7, <4>1 DEF NoFeelingWithoutMemory
      <4>3. QED
        BY <3>6, <4>2 DEF NoFeelingWithoutMemory, StrangersAreBlank, Typed
    <3>8. CASE memories # {}
      <4>1. memories' # {}
        BY <3>3, <3>8
      <4>2. ASSUME ~missed', NEW s \in strangers'
            PROVE  prior'[s].encounters = 0 /\ (s \in DOMAIN snapshot' => snapshot'[s] = 0)
        <5>1. ~missed /\ found = M
          BY <3>1, <3>8, <4>2
        <5>2. s \in strangers /\ s \notin M
          BY <3>1, <4>2, <5>1 DEF AfterRecognition, IsStranger
        <5>3. s \in Subjects
          BY <5>2 DEF Typed
        <5>4. prior'[s] = prior[s]
          BY <3>2, <5>2, <5>3
        <5>5. s \in DOMAIN snapshot' => s \in DOMAIN snapshot /\ snapshot'[s] = snapshot[s]
          BY <3>5, <5>2
        <5>6. QED
          BY <5>1, <5>2, <5>4, <5>5 DEF StrangersAreBlank
      <4>3. QED
        BY <3>6, <4>1, <4>2 DEF NoFeelingWithoutMemory, StrangersAreBlank
    <3>9. QED
      BY <3>7, <3>8
  <2>2. ASSUME NEW heard, NEW told, EndTurn(heard, told)
        PROVE  BlankInv'
    <3>1. memories' \subseteq Memory /\ (memories # {} => memories' # {})
      BY <2>2, WritesKeep DEF EndTurn
    <3>2. /\ strangers' \subseteq strangers
          /\ UNCHANGED <<scene, prior, snapshot, missed>>
      BY <2>2 DEF EndTurn
    <3>3. QED
      BY <3>1, <3>2 DEF Typed, NoFeelingWithoutMemory, StrangersAreBlank
  <2>3. ASSUME NEW now \in Scenes, NEW learned, Ingest(now, learned)
        PROVE  BlankInv'
    <3>1. memories' \subseteq Memory /\ (memories # {} => memories' # {})
      BY <2>3, WritesKeep DEF Ingest
    <3>2. scene' \subseteq People /\ UNCHANGED <<strangers, prior, snapshot, missed>>
      BY <2>3, MetAreSubjects DEF Ingest
    <3>3. QED
      BY <3>1, <3>2 DEF Typed, NoFeelingWithoutMemory, StrangersAreBlank
  <2>4. CASE Reset
    BY <2>4 DEF Reset, Typed, NoFeelingWithoutMemory, StrangersAreBlank
  <2>5. CASE UNCHANGED socialVars
    BY <2>5 DEF socialVars, Typed, NoFeelingWithoutMemory, StrangersAreBlank
  <2>6. QED
    BY <2>1, <2>2, <2>3, <2>4, <2>5 DEF Next
<1>3. BlankInv => StrangersAreBlank
  BY DEF BlankInv
<1>4. QED
  BY <1>1, <1>2, <1>3, PTL DEF Spec

-----------------------------------------------------------------------------
(* One value lies between two of the warmths in W. *)
Between(e, W) == (\E w \in W : w <= e) /\ (\E w \in W : w >= e)

FeltInv ==
  /\ memories \subseteq Memory
  /\ prior \in [Subjects -> [estimate : Int, encounters : Nat]]
  /\ felt \in [Subjects -> SUBSET Int]
  /\ \A s \in Subjects : WarmthsOf(About(s)) \subseteq felt[s]
  /\ \A s \in Subjects : prior[s].encounters > 0 => Between(prior[s].estimate, felt[s])

(* Half way from what was felt to what is read is between the two. *)
LEMMA HalfWayBetween ==
  ASSUME NEW W \in SUBSET Int, NEW d \in Int, NEW e \in Int, Between(d, W), Between(e, W)
  PROVE  (d + e) \div 2 \in Int /\ Between((d + e) \div 2, W)
<1>1. PICK lo \in W, hi \in W : lo <= d /\ hi >= d
  BY DEF Between
<1>2. PICK low \in W, high \in W : low <= e /\ high >= e
  BY DEF Between
<1>3. lo <= (d + e) \div 2 \/ low <= (d + e) \div 2
  BY <1>1, <1>2
<1>4. hi >= (d + e) \div 2 \/ high >= (d + e) \div 2
  BY <1>1, <1>2
<1>5. QED
  BY <1>3, <1>4 DEF Between

(* A reading of some memories lies between their warmths. *)
LEMMA ReadingBetween ==
  ASSUME memories \subseteq Memory,
         NEW s, NEW r \in Readings(s), r.some
  PROVE  r.individual \in Int /\ Between(r.individual, WarmthsOf(About(s)))
<1>1. PICK S \in SUBSET memories : r \in Reading(s, S)
  BY SurfacedAreMemories
<1> DEFINE mine == S \intersect About(s)
<1>2. mine # {} /\ r.individual \in Means(WarmthsOf(mine))
  BY <1>1 DEF Reading
<1>3. mine \subseteq About(s) /\ mine \subseteq Memory
  BY DEF About, AboutIn
<1> HIDE DEF mine
<1>4. WarmthsOf(mine) # {} /\ WarmthsOf(mine) \subseteq WarmthsOf(About(s))
  BY <1>2, <1>3 DEF WarmthsOf
<1>5. r.individual \in Int /\ Between(r.individual, WarmthsOf(mine))
  BY <1>2, <1>4, SocialAssumption DEF Means, Between
<1>6. QED
  BY <1>4, <1>5 DEF Between

(* What is felt is felt in numbers. *)
LEMMA FeltTypes ==
  ASSUME NEW about, Writes(about), felt \in [Subjects -> SUBSET Int]
  PROVE  felt' \in [Subjects -> SUBSET Int]
<1>1. memories' \subseteq Memory
  BY WritesKeep
<1>2. \A s : WarmthsOf(AboutIn(memories', s)) \subseteq Int
  BY <1>1, SocialAssumption DEF WarmthsOf, AboutIn, Memory
<1>3. felt' = [s \in Subjects |-> felt[s] \union WarmthsOf(AboutIn(memories', s))]
  BY DEF Writes
<1>4. QED
  BY <1>2, <1>3

(* The steps that read nothing keep what is felt. *)
LEMMA FeltByWriting ==
  ASSUME FeltInv, NEW about, Writes(about), prior' = prior
  PROVE  FeltInv'
<1>1. /\ memories' \subseteq Memory
      /\ \A s \in Subjects : /\ felt[s] \subseteq felt'[s]
                            /\ WarmthsOf(AboutIn(memories', s)) \subseteq felt'[s]
  BY WritesKeep
<1>2. felt' \in [Subjects -> SUBSET Int]
  BY FeltTypes DEF FeltInv
<1>3. \A s \in Subjects : WarmthsOf(About(s)') \subseteq felt'[s]
  BY <1>1 DEF About
<1>4. \A s \in Subjects : prior'[s].encounters > 0 => Between(prior'[s].estimate, felt'[s])
  BY <1>1 DEF FeltInv, Between
<1>5. QED
  BY <1>1, <1>2, <1>3, <1>4 DEF FeltInv

(* What an NPC makes of a subject lies between the warmths of the memories *)
(* it ever had of it, however often each of them was read and whichever    *)
(* were replaced (blend_valence, propagate_introduction).                  *)
THEOREM EstimatesAreFelt == Spec => []EstimateIsFelt
<1>1. Init => FeltInv
  BY DEF Init, FeltInv, WarmthsOf, About, AboutIn
<1>2. FeltInv /\ [Next]_socialVars => FeltInv'
  <2> SUFFICES ASSUME FeltInv, [Next]_socialVars
               PROVE  FeltInv'
    OBVIOUS
  <2>1. ASSUME NEW now \in Scenes, BeginTurn(now)
        PROVE  FeltInv'
    <3> DEFINE M == Met(now)
    <3> DEFINE Reads(raised, r) ==
                 /\ \A s \in M \ raised : r[s] \in Readings(s)
                 /\ prior' = [s \in Subjects |->
                                IF s \in M \ raised THEN Consolidated(prior[s], r[s])
                                                    ELSE prior[s]]
    <3>0. PICK raised \in SUBSET (M \intersect Unreadable) : \E r : Reads(raised, r)
      BY <2>1 DEF BeginTurn
    <3>1. PICK r : Reads(raised, r)
      BY <3>0
    <3>2. /\ memories' \subseteq Memory
          /\ \A s \in Subjects : /\ felt[s] \subseteq felt'[s]
                                /\ WarmthsOf(AboutIn(memories', s)) \subseteq felt'[s]
          /\ felt' \in [Subjects -> SUBSET Int]
      BY <2>1, WritesKeep, FeltTypes DEF BeginTurn, FeltInv
    <3>3. memories \subseteq Memory
      BY DEF FeltInv
    <3> HIDE DEF M
    <3>4. ASSUME NEW s \in Subjects
          PROVE  /\ prior'[s] \in [estimate : Int, encounters : Nat]
                 /\ prior'[s].encounters > 0 => Between(prior'[s].estimate, felt'[s])
      <4>1. /\ prior[s] \in [estimate : Int, encounters : Nat]
            /\ prior[s].encounters > 0 => Between(prior[s].estimate, felt[s])
            /\ WarmthsOf(About(s)) \subseteq felt[s] /\ felt[s] \subseteq Int
        BY DEF FeltInv
      <4>2. \A e : Between(e, felt[s]) => Between(e, felt'[s])
        BY <3>2 DEF Between
      <4>3. CASE prior'[s] = prior[s]
        BY <4>1, <4>2, <4>3
      <4>4. CASE s \in M \ raised /\ r[s].some
        <5>1. r[s].individual \in Int /\ Between(r[s].individual, felt[s])
          BY <3>1, <3>3, <4>1, <4>4, ReadingBetween DEF Between
        <5>2. prior'[s] = [estimate |-> IF prior[s].encounters = 0 THEN r[s].individual
                                        ELSE (prior[s].estimate + r[s].individual) \div 2,
                           encounters |-> prior[s].encounters + 1]
          BY <3>1, <4>4 DEF Consolidated
        <5>3. CASE prior[s].encounters = 0
          <6>1. prior'[s].estimate = r[s].individual /\ prior'[s].encounters \in Nat
            BY <5>2, <5>3
          <6>2. QED
            BY <4>2, <5>1, <5>2, <5>3, <6>1
        <5>4. CASE prior[s].encounters # 0
          <6> DEFINE mean == (prior[s].estimate + r[s].individual) \div 2
          <6>1. Between(prior[s].estimate, felt[s]) /\ prior[s].estimate \in Int
            BY <4>1, <5>4
          <6>2. mean \in Int /\ Between(mean, felt[s])
            BY <4>1, <5>1, <6>1, HalfWayBetween
          <6>3. prior'[s] = [estimate |-> mean, encounters |-> prior[s].encounters + 1]
            BY <5>2, <5>4
          <6> HIDE DEF mean
          <6>4. QED
            BY <4>1, <4>2, <6>2, <6>3
        <5>5. QED
          BY <5>3, <5>4
      <4>5. CASE ~(s \in M \ raised /\ r[s].some)
        BY <3>1, <4>3, <4>5 DEF Consolidated
      <4>6. QED
        BY <4>4, <4>5
    <3>5. \A s \in Subjects : WarmthsOf(About(s)') \subseteq felt'[s]
      BY <3>2 DEF About
    <3>6. prior' \in [Subjects -> [estimate : Int, encounters : Nat]]
      BY <3>1, <3>4
    <3>7. QED
      BY <3>2, <3>4, <3>5, <3>6 DEF FeltInv
  <2>2. ASSUME NEW heard, NEW told, EndTurn(heard, told)
        PROVE  FeltInv'
    BY <2>2, FeltByWriting DEF EndTurn
  <2>3. ASSUME NEW now, NEW learned, Ingest(now, learned)
        PROVE  FeltInv'
    BY <2>3, FeltByWriting DEF Ingest
  <2>4. CASE Reset
    BY <2>4 DEF Reset, FeltInv, About
  <2>5. CASE UNCHANGED socialVars
    BY <2>5 DEF socialVars, FeltInv, About
  <2>6. QED
    BY <2>1, <2>2, <2>3, <2>4, <2>5 DEF Next
<1>3. FeltInv => EstimateIsFelt
  BY DEF FeltInv, EstimateIsFelt, Between
<1>4. QED
  BY <1>1, <1>2, <1>3, PTL DEF Spec
=============================================================================
