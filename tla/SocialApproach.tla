--------------------------- MODULE SocialApproach ---------------------------
(***************************************************************************)
(* How one NPC, Me, comes to approach the people around it: the valence of *)
(* its memories toward a newcomer (progeny/src/valence.py), the ledger of  *)
(* strangers, the get-acquainted goal that both drive                      *)
(* (progeny/src/social_goals.py), and the turn of progeny/api/routes.py    *)
(* that runs through them in order.                                        *)
(*                                                                         *)
(* Warmth is counted in Units, divisions round down; the texts, the nudges *)
(* to Me's affect and the class-congruent recall are left out.  A mean of  *)
(* warmths, whatever the relevance that weighs it, is one of Warmths       *)
(* within their range.                                                     *)
(***************************************************************************)
EXTENDS Integers, FiniteSetsExt

CONSTANTS
  Me, Subjects,    \* the NPC, and the others it meets
  Scenes,          \* the sets of NPCs that can be active
  NoOne,           \* what a memory is about that names none of them
  Unit,            \* warmth 1.0
  Warmths,         \* warmths a memory can have
  Resonances,      \* activations of get_acquainted by resonance
  HysteresisK,     \* HYSTERESIS_K
  TopK,            \* memories that feed a reading
  CandidateAt, CommitAt, CommitTicks,   \* of the lifecycle
  Stores,          \* bound: what Me may remember, set by set
  MaxEncounters,   \* bound: readings of memories about one subject
  Unreadable       \* bound: the subjects about whom a query may fail, or the
                   \* embedding of a percept

People == Subjects \union {Me}

(* A memory and what its point id stands for: an event (or answer, or arc) *)
(* is a point of its own; what Me was told by a subject about itself, and  *)
(* that Me told it about Me, are one point each, whenever they are told;   *)
(* a reinterpretation is a point for its source and version.               *)
Memory == [about : Subjects \union {NoOne}, warmth : Warmths,
           kind : {"event", "hearsay", "telling", "recon"}]

ASSUME SocialAssumption ==
  /\ Me \notin Subjects /\ NoOne \notin Subjects
  /\ Scenes \subseteq SUBSET (Subjects \union {Me})
  /\ Unit \in Nat \ {0} /\ {HysteresisK, TopK} \subseteq Nat \ {0}
  /\ Warmths \subseteq Int
  /\ {CandidateAt, CommitAt} \subseteq Nat /\ 0 < CandidateAt /\ CandidateAt < CommitAt
  /\ CommitTicks \in Nat \ {0} /\ Resonances \subseteq {0, CandidateAt, CommitAt}
  /\ MaxEncounters \in Nat /\ Stores \subseteq SUBSET Memory
  /\ Unreadable \subseteq Subjects

VARIABLES
  scene,           \* _prev_active_npc_ids, the active NPCs of a turn
  memories,        \* skyrim_npc_memories of Me
  known,           \* fact pool: subjects that Me believes something of
  strangers,       \* _strangers of Me
  prior,           \* _ledger: what Me has read about each subject
  snapshot,        \* _snapshots: effective valence toward the subjects read
  goal,            \* Me's runtime of get_acquainted
  stage,           \* "idle", or "prompt" while the LLM is asked
  recalled,        \* the goal's statement is recalled into Me's prompt
  missed,          \* history: a read of the recognition failed
  felt             \* history: the warmths of all memories there were of each

socialVars == <<scene, memories, known, strangers, prior, snapshot, goal,
                stage, recalled, missed, felt>>

(* get_acquainted is one goal of the lifecycle, and no one's sibling. *)
Lifecycle == INSTANCE GoalLifecycle WITH
  NumGoals <- 1, Parent <- <<NoOne>>, NoParent <- NoOne, Margin <- 1,
  Levels <- {0, CandidateAt, CommitAt}, rt <- <<goal>>, holds <- {}, streak <- <<0>>

Init ==
  /\ scene = {} /\ memories = {} /\ known = {} /\ strangers = {}
  /\ prior = [s \in Subjects |-> [estimate |-> 0, encounters |-> 0]]
  /\ snapshot = <<>>
  /\ goal = Lifecycle!Created
  /\ stage = "idle" /\ recalled = FALSE /\ missed = FALSE
  /\ felt = [s \in Subjects |-> {}]

-----------------------------------------------------------------------------
WarmthsOf(S) == {m.warmth : m \in S}
AboutIn(S, s) == {m \in S : m.about = s}
About(s) == AboutIn(memories, s)

(* Two writes that may be one point: the second replaces the first.        *)
SamePoint(m, x) == m.kind # "event" /\ m.kind = x.kind /\ m.about = x.about
OnePointEach(S) ==
  \A m, x \in S : SamePoint(m, x) /\ m.kind \in {"hearsay", "telling"} => m = x

(* Upserts of memories, of each kind about some of those in about[kind]: a *)
(* write that fails is logged and forgotten (write_raw_event,              *)
(* write_reconsolidated_summary).                                          *)
NoWrites == [event |-> {}, hearsay |-> {}, telling |-> {}, recon |-> {}]
Written(kinds) == {m \in memories' \ memories : m.kind \in kinds}
OneReaction(S) == \A m, x \in S : m.warmth = x.warmth
Writes(about) ==
  /\ memories' \in Stores
  /\ \A m \in memories' \ memories : m.about \in about[m.kind]
  /\ \A x \in memories \ memories' : \E m \in memories' \ memories : SamePoint(m, x)
  /\ OnePointEach(memories')
  /\ felt' = [s \in Subjects |-> felt[s] \union WarmthsOf(AboutIn(memories', s))]

(* Events, and what Me says, can be about anybody. *)
Told(now) == IF Me \in now THEN Subjects \union {NoOne} ELSE {}

-----------------------------------------------------------------------------
(* Recognition: any memory that is found counts, a failed search finds     *)
(* none (_fire_recognition_retrieval, is_stranger, record_stranger,        *)
(* clear_stranger).                                                        *)
IsStranger(s, found) == ~found /\ s \notin known

MutAfterRecognition(met, found) == strangers \union {s \in met : IsStranger(s, s \in found)}

AfterRecognition(met, found) ==
  (strangers \ met) \union {s \in met : IsStranger(s, s \in found)}

(* Valence: what a mean of the warmths in W can be, 0 of none. *)
Means(W) == IF W = {} THEN {0}
            ELSE {w \in Warmths : (\E v \in W : v <= w) /\ (\E v \in W : w <= v)}

(* percept_cued_valence: the memories that surface are the TopK first of    *)
(* some ranking, or whatever a read that fails leaves of them.             *)
Lower(a, b) == IF a <= b THEN a ELSE b
Surfaced(s) ==
  IF s \in Unreadable THEN SUBSET memories
  ELSE {S \in SUBSET memories :
          Cardinality(S) = Lower(TopK, Cardinality(memories))}

MutReading(s, S) ==                      \* the others colour the individual
  [some : {S \intersect About(s) # {}}, individual : Means(WarmthsOf(S)),
   general : Means(WarmthsOf(S \ About(s)))]

(* extract_valence: what surfaced about s, and the rest *)
Reading(s, S) ==
  [some : {S \intersect About(s) # {}},
   individual : Means(WarmthsOf(S \intersect About(s))),
   general : Means(WarmthsOf(S \ About(s)))]

Readings(s) == UNION {Reading(s, S) : S \in Surfaced(s)}

(* blend_valence: the estimate moves half way to what is read, and weighs  *)
(* n / (n + HysteresisK) after n encounters.                               *)
Consolidated(p, r) ==
  IF ~r.some THEN p
  ELSE [estimate |-> IF p.encounters = 0 THEN r.individual
                     ELSE (p.estimate + r.individual) \div 2,
        encounters |-> p.encounters + 1]

Effective(p, r) ==
  (p.encounters * p.estimate + HysteresisK * r.general) \div (p.encounters + HysteresisK)

-----------------------------------------------------------------------------
PresentStrangers == strangers' \intersect scene'

(* social_activation: 0.30 times a gate of 1 and the mean of the snapshots *)
(* there are, from 0 to 1.5; as the last threshold that it reaches, 0.20   *)
(* and 0.35.                                                               *)
SocialActivation ==
  LET read == PresentStrangers \intersect DOMAIN snapshot'
      n == Cardinality(read)
      total == MapThenSumSet(LAMBDA s : snapshot'[s], read)            \* n times the mean
  IN  IF PresentStrangers = {} THEN 0
      ELSE IF 6 * total >= n * Unit /\ n > 0 THEN CommitAt
      ELSE IF 3 * total >= -n * Unit THEN CandidateAt
      ELSE 0

Higher(a, b) == IF a >= b THEN a ELSE b

MutPrimes(resonance) ==            \* the recall looks before the update
  LET activation == Higher(resonance, SocialActivation)
  IN  /\ goal' = Lifecycle!Transition(goal, activation, PresentStrangers = {})
      /\ recalled' = (goal.state \in Lifecycle!Leading)

(* The iteration of _prime_goals_for_turn for Me: the goal's activation is *)
(* the higher of its resonance and the social one; acquainted() holds with *)
(* no stranger around; the statement is recalled while the goal leads.     *)
Primes(resonance) ==
  LET activation == Higher(resonance, SocialActivation)
  IN  /\ goal' = Lifecycle!Transition(goal, activation, PresentStrangers = {})
      /\ recalled' = (goal'.state \in Lifecycle!Leading)

(* prime_goals raised, or Me is not there: its iteration is left out. *)
PrimesNothing == goal' = goal /\ recalled' = FALSE

(* Me, who was there before and still is, has to place those who enter. *)
Met(now) == IF Me \in scene \intersect now THEN now \ scene ELSE {}

(* _ingest_inner up to the dispatch: the package's facts, recognition and  *)
(* valence of the newcomers (whose reads may find nothing; where valence   *)
(* raises it changes nothing), the turn's RAW writes, which share one      *)
(* reaction of Me, the priming.                                            *)
BeginTurn(now) ==
  /\ stage = "idle"
  /\ stage' = "prompt"
  /\ scene' = now
  /\ Writes([NoWrites EXCEPT !.event = Told(now)])
  /\ OneReaction(Written({"event"}))
  /\ \E found \in SUBSET Met(now) :
       /\ memories = {} => found = {}
       /\ memories # {} => Met(now) \ Unreadable \subseteq found
       /\ strangers' = AfterRecognition(Met(now), found)
       /\ missed' = (missed \/ (memories # {} /\ found # Met(now)))
  /\ \E raised \in SUBSET (Met(now) \intersect Unreadable) :
     LET read == Met(now) \ raised
         readings == [s \in read |-> Readings(s)]
     IN
     \E r \in [read -> UNION {readings[s] : s \in read}] :
       /\ \A s \in read : r[s] \in readings[s]
       /\ prior' = [s \in Subjects |-> IF s \in read THEN Consolidated(prior[s], r[s])
                                                    ELSE prior[s]]
       /\ \A s \in Subjects : prior'[s].encounters <= MaxEncounters
       /\ snapshot' = [s \in read \union DOMAIN snapshot |->
                         IF s \in read THEN Effective(prior'[s], r[s]) ELSE snapshot[s]]
  /\ \/ Me \in now /\ \E resonance \in Resonances : Primes(resonance)
     \/ PrimesNothing
  /\ UNCHANGED known

(* The rest of the turn: what Me says is written, and who speaks is        *)
(* introduced to those who hold it or whom it holds as a stranger (the     *)
(* others' ledgers are not here, so to any), once for each two, whichever  *)
(* spoke first.  The listener believes something then; both remember it,   *)
(* if the writes succeed, and are strangers no more (_propagate_disclosures, *)
(* propagate_introduction).                                                *)
EndTurn(heard, told) ==
  /\ stage = "prompt"
  /\ stage' = "idle" /\ recalled' = FALSE
  /\ heard \intersect told = {}
  /\ heard \union told # {} => Me \in scene
  /\ Writes([NoWrites EXCEPT !.event = Told(scene), !.hearsay = heard, !.telling = told])
  /\ OneReaction(Written({"hearsay", "telling"}))
  /\ known' = known \union heard
  /\ strangers' = strangers \ (heard \union told)
  /\ UNCHANGED <<scene, prior, snapshot, goal, missed>>

(* A package without a turn: whoever enters with it is seen by no turn.  It *)
(* may bring a fact about a subject.  With a goodnight in it, Me may write *)
(* reinterpretations of what it remembers.                                 *)
Ingest(now, learned) ==
  /\ stage = "idle"
  /\ scene' = now
  /\ known' = known \union learned
  /\ Writes([NoWrites EXCEPT
               !.recon = {m.about : m \in {x \in memories : x.kind # "recon"}}])
  /\ UNCHANGED <<strangers, prior, snapshot, goal, stage, recalled, missed>>

(* init or wipe: the fact pool is kept; the ledgers of strangers and of    *)
(* valence have clear() and reset(), but nothing calls them.               *)
Reset ==
  /\ stage = "idle"
  /\ scene' = {}
  /\ UNCHANGED <<memories, known, strangers, prior, snapshot, goal, stage, recalled,
                 missed, felt>>

UpToOne(S) == {{}} \union {{s} : s \in S}

Next ==
  \/ \E now \in Scenes :
       BeginTurn(now) \/ \E learned \in UpToOne(Subjects) : Ingest(now, learned)
  \/ \E heard, told \in SUBSET (scene \ {Me}) : EndTurn(heard, told)
  \/ Reset

Spec == Init /\ [][Next]_socialVars

-----------------------------------------------------------------------------
TypeOK ==
  /\ scene \subseteq People /\ memories \subseteq Memory
  /\ known \subseteq Subjects /\ strangers \subseteq Subjects
  /\ prior \in [Subjects -> [estimate : Int, encounters : 0..MaxEncounters]]
  /\ DOMAIN snapshot \subseteq Subjects /\ \A s \in DOMAIN snapshot : snapshot[s] \in Int
  /\ goal \in Lifecycle!Runtime
  /\ stage \in {"idle", "prompt"} /\ {recalled, missed} \subseteq BOOLEAN
  /\ felt \in [Subjects -> SUBSET Warmths]

(* A stranger is a blank slate: as long as no read of the recognition has  *)
(* failed, the ledger of strangers holds nobody toward whom Me has felt    *)
(* anything, so that the valence gate of social_activation neither opens   *)
(* nor closes (any memory of Me recognises everyone; a memory is kept;     *)
(* every newcomer's entry is written anew, and its snapshot with it).      *)
StrangersAreBlank ==
  ~missed => \A s \in strangers :
               prior[s].encounters = 0 /\ (s \in DOMAIN snapshot => snapshot[s] = 0)

(* The statement about somebody unknown is recalled into the prompt by the *)
(* lifecycle only in a turn that has a stranger around Me, whatever state  *)
(* the goal was left in by turns that failed to prime it, or had been in   *)
(* when the stranger left or was introduced (_prime_goals_for_turn).       *)
RecalledForSomeone ==
  recalled => Me \in scene /\ strangers \intersect scene # {}

(* What Me makes of a subject lies between the warmths of the memories     *)
(* that it ever had of it, however often each was read: nothing that it    *)
(* felt about others gets in.  Not between those of the memories it still  *)
(* has: an introduction that is told again takes the place of the first,   *)
(* as the same point, and with it goes what the estimate was read from     *)
(* (blend_valence, extract_valence, hearsay_id, telling_id).               *)
EstimateIsFelt ==
  \A s \in Subjects : prior[s].encounters > 0 =>
    /\ \E w \in felt[s] : w <= prior[s].estimate
    /\ \E w \in felt[s] : w >= prior[s].estimate

-----------------------------------------------------------------------------
(* What the documentation says, and the code does not do.                  *)

(* valence.py line 267, "one kind encounter does not erase a wary prior;   *)
(* as individual memories accumulate the person emerges": an estimate      *)
(* weighs half or more only from as many memories as HysteresisK.          *)
EvidenceRamps ==
  \A s \in Subjects : prior[s].encounters >= HysteresisK
                        => Cardinality(About(s)) >= HysteresisK

(* social_goals.py line 13, "warmth promotes the approach, wariness        *)
(* suppresses it": a wary stranger is not approached.                      *)
WarinessSuppresses ==
  recalled => \E s \in strangers \intersect scene :
                s \notin DOMAIN snapshot \/ 3 * snapshot[s] >= -Unit

(* acquaintance.py, "no personal memory recalled AND no FactPool belief":  *)
(* who entered the last turn, of whom Me remembers and believes nothing,   *)
(* is its stranger.                                                        *)
UnknownIsStranger ==
  [][stage' = "prompt" /\ stage = "idle" => \A s \in Met(scene') :
       About(s) = {} /\ s \notin known => s \in strangers']_socialVars
=============================================================================
