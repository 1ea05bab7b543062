-------------------------- MODULE Reconsolidation --------------------------
(***************************************************************************)
(* The goodnight pass over one agent's memories                            *)
(* (progeny/src/memory_reconsolidation.py, with write_reconsolidated_summary *)
(* of memory_writer.py and scroll_filtered of qdrant_client.py).           *)
(*                                                                         *)
(* A night scans the RAW memories and the RECON points made so far, selects *)
(* the few memories whose key is most dissonant with the present mind, and *)
(* for each writes a new version of its RECON point.  A step is the work   *)
(* on one memory: the pass awaits the LLM in each, and Progeny may die in  *)
(* any.                                                                    *)
(*                                                                         *)
(* The memories here are points that are written once, of events and       *)
(* answers, so their keys never change.  The two points of an introduction *)
(* are not among them: it can be told again, under the same ids and with   *)
(* another key (module SocialApproach has their upserts).                  *)
(*                                                                         *)
(* Keys are positions on a line and dissonance is their distance; a point  *)
(* id is <<source, version>> (reconsolidated_point_id hashes the two).     *)
(***************************************************************************)
EXTENDS Integers, Sequences, FiniteSets

CONSTANTS
  Sources,         \* RAW memories of the agent
  RawKey,          \* the key of each
  MaxKey,          \* positions are 0..MaxKey
  TopK,            \* DEFAULT_TOP_K
  ScanLimit,       \* DEFAULT_SCAN_LIMIT
  Threshold,       \* DEFAULT_DISSONANCE_THRESHOLD
  Hysteresis,      \* DEFAULT_HYSTERESIS
  MaxDrift,        \* DEFAULT_MAX_DRIFT; DEFAULT_BLEND is one half
  MaxNights,       \* bound: goodnight passes
  ScansFail,       \* may a scan for RECON points fail?
  WritesFail,      \* may a write fail?
  Crashes          \* may a pass be cut short?

Keys == 0..MaxKey

ReconAssumption ==
  /\ IsFiniteSet(Sources) /\ RawKey \in [Sources -> Keys]
  /\ MaxKey \in Nat /\ TopK \in Nat \ {0} /\ ScanLimit \in Nat
  /\ Threshold \in Nat \ {0} /\ Hysteresis \in Nat /\ MaxDrift \in Nat \ {0}
  /\ MaxNights \in Nat
  /\ ScansFail \in BOOLEAN /\ WritesFail \in BOOLEAN /\ Crashes \in BOOLEAN

Versions == 1..MaxNights
Nobody == 0                                  \* supersedes is None

VARIABLES
  recon,           \* the RECON points, by id: a partial function
  nights,          \* passes begun
  mind,            \* this night: the predicted reaction to each memory
  prior,           \* prior_by_source: the version found for each, or 0
  todo             \* the selected memories not yet worked on

reconVars == <<recon, nights, mind, prior, todo>>

Point == [key : Keys, supersedes : Versions \union {Nobody}, attempts : Versions,
          stalled : BOOLEAN, night : Versions]

Init ==
  /\ recon = [p \in {} |-> Nobody]
  /\ nights = 0
  /\ mind = RawKey
  /\ prior = [s \in Sources |-> 0]
  /\ todo = <<>>

-----------------------------------------------------------------------------
Dissonance(k, p) == IF k < p THEN p - k ELSE k - p

(* scroll_filtered, unordered before it is cut: up to ScanLimit points.     *)
Page(found, S) ==
  Cardinality(found) = IF Cardinality(S) < ScanLimit THEN Cardinality(S) ELSE ScanLimit

(* The scan of the RAW memories: the pass goes past the agent if it fails. *)
RawScans == {seen \in SUBSET Sources : Page(seen, Sources) \/ seen = {}}

(* select_dissonant: of those, by their RAW keys, whatever became of them  *)
(* since; at most TopK, most dissonant first, ties in any order (argsort). *)
Dissonant(seen, pred) == {s \in seen : Dissonance(RawKey[s], pred[s]) >= Threshold}
Count(seen, pred) == IF Cardinality(Dissonant(seen, pred)) < TopK
                       THEN Cardinality(Dissonant(seen, pred)) ELSE TopK
Selections(seen, pred) ==
  {q \in [1..Count(seen, pred) -> Dissonant(seen, pred)] :
     LET d(s) == Dissonance(RawKey[s], pred[s])
         chosen == {q[i] : i \in DOMAIN q} IN
     /\ Cardinality(chosen) = Count(seen, pred)
     /\ \A i, j \in DOMAIN q : i < j => d(q[i]) >= d(q[j])
     /\ \A s \in chosen, t \in Dissonant(seen, pred) \ chosen : d(s) >= d(t)}

(* _prior_recon_by_source: the greatest version among the points that the  *)
(* scan returned, none if it failed.                                       *)
LatestOf(s, found) ==
  IF \E p \in found : p[1] = s
    THEN (CHOOSE p \in found : p[1] = s /\ \A q \in found : q[1] = s => q[2] <= p[2])[2]
    ELSE 0
Scanned ==
  {found \in SUBSET DOMAIN recon :
     Page(found, DOMAIN recon) \/ (ScansFail /\ found = {})}

(* The pass begins: the slow buffer is what it is by now.                  *)
Goodnight(pred) ==
  /\ todo = <<>>
  /\ nights < MaxNights
  /\ nights' = nights + 1
  /\ mind' = pred
  /\ \E found \in Scanned : prior' = [s \in Sources |-> LatestOf(s, found)]
  /\ \E seen \in RawScans : todo' \in Selections(seen, pred)
  /\ UNCHANGED recon

(* The key a pass starts from: the latest reinterpretation it knows of. *)
BaseKey(s) == IF prior[s] = 0 THEN RawKey[s] ELSE recon[<<s, prior[s]>>].key
Trigger(s) == Dissonance(BaseKey(s), mind[s])

(* eligible_to_reconsolidate *)
Eligible(s) ==
  IF prior[s] = 0 THEN Trigger(s) >= Threshold
  ELSE /\ ~recon[<<s, prior[s]>>].stalled
       /\ Trigger(s) >= Threshold + Hysteresis

(* clamp_drift: half way, but no further than MaxDrift *)
Step(s) == IF Trigger(s) \div 2 < MaxDrift THEN Trigger(s) \div 2 ELSE MaxDrift
NewKey(s) == IF BaseKey(s) < mind[s] THEN BaseKey(s) + Step(s) ELSE BaseKey(s) - Step(s)

(* next_version, next_attempts *)
MutNextVersion(s) == nights        \* numbered by the night
NextVersion(s) == prior[s] + 1
Attempts(s) == IF prior[s] = 0 THEN 1 ELSE recon[<<s, prior[s]>>].attempts + 1

Reinterpreted(s) ==
  [key |-> NewKey(s), supersedes |-> prior[s], attempts |-> Attempts(s),
   stalled |-> Dissonance(NewKey(s), mind[s]) >= Threshold, night |-> nights]

(* upsert: a point whose id is there already is overwritten *)
Upsert(id, point) ==
  recon' = [p \in DOMAIN recon \union {id} |-> IF p = id THEN point ELSE recon[p]]

Skip ==
  /\ todo # <<>>
  /\ ~Eligible(Head(todo))
  /\ todo' = Tail(todo)
  /\ UNCHANGED <<recon, nights, mind, prior>>

(* The LLM's gist or the fallback, then the write, which may get lost.     *)
Reconsolidate ==
  /\ todo # <<>>
  /\ LET s == Head(todo) IN
       /\ Eligible(s)
       /\ \/ Upsert(<<s, NextVersion(s)>>, Reinterpreted(s))
          \/ WritesFail /\ UNCHANGED recon
  /\ todo' = Tail(todo)
  /\ UNCHANGED <<nights, mind, prior>>

(* The process ends with the pass half done; Qdrant keeps what it has.     *)
Crash ==
  /\ Crashes
  /\ todo # <<>>
  /\ todo' = <<>>
  /\ UNCHANGED <<recon, nights, mind, prior>>

Next ==
  \/ \E pred \in [Sources -> Keys] : Goodnight(pred)
  \/ Skip
  \/ Reconsolidate
  \/ Crash

Spec == Init /\ [][Next]_reconVars

-----------------------------------------------------------------------------
TypeOK ==
  /\ DOMAIN recon \subseteq Sources \X Versions
  /\ \A p \in DOMAIN recon : recon[p] \in Point
  /\ nights \in 0..MaxNights
  /\ mind \in [Sources -> Keys]
  /\ prior \in [Sources -> 0..MaxNights]
  /\ todo \in Seq(Sources)

(* The chain of a memory's reinterpretations is unbroken: each supersedes  *)
(* the version before it, which is there, was made on an earlier night and *)
(* was not stalled, also after lost writes and passes cut short.           *)
ChainUnbroken ==
  \A p \in DOMAIN recon :
    IF p[2] = 1 THEN recon[p].supersedes = Nobody
    ELSE LET q == <<p[1], p[2] - 1>> IN
         /\ recon[p].supersedes = q[2]
         /\ q \in DOMAIN recon
         /\ recon[q].night < recon[p].night
         /\ ~recon[q].stalled
         /\ recon[p].attempts = p[2]

(* One night moves what a memory feels like by MaxDrift at most, measured  *)
(* from the version it supersedes or from the RAW memory: nights cannot    *)
(* add up to a leap in one of them.                                        *)
DriftBounded ==
  \A p \in DOMAIN recon :
    LET before == IF p[2] = 1 THEN RawKey[p[1]] ELSE recon[<<p[1], p[2] - 1>>].key
    IN  Dissonance(recon[p].key, before) <= MaxDrift

-----------------------------------------------------------------------------
(* What the documentation says, and the code does not do.                  *)

Latest(s) == LatestOf(s, DOMAIN recon)

(* "a source whose latest RECON is recon_stalled is skipped" (docstring of *)
(* run_reconsolidation), when a scan can fail.  scroll_filtered answers an *)
(* error with an empty list, which reads as: no RECON yet.                 *)
StalledIsSkipped ==
  [][\A s \in Sources : (Latest(s) # 0 /\ recon[<<s, Latest(s)>>].stalled)
       => \A v \in Versions : <<s, v>> \in DOMAIN recon =>
            recon'[<<s, v>>] = recon[<<s, v>>]]_reconVars

(* exclude_ids: "point ids to skip (e.g. recurrence-blocked / stalled      *)
(* sources)" (docstring of select_dissonant): no memory that is blocked for *)
(* good takes the place of one that could be worked on.  The pass never    *)
(* passes exclude_ids.                                                     *)
BlockedDoNotCrowdOut ==
  [][nights' # nights =>
       \A i \in DOMAIN todo' : \A s \in Sources :
         (/\ prior'[todo'[i]] # 0 /\ recon[<<todo'[i], prior'[todo'[i]]>>].stalled
          /\ prior'[s] = 0 /\ s \in Dissonant(Sources, mind'))
           => \E j \in DOMAIN todo' : todo'[j] = s]_reconVars
=============================================================================
