---------------------------- MODULE MemoryRecall ----------------------------
(***************************************************************************)
(* One agent's memories in Qdrant and their recall: the RAW points that    *)
(* progeny/api/routes.py writes of events and utterances, the arc          *)
(* summaries of progeny/src/compression.py, the versions of sleep-time     *)
(* reinterpretations (module Reconsolidation has how they come about), and *)
(* the bundle that progeny/src/memory_retrieval.py makes of the anchors a  *)
(* query ranks first.                                                      *)
(*                                                                         *)
(* Vectors, scores and texts are left out: a query may rank the points in  *)
(* any order.  MAX essences are left out too, nothing writes one.          *)
(***************************************************************************)
EXTENDS Integers, FiniteSets, Sequences, SequencesExt

CONSTANTS
  MaxRaw,          \* bound: RAW points
  MaxArcs,         \* bound: arc summaries
  MaxVersions,     \* bound: reinterpretations of one RAW point
  ScrollLimit,     \* RAW points an arc summary takes at most
  FinalLimit,      \* anchors
  Fails            \* may a Qdrant call fail?

RecallAssumption ==
  /\ {MaxRaw, MaxArcs, MaxVersions} \subseteq Nat
  /\ {ScrollLimit, FinalLimit} \subseteq Nat \ {0}
  /\ Fails \in BOOLEAN

VARIABLES
  raw,             \* RAW points in the order written: "event" or "utterance"
  arcs,            \* MOD points: the RAW points each summarises
  versions,        \* RECON points: how many versions of each RAW point
  anchors,         \* the last retrieval's anchors, best first
  bundle           \* its MemoryBundle

storeVars == <<raw, arcs, versions>>
recallVars == <<storeVars, anchors, bundle>>

RawIds == 1..Len(raw)
Raw(i) == [tier |-> "RAW", of |-> i, version |-> 0]
Mod(k) == [tier |-> "MOD", of |-> k, version |-> 0]
Recon(i, v) == [tier |-> "RECON", of |-> i, version |-> v]

Points == {Raw(i) : i \in RawIds} \union {Mod(k) : k \in DOMAIN arcs}
            \union {Recon(i, v) : i \in RawIds, v \in 1..MaxVersions}
Stored == {p \in Points : p.tier = "RECON" => p.version <= versions[p.of]}

EmptyBundle == [recent |-> <<>>, summaries |-> <<>>, refs |-> <<>>]

Init ==
  /\ raw = <<>> /\ arcs = <<>> /\ versions = <<>>
  /\ anchors = <<>> /\ bundle = EmptyBundle

-----------------------------------------------------------------------------
(* The game_ts a point carries: the game's clock for an event, the wall's  *)
(* for an utterance, and the wall's is ahead.                              *)
GameTs(i) == IF raw[i] = "utterance" THEN MaxRaw + i ELSE i

(* A RAW point of an event in the agent's buffer, or of its own utterance. *)
WriteRaw(kind) ==
  /\ Len(raw) < MaxRaw
  /\ raw' = Append(raw, kind)
  /\ versions' = Append(versions, 0)
  /\ UNCHANGED <<arcs, anchors, bundle>>

(* scroll_filtered: a page of what matches, unordered before it is cut,    *)
(* and an empty one if Qdrant fails.                                       *)
Pages(S) ==
  {T \in SUBSET S : \/ Cardinality(T) = ScrollLimit
                    \/ T = S /\ Cardinality(S) < ScrollLimit
                    \/ T = {} /\ Fails}

(* A snap: generate_arc_summary over the window from 0; without a RAW      *)
(* point, or if the write fails, there is no summary.                      *)

GenerateArc(end) ==
  /\ Len(arcs) < MaxArcs
  /\ \E page \in Pages({i \in RawIds : GameTs(i) <= end}) :
       page # {} /\ arcs' = Append(arcs, page)
  /\ UNCHANGED <<raw, versions, anchors, bundle>>

(* Another goodnight reinterpreted the point: a new one beside the old.    *)
Reinterpret(i) ==
  /\ versions[i] < MaxVersions
  /\ versions' = [versions EXCEPT ![i] = @ + 1]
  /\ UNCHANGED <<raw, arcs, anchors, bundle>>

-----------------------------------------------------------------------------
(* What the searches on the two axes found, each point once, blended,      *)
(* decayed, boosted and sorted: in any order.  One search finds more than  *)
(* the anchors take (DEFAULT_BROAD_LIMIT over DEFAULT_FINAL_LIMIT), so the *)
(* anchors are any FinalLimit points; there are none if both fail.         *)
Rankings ==
  LET n == IF Cardinality(Stored) <= FinalLimit THEN Cardinality(Stored)
                                                ELSE FinalLimit IN
  {s \in [1..n -> Stored] : IsInjective(s)} \union (IF Fails THEN {<<>>} ELSE {})

(* The RAW points that a surfaced reinterpretation covers. *)
Covered(as) == {as[k].of : k \in {j \in DOMAIN as : as[j].tier = "RECON"}}

ByGameTs(s) ==
  LET order == CHOOSE p \in Bijection(DOMAIN s, DOMAIN s) :
                 \A j, k \in DOMAIN s : j < k => GameTs(s[p[j]]) <= GameTs(s[p[k]])
  IN [k \in DOMAIN s |-> s[order[k]]]

TakeRecon(b, a) ==
  [b EXCEPT !.summaries = Append(@, a),
            !.refs = IF a.of \in ToSet(@) THEN @ ELSE Append(@, a.of)]

(* A summary whose points are all reinterpreted is dropped; of the others  *)
(* the points that have not surfaced yet are fetched.                      *)
MutTakeMod(b, a, covered, fetched) ==  \* fetches what has surfaced already
  LET unseen == arcs[a.of] \ covered IN
  IF arcs[a.of] \subseteq covered THEN b
  ELSE [b EXCEPT !.summaries = Append(@, a),
                 !.recent = IF fetched THEN @ \o SetToSeq(unseen) ELSE @]

TakeMod(b, a, covered, fetched) ==
  LET unseen == arcs[a.of] \ (covered \union ToSet(b.recent)) IN
  IF arcs[a.of] \subseteq covered THEN b
  ELSE [b EXCEPT !.summaries = Append(@, a),
                 !.recent = IF fetched THEN @ \o SetToSeq(unseen) ELSE @]

TakeRaw(b, a, covered) ==
  IF a.of \in covered \union ToSet(b.recent) THEN b
  ELSE [b EXCEPT !.recent = Append(@, a.of)]

Take(b, a, covered, fetched) ==
  CASE a.tier = "RECON" -> TakeRecon(b, a)
    [] a.tier = "MOD" -> TakeMod(b, a, covered, fetched)
    [] a.tier = "RAW" -> TakeRaw(b, a, covered)

(* _expand_to_bundle: the anchors one after the other, best first.  Each    *)
(* summary asks Qdrant for its points in a call of its own, and fetched    *)
(* says at which anchors that call succeeds.                               *)
Expand(as, fetched) ==
  LET taken[k \in 0..Len(as)] ==
        IF k = 0 THEN EmptyBundle
        ELSE Take(taken[k - 1], as[k], Covered(as), k \in fetched)
  IN [taken[Len(as)] EXCEPT !.recent = ByGameTs(@)]

Fetches == IF Fails THEN SUBSET (1..FinalLimit) ELSE {1..FinalLimit}

(* retrieve_for_agent *)
Retrieve(fetched) ==
  /\ anchors = <<>>
  /\ \E ranking \in Rankings :
       /\ anchors' = ranking
       /\ bundle' = Expand(ranking, fetched)
  /\ UNCHANGED storeVars

(* The prompt is built and the bundle, local to the turn, is gone.         *)
UseBundle ==
  /\ anchors # <<>>
  /\ anchors' = <<>> /\ bundle' = EmptyBundle
  /\ UNCHANGED storeVars

-----------------------------------------------------------------------------
Next ==
  \/ \E kind \in {"event", "utterance"} : WriteRaw(kind)
  \/ \E end \in {GameTs(i) : i \in RawIds} : GenerateArc(end)
  \/ \E i \in RawIds : Reinterpret(i)
  \/ \E fetched \in Fetches : Retrieve(fetched)
  \/ UseBundle

Spec == Init /\ [][Next]_recallVars

-----------------------------------------------------------------------------
(* Every variable has its type. *)
TypeOK ==
  /\ raw \in Seq({"event", "utterance"}) /\ Len(raw) <= MaxRaw
  /\ Len(versions) = Len(raw) /\ ToSet(versions) \subseteq 0..MaxVersions
  /\ \A k \in DOMAIN arcs : arcs[k] # {} /\ arcs[k] \subseteq RawIds
  /\ ToSet(anchors) \subseteq Stored
  /\ ToSet(bundle.recent) \union ToSet(bundle.refs) \subseteq RawIds
  /\ ToSet(bundle.summaries) \subseteq Stored

(* No memory surfaces twice, however the arcs overlap and in whatever      *)
(* order summaries and their points rank (seen_raw_ids).                   *)
NothingTwice ==
  IsInjective(bundle.recent) /\ IsInjective(bundle.summaries) /\ IsInjective(bundle.refs)

(* A memory does not surface beside its own reinterpretation, not even     *)
(* through the summary of an arc it belongs to ("a RECON summary           *)
(* supersedes its source RAW").                                            *)
NeverBesideItsReframing ==
  \A k \in DOMAIN bundle.summaries :
    bundle.summaries[k].tier = "RECON" => bundle.summaries[k].of \notin ToSet(bundle.recent)

(* What a query ranks first is recalled: each anchor surfaces, or all it   *)
(* stands for does in a reinterpretation.                                  *)
Surfaces(a) ==
  LET reframed == {s.of : s \in {t \in ToSet(bundle.summaries) : t.tier = "RECON"}} IN
  \/ a \in ToSet(bundle.summaries)
  \/ a.tier = "RAW" /\ a.of \in ToSet(bundle.recent) \union reframed
  \/ a.tier = "MOD" /\ arcs[a.of] \subseteq reframed
AnchorsSurface == \A a \in ToSet(anchors) : Surfaces(a)

(* The original of what is reframed stays one hop away. *)
OriginalsInReach ==
  \A s \in ToSet(bundle.summaries) : s.tier = "RECON" => s.of \in ToSet(bundle.refs)

-----------------------------------------------------------------------------
(* What the documentation says, and the code does not do.                  *)

(* _expand_to_bundle, "recall surfaces the latest reinterpretation". *)
LatestReinterpretation ==
  [][\A s \in ToSet(bundle'.summaries) :
       bundle' # bundle /\ s.tier = "RECON" => s.version = versions[s.of]]_recallVars

(* "Sort recent by game_ts for chronological order": what is recalled is   *)
(* in the order in which it happened.                                      *)
RecentIsChronological ==
  \A j, k \in DOMAIN bundle.recent : j < k => bundle.recent[j] <= bundle.recent[k]
=============================================================================
