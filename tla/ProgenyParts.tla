---------------------------- MODULE ProgenyParts ----------------------------
(* Six parts of Progeny that share no variable: the fact pool, the         *)
(* scheduler, one agent's goals, its memories and their recall, its        *)
(* nights, and the tiers of the dialogue.  A behaviour is one part's, with *)
(* the others at rest in their initial state, so that the states are the   *)
(* sum and not the product of the parts'; nothing is lost by it, as no     *)
(* guard and no property reads more than one part.  A part's properties    *)
(* are looked at in its own behaviours; the pool's, which this module      *)
(* extends, in all.                                                        *)
EXTENDS FactPool

CONSTANTS Party, Scenes, Infos, Cadence, MaxAgents, MaxSlots, MaxTurns
VARIABLES turnCounter, ticks, scene, roster, groups, waited, farthest
schedVars == <<turnCounter, ticks, scene, roster, groups, waited, farthest>>
S == INSTANCE AgentScheduler WITH Npcs <- Party

CONSTANTS NumGoals, Parent, NoParent, Levels, CandidateAt, CommitAt,
          CommitTicks, Margin
VARIABLES rt, holds, streak
goalVars == <<rt, holds, streak>>
G == INSTANCE GoalLifecycle

CONSTANTS MaxRaw, MaxArcs, MaxVersions, ScrollLimit, FinalLimit, Fails
VARIABLES raw, arcs, versions, anchors, bundle
recallVars == <<raw, arcs, versions, anchors, bundle>>
R == INSTANCE MemoryRecall

CONSTANTS Sources, RawKey, MaxKey, TopK, ScanLimit, Threshold, Hysteresis,
          MaxDrift, MaxNights, ScansFail, WritesFail, Crashes
VARIABLES recon, nights, mind, prior, todo
reconVars == <<recon, nights, mind, prior, todo>>
N == INSTANCE Reconsolidation

CONSTANTS Talkers, Rooms, Earshots, VerbatimMax, CompressedMax, KeywordsMax,
          MinChanges, MaxLines
VARIABLES clock, buffered, tiers, task, group, present, turnOf, prompt,
          said, groupSaid, markers
tierVars == <<clock, buffered, tiers, task, group, present, turnOf, prompt,
              said, groupSaid, markers>>
D == INSTANCE DialogueTiers WITH Agents <- Talkers, Scenes <- Rooms,
       known <- buffered

ASSUME PartsAssumption ==
  /\ S!SchedulerAssumption
  /\ G!LifecycleAssumption
  /\ R!RecallAssumption
  /\ N!ReconAssumption
  /\ D!TiersAssumption

VARIABLE part      \* the one that takes steps

vars == <<part, poolVars, schedVars, goalVars, recallVars, reconVars, tierVars>>

PartsInit ==
  /\ part \in {"facts", "scheduler", "goals", "memories", "nights", "tiers"}
  /\ Init /\ S!Init /\ G!Init /\ R!Init /\ N!Init /\ D!Init

FactsStep ==
  /\ part = "facts" /\ Next
  /\ UNCHANGED <<part, schedVars, goalVars, recallVars, reconVars, tierVars>>
SchedulerStep ==
  /\ part = "scheduler" /\ S!Next
  /\ UNCHANGED <<part, poolVars, goalVars, recallVars, reconVars, tierVars>>
GoalsStep ==
  /\ part = "goals" /\ G!Next
  /\ UNCHANGED <<part, poolVars, schedVars, recallVars, reconVars, tierVars>>
MemoriesStep ==
  /\ part = "memories" /\ R!Next
  /\ UNCHANGED <<part, poolVars, schedVars, goalVars, reconVars, tierVars>>
NightsStep ==
  /\ part = "nights" /\ N!Next
  /\ UNCHANGED <<part, poolVars, schedVars, goalVars, recallVars, tierVars>>
TiersStep ==
  /\ part = "tiers" /\ D!Next
  /\ UNCHANGED <<part, poolVars, schedVars, goalVars, recallVars, reconVars>>

PartsNext == FactsStep \/ SchedulerStep \/ GoalsStep \/ MemoriesStep
             \/ NightsStep \/ TiersStep

PartsSpec == PartsInit /\ [][PartsNext]_vars

-----------------------------------------------------------------------------
(* Every variable of the other parts has its type, and the bounds that are  *)
(* part of it hold: a roster within the cap, a commitment within its ramp, *)
(* no summary of nothing, keys on the line, no history without a buffer.   *)
(* The LLM calls of a turn partition its roster (plan_dispatch).           *)
PartsInvariant ==
  CASE part = "facts"     -> TRUE
    [] part = "scheduler" -> S!TypeOK /\ S!DispatchPartitions
    [] part = "goals"     -> G!TypeOK
    [] part = "memories"  -> R!TypeOK
    [] part = "nights"    -> N!TypeOK
    [] part = "tiers"     -> D!TypeOK

(* Nobody in a scene within the cap is left out for as long as the cadence *)
(* of its tiers (the cadence filter of schedule).                          *)
CadenceHonoured == part = "scheduler" => S!CadenceHonoured

(* The commitment ramp and the inhibition of siblings (update_lifecycle):  *)
(* one leader at most and, where an alternative calls, somebody that       *)
(* leads or is satisfied; commitment is earned; nothing is latched.  The   *)
(* lead is never held against a sibling that beats it by SWITCH_MARGIN     *)
(* (_select_leader).                                                       *)
GoalInvariant == part = "goals" =>
  /\ G!OneLeader /\ G!CommitNeedsPersistence /\ G!NothingLatched /\ G!SomeoneLeads
  /\ G!NoMuchStrongerLoser

(* A bundle repeats nothing, surfaces every anchor in some form, keeps the *)
(* original of what is reframed one hop away, and shows no memory beside   *)
(* its own reinterpretation (_expand_to_bundle).                           *)
BundleInvariant == part = "memories" =>
  /\ R!NothingTwice /\ R!AnchorsSurface /\ R!OriginalsInReach
  /\ R!NeverBesideItsReframing

(* The versions of a memory form a chain without a gap, over nights that   *)
(* lose writes or are cut short, and one night moves it by MaxDrift at     *)
(* most (run_reconsolidation, clamp_drift).                                *)
NightsInvariant == part = "nights" => N!ChainUnbroken /\ N!DriftBounded

(* The tiers of a timeline, oldest to newest, are what it last recorded,   *)
(* with no gap and in order, through turns that fail and agents that leave *)
(* and return; nothing is evicted before the keywords are full             *)
(* (slide_window, "oldest-out").                                           *)
OldestOut == part = "tiers" => D!OldestOut /\ D!EvictsOnlyWhenFull
=============================================================================
