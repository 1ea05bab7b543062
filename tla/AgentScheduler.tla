--------------------------- MODULE AgentScheduler ---------------------------
(***************************************************************************)
(* Who gets into a turn's prompts (progeny/src/agent_scheduler.py): tiers  *)
(* by distance, collaboration and volatility, the cadence of each tier,    *)
(* the cap on agents, and the groups that become LLM calls.  The pipeline  *)
(* (progeny/api/routes.py) schedules and dispatches once per turn, then    *)
(* records the agents that answered.                                       *)
(*                                                                         *)
(* Positions are not wired through the pipeline yet: it schedules with     *)
(* unknown distances only.  The scheduler takes every kind.                *)
(***************************************************************************)
EXTENDS Integers, Sequences, SequencesExt, FiniteSets

CONSTANTS
  Npcs,            \* agents
  Scenes,          \* the lists of active NPCs a turn can have
  Infos,           \* what can be known of an NPC: a subset of Info
  Cadence,         \* per tier: tier0_cadence .. tier3_cadence
  MaxAgents,       \* max_agents_per_prompt
  MaxSlots,        \* max_parallel_slots
  MaxTurns         \* bound: turns

Tiers == 0..3
CollaborationFloor == 1                \* collaboration_floor_tier

(* NpcScheduleInfo: the ring its distance falls into, or -1 without a      *)
(* position; a task at hand; curvature above the promotion threshold.      *)
Info == [ring : Tiers \union {-1}, collaborating : BOOLEAN, volatile : BOOLEAN]

(* The cadences nest: what is due at a tier is due at every higher one.    *)
SchedulerAssumption ==
  /\ Scenes \subseteq {s \in Seq(Npcs) : IsInjective(s)}
  /\ Infos \subseteq Info
  /\ Cadence \in [Tiers -> Nat \ {0}]
  /\ \A t, u \in Tiers : t <= u => Cadence[u] % Cadence[t] = 0
  /\ MaxAgents \in Nat /\ MaxSlots \in Nat /\ MaxTurns \in Nat

VARIABLES
  turnCounter,     \* _turn_counter
  ticks,           \* _ticks_since_action, a partial function
  scene,           \* active_npc_ids of the turn
  roster,          \* what schedule returned
  groups,          \* what plan_dispatch made of it
  waited,          \* history: turns an NPC has been active in a row, in a
                   \* scene within the cap, and left out
  farthest         \* history: the greatest tier it had in these turns

schedVars == <<turnCounter, ticks, scene, roster, groups, waited, farthest>>

Scheduled == [id : Npcs, tier : Tiers, ticks : Nat]

Init ==
  /\ turnCounter = 0
  /\ ticks = [a \in {} |-> 0]
  /\ scene = <<>> /\ roster = <<>> /\ groups = <<>>
  /\ waited = [a \in Npcs |-> 0]
  /\ farthest = [a \in Npcs |-> 0]

-----------------------------------------------------------------------------
(* _compute_tier *)
Floored(ring, i) == IF i.collaborating /\ ring > CollaborationFloor
                      THEN CollaborationFloor ELSE ring
ComputeTier(i) ==
  IF i.ring = -1 THEN 0
  ELSE IF i.volatile /\ Floored(i.ring, i) > 1 THEN 1
  ELSE Floored(i.ring, i)

(* Everyone known has waited one turn more; the active are known from now. *)
Counted(active) ==
  [a \in DOMAIN ticks \union Range(active) |->
     IF a \in DOMAIN ticks THEN ticks[a] + 1 ELSE 0]

(* The cadence filter: new agents, and those whose tier is due this turn.   *)
MutDue(turn, agent) ==             \* counted from the agent's last action
  agent.ticks = 0 \/ agent.ticks > Cadence[agent.tier]
Due(turn, agent) == agent.ticks = 0 \/ turn % Cadence[agent.tier] = 0

(* What a list has at the positions K, in its order. *)
Nth(K, i) == CHOOSE k \in K : Cardinality({j \in K : j <= k}) = i
Picked(s, K) == [i \in 1..Cardinality(K) |-> s[Nth(K, i)]]

(* The first MaxAgents of the list, then a stable sort by tier.            *)
Capped(s) == SubSeq(s, 1, IF Len(s) < MaxAgents THEN Len(s) ELSE MaxAgents)
OfTier(s, t) == Picked(s, {k \in DOMAIN s : s[k].tier = t})
ByTier(s) == OfTier(s, 0) \o OfTier(s, 1) \o OfTier(s, 2) \o OfTier(s, 3)

Tiered(active, info, count) ==
  [k \in DOMAIN active |-> [id |-> active[k], tier |-> ComputeTier(info[active[k]]),
                            ticks |-> count[active[k]]]]

(* schedule *)
Roster(turn, active, info) ==
  LET all == Tiered(active, info, Counted(active))
  IN  ByTier(Capped(Picked(all, {k \in DOMAIN all : Due(turn, all[k])})))

(* plan_dispatch: tier 0 alone as far as the slots go, its overflow in one *)
(* group, everyone else in another.                                        *)
MutPlanDispatch(r) ==              \* the agent at the slot limit is in two calls
  LET tier0 == OfTier(r, 0)
      solo == IF Len(tier0) < MaxSlots THEN Len(tier0) ELSE MaxSlots
      overflow == IF solo = 0 THEN tier0 ELSE SubSeq(tier0, solo, Len(tier0))
      lower == OfTier(r, 1) \o OfTier(r, 2) \o OfTier(r, 3)
      batch(s) == IF s = <<>> THEN <<>> ELSE <<s>>
  IN  [k \in 1..solo |-> <<tier0[k]>>] \o batch(overflow) \o batch(lower)
PlanDispatch(r) ==
  LET tier0 == OfTier(r, 0)
      solo == IF Len(tier0) < MaxSlots THEN Len(tier0) ELSE MaxSlots
      overflow == SubSeq(tier0, solo + 1, Len(tier0))
      lower == OfTier(r, 1) \o OfTier(r, 2) \o OfTier(r, 3)
      batch(s) == IF s = <<>> THEN <<>> ELSE <<s>>
  IN  [k \in 1..solo |-> <<tier0[k]>>] \o batch(overflow) \o batch(lower)

Ids(s) == {s[k].id : k \in DOMAIN s}

(* A turn of the pipeline: schedule, then plan_dispatch. *)
Turn(active, info) ==
  LET turn == turnCounter + 1
      r == Roster(turn, active, info)
  IN
  /\ turnCounter < MaxTurns
  /\ turnCounter' = turn
  /\ ticks' = Counted(active)
  /\ scene' = active
  /\ roster' = r
  /\ groups' = PlanDispatch(r)
  /\ LET waits(a) == a \in Range(active) \ Ids(r) /\ Len(active) <= MaxAgents IN
       /\ waited' = [a \in Npcs |-> IF waits(a) THEN waited[a] + 1 ELSE 0]
       /\ farthest' = [a \in Npcs |->
            IF ~waits(a) THEN 0
            ELSE IF farthest[a] < ComputeTier(info[a]) THEN ComputeTier(info[a])
            ELSE farthest[a]]

(* record_action: an agent of the roster answered. *)
RecordAction(a) ==
  /\ a \in Ids(roster)
  /\ ticks' = [ticks EXCEPT ![a] = 0]
  /\ UNCHANGED <<turnCounter, scene, roster, groups, waited, farthest>>

Next ==
  \/ \E active \in Scenes : \E info \in [Range(active) -> Infos] : Turn(active, info)
  \/ \E a \in Npcs : RecordAction(a)

Spec == Init /\ [][Next]_schedVars

-----------------------------------------------------------------------------
TypeOK ==
  /\ turnCounter \in 0..MaxTurns
  /\ DOMAIN ticks \subseteq Npcs /\ \A a \in DOMAIN ticks : ticks[a] \in Nat
  /\ scene \in Seq(Npcs)
  /\ roster \in Seq(Scheduled) /\ Len(roster) <= MaxAgents
  /\ groups \in Seq(Seq(Scheduled))
  /\ waited \in [Npcs -> Nat] /\ farthest \in [Npcs -> Tiers]

(* The LLM calls of a turn partition its roster: every scheduled agent is  *)
(* in one call, once, in the order of the roster, and no call is empty;    *)
(* a call that shares its prompt is the overflow or holds no tier 0.       *)
DispatchPartitions ==
  /\ FlattenSeq(groups) = roster
  /\ \A k \in DOMAIN groups : groups[k] # <<>>
  /\ Cardinality({k \in DOMAIN groups : Len(groups[k]) = 1
                                        /\ groups[k][1].tier = 0}) <= MaxSlots + 1
  /\ \A k \in DOMAIN groups : \A i, j \in DOMAIN groups[k] :
       groups[k][i].tier = 0 <=> groups[k][j].tier = 0

(* Nobody in a scene within the cap is left out for as long as the cadence *)
(* of its tier, also when its tier changes from turn to turn (the cadences *)
(* nest), and whether it answered, moved in late or was there from the     *)
(* start.                                                                  *)
CadenceHonoured == \A a \in Npcs : waited[a] < Cadence[farthest[a]]

-----------------------------------------------------------------------------
(* What a comment says, and the code does not do.                          *)

(* An agent the scheduler has not seen is in the first turn it is active   *)
(* in: "new agents always appear on their first turn - ensures the         *)
(* recognition bootstrap and first-encounter pipeline always fire" (in     *)
(* schedule).  The cap keeps the head of the list of active NPCs, and      *)
(* whoever it cuts is not new any more.                                    *)
Newcomers == Range(scene') \ DOMAIN ticks
NewcomersAlwaysAppear == [][Newcomers \subseteq Ids(roster')]_schedVars
=============================================================================
