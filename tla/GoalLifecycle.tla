--------------------------- MODULE GoalLifecycle ---------------------------
(***************************************************************************)
(* The commitment ramp of one agent's goals (progeny/src/goal_lifecycle.py): *)
(* each turn every owned goal moves along primed - candidate - committed,  *)
(* or is satisfied, from its activation and its success predicate as they  *)
(* are this turn; then siblings, the alternatives of one parent, inhibit   *)
(* each other.                                                             *)
(*                                                                         *)
(* Goals are numbered in the order of the agent's list.  Activations and   *)
(* thresholds are multiples of 0.05, so that COMMIT_THRESHOLD is 7.        *)
(* lead_ticks is only compared with COMMIT_TICKS: it is kept up to there.  *)
(***************************************************************************)
EXTENDS Integers, FiniteSets

CONSTANTS
  NumGoals,        \* goals the agent owns
  Parent,          \* the parent of each candidate goal, NoParent for the rest
  NoParent,
  Levels,          \* the activations a goal can have
  CandidateAt,     \* CANDIDATE_THRESHOLD
  CommitAt,        \* COMMIT_THRESHOLD
  CommitTicks,     \* COMMIT_TICKS
  Margin           \* SWITCH_MARGIN

Goals == 1..NumGoals

LifecycleAssumption ==
  /\ NumGoals \in Nat
  /\ Parent \in [Goals -> Int \union {NoParent}]
  /\ Levels \subseteq Nat
  /\ CandidateAt \in Nat \ {0} /\ CommitAt \in Nat /\ CandidateAt < CommitAt
  /\ CommitTicks \in Nat \ {0} /\ Margin \in Nat \ {0}

Leading == {"candidate", "committed"}
States == Leading \union {"primed", "satisfied"}

(* GoalRuntime: commitment in units of 1 / COMMIT_TICKS *)
Runtime == [state : States, lead : 0..CommitTicks,
            commitment : 0..CommitTicks, act : Levels \union {0}]

VARIABLES
  rt,              \* LifecycleStore: the runtime of each goal
  holds,           \* history: the goals whose success predicate held last
  streak           \* history: for how many updates, up to CommitTicks, a goal
                   \* has been unsatisfied and activated to CommitAt

goalVars == <<rt, holds, streak>>

(* get_or_create: the template's state, primed for every goal of the pool *)
Created == [state |-> "primed", lead |-> 0, commitment |-> 0, act |-> 0]

Init ==
  /\ rt = [g \in Goals |-> Created]
  /\ holds = {}
  /\ streak = [g \in Goals |-> 0]

-----------------------------------------------------------------------------
(* one more tick, as far as they are told apart *)
OneMore(n) == IF n < CommitTicks THEN n + 1 ELSE n

(* _transition.  A satisfied goal has no lead ticks, so a retracted         *)
(* predicate starts it over.                                               *)
Satisfied(a) == [state |-> "satisfied", lead |-> 0, commitment |-> CommitTicks,
                 act |-> a]
MutRamped(r, a) ==                 \* lead ticks are kept below COMMIT_THRESHOLD
  LET lead == IF a >= CommitAt THEN OneMore(r.lead)
              ELSE IF a >= CandidateAt THEN r.lead ELSE 0
  IN  [state |-> IF lead = CommitTicks THEN "committed"
                 ELSE IF a >= CandidateAt THEN "candidate" ELSE "primed",
       lead |-> lead, commitment |-> lead, act |-> a]
Ramped(r, a) ==
  LET lead == IF a >= CommitAt THEN OneMore(r.lead) ELSE 0
  IN  [state |-> IF lead = CommitTicks THEN "committed"
                 ELSE IF a >= CandidateAt THEN "candidate" ELSE "primed",
       lead |-> lead, commitment |-> lead, act |-> a]
Transition(r, a, success) == IF success THEN Satisfied(a) ELSE Ramped(r, a)

(* _sibling_groups: the candidates of one parent, if there are several *)
Siblings(g) == IF Parent[g] = NoParent THEN {}
               ELSE {h \in Goals : Parent[h] = Parent[g]}
Groups == {G \in {Siblings(g) : g \in Goals} : Cardinality(G) > 1}

(* next() and max() take the first in the list's order *)
First(G) == CHOOSE g \in G : \A h \in G : g <= h
Strongest(r, G) == First({g \in G : \A h \in G : r[g].act >= r[h].act})

(* _select_leader, on the runtimes r after the transitions: the incumbent  *)
(* is the first sibling that is a candidate or committed by now            *)
Incumbents(r, G) == {g \in G : r[g].state \in Leading}
Leader(r, G) ==
  LET challenger == Strongest(r, G)
      incumbent == First(Incumbents(r, G))
  IN  IF Incumbents(r, G) = {} THEN challenger
      ELSE IF r[challenger].act >= r[incumbent].act + Margin THEN challenger
      ELSE incumbent

(* lateral inhibition: everyone but the leader of its group stays warm *)
Inhibited(r) ==
  [g \in Goals |->
     IF r[g].state \in Leading /\ \E G \in Groups : g \in G /\ g # Leader(r, G)
       THEN [r[g] EXCEPT !.state = "primed", !.lead = 0, !.commitment = 0]
       ELSE r[g]]

(* update_lifecycle, with the activations of this turn and the goals whose *)
(* success predicate holds in what the agent perceives                     *)
Update(acts, S) ==
  /\ rt' = Inhibited([g \in Goals |-> Transition(rt[g], acts[g], g \in S)])
  /\ holds' = S
  /\ streak' = [g \in Goals |-> IF g \notin S /\ acts[g] >= CommitAt
                                  THEN OneMore(streak[g]) ELSE 0]

Next == \E acts \in [Goals -> Levels], S \in SUBSET Goals : Update(acts, S)

Spec == Init /\ [][Next]_goalVars

-----------------------------------------------------------------------------
TypeOK ==
  /\ rt \in [Goals -> Runtime]
  /\ holds \subseteq Goals
  /\ streak \in [Goals -> 0..CommitTicks]

(* Only one of the alternatives of a parent holds the lead, whatever the   *)
(* others' activations and past commitment (pass 2 of update_lifecycle).   *)
OneLeader ==
  \A G \in Groups : Cardinality(Incumbents(rt, G)) <= 1

(* A goal is committed to only after COMMIT_TICKS updates in a row in which *)
(* it was activated to the threshold and not satisfied, and led: losing    *)
(* the lead or meeting the predicate once starts the count again.          *)
CommitNeedsPersistence ==
  \A g \in Goals : /\ rt[g].state = "committed" => streak[g] = CommitTicks
                   /\ rt[g].lead <= streak[g]

(* Nothing is latched: a goal is satisfied exactly while its predicate     *)
(* holds, and what a satisfied goal had earned is gone when it reopens.    *)
NothingLatched ==
  \A g \in Goals : /\ rt[g].state = "satisfied" <=> g \in holds
                   /\ rt[g].state = "committed" <=> rt[g].lead = CommitTicks

(* A parent whose alternatives call is not silenced: with a sibling that is *)
(* unmet and at the candidate threshold, one sibling leads, or one that is *)
(* satisfied outweighs it.                                                 *)
SomeoneLeads ==
  \A G \in Groups :
    (\E g \in G \ holds : rt[g].act >= CandidateAt)
      => \/ Incumbents(rt, G) # {}
         \/ \E s \in G \intersect holds : \A g \in G : rt[s].act >= rt[g].act

(* The lead is never held against a sibling that beats it by SWITCH_MARGIN: *)
(* hysteresis delays a switch, it does not prevent it.                     *)
NoMuchStrongerLoser ==
  \A G \in Groups : \A g \in Incumbents(rt, G) : \A h \in G :
    rt[h].act < rt[g].act + Margin

-----------------------------------------------------------------------------
(* What the documentation says, and the code does not do.                  *)

(* The incumbent keeps the lead unless a challenger beats it by            *)
(* SWITCH_MARGIN (docstring of update_lifecycle): a sibling that leads, is *)
(* still at the threshold and unmet, and that no sibling beats by the      *)
(* margin, leads after the update.  By the time _select_leader looks for   *)
(* the incumbent, pass 1 has made candidates of the others too, and it     *)
(* takes the first of the list.                                            *)
IncumbentKeepsLead ==
  [][\A G \in Groups : \A g \in Incumbents(rt, G) :
       (/\ rt'[g].act >= CandidateAt /\ g \notin holds'
        /\ \A h \in G : rt'[h].act < rt'[g].act + Margin)
         => rt'[g].state \in Leading]_goalVars
=============================================================================
