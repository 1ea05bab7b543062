---------------------------- MODULE TurnDispatch ----------------------------
(***************************************************************************)
(* What a turn asks the LLM and what it makes of the answers               *)
(* (progeny/api/routes.py, steps 2 to 5, with prompt_formatter.py,         *)
(* llm_client.py and response_expander.py): the roster and the groups of   *)
(* the scheduler, one call per group, all at once; retries, failures and   *)
(* replies of every shape, in any order; the calls that a failed turn      *)
(* leaves running; the merged answer of the turn.  And what the prompts    *)
(* say: the speaking roles, and how much of its data an agent is shown.    *)
(*                                                                         *)
(* What the LLM says is one of the shapes the expander tells apart; texts, *)
(* actions and memories inside an entry are left out.                      *)
(***************************************************************************)
EXTENDS AgentScheduler, FiniteSetsExt

CONSTANTS
  NoOne,           \* nobody is addressed; no speech context
  Inputs,          \* what a turn can start with: a subset of Input
  Curvatures,      \* curvatures of an agent, in units of 1/50
  Replies,         \* what a call can come back with: a subset of Reply
  Retries          \* LLMConfig.retry_attempts

(* The player's words name some of the NPCs; _speech_earshot is the last   *)
(* _speech event, if any (speaker NoOne: none, or not an NPC).             *)
Input == [named : SUBSET Npcs, speaker : Npcs \union {NoOne},
          listener : Npcs \union {NoOne}, companions : SUBSET Npcs,
          context : BOOLEAN]

(* "fails": an exception, an error status, no content.  "text": not the    *)
(* JSON asked for.  "json": entries, some with an utterance, for NPCs in   *)
(* the group or not.  "bad": JSON with a field no schema takes.            *)
Reply == [kind : {"fails", "text", "json", "bad"}, speaks : SUBSET Npcs]

ASSUME DispatchAssumption ==
  /\ SchedulerAssumption
  /\ NoOne \notin Npcs
  /\ Inputs \subseteq Input
  /\ Curvatures \subseteq Nat /\ Curvatures # {}
  /\ Replies \subseteq Reply
  /\ Retries \in Nat

VARIABLES
  stage,           \* "idle", or "asking": the turn waits in gather
  input,           \* input of the turn
  urgency,         \* of the turn, in units of 1/20
  calls,           \* the turn's calls, one per group
  orphans,         \* calls of turns that failed, still under way
  answer           \* the agents' responses of the turn, once it is answered

dispatchVars == <<stage, input, urgency, calls, orphans, answer>>
vars == <<schedVars, dispatchVars>>

(* One agent's response: the words it speaks, and the call they come from. *)
Response == [id : Npcs, words : {"none", "own", "whole"}, turn : Nat, group : Nat]
Call == [turn : Nat, group : Nat, ids : Seq(Npcs), tries : Nat,
         state : {"asking", "done"}, responses : Seq(Response)]
NoAnswer == [turn |-> 0, responses |-> <<>>]

DispatchInit ==
  /\ Init
  /\ stage = "idle"
  /\ input = [named |-> {}, speaker |-> NoOne, listener |-> NoOne,
              companions |-> {}, context |-> FALSE]
  /\ urgency = 0
  /\ calls = <<>> /\ orphans = {}
  /\ answer = NoAnswer

-----------------------------------------------------------------------------
(* The prompts.                                                            *)

IdsOf(s) == [k \in DOMAIN s |-> s[k].id]

(* _resolve_addressee: the first of the list that is named, or the speaker *)
(* of the last _speech event if it is in the list.                         *)
Addressee(ids, in) ==
  LET named == {k \in DOMAIN ids : ids[k] \in in.named}
  IN  IF named # {} THEN ids[Min(named)]
      ELSE IF in.speaker \in Range(ids) THEN in.speaker
      ELSE NoOne

(* _build_data_payload: the role an agent is told, from its group alone. *)
SpeakingRole(ids, a, in) ==
  CASE Addressee(ids, in) = NoOne -> "group_addressed"
    [] Addressee(ids, in) = a     -> "addressee"
    [] OTHER                      -> "bystander"

(* record_player_input: in whose dialogue history the words are. *)
HeardBy(in, active) ==
  IF in.context THEN ({in.listener} \union in.companions) \ {NoOne}
                ELSE Range(active)

(* _urgency, in units of 1/20: no truncation below a curvature of 0.1, all *)
(* of it from 0.5 on, for the most volatile agent of the roster.           *)
Urgency(ids, curvature) ==
  LET most == Max({0} \union {curvature[a] : a \in Range(ids)})
  IN  IF most <= 5 THEN 0 ELSE IF most >= 25 THEN 20 ELSE most - 5

Least(x, y) == IF x < y THEN x ELSE y
Most(x, y) == IF x < y THEN y ELSE x

(* build_shared_prefix and the tick-fresh block: what all are shown. *)
SharedFields(u) ==
  {"location", "shared_anchors", "present_npcs", "shared_events", "group_display"}
  \union (IF u < 10 THEN {"shared_history", "shared_recent"} ELSE {})
  \union (IF u < 14 THEN {"shared_knowledge"} ELSE {})
  \union (IF u < 6 THEN {"lore"} ELSE {})

(* _build_agent_block, of an agent with n lines of dialogue and some of    *)
(* everything else: the fields, the number of events, the lines shown.     *)
MutLines(tier, u, n) ==            \* the three lines of tier 1 whatever the urgency
  IF tier > 1 \/ u >= 14 \/ n = 0 THEN 0
  ELSE IF tier = 1 THEN Least(3, n)
  ELSE Most(1, (n * (20 - u)) \div 20)
Lines(tier, u, n) ==
  LET depth == (n * (20 - u)) \div 20
  IN  IF tier > 1 \/ u >= 14 \/ n = 0 THEN 0
      ELSE Most(1, IF tier = 1 THEN Least(3, depth) ELSE depth)
OwnFields(tier, u) ==
  {"base_vector"}
  \union (IF tier <= 1 THEN {"identity", "active_task", "curvature"} ELSE {})
  \union (IF tier = 0 THEN {"buffers", "snap", "tension", "state_history"} ELSE {})
  \union (IF tier = 0 /\ u < 14 THEN {"private_knowledge"} ELSE {})
  \union (IF tier = 0 /\ u < 10 THEN {"compressed_history", "distant_memories"} ELSE {})
EventsShown == <<10, 5, 2, 0>>

Block(tier, u, n) ==
  [fields |-> SharedFields(u) \union OwnFields(tier, u),
   events |-> EventsShown[tier + 1],
   lines |-> Lines(tier, u, n)]

-----------------------------------------------------------------------------
(* The answers.                                                            *)

Silent(call, a) == [id |-> a, words |-> "none", turn |-> call.turn, group |-> call.group]
Speaking(call, a, words) == [Silent(call, a) EXCEPT !.words = words]

MutExpand(call, reply) ==          \* one response per entry of the reply
  LET extra == SetToSeq(reply.speaks \ Range(call.ids))
      ids == call.ids \o extra
  IN  [k \in DOMAIN ids |->
         IF ids[k] \in reply.speaks THEN Speaking(call, ids[k], "own")
                                    ELSE Silent(call, ids[k])]
(* expand_response: an entry for everybody asked about, in order, whatever *)
(* the reply has; text that is no JSON is what the first of them says.     *)
Expand(call, reply) ==
  [k \in DOMAIN call.ids |->
     IF reply.kind = "json" /\ call.ids[k] \in reply.speaks
       THEN Speaking(call, call.ids[k], "own")
     ELSE IF reply.kind = "text" /\ k = 1
       THEN Speaking(call, call.ids[k], "whole")
     ELSE Silent(call, call.ids[k])]

NewCall(turn, k, group) ==
  [turn |-> turn, group |-> k, ids |-> IdsOf(group), tries |-> 0,
   state |-> "asking", responses |-> <<>>]

(* Steps 2 to 4: schedule, plan_dispatch, and a task per group, each of    *)
(* which builds its prompt and posts it.  Without a roster the turn is     *)
(* answered at once.                                                       *)
Dispatch(active, info, in, curvature) ==
  /\ stage = "idle"
  /\ Turn(active, [a \in Range(active) |->
                    [info[a] EXCEPT !.volatile = curvature[a] >= 10]])
  /\ input' = in
  /\ urgency' = Urgency(IdsOf(roster'), curvature)
  /\ answer' = [turn |-> IF roster' = <<>> THEN turnCounter' ELSE 0, responses |-> <<>>]
  /\ calls' = [k \in DOMAIN groups' |-> NewCall(turnCounter', k, groups'[k])]
  /\ stage' = IF roster' = <<>> THEN "idle" ELSE "asking"
  /\ UNCHANGED orphans

(* generate fails: once more, or after the last attempt LLMError, which    *)
(* _run_group turns into silent responses.                                 *)
Failed(call) ==
  IF call.tries < Retries THEN [call EXCEPT !.tries = @ + 1]
  ELSE [call EXCEPT !.state = "done",
          !.responses = [k \in DOMAIN call.ids |-> Silent(call, call.ids[k])]]
CallFails(k) ==
  /\ k \in DOMAIN calls /\ calls[k].state = "asking"
  /\ calls' = [calls EXCEPT ![k] = Failed(@)]
  /\ UNCHANGED <<schedVars, stage, input, urgency, orphans, answer>>

(* A reply that the expander can use, for all or some of the group.        *)
CallReturns(k, reply) ==
  /\ k \in DOMAIN calls /\ calls[k].state = "asking"
  /\ reply.kind \in {"text", "json"}
  /\ calls' = [calls EXCEPT ![k].state = "done", ![k].responses = Expand(calls[k], reply)]
  /\ UNCHANGED <<schedVars, stage, input, urgency, orphans, answer>>

(* A reply with a field of the wrong type: _run_group catches LLMError     *)
(* only, gather passes the exception on, and the turn has failed.  The     *)
(* other calls are not cancelled.                                          *)
CallRaises(k) ==
  /\ k \in DOMAIN calls /\ calls[k].state = "asking"
  /\ stage' = "idle"
  /\ orphans' = orphans \union {c \in Range(calls) : c.state = "asking" /\ c # calls[k]}
  /\ calls' = <<>>
  /\ UNCHANGED <<schedVars, input, urgency, answer>>

(* What becomes of a call nobody waits for concerns nobody. *)
OrphanReturns(c, reply) ==
  /\ c \in orphans
  /\ orphans' = (orphans \ {c}) \union
       (IF reply.kind = "fails" /\ c.tries < Retries THEN {Failed(c)} ELSE {})
  /\ UNCHANGED <<schedVars, stage, input, urgency, calls, answer>>

MutAllDone ==                      \* an answer without a word counts for none
  \A k \in DOMAIN calls : \E j \in DOMAIN calls[k].responses :
    calls[k].responses[j].words # "none"
AllDone == \A k \in DOMAIN calls : calls[k].state = "done"

(* Step 5: the responses of all groups in their order, and record_action   *)
(* for each (RecordAction of the scheduler).                               *)
Responses == FlattenSeq([k \in DOMAIN calls |-> calls[k].responses])
Merge ==
  /\ stage = "asking" /\ AllDone
  /\ stage' = "idle"
  /\ answer' = [turn |-> turnCounter, responses |-> Responses]
  /\ LET acted == {r.id : r \in Range(Responses)} IN
       ticks' = [a \in DOMAIN ticks \union acted |->
                   IF a \in acted THEN 0 ELSE ticks[a]]
  /\ calls' = <<>>
  /\ UNCHANGED <<turnCounter, scene, roster, groups, waited, farthest,
                 input, urgency, orphans>>

(* What the turn waits for: an answer, of whatever kind, and the merge.    *)
Proceeds(k) ==
  \/ \E reply \in Replies : reply.kind = "fails" /\ CallFails(k)
  \/ \E reply \in Replies : CallReturns(k, reply)
  \/ \E reply \in Replies : reply.kind = "bad" /\ CallRaises(k)

DispatchNext ==
  \/ \E in \in Inputs, active \in Scenes :
       \E info \in [Range(active) -> Infos], curvature \in [Range(active) -> Curvatures] :
         Dispatch(active, info, in, curvature)
  \/ \E k \in DOMAIN calls : Proceeds(k)
  \/ \E c \in orphans, reply \in Replies : OrphanReturns(c, reply)
  \/ Merge

DispatchSpec == DispatchInit /\ [][DispatchNext]_vars

(* A call comes back or runs into its timeout. *)
FairDispatch ==
  /\ DispatchSpec
  /\ \A k \in 1..(MaxSlots + 2) : WF_vars(k \in DOMAIN calls /\ Proceeds(k))
  /\ WF_vars(Merge)

-----------------------------------------------------------------------------
DispatchTypeOK ==
  /\ stage \in {"idle", "asking"}
  /\ input \in Input
  /\ urgency \in 0..20
  /\ calls \in Seq(Call) /\ \A k \in DOMAIN calls : calls[k].tries <= Retries
  /\ orphans \subseteq Call
  /\ answer.turn \in 0..turnCounter /\ answer.responses \in Seq(Response)

(* A turn that is answered is answered for its roster: one response for    *)
(* each agent, in the order of the roster and whichever call came back     *)
(* first; each speaks words of this turn, from a call that was about it,   *)
(* never another agent's and never those of a call a failed turn left      *)
(* behind (_run_group, expand_response, "Merge results in roster order").  *)
RosterAnswered ==
  /\ DispatchTypeOK
  /\ DispatchPartitions
  /\ stage = "idle" /\ answer.turn = turnCounter /\ turnCounter > 0 =>
       /\ IdsOf(answer.responses) = IdsOf(roster)
       /\ \A r \in Range(answer.responses) : r.words # "none" =>
            /\ r.turn = turnCounter
            /\ r.id \in Ids(groups[r.group])
            /\ r.words = "whole" => r.id = groups[r.group][1].id

(* Prompts shrink (_build_agent_block, build_shared_prefix): in a turn, an *)
(* agent that is farther away is shown nothing that a nearer one with as   *)
(* much to remember is not; and no more than in a calmer turn, for every   *)
(* length of its dialogue.                                                 *)
Within(small, big) ==
  small.fields \subseteq big.fields /\ small.events <= big.events /\ small.lines <= big.lines
Posting == stage = "asking" /\ \A k \in DOMAIN calls : calls[k].state = "asking" /\ calls[k].tries = 0
PromptsShrink ==
  Posting =>
    \A i, j \in DOMAIN roster : \A n \in {0, 1, 3, 8} :
      i <= j =>
        LET far == Block(roster[j].tier, urgency, n) IN
        /\ Within(far, Block(roster[i].tier, urgency, n))
        /\ \A calmer \in 0..urgency : Within(far, Block(roster[j].tier, calmer, n))

(* A turn ends, answered or failed, whatever its calls run into.           *)
TurnsEnd == stage = "asking" ~> stage = "idle"

-----------------------------------------------------------------------------
(* What the documentation says, and the code does not do.                  *)

(* SYSTEM_PROMPT: "Only the addressee's voice is heard in-game"; the       *)
(* others are bystanders, who "do NOT produce an utterance".  Roles are    *)
(* resolved in each group for itself: whoever is in another call than the  *)
(* addressee is told that the player spoke to the group, or to it.         *)
BystandersAreTold ==
  stage = "asking" =>
    LET to == Addressee(IdsOf(roster), input) IN
    to # NoOne =>
      \A k \in DOMAIN groups : \A a \in Ids(groups[k]) \ {to} :
        SpeakingRole(IdsOf(groups[k]), a, input) = "bystander"

(* "The player is talking to you" (SYSTEM_PROMPT, on the addressee), and   *)
(* "addressee hears the player directly" (record_player_input): the two    *)
(* take the addressee from different fields of the speech event.           *)
AddresseeHears ==
  stage = "asking" =>
    \A k \in DOMAIN groups : \A a \in Ids(groups[k]) :
      SpeakingRole(IdsOf(groups[k]), a, input) = "addressee"
        => a \in HeardBy(input, scene)

(* "Returns one AgentResponse per expected agent (may be empty for some)": *)
(* a call that comes back does not cost the turn its other answers.        *)
OneBadReplyIsNotAll ==
  [][stage = "asking" /\ stage' = "idle" => answer'.turn = turnCounter]_vars
=============================================================================
