---------------------------- MODULE DialogueTiers ----------------------------
(***************************************************************************)
(* The in-context memory of progeny: each agent's dialogue history and the *)
(* group's timeline as three tiers (TieredMemory), the window that slides  *)
(* over them (progeny/src/memory_compressor.py), the scene markers of      *)
(* progeny/src/compression.py, and what of it the snapshot of a turn       *)
(* carries into the prompt (flush_turn, prompt_formatter.py).              *)
(*                                                                         *)
(* A line is the moment it was recorded; compressing and distilling its    *)
(* text leave the moment alone.  Which lines reach whom is module          *)
(* EventAccumulator's subject; here any agent may hear any.                *)
(***************************************************************************)
EXTENDS Integers, FiniteSets, Sequences, SequencesExt

CONSTANTS
  Agents,
  Scenes,          \* the sets of NPCs a package can report as active
  Earshots,        \* addressee and companions of the last _speech event
  VerbatimMax, CompressedMax, KeywordsMax,
  MinChanges,      \* SceneCompressor.MIN_CHANGES
  MaxLines         \* bound: lines and markers in a behaviour

TiersAssumption ==
  /\ Scenes \subseteq SUBSET Agents /\ Earshots \subseteq SUBSET Agents
  /\ {VerbatimMax, CompressedMax, KeywordsMax, MinChanges} \subseteq Nat
  /\ MaxLines \in Nat

VARIABLES
  clock,           \* lines recorded so far
  known,           \* the keys of _agent_buffers
  tiers,           \* per agent: AgentBuffer.memory
  task,            \* per agent: whether AgentBuffer.active_task is set
  group,           \* _group_memory
  present,         \* _prev_active_npc_ids
  turnOf,          \* the active NPCs of the turn under way, or NoTurn
  prompt,          \* what the turn's prompt shows of each of them
  said, groupSaid, \* history: the lines each timeline recorded since the
                   \* reset; a line is later than those with smaller numbers
  markers          \* history: the lines that are scene markers

tierVars == <<clock, known, tiers, task, group, present, turnOf, prompt,
              said, groupSaid, markers>>

NoTurn == {}
TieredMemory == [verbatim |-> <<>>, compressed |-> <<>>, keywords |-> <<>>]
Nothing == [memory |-> TieredMemory, task |-> FALSE]
Forgotten(x) == [a \in Agents |-> x]

Init ==
  /\ clock = 0 /\ known = {} /\ present = {} /\ turnOf = NoTurn
  /\ tiers = Forgotten(TieredMemory) /\ task = Forgotten(FALSE)
  /\ group = TieredMemory
  /\ prompt = Forgotten(Nothing)
  /\ said = Forgotten({}) /\ groupSaid = {} /\ markers = {}

-----------------------------------------------------------------------------
This == clock + 1
Hears(t) == [t EXCEPT !.verbatim = Append(@, This)]

(* A line enters the histories of those in hearers, which get a buffer,    *)
(* and perhaps the group's.                                                *)
Record(hearers, shared) ==
  /\ clock < MaxLines
  /\ clock' = This
  /\ known' = known \union hearers
  /\ tiers' = [a \in Agents |-> IF a \in hearers THEN Hears(tiers[a]) ELSE tiers[a]]
  /\ said' = [a \in Agents |-> said[a] \union (IF a \in hearers THEN {This} ELSE {})]
  /\ group' = IF shared THEN Hears(group) ELSE group
  /\ groupSaid' = groupSaid \union (IF shared THEN {This} ELSE {})

(* An event that is no line gives its agent a buffer. *)
Register(a, scene) ==
  /\ turnOf = NoTurn
  /\ known' = known \union {a}
  /\ present' = scene
  /\ UNCHANGED <<clock, tiers, task, group, turnOf, prompt, said, groupSaid, markers>>

(* A chat line between two agents, or of one with the player (one that     *)
(* talks to itself is two lines); the input of its package, if any, comes  *)
(* after it.                                                               *)
AdoptChat(parties, scene) ==
  /\ turnOf = NoTurn
  /\ Record(parties, FALSE)
  /\ present' = scene
  /\ UNCHANGED <<task, turnOf, prompt, markers>>

(* record_npc_speech: a canned line of an active NPC. *)
AdoptSpeech(speaker, scene) ==
  /\ turnOf = NoTurn
  /\ speaker \in scene
  /\ Record({speaker}, TRUE)
  /\ present' = scene
  /\ UNCHANGED <<task, turnOf, prompt, markers>>

(* init or wipe. *)
Reset ==
  /\ turnOf = NoTurn
  /\ known' = {} /\ present' = {}
  /\ tiers' = Forgotten(TieredMemory) /\ task' = Forgotten(FALSE)
  /\ group' = TieredMemory
  /\ said' = Forgotten({}) /\ groupSaid' = {}
  /\ UNCHANGED <<clock, turnOf, prompt, markers>>

-----------------------------------------------------------------------------
(* flush_turn: the snapshot is a new buffer that shares the history list   *)
(* and nothing else; an agent without a buffer has no snapshot.            *)
Snapshot(a) ==
  IF a \in known THEN [Nothing EXCEPT !.memory.verbatim = tiers'[a].verbatim]
                 ELSE Nothing

(* compress_scene, when enough NPCs entered or left. *)
Changes(scene) == Cardinality((scene \ present) \union (present \ scene))
Marks(scene) == Changes(scene) >= MinChanges

(* A package with player input: the snapshot, the input in the histories   *)
(* of those in earshot (once each; a name that stands twice among the      *)
(* companions is in EventAccumulator), a scene marker, the prompt.         *)
BeginTurn(scene, hearers) ==
  /\ turnOf = NoTurn /\ scene # NoTurn
  /\ clock + 1 < MaxLines
  /\ known' = known \union hearers
  /\ tiers' = [a \in Agents |-> IF a \in hearers THEN Hears(tiers[a]) ELSE tiers[a]]
  /\ said' = [a \in Agents |-> said[a] \union (IF a \in hearers THEN {This} ELSE {})]
  /\ IF Marks(scene)
       THEN /\ group' = [group EXCEPT !.compressed = Append(@, This + 1)]
            /\ markers' = markers \union {This + 1}
            /\ clock' = This + 1
       ELSE clock' = This /\ UNCHANGED <<group, markers>>
  /\ prompt' = [a \in Agents |-> IF a \in scene THEN Snapshot(a) ELSE Nothing]
  /\ turnOf' = scene
  /\ present' = scene
  /\ UNCHANGED <<task, groupSaid>>

(* record_agent_output. *)
Speak(a) ==
  /\ a \in turnOf
  /\ Record({a}, TRUE)
  /\ UNCHANGED <<task, present, turnOf, prompt, markers>>

(* A SetCurrentTask action of an agent that has a buffer; without a target *)
(* it clears the task.                                                     *)
SetCurrentTask(a, target) ==
  /\ a \in turnOf /\ a \in known
  /\ task' = [task EXCEPT ![a] = target]
  /\ UNCHANGED <<clock, known, tiers, group, present, turnOf, prompt, said,
                 groupSaid, markers>>

Over(s, max) == IF Len(s) > max THEN Len(s) - max ELSE 0
Oldest(s, n) == SubSeq(s, 1, n)
Rest(s, n) == SubSeq(s, n + 1, Len(s))

MutSlideWindowNewest(t) ==         \* the newest keywords go
  LET v == Over(t.verbatim, VerbatimMax)
      older == t.compressed \o Oldest(t.verbatim, v)
      c == Over(older, CompressedMax)
      oldest == t.keywords \o Oldest(older, c)
  IN [verbatim |-> Rest(t.verbatim, v), compressed |-> Rest(older, c),
      keywords |-> Oldest(oldest, Len(oldest) - Over(oldest, KeywordsMax))]

(* slide_window: what a tier holds too much of moves to the next, oldest   *)
(* first; the oldest keywords go.                                          *)
SlideWindow(t) ==
  LET v == Over(t.verbatim, VerbatimMax)
      older == t.compressed \o Oldest(t.verbatim, v)
      c == Over(older, CompressedMax)
      oldest == t.keywords \o Oldest(older, c)
  IN [verbatim |-> Rest(t.verbatim, v), compressed |-> Rest(older, c),
      keywords |-> Rest(oldest, Over(oldest, KeywordsMax))]

(* The end of a turn slides the windows of the active agents, those that   *)
(* have a buffer, and the group's.                                         *)
EndTurn ==
  /\ turnOf # NoTurn
  /\ tiers' = [a \in Agents |-> IF a \in turnOf \intersect known
                                  THEN SlideWindow(tiers[a]) ELSE tiers[a]]
  /\ group' = SlideWindow(group)
  /\ turnOf' = NoTurn
  /\ prompt' = Forgotten(Nothing)
  /\ UNCHANGED <<clock, known, task, present, said, groupSaid, markers>>

(* A turn that raises ends without sliding anything. *)
TurnFails ==
  /\ turnOf # NoTurn
  /\ turnOf' = NoTurn
  /\ prompt' = Forgotten(Nothing)
  /\ UNCHANGED <<clock, known, tiers, task, group, present, said, groupSaid, markers>>

Next ==
  \/ \E scene \in Scenes :
       \/ \E a \in Agents : Register(a, scene) \/ AdoptSpeech(a, scene)
       \/ \E a, b \in Agents : AdoptChat({a, b}, scene)
       \/ \E hearers \in Earshots \union {scene} : BeginTurn(scene, hearers)
  \/ Reset
  \/ \E a \in Agents : Speak(a) \/ \E target \in BOOLEAN : SetCurrentTask(a, target)
  \/ EndTurn
  \/ TurnFails

Spec == Init /\ [][Next]_tierVars

-----------------------------------------------------------------------------
Memory == [verbatim : Seq(Nat), compressed : Seq(Nat), keywords : Seq(Nat)]
Timeline(t) == t.keywords \o t.compressed \o t.verbatim
(* Every variable has its type; what has no buffer has no history.         *)
TypeOK ==
  /\ clock \in 0..MaxLines
  /\ known \subseteq Agents /\ present \subseteq Agents /\ turnOf \subseteq Agents
  /\ tiers \in [Agents -> Memory] /\ group \in Memory
  /\ task \in [Agents -> BOOLEAN]
  /\ prompt \in [Agents -> [memory : Memory, task : BOOLEAN]]
  /\ said \in [Agents -> SUBSET Nat] /\ groupSaid \subseteq Nat
  /\ markers \subseteq 1..MaxLines
  /\ \A a \in Agents \ known : tiers[a] = TieredMemory /\ ~task[a]

(* The tiers of a timeline, oldest to newest, are what it last recorded,   *)
(* with no gap and in order, through turns that fail and agents that leave *)
(* and return (slide_window, "oldest-out").  Scene markers are not looked  *)
(* at: they are filed among older lines.                                   *)
Held(t) == Range(Timeline(t)) \ markers
InOrder(line) ==
  \A j, k \in DOMAIN line : j < k /\ {line[j], line[k]} \intersect markers = {}
    => line[j] < line[k]
HoldsTheLatest(t, record) ==
  /\ InOrder(Timeline(t))
  /\ Held(t) \subseteq record
  /\ \A old \in Held(t), new \in record : old < new => new \in Held(t)
OldestOut == /\ \A a \in Agents : HoldsTheLatest(tiers[a], said[a])
             /\ HoldsTheLatest(group, groupSaid)

(* Nothing is evicted before the keywords are full. *)
FullOrWhole(t, record) == record \subseteq Held(t) \/ Len(t.keywords) = KeywordsMax
EvictsOnlyWhenFull == /\ \A a \in Agents : FullOrWhole(tiers[a], said[a])
                      /\ FullOrWhole(group, groupSaid)

-----------------------------------------------------------------------------
(* What the documentation says, and the code does not do.                  *)

(* Living Doc line 902: the window is re-rendered every turn, "Tier 0 sees *)
(* all three sub-tiers"; prompt_formatter.py lines 555-559 render them.    *)
TierZeroSeesAllTiers ==
  \A a \in turnOf : prompt[a].memory.compressed # <<>> \/ tiers[a].compressed = <<>>

(* prompt_formatter.py line 517, "Active task survives at T1": a prompt    *)
(* shows the task that its agent had set when the turn began.              *)
TaskSurvives ==
  [][\A a \in turnOf' : turnOf = NoTurn /\ task[a] => prompt'[a].task]_tierVars

(* event_accumulator.py line 59, verbatim: "max 8": between turns no       *)
(* history is longer.                                                      *)
VerbatimWithinMax ==
  [][EndTurn => \A a \in Agents : Len(tiers'[a].verbatim) <= VerbatimMax]_tierVars

(* TieredMemory: "Verbatim (newest)", "Compressed (middle)": no line is in *)
(* the compressed tier that is newer than one in the verbatim tier.        *)
TiersByAge ==
  \A c \in Range(group.compressed), v \in Range(group.verbatim) : c < v
=============================================================================
