-------------------------- MODULE EventAccumulator --------------------------
(***************************************************************************)
(* Progeny's event accumulator (progeny/src/event_accumulator.py).         *)
(*                                                                         *)
(* ingest() routes the events of a TickPackage one after the other and     *)
(* returns a TurnContext if one of them was player input.  It runs without *)
(* suspending, under the pipeline lock; here it is BeginPackage, one action *)
(* per event, EndPackage, and nothing else is enabled in between.  After a *)
(* turn the pipeline records the player's input and the agents' answers    *)
(* before it lets the next package in.                                     *)
(*                                                                         *)
(* An event is its arrival number; the text it carries is that number too, *)
(* so an entry of a history says which event it came from.  Arrival order  *)
(* stands for game_ts.                                                     *)
(***************************************************************************)
EXTENDS Integers, Sequences, SequencesExt, FiniteSets

CONSTANTS
  Agents,          \* NPC names
  Scenes,          \* the sets of NPCs a package can report as active
  Places,          \* names a location event can carry
  Unknown,         \* current_location before any location event
  Shapes,          \* the events that can arrive, less their number
  VerbatimMax,     \* VERBATIM_MAX of memory_compression.py: 8
  MaxEvents,       \* bound: events and answers in a behaviour
  MaxPackages      \* bound: packages in a behaviour

Player == "Player"                       \* _NON_AGENT_IDS
NoOne == ""
None == "none"

EventTypes == {"inputtext", "init", "goodnight", "location", "_speech", "chat",
               "addnpc", "info"}

(* What routing looks at: the type, who speaks or owns the event, who is    *)
(* addressed, who overhears, the place a location event names.  Who        *)
(* overhears is a list, as parse_speech leaves it: two guards in earshot   *)
(* are one name in it twice.                                               *)
Shape == [type : EventTypes, who : Agents \union {Player, NoOne},
          to : Agents \union {Player, NoOne}, near : Seq(Agents),
          place : Places \union {Unknown}]

ASSUME AccumulatorAssumption ==
  /\ {Player, NoOne} \intersect Agents = {}
  /\ Unknown \notin Places
  /\ Scenes \subseteq SUBSET Agents
  /\ Shapes \subseteq Shape
  /\ VerbatimMax \in Nat
  /\ MaxEvents \in Nat /\ MaxPackages \in Nat

VARIABLES
  phase,           \* what runs under the pipeline lock, if anything
  sleeps,          \* does the package hold a goodnight?
  packages,        \* packages ingested (bound)
  arrived,         \* history: everything that carried text, in order
  known,           \* the keys of _agent_buffers
  events,          \* per agent: AgentBuffer.events
  dialogue,        \* per agent: AgentBuffer.memory.verbatim
  earshot,         \* per agent: AgentBuffer.earshot_bits, as names
  world,           \* _world_events
  session,         \* _session_events
  location,        \* current_location
  pending,         \* _pending_player_input, an event or 0
  active,          \* _active_npc_ids
  prevActive,      \* _prev_active_npc_ids
  entered,         \* _presence_entered
  exited,          \* _presence_exited
  speech,          \* _speech_earshot
  group,           \* _group_memory.verbatim
  facts,           \* the facts added to the pool, in order
  registered,      \* the NPCs that own a bit in the pool
  turn             \* the TurnContext last returned

(* Histories of what has been handed to turns, for the properties. *)
VARIABLES
  handed,          \* per event: how many turn contexts carried it
  resetAt,         \* the event of the last init or wipe, or 0
  sceneAt,         \* per event: the NPCs active when it arrived
  introduced       \* the NPCs some turn of this session reported as entered

bufferVars == <<known, events, dialogue, earshot>>
sceneVars == <<active, prevActive, entered, exited>>
poolVars == <<facts, registered>>
historyVars == <<handed, resetAt, introduced>>
accVars == <<phase, sleeps, packages, arrived, bufferVars, world, session, location,
             pending, sceneVars, speech, group, poolVars, turn, historyVars,
             sceneAt>>

(* An entry of a timeline: the role and the event whose text it is.        *)
Entry == [role : {"user", "assistant"}, of : Nat]
GroupEntry == [role : Agents, of : Nat]
Fact == [of : Nat, category : {"event", "location", "speech"},
         knowers : SUBSET (Agents \union {Player}), supersededBy : Nat]

NoTurn == [input |-> 0, events |-> [a \in Agents |-> <<>>], world |-> <<>>,
           session |-> <<>>, active |-> {}, entered |-> {}, exited |-> {}]
NoSpeech == [to |-> None, near |-> <<>>]

Init ==
  /\ phase = "idle" /\ sleeps = FALSE /\ packages = 0 /\ arrived = <<>>
  /\ known = {}
  /\ events = [a \in Agents |-> <<>>]
  /\ dialogue = [a \in Agents |-> <<>>]
  /\ earshot = [a \in Agents |-> {}]
  /\ world = <<>> /\ session = <<>>
  /\ location = Unknown
  /\ pending = 0
  /\ active = {} /\ prevActive = {} /\ entered = {} /\ exited = {}
  /\ speech = NoSpeech
  /\ group = <<>>
  /\ facts = <<>> /\ registered = {}
  /\ turn = NoTurn
  /\ handed = <<>> /\ resetAt = 0 /\ introduced = {} /\ sceneAt = <<>>

-----------------------------------------------------------------------------

(* The start of ingest: who entered and left since the last package, the   *)
(* coarse earshot of those in the scene that have a buffer, a bit in the   *)
(* pool for each newcomer to it.                                           *)
BeginPackage(scene) ==
  /\ phase = "idle"
  /\ packages < MaxPackages
  /\ packages' = packages + 1
  /\ phase' = "begun"                 \* Falcon ships no empty package
  /\ sleeps' = FALSE
  /\ entered' = scene \ prevActive
  /\ exited' = prevActive \ scene
  /\ prevActive' = scene
  /\ active' = scene
  /\ earshot' = [a \in Agents |->
                   IF a \in scene \intersect known THEN earshot[a] \union scene
                                                   ELSE earshot[a]]
  /\ registered' = registered \union scene
  /\ UNCHANGED <<arrived, known, events, dialogue, world, session, location,
                 pending, speech, group, facts, turn, historyVars, sceneAt>>

(* The number of the event that arrives now. *)
This == Len(arrived) + 1

When(holds, x) == IF holds THEN <<x>> ELSE <<>>

Arrives(e) ==
  /\ phase \in {"begun", "ingest"}
  /\ Len(arrived) < MaxEvents
  /\ phase' = "ingest"
  /\ sleeps' = (sleeps \/ e.type = "goodnight")
  /\ arrived' = Append(arrived, e)
  /\ handed' = Append(handed, 0)
  /\ sceneAt' = Append(sceneAt, active)
  /\ UNCHANGED <<packages, active, entered, exited, turn>>

(* Player input is kept aside: the last one of the package wins.           *)
HandleInput(e) ==
  /\ e.type = "inputtext"
  /\ Arrives(e)
  /\ pending' = This
  /\ UNCHANGED <<bufferVars, world, session, location, speech, group, poolVars,
                 prevActive, resetAt, introduced>>

MutReset ==                        \* the group's timeline outlives the session
  /\ known' = {}
  /\ events' = [a \in Agents |-> <<>>]
  /\ dialogue' = [a \in Agents |-> <<>>]
  /\ earshot' = [a \in Agents |-> {}]
  /\ world' = <<>>
  /\ location' = Unknown
  /\ speech' = NoSpeech
  /\ prevActive' = {}
  /\ UNCHANGED <<pending, group, poolVars>>

(* _handle_reset: the session's buffers and timelines go; its lifecycle    *)
(* events, a pending input, the active NPCs and the fact pool stay.        *)
Reset ==
  /\ known' = {}
  /\ events' = [a \in Agents |-> <<>>]
  /\ dialogue' = [a \in Agents |-> <<>>]
  /\ earshot' = [a \in Agents |-> {}]
  /\ world' = <<>>
  /\ group' = <<>>
  /\ location' = Unknown
  /\ speech' = NoSpeech
  /\ prevActive' = {}                    \* everyone active enters anew
  /\ UNCHANGED <<pending, poolVars>>

(* init and wipe reset; the other lifecycle events are only kept.          *)
HandleReset(e) ==
  /\ e.type = "init"
  /\ Arrives(e)
  /\ session' = Append(session, This)
  /\ Reset
  /\ resetAt' = This
  /\ introduced' = {}

HandleSession(e) ==
  /\ e.type = "goodnight"
  /\ Arrives(e)
  /\ session' = Append(session, This)
  /\ UNCHANGED <<bufferVars, world, location, pending, speech, group, poolVars,
                 prevActive, resetAt, introduced>>

(* _record_fact: known to the player and everyone present; a speech also   *)
(* to the companions in earshot, as far as they own a bit.                 *)
Category(e) == CASE e.type = "location" -> "location"
                 [] e.type = "_speech" -> "speech"
                 [] OTHER -> "event"
Overhear(e) == IF e.type = "_speech" THEN Range(e.near) ELSE {}
RecordFact(e) ==
  /\ facts' = Append(facts, [of |-> This, category |-> Category(e),
                             knowers |-> {Player} \union active \union Overhear(e),
                             supersededBy |-> 0])
  /\ registered' = registered \union Overhear(e)

HandleLocation(e) ==
  /\ e.type = "location"
  /\ Arrives(e)
  /\ location' = e.place
  /\ world' = Append(world, This)
  /\ RecordFact(e)
  /\ UNCHANGED <<bufferVars, session, pending, speech, group, prevActive,
                 resetAt, introduced>>

(* _extract_agent_ids less the names that are never agents: the speaker    *)
(* and the listener of a dialogue event, the owner of another.  An event    *)
(* enters an agent's buffer once for each of the two that it is.           *)
AgentsOf(e) == {e.who, e.to} \intersect Agents
Routed(e, a) == When(a = e.who, This) \o When(a = e.to, This)

AsSpeaker == [role |-> "assistant", of |-> This]
AsListener == [role |-> "user", of |-> This]

MutAdopted(e, a) ==                \* _speech lines as well
  When(e.type \in {"chat", "_speech"} /\ a = e.who, AsSpeaker)
    \o When(e.type \in {"chat", "_speech"} /\ a = e.to, AsListener)

(* _adopt_dialogue: chat lines enter the histories of both sides.  _speech *)
(* is left to record_npc_speech.                                           *)
Adopted(e, a) ==
  When(e.type = "chat" /\ a = e.who, AsSpeaker)
    \o When(e.type = "chat" /\ a = e.to, AsListener)

(* record_npc_speech: a canned line of an NPC that is active is its own    *)
(* output, in its history and in the group's.                              *)
Speaks(e, a) == e.type = "_speech" /\ a = e.who /\ a \in active
Spoken(e, a) == When(Speaks(e, a), AsSpeaker)

(* _update_earshot: the speaker and the companions hear each other.        *)
EarshotGroup(e) ==
  IF e.type = "_speech" THEN ({e.who} \intersect Agents) \union Range(e.near) ELSE {}

(* Every other event: into the buffers of the agents it is about, or else  *)
(* of the world; then dialogue, earshot and a fact.                        *)
HandleRouted(e) ==
  /\ e.type \in {"_speech", "chat", "addnpc", "info"}
  /\ Arrives(e)
  /\ speech' = IF e.type = "_speech" THEN [to |-> e.to, near |-> e.near] ELSE speech
  /\ known' = known \union AgentsOf(e) \union EarshotGroup(e)
  /\ events' = [a \in Agents |-> events[a] \o Routed(e, a)]
  /\ world' = IF AgentsOf(e) = {} THEN Append(world, This) ELSE world
  /\ earshot' = [a \in Agents |->
                   IF a \in EarshotGroup(e) THEN earshot[a] \union EarshotGroup(e)
                                            ELSE earshot[a]]
  /\ dialogue' = [a \in Agents |-> dialogue[a] \o Adopted(e, a) \o Spoken(e, a)]
  /\ group' = IF \E a \in Agents : Speaks(e, a)
                THEN Append(group, [role |-> e.who, of |-> This]) ELSE group
  /\ RecordFact(e)
  /\ UNCHANGED <<session, location, pending, prevActive, resetAt, introduced>>

(* The end of a package without player input: it only accumulated.         *)
EndDataOnly ==
  /\ phase = "ingest"
  /\ pending = 0
  /\ phase' = "idle"
  /\ UNCHANGED <<sleeps, packages, arrived, bufferVars, world, session, location,
                 pending, sceneVars, speech, group, poolVars, turn, historyVars,
                 sceneAt>>

(* flush_turn: everything accumulated goes into one context. *)
Flushed == [input |-> pending, events |-> events, world |-> world,
            session |-> session, active |-> active, entered |-> entered,
            exited |-> exited]

InBuffers == UNION {Range(events[a]) : a \in Agents}
HeldEvents == InBuffers \union Range(world) \union Range(session)

MutEndTurn ==                      \* the lifecycle events stay
  /\ phase = "ingest"
  /\ pending # 0
  /\ phase' = "turn"
  /\ turn' = Flushed
  /\ events' = [a \in Agents |-> <<>>]
  /\ world' = <<>>
  /\ pending' = 0
  /\ handed' = [i \in DOMAIN handed |->
                  IF i \in HeldEvents THEN handed[i] + 1 ELSE handed[i]]
  /\ introduced' = introduced \union entered
  /\ UNCHANGED <<sleeps, packages, arrived, known, dialogue, earshot, session,
                 location, sceneVars, speech, group, poolVars, resetAt, sceneAt>>

EndTurn ==
  /\ phase = "ingest"
  /\ pending # 0
  /\ phase' = "turn"
  /\ turn' = Flushed
  /\ events' = [a \in Agents |-> <<>>]
  /\ world' = <<>>
  /\ session' = <<>>
  /\ pending' = 0
  /\ handed' = [i \in DOMAIN handed |->
                  IF i \in HeldEvents THEN handed[i] + 1 ELSE handed[i]]
  /\ introduced' = introduced \union entered
  /\ UNCHANGED <<sleeps, packages, arrived, known, dialogue, earshot, location,
                 sceneVars, speech, group, poolVars, resetAt, sceneAt>>

-----------------------------------------------------------------------------
(* A package that holds a goodnight runs the sleep pass instead: the turn  *)
(* that ingest returned is dropped before anything of it is recorded.      *)
SleepThrough ==
  /\ phase = "turn"
  /\ sleeps
  /\ phase' = "idle"
  /\ UNCHANGED <<sleeps, packages, arrived, bufferVars, world, session, location,
                 pending, sceneVars, speech, group, poolVars, turn, historyVars,
                 sceneAt>>

(* record_player_input: to the addressee and the companions of the last    *)
(* _speech event, once for each time they are named there (the addressee   *)
(* once); without one, to every active NPC.                                *)
Times(a, names) == Cardinality({k \in DOMAIN names : names[k] = a})
Copies(a) == CASE speech = NoSpeech -> IF a \in active THEN 1 ELSE 0
               [] speech # NoSpeech -> IF a = speech.to THEN 1 ELSE Times(a, speech.near)
Hearers == {a \in Agents : Copies(a) # 0}
Heard(a) == [k \in 1..Copies(a) |-> [role |-> "user", of |-> turn.input]]
RecordPlayerInput ==
  /\ phase = "turn"
  /\ ~sleeps
  /\ phase' = "answer"
  /\ known' = known \union Hearers
  /\ dialogue' = [a \in Agents |-> dialogue[a] \o Heard(a)]
  /\ UNCHANGED <<sleeps, packages, arrived, events, earshot, world, session,
                 location, pending, sceneVars, speech, group, poolVars, turn,
                 historyVars, sceneAt>>

(* record_agent_output: an agent's utterance of this turn, which is not an *)
(* event of any package.                                                   *)
Utterance(a) == [type |-> "utterance", who |-> a, to |-> NoOne, near |-> <<>>,
                 place |-> Unknown]
RecordAgentOutput(a) ==
  /\ phase = "answer"
  /\ a \in turn.active
  /\ Len(arrived) < MaxEvents
  /\ arrived' = Append(arrived, Utterance(a))
  /\ handed' = Append(handed, 0)
  /\ sceneAt' = Append(sceneAt, active)
  /\ known' = known \union {a}
  /\ dialogue' = [dialogue EXCEPT ![a] = Append(@, AsSpeaker)]
  /\ group' = Append(group, [role |-> a, of |-> This])
  /\ UNCHANGED <<phase, sleeps, packages, events, earshot, world, session, location,
                 pending, sceneVars, speech, poolVars, turn, resetAt, introduced>>

MutSlid(s) ==                      \* the newest lines leave
  IF Len(s) > VerbatimMax THEN SubSeq(s, 1, VerbatimMax) ELSE s

(* slide_window, the verbatim tier: the oldest lines leave it (for the     *)
(* tiers of DialogueTiers).                                                *)
Slid(s) ==
  IF Len(s) > VerbatimMax THEN SubSeq(s, Len(s) - VerbatimMax + 1, Len(s)) ELSE s

(* The end of a turn: the windows of its NPCs and of the group slide.      *)
EndAnswers ==
  /\ phase = "answer"
  /\ phase' = "idle"
  /\ dialogue' = [a \in Agents |->
       IF a \in turn.active \intersect known THEN Slid(dialogue[a]) ELSE dialogue[a]]
  /\ group' = Slid(group)
  /\ UNCHANGED <<sleeps, packages, arrived, known, events, earshot, world, session,
                 location, pending, sceneVars, speech, poolVars, turn,
                 historyVars, sceneAt>>

(* A turn that ends without: no NPC is scheduled, or an exception leaves   *)
(* the handler at any of its awaits.                                       *)
AbandonTurn ==
  /\ phase = "answer"
  /\ phase' = "idle"
  /\ UNCHANGED <<sleeps, packages, arrived, bufferVars, world, session, location,
                 pending, sceneVars, speech, group, poolVars, turn, historyVars,
                 sceneAt>>

HandleEvent(e) == \/ HandleInput(e)
                  \/ HandleReset(e)
                  \/ HandleSession(e)
                  \/ HandleLocation(e)
                  \/ HandleRouted(e)

Next ==
  \/ \E scene \in Scenes : BeginPackage(scene)
  \/ \E e \in Shapes : HandleEvent(e)
  \/ EndDataOnly
  \/ EndTurn
  \/ SleepThrough
  \/ RecordPlayerInput
  \/ \E a \in Agents : RecordAgentOutput(a)
  \/ EndAnswers
  \/ AbandonTurn

Spec == Init /\ [][Next]_accVars

-----------------------------------------------------------------------------
Turn == [input : Nat, events : [Agents -> Seq(Nat)], world : Seq(Nat),
         session : Seq(Nat), active : SUBSET Agents, entered : SUBSET Agents,
         exited : SUBSET Agents]

(* What can be in the history: the events of the packages, and answers.    *)
Happening == Shapes \union {Utterance(a) : a \in Agents}

TypeOK ==
  /\ arrived \in Seq(Happening)
  /\ phase \in {"idle", "begun", "ingest", "turn", "answer"}
  /\ sleeps \in BOOLEAN
  /\ packages \in Nat
  /\ known \subseteq Agents
  /\ events \in [Agents -> Seq(Nat)]
  /\ dialogue \in [Agents -> Seq(Entry)]
  /\ earshot \in [Agents -> SUBSET Agents]
  /\ world \in Seq(Nat) /\ session \in Seq(Nat)
  /\ location \in Places \union {Unknown}
  /\ pending \in Nat
  /\ active \subseteq Agents /\ prevActive \subseteq Agents
  /\ entered \subseteq Agents /\ exited \subseteq Agents
  /\ speech \in [to : Agents \union {Player, NoOne, None}, near : Seq(Agents)]
  /\ group \in Seq(GroupEntry)
  /\ facts \in Seq(Fact) /\ registered \subseteq Agents
  /\ turn \in Turn
  /\ handed \in Seq(Nat) /\ resetAt \in Nat
  /\ sceneAt \in Seq(SUBSET Agents) /\ introduced \subseteq Agents

(* The events that are accumulated for a turn: all but player input, which *)
(* is the turn's trigger, and the utterances, which are not events.        *)
Accumulated(i) == arrived[i].type \notin {"inputtext", "utterance"}

(* No event is lost, shown in two turns, or shown and kept: since the last *)
(* reset each is either still held or was carried by one turn context,     *)
(* however packages and turns interleave; before it, at most one context   *)
(* carried it and nothing but the lifecycle events is still held           *)
(* (ingest's routing, flush_turn's clearing, _handle_reset).               *)
EachEventInOneTurn ==
  \A i \in DOMAIN arrived : Accumulated(i) =>
    LET held == IF i \in HeldEvents THEN 1 ELSE 0 IN
      IF i >= resetAt \/ arrived[i].type \in {"init", "goodnight"}
        THEN held + handed[i] = 1
        ELSE held = 0 /\ handed[i] <= 1

(* Nothing said before a reset can reach a prompt after it: the private    *)
(* and shared timelines, the place and the earshot context are of this     *)
(* session.  The player's own input is exempt: pending survives            *)
(* _handle_reset, so a package "input, init" yields a turn.                *)
ResetForgetsTheSession ==
  /\ \A a \in Agents : \A x \in Range(dialogue[a]) :
       x.of > resetAt \/ arrived[x.of].type = "inputtext"
  /\ \A x \in Range(group) : x.of > resetAt
  /\ location # Unknown =>
       \E i \in (resetAt + 1)..Len(arrived) :
          arrived[i].type = "location" /\ arrived[i].place = location
  /\ speech # NoSpeech =>
       \E i \in (resetAt + 1)..Len(arrived) :
          /\ arrived[i].type = "_speech"
          /\ arrived[i].to = speech.to /\ arrived[i].near = speech.near

(* A memory holds a line twice in one role only where one input was       *)
(* recorded for two companions of one name, and then the copies stand      *)
(* together: chat is adopted by _adopt_dialogue alone, _speech by          *)
(* record_npc_speech alone, and no input is recorded by two turns.         *)
Repeated(history) ==
  {x \in Range(history) :
     \E j, k \in DOMAIN history : j # k /\ history[j] = x /\ history[k] = x}
Together(history) ==
  \A j, k \in DOMAIN history :
    history[j] = history[k] => \A l \in j..k : history[l] = history[j]
NamedTwice(a) ==
  \E m \in (resetAt + 1)..Len(arrived) :
    /\ arrived[m].type = "_speech"
    /\ arrived[m].to # a
    /\ Times(a, arrived[m].near) > 1
RepeatedOnlyIfNamedTwice ==
  \A a \in Agents :
    /\ Together(dialogue[a])
    /\ \A x \in Repeated(dialogue[a]) :
         arrived[x.of].type = "inputtext" /\ NamedTwice(a)

(* The shared timeline and the private ones tell the same story of what an *)
(* NPC said in this session, chat lines aside: each holds the latest of it *)
(* without a gap and in order (so one of them holds all that the other     *)
(* does), and neither has dropped a line unless its window was full        *)
(* (record_npc_speech, record_agent_output, _handle_reset and the          *)
(* slide_window of each, over turns that are dropped or abandoned).        *)
SaidBy(a) ==
  {i \in (resetAt + 1)..Len(arrived) :
     /\ arrived[i].who = a
     /\ \/ arrived[i].type = "utterance"
        \/ arrived[i].type = "_speech" /\ a \in sceneAt[i]}
SaidToGroup(a) == {x.of : x \in {y \in Range(group) : y.role = a}}
RememberedSaying(a) ==
  {x.of : x \in {y \in Range(dialogue[a]) :
                   y.role = "assistant" /\ arrived[y.of].type # "chat"}}
Latest(held, said) ==
  held \subseteq said /\ \A i \in held : \A j \in said : j > i => j \in held
GroupInOrder ==
  \A j, k \in DOMAIN group : j < k => group[j].of < group[k].of
SaidInOrder(history) ==
  \A j, k \in DOMAIN history :
    /\ j < k /\ history[j].role = "assistant" /\ history[k].role = "assistant"
    => history[j].of < history[k].of
TimelinesAgree ==
  /\ \A a \in Agents : /\ Latest(SaidToGroup(a), SaidBy(a))
                       /\ Latest(RememberedSaying(a), SaidBy(a))
  /\ \A a \in Agents : \/ SaidToGroup(a) = SaidBy(a)
                       \/ Len(group) >= VerbatimMax
  /\ \A a \in Agents : \/ RememberedSaying(a) = SaidBy(a)
                       \/ Len(dialogue[a]) >= VerbatimMax
  /\ GroupInOrder
  /\ \A a \in Agents : SaidInOrder(dialogue[a])

(* Whoever has a memory, a buffered event or an earshot bit has a buffer:  *)
(* the lookups of flush_turn, slide_window and the schedule go through the *)
(* keys of _agent_buffers and would otherwise pass it over.                *)
NothingOutsideTheBuffers ==
  \A a \in Agents \ known :
    events[a] = <<>> /\ dialogue[a] = <<>> /\ earshot[a] = {}

(* What is held, remembered or shared has arrived, and a lifecycle event is *)
(* in the list that a reset spares if and only if it is held.              *)
Lifecycle == {"init", "goodnight"}
OnlyWhatArrived ==
  /\ Len(handed) = Len(arrived) /\ Len(sceneAt) = Len(arrived)
  /\ resetAt <= Len(arrived)
  /\ HeldEvents \subseteq DOMAIN arrived
  /\ \A a \in Agents : \A x \in Range(dialogue[a]) : x.of \in DOMAIN arrived
  /\ \A x \in Range(group) : x.of \in DOMAIN arrived
  /\ \A i \in Range(session) : arrived[i].type \in Lifecycle
  /\ \A i \in InBuffers \union Range(world) :
       Accumulated(i) /\ arrived[i].type \notin Lifecycle

(* The player's input is in no memory before its turn records it, and no   *)
(* second one is pending while a turn has yet to.                          *)
Unrecorded(i) ==
  /\ i \in DOMAIN arrived /\ arrived[i].type = "inputtext"
  /\ \A a \in Agents : \A x \in Range(dialogue[a]) : x.of # i
InputIsNew ==
  /\ pending # 0 => Unrecorded(pending)
  /\ phase = "turn" => Unrecorded(turn.input) /\ pending = 0

(* What every state of the accumulator satisfies: types, no buffer missing *)
(* for what is held, no line twice in a memory but for namesakes, and      *)
(* nothing held, remembered or pending that should not be.                 *)
BuffersInvariant ==
  /\ TypeOK
  /\ NothingOutsideTheBuffers
  /\ RepeatedOnlyIfNamedTwice
  /\ OnlyWhatArrived
  /\ InputIsNew

-----------------------------------------------------------------------------
(* What the documentation says, and the code does not do.                  *)

(* PresenceChanges: "when an NPC enters, existing agents fire              *)
(* referent-filtered retrieval against the newcomer's ID": so every NPC a  *)
(* turn finds active has been reported as entered to a turn of the         *)
(* session.  ingest recomputes the changes on every package, also on those *)
(* that are no turn.                                                       *)
NewcomersReachATurn ==
  phase = "turn" => turn.active \subseteq introduced

(* record_player_input: "Each NPC that heard the player gets a private      *)
(* entry": an input is one line of a memory.  The companions come as the   *)
(* game lists them, and two of one name are two entries for that name.     *)
HeardOnce == \A a \in Agents : IsInjective(dialogue[a])

(* record_player_input: "NPCs outside earshot get nothing": an NPC that    *)
(* remembers an input was active when it came in, or was addressed or near *)
(* in a _speech event since the input before it.  _speech_earshot is never *)
(* cleared after a turn.                                                   *)
HeardInEarshot ==
  \A a \in Agents : \A k \in DOMAIN dialogue[a] :
    LET i == dialogue[a][k].of IN
      arrived[i].type = "inputtext" =>
        \/ a \in sceneAt[i]
        \/ \E j \in 1..i :
             /\ arrived[j].type = "_speech"
             /\ a = arrived[j].to \/ a \in Range(arrived[j].near)
             /\ \A m \in j..(i - 1) : arrived[m].type # "inputtext"

(* _record_fact: "Location events supersede the previous location fact".   *)
LocationSuperseded ==
  \A j, k \in DOMAIN facts :
    (j < k /\ facts[j].category = "location" /\ facts[k].category = "location")
      => facts[j].supersededBy # 0
=============================================================================
