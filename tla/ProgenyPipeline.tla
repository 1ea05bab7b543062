-------------------------- MODULE ProgenyPipeline --------------------------
(***************************************************************************)
(* Progeny's turn pipeline (progeny/api/routes.py): one task per tick      *)
(* frame, the pipeline lock they queue for, the stages of a turn between   *)
(* two suspensions, the reminding queue that carries recalled memories     *)
(* from one turn's retrieval to the next turn's prompt, and the answers on *)
(* the WebSocket a tick came in on.                                        *)
(*                                                                         *)
(* The affect of the agents, the texts and what Qdrant stores are left     *)
(* out; what a retrieval finds is a choice.  A step is the code of one     *)
(* task from one await to the next; awaits of a stage that only repeat the *)
(* same call for other agents are one.                                     *)
(***************************************************************************)
EXTENDS Integers, Sequences, SequencesExt

CONSTANTS
  Npcs,            \* agents
  Kinds,           \* the packages that can arrive, less their connection
  MaxTicks,        \* bound: tick frames
  MaxConns,        \* bound: WebSocket connections
  Crashes,         \* may a stage raise what nothing in it catches?
  LinkDrops        \* may a connection end?

ASSUME PipelineAssumption ==
  /\ Kinds \subseteq [turn : BOOLEAN, sleep : BOOLEAN, scene : SUBSET Npcs, conn : {0}]
  /\ MaxTicks \in Nat /\ MaxConns \in Nat \ {0}
  /\ Crashes \in BOOLEAN /\ LinkDrops \in BOOLEAN

Ticks == 1..MaxTicks
NoTick == 0

(* What ingest looks at in a package, and the connection it came on. *)
Package == [turn : BOOLEAN, sleep : BOOLEAN, scene : SUBSET Npcs, conn : Nat]
NoPackage == [turn |-> FALSE, sleep |-> FALSE, scene |-> {}, conn |-> 0]

(* A recalled memory: the turn that retrieved it, and what retrieved it.   *)
Reminding == [turn : Ticks, source : {"recognition", "social", "retrieval", "goal"}]
Nothing == [a \in Npcs |-> {}]

(* The stages at which a task that holds the lock can be suspended. *)
TurnStages == {"bootstrap", "recognise", "valence", "write", "retrieve",
               "dispatch", "record"}
Stages == TurnStages \union {"sleep"}
Ends == {"acked", "responded", "dropped", "failed"}

VARIABLES
  open,            \* the connections whose receive loop runs
  conns,           \* connections accepted so far
  pc,              \* where the task of each tick is
  pkg,             \* what each tick carries, until its task ends
  waiters,         \* _pipeline_lock's waiters, first come first
  holder,          \* the tick whose task holds _pipeline_lock
  prevScene,       \* the accumulator's _prev_active_npc_ids
  entered,         \* presence_changes.entered of the current package
  reminding,       \* _reminding_queue: agent -> its bundle
  bundles,         \* memory_bundles of the turn in progress
  turns,           \* history: the turns begun, in order
  shown,           \* history: what the prompts of the turn in progress contain
  answers          \* history: the frames sent, in order

lockVars == <<waiters, holder>>
turnVars == <<prevScene, entered, reminding, bundles>>
historyVars == <<turns, shown>>
vars == <<open, conns, pc, pkg, lockVars, turnVars, historyVars, answers>>

Init ==
  /\ open = {1} /\ conns = 1
  /\ pc = [t \in Ticks |-> "unsent"]
  /\ pkg = [t \in Ticks |-> NoPackage]
  /\ waiters = <<>> /\ holder = NoTick
  /\ prevScene = {} /\ entered = {}
  /\ reminding = Nothing /\ bundles = Nothing
  /\ turns = <<>> /\ shown = {}
  /\ answers = <<>>

-----------------------------------------------------------------------------
(* ws_channel: a connection is accepted; a receive loop ends, its tasks go *)
(* on.                                                                     *)
Accept ==
  /\ conns < MaxConns
  /\ conns' = conns + 1
  /\ open' = open \union {conns + 1}
  /\ UNCHANGED <<pc, pkg, lockVars, turnVars, historyVars, answers>>

Disconnect(c) ==
  /\ LinkDrops
  /\ c \in open
  /\ open' = open \ {c}
  /\ UNCHANGED <<conns, pc, pkg, lockVars, turnVars, historyVars, answers>>

MutReceiveTick(t, c, p) ==         \* the latest tick first
  /\ c \in open
  /\ pc[t] = "unsent"
  /\ \A u \in 1..(t - 1) : pc[u] # "unsent"
  /\ pkg' = [pkg EXCEPT ![t] = [p EXCEPT !.conn = c]]
  /\ pc' = [pc EXCEPT ![t] = "queued"]
  /\ waiters' = <<t>> \o waiters
  /\ UNCHANGED <<open, conns, holder, turnVars, historyVars, answers>>

(* A tick frame: create_task, and the task runs up to the lock's queue.    *)
ReceiveTick(t, c, p) ==
  /\ c \in open
  /\ pc[t] = "unsent"
  /\ \A u \in 1..(t - 1) : pc[u] # "unsent"         \* frames are numbered
  /\ pkg' = [pkg EXCEPT ![t] = [p EXCEPT !.conn = c]]
  /\ pc' = [pc EXCEPT ![t] = "queued"]
  /\ waiters' = Append(waiters, t)
  /\ UNCHANGED <<open, conns, holder, turnVars, historyVars, answers>>

(* The task is over, and what was local to it is gone. *)
TaskEnds(t, end) ==
  /\ pc' = [pc EXCEPT ![t] = end]
  /\ pkg' = [pkg EXCEPT ![t] = NoPackage]
  /\ bundles' = Nothing /\ shown' = {}

(* The result goes out on the tick's own socket as soon as the lock is     *)
(* released; on a closed one the send raises and is dropped.               *)
Answer(t, kind) ==
  /\ holder' = NoTick
  /\ IF pkg[t].conn \in open
       THEN /\ answers' = Append(answers, [tick |-> t, conn |-> pkg[t].conn])
            /\ TaskEnds(t, kind)
       ELSE TaskEnds(t, "dropped") /\ UNCHANGED answers

(* A turn takes over what the turns before it recalled, and clears the queue. *)
MutTakeRemindings == bundles' = reminding /\ UNCHANGED reminding
TakeRemindings == bundles' = reminding /\ reminding' = Nothing

(* The first waiter gets the lock and accumulates its package.  A goodnight *)
(* goes to sleep-time reconsolidation, turn or not; a package without      *)
(* player input is acknowledged; a turn takes over last turn's remindings. *)
Acquire(t) ==
  /\ holder = NoTick
  /\ waiters # <<>> /\ t = Head(waiters)
  /\ waiters' = Tail(waiters)
  /\ entered' = pkg[t].scene \ prevScene
  /\ prevScene' = pkg[t].scene
  /\ IF pkg[t].sleep
       THEN /\ holder' = t
            /\ pc' = [pc EXCEPT ![t] = "sleep"]
            /\ UNCHANGED <<pkg, answers, reminding, bundles, turns, shown>>
     ELSE IF ~pkg[t].turn
       THEN /\ Answer(t, "acked")
            /\ UNCHANGED <<reminding, turns>>
       ELSE /\ holder' = t
            /\ pc' = [pc EXCEPT ![t] = "bootstrap"]
            /\ TakeRemindings
            /\ turns' = Append(turns, t)
            /\ UNCHANGED <<pkg, answers, shown>>
  /\ UNCHANGED <<open, conns>>

Goes(t, from, to) ==
  /\ holder = t
  /\ pc[t] = from
  /\ pc' = [pc EXCEPT ![t] = to]
  /\ UNCHANGED <<open, conns, pkg, lockVars, prevScene, entered, turns, answers>>

(* _run_sleep_reconsolidation ends, whatever happened in it. *)
WakeUp(t) ==
  /\ holder = t /\ pc[t] = "sleep"
  /\ Answer(t, "acked")
  /\ UNCHANGED <<open, conns, waiters, prevScene, entered, reminding, turns>>

(* identities, inbound affect, scene compression *)
Bootstrap(t) ==
  /\ Goes(t, "bootstrap", IF entered # {} THEN "recognise" ELSE "write")
  /\ UNCHANGED <<reminding, bundles, shown>>

Existing(t) == pkg[t].scene \ entered

(* Merged into what is queued for them.  The turn of a reminding is a mark *)
(* for the properties; the code keeps the bundle alone.                    *)
Queue(t, hit, source) ==
  reminding' = [a \in Npcs |-> IF a \in hit
                  THEN reminding[a] \union {[turn |-> t, source |-> source]}
                  ELSE reminding[a]]

(* _fire_recognition_retrieval: those who were there recall something of a *)
(* newcomer, or not; merged into what is queued for them.                  *)
Recognise(t, hit) ==
  /\ hit \subseteq Existing(t)
  /\ Goes(t, "recognise", "valence")
  /\ Queue(t, hit, "recognition")
  /\ UNCHANGED <<bundles, shown>>

(* _condition_approach_by_valence: the same for what bears on approach *)
Valence(t, hit) ==
  /\ hit \subseteq Existing(t)
  /\ Goes(t, "valence", "write")
  /\ Queue(t, hit, "social")
  /\ UNCHANGED <<bundles, shown>>

(* RAW writes (failures are caught), goal priming of some agents, then the *)
(* roster: without agents the turn ends here with an empty response.       *)
WriteAndPrime(t, goals) ==
  /\ goals \subseteq pkg[t].scene
  /\ IF pkg[t].scene = {}
       THEN /\ holder = t /\ pc[t] = "write"
            /\ Answer(t, "responded")
            /\ UNCHANGED <<open, conns, waiters, prevScene, entered, turns>>
       ELSE /\ Goes(t, "write", "retrieve")
            /\ bundles' = [a \in Npcs |-> IF a \in goals
                   THEN bundles[a] \union {[turn |-> t, source |-> "goal"]}
                   ELSE bundles[a]]
            /\ UNCHANGED shown
  /\ UNCHANGED reminding

(* Retrieval for the agents of the roster, one after the other: an error   *)
(* ends it after some of them.  Each gets its entry of the queue.          *)
Retrieve(t, done) ==
  /\ done \subseteq pkg[t].scene
  /\ Goes(t, "retrieve", "dispatch")
  /\ reminding' = [a \in Npcs |-> IF a \in done
                     THEN {[turn |-> t, source |-> "retrieval"]}
                     ELSE reminding[a]]
  /\ UNCHANGED <<bundles, shown>>

(* The prompts of all groups are built from this turn's bundles; gather    *)
(* waits for the slowest; a group whose LLM call fails answers empty.      *)
Dispatch(t) ==
  /\ Goes(t, "dispatch", "record")
  /\ shown' = UNION {{[agent |-> a, turn |-> t, what |-> r] : r \in bundles[a]} :
                       a \in pkg[t].scene}
  /\ UNCHANGED <<reminding, bundles>>

(* Outputs, disclosures, second pass, compression, event log: the response *)
Respond(t) ==
  /\ holder = t /\ pc[t] = "record"
  /\ Answer(t, "responded")
  /\ UNCHANGED <<open, conns, waiters, prevScene, entered, reminding, turns>>

MutFail(t) ==                      \* no finally: the lock stays taken
  /\ Crashes
  /\ holder = t /\ pc[t] \in TurnStages
  /\ TaskEnds(t, "failed")
  /\ UNCHANGED <<open, conns, lockVars, prevScene, entered, reminding, turns, answers>>

(* An exception no stage catches: the lock is released, nothing is sent.   *)
Fail(t) ==
  /\ Crashes
  /\ holder = t /\ pc[t] \in TurnStages
  /\ holder' = NoTick
  /\ TaskEnds(t, "failed")
  /\ UNCHANGED <<open, conns, waiters, prevScene, entered, reminding, turns, answers>>

Stage(t) ==
  \/ Acquire(t)
  \/ WakeUp(t)
  \/ Bootstrap(t)
  \/ \E hit \in SUBSET Npcs : Recognise(t, hit)
  \/ \E hit \in SUBSET Npcs : Valence(t, hit)
  \/ \E goals \in SUBSET Npcs : WriteAndPrime(t, goals)
  \/ \E done \in SUBSET Npcs : Retrieve(t, done)
  \/ Dispatch(t)
  \/ Respond(t)

Next ==
  \/ Accept
  \/ \E c \in open : Disconnect(c)
  \/ \E t \in Ticks, c \in open, p \in Kinds : ReceiveTick(t, c, p)
  \/ \E t \in Ticks : Stage(t)
  \/ \E t \in Ticks : Fail(t)

Spec == Init /\ [][Next]_vars

(* Every await of a stage has a timeout or fails: HTTP clients' timeouts,  *)
(* and a loop that runs every ready task.                                  *)
FairSpec == Spec /\ \A t \in Ticks : WF_vars(Stage(t))

-----------------------------------------------------------------------------
TypeOK ==
  /\ open \subseteq 1..conns /\ conns \in Nat
  /\ pc \in [Ticks -> {"unsent", "queued"} \union Stages \union Ends]
  /\ pkg \in [Ticks -> Package]
  /\ waiters \in Seq(Ticks) /\ holder \in Ticks \union {NoTick}
  /\ prevScene \subseteq Npcs /\ entered \subseteq Npcs
  /\ reminding \in [Npcs -> SUBSET Reminding]
  /\ bundles \in [Npcs -> SUBSET Reminding]
  /\ turns \in Seq(Ticks)
  /\ shown \subseteq [agent : Npcs, turn : Ticks, what : Reminding]
  /\ answers \in Seq([tick : Ticks, conn : Nat])

(* Ticks never race through the shared state: a task between two stages is *)
(* the lock's holder, so there is one at most; and whoever holds the lock  *)
(* is at work, also after an exception (async with _pipeline_lock).        *)
SerialTurns == \A t \in Ticks : pc[t] \in Stages <=> holder = t

(* Answers on one connection come in the order of its ticks, however many  *)
(* tasks queue, fail or outlive their socket: Falcon matches answers to    *)
(* its waiting handlers by order alone.                                    *)
AnswersInOrder ==
  \A i, j \in DOMAIN answers :
    (i < j /\ answers[i].conn = answers[j].conn) => answers[i].tick < answers[j].tick

(* The turn before t, for a turn that is not the first. *)
Before(t) == {turns[i] : i \in {k \in 1..(Len(turns) - 1) : turns[k + 1] = t}}

(* The anti-recursion guard: a prompt recalls nothing that was retrieved   *)
(* in its own turn, and nothing older than the turn before, whether turns  *)
(* failed, slept or were data-only in between.  (Goal statements surface   *)
(* in their own turn on purpose.)                                          *)
RemindedByTheTurnBefore ==
  \A s \in shown : s.what.source # "goal" => s.what.turn \in Before(s.turn)

(* The lock is always handed on: a tick that waits for it is settled,      *)
(* whatever the turns before it ran into.                                  *)
EveryTickSettles ==
  \A t \in Ticks : (pc[t] = "queued") ~> (pc[t] \in Ends)

-----------------------------------------------------------------------------
(* What the documentation says, and the code does not do.                  *)

(* _fire_recognition_retrieval: "Results go into _reminding_queue (one-tick *)
(* delay)", "the recognition surfaces on the next prompt": what is queued  *)
(* on a presence change stays until a turn takes it over.  The retrieval   *)
(* of the same turn assigns the agent's entry anew.                        *)
RecognitionSurfaces ==
  [][\A a \in Npcs : \A r \in reminding[a] :
       r.source \in {"recognition", "social"}
         => r \in reminding'[a] \union bundles'[a]]_vars

(* routes.py on goodnight, "Independent of the turn pipeline": a task with *)
(* player input does not end in an acknowledgement.                        *)
TurnsAreAnswered ==
  [][\A t \in Ticks : pkg[t].turn => pc'[t] # "acked"]_vars
=============================================================================
