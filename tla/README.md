# Many Mind Kernel: verification

TLA+ models of the Many Mind Kernel (Skyrim's NPCs as agents of language models), model-checked
with TLC and, where marked, proved with TLAPS. The models are translated from the code under
`src/`; file and line numbers in this text and in the modules' comments refer to it. `PROJECT.json`
maps every definition to the lines it stands for.

## 1. The system

Two services. **Falcon** talks to the game over HTTP, packs events into tick packages and sends them
over one WebSocket. **Progeny** takes the packages, decides which are turns, builds prompts out of its
memories and facts, calls the language model and sends the answers back over the same WebSocket.
Both are single asyncio processes: what runs between two awaits is atomic, and everything else may
interleave. Progeny serialises its turns with one lock.

```
 game --HTTP--> relay --push--> tick accumulator --package--> link ==ws==> pipeline --ingest--> event accumulator --> fact pool
   ^              |  ^                                          |             |  |                    |
   '--response----'  '------------- turn response --------------'             |  '-> scheduler, goals, recall, valence, prompts, LLM
                                                                               '-> acquaintance, disclosure, kernels; Qdrant
```

| component (source) | state it keeps | operations | what makes it correct |
|---|---|---|---|
| tick accumulator (`falcon/src/tick_accumulator.py`) | buffer, NPC registry, voice types, time of the last package | push, clear_npcs, register_voicetype, the loop, force_tick, stop | every event leaves once and in order; the registry follows the resets; the interval of a package covers its events |
| link (`falcon/src/progeny_protocol.py`) | `_ws`, receive task, reconnect task, `_closing` | connect, send_tick, receive loop, reconnect with backoff, close | a lost connection comes back; somebody is always responsible for it; it listens where it talks |
| relay (`falcon/api/routes.py`) | response queue (bounded), `_response_ready` event, held requests | stream request, poll, just_say, typed input, tick loop, turn callback | a text is spoken once; held requests are released by turns and by nothing else |
| turn pipeline (`progeny/api/routes.py`) | the pipeline lock, reminding queue, presence of the last turn, tasks | WebSocket channel, ingest, the stages of a turn, goodnight | turns are serial; every tick is settled, whatever fails; answers keep their order; memories surface one turn after they were recalled |
| event accumulator (`progeny/src/event_accumulator.py`) | agent buffers, shared timeline, presence, earshot, place, pending input | ingest of every kind of event, flush_turn, recording of what is said, reset | each event is shown to one turn; a reset forgets the session; private and shared timelines agree |
| fact pool (`progeny/src/fact_pool.py`) | bit index of names, facts with knower masks, category lists | add, lore, identity, propagate, supersede, queries | a bit names one character for good; no belief vanishes; nobody forgets |
| acquaintance, disclosure, kernels (`acquaintance.py`, `disclosure.py`, `identity_kernel.py`) | stranger ledger, identity cache; beliefs in the pool; memories in Qdrant | recognition of newcomers, introductions in four steps, restart | who was introduced stays known |
| goal lifecycle (`goal_lifecycle.py`) | a runtime per goal | update_lifecycle | commitment is earned; alternatives of one parent exclude each other; nothing is latched |
| scheduler (`agent_scheduler.py`) | turn counter, ticks since the last action | schedule, plan_dispatch, record_action | nobody waits longer than its cadence; the LLM calls partition the roster |
| retrieval and compression (`memory_retrieval.py`, `compression.py`, `memory_writer.py`, `qdrant_client.py`) | points in Qdrant | write, summarise an arc, retrieve and expand | a bundle repeats nothing and loses no anchor |
| reconsolidation (`memory_reconsolidation.py`) | RECON points in Qdrant | the goodnight pass | versions form a chain of bounded steps |
| prompts and answers (`prompt_formatter.py`, `llm_client.py`, `response_expander.py`, steps 2 to 5 of the route) | none that lasts; the calls under way | build_prompt, generate with retries, expand_response, merge | an answered turn answers its roster; nothing leaks from one call or turn into another; prompts shrink with distance and urgency |
| valence and social goals (`valence.py`, `social_goals.py`, `goal_priming.py`) | individual priors, snapshots of valence; the goal's runtime is the lifecycle's | reading at a newcomer's entrance, blending, priming of the get-acquainted goal | a feeling rests on memories; nobody is approached who is not a stranger and there |
| dialogue tiers (`memory_compressor.py`, `compression.py`) | three tiers per agent, and for the group | append, slide, scene marker, snapshot for the prompt | the tiers are the recent history without a gap |
| goal pool, emotional deltas | vectors in floating point | similarity | section 8 |
| parsing, wire format, speech, schemas, configuration, servers, scripts | none that lasts, but for the voice model that speech believes loaded | text in, text out | section 8 |

How they interact: within a process by calls (the relay pushes into the accumulator, whose loop calls
back into the link; the pipeline calls everything in Progeny in a fixed order under its lock), between
the processes by frames on the WebSocket, with Qdrant and the language model by calls that are awaited
and may fail. Nothing but Qdrant survives a restart.

What is hard about it: in Falcon, tasks that interleave at awaits (two firers of the accumulator, old
and new receive loops, handlers that share one event and one queue, cancellation in `close`), lost
connections and clients that time out. In Progeny, failures half way through a turn, one-turn delays
between what is computed and what is shown, packages that are no turns, resets in the middle of a
package, a restart that forgets half of the state, lost writes and reads that look like empty answers,
several LLM calls at once whose answers come in any order or never, calls that outlive their turn,
and pure algorithms with many interacting cases (supersession, hysteresis, expansion of a bundle).
`PROJECT.json` lists these hazards at their lines.

## 2. Modules

Every component has a module with its state, one action per handler or step, and its properties. An
`MC` module and a `.cfg` give the instance that TLC checks; a `...Proofs` module has the theorems.
`Mut...` operators are plausible bugs that the properties must catch; nothing uses them otherwise.

| module | models | instance |
|---|---|---|
| `EventFeed` | what an accumulator promises: what is produced is delivered once and in order | the abstract specification of the next |
| `TickAccumulator` | the accumulator; `ImplementsFeed` is its refinement mapping (`produced <- pushed`, `delivered <- shipped`) | `MCTickAccumulator` |
| `ProgenyLink` | the WebSocket client; Progeny and the network are external actions | `MCProgenyLink` |
| `FalconRelay` | requests, polls, response queue and callback; uses the accumulator by its promise and takes Progeny as an external party | `MCFalconRelay` |
| `EventAccumulator` | ingest event by event, turns, resets, timelines | `MCEventAccumulator` |
| `FactPool` | bit index, facts, queries, with the introductions' deterministic ids | `MCProgenyParts` |
| `ProgenyPipeline` | the tasks of ticks, the lock, the stages with their failures, reminding queue, answers | `MCProgenyPipeline` |
| `Acquaintance` | composes Falcon's registry and packages with Progeny's beliefs, ledger, kernels, memories and introductions | `MCAcquaintance` |
| `TurnDispatch` | extends `AgentScheduler`: a turn's calls to the LLM with retries, failures and replies of every shape, the merged answer, the roles and the shape of the prompts | `MCTurnDispatch` |
| `SocialApproach` | one NPC's memories with their upserts (an introduction that is told again replaces its point), its valence toward newcomers, its ledger of strangers and its get-acquainted goal, whose transitions are `GoalLifecycle`'s (`INSTANCE`) | `MCSocialApproach` |
| `DialogueTiers` | the window over every timeline and the snapshot a prompt sees | `MCProgenyParts` |
| `AgentScheduler`, `GoalLifecycle`, `MemoryRecall`, `Reconsolidation` | who is asked, one agent's goals, recall, the nights | `MCProgenyParts` |
| `ProgenyParts` | extends `FactPool` and instantiates the four above and `DialogueTiers`: a behaviour is that of one part, and the properties of the `parts` run are stated here | `MCProgenyParts` |
| `FalconProofs` (of `TickAccumulator`, `ProgenyLink` and `FalconRelay`), `ProgenyPipelineProofs`, `EventAccumulatorProofs`, `AcquaintanceProofs`, `SocialApproachProofs`, `AgentSchedulerProofs`, `TurnDispatchProofs`, `ProgenyPartsProofs` | theorems | |

Correspondence with the code. A variable has the name of the attribute or global it stands for, in
camel case, or a comment that names it; variables marked *history* are not in the code and record what
a property needs to remember. An action is the code of one task between two awaits (Falcon, pipeline)
or one call (the rest). The data are abstracted to what properties tell apart: a text is the number of
the event it came from, an NPC set or a line's moment; a vector of emotions is a position on a line; a
ranking by scores is any order; a bit vector is the set of its positions.

Assumptions on the constants are the `ASSUME`s of the modules, and of `ProgenyParts` for its parts; TLC evaluates each.

## 3. Runs

| run | asks | bounds, and why they are enough |
|---|---|---|
| `accumulator` | `NothingLostNothingTwice`, `RegistrySinceReset`, `IntervalCoversEvents`, `EverythingShipped`, `ImplementsFeed` | three events, two NPC names, a loop and one stream handler: both may be in their callbacks at once with an event arriving in between, which is the most that can overlap; a clock of two values separates "before" from "after" |
| `link` | `LinkInvariant`, `NeverStranded`, `ListensWhereItTalks`, `LinkRecovers` | five connections, two losses, one refusal, two ticks: an old loop, a new loop and a reconnect task at once, with a loss in each of their phases |
| `relay` | `RelayInvariant`, `SpokenOnce`, `OnlyATurnReleases` | two stream requests, one typed input, one line to say, a queue of two: two handlers race for a signal, and the queue overflows; the receive loops of two connections may be in their callbacks at once |
| `events` | `BuffersInvariant`, `EachEventInOneTurn`, `ResetForgetsTheSession`, `TimelinesAgree` | two NPCs, twelve shapes of event (every branch of `ingest`, an NPC that talks to itself, and companions that name one NPC twice), four events and answers in three packages: an event, a turn that shows it, a reset and a turn after it; windows of two lines (8 in the code), which the input, an answer and a line of chat overflow, so that each timeline drops lines of its own |
| `pipeline` | `RemindedByTheTurnBefore`, `SerialTurns`, `AnswersInOrder`, `EveryTickSettles` | three ticks, so that "older than the turn before" can happen; two connections, one of which may drop; packages of four kinds: a turn with two NPCs, one with none, data only, and a goodnight with player input; any stage may raise |
| `acquaintance` | `IntroducedForGood`, `OnlyLossMakesStrangers` | three NPCs and four packages or resets: a loss, a turn that marks, an introduction, a return after a restart |
| `approach` | `StrangersAreBlank`, `RecalledForSomeone`, `EstimateIsFelt` | two newcomers, about one of whom every read may fail: a stranger that leaves while another stays; stores of one event or, of the newcomer that is always read, of two memories: an introduction beside an event, which may be told again with another warmth, and an event with its reinterpretation (in the code 8 feed a reading, and more crowd each other out, as the theorems of section 6 allow); warmths at the wary end and just above what lifts the goal to its commitment; two readings that are blended |
| `dispatch` | `RosterAnswered`, `PromptsShrink`, `TurnsEnd` | three agents, scenes of none, one and three, one slot, two turns, one retry: a call of its own beside a group call, an agent that was asked in both turns, and a call that outlives the turn it was made for; curvatures on both sides of the first threshold |
| `parts` | `PoolInvariant`, `NoBeliefVanishes`, `NobodyForgets`, `PartsInvariant`, `CadenceHonoured`, `GoalInvariant`, `BundleInvariant`, `NightsInvariant`, `OldestOut` | below |
| `link_drops`, `relay_lost`, `roles` | section 5 | the smallest in which it happens |

The type invariants (`TypeOK`, `LinkTypeOK`, `RelayTypeOK`, `DispatchTypeOK`; most are a part of `LinkInvariant`,
`RelayInvariant`, `BuffersInvariant`, `PoolInvariant`, `RosterAnswered` and `PartsInvariant`) also hold the bounds of the code: a queue within its `maxlen`, a
roster within its cap, a memory only for those who have a buffer. Those of `ProgenyPipeline` and `SocialApproach` are not listed
in their runs; the one of the pipeline is proved (`TypeCorrect`), the other was checked beside its run.

`parts` checks six modules in one run. A behaviour is one part's, with the others at rest in their
initial state, so the state space is the sum of the six and not their product. Nothing is lost: no
guard and no property reads the variables of two parts, so every behaviour of a product, seen from one
part, is one of that part alone. The instances:

- facts: two NPCs and the player, two facts and two introductions: a chain of three versions, and a
  retelling;
- scheduler: three agents in scenes within and beyond a cap of two, six turns with the last tier due
  every fourth (16 in the code), so that a full period passes after any arrival;
- goals: three alternatives of one parent with activations below, between and above the thresholds;
- memories: three memories, two overlapping arcs of at most two of them, every ranking of three anchors,
  a search that fails, and a fetch that fails for some arcs and not for others;
- nights: two memories from opposite ends of a line of five positions over four nights, lost writes,
  passes cut short, scans of RAW memories that fail;
- tiers: two NPCs that come and go, a window of two verbatim lines, one compressed and one of keywords,
  and five lines: one falls out at the bottom, also after turns that failed.

Deadlock is not checked (`CHECK_DEADLOCK FALSE`): the bounds on events, ticks and connections end every
behaviour of these models, and a service that is asked nothing may stop. What must not get stuck is
stated as `NeverStranded`, `LinkRecovers`, `EverythingShipped`, `EveryTickSettles` and `TurnsEnd`.

## 4. Fairness

- `TickAccumulator!FairSpec`: the loop fires and its callback returns. The loop is a task that sleeps a
  fixed interval; its callback is a socket write on a connection with a ping timeout. Handlers are not
  assumed fair: nobody need force a tick.
- `ProgenyLink!FairLink`: tasks that are ready run, an attempt to connect is decided, a backoff elapses.
  All are the event loop's and the network time-out's doing. Losses and refusals are not fair, only
  bounded: `LinkRecovers` says what happens when they are over.
- `FalconRelay!FairRelay` (used by `relay_lost`): tasks that are ready run, and Progeny answers what it
  took. A send that suspends resumes.
- `ProgenyPipeline!FairSpec`: a stage of the turn that has the lock ends, since its awaits are HTTP calls
  with timeouts. `Fail`, `Disconnect` and the arrival of ticks are not fair.

- `TurnDispatch!FairDispatch`: a call that was posted comes back, fails or runs into the HTTP client's
  timeout, and is retried a fixed number of times; when all are back the turn goes on. Calls left behind
  by a failed turn are not assumed to end.

All are weak: no property needs a step that is only enabled now and then.

## 5. Where the code and its documentation part

Each of these properties states what a comment, a docstring or the Living Doc
(`src/docs/The_Many_Mind_Kernel_Living_Doc.md`) says. TLC refutes all of them. Three have a run:

| property | run | what happens |
|---|---|---|
| `DropsOnlyWhenDisconnected` | `link_drops` | `send_tick` drops ticks "if the WebSocket is not connected" (`progeny_protocol.py:74`). The end of an old receive loop sets `_ws = None` (line 136) while a new connection stands, and ticks are dropped on it. |
| `StreamAnswered` | `relay_lost` | "Always signals `_response_ready` so stream handlers unblock" (`falcon/api/routes.py:440`). The handler clears the event after `force_tick` returns (line 277); if the write suspends and the answer is handled first, the handler waits for ever. |
| `BystandersAreTold` | `roles` | "Only the addressee's voice is heard in-game"; a bystander shall "NOT produce an utterance" (`prompt_formatter.py:84` and 87). The addressee is looked for in the roster of one call (line 287): an agent in another call is told the player spoke to the group, or to it. |

The others are defined at the end of their modules. To see a counterexample, put the property alone into
the module's `.cfg` (as INVARIANT, or PROPERTY if it has the form `[][...]_vars`), with the change given.

| property (module) | what happens |
|---|---|
| `CloseClosesTheSocket` (ProgenyLink) | `close()`, "shut down the WebSocket connection cleanly" (`progeny_protocol.py:169`), cancels the receive task first; its finally block clears `_ws`, and there is nothing left to close. |
| `AnswersItsOwnInput` (FalconRelay) | "The response comes back on the same HTTP connection" (`falcon/api/routes.py:230`). Any turn releases every held request, and the first takes the text. |
| `NoReplyToTheDeparted` (FalconRelay) | The client's timeout is "the outer safety net" (line 275). The handler of a client that left goes on waiting and takes the next reply. |
| `NewcomersReachATurn` (EventAccumulator) | "When an NPC enters, existing agents fire ... retrieval against the newcomer's ID" (`event_accumulator.py:94`). `entered` is recomputed with every package (line 160) and read by turns only. |
| `HeardInEarshot` (EventAccumulator) | Player input goes to the NPCs "in earshot" (line 337): the earshot of the last `_speech` event, which only a reset clears. |
| `HeardOnce` (EventAccumulator) | "Each NPC that heard the player gets a private entry" (line 339). The companions of a `_speech` are a list as the game sends it (`event_parsers.py:48`), and `event_accumulator.py:368` appends a line per companion: two of one name are one NPC with the line twice. |
| `LocationSuperseded` (EventAccumulator) | "Location events supersede the previous location fact" (line 533); line 559 only adds one. |
| `LoreIsUniversal` (FactPool) | "Lore is known by everyone" (`fact_pool.py:195`). A name that got its bit as a knower is no newcomer when it becomes active and gets none. Nothing in `src/` adds lore yet. |
| `ListedOnce` (FactPool) | A retelling "reinforces rather than duplicates" (`disclosure.py:26`); the fact's id is appended to its category again (`fact_pool.py:188`). |
| `RecognitionSurfaces` (ProgenyPipeline) | "The recognition surfaces on the next prompt" (`progeny/api/routes.py:396`). The same turn's retrieval assigns the agent's entry anew (line 1131). |
| `TurnsAreAnswered` (ProgenyPipeline) | The sleep pass is "independent of the turn pipeline" (line 960). Player input in the package of a goodnight gets an acknowledgement and no turn. |
| `UnknownIsStranger` (Acquaintance) | Strangers are those of whom retrieval "surfaced no personal memory" (`acquaintance.py:12`). Referents only raise scores: any memory of the observer counts. |
| `FirstSightIsStrange` (Acquaintance) | "NPCs start as strangers" (Living Doc:2585). The registration's text is recorded as a fact that everybody present knows, before they look. |
| `AcquaintedBothWays` (Acquaintance) | After an introduction both know each other (Living Doc:2600). The fact names the speaker only; the marks are cleared both ways. |
| `BothRemember` (Acquaintance; `WritesFail = TRUE`) | An introduction "leaves a memory in both minds" (`disclosure.py:6`). A failed write is logged and the ledger cleared all the same. |
| `EmptyWithoutProfile` (Acquaintance; `ReadsFail = TRUE`) | "A transient Qdrant error is left uncached" (`progeny/api/routes.py:817`). `read_profile` turns the error into None (`qdrant_client.py:397`), which is cached. |
| `MarksAreCurrent` (Acquaintance) | The mark is dropped "once acquaintance is established" (`acquaintance.py:117`): only by a presence change or an introduction. |
| `TierZeroSeesAllTiers` (DialogueTiers, `D!` in `MCProgenyParts`) | The prompt "sees all three sub-tiers" (Living Doc:902). The snapshot of a turn (`event_accumulator.py:254`) shares the verbatim list only. |
| `TaskSurvives` (DialogueTiers, `D!`) | "Active task survives at T1" (`prompt_formatter.py:517`). The snapshot does not copy the task. |
| `VerbatimWithinMax` (DialogueTiers, `D!`) | "max 8" (`event_accumulator.py:59`). Only active agents' windows slide. |
| `TiersByAge` (DialogueTiers, `D!`) | Verbatim is "newest", compressed is "middle" (lines 55-56). A scene marker is filed as compressed while older lines are verbatim (`compression.py:240`). |
| `IncumbentKeepsLead` (GoalLifecycle, `G!` in `MCProgenyParts`) | "The incumbent keeps the lead unless a challenger beats it by SWITCH_MARGIN" (`goal_lifecycle.py:293`). The incumbent is looked for after the ramp, so an earlier sibling that became a candidate just now is taken for it (line 334). |
| `NewcomersAlwaysAppear` (AgentScheduler, `S!`) | "New agents always appear on their first turn" (`agent_scheduler.py:146`). The cap cuts them too. |
| `StalledIsSkipped` (Reconsolidation, `N!`; `ScansFail = TRUE`) | A stalled source "is skipped" (`memory_reconsolidation.py:406`). A failed scan reads as an empty collection (`qdrant_client.py:562`), and version 1 is written over. |
| `BlockedDoNotCrowdOut` (Reconsolidation, `N!`; `TopK = 1`) | Blocked sources are ids "to skip" (line 175); the pass never passes them, and they fill the top K. |
| `LatestReinterpretation` (MemoryRecall, `R!`; `MaxVersions = 2`) | "Recall surfaces the latest reinterpretation" (`memory_retrieval.py:302`): it surfaces the version that ranks first. |
| `AddresseeHears` (TurnDispatch) | "The player is talking to you" (`prompt_formatter.py:85`) is told to the speaker of the last `_speech` event; the words go to its listener and its companions (`event_accumulator.py:333`). |
| `OneBadReplyIsNotAll` (TurnDispatch) | "Returns one AgentResponse per expected agent (may be empty for some)" (`response_expander.py:44`). A field of the wrong type raises past `except LLMError` (`progeny/api/routes.py:884`): the turn loses all its answers. |
| `EvidenceRamps` (SocialApproach; `MaxEncounters = 3`) | "One kind encounter does not erase a wary prior; as individual memories accumulate the person emerges" (`valence.py:267`). A memory counts again at each entrance. |
| `WarinessSuppresses` (SocialApproach) | "Wariness suppresses it" (`social_goals.py:13`): the goal's activation is the higher of the gated one and its resonance. |
| `RecentIsChronological` (MemoryRecall, `R!`) | "Sort recent by game_ts for chronological order" (line 374). Utterances carry the wall's clock (`progeny/api/routes.py:1236`), events the game's. |

To check one of a part, name it in `MCProgenyParts` (`P == part = "goals" => G!IncumbentKeepsLead`) and
list `P`. `UnknownIsStranger` of `SocialApproach` fails as the one of `Acquaintance` does.

## 6. Proofs

The theorems hold for every value of the constants that their `ASSUME`s allow: any sets of NPCs, names
and tasks, any bounds. TLC checked every invariant used before it was proved. The proofs of
`ProgenyPartsProofs` take some 12 minutes from nothing, those of any other module less than three.

`FalconProofs` of `TickAccumulator` (assumes `AccumulatorAssumption`: the loop is no handler, no name is the empty
one):

- `TypeCorrect`: `TypeOK` is inductive as it stands.
- `NoLossNoDuplication`: `pushed = shipped \o buffer` is inductive with `TypeOK`. A push appends on both
  sides, a firing moves the buffer over (associativity of `\o` is the whole argument).
- `RegistryCorrect`: `RegistrySinceReset` needs `RegistryInv`, which adds that the last reset lies
  within the history: without it a later push could fall before it.
- `IntervalCorrect`: `IntervalCoversEvents` speaks of packages under way only. `IntervalInv` adds
  `BufferTimes`: what is buffered arrived after the last package was cut and not after now.
- `AccumulatorImplementsFeed`: every step maps to `Produce`, `Deliver` or a stutter of `EventFeed`
  (lemma `StepSimulation`), under the two invariants above.

`AcquaintanceProofs` (assumes `AcquaintanceAssumption`):

- `TypeCorrect`.
- `StrangersNeedALoss`: `OnlyLossMakesStrangers` needs `HeardBeforeSeen`: as long as no package was
  lost, Progeny's last scene is Falcon's registry or empty after a restart, and when a turn looks at a
  newcomer, a belief about it is there. So, without a loss, the ledger, the get-acquainted goal and the
  introductions never come into play.
- `IntroducedStayKnown`: `IntroducedForGood`, under `~WritesFail` and `~ReadsFail`. The invariant
  `BothHaveAPast` adds that both of an introduced pair have some memory in Qdrant, and that the
  listener of an introduction under way has one by its second step. Memories only grow, they outlive a
  restart, and since any memory of the observer passes for a memory of the other (`UnknownIsStranger`
  above), a pair with a past is never marked again. Where a read or a write may fail, the property does
  not hold and is not claimed.

`ProgenyPipelineProofs` (assumes `PipelineAssumption`: packages arrive without a connection, and there
is at least one):

- `TypeCorrect`: `TypeOK`, which the run does not list, is inductive as it stands.
- `TurnsAreSerial`: `SerialTurns` is inductive with `TypeOK`. A step moves a task into a stage together
  with the lock, out of the stages without it, or neither; an answer and an exception leave it free.
- `AnswersKeepTheOrder`: `AnswersInOrder` speaks of what was sent only. `OrderInv` puts the answered
  ticks, the holder and the queue on one line: each is older than the next, and what has arrived has no
  gap, so that a new tick is the youngest. The order rests on the lock's queue (first come, first served,
  as `asyncio.Lock`) and on tasks starting in the order they were created; `ReceiveTick` has both.
- `RemindingsAreATurnOld`: `RemindInv` follows a reminding through its life: it is `Fresh` (of the latest
  turn) as long as it is queued, `Due` (of the turn before) once a turn has taken it over, and a turn
  takes the queue over before its own retrieval fills it. A stage of the turn under way that fails
  leaves both as they are.

`FalconProofs` of `ProgenyLink` (assumes `LinkAssumption`: at least one connection):

- `LinkStaysSound`: `LinkInvariant` is inductive with its type invariant. `NewestPair` says that `_ws`
  is the newest connection or none, and that each connection that was opened got a receive task;
  `EachReadsItsOwn`, that a receive task reads the connection it was created for, although it takes
  `_ws` as it finds it when it first runs: no other connection is established before that;
  `SomebodysJob`, that until `close()` a connection in `_ws` has its receive task and a link without one
  a reconnect under way.
- `LinkIsNeverStranded`, `LinkListens`: `NeverStranded` and `ListensWhereItTalks` follow from it in each
  state.

`FalconProofs` of `FalconRelay` (assumes `RelayAssumption`: typed inputs, streams and lines to say differ, the queue
holds at least one):

- `RelayStaysSound`, `NoTextIsSpokenTwice`: `SpokenOnce` is inductive together with `RelayInvariant`,
  whose part `OnePlace` follows a text from the game over buffer, turn, frame, callback and queue to its
  taker, and says that it is in one of them, also while two receive loops are in their callbacks. A step moves a text on, drops it, or makes one that is
  new (lemmas `MovesKeepOnePlace`, `QueueingKeepsOnePlace`, `TakingKeepsOnePlace`); `QueueIsFifo` relates
  what was queued to what was taken, through the overflow.
- `TurnsRelease`: the action property `OnlyATurnReleases`, step by step.

`EventAccumulatorProofs` (assumes `AccumulatorAssumption`):

- `BuffersStaySound`, `EventsReachOneTurn`, `ResetForgets`, `TimelinesStayInStep`: the four invariants of
  the run are inductive together (`AccumulatorInv` is the same, by what its parts are about). `OnlyWhatArrived` bounds what is held or
  remembered by what arrived; `InputIsNew` keeps the pending input out of all memories until its turn
  records it, once. A line that a memory holds twice is then an input, of namesakes, and its copies were
  appended together (`RepeatedOnlyIfNamedTwice`); a window that slides may cut through them but does not
  part them. `TimelinesAgree` does not say that the group's timeline and the private ones hold the same:
  each slides for itself, the private ones in turns of their NPC only, and a turn that is dropped or
  abandoned slides none. It says that each is the latest of what was said, in order, and has dropped
  nothing unless its window is full; that rests on memories growing at the end, in the order of arrival
  (`MemoryGrows`), and being cut at the front (`SlidIsTail`).

`ProgenyPartsProofs` (assumes `PoolAssumption`: finitely many characters, none of them the player, and
`PartsAssumption` for the parts):

- `PoolStaysSound`: `PoolInvariant` needs `PoolInv`, which adds that the numbers of facts run behind the
  counter (so that a new fact replaces none) and `IntroductionsAreBetweenTwo` (below). That newcomers
  leave no gap in the index (`BitsDense`) is a counting argument: as many positions as newcomers, no two
  on one (`FreshPositions`, by the pigeonhole theorem on finite sets).
- `NobodyEverForgets`: every step lets bits and knowers grow. The one call that overwrites a fact is an
  introduction that is told again; nothing is lost since nobody else could know it:
  `IntroductionsAreBetweenTwo`, which rests on the code never propagating an introduction.
- `BeliefsOnlyMove`: `NoBeliefVanishes`, for chains of any length. Of the versions of a fact that a
  knower has, one has the fewest supersessions ahead of it (`Ahead`, a number since supersessions point
  to later facts); had it heard of that one's replacement, this would have fewer still. A least number
  takes the place of an induction over the chain.
- `CadenceIsHonoured` takes the scheduler's part from `AgentSchedulerProofs` (below), instantiated as
  `Sched` with the party as its agents.
- `GoalsStayCommitted`: the five parts of `GoalInvariant` are inductive together with the types. Among
  finitely many siblings one has the greatest activation (`GreatestValue`); the leader that is selected
  is that one or an incumbent within the margin of it (`LeaderIsStrong`).
- `BundlesKeepTheirPromises`: the anchors are expanded one after the other, and what a bundle carries after
  each is `SoundBundle`: it repeats nothing, everything in it belongs to an anchor that was taken, and every
  anchor taken surfaces as itself, as its arc or as its reinterpretation. One step is `TakeReconIs`,
  `TakeModIs` or `TakeRawIs`, by the tier of the anchor, and `TakeKeeps` says that each keeps a sound bundle
  sound, however arcs overlap; `StepsAreSound` goes from the empty bundle to the last anchor with
  `InductionUpTo`. The final sort loses and doubles no memory (`ChronologyIs`): `game_ts` differ, so that an
  order exists (`OrderExists`). `RecallInv` is those promises and the store's types (an arc covers memories
  that exist, and at least one), and a bundle stays true to them while the turn goes on writing
  (`BundleLasts`).
- `NightsKeepTheChain`: `NightsInvariant` needs `VersionsByNight`, which says what a night knows: a version
  is one that its scan found, from a night before, or the next one, written tonight. Proved under
  `ScansAreComplete` (no scan fails, and there are no more versions than its limit of points), which the
  `parts` run assumes too: without it the property does not hold (`StalledIsSkipped`, section 5) and is
  not claimed.
- `TiersHoldTheLatest`: `OldestOut` is inductive per timeline (`Kept`), for any sizes of the tiers. Hearing
  a line appends the latest, a scene marker appends an entry of its own, and sliding drops the oldest of
  a full tier (`KeptSliding`: what is left is the end of what was there).
- `PartsAreTyped`: `PartsInvariant`, from `SchedulerIsSafe`, `GoalsInv`, `RecallInv`, `NightsTyped` and the types of
  the tiers. `NightsTyped` needs neither scans that answer nor a chain without gaps; it says that versions and
  attempts do not run ahead of the nights, which bounds both. (TLC agrees on the `parts` instance with
  `ScansFail = TRUE`, too.)
- `EachPartIsItself`: the composition implements the `Spec` of each part, so that what is proved of it
  is proved of the part.

`SocialApproachProofs` (assumes `SocialAssumption`):

- `RecalledOnlyForStrangers`: `RecalledInv` adds that nothing is recalled between turns. Priming
  recalls the statement of a leading goal only, and a goal that has no stranger around is satisfied in the
  same update, so that it does not lead (`PrimingNeedsAStranger`).
- `StrangersStayBlank`: a stranger was met by an NPC without memories. `BlankInv` adds that there is no
  feeling without a memory; the blend of no prior with an empty reading is no feeling (`BlankBlend`).
- `EstimatesAreFelt`: `EstimateIsFelt`, with the memories' types and `felt` (history), the warmths of all the
  memories that there ever were of a subject. A mean lies between the least and the greatest, and a step
  half way from one such point to another is one. The memories that remain would not do: an introduction
  that is told again overwrites its point (`memory_writer.py:86`), and the estimate that was read from the
  first telling may lie outside what is left.

`AgentSchedulerProofs` (assumes `SchedulerAssumption`):

- `SchedulerIsSafe`: the type invariant, `DispatchPartitions` and `CadenceHonoured` of any behaviour of the
  scheduler. `Planned` says that the roster of a turn is one that `schedule` makes, sorted by distance, and
  its groups what `plan_dispatch` makes of it. `WaitsSinceDue` says that an agent has been left out for no
  more turns than have passed since the last one that was due for the farthest tier it had meanwhile. Whoever
  is due in a scene within the cap is scheduled (`DueAreScheduled`: the filter, the cap and the sort lose
  nobody); if it is left out, the remainder of the turn by its cadence grows by one (`NextRemainder`), and a
  tier farther out has no smaller one, as the cadences nest (`CoarserRemainder`). When an agent last
  answered does not enter into it. A turn's
  `PlanDispatch` cuts the roster tier by tier (`PlanCuts`), and what it cuts flattens to the roster again
  (`Partitions`, `PlanPartitions`).
- The model says with folds and sorts what the code does with list comprehensions and `sorted`, and the
  library defines them by `CHOOSE` and by recursive functions. That a recursive function on `0..n` is what
  its recursion says is proved here from the least number for which it would not be (`InductionUpTo`,
  `FlatteningsExist`, `FlatteningIsUnique`): a set of numbers, unlike an operator, can be instantiated.
  `FlattenAppend` and `ByTierSorts` (a sorting of the rosters exists, by the pigeonhole theorem) are then
  used as any other lemma.

`TurnDispatchProofs` (assumes `DispatchAssumption`):

- `RosterIsAnswered`: `DispatchInv` joins `Planned`, the types, `CallsOK` and `AnswerOK`. `CallsOK` says that what a call has
  brought is about the agents of its own group, in this turn, whatever shape the reply has; the merge looks
  each agent of the roster up among all replies, so it rests on no two groups having an agent in
  common. Calls that outlive a failed turn stay apart from those of the next (`orphans`).
- `PromptsAreSmaller`: `PromptsShrink`, since a roster is sorted by tier and a block's depths are products that fall
  with the tier and the urgency, and are cut to integers the same way (`BlocksShrink`).

Every invariant and every action property that a passing run checks is stated by a theorem. Model-checked only
are the liveness properties (`EverythingShipped`, `LinkRecovers`, `EveryTickSettles`, `TurnsEnd`), which are
out of the prover's reach.

## 7. Notes on the models

- A stage of the pipeline that repeats a call for several agents is one step; its `Fail` may come
  before it. What it had changed for some of the agents before an exception is what the stage before it
  had changed: the reminding queue is assigned by stages that catch the failures of their retrievals
  (one agent's, or the rest of the loop's).
- What is retrieved, whether an LLM call succeeds, whether an agent is in the answer and whether a write
  gets through are choices of the environment.
- `mindcore`, which holds the harmonic buffers, is not part of the repository; curvature and snaps are
  inputs.
- In the route, the arc that is summarised after a snap ends at the first coordinate of an emotion and
  its semantic vector has nine dimensions (`progeny/api/routes.py:1281`, both marked TODO), so that no
  summary is stored yet. `MemoryRecall` models `generate_arc_summary` as it is written, over windows
  that end at a memory.
- Not called by anything in production, and left out: MAX essences and `EssenceDistiller`, the
  rehydrator, `remove_agent`, `retrieve_lore`, `clear()` and `reset()` of the ledger, the kernels and
  the valence store. A session reset therefore keeps those, as `SessionReset` of `Acquaintance` does.
- A goodnight in a package that has player input drops the input's turn (`SleepThrough`); neither it nor a turn
  that an exception ends slides a window.
- The turn that a reminding carries in `ProgenyPipeline` is a mark for the properties: the code's queue has
  none.
- Memories in `Reconsolidation` are points that are written once (events and answers). An introduction's
  points can be upserted with another key, which `SocialApproach` models.
- In `SocialApproach` the ledgers of the others are not there, so that anybody may take Me for a stranger and
  be introduced; of several NPCs that speak in a turn each introduces itself once to another.
- A reading is made of the `TopK` memories that rank first, in any order, or of any of them when a search
  fails; their mean, weighed by relevance, is any warmth between the least and the greatest of them.
- `StrangersAreBlank` is the other side of `UnknownIsStranger`: since any memory of an NPC passes for a
  memory of the newcomer, a stranger is met by an NPC without memories, and its valence is neutral. The
  gate of `social_activation` has nothing to gate while reads succeed.
- `TurnDispatch` numbers a response's call and its turn (history); the code merges by position. More
  calls are made at once (`MaxSlots` and two groups) than the single slot of the LLM server whose cache
  `progeny/api/server.py:36` warms; the server queues them, which a call's time to return covers.
- `TIER_FACT_LIMITS` has limits for four tiers, of which the formatter reads the first.
- The get-acquainted statement may also be recalled by `mindcore`, by resonance alone, which
  `RecalledForSomeone` does not speak of: it is about what the lifecycle does.
- Positions reach the scheduler from no caller; `AgentScheduler` takes every ring of distance, and none.

## 8. Not modelled

Stateless conversions (event parsers, wire format, the wording of prompts, the repair of malformed JSON,
emotional deltas), external services (embeddings, the speech servers), declarations, start-up, scripts
and data. Similarity in floating point (goal pool, the scores of retrieval, class-congruent recall) only
feeds thresholds, whose outcomes are inputs of `GoalLifecycle`, `SocialApproach`, `AgentScheduler` and
`ProgenyPipeline`.

Speech keeps one thing, the voice model it believes the speech server has loaded (`tts.py:211`). Two
voices at once, or a restart of that server, would make it stale; nothing in production registers a
second voice, so a module would model what cannot happen. The rehydrator has no production caller.

## 9. Plan

Done: the order of section 2, from the path of an event (accumulator, link, relay) over what a turn
does with it (pipeline, event accumulator, facts) to the parts.

1. Scans cut at 200 points in `Reconsolidation`: the latest version may be missing from one.
2. `TurnDispatch` as the dispatch stage of `ProgenyPipeline`, with the queue of remindings as its input.
3. The relay with `EventFeed` in place of its own buffer, and `FalconRelay` shown to release handlers as
   an abstract gate does.
