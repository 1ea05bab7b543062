-------------------------- MODULE TickAccumulator --------------------------
(***************************************************************************)
(* Falcon's tick accumulator (falcon/src/tick_accumulator.py).             *)
(*                                                                         *)
(* HTTP handlers push events into a buffer; a background task, and the     *)
(* stream handlers through force_tick, swap the buffer for a TickPackage   *)
(* and await the package callback.  The program runs on one asyncio loop:  *)
(* a task gives way only where it really suspends.  No body of `async with *)
(* self._lock` suspends, so the lock is never contended and each operation *)
(* is one step; a firing is one step up to `await self._on_package(...)`,  *)
(* whose suspension is the interval between FireTick and CallbackReturns.  *)
(***************************************************************************)
EXTENDS Integers, Sequences

CONSTANTS
  NpcNames,        \* NPC names an addnpc event can carry
  NoNpc,           \* the name of every other event, and of an addnpc event
                   \* whose payload did not parse
  Voicetypes,      \* Bethesda voicetypes
  NoVoice,         \* no voicetype registered
  Handlers,        \* stream handlers that may call force_tick
  Loop,            \* the background task of start()
  NoPackage,       \* a task that is not awaiting the callback
  MaxPushes,       \* bound: events pushed
  MaxClock         \* bound: time.monotonic()

ASSUME AccumulatorAssumption ==
  /\ NoNpc \notin NpcNames
  /\ NoVoice \notin Voicetypes
  /\ Loop \notin Handlers
  /\ MaxPushes \in Nat
  /\ MaxClock \in Nat

Firers == Handlers \union {Loop}

(* An event: what identifies it, the NPC it registers, when it came in. *)
Event == [id : Nat, npc : NpcNames \union {NoNpc}, at : Nat]

Package == [events : Seq(Event), ids : SUBSET NpcNames,
            elapsed : Int, built : Nat]

VARIABLES
  buffer,          \* _buffer
  activeNpcIds,    \* _active_npc_ids
  voicetypes,      \* _npc_voicetypes
  lastTickTime,    \* _last_tick_time
  clock,           \* time.monotonic()
  loopUp,          \* _task exists and was not cancelled
  shipping,        \* per task: the package whose callback it awaits
  pushed,          \* history: every event pushed, in order
  shipped,         \* history: every event handed to the callback, in order
  clearedAt        \* history: Len(pushed) at the last clear_npcs

accVars == <<buffer, activeNpcIds, voicetypes, lastTickTime, clock, loopUp,
             shipping, pushed, shipped, clearedAt>>

Init ==
  /\ buffer = <<>>
  /\ activeNpcIds = {}
  /\ voicetypes = [n \in NpcNames |-> NoVoice]
  /\ clock = 0
  /\ lastTickTime = 0                       \* start() reads the clock
  /\ loopUp = TRUE
  /\ shipping = [f \in Firers |-> NoPackage]
  /\ pushed = <<>>
  /\ shipped = <<>>
  /\ clearedAt = 0

NewEvent(npc) == [id |-> Len(pushed) + 1, npc |-> npc, at |-> clock]

(* The name push registers: that of an addnpc event that parsed.           *)
MutRegistered(npc) == {npc}
Registered(npc) == {npc} \ {NoNpc}

(* push: append, and register the name an addnpc event carries *)
Push(npc) ==
  /\ Len(pushed) < MaxPushes
  /\ buffer' = Append(buffer, NewEvent(npc))
  /\ activeNpcIds' = activeNpcIds \union Registered(npc)
  /\ pushed' = Append(pushed, NewEvent(npc))
  /\ UNCHANGED <<voicetypes, lastTickTime, clock, loopUp, shipping, shipped,
                 clearedAt>>

MutClearNpcs ==                            \* the names survive the reset
  /\ voicetypes' = [n \in NpcNames |-> NoVoice]
  /\ clearedAt' = Len(pushed)
  /\ UNCHANGED <<buffer, activeNpcIds, lastTickTime, clock, loopUp, shipping,
                 pushed, shipped>>

(* clear_npcs: init, wipe and playerdied forget who is loaded.  Buffered   *)
(* events stay.                                                            *)
ClearNpcs ==
  /\ activeNpcIds' = {}
  /\ voicetypes' = [n \in NpcNames |-> NoVoice]
  /\ clearedAt' = Len(pushed)
  /\ UNCHANGED <<buffer, lastTickTime, clock, loopUp, shipping, pushed,
                 shipped>>

RegisterVoicetype(n, v) ==
  /\ voicetypes' = [voicetypes EXCEPT ![n] = v]
  /\ UNCHANGED <<buffer, activeNpcIds, lastTickTime, clock, loopUp, shipping,
                 pushed, shipped, clearedAt>>

MutSnapshot == [events |-> buffer, ids |-> activeNpcIds, \* clock read too late
                elapsed |-> 0, built |-> clock]
Snapshot == [events |-> buffer, ids |-> activeNpcIds,
             elapsed |-> clock - lastTickTime, built |-> clock]

MutFireTickKeeps(f) ==                     \* the buffer is copied, not swapped
  /\ shipping[f] = NoPackage
  /\ f = Loop => loopUp
  /\ buffer # <<>>
  /\ shipping' = [shipping EXCEPT ![f] = Snapshot]
  /\ lastTickTime' = clock
  /\ shipped' = shipped \o buffer
  /\ UNCHANGED <<buffer, activeNpcIds, voicetypes, clock, loopUp, pushed, clearedAt>>

MutFireTickWaits(f) ==                     \* a lone event is not worth a package
  /\ shipping[f] = NoPackage
  /\ f = Loop => loopUp
  /\ Len(buffer) > 1
  /\ shipping' = [shipping EXCEPT ![f] = Snapshot]
  /\ lastTickTime' = clock
  /\ buffer' = <<>>
  /\ shipped' = shipped \o buffer
  /\ UNCHANGED <<activeNpcIds, voicetypes, clock, loopUp, pushed, clearedAt>>

(* _fire_tick up to the await: an empty buffer is skipped (no state changes, *)
(* _last_tick_time included)                                               *)
FireTick(f) ==
  /\ shipping[f] = NoPackage
  /\ f = Loop => loopUp
  /\ buffer # <<>>
  /\ shipping' = [shipping EXCEPT ![f] = Snapshot]
  /\ lastTickTime' = clock
  /\ buffer' = <<>>
  /\ shipped' = shipped \o buffer
  /\ UNCHANGED <<activeNpcIds, voicetypes, clock, loopUp, pushed, clearedAt>>

(* the callback returned, or raised and was logged *)
CallbackReturns(f) ==
  /\ shipping[f] # NoPackage
  /\ shipping' = [shipping EXCEPT ![f] = NoPackage]
  /\ UNCHANGED <<buffer, activeNpcIds, voicetypes, lastTickTime, clock, loopUp,
                 pushed, shipped, clearedAt>>

(* stop: CancelledError ends the loop in its sleep or in its callback; what  *)
(* is buffered is not flushed                                              *)
Stop ==
  /\ loopUp
  /\ loopUp' = FALSE
  /\ shipping' = [shipping EXCEPT ![Loop] = NoPackage]
  /\ UNCHANGED <<buffer, activeNpcIds, voicetypes, lastTickTime, clock, pushed,
                 shipped, clearedAt>>

Tick ==
  /\ clock < MaxClock
  /\ clock' = clock + 1
  /\ UNCHANGED <<buffer, activeNpcIds, voicetypes, lastTickTime, loopUp,
                 shipping, pushed, shipped, clearedAt>>

Next ==
  \/ \E npc \in NpcNames \union {NoNpc} : Push(npc)
  \/ ClearNpcs
  \/ \E n \in NpcNames, v \in Voicetypes : RegisterVoicetype(n, v)
  \/ \E f \in Firers : FireTick(f)
  \/ \E f \in Firers : CallbackReturns(f)
  \/ Stop
  \/ Tick

Spec == Init /\ [][Next]_accVars

(* The loop wakes up every interval, and the callback, a socket write under *)
(* a ping timeout, returns.                                                *)
FairSpec == Spec /\ WF_accVars(FireTick(Loop)) /\ WF_accVars(CallbackReturns(Loop))

-----------------------------------------------------------------------------
TypeOK ==
  /\ buffer \in Seq(Event)
  /\ activeNpcIds \subseteq NpcNames
  /\ voicetypes \in [NpcNames -> Voicetypes \union {NoVoice}]
  /\ lastTickTime \in Nat
  /\ clock \in Nat
  /\ loopUp \in BOOLEAN
  /\ shipping \in [Firers -> Package \union {NoPackage}]
  /\ pushed \in Seq(Event)
  /\ shipped \in Seq(Event)
  /\ clearedAt \in Nat

(* Every event pushed is either still buffered or was handed to the callback *)
(* once, in arrival order, whichever task fired (_fire_tick's swap under the *)
(* lock, against two firers and pushes between them).                      *)
NothingLostNothingTwice == pushed = shipped \o buffer

(* The registry holds the names registered since the last session reset, and *)
(* only them, however many packages were cut in between: packages drain the *)
(* buffer, never the registry (push, clear_npcs, _fire_tick).              *)
RegistrySinceReset ==
  activeNpcIds =
    {pushed[i].npc : i \in (clearedAt + 1)..Len(pushed)} \ {NoNpc}

(* The interval a package reports covers the arrival of every event in it:  *)
(* empty ticks do not move _last_tick_time (line 149 returns before it), so *)
(* a quiet stretch is charged to the next package.                         *)
IntervalCoversEvents ==
  \A f \in Firers : shipping[f] # NoPackage =>
    LET p == shipping[f] IN
      \A i \in DOMAIN p.events :
        /\ p.built - p.elapsed <= p.events[i].at
        /\ p.events[i].at <= p.built

(* While the loop is up, what was pushed is eventually handed over: a      *)
(* handler's forced tick never makes the loop miss an event.               *)
EverythingShipped ==
  \A n \in 1..MaxPushes :
    (Len(pushed) >= n) ~> (Len(shipped) >= n \/ ~loopUp)

(* The accumulator is an EventFeed: buffer and tasks are its secret. *)
Feed == INSTANCE EventFeed WITH produced <- pushed, delivered <- shipped
ImplementsFeed == Feed!FeedSpec
=============================================================================
