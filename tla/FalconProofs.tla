---------------------------- MODULE FalconProofs ----------------------------
(***************************************************************************)
(* Theorems about the three parts of Falcon, each about the specification  *)
(* of its part.  The tick accumulator: for every number of handlers and    *)
(* names.  The WebSocket client: for any number of connections, losses,    *)
(* refusals and ticks, and whatever Progeny answers.  The relay: for any   *)
(* inputs and lines to say and a response queue of any length, whether or  *)
(* not sends suspend, the link fails and clients leave.  The bounds of the *)
(* runs (MaxPushes, MaxClock, ...) are arbitrary naturals.                 *)
(***************************************************************************)
EXTENDS TickAccumulator, ProgenyLink, FalconRelay, SequenceTheorems, TLAPS

-----------------------------------------------------------------------------
(* The tick accumulator.                                                   *)

(* An event created now is an event. *)
LEMMA NewEventType ==
  ASSUME TypeOK, NEW npc \in NpcNames \union {NoNpc}
  PROVE  NewEvent(npc) \in Event
BY DEF TypeOK, NewEvent, Event

(* The package a firing cuts is a package. *)
LEMMA SnapshotType ==
  ASSUME TypeOK
  PROVE  Snapshot \in Package
BY DEF TypeOK, Snapshot, Package

(* The state keeps its types under every operation of the accumulator. *)
THEOREM TypeCorrect == Spec => []TypeOK
<1>1. Init => TypeOK
  BY AccumulatorAssumption DEF Init, TypeOK
<1>2. TypeOK /\ [Next]_accVars => TypeOK'
  <2> SUFFICES ASSUME TypeOK, [Next]_accVars
               PROVE  TypeOK'
    OBVIOUS
  <2>1. ASSUME NEW npc \in NpcNames \union {NoNpc}, Push(npc)
        PROVE  TypeOK'
    <3>1. NewEvent(npc) \in Event
      BY NewEventType
    <3>2. buffer' \in Seq(Event) /\ pushed' \in Seq(Event)
      BY <2>1, <3>1, AppendProperties DEF Push, Registered, TypeOK
    <3>3. QED
      BY <2>1, <3>2 DEF Push, Registered, TypeOK
  <2>2. CASE ClearNpcs
    <3>1. Len(pushed) \in Nat
      BY LenProperties DEF TypeOK
    <3>2. QED
      BY <2>2, <3>1 DEF ClearNpcs, TypeOK
  <2>3. ASSUME NEW n \in NpcNames, NEW v \in Voicetypes, RegisterVoicetype(n, v)
        PROVE  TypeOK'
    BY <2>3 DEF RegisterVoicetype, TypeOK
  <2>4. ASSUME NEW f \in Firers, FireTick(f)
        PROVE  TypeOK'
    <3>1. shipped' \in Seq(Event) /\ buffer' \in Seq(Event)
      BY <2>4, ConcatProperties DEF FireTick, TypeOK
    <3>2. shipping' \in [Firers -> Package \union {NoPackage}]
      BY <2>4, SnapshotType DEF FireTick, TypeOK
    <3>3. QED
      BY <2>4, <3>1, <3>2 DEF FireTick, TypeOK
  <2>5. ASSUME NEW f \in Firers, CallbackReturns(f)
        PROVE  TypeOK'
    BY <2>5 DEF CallbackReturns, TypeOK
  <2>6. CASE Stop
    BY <2>6 DEF Stop, TypeOK
  <2>7. CASE Tick
    BY <2>7 DEF Tick, TypeOK
  <2>8. CASE UNCHANGED accVars
    BY <2>8 DEF accVars, TypeOK
  <2>9. QED
    BY <2>1, <2>2, <2>3, <2>4, <2>5, <2>6, <2>7, <2>8 DEF Next
<1>3. QED
  BY <1>1, <1>2, PTL DEF Spec

(* Falcon neither loses nor repeats nor reorders an event between push and *)
(* the package callback, whatever fires and however many tasks fire.       *)
THEOREM NoLossNoDuplication == Spec => []NothingLostNothingTwice
<1>1. Init => NothingLostNothingTwice
  BY DEF Init, NothingLostNothingTwice
<1>2. TypeOK /\ NothingLostNothingTwice /\ [Next]_accVars
        => NothingLostNothingTwice'
  <2> SUFFICES ASSUME TypeOK, NothingLostNothingTwice, [Next]_accVars
               PROVE  NothingLostNothingTwice'
    OBVIOUS
  <2>t. buffer \in Seq(Event) /\ shipped \in Seq(Event) /\ pushed \in Seq(Event)
    BY DEF TypeOK
  <2>1. ASSUME NEW npc \in NpcNames \union {NoNpc}, Push(npc)
        PROVE  NothingLostNothingTwice'
    <3> DEFINE e == NewEvent(npc)
    <3>1. e \in Event
      BY NewEventType
    <3> HIDE DEF e
    <3>2. buffer' = Append(buffer, e) /\ pushed' = Append(pushed, e)
          /\ shipped' = shipped
      BY <2>1 DEF Push, Registered, e
    <3>3. pushed' = (shipped \o buffer) \o <<e>>
      BY <2>t, <3>1, <3>2, AppendIsConcat DEF NothingLostNothingTwice
    <3>4. <<e>> \in Seq(Event)
      BY <3>1
    <3>5. (shipped \o buffer) \o <<e>> = shipped \o (buffer \o <<e>>)
      BY <2>t, <3>4, ConcatAssociative
    <3>6. buffer' = buffer \o <<e>>
      BY <2>t, <3>1, <3>2, AppendIsConcat
    <3>7. QED
      BY <3>2, <3>3, <3>5, <3>6 DEF NothingLostNothingTwice
  <2>2. ASSUME NEW f \in Firers, FireTick(f)
        PROVE  NothingLostNothingTwice'
    <3>1. /\ shipped' = shipped \o buffer
          /\ buffer' = <<>>
          /\ pushed' = pushed
      BY <2>2 DEF FireTick
    <3>2. shipped \o buffer \in Seq(Event)
      BY <2>t, ConcatProperties
    <3>3. (shipped \o buffer) \o <<>> = shipped \o buffer
      BY <3>2, ConcatEmptySeq
    <3>4. QED
      BY <3>1, <3>3 DEF NothingLostNothingTwice
  <2>3. CASE UNCHANGED <<buffer, pushed, shipped>>
    BY <2>3 DEF NothingLostNothingTwice
  <2>4. QED
    BY <2>1, <2>2, <2>3
    DEF Next, ClearNpcs, RegisterVoicetype, CallbackReturns, Stop, Tick, accVars
<1>3. QED
  BY <1>1, <1>2, TypeCorrect, PTL DEF Spec

(* What the registry is made of, in an inductive form: the last reset lies   *)
(* within the history of pushes.                                           *)
RegistryInv == RegistrySinceReset /\ clearedAt <= Len(pushed)

(* The NPC registry is exactly the set of names registered since the last  *)
(* session reset, for any number of names, pushes and resets.              *)
THEOREM RegistryCorrect == Spec => []RegistrySinceReset
<1>1. Init => RegistryInv
  BY DEF Init, RegistryInv, RegistrySinceReset
<1>2. TypeOK /\ RegistryInv /\ [Next]_accVars => RegistryInv'
  <2> SUFFICES ASSUME TypeOK, RegistryInv, [Next]_accVars
               PROVE  RegistryInv'
    OBVIOUS
  <2>t. pushed \in Seq(Event) /\ Len(pushed) \in Nat /\ clearedAt \in Nat
    BY LenProperties DEF TypeOK
  <2>1. ASSUME NEW npc \in NpcNames \union {NoNpc}, Push(npc)
        PROVE  RegistryInv'
    <3> DEFINE e == NewEvent(npc)
    <3>1. e \in Event /\ e.npc = npc
      BY NewEventType DEF NewEvent
    <3> HIDE DEF e
    <3>2. /\ pushed' = Append(pushed, e)
          /\ clearedAt' = clearedAt
          /\ activeNpcIds' = activeNpcIds \union ({npc} \ {NoNpc})
      BY <2>1 DEF Push, Registered, e
    <3>3. /\ Len(pushed') = Len(pushed) + 1
          /\ \A i \in 1..Len(pushed) : pushed'[i] = pushed[i]
          /\ pushed'[Len(pushed) + 1] = e
      BY <2>t, <3>1, <3>2, AppendProperties
    <3>4. clearedAt + 1 \in Nat /\ clearedAt <= Len(pushed)
      BY <2>t DEF RegistryInv
    <3>5. {pushed'[i].npc : i \in (clearedAt + 1)..(Len(pushed) + 1)}
            = {pushed[i].npc : i \in (clearedAt + 1)..Len(pushed)} \union {npc}
      <4>1. ASSUME NEW i \in (clearedAt + 1)..(Len(pushed) + 1)
            PROVE  \/ i \in (clearedAt + 1)..Len(pushed) /\ pushed'[i].npc = pushed[i].npc
                   \/ i = Len(pushed) + 1 /\ pushed'[i].npc = npc
        BY <2>t, <3>1, <3>3, <3>4
      <4>2. ASSUME NEW i \in (clearedAt + 1)..Len(pushed)
            PROVE  /\ i \in (clearedAt + 1)..(Len(pushed) + 1)
                   /\ pushed'[i].npc = pushed[i].npc
        BY <2>t, <3>3, <3>4
      <4>3. /\ Len(pushed) + 1 \in (clearedAt + 1)..(Len(pushed) + 1)
            /\ pushed'[Len(pushed) + 1].npc = npc
        BY <2>t, <3>1, <3>3, <3>4
      <4>4. QED
        BY <4>1, <4>2, <4>3
    <3>6. RegistrySinceReset'
      <4>1. activeNpcIds
              = {pushed[i].npc : i \in (clearedAt + 1)..Len(pushed)} \ {NoNpc}
        BY DEF RegistryInv, RegistrySinceReset
      <4>2. activeNpcIds'
              = {pushed'[i].npc : i \in (clearedAt + 1)..(Len(pushed) + 1)} \ {NoNpc}
        BY <3>2, <3>5, <4>1
      <4>3. QED
        BY <3>2, <3>3, <4>2 DEF RegistrySinceReset
    <3>7. (clearedAt <= Len(pushed))'
      BY <2>t, <3>2, <3>3, <3>4
    <3>8. QED
      BY <3>6, <3>7 DEF RegistryInv
  <2>2. CASE ClearNpcs
    BY <2>t, <2>2 DEF ClearNpcs, RegistryInv, RegistrySinceReset
  <2>3. CASE UNCHANGED <<activeNpcIds, pushed, clearedAt>>
    BY <2>3 DEF RegistryInv, RegistrySinceReset
  <2>4. QED
    BY <2>1, <2>2, <2>3
    DEF Next, RegisterVoicetype, FireTick, CallbackReturns, Stop, Tick, accVars
<1>3. RegistryInv => RegistrySinceReset
  BY DEF RegistryInv
<1>4. QED
  BY <1>1, <1>2, <1>3, TypeCorrect, PTL DEF Spec

(* What is buffered came in after the last package was cut. *)
BufferTimes ==
  /\ lastTickTime <= clock
  /\ \A i \in 1..Len(buffer) : lastTickTime <= buffer[i].at /\ buffer[i].at <= clock

IntervalInv == BufferTimes /\ IntervalCoversEvents

(* The interval of every package covers the arrival of its events, for any  *)
(* number of concurrent firings and any clock.                             *)
THEOREM IntervalCorrect == Spec => []IntervalCoversEvents
<1>1. Init => IntervalInv
  BY DEF Init, IntervalInv, BufferTimes, IntervalCoversEvents
<1>2. TypeOK /\ IntervalInv /\ [Next]_accVars => IntervalInv'
  <2> SUFFICES ASSUME TypeOK, IntervalInv, [Next]_accVars
               PROVE  IntervalInv'
    OBVIOUS
  <2>t. /\ buffer \in Seq(Event) /\ Len(buffer) \in Nat
        /\ clock \in Nat /\ lastTickTime \in Nat
        /\ shipping \in [Firers -> Package \union {NoPackage}]
    BY LenProperties DEF TypeOK
  <2>1. ASSUME NEW npc \in NpcNames \union {NoNpc}, Push(npc)
        PROVE  IntervalInv'
    <3> DEFINE e == NewEvent(npc)
    <3>1. e \in Event /\ e.at = clock
      BY NewEventType DEF NewEvent
    <3> HIDE DEF e
    <3>2. buffer' = Append(buffer, e) /\ UNCHANGED <<clock, lastTickTime, shipping>>
      BY <2>1 DEF Push, Registered, e
    <3>3. /\ Len(buffer') = Len(buffer) + 1
          /\ \A i \in 1..Len(buffer) : buffer'[i] = buffer[i]
          /\ buffer'[Len(buffer) + 1] = e
      BY <2>t, <3>1, <3>2, AppendProperties
    <3>4. BufferTimes'
      BY <2>t, <3>1, <3>2, <3>3 DEF IntervalInv, BufferTimes
    <3>5. IntervalCoversEvents'
      BY <3>2 DEF IntervalInv, IntervalCoversEvents
    <3>6. QED
      BY <3>4, <3>5 DEF IntervalInv
  <2>2. ASSUME NEW f \in Firers, FireTick(f)
        PROVE  IntervalInv'
    <3>1. BufferTimes'
      BY <2>2, <2>t DEF FireTick, BufferTimes
    <3>2. ASSUME NEW g \in Firers, shipping'[g] # NoPackage,
                 NEW i \in DOMAIN shipping'[g].events
          PROVE  /\ shipping'[g].built - shipping'[g].elapsed <= shipping'[g].events[i].at
                 /\ shipping'[g].events[i].at <= shipping'[g].built
      <4>1. CASE g = f
        <5>1. shipping'[g] = Snapshot
          BY <2>2, <2>t, <4>1 DEF FireTick
        <5>2. /\ shipping'[g].events = buffer
              /\ shipping'[g].built = clock
              /\ shipping'[g].elapsed = clock - lastTickTime
          BY <5>1 DEF Snapshot
        <5>3. i \in 1..Len(buffer)
          BY <5>2, <2>t, LenProperties
        <5>4. clock - (clock - lastTickTime) = lastTickTime
          BY <2>t
        <5>5. QED
          BY <5>2, <5>3, <5>4 DEF IntervalInv, BufferTimes
      <4>2. CASE g # f
        <5>1. shipping'[g] = shipping[g]
          BY <2>2, <2>t, <4>2 DEF FireTick
        <5>2. QED
          BY <3>2, <5>1 DEF IntervalInv, IntervalCoversEvents
      <4>3. QED
        BY <4>1, <4>2
    <3>3. QED
      BY <3>1, <3>2 DEF IntervalInv, IntervalCoversEvents
  <2>3. ASSUME NEW f \in Firers,
               shipping' = [shipping EXCEPT ![f] = NoPackage],
               UNCHANGED <<buffer, lastTickTime, clock>>
        PROVE  IntervalInv'
    <3>1. \A g \in Firers : shipping'[g] # NoPackage => shipping'[g] = shipping[g]
      BY <2>3, <2>t
    <3>2. QED
      BY <2>3, <3>1 DEF IntervalInv, BufferTimes, IntervalCoversEvents
  <2>4. ASSUME NEW f \in Firers, CallbackReturns(f)
        PROVE  IntervalInv'
    BY <2>3, <2>4 DEF CallbackReturns
  <2>5. CASE Stop
    BY <2>3, <2>5 DEF Stop, Firers
  <2>6. CASE Tick
    <3>1. BufferTimes'
      <4>1. clock' = clock + 1 /\ UNCHANGED <<buffer, lastTickTime>>
        BY <2>6 DEF Tick
      <4>2. ASSUME NEW i \in 1..Len(buffer)
            PROVE  buffer[i].at \in Nat
        <5>1. buffer[i] \in Event
          BY <2>t, ElementOfSeq
        <5>2. QED
          BY <5>1 DEF Event
      <4>3. QED
        BY <4>1, <4>2, <2>t DEF IntervalInv, BufferTimes
    <3>2. IntervalCoversEvents'
      BY <2>6 DEF Tick, IntervalInv, IntervalCoversEvents
    <3>3. QED
      BY <3>1, <3>2 DEF IntervalInv
  <2>7. CASE UNCHANGED <<buffer, lastTickTime, clock, shipping>>
    BY <2>7 DEF IntervalInv, BufferTimes, IntervalCoversEvents
  <2>8. QED
    BY <2>1, <2>2, <2>4, <2>5, <2>6, <2>7
    DEF Next, ClearNpcs, RegisterVoicetype, accVars
<1>3. IntervalInv => IntervalCoversEvents
  BY DEF IntervalInv
<1>4. QED
  BY <1>1, <1>2, <1>3, TypeCorrect, PTL DEF Spec

(* A step of the accumulator is a step of the feed, or leaves it alone.     *)
LEMMA StepSimulation ==
  ASSUME TypeOK, NothingLostNothingTwice, NothingLostNothingTwice', [Next]_accVars
  PROVE  [Feed!FeedNext]_<<pushed, shipped>>
<1>t. /\ pushed \in Seq(Event) /\ Len(pushed) \in Nat
      /\ shipped \in Seq(Event) /\ Len(shipped) \in Nat
      /\ buffer \in Seq(Event) /\ Len(buffer) \in Nat
  BY LenProperties DEF TypeOK
<1>1. ASSUME NEW npc \in NpcNames \union {NoNpc}, Push(npc)
      PROVE  Feed!Produce
  <2> DEFINE e == NewEvent(npc)
  <2>1. e \in Event
    BY NewEventType
  <2> HIDE DEF e
  <2>2. pushed' = Append(pushed, e) /\ shipped' = shipped
    BY <1>1 DEF Push, Registered, e
  <2>3. /\ pushed' \in Seq(Event)
        /\ Len(pushed') = Len(pushed) + 1
        /\ \A i \in 1..Len(pushed) : pushed[i] = pushed'[i]
    BY <1>t, <2>1, <2>2, AppendProperties
  <2>4. Feed!Prefix(pushed, pushed')
    BY <1>t, <2>3 DEF Feed!Prefix
  <2>5. QED
    BY <2>2, <2>3, <2>4 DEF Feed!Produce
<1>2. ASSUME NEW f \in Firers, FireTick(f)
      PROVE  Feed!Deliver
  <2>1. /\ shipped' = shipped \o buffer
        /\ buffer' = <<>>
        /\ pushed' = pushed
        /\ buffer # <<>>
    BY <1>2 DEF FireTick
  <2>2. Len(buffer) > 0
    BY <1>t, <2>1, EmptySeq
  <2>3. /\ shipped' \in Seq(Event)
        /\ Len(shipped') = Len(shipped) + Len(buffer)
        /\ \A i \in 1..Len(shipped) : shipped[i] = shipped'[i]
    BY <1>t, <2>1, ConcatProperties
  <2>4. shipped' = pushed
    BY <2>1 DEF NothingLostNothingTwice
  <2>5. Feed!Prefix(shipped, shipped') /\ Feed!Prefix(shipped', pushed)
    BY <1>t, <2>2, <2>3, <2>4 DEF Feed!Prefix
  <2>6. QED
    BY <1>t, <2>1, <2>2, <2>3, <2>5 DEF Feed!Deliver
<1>3. CASE UNCHANGED <<pushed, shipped>>
  BY <1>3
<1>4. QED
  BY <1>1, <1>2, <1>3
  DEF Next, ClearNpcs, RegisterVoicetype, CallbackReturns, Stop, Tick, accVars,
      Feed!FeedNext

(* The accumulator implements the feed: to the rest of the system it is a  *)
(* queue that delivers in order and exactly once, in non-empty batches.    *)
THEOREM AccumulatorImplementsFeed == Spec => ImplementsFeed
<1>1. Init => Feed!FeedInit
  BY DEF Init, Feed!FeedInit
<1>2. TypeOK /\ NothingLostNothingTwice /\ NothingLostNothingTwice' /\ [Next]_accVars
        => [Feed!FeedNext]_<<pushed, shipped>>
  BY StepSimulation
<1>3. QED
  BY <1>1, <1>2, TypeCorrect, NoLossNoDuplication, PTL
  DEF Spec, ImplementsFeed, Feed!FeedSpec, Feed!feedVars

-----------------------------------------------------------------------------
(* The WebSocket client.                                                   *)

(* The next connection is the one after the newest. *)
LEMMA NextIsNewest ==
  ASSUME LinkInvariant, Opened # Conns
  PROVE  /\ NextConn = receiveTask + 1
         /\ NextConn \in Conns
         /\ sock[NextConn] = "unopened"
<1> DEFINE n == receiveTask
<1>1. n \in Nat /\ Opened = 1..n /\ MaxConns \in Nat /\ Opened \subseteq Conns
  BY LinkAssumption DEF LinkInvariant, LinkTypeOK, NewestPair, Opened, Conns, None
<1>2. n + 1 \in Conns
  BY <1>1 DEF Conns
<1>3. sock[n + 1] = "unopened" /\ \A d \in 1..n : d \in Opened
  BY <1>1, <1>2 DEF Opened
<1>4. \A c \in Conns : sock[c] = "unopened" /\ (\A d \in 1..(c - 1) : d \in Opened)
                         => c = n + 1
  <2> SUFFICES ASSUME NEW c \in Conns, sock[c] = "unopened",
                      \A d \in 1..(c - 1) : d \in Opened
               PROVE  c = n + 1
    OBVIOUS
  <2>1. c \notin 1..n /\ c \in Nat \ {0}
    BY <1>1 DEF Opened, Conns
  <2>2. CASE c > n + 1
    <3>1. n + 1 \in 1..(c - 1)
      BY <1>1, <2>1, <2>2
    <3>2. QED
      BY <1>1, <3>1
  <2>3. QED
    BY <1>1, <2>1, <2>2
<1>5. NextConn = n + 1
  BY <1>1, <1>2, <1>3, <1>4 DEF NextConn
<1>6. QED
  BY <1>2, <1>3, <1>5

(* A connection that is opened becomes _ws with a receive task of its own, *)
(* whether connect() or the reconnect task opened it.                      *)
LEMMA EstablishKeepsInvariant ==
  ASSUME LinkInvariant, Establish,
         \/ main = "connecting" /\ main' = "up" /\ reconnect' = reconnect
         \/ reconnect = "connecting" /\ reconnect' = "idle" /\ main' = main
  PROVE  LinkInvariant'
<1> DEFINE n == receiveTask
           m == NextConn
<1>1. m = n + 1 /\ m \in Conns /\ sock[m] = "unopened"
  BY NextIsNewest DEF Establish
<1> HIDE DEF m
<1>2. /\ ws' = m /\ receiveTask' = m
      /\ loop' = [loop EXCEPT ![m] = "created"]
      /\ sock' = [sock EXCEPT ![m] = "open"]
      /\ UNCHANGED <<closing, reading, owed, inbox, ticks, dropped, drops, refusals>>
  BY DEF Establish, m
<1>3. n \in Nat /\ Opened = 1..n
  BY DEF LinkInvariant, LinkTypeOK, NewestPair, Opened, Conns, None
<1>4. Opened' = Opened \union {m} /\ Opened' = 1..m
  BY <1>1, <1>2, <1>3, SMTT(20) DEF LinkInvariant, LinkTypeOK, Opened
<1>5. \A k \in Conns : loop[k] # "created"
  BY DEF LinkInvariant, EachReadsItsOwn, SomebodysJob, None, Conns
<1>6. LinkTypeOK'
  BY <1>1, <1>2, <1>4 DEF LinkInvariant, LinkTypeOK, LoopStates, None, Conns
<1>7. NewestPair'
  BY <1>1, <1>2, <1>4 DEF LinkInvariant, LinkTypeOK, NewestPair
<1>8. EachReadsItsOwn'
  BY <1>1, <1>2, <1>5 DEF LinkInvariant, LinkTypeOK, EachReadsItsOwn, SomebodysJob
<1>9. SomebodysJob'
  BY <1>1, <1>2 DEF LinkInvariant, LinkTypeOK, SomebodysJob, Alive, None, Conns
<1>10. QED
  BY <1>2, <1>6, <1>7, <1>8, <1>9 DEF LinkInvariant

(* A step that opens no connection keeps which ones are opened. *)
LEMMA OpenedStays ==
  ASSUME LinkTypeOK,
         \/ sock' = sock
         \/ \E c \in Opened : sock' = [sock EXCEPT ![c] = "dead"]
  PROVE  Opened' = Opened
BY DEF LinkTypeOK, Opened

(* An attempt that is refused leaves a reconnect under way, unless Falcon  *)
(* is shutting down.                                                       *)
LEMMA RefusedKeepsInvariant ==
  ASSUME LinkInvariant, Refused,
         \/ main = "connecting" /\ main' = "up" /\ ScheduleReconnect(closing)
         \/ /\ reconnect = "connecting" /\ main' = main
            /\ reconnect' = IF closing THEN "idle" ELSE "sleeping"
  PROVE  LinkInvariant'
<1>1. /\ ws' = None /\ refusals < MaxRefusals /\ refusals' = refusals + 1
      /\ UNCHANGED <<closing, receiveTask, loop, reading, sock, owed, inbox,
                     ticks, dropped, drops>>
  BY DEF Refused
<1>2. reconnect' \in {"idle", "sleeping"} /\ (main' = "up" => reconnect' = "sleeping")
      /\ main' \in {"up", main}
  BY DEF LinkInvariant, SomebodysJob, ScheduleReconnect
<1>3. Opened' = Opened
  BY <1>1, OpenedStays DEF LinkInvariant
<1>4. LinkTypeOK'
  BY <1>1, <1>2, <1>3, LinkAssumption DEF LinkInvariant, LinkTypeOK
<1>5. NewestPair' /\ EachReadsItsOwn'
  BY <1>1, <1>2, <1>3 DEF LinkInvariant, NewestPair, EachReadsItsOwn
<1>6. SomebodysJob'
  BY <1>1, <1>2 DEF LinkInvariant, SomebodysJob, ScheduleReconnect, None, LinkTypeOK
<1>7. QED
  BY <1>1, <1>4, <1>5, <1>6 DEF LinkInvariant

(* A receive task that ends takes _ws with it and asks for a reconnect. *)
LEMMA FinallyKeepsInvariant ==
  ASSUME LinkInvariant, NEW k \in Conns, loop[k] = "reading", Finally(k),
         inbox' \in [Conns -> Seq(FrameTypes)],
         UNCHANGED <<closing, receiveTask, reading, main, sock, owed, ticks,
                     dropped, drops, refusals>>
  PROVE  LinkInvariant'
<1>1. /\ ws' = None
      /\ loop' = [loop EXCEPT ![k] = "ended"]
      /\ reconnect' \in {"idle", "sleeping", "connecting"}
      /\ reconnect' = "connecting" <=> reconnect = "connecting"
      /\ main = "up" => reconnect' # "idle"
      /\ main = "connecting" => reconnect' = "idle"
  BY DEF Finally, ScheduleReconnect, LinkInvariant, LinkTypeOK, SomebodysJob, NewestPair,
         Opened, Conns, None
<1>2. Opened' = Opened
  BY OpenedStays DEF LinkInvariant
<1>3. LinkTypeOK'
  BY <1>1, <1>2 DEF LinkInvariant, LinkTypeOK, LoopStates
<1>4. NewestPair' /\ EachReadsItsOwn'
  BY <1>1, <1>2 DEF LinkInvariant, LinkTypeOK, NewestPair, EachReadsItsOwn
<1>5. SomebodysJob'
  BY <1>1 DEF LinkInvariant, SomebodysJob
<1>6. QED
  BY <1>1, <1>3, <1>4, <1>5 DEF LinkInvariant

(* The strengthened invariant is one: every step of the client, of Progeny *)
(* and of the network keeps it.                                            *)
LEMMA StepKeepsInvariant ==
  ASSUME LinkInvariant, [LinkNext]_linkVars
  PROVE  LinkInvariant'
<1> USE DEF wireVars, clientVars
<1>1. CASE ConnectSucceeds
  BY <1>1, EstablishKeepsInvariant DEF ConnectSucceeds
<1>2. CASE ConnectFails
  BY <1>2, RefusedKeepsInvariant DEF ConnectFails
<1>3. CASE BackoffElapses
  <2>1. Opened' = Opened
    BY <1>3, OpenedStays DEF BackoffElapses, LinkInvariant
  <2>2. \A k \in Conns : loop[k] # "created"
    BY <1>3 DEF BackoffElapses, Ready
  <2>3. LinkTypeOK' /\ NewestPair'
    BY <1>3, <2>1 DEF BackoffElapses, LinkInvariant, LinkTypeOK, NewestPair
  <2>4. EachReadsItsOwn' /\ SomebodysJob'
    BY <1>3, <2>2
    DEF BackoffElapses, LinkInvariant, LinkTypeOK, EachReadsItsOwn, SomebodysJob, Alive
  <2>5. QED
    BY <1>3, <2>3, <2>4 DEF BackoffElapses, LinkInvariant
<1>4. CASE ReconnectSucceeds
  BY <1>4, EstablishKeepsInvariant DEF ReconnectSucceeds
<1>5. CASE ReconnectFails
  BY <1>5, RefusedKeepsInvariant DEF ReconnectFails
<1>6. CASE SendTick
  <2>1. /\ ticks \in 0..MaxTicks /\ ticks < MaxTicks /\ MaxTicks \in Nat
        /\ ticks' = ticks + 1
        /\ UNCHANGED <<ws, closing, receiveTask, loop, reading, main, sock, inbox,
                       drops, refusals>>
    BY <1>6, LinkAssumption DEF SendTick, LinkInvariant, LinkTypeOK
  <2>2. Opened' = Opened
    BY <2>1, OpenedStays DEF LinkInvariant
  <2>3. /\ reconnect' \in {"idle", "sleeping", "connecting"}
        /\ reconnect' = "connecting" <=> reconnect = "connecting"
        /\ reconnect' = "idle" => reconnect = "idle"
        /\ main = "connecting" => reconnect' = reconnect
    BY <1>6 DEF SendTick, ScheduleReconnect, LinkInvariant, LinkTypeOK, SomebodysJob,
                NewestPair
  <2>4. /\ dropped' \in 0..MaxTicks /\ dropped' <= ticks'
    BY <1>6, <2>1 DEF SendTick, LinkInvariant, LinkTypeOK
  <2>5. /\ owed' \in [Conns -> 0..MaxTicks] /\ \A c \in Conns : owed'[c] <= ticks'
    <3>1. CASE owed' = owed
      BY <2>1, <3>1 DEF LinkInvariant, LinkTypeOK
    <3>2. CASE owed' = [owed EXCEPT ![ws] = @ + 1]
      <4>1. \A c \in Conns : /\ owed[c] \in Nat /\ owed[c] <= ticks
                            /\ owed'[c] \in {owed[c], owed[c] + 1}
        BY <3>2 DEF LinkInvariant, LinkTypeOK
      <4>2. \A c \in Conns : owed'[c] \in 0..MaxTicks /\ owed'[c] <= ticks'
        BY <2>1, <4>1
      <4>3. QED
        BY <3>2, <4>2 DEF LinkInvariant, LinkTypeOK
    <3>3. QED
      BY <1>6, <3>1, <3>2 DEF SendTick
  <2>6. LinkTypeOK'
    BY <2>1, <2>2, <2>3, <2>4, <2>5 DEF LinkInvariant, LinkTypeOK
  <2>7. NewestPair' /\ EachReadsItsOwn' /\ SomebodysJob'
    BY <2>1, <2>2, <2>3
    DEF LinkInvariant, NewestPair, EachReadsItsOwn, SomebodysJob, Alive
  <2>8. QED
    BY <2>4, <2>5, <2>6, <2>7 DEF LinkInvariant
<1>7. ASSUME NEW k \in Conns, LoopStarts(k)
      PROVE  LinkInvariant'
  <2>1. k = receiveTask /\ ws \in {None, k} /\ k # None
    BY <1>7 DEF LoopStarts, LinkInvariant, EachReadsItsOwn, NewestPair, Conns, None
  <2>2. Opened' = Opened
    BY <1>7, OpenedStays DEF LoopStarts, LinkInvariant
  <2>3. LinkTypeOK'
    BY <1>7, <2>1, <2>2 DEF LoopStarts, LinkInvariant, LinkTypeOK, LoopStates
  <2>4. NewestPair' /\ EachReadsItsOwn'
    BY <1>7, <2>1, <2>2
    DEF LoopStarts, LinkInvariant, LinkTypeOK, NewestPair, EachReadsItsOwn
  <2>5. SomebodysJob'
    BY <1>7, <2>1 DEF LoopStarts, LinkInvariant, LinkTypeOK, SomebodysJob, Alive
  <2>6. QED
    BY <1>7, <2>3, <2>4, <2>5 DEF LoopStarts, LinkInvariant
<1>8. ASSUME NEW k \in Conns, ReadFrame(k)
      PROVE  LinkInvariant'
  <2> DEFINE c == reading[k]
  <2>1. /\ loop[k] = "reading" /\ c = k /\ inbox[c] # <<>>
        /\ inbox' = [inbox EXCEPT ![c] = Tail(@)]
        /\ UNCHANGED <<closing, receiveTask, reading, main, sock, owed, ticks,
                       dropped, drops, refusals>>
    BY <1>8 DEF ReadFrame, LinkInvariant, EachReadsItsOwn
  <2>2. inbox[c] \in Seq(FrameTypes)
    BY <2>1 DEF LinkInvariant, LinkTypeOK
  <2>3. Head(inbox[c]) \in FrameTypes /\ Tail(inbox[c]) \in Seq(FrameTypes)
    BY <2>1, <2>2, HeadTailProperties
  <2>4. inbox' \in [Conns -> Seq(FrameTypes)]
    BY <2>1, <2>3 DEF LinkInvariant, LinkTypeOK
  <2>5. CASE Head(inbox[c]) = "invalid"
    <3>1. Finally(k)
      BY <1>8, <2>5 DEF ReadFrame
    <3>2. QED
      BY <2>1, <2>4, <3>1, FinallyKeepsInvariant
  <2>6. CASE Head(inbox[c]) # "invalid"
    <3>1. /\ UNCHANGED <<ws, reconnect>>
          /\ loop' \in {loop, [loop EXCEPT ![k] = "callback"]}
      BY <1>8, <2>3, <2>6, LinkAssumption DEF ReadFrame
    <3>2. Opened' = Opened
      BY <2>1, OpenedStays DEF LinkInvariant
    <3>3. loop' \in [Conns -> LoopStates] /\ reading' = reading
      BY <2>1, <3>1 DEF LinkInvariant, LinkTypeOK, LoopStates
    <3>4. \A j \in Conns : loop'[j] \in {"reading", "callback"} => reading'[j] # None
      BY <2>1, <3>1, <3>3 DEF LinkInvariant, LinkTypeOK
    <3> HIDE DEF c
    <3>5. LinkTypeOK'
      BY <2>1, <2>4, <3>1, <3>2, <3>3, <3>4 DEF LinkInvariant, LinkTypeOK
    <3>6. \A j \in Conns : \/ loop'[j] = loop[j]
                           \/ j = k /\ loop'[j] = "callback" /\ loop[j] = "reading"
      BY <2>1, <3>1 DEF LinkInvariant, LinkTypeOK
    <3>7. NewestPair'
      BY <2>1, <3>1, <3>2, <3>6 DEF LinkInvariant, NewestPair
    <3>8. EachReadsItsOwn'
      BY <2>1, <3>1, <3>6 DEF LinkInvariant, EachReadsItsOwn
    <3>9. ws = None \/ ws \in Conns
      BY DEF LinkInvariant, LinkTypeOK, Opened
    <3>10. SomebodysJob'
      <4>1. ws # None /\ Alive(ws) => Alive(ws)'
        BY <3>1, <3>6, <3>9 DEF Alive
      <4>2. QED
        BY <2>1, <3>1, <4>1 DEF LinkInvariant, SomebodysJob, Alive
    <3>11. QED
      BY <2>1, <3>5, <3>7, <3>8, <3>10 DEF LinkInvariant
  <2>7. QED
    BY <2>5, <2>6
<1>9. ASSUME NEW k \in Conns, CallbackDone(k)
      PROVE  LinkInvariant'
  <2>1. Opened' = Opened
    BY <1>9, OpenedStays DEF CallbackDone, LinkInvariant
  <2>2. LinkTypeOK'
    BY <1>9, <2>1 DEF CallbackDone, LinkInvariant, LinkTypeOK, LoopStates
  <2>3. NewestPair' /\ EachReadsItsOwn' /\ SomebodysJob'
    BY <1>9, <2>1 DEF CallbackDone, LinkInvariant, LinkTypeOK, NewestPair, EachReadsItsOwn,
                      SomebodysJob, Alive
  <2>4. QED
    BY <1>9, <2>2, <2>3 DEF CallbackDone, LinkInvariant
<1>10. ASSUME NEW k \in Conns, LoopSeesClose(k)
       PROVE  LinkInvariant'
  <2>1. inbox' \in [Conns -> Seq(FrameTypes)]
    BY <1>10 DEF LoopSeesClose, LinkInvariant, LinkTypeOK
  <2>2. QED
    BY <1>10, <2>1, FinallyKeepsInvariant DEF LoopSeesClose
<1>11. CASE CloseBegins
  <2>1. Opened' = Opened
    BY <1>11, OpenedStays DEF CloseBegins, LinkInvariant
  <2>2. LinkTypeOK' /\ NewestPair' /\ EachReadsItsOwn' /\ SomebodysJob'
    BY <1>11, <2>1 DEF CloseBegins, LinkInvariant, LinkTypeOK, NewestPair,
                       EachReadsItsOwn, SomebodysJob
  <2>3. QED
    BY <1>11, <2>2 DEF CloseBegins, LinkInvariant
<1>12. CASE CancelReconnect
  <2>1. Opened' = Opened
    BY <1>12, OpenedStays DEF CancelReconnect, LinkInvariant
  <2>2. LinkTypeOK' /\ NewestPair' /\ EachReadsItsOwn' /\ SomebodysJob'
    BY <1>12, <2>1 DEF CancelReconnect, LinkInvariant, LinkTypeOK, NewestPair,
                       EachReadsItsOwn, SomebodysJob
  <2>3. QED
    BY <1>12, <2>2 DEF CancelReconnect, LinkInvariant
<1>13. CASE CancelReceive
  <2>1. Opened' = Opened
    BY <1>13, OpenedStays DEF CancelReceive, LinkInvariant
  <2>2. /\ closing /\ main' = "close_socket" /\ ws' \in {None, ws}
        /\ loop' = IF receiveTask = None THEN loop
                                         ELSE [loop EXCEPT ![receiveTask] = "ended"]
        /\ UNCHANGED <<closing, receiveTask, reading, reconnect, ticks, dropped,
                       refusals, sock, owed, inbox, drops>>
    BY <1>13 DEF CancelReceive, LinkInvariant, SomebodysJob
  <2>3. LinkTypeOK'
    BY <2>1, <2>2 DEF LinkInvariant, LinkTypeOK, LoopStates, Opened
  <2>4. NewestPair' /\ EachReadsItsOwn' /\ SomebodysJob'
    BY <2>1, <2>2 DEF LinkInvariant, LinkTypeOK, NewestPair, EachReadsItsOwn, SomebodysJob
  <2>5. QED
    BY <2>2, <2>3, <2>4 DEF LinkInvariant
<1>14. CASE CloseSocket
  <2>1. /\ closing /\ main' = "closed" /\ ws' = None
        /\ sock' = IF ws = None THEN sock ELSE [sock EXCEPT ![ws] = "dead"]
        /\ UNCHANGED <<closing, receiveTask, loop, reading, reconnect, owed, inbox,
                       ticks, dropped, drops, refusals>>
    BY <1>14 DEF CloseSocket, LinkInvariant, SomebodysJob
  <2>2. Opened' = Opened
    BY <2>1, OpenedStays DEF LinkInvariant, LinkTypeOK
  <2>3. LinkTypeOK'
    BY <2>1, <2>2 DEF LinkInvariant, LinkTypeOK
  <2>4. NewestPair' /\ EachReadsItsOwn' /\ SomebodysJob'
    BY <2>1, <2>2 DEF LinkInvariant, NewestPair, EachReadsItsOwn, SomebodysJob
  <2>5. QED
    BY <2>1, <2>3, <2>4 DEF LinkInvariant
<1>15. ASSUME NEW c \in Conns, ConnectionLost(c)
       PROVE  LinkInvariant'
  <2>1. c \in Opened
    BY <1>15 DEF ConnectionLost, Opened
  <2>2. Opened' = Opened
    BY <1>15, <2>1, OpenedStays DEF ConnectionLost, LinkInvariant
  <2>3. LinkTypeOK'
    BY <1>15, <2>2, LinkAssumption DEF ConnectionLost, LinkInvariant, LinkTypeOK
  <2>4. NewestPair' /\ EachReadsItsOwn' /\ SomebodysJob'
    BY <1>15, <2>2
    DEF ConnectionLost, LinkInvariant, NewestPair, EachReadsItsOwn, SomebodysJob, Alive
  <2>5. QED
    BY <1>15, <2>3, <2>4 DEF ConnectionLost, LinkInvariant
<1>16. ASSUME NEW c \in Conns, NEW type \in FrameTypes, ProgenyAnswers(c, type)
       PROVE  LinkInvariant'
  <2>1. Opened' = Opened
    BY <1>16, OpenedStays DEF ProgenyAnswers, LinkInvariant
  <2>2. inbox' \in [Conns -> Seq(FrameTypes)]
    BY <1>16, AppendProperties DEF ProgenyAnswers, LinkInvariant, LinkTypeOK
  <2>3. /\ owed' \in [Conns -> 0..MaxTicks] /\ \A d \in Conns : owed'[d] <= ticks'
    BY <1>16, LinkAssumption DEF ProgenyAnswers, LinkInvariant, LinkTypeOK
  <2>4. LinkTypeOK'
    BY <1>16, <2>1, <2>2, <2>3 DEF ProgenyAnswers, LinkInvariant, LinkTypeOK
  <2>5. NewestPair' /\ EachReadsItsOwn' /\ SomebodysJob'
    BY <1>16, <2>1
    DEF ProgenyAnswers, LinkInvariant, NewestPair, EachReadsItsOwn, SomebodysJob, Alive
  <2>6. QED
    BY <1>16, <2>3, <2>4, <2>5 DEF ProgenyAnswers, LinkInvariant
<1>17. CASE UNCHANGED linkVars
  BY <1>17 DEF linkVars, LinkInvariant, LinkTypeOK, NewestPair, EachReadsItsOwn,
               SomebodysJob, Alive, Opened
<1>18. QED
  BY <1>1, <1>2, <1>3, <1>4, <1>5, <1>6, <1>7, <1>8, <1>9, <1>10, <1>11, <1>12,
     <1>13, <1>14, <1>15, <1>16, <1>17 DEF LinkNext

(* The relations between _ws, the connections and the tasks hold in every  *)
(* state of the link, for any number of connections, losses and refusals:  *)
(* in particular a receive loop reads its own connection and no other.     *)
THEOREM LinkStaysSound == LinkSpec => []LinkInvariant
<1>1. LinkInit => LinkInvariant
  <2> SUFFICES ASSUME LinkInit
               PROVE  LinkInvariant
    OBVIOUS
  <2>1. Opened = {} /\ 1..receiveTask = {}
    BY DEF LinkInit, Opened, None
  <2>2. <<>> \in Seq(FrameTypes)
    OBVIOUS
  <2>3. LinkTypeOK
    <3>1. /\ loop \in [Conns -> LoopStates]
          /\ reading \in [Conns -> {None} \union Opened]
          /\ \A k \in Conns : loop[k] \notin {"reading", "callback"}
      BY DEF LinkInit, LoopStates
    <3>2. /\ sock \in [Conns -> {"unopened", "open", "dead"}]
          /\ owed \in [Conns -> 0..MaxTicks]
          /\ inbox \in [Conns -> Seq(FrameTypes)]
      BY <2>2, LinkAssumption DEF LinkInit
    <3>3. /\ ws \in {None} \union Opened /\ receiveTask \in {None} \union Opened
          /\ closing \in BOOLEAN
          /\ reconnect \in {"idle", "sleeping", "connecting"}
          /\ main \in {"connecting", "up", "cancel_reconnect", "cancel_receive",
                       "close_socket", "closed"}
      BY DEF LinkInit
    <3>4. /\ ticks \in 0..MaxTicks /\ dropped \in 0..MaxTicks
          /\ drops \in 0..MaxDrops /\ refusals \in 0..MaxRefusals
      BY LinkAssumption DEF LinkInit
    <3>5. QED
      BY <3>1, <3>2, <3>3, <3>4 DEF LinkTypeOK
  <2>4. dropped <= ticks /\ \A c \in Conns : owed[c] <= ticks
    <3>1. ticks = 0 /\ dropped = 0 /\ \A c \in Conns : owed[c] = 0
      BY DEF LinkInit
    <3>2. QED
      BY <3>1
  <2>5. NewestPair
    BY <2>1 DEF LinkInit, NewestPair
  <2>6. EachReadsItsOwn /\ SomebodysJob
    BY DEF LinkInit, EachReadsItsOwn, SomebodysJob
  <2>7. QED
    BY <2>3, <2>4, <2>5, <2>6 DEF LinkInvariant
<1>2. LinkInvariant /\ [LinkNext]_linkVars => LinkInvariant'
  BY StepKeepsInvariant
<1>3. QED
  BY <1>1, <1>2, PTL DEF LinkSpec

(* Until close(), an unusable link is always somebody's job: a reconnect   *)
(* is under way, or the receive task of the dead connection in _ws has yet *)
(* to find out and will schedule one.                                      *)
THEOREM LinkIsNeverStranded == LinkSpec => []NeverStranded
<1>1. LinkInvariant => NeverStranded
  BY DEF LinkInvariant, LinkTypeOK, SomebodysJob, NeverStranded, Opened
<1>2. QED
  BY <1>1, LinkStaysSound, PTL

(* The connection in _ws, on which ticks are sent, is one whose answers    *)
(* are read, or about to be.                                               *)
THEOREM LinkListens == LinkSpec => []ListensWhereItTalks
<1>1. LinkInvariant => ListensWhereItTalks
  BY DEF LinkInvariant, LinkTypeOK, EachReadsItsOwn, SomebodysJob, ListensWhereItTalks,
         Usable, Alive, Opened
<1>2. QED
  BY <1>1, LinkStaysSound, PTL

-----------------------------------------------------------------------------
(* The relay.                                                              *)

(* What is in a sequence after the operations of a queue.                  *)

LEMMA NothingInEmpty ==
  Occurring(<<>>) = {} /\ NoRepeat(<<>>)
BY DEF Occurring, NoRepeat, Range

LEMMA AppendOccurs ==
  ASSUME NEW S, NEW s \in Seq(S), NEW x \in S
  PROVE  /\ Occurring(Append(s, x)) = Occurring(s) \union ({x} \ {Empty})
         /\ NoRepeat(s) /\ x \notin Occurring(s) => NoRepeat(Append(s, x))
<1> DEFINE t == Append(s, x)
<1>1. /\ t \in Seq(S) /\ Len(t) = Len(s) + 1 /\ t[Len(s) + 1] = x
      /\ \A i \in 1..Len(s) : t[i] = s[i]
  BY AppendProperties
<1>2. Len(s) \in Nat /\ DOMAIN s = 1..Len(s) /\ DOMAIN t = 1..(Len(s) + 1)
  BY <1>1, LenProperties
<1> HIDE DEF t
<1>3. Range(t) = Range(s) \union {x}
  <2>1. ASSUME NEW y \in Range(t)
        PROVE  y \in Range(s) \union {x}
    <3>1. PICK i \in 1..(Len(s) + 1) : y = t[i]
      BY <1>2, <2>1 DEF Range
    <3>2. QED
      BY <1>1, <1>2, <3>1 DEF Range
  <2>2. ASSUME NEW y \in Range(s)
        PROVE  y \in Range(t)
    <3>1. PICK i \in 1..Len(s) : y = s[i]
      BY <1>2, <2>2 DEF Range
    <3>2. i \in DOMAIN t /\ t[i] = y
      BY <1>1, <1>2, <3>1
    <3>3. QED
      BY <3>2 DEF Range
  <2>3. x \in Range(t)
    BY <1>1, <1>2 DEF Range
  <2>4. QED
    BY <2>1, <2>2, <2>3
<1>4. Occurring(t) = Occurring(s) \union ({x} \ {Empty})
  BY <1>3 DEF Occurring
<1>5. ASSUME NoRepeat(s), x \notin Occurring(s)
      PROVE  NoRepeat(t)
  <2> SUFFICES ASSUME NEW i \in DOMAIN t, NEW j \in DOMAIN t,
                      t[i] = t[j], t[i] # Empty
               PROVE  i = j
    BY DEF NoRepeat
  <2>1. \A k \in 1..Len(s) : s[k] # Empty => s[k] # x
    BY <1>2, <1>5 DEF Occurring, Range
  <2>2. CASE i \in 1..Len(s) /\ j \in 1..Len(s)
    BY <1>1, <1>2, <1>5, <2>2 DEF NoRepeat
  <2>3. CASE ~(i \in 1..Len(s) /\ j \in 1..Len(s))
    BY <1>1, <1>2, <2>1, <2>3
  <2>4. QED
    BY <2>2, <2>3
<1>6. QED
  BY <1>4, <1>5 DEF t

LEMMA TailOccurs ==
  ASSUME NEW S, NEW s \in Seq(S), s # <<>>, NoRepeat(s)
  PROVE  /\ NoRepeat(Tail(s))
         /\ Occurring(s) = Occurring(Tail(s)) \union ({Head(s)} \ {Empty})
         /\ Head(s) \notin Occurring(Tail(s))
<1> DEFINE t == Tail(s)
<1>1. /\ t \in Seq(S) /\ Len(t) = Len(s) - 1
      /\ \A i \in 1..Len(t) : t[i] = s[i + 1]
  BY HeadTailProperties
<1>2. /\ Len(s) \in Nat \ {0} /\ DOMAIN s = 1..Len(s) /\ DOMAIN t = 1..(Len(s) - 1)
      /\ Head(s) = s[1]
  BY <1>1, EmptySeq, LenProperties
<1> HIDE DEF t
<1>3. \A i \in DOMAIN t : i \in 1..(Len(s) - 1) /\ i + 1 \in DOMAIN s /\ t[i] = s[i + 1]
  BY <1>1, <1>2
<1>4. NoRepeat(t)
  <2> SUFFICES ASSUME NEW i \in DOMAIN t, NEW j \in DOMAIN t,
                      t[i] = t[j], t[i] # Empty
               PROVE  i = j
    BY DEF NoRepeat
  <2>1. i + 1 = j + 1
    BY <1>3 DEF NoRepeat
  <2>2. QED
    BY <1>3, <2>1
<1>5. Range(s) = Range(t) \union {Head(s)}
  <2>1. ASSUME NEW y \in Range(s)
        PROVE  y \in Range(t) \union {Head(s)}
    <3>1. PICK i \in 1..Len(s) : y = s[i]
      BY <1>2, <2>1 DEF Range
    <3>2. CASE i # 1
      <4>1. i - 1 \in DOMAIN t /\ t[i - 1] = y
        BY <1>1, <1>2, <3>1, <3>2
      <4>2. QED
        BY <4>1 DEF Range
    <3>3. QED
      BY <1>2, <3>1, <3>2
  <2>2. ASSUME NEW y \in Range(t)
        PROVE  y \in Range(s)
    <3>1. PICK i \in DOMAIN t : y = t[i]
      BY <2>2 DEF Range
    <3>2. QED
      BY <1>3, <3>1 DEF Range
  <2>3. Head(s) \in Range(s)
    BY <1>2 DEF Range
  <2>4. QED
    BY <2>1, <2>2, <2>3
<1>6. Head(s) \notin Occurring(t)
  <2> SUFFICES ASSUME Head(s) \in Occurring(t)
               PROVE  FALSE
    OBVIOUS
  <2>1. PICK i \in DOMAIN t : Head(s) = t[i] /\ t[i] # Empty
    BY DEF Occurring, Range
  <2>2. i + 1 = 1
    BY <1>2, <1>3, <2>1 DEF NoRepeat
  <2>3. QED
    BY <1>3, <2>2
<1>7. QED
  BY <1>4, <1>5, <1>6 DEF Occurring, t

LEMMA AppendToConcat ==
  ASSUME NEW S, NEW s \in Seq(S), NEW t \in Seq(S), NEW x \in S
  PROVE  Append(s \o t, x) = s \o Append(t, x)
<1> DEFINE one == <<x>>
<1>1. one \in Seq(S) /\ s \o t \in Seq(S)
  BY ConcatProperties
<1>2. Append(t, x) = t \o one /\ Append(s \o t, x) = (s \o t) \o one
  BY <1>1, AppendIsConcat
<1> HIDE DEF one
<1>3. (s \o t) \o one = s \o (t \o one)
  BY ONLY <1>1, s \in Seq(S), t \in Seq(S), ConcatAssociative, SMTT(60)
<1>4. QED
  BY <1>2, <1>3

LEMMA HeadMovesOver ==
  ASSUME NEW S, NEW s \in Seq(S), NEW t \in Seq(S), t # <<>>
  PROVE  Append(s, Head(t)) \o Tail(t) = s \o t
<1> DEFINE one == <<Head(t)>>
<1>1. Head(t) \in S /\ Tail(t) \in Seq(S) /\ one \in Seq(S)
  BY HeadTailProperties
<1>2. Append(s, Head(t)) = s \o one /\ t = one \o Tail(t)
  BY <1>1, AppendIsConcat
<1> HIDE DEF one
<1>3. (s \o one) \o Tail(t) = s \o (one \o Tail(t))
  BY ONLY <1>1, s \in Seq(S), ConcatAssociative, SMTT(60)
<1>4. QED
  BY <1>2, <1>3

-----------------------------------------------------------------------------
(* The response queue.                                                     *)

(* A queued text, which is new to the queue, is behind all others and takes *)
(* at most the oldest out of it.                                           *)
LEMMA EnqueueIsOrderly ==
  ASSUME RelayTypeOK, QueueIsFifo, NoRepeat(queue),
         Occurring(queue) \intersect Occurring(dequeued) = {},
         NEW text \in Texts, text \notin Occurring(queue) \union Occurring(dequeued),
         Enqueue(text)
  PROVE  /\ queue' \in Seq(Texts) /\ Len(queue') <= QueueMax
         /\ enqueued' \in Seq(Texts) /\ dequeued' \in Seq(Texts)
         /\ QueueIsFifo' /\ NoRepeat(queue')
         /\ Occurring(queue') \intersect Occurring(dequeued') = {}
         /\ Occurring(queue') \union Occurring(dequeued')
              = Occurring(queue) \union Occurring(dequeued) \union {text}
         /\ Occurring(dequeued) \subseteq Occurring(dequeued')
<1>t. /\ queue \in Seq(Texts) /\ enqueued \in Seq(Texts) /\ dequeued \in Seq(Texts)
      /\ Len(queue) \in Nat /\ Len(queue) <= QueueMax /\ QueueMax \in Nat \ {0}
      /\ text \in Texts /\ text # Empty
  BY RelayAssumption, LenProperties DEF RelayTypeOK
<1>1. /\ enqueued' = Append(enqueued, text) /\ enqueued' \in Seq(Texts)
  BY <1>t, AppendProperties DEF Enqueue
<1>2. enqueued = dequeued \o queue
  BY DEF QueueIsFifo
<1>3. CASE Len(queue) < QueueMax
  <2>1. queue' = Append(queue, text) /\ dequeued' = dequeued
    BY <1>3 DEF Enqueue
  <2>2. queue' \in Seq(Texts) /\ Len(queue') = Len(queue) + 1
    BY <1>t, <2>1, AppendProperties
  <2>3. QueueIsFifo'
    <3>1. dequeued \o Append(queue, text) = Append(dequeued \o queue, text)
      BY <1>t, AppendToConcat, Z3
    <3>2. QED
      BY <1>1, <1>2, <2>1, <3>1 DEF QueueIsFifo
  <2>4. /\ Occurring(queue') = Occurring(queue) \union {text}
        /\ NoRepeat(queue')
    <3>1. /\ Occurring(Append(queue, text)) = Occurring(queue) \union ({text} \ {Empty})
          /\ NoRepeat(Append(queue, text))
      BY <1>t, AppendOccurs
    <3>2. QED
      BY <1>t, <2>1, <3>1
  <2>5. QED
    BY <1>t, <1>1, <1>3, <2>1, <2>2, <2>3, <2>4
<1>4. CASE Len(queue) >= QueueMax
  <2> DEFINE oldest == Head(queue)
             rest == Tail(queue)
  <2>1. queue' = Append(rest, text) /\ dequeued' = Append(dequeued, oldest)
    BY <1>t, <1>4 DEF Enqueue
  <2>2. queue # <<>>
    BY <1>t, <1>4
  <2>3. oldest \in Texts /\ rest \in Seq(Texts) /\ Len(rest) = Len(queue) - 1
    BY <1>t, <2>2, HeadTailProperties
  <2>4. dequeued' \o rest = enqueued
    BY <1>t, <1>2, <2>1, <2>2, HeadMovesOver
  <2>5. /\ NoRepeat(rest)
        /\ Occurring(queue) = Occurring(rest) \union ({oldest} \ {Empty})
        /\ oldest \notin Occurring(rest)
    BY <1>t, <2>2, TailOccurs
  <2> HIDE DEF oldest, rest
  <2>6. /\ queue' \in Seq(Texts) /\ Len(queue') = Len(queue)
        /\ dequeued' \in Seq(Texts)
    BY <1>t, <2>1, <2>3, AppendProperties
  <2>7. QueueIsFifo'
    <3>1. dequeued' \o Append(rest, text) = Append(dequeued' \o rest, text)
      <4>1. /\ rest \in Seq(Texts) /\ dequeued' \in Seq(Texts) /\ text \in Texts
        BY <1>t, <2>3, <2>6
      <4>2. QED
        BY <4>1, AppendToConcat, Z3
    <3>2. QED
      BY <1>1, <2>1, <2>4, <3>1 DEF QueueIsFifo
  <2>8. Occurring(dequeued') = Occurring(dequeued) \union ({oldest} \ {Empty})
    BY <1>t, <2>1, <2>3, AppendOccurs
  <2>9. Occurring(queue') = Occurring(rest) \union {text} /\ NoRepeat(queue')
    BY <1>t, <2>1, <2>3, <2>5, AppendOccurs
  <2>10. /\ Occurring(queue') \intersect Occurring(dequeued') = {}
         /\ Occurring(queue') \union Occurring(dequeued')
              = Occurring(queue) \union Occurring(dequeued) \union {text}
         /\ Occurring(dequeued) \subseteq Occurring(dequeued')
    BY <1>t, <2>5, <2>8, <2>9
  <2>11. QED
    BY <1>t, <1>1, <2>6, <2>7, <2>9, <2>10
<1>5. QED
  BY <1>t, <1>3, <1>4

(* The taker of a text gets the oldest, which nobody took before.          *)
LEMMA DequeueIsOrderly ==
  ASSUME RelayTypeOK, QueueIsFifo, NoRepeat(queue),
         Occurring(queue) \intersect Occurring(dequeued) = {},
         Dequeue
  PROVE  /\ queue' \in Seq(Texts) /\ Len(queue') <= QueueMax
         /\ enqueued' \in Seq(Texts) /\ dequeued' \in Seq(Texts)
         /\ QueueIsFifo' /\ NoRepeat(queue')
         /\ Occurring(queue') \intersect Occurring(dequeued') = {}
         /\ Occurring(queue') \union Occurring(dequeued')
              = Occurring(queue) \union Occurring(dequeued)
         /\ Occurring(dequeued) \subseteq Occurring(dequeued')
         /\ queue # <<>> => /\ Head(queue) \in Texts
                            /\ Head(queue) \notin Occurring(dequeued)
                            /\ Head(queue) \in Occurring(dequeued')
<1>t. /\ queue \in Seq(Texts) /\ enqueued \in Seq(Texts) /\ dequeued \in Seq(Texts)
      /\ Len(queue) \in Nat /\ Len(queue) <= QueueMax /\ QueueMax \in Nat \ {0}
      /\ Empty \notin Texts
  BY RelayAssumption, LenProperties DEF RelayTypeOK
<1>1. CASE queue = <<>>
  BY <1>t, <1>1 DEF Dequeue, QueueIsFifo
<1>2. CASE queue # <<>>
  <2>1. queue' = Tail(queue) /\ dequeued' = Append(dequeued, Head(queue))
        /\ enqueued' = enqueued
    BY <1>2 DEF Dequeue
  <2>2. /\ Head(queue) \in Texts /\ Tail(queue) \in Seq(Texts)
        /\ Len(Tail(queue)) = Len(queue) - 1
    BY <1>t, <1>2, HeadTailProperties
  <2>3. queue' \in Seq(Texts) /\ Len(queue') <= QueueMax /\ dequeued' \in Seq(Texts)
    BY <1>t, <2>1, <2>2, AppendProperties
  <2>4. QueueIsFifo'
    BY <1>t, <1>2, <2>1, HeadMovesOver DEF QueueIsFifo
  <2>5. /\ NoRepeat(queue')
        /\ Occurring(queue) = Occurring(queue') \union {Head(queue)}
        /\ Head(queue) \notin Occurring(queue')
    BY <1>t, <1>2, <2>1, <2>2, TailOccurs
  <2>6. Occurring(dequeued') = Occurring(dequeued) \union {Head(queue)}
    BY <1>t, <2>1, <2>2, AppendOccurs
  <2>7. QED
    BY <1>t, <2>1, <2>2, <2>3, <2>4, <2>5, <2>6
<1>3. QED
  BY <1>1, <1>2

-----------------------------------------------------------------------------
(* Types, and the release of all who wait.                                 *)

(* What the steps that give or take a text from the queue do to it. *)
QueueTypes ==
  /\ queue \in Seq(Texts) /\ Len(queue) <= QueueMax
  /\ enqueued \in Seq(Texts) /\ dequeued \in Seq(Texts)

LEMMA SendTypes ==
  ASSUME RelayTypeOK, NEW inputs \in Seq(Inputs), Send(inputs)
  PROVE  turns' \in Seq(Inputs)
<1>1. CASE inputs = <<>>
  BY <1>1 DEF Send, RelayTypeOK
<1>2. CASE inputs # <<>>
  <2>1. Len(inputs) \in 1..Len(inputs)
    BY <1>2, EmptySeq
  <2>2. Last(inputs) \in Inputs
    BY <2>1, ElementOfSeq DEF Last
  <2>3. Append(turns, Last(inputs)) \in Seq(Inputs)
    BY <2>2, AppendProperties DEF RelayTypeOK
  <2>4. QED
    BY <1>2, <2>3 DEF Send, RelayTypeOK
<1>3. QED
  BY <1>1, <1>2

LEMMA SetReadyTypes ==
  ASSUME RelayTypeOK, SetReady
  PROVE  /\ ready' \in BOOLEAN /\ woken' \in Seq(Streams)
         /\ waiting' = <<>> /\ waiting' \in Seq(Streams)
<1>1. woken \in Seq(Streams) /\ waiting \in Seq(Streams)
  BY DEF RelayTypeOK
<1>2. woken \o waiting \in Seq(Streams)
  BY <1>1, ConcatProperties
<1>3. QED
  BY <1>2, EmptySeq DEF SetReady

LEMMA HoldTypes ==
  ASSUME RelayTypeOK, NEW s \in Streams, Hold(s)
  PROVE  ready' = FALSE /\ waiting' \in Seq(Streams)
BY AppendProperties DEF RelayTypeOK, Hold

(* The invariant, with what is spoken. *)
RelayInv == RelayInvariant /\ SpokenOnce

(* Every step that leaves the queue alone, or that keeps it in order, keeps *)
(* the types.                                                              *)
LEMMA StepKeepsTypes ==
  ASSUME RelayInv, [RelayNext]_relayVars, QueueTypes'
  PROVE  RelayTypeOK' /\ SetReleasesAll'
<1> USE DEF queueVars, httpVars
<1>t. RelayTypeOK /\ SetReleasesAll /\ Inputs \subseteq Texts /\ Streams \subseteq Inputs
      /\ Empty \notin Inputs
  BY RelayAssumption DEF RelayInv, RelayInvariant, Inputs, Texts
<1>e. \A S : <<>> \in Seq(S)
  BY EmptySeq
<1>1. ASSUME NEW s \in Streams, StreamInput(s)
      PROVE  RelayTypeOK' /\ SetReleasesAll'
  <2>1. Append(pending, s) \in Seq(Inputs)
    BY <1>t, AppendProperties DEF RelayTypeOK
  <2>2. turns' \in Seq(Inputs)
    BY <1>t, <1>1, <2>1, SendTypes DEF StreamInput
  <2>3. pending' = <<>> /\ pending' \in Seq(Inputs)
    BY <1>1, <1>e DEF StreamInput
  <2>4. /\ ready' \in BOOLEAN /\ waiting' \in Seq(Streams)
        /\ sending' \subseteq Streams
        /\ ready' => waiting' = <<>>
    <3>1. CASE Hold(s) /\ UNCHANGED sending
      BY <1>t, <3>1, HoldTypes DEF RelayTypeOK
    <3>2. CASE sending' = sending \union {s} /\ UNCHANGED <<ready, waiting>>
      BY <1>t, <3>2 DEF RelayTypeOK, SetReleasesAll
    <3>3. QED
      BY <1>1, <3>1, <3>2 DEF StreamInput
  <2>5. QED
    BY <1>t, <1>1, <2>2, <2>3, <2>4 DEF StreamInput, RelayTypeOK, SetReleasesAll, QueueTypes
<1>2. ASSUME NEW s \in Streams, SendReturns(s)
      PROVE  RelayTypeOK' /\ SetReleasesAll'
  <2>1. ready' = FALSE /\ waiting' \in Seq(Streams)
    BY <1>t, <1>2, HoldTypes DEF SendReturns
  <2>2. QED
    BY <1>t, <1>2, <2>1 DEF SendReturns, RelayTypeOK, SetReleasesAll, QueueTypes
<1>3. ASSUME NEW s \in Streams, ClientGivesUp(s)
      PROVE  RelayTypeOK' /\ SetReleasesAll'
  BY <1>t, <1>3 DEF ClientGivesUp, RelayTypeOK, SetReleasesAll, QueueTypes
<1>4. CASE HandlerReturns
  <2>1. /\ Head(woken) \in Streams /\ Tail(woken) \in Seq(Streams)
        /\ NextText \in Texts \union {Empty}
    BY <1>t, <1>4, HeadTailProperties DEF HandlerReturns, RelayTypeOK, NextText
  <2>2. answer' \in [Streams -> Texts \union {Empty, Pending}]
    BY <1>t, <1>4, <2>1 DEF HandlerReturns, RelayTypeOK
  <2>3. QED
    BY <1>t, <1>4, <2>1, <2>2 DEF HandlerReturns, RelayTypeOK, SetReleasesAll, QueueTypes
<1>5. ASSUME NEW t \in Typed, TypedInput(t)
      PROVE  RelayTypeOK' /\ SetReleasesAll'
  <2>1. pending' \in Seq(Inputs)
    BY <1>t, <1>5, AppendProperties DEF TypedInput, RelayTypeOK, Inputs
  <2>2. QED
    BY <1>t, <1>5, <2>1 DEF TypedInput, RelayTypeOK, SetReleasesAll, QueueTypes
<1>6. ASSUME NEW l \in Says, JustSay(l)
      PROVE  RelayTypeOK' /\ SetReleasesAll'
  BY <1>t, <1>6 DEF JustSay, RelayTypeOK, SetReleasesAll, QueueTypes
<1>7. CASE TickLoop
  <2>1. turns' \in Seq(Inputs)
    BY <1>t, <1>7, SendTypes DEF TickLoop, RelayTypeOK
  <2>2. pending' \in Seq(Inputs)
    BY <1>7, <1>e DEF TickLoop
  <2>3. QED
    BY <1>t, <1>7, <2>1, <2>2 DEF TickLoop, RelayTypeOK, SetReleasesAll, QueueTypes
<1>8. CASE Poll
  <2>1. Head(queue) \in Texts
    BY <1>t, <1>8, HeadTailProperties DEF Poll, RelayTypeOK
  <2>2. QED
    BY <1>t, <1>8, <2>1 DEF Poll, RelayTypeOK, SetReleasesAll, QueueTypes
<1>9. CASE ProgenyReplies
  <2>1. Head(turns) \in Inputs /\ Tail(turns) \in Seq(Inputs)
    BY <1>t, <1>9, HeadTailProperties DEF ProgenyReplies, RelayTypeOK
  <2>2. \A text \in {Head(turns), Empty} : Append(frames, text) \in Seq(Inputs \union {Empty})
    BY <1>t, <2>1, AppendProperties DEF RelayTypeOK
  <2>3. turns' \in Seq(Inputs) /\ frames' \in Seq(Inputs \union {Empty})
    BY <1>t, <1>9, <2>1, <2>2 DEF ProgenyReplies, RelayTypeOK
  <2>4. QED
    BY <1>t, <1>9, <2>3 DEF ProgenyReplies, RelayTypeOK, SetReleasesAll, QueueTypes
<1>10. CASE TurnArrives
  <2>1. Head(frames) \in Inputs \union {Empty} /\ Tail(frames) \in Seq(Inputs \union {Empty})
    BY <1>t, <1>10, HeadTailProperties DEF TurnArrives, RelayTypeOK
  <2>2. CASE Head(frames) = Empty
    <3>1. SetReady /\ callbacks' = callbacks
      BY <1>10, <2>2 DEF TurnArrives
    <3>2. /\ ready' \in BOOLEAN /\ woken' \in Seq(Streams)
          /\ waiting' = <<>> /\ waiting' \in Seq(Streams)
      BY <1>t, <3>1, SetReadyTypes
    <3>3. QED
      BY <1>t, <1>10, <2>1, <3>1, <3>2 DEF TurnArrives, RelayTypeOK, SetReleasesAll, QueueTypes
  <2>3. CASE Head(frames) # Empty
    <3>1. callbacks' = callbacks \union {Head(frames)} /\ UNCHANGED <<ready, waiting, woken>>
      BY <1>10, <2>3 DEF TurnArrives
    <3>2. callbacks' \subseteq Inputs
      BY <1>t, <2>1, <2>3, <3>1 DEF RelayTypeOK
    <3>3. QED
      BY <1>t, <1>10, <2>1, <3>1, <3>2 DEF TurnArrives, RelayTypeOK, SetReleasesAll, QueueTypes
  <2>4. QED
    BY <2>2, <2>3
<1>11. ASSUME NEW text \in Inputs, TurnHandled(text)
       PROVE  RelayTypeOK' /\ SetReleasesAll'
  <2>1. callbacks' \subseteq Inputs
    BY <1>t, <1>11 DEF TurnHandled, RelayTypeOK
  <2>2. /\ ready' \in BOOLEAN /\ woken' \in Seq(Streams)
        /\ waiting' = <<>> /\ waiting' \in Seq(Streams)
    BY <1>t, <1>11, SetReadyTypes DEF TurnHandled
  <2>3. QED
    BY <1>t, <1>11, <2>1, <2>2 DEF TurnHandled, RelayTypeOK, SetReleasesAll, QueueTypes
<1>12. CASE UNCHANGED relayVars
  BY <1>t, <1>12 DEF relayVars, RelayTypeOK, SetReleasesAll
<1>13. QED
  BY <1>1, <1>2, <1>3, <1>4, <1>5, <1>6, <1>7, <1>8, <1>9, <1>10, <1>11, <1>12 DEF RelayNext

-----------------------------------------------------------------------------
(* A text is in one place, and spoken once.                                *)

(* A package moves its last input on, if it is sent, and drops the rest.   *)
LEMMA SendMoves ==
  ASSUME RelayTypeOK, NoRepeat(turns), NEW inputs \in Seq(Inputs), Send(inputs),
         Occurring(inputs) \intersect Occurring(turns) = {}
  PROVE  /\ NoRepeat(turns')
         /\ Occurring(turns') \subseteq Occurring(turns) \union Occurring(inputs)
<1>1. CASE turns' = turns
  BY <1>1
<1>2. CASE turns' # turns
  <2> DEFINE last == Last(inputs)
  <2>1. inputs # <<>> /\ turns' = Append(turns, last)
    BY <1>2 DEF Send
  <2>2. Len(inputs) \in 1..Len(inputs) /\ DOMAIN inputs = 1..Len(inputs)
    BY <2>1, EmptySeq, LenProperties
  <2>3. last \in Inputs /\ last \in Range(inputs)
    BY <2>2, ElementOfSeq DEF Last, Range
  <2>4. last # Empty
    BY <2>3, RelayAssumption DEF Texts
  <2>5. last \in Occurring(inputs) /\ last \notin Occurring(turns)
    BY <2>3, <2>4 DEF Occurring
  <2> HIDE DEF last
  <2>6. turns \in Seq(Inputs)
    BY DEF RelayTypeOK
  <2>7. NoRepeat(turns') /\ Occurring(turns') = Occurring(turns) \union ({last} \ {Empty})
    BY <2>1, <2>3, <2>5, <2>6, AppendOccurs
  <2>8. QED
    BY <2>5, <2>7
<1>3. QED
  BY <1>1, <1>2

(* A step that changes neither the queue nor what is spoken, and moves      *)
(* texts on or drops them, keeps every text in one place.                  *)
LEMMA MovesKeepOnePlace ==
  ASSUME RelayInv, UNCHANGED <<queueVars, answer, polled>>,
         NoRepeat(pending'), NoRepeat(turns'), NoRepeat(frames'),
         unsent' \subseteq unsent,
         unsent' \intersect Occurring(pending') = {},
         Occurring(pending') \subseteq Occurring(pending) \union unsent,
         Occurring(pending') \intersect Occurring(turns') = {},
         Occurring(turns') \subseteq Occurring(turns) \union Occurring(pending) \union (unsent \ unsent'),
         Occurring(turns') \intersect Occurring(frames') = {},
         Occurring(frames') \subseteq Occurring(frames) \union Occurring(turns),
         Occurring(frames') \intersect callbacks' = {},
         callbacks' \subseteq callbacks \union Occurring(frames)
  PROVE  QueueTypes' /\ QueueIsFifo' /\ OnePlace' /\ SpokenOnce'
<1>1. QueueTypes' /\ QueueIsFifo' /\ SpokenOnce'
  BY DEF RelayInv, RelayInvariant, RelayTypeOK, QueueTypes, QueueIsFifo, SpokenOnce, queueVars
<1>2. OnePlace
  BY DEF RelayInv, RelayInvariant
<1>3. OnePlace'
  <2>1. /\ UNCHANGED <<queue, dequeued, answer, polled>>
    BY DEF queueVars
  <2>2. QED
    BY <1>2, <2>1 DEF OnePlace
<1>4. QED
  BY <1>1, <1>3

(* OnePlace, spelled out. *)
LEMMA PlacesApart ==
  ASSUME RelayTypeOK, OnePlace
  PROVE  /\ NoRepeat(pending) /\ NoRepeat(turns) /\ NoRepeat(frames) /\ NoRepeat(queue)
         /\ unsent \intersect Occurring(pending) = {}
         /\ unsent \intersect Occurring(turns) = {}
         /\ unsent \intersect Occurring(frames) = {}
         /\ unsent \intersect callbacks = {}
         /\ unsent \intersect Occurring(queue) = {}
         /\ unsent \intersect Occurring(dequeued) = {}
         /\ Occurring(pending) \intersect Occurring(turns) = {}
         /\ Occurring(pending) \intersect Occurring(frames) = {}
         /\ Occurring(pending) \intersect callbacks = {}
         /\ Occurring(pending) \intersect Occurring(queue) = {}
         /\ Occurring(pending) \intersect Occurring(dequeued) = {}
         /\ Occurring(turns) \intersect Occurring(frames) = {}
         /\ Occurring(turns) \intersect callbacks = {}
         /\ Occurring(turns) \intersect Occurring(queue) = {}
         /\ Occurring(turns) \intersect Occurring(dequeued) = {}
         /\ Occurring(frames) \intersect callbacks = {}
         /\ Occurring(frames) \intersect Occurring(queue) = {}
         /\ Occurring(frames) \intersect Occurring(dequeued) = {}
         /\ callbacks \intersect Occurring(queue) = {}
         /\ callbacks \intersect Occurring(dequeued) = {}
         /\ Occurring(queue) \intersect Occurring(dequeued) = {}
         /\ (polled \union Range(answer)) \intersect Texts \subseteq Occurring(dequeued)
BY Zenon DEF OnePlace

(* A text that is queued comes from one place, and leaves that place.      *)
LEMMA QueueingKeepsOnePlace ==
  ASSUME RelayInv, NEW text \in Texts,
         text \notin Occurring(queue) \union Occurring(dequeued), Enqueue(text),
         UNCHANGED <<pending, turns, frames, answer, polled>>,
         unsent' \subseteq unsent, callbacks' \subseteq callbacks,
         text \notin unsent' \union Occurring(pending) \union Occurring(turns)
                       \union Occurring(frames) \union callbacks'
  PROVE  QueueTypes' /\ QueueIsFifo' /\ OnePlace' /\ SpokenOnce'
<1>t. RelayTypeOK /\ QueueIsFifo /\ OnePlace /\ SpokenOnce
  BY DEF RelayInv, RelayInvariant
<1>p. /\ NoRepeat(pending) /\ NoRepeat(turns) /\ NoRepeat(frames) /\ NoRepeat(queue)
      /\ Occurring(queue) \intersect Occurring(dequeued) = {}
  BY <1>t, PlacesApart
<1>1. /\ queue' \in Seq(Texts) /\ Len(queue') <= QueueMax
      /\ enqueued' \in Seq(Texts) /\ dequeued' \in Seq(Texts)
      /\ QueueIsFifo' /\ NoRepeat(queue')
      /\ Occurring(queue') \intersect Occurring(dequeued') = {}
      /\ Occurring(queue') \union Occurring(dequeued')
           = Occurring(queue) \union Occurring(dequeued) \union {text}
      /\ Occurring(dequeued) \subseteq Occurring(dequeued')
  BY <1>t, <1>p, EnqueueIsOrderly
<1>2. /\ NoRepeat(pending') /\ NoRepeat(turns') /\ NoRepeat(frames')
      /\ Occurring(pending') = Occurring(pending) /\ Occurring(turns') = Occurring(turns)
      /\ Occurring(frames') = Occurring(frames) /\ Range(answer') = Range(answer)
      /\ polled' = polled
  BY <1>p
<1>3. OnePlace'
  BY <1>t, <1>1, <1>2, PlacesApart DEF OnePlace
<1>4. QED
  BY <1>t, <1>1, <1>3 DEF QueueTypes, SpokenOnce

(* Of a text that is taken, the oldest, nobody had any: it is spoken once.  *)
LEMMA TakingKeepsOnePlace ==
  ASSUME RelayInv, Dequeue,
         UNCHANGED <<pending, turns, frames, callbacks, unsent>>,
         \/ \E s \in Streams : answer' = [answer EXCEPT ![s] = NextText] /\ polled' = polled
         \/ queue # <<>> /\ polled' = polled \union {Head(queue)} /\ answer' = answer
  PROVE  QueueTypes' /\ QueueIsFifo' /\ OnePlace' /\ SpokenOnce'
<1>t. RelayTypeOK /\ QueueIsFifo /\ OnePlace /\ SpokenOnce
  BY DEF RelayInv, RelayInvariant
<1>p. /\ NoRepeat(pending) /\ NoRepeat(turns) /\ NoRepeat(frames) /\ NoRepeat(queue)
      /\ Occurring(queue) \intersect Occurring(dequeued) = {}
      /\ (polled \union Range(answer)) \intersect Texts \subseteq Occurring(dequeued)
  BY <1>t, PlacesApart
<1>1. /\ queue' \in Seq(Texts) /\ Len(queue') <= QueueMax
      /\ enqueued' \in Seq(Texts) /\ dequeued' \in Seq(Texts)
      /\ QueueIsFifo' /\ NoRepeat(queue')
      /\ Occurring(queue') \intersect Occurring(dequeued') = {}
      /\ Occurring(queue') \union Occurring(dequeued')
           = Occurring(queue) \union Occurring(dequeued)
      /\ Occurring(dequeued) \subseteq Occurring(dequeued')
      /\ queue # <<>> => /\ Head(queue) \in Texts
                         /\ Head(queue) \notin Occurring(dequeued)
                         /\ Head(queue) \in Occurring(dequeued')
  BY <1>t, <1>p, DequeueIsOrderly
<1>2. /\ NoRepeat(pending') /\ NoRepeat(turns') /\ NoRepeat(frames')
      /\ Occurring(pending') = Occurring(pending) /\ Occurring(turns') = Occurring(turns)
      /\ Occurring(frames') = Occurring(frames) /\ callbacks' = callbacks
      /\ unsent' = unsent
  BY <1>p
<1>a. /\ DOMAIN answer = Streams
      /\ \A t \in Streams : answer[t] \in Texts => answer[t] \in Occurring(dequeued)
      /\ \A x \in polled : x \in Occurring(dequeued)
  BY <1>t, <1>p DEF RelayTypeOK, Range
<1>n. /\ {Empty, Pending} \intersect Texts = {}
      /\ \A t \in Streams : answer[t] \in Texts \union {Empty, Pending}
      /\ polled \subseteq Texts
  BY <1>t, RelayAssumption DEF RelayTypeOK
<1>3. /\ (polled' \union Range(answer')) \intersect Texts \subseteq Occurring(dequeued')
      /\ SpokenOnce'
  <2>1. ASSUME NEW s \in Streams, answer' = [answer EXCEPT ![s] = NextText], polled' = polled
        PROVE  /\ (polled' \union Range(answer')) \intersect Texts \subseteq Occurring(dequeued')
               /\ SpokenOnce'
    <3>1. /\ NextText \in Texts => /\ NextText \notin Occurring(dequeued)
                                   /\ NextText \in Occurring(dequeued')
          /\ NextText \in Texts \union {Empty}
      BY <1>1, <1>n DEF NextText
    <3>2. /\ DOMAIN answer' = Streams
          /\ answer'[s] = NextText
          /\ \A t \in Streams : t # s => answer'[t] = answer[t]
      BY <1>a, <2>1
    <3>3. (polled' \union Range(answer')) \intersect Texts \subseteq Occurring(dequeued')
      <4> SUFFICES ASSUME NEW x \in Texts, x \in polled' \union Range(answer')
                   PROVE  x \in Occurring(dequeued')
        OBVIOUS
      <4>1. CASE x \in polled'
        BY <1>1, <1>a, <2>1, <4>1
      <4>2. CASE x \in Range(answer')
        <5>1. PICK t \in Streams : x = answer'[t]
          BY <3>2, <4>2 DEF Range
        <5>2. QED
          BY <1>1, <1>a, <3>1, <3>2, <5>1
      <4>3. QED
        BY <4>1, <4>2
    <3>4. ASSUME NEW t \in Streams, NEW u \in Streams, t # u, answer'[t] \in Texts
          PROVE  answer'[t] # answer'[u]
      <4>1. CASE t = s
        BY <1>a, <3>1, <3>2, <3>4, <4>1
      <4>2. CASE u = s
        BY <1>a, <3>1, <3>2, <3>4, <4>2
      <4>3. CASE t # s /\ u # s
        BY <1>t, <3>2, <3>4, <4>3 DEF SpokenOnce
      <4>4. QED
        BY <4>1, <4>2, <4>3
    <3>5. ASSUME NEW t \in Streams
          PROVE  answer'[t] \notin polled'
      <4>1. CASE t = s
        BY <1>a, <1>n, <2>1, <3>1, <3>2, <4>1
      <4>2. CASE t # s
        BY <1>t, <2>1, <3>2, <4>2 DEF SpokenOnce
      <4>3. QED
        BY <4>1, <4>2
    <3>6. QED
      BY <3>3, <3>4, <3>5 DEF SpokenOnce
  <2>2. ASSUME queue # <<>>, polled' = polled \union {Head(queue)}, answer' = answer
        PROVE  /\ (polled' \union Range(answer')) \intersect Texts \subseteq Occurring(dequeued')
               /\ SpokenOnce'
    <3>1. (polled' \union Range(answer')) \intersect Texts \subseteq Occurring(dequeued')
      BY <1>1, <1>p, <2>2
    <3>2. ASSUME NEW t \in Streams
          PROVE  answer'[t] \notin polled'
      BY <1>t, <1>1, <1>a, <2>2 DEF SpokenOnce
    <3>3. QED
      BY <1>t, <2>2, <3>1, <3>2 DEF SpokenOnce
  <2>3. QED
    BY <2>1, <2>2
<1>4. OnePlace'
  BY <1>t, <1>1, <1>2, <1>3, PlacesApart DEF OnePlace
<1>5. QED
  BY <1>1, <1>3, <1>4 DEF QueueTypes

LEMMA StepKeepsOnePlace ==
  ASSUME RelayInv, [RelayNext]_relayVars
  PROVE  QueueTypes' /\ QueueIsFifo' /\ OnePlace' /\ SpokenOnce'
<1> DEFINE Kept == QueueTypes' /\ QueueIsFifo' /\ OnePlace' /\ SpokenOnce'
<1>t. /\ RelayTypeOK /\ OnePlace
      /\ Inputs \subseteq Texts /\ Streams \subseteq Inputs /\ Says \subseteq Texts
      /\ Typed \subseteq Inputs /\ Empty \notin Texts
  BY RelayAssumption DEF RelayInv, RelayInvariant, Inputs, Texts
<1>s. /\ pending \in Seq(Inputs) /\ turns \in Seq(Inputs) /\ callbacks \subseteq Inputs
      /\ frames \in Seq(Inputs \union {Empty})
  BY <1>t DEF RelayTypeOK
<1>p. /\ NoRepeat(pending) /\ NoRepeat(turns) /\ NoRepeat(frames)
      /\ unsent \intersect Occurring(pending) = {}
      /\ unsent \intersect Occurring(turns) = {}
      /\ unsent \intersect Occurring(frames) = {}
      /\ unsent \intersect callbacks = {}
      /\ unsent \intersect Occurring(queue) = {}
      /\ unsent \intersect Occurring(dequeued) = {}
      /\ Occurring(pending) \intersect Occurring(turns) = {}
      /\ Occurring(pending) \intersect Occurring(frames) = {}
      /\ Occurring(pending) \intersect callbacks = {}
      /\ Occurring(turns) \intersect Occurring(frames) = {}
      /\ Occurring(turns) \intersect callbacks = {}
      /\ Occurring(frames) \intersect callbacks = {}
  BY <1>t, PlacesApart
<1>c. /\ Occurring(pending) \intersect callbacks = {}
      /\ callbacks \intersect Occurring(queue) = {}
      /\ callbacks \intersect Occurring(dequeued) = {}
  BY <1>t, PlacesApart
<1>e. Occurring(<<>>) = {} /\ NoRepeat(<<>>)
  BY NothingInEmpty
<1>1. ASSUME NEW s \in Streams, StreamInput(s)
      PROVE  Kept
  <2> DEFINE inputs == Append(pending, s)
  <2>1. /\ s \in Inputs /\ s # Empty /\ s \in unsent
        /\ unsent' = unsent \ {s} /\ pending' = <<>> /\ Send(inputs)
        /\ UNCHANGED <<frames, callbacks, answer, polled, queueVars>>
    BY <1>t, <1>1 DEF StreamInput
  <2>2. inputs \in Seq(Inputs) /\ Occurring(inputs) = Occurring(pending) \union {s}
    BY <1>s, <2>1, AppendProperties, AppendOccurs
  <2>3. Occurring(inputs) \intersect Occurring(turns) = {}
    BY <1>p, <2>1, <2>2
  <2>4. /\ NoRepeat(turns')
        /\ Occurring(turns') \subseteq Occurring(turns) \union Occurring(inputs)
    <3> HIDE DEF inputs
    <3>1. QED
      BY <1>t, <1>p, <2>1, <2>2, <2>3, SendMoves
  <2> HIDE DEF inputs
  <2>5. NoRepeat(pending') /\ Occurring(pending') = {} /\ NoRepeat(frames')
        /\ frames' = frames /\ callbacks' = callbacks
    BY <1>p, <1>e, <2>1
  <2>6. Occurring(turns') \intersect Occurring(frames') = {}
    BY <1>p, <2>1, <2>2, <2>4, <2>5, PlacesApart, <1>t
  <2>7. QED
    BY <1>p, <2>1, <2>2, <2>4, <2>5, <2>6, MovesKeepOnePlace
<1>2. ASSUME NEW s \in Streams, SendReturns(s) \/ ClientGivesUp(s)
      PROVE  Kept
  <2>1. UNCHANGED <<pending, turns, frames, callbacks, unsent, queueVars, answer, polled>>
    BY <1>2 DEF SendReturns, ClientGivesUp
  <2>2. QED
    BY <1>p, <2>1, MovesKeepOnePlace
<1>3. CASE HandlerReturns
  <2>1. /\ Dequeue /\ UNCHANGED <<pending, turns, frames, callbacks, unsent, polled>>
        /\ answer' = [answer EXCEPT ![Head(woken)] = NextText]
    BY <1>3 DEF HandlerReturns
  <2>2. Head(woken) \in Streams
    BY <1>t, <1>3, HeadTailProperties DEF HandlerReturns, RelayTypeOK
  <2>3. QED
    BY <2>1, <2>2, TakingKeepsOnePlace
<1>4. ASSUME NEW t \in Typed, TypedInput(t)
      PROVE  Kept
  <2>1. /\ t \in Inputs /\ t # Empty /\ t \in unsent
        /\ unsent' = unsent \ {t} /\ pending' = Append(pending, t)
        /\ UNCHANGED <<turns, frames, callbacks, answer, polled, queueVars>>
    BY <1>t, <1>4 DEF TypedInput
  <2>2. t \notin Occurring(pending)
    BY <1>p, <2>1
  <2>3. NoRepeat(pending') /\ Occurring(pending') = Occurring(pending) \union {t}
    BY <1>s, <1>p, <2>1, <2>2, AppendOccurs
  <2>4. QED
    BY <1>p, <2>1, <2>3, MovesKeepOnePlace
<1>5. ASSUME NEW l \in Says, JustSay(l)
      PROVE  Kept
  <2>1. /\ l \in Texts /\ l \in unsent /\ unsent' = unsent \ {l} /\ Enqueue(l)
        /\ UNCHANGED <<pending, turns, frames, callbacks, answer, polled>>
    BY <1>t, <1>5 DEF JustSay
  <2>2. QED
    BY <1>p, <2>1, QueueingKeepsOnePlace
<1>6. CASE TickLoop
  <2>1. /\ pending' = <<>> /\ Send(pending)
        /\ UNCHANGED <<unsent, frames, callbacks, answer, polled, queueVars>>
    BY <1>6 DEF TickLoop, httpVars
  <2>2. /\ NoRepeat(turns')
        /\ Occurring(turns') \subseteq Occurring(turns) \union Occurring(pending)
    BY <1>t, <1>s, <1>p, <2>1, SendMoves
  <2>3. Occurring(turns') \intersect Occurring(frames') = {}
    BY <1>p, <2>1, <2>2, PlacesApart, <1>t
  <2>4. NoRepeat(pending') /\ Occurring(pending') = {}
    BY <1>e, <2>1
  <2>5. QED
    BY <1>p, <2>1, <2>2, <2>3, <2>4, MovesKeepOnePlace
<1>7. CASE Poll
  <2>1. /\ Dequeue /\ UNCHANGED <<pending, turns, frames, callbacks, unsent, answer>>
        /\ queue # <<>> /\ polled' = polled \union {Head(queue)}
    BY <1>7 DEF Poll
  <2>2. QED
    BY <2>1, TakingKeepsOnePlace
<1>8. CASE ProgenyReplies
  <2> DEFINE asked == Head(turns)
  <2>1. /\ turns # <<>> /\ turns' = Tail(turns)
        /\ UNCHANGED <<pending, callbacks, unsent, answer, polled, queueVars>>
    BY <1>8 DEF ProgenyReplies, httpVars
  <2>2. /\ asked \in Inputs /\ NoRepeat(turns')
        /\ Occurring(turns) = Occurring(turns') \union {asked}
        /\ asked \notin Occurring(turns')
    <3>1. asked \in Inputs /\ asked # Empty
      BY <1>t, <1>s, <2>1, HeadTailProperties
    <3>2. /\ NoRepeat(turns')
          /\ Occurring(turns) = Occurring(turns') \union ({asked} \ {Empty})
          /\ asked \notin Occurring(turns')
      BY <1>s, <1>p, <2>1, TailOccurs
    <3>3. QED
      BY <3>1, <3>2
  <2>3. asked \notin Occurring(frames)
    BY <1>p, <2>2
  <2> HIDE DEF asked
  <2>4. /\ NoRepeat(frames')
        /\ Occurring(frames') \subseteq Occurring(frames) \union {asked}
    <3>1. ASSUME NEW text \in {asked, Empty}, frames' = Append(frames, text)
          PROVE  /\ NoRepeat(frames')
                 /\ Occurring(frames') \subseteq Occurring(frames) \union {asked}
      <4>1. text \in Inputs \union {Empty} /\ text \notin Occurring(frames)
        BY <2>2, <2>3 DEF Occurring
      <4>2. /\ NoRepeat(frames')
            /\ Occurring(frames') = Occurring(frames) \union ({text} \ {Empty})
        BY <1>s, <1>p, <3>1, <4>1, AppendOccurs
      <4>3. QED
        BY <4>2
    <3>2. QED
      BY <1>8, <1>p, <3>1 DEF ProgenyReplies, asked
  <2>5. QED
    BY <1>p, <1>t, <2>1, <2>2, <2>4, PlacesApart, MovesKeepOnePlace
<1>9. CASE TurnArrives
  <2> DEFINE text == Head(frames)
  <2>1. /\ frames # <<>> /\ frames' = Tail(frames)
        /\ UNCHANGED <<pending, turns, unsent, answer, polled, queueVars>>
    BY <1>9 DEF TurnArrives, httpVars
  <2>2. /\ NoRepeat(frames')
        /\ Occurring(frames) = Occurring(frames') \union ({text} \ {Empty})
        /\ text \notin Occurring(frames')
    BY <1>s, <1>p, <2>1, TailOccurs
  <2>3. callbacks' \subseteq callbacks \union ({text} \ {Empty})
    BY <1>9 DEF TurnArrives
  <2> HIDE DEF text
  <2>4. QED
    BY <1>p, <2>1, <2>2, <2>3, MovesKeepOnePlace
<1>10. ASSUME NEW text \in Inputs, TurnHandled(text)
       PROVE  Kept
  <2>1. /\ text \in callbacks /\ callbacks' = callbacks \ {text}
        /\ UNCHANGED <<pending, turns, frames, unsent, answer, polled>>
        /\ Enqueue(text) \/ UNCHANGED queueVars
    BY <1>10 DEF TurnHandled, httpVars
  <2>2. text \in Texts
    BY <1>t
  <2>3. CASE Enqueue(text)
    BY <1>p, <1>c, <2>1, <2>2, <2>3, QueueingKeepsOnePlace
  <2>4. CASE UNCHANGED queueVars
    BY <1>p, <2>1, <2>4, MovesKeepOnePlace
  <2>5. QED
    BY <2>1, <2>3, <2>4
<1>11. CASE UNCHANGED relayVars
  <2>1. UNCHANGED <<pending, turns, frames, callbacks, unsent, queueVars, answer, polled>>
    BY <1>11 DEF relayVars, queueVars
  <2>2. QED
    BY <1>p, <2>1, MovesKeepOnePlace
<1>12. QED
  BY <1>1, <1>2, <1>3, <1>4, <1>5, <1>6, <1>7, <1>8, <1>9, <1>10, <1>11 DEF RelayNext

-----------------------------------------------------------------------------
LEMMA RelayInitially == RelayInit => RelayInv
<1> SUFFICES ASSUME RelayInit
             PROVE  RelayInv
  OBVIOUS
<1>e. \A S : <<>> \in Seq(S)
  BY EmptySeq
<1>l. Len(<<>>) = 0 /\ Occurring(<<>>) = {} /\ NoRepeat(<<>>)
  BY NothingInEmpty
<1>n. {Empty, Pending} \intersect Texts = {} /\ QueueMax \in Nat
  BY RelayAssumption
<1>1. RelayTypeOK
  <2>1. /\ pending \in Seq(Inputs) /\ turns \in Seq(Inputs) /\ callbacks \subseteq Inputs
        /\ frames \in Seq(Inputs \union {Empty}) /\ queue \in Seq(Texts)
        /\ waiting \in Seq(Streams) /\ woken \in Seq(Streams)
        /\ enqueued \in Seq(Texts) /\ dequeued \in Seq(Texts)
    BY <1>e DEF RelayInit
  <2>2. Len(queue) <= QueueMax
    BY <1>l, <1>n DEF RelayInit
  <2>3. /\ unsent \subseteq Texts /\ ready \in BOOLEAN /\ sending \subseteq Streams
        /\ gone \subseteq Streams /\ polled \subseteq Texts
        /\ answer \in [Streams -> Texts \union {Empty, Pending}]
    BY DEF RelayInit, Texts
  <2>4. QED
    BY <2>1, <2>2, <2>3 DEF RelayTypeOK
<1>2. QueueIsFifo /\ SetReleasesAll
  <2>1. <<>> \o <<>> = <<>>
    BY <1>e, ConcatEmptySeq
  <2>2. QED
    BY <2>1 DEF RelayInit, QueueIsFifo, SetReleasesAll
<1>3. (polled \union Range(answer)) \intersect Texts = {}
  BY <1>n DEF RelayInit, Range
<1>4. OnePlace
  BY <1>l, <1>3 DEF RelayInit, OnePlace
<1>5. SpokenOnce
  BY <1>n DEF RelayInit, SpokenOnce
<1>6. QED
  BY <1>1, <1>2, <1>4, <1>5 DEF RelayInv, RelayInvariant

LEMMA RelayIsInvariant == RelaySpec => []RelayInv
<1>1. RelayInit => RelayInv
  BY RelayInitially
<1>2. RelayInv /\ [RelayNext]_relayVars => RelayInv'
  <2> SUFFICES ASSUME RelayInv, [RelayNext]_relayVars
               PROVE  RelayInv'
    OBVIOUS
  <2>1. QueueTypes' /\ QueueIsFifo' /\ OnePlace' /\ SpokenOnce'
    BY StepKeepsOnePlace
  <2>2. RelayTypeOK' /\ SetReleasesAll'
    BY <2>1, StepKeepsTypes
  <2>3. QED
    BY <2>1, <2>2 DEF RelayInv, RelayInvariant
<1>3. QED
  BY <1>1, <1>2, PTL DEF RelaySpec

(* Texts leave the response queue in the order they came, the event leaves  *)
(* nobody waiting who waited when it was set, and a text is in one place on *)
(* its way from the game to its taker, whatever overtakes it.              *)
THEOREM RelayStaysSound == RelaySpec => []RelayInvariant
<1>1. RelayInv => RelayInvariant
  BY DEF RelayInv
<1>2. QED
  BY <1>1, RelayIsInvariant, PTL

(* However many handlers one signal releases, and however they and the polls *)
(* follow each other, no text is the response of two.                      *)
THEOREM NoTextIsSpokenTwice == RelaySpec => []SpokenOnce
<1>1. RelayInv => SpokenOnce
  BY DEF RelayInv
<1>2. QED
  BY <1>1, RelayIsInvariant, PTL

(* A held handler is released by a turn that arrives or has been handled,   *)
(* never by a poll, a line to say or another input.                        *)
THEOREM TurnsRelease == RelaySpec => OnlyATurnReleases
<1>1. ASSUME RelayInv, [RelayNext]_relayVars
      PROVE  [Len(woken') > Len(woken)
                => Len(frames') < Len(frames) \/ callbacks' # callbacks]_relayVars
  <2> SUFFICES ASSUME RelayNext, Len(woken') > Len(woken)
               PROVE  Len(frames') < Len(frames) \/ callbacks' # callbacks
    BY <1>1
  <2>t. woken \in Seq(Streams) /\ frames \in Seq(Inputs \union {Empty})
        /\ Len(woken) \in Nat /\ Len(frames) \in Nat
    BY <1>1, LenProperties DEF RelayInv, RelayInvariant, RelayTypeOK
  <2>1. woken' # woken
    BY <2>t
  <2>2. ~HandlerReturns
    <3> SUFFICES ASSUME HandlerReturns
                 PROVE  FALSE
      OBVIOUS
    <3>1. woken # <<>> /\ woken' = Tail(woken)
      BY DEF HandlerReturns
    <3>2. Len(woken') = Len(woken) - 1
      BY <2>t, <3>1, HeadTailProperties
    <3>3. QED
      BY <2>t, <3>2
  <2>3. CASE TurnArrives
    <3>1. frames # <<>> /\ frames' = Tail(frames)
      BY <2>3 DEF TurnArrives
    <3>2. Len(frames') = Len(frames) - 1
      BY <2>t, <3>1, HeadTailProperties
    <3>3. QED
      BY <2>t, <3>2
  <2>4. ASSUME NEW text \in Inputs, TurnHandled(text)
        PROVE  callbacks' # callbacks
    BY <2>4 DEF TurnHandled
  <2>5. QED
    BY <2>1, <2>2, <2>3, <2>4
       DEF RelayNext, StreamInput, SendReturns, ClientGivesUp, TypedInput, JustSay, TickLoop,
           Poll, ProgenyReplies
<1>2. QED
  BY <1>1, RelayIsInvariant, PTL DEF RelaySpec, OnlyATurnReleases
=============================================================================
