----------------------- MODULE ProgenyPipelineProofs -----------------------
(***************************************************************************)
(* Theorems about Progeny's turn pipeline, for every set of agents and of  *)
(* packages, every number of ticks and connections, with and without       *)
(* crashes and lost connections.                                           *)
(***************************************************************************)
EXTENDS ProgenyPipeline, SequenceTheorems, TLAPS

(* Tick 0 is none of the ticks. *)
LEMMA TickTypes == NoTick \notin Ticks /\ Ticks \subseteq Nat
BY PipelineAssumption DEF NoTick, Ticks

(* A task that ends leaves its places empty and well-typed. *)
LEMMA EndTypes ==
  ASSUME TypeOK, NEW t \in Ticks, NEW end \in Ends, TaskEnds(t, end)
  PROVE  /\ pc' \in [Ticks -> {"unsent", "queued"} \union Stages \union Ends]
         /\ pkg' \in [Ticks -> Package]
         /\ bundles' \in [Npcs -> SUBSET Reminding]
         /\ shown' = {}
         /\ \A u \in Ticks : u # t => pc'[u] = pc[u]
         /\ pc'[t] = end
<1>1. NoPackage \in Package
  BY DEF NoPackage, Package
<1>2. Nothing \in [Npcs -> SUBSET Reminding]
  BY DEF Nothing
<1>3. QED
  BY <1>1, <1>2 DEF TaskEnds, TypeOK

(* So does one that answers; it sends one frame or none. *)
LEMMA AnswerTypes ==
  ASSUME TypeOK, NEW t \in Ticks, NEW kind \in Ends, Answer(t, kind)
  PROVE  /\ holder' = NoTick
         /\ pc' \in [Ticks -> {"unsent", "queued"} \union Stages \union Ends]
         /\ pkg' \in [Ticks -> Package]
         /\ bundles' \in [Npcs -> SUBSET Reminding]
         /\ shown' = {}
         /\ \A u \in Ticks : u # t => pc'[u] = pc[u]
         /\ pc'[t] \in Ends
         /\ \/ answers' = answers
            \/ answers' = Append(answers, [tick |-> t, conn |-> pkg[t].conn])
         /\ answers' \in Seq([tick : Ticks, conn : Nat])
<1>1. "dropped" \in Ends
  BY DEF Ends
<1>2. \E end \in Ends : TaskEnds(t, end)
  BY <1>1 DEF Answer
<1>3. pkg[t].conn \in Nat
  BY DEF TypeOK, Package
<1>4. holder' = NoTick
  BY DEF Answer
<1>5. \/ answers' = answers
      \/ answers' = Append(answers, [tick |-> t, conn |-> pkg[t].conn])
  BY DEF Answer
<1>6. answers' \in Seq([tick : Ticks, conn : Nat])
  <2> DEFINE frame == [tick |-> t, conn |-> pkg[t].conn]
  <2>1. frame \in [tick : Ticks, conn : Nat]
    BY <1>3
  <2>2. answers \in Seq([tick : Ticks, conn : Nat])
    BY DEF TypeOK
  <2>3. answers' = answers \/ answers' = Append(answers, frame)
    BY <1>5
  <2> HIDE DEF frame
  <2>4. Append(answers, frame) \in Seq([tick : Ticks, conn : Nat])
    BY <2>1, <2>2, AppendProperties
  <2>5. QED
    BY <2>2, <2>3, <2>4
<1>7. QED
  BY <1>2, <1>4, <1>5, <1>6, EndTypes

(* What is queued for agents is well-typed. *)
LEMMA QueueTypes ==
  ASSUME TypeOK, NEW t \in Ticks, NEW hit, NEW source,
         source \in {"recognition", "social", "retrieval", "goal"}, Queue(t, hit, source)
  PROVE  reminding' \in [Npcs -> SUBSET Reminding]
<1>1. [turn |-> t, source |-> source] \in Reminding
  BY DEF Reminding
<1>2. QED
  BY <1>1 DEF Queue, TypeOK

(* The pipeline keeps its types through every interleaving of its tasks. *)
LEMMA TypeStep == TypeOK /\ [Next]_vars => TypeOK'
<1> SUFFICES ASSUME TypeOK, [Next]_vars
             PROVE  TypeOK'
  OBVIOUS
<1> USE PipelineAssumption
<1>1. CASE Accept
  BY <1>1 DEF Accept, TypeOK, lockVars, turnVars, historyVars
<1>2. ASSUME NEW c \in open, Disconnect(c)
      PROVE  TypeOK'
  BY <1>2 DEF Disconnect, TypeOK, lockVars, turnVars, historyVars
<1>3. ASSUME NEW t \in Ticks, NEW c \in open, NEW p \in Kinds, ReceiveTick(t, c, p)
      PROVE  TypeOK'
  <2>1. c \in Nat
    BY DEF TypeOK
  <2>2. p \in [turn : BOOLEAN, sleep : BOOLEAN, scene : SUBSET Npcs, conn : {0}]
    OBVIOUS
  <2>3. [p EXCEPT !.conn = c] \in Package
    BY <2>1, <2>2 DEF Package
  <2>4. QED
    BY <1>3, <2>3 DEF ReceiveTick, TypeOK, turnVars, historyVars
<1>4. ASSUME NEW t \in Ticks, Acquire(t)
      PROVE  TypeOK'
  <2>1. /\ waiters' \in Seq(Ticks)
        /\ prevScene' \subseteq Npcs /\ entered' \subseteq Npcs
        /\ open' = open /\ conns' = conns
    BY <1>4 DEF Acquire, TypeOK, Package
  <2>2. CASE pkg[t].sleep
    BY <1>4, <2>1, <2>2 DEF Acquire, TypeOK, Stages
  <2>3. CASE ~pkg[t].sleep /\ ~pkg[t].turn
    <3>1. Answer(t, "acked") /\ reminding' = reminding /\ turns' = turns
      BY <1>4, <2>3 DEF Acquire
    <3>2. "acked" \in Ends
      BY DEF Ends
    <3>3. QED
      BY <2>1, <3>1, <3>2, AnswerTypes DEF TypeOK
  <2>4. CASE ~pkg[t].sleep /\ pkg[t].turn
    <3>1. Nothing \in [Npcs -> SUBSET Reminding]
      BY DEF Nothing
    <3>2. turns' \in Seq(Ticks)
      <4>1. Append(turns, t) \in Seq(Ticks)
        BY AppendProperties DEF TypeOK
      <4>2. QED
        BY <1>4, <2>4, <4>1 DEF Acquire
    <3>3. pc' \in [Ticks -> {"unsent", "queued"} \union Stages \union Ends]
      BY <1>4, <2>4 DEF Acquire, TypeOK, Stages, TurnStages
    <3>4. /\ bundles' = reminding /\ reminding' = Nothing /\ holder' = t
          /\ pkg' = pkg /\ answers' = answers /\ shown' = shown
      BY <1>4, <2>4 DEF Acquire, TakeRemindings
    <3>5. QED
      BY <2>1, <3>1, <3>2, <3>3, <3>4 DEF TypeOK
  <2>5. QED
    BY <2>2, <2>3, <2>4
<1>5. ASSUME NEW t \in Ticks, WakeUp(t)
      PROVE  TypeOK'
  BY <1>5, AnswerTypes DEF WakeUp, TypeOK, Ends
<1>6. ASSUME NEW t \in Ticks, Bootstrap(t)
      PROVE  TypeOK'
  BY <1>6 DEF Bootstrap, Goes, TypeOK, Stages, TurnStages, lockVars
<1>7. ASSUME NEW t \in Ticks, NEW hit \in SUBSET Npcs, Recognise(t, hit)
      PROVE  TypeOK'
  <2>1. reminding' \in [Npcs -> SUBSET Reminding]
    BY <1>7, QueueTypes DEF Recognise
  <2>2. QED
    BY <1>7, <2>1 DEF Recognise, Goes, TypeOK, Stages, TurnStages, lockVars
<1>8. ASSUME NEW t \in Ticks, NEW hit \in SUBSET Npcs, Valence(t, hit)
      PROVE  TypeOK'
  <2>1. reminding' \in [Npcs -> SUBSET Reminding]
    BY <1>8, QueueTypes DEF Valence
  <2>2. QED
    BY <1>8, <2>1 DEF Valence, Goes, TypeOK, Stages, TurnStages, lockVars
<1>9. ASSUME NEW t \in Ticks, NEW goals \in SUBSET Npcs, WriteAndPrime(t, goals)
      PROVE  TypeOK'
  <2>1. CASE pkg[t].scene = {}
    BY <1>9, <2>1, AnswerTypes DEF WriteAndPrime, TypeOK, Ends
  <2>2. CASE pkg[t].scene # {}
    <3>1. [turn |-> t, source |-> "goal"] \in Reminding
      BY DEF Reminding
    <3>2. bundles' \in [Npcs -> SUBSET Reminding]
      BY <1>9, <2>2, <3>1, SMTT(20) DEF WriteAndPrime, TypeOK
    <3>3. QED
      BY <1>9, <2>2, <3>2 DEF WriteAndPrime, Goes, TypeOK, Stages, TurnStages, lockVars
  <2>3. QED
    BY <2>1, <2>2
<1>10. ASSUME NEW t \in Ticks, NEW done \in SUBSET Npcs, Retrieve(t, done)
       PROVE  TypeOK'
  <2>1. [turn |-> t, source |-> "retrieval"] \in Reminding
    BY DEF Reminding
  <2>2. reminding' \in [Npcs -> SUBSET Reminding]
    BY <1>10, <2>1 DEF Retrieve, TypeOK
  <2>3. QED
    BY <1>10, <2>2 DEF Retrieve, Goes, TypeOK, Stages, TurnStages, lockVars
<1>11. ASSUME NEW t \in Ticks, Dispatch(t)
       PROVE  TypeOK'
  <2>1. \A a \in Npcs : \A r \in bundles[a] :
          [agent |-> a, turn |-> t, what |-> r] \in [agent : Npcs, turn : Ticks, what : Reminding]
    BY DEF TypeOK
  <2>2. pkg[t].scene \subseteq Npcs
    BY DEF TypeOK, Package
  <2>3. shown' \subseteq [agent : Npcs, turn : Ticks, what : Reminding]
    BY <1>11, <2>1, <2>2 DEF Dispatch
  <2>4. QED
    BY <1>11, <2>3 DEF Dispatch, Goes, TypeOK, Stages, TurnStages, lockVars
<1>12. ASSUME NEW t \in Ticks, Respond(t)
       PROVE  TypeOK'
  BY <1>12, AnswerTypes DEF Respond, TypeOK, Ends
<1>13. ASSUME NEW t \in Ticks, Fail(t)
       PROVE  TypeOK'
  BY <1>13, EndTypes DEF Fail, TypeOK, Ends
<1>14. CASE UNCHANGED vars
  BY <1>14 DEF vars, TypeOK, lockVars, turnVars, historyVars
<1>15. QED
  BY <1>1, <1>2, <1>3, <1>4, <1>5, <1>6, <1>7, <1>8, <1>9, <1>10, <1>11, <1>12,
     <1>13, <1>14 DEF Next, Stage

(* Every variable of the pipeline has its type, whatever arrives, fails or *)
(* is dropped.                                                             *)
THEOREM TypeCorrect == Spec => []TypeOK
<1>1. Init => TypeOK
  <2>1. NoPackage \in Package /\ Nothing \in [Npcs -> SUBSET Reminding]
    BY DEF NoPackage, Package, Nothing
  <2>2. QED
    BY <2>1, PipelineAssumption DEF Init, TypeOK
<1>2. QED
  BY <1>1, TypeStep, PTL DEF Spec

-----------------------------------------------------------------------------
(* Where a step can move the task of a tick: into a stage together with    *)
(* the lock, out of the stages without it, or neither.                     *)
LEMMA SerialStep == TypeOK /\ SerialTurns /\ [Next]_vars => SerialTurns'
<1> SUFFICES ASSUME TypeOK, SerialTurns, [Next]_vars
             PROVE  SerialTurns'
  OBVIOUS
<1> USE TickTypes
<1>1. \A t \in Ticks : holder = t => t # NoTick
  OBVIOUS
<1>2. CASE UNCHANGED <<pc, holder>>
  BY <1>2 DEF SerialTurns
<1>3. ASSUME NEW t \in Ticks, NEW c \in open, NEW p \in Kinds, ReceiveTick(t, c, p)
      PROVE  SerialTurns'
  BY <1>3 DEF ReceiveTick, SerialTurns, TypeOK, Stages, TurnStages
<1>4. ASSUME NEW t \in Ticks, holder \in {t, NoTick}, holder' = NoTick,
             pc'[t] \notin Stages, \A u \in Ticks : u # t => pc'[u] = pc[u]
      PROVE  SerialTurns'
  BY <1>4 DEF SerialTurns
<1>5. ASSUME NEW t \in Ticks, holder \in {t, NoTick}, holder' = t,
             pc'[t] \in Stages, \A u \in Ticks : u # t => pc'[u] = pc[u]
      PROVE  SerialTurns'
  BY <1>5 DEF SerialTurns
<1>6. \A e \in Ends : e \notin Stages
  BY DEF Ends, Stages, TurnStages
<1>7. ASSUME NEW t \in Ticks, NEW kind \in Ends, holder \in {t, NoTick}, Answer(t, kind)
      PROVE  SerialTurns'
  BY <1>4, <1>6, <1>7, AnswerTypes
<1>8. ASSUME NEW t \in Ticks, NEW from, NEW to \in Stages, Goes(t, from, to)
      PROVE  SerialTurns'
  <2>1. /\ holder = t /\ holder' = t /\ pc'[t] = to
        /\ \A u \in Ticks : u # t => pc'[u] = pc[u]
    BY <1>8 DEF Goes, TypeOK, lockVars
  <2>2. QED
    BY <1>5, <2>1
<1>9. ASSUME NEW t \in Ticks, Acquire(t)
      PROVE  SerialTurns'
  <2>1. CASE pkg[t].sleep \/ pkg[t].turn
    <3>1. /\ holder = NoTick /\ holder' = t /\ pc'[t] \in Stages
          /\ \A u \in Ticks : u # t => pc'[u] = pc[u]
      BY <1>9, <2>1 DEF Acquire, TypeOK, Stages, TurnStages
    <3>2. QED
      BY <1>5, <3>1
  <2>2. CASE ~pkg[t].sleep /\ ~pkg[t].turn
    BY <1>7, <1>9, <2>2 DEF Acquire, Ends
  <2>3. QED
    BY <2>1, <2>2
<1>10. ASSUME NEW t \in Ticks, NEW goals \in SUBSET Npcs, WriteAndPrime(t, goals)
       PROVE  SerialTurns'
  <2>1. CASE pkg[t].scene = {}
    BY <1>7, <1>10, <2>1 DEF WriteAndPrime, Ends
  <2>2. CASE pkg[t].scene # {}
    BY <1>8, <1>10, <2>2 DEF WriteAndPrime, Stages, TurnStages
  <2>3. QED
    BY <2>1, <2>2
<1>11. ASSUME NEW t \in Ticks, Bootstrap(t)
       PROVE  SerialTurns'
  <2>1. (IF entered # {} THEN "recognise" ELSE "write") \in Stages
    BY DEF Stages, TurnStages
  <2>2. QED
    BY <1>8, <1>11, <2>1 DEF Bootstrap
<1>12. ASSUME NEW t \in Ticks, NEW S,
              Recognise(t, S) \/ Valence(t, S) \/ Retrieve(t, S) \/ Dispatch(t)
       PROVE  SerialTurns'
  BY <1>8, <1>12 DEF Recognise, Valence, Retrieve, Dispatch, Stages, TurnStages
<1>13. ASSUME NEW t \in Ticks, WakeUp(t) \/ Respond(t)
       PROVE  SerialTurns'
  BY <1>7, <1>13 DEF WakeUp, Respond, Ends
<1>14. ASSUME NEW t \in Ticks, Fail(t)
       PROVE  SerialTurns'
  BY <1>4, <1>6, <1>14, EndTypes DEF Fail, Ends
<1>15. CASE Accept \/ (\E c \in open : Disconnect(c)) \/ UNCHANGED vars
  BY <1>2, <1>15 DEF Accept, Disconnect, vars, lockVars
<1>16. QED
  BY <1>3, <1>9, <1>10, <1>11, <1>12, <1>13, <1>14, <1>15 DEF Next, Stage

(* Ticks never race through the shared state: whoever is between two       *)
(* stages holds the lock, and whoever holds it is at work, also after an   *)
(* exception (async with _pipeline_lock).                                  *)
THEOREM TurnsAreSerial == Spec => []SerialTurns
<1>1. Init => SerialTurns
  BY TickTypes DEF Init, SerialTurns, Stages, TurnStages
<1>2. QED
  BY <1>1, SerialStep, TypeCorrect, PTL DEF Spec

-----------------------------------------------------------------------------
(* Ticks are numbered as they come in, wait in that order, and whoever     *)
(* holds the lock came before those who wait and after those answered.     *)
Sent == {t \in Ticks : pc[t] # "unsent"}
Answered(i) == answers[i].tick

OrderInv ==
  /\ \A t \in Sent : \A u \in Ticks : u < t => u \in Sent
  /\ \A j \in 1..Len(waiters) : waiters[j] \in Sent
  /\ \A i \in 1..Len(answers) : Answered(i) \in Sent
  /\ \A i, j \in 1..Len(waiters) : i < j => waiters[i] < waiters[j]
  /\ \A i, j \in 1..Len(answers) : i < j => Answered(i) < Answered(j)
  /\ \A i \in 1..Len(answers), j \in 1..Len(waiters) : Answered(i) < waiters[j]
  /\ holder # NoTick =>
       /\ \A i \in 1..Len(answers) : Answered(i) < holder
       /\ \A j \in 1..Len(waiters) : holder < waiters[j]

(* The queue and the frames are about ticks. *)
LEMMA SeqTypes ==
  ASSUME TypeOK
  PROVE  /\ Len(waiters) \in Nat /\ \A j \in 1..Len(waiters) : waiters[j] \in Ticks
         /\ Len(answers) \in Nat /\ \A i \in 1..Len(answers) : Answered(i) \in Ticks
<1>1. waiters \in Seq(Ticks) /\ answers \in Seq([tick : Ticks, conn : Nat])
  BY DEF TypeOK
<1>2. \A i \in 1..Len(answers) : answers[i] \in [tick : Ticks, conn : Nat]
  BY <1>1, ElementOfSeq
<1>3. \A i \in 1..Len(answers) : Answered(i) \in Ticks
  BY <1>2 DEF Answered
<1>4. QED
  BY <1>1, <1>3, ElementOfSeq, LenProperties

(* An answer is the last one, if the socket still takes it. *)
LEMMA AnswersGrow ==
  ASSUME TypeOK, NEW t \in Ticks, NEW kind \in Ends, Answer(t, kind)
  PROVE  /\ Len(answers') \in Nat
         /\ \A i \in 1..Len(answers') :
              \/ i \in 1..Len(answers) /\ Answered(i)' = Answered(i)
              \/ i = Len(answers) + 1 /\ Answered(i)' = t
<1> DEFINE frame == [tick |-> t, conn |-> pkg[t].conn]
<1>1. answers \in Seq([tick : Ticks, conn : Nat]) /\ Len(answers) \in Nat
  BY SeqTypes DEF TypeOK
<1>2. frame \in [tick : Ticks, conn : Nat] /\ frame.tick = t
  BY DEF TypeOK, Package
<1>3. answers' = answers \/ answers' = Append(answers, frame)
  BY AnswerTypes
<1> HIDE DEF frame
<1>4. CASE answers' = answers
  BY <1>1, <1>4 DEF Answered
<1>5. CASE answers' = Append(answers, frame)
  <2>1. /\ Len(answers') = Len(answers) + 1
        /\ \A i \in 1..Len(answers) : answers'[i] = answers[i]
        /\ answers'[Len(answers) + 1] = frame
    BY <1>1, <1>2, <1>5, AppendProperties
  <2>2. \A i \in 1..Len(answers') : i \in 1..Len(answers) \/ i = Len(answers) + 1
    BY <1>1, <2>1
  <2>3. QED
    BY <1>1, <1>2, <2>1, <2>2 DEF Answered
<1>6. QED
  BY <1>3, <1>4, <1>5

(* A step between two stages, or one that gives the lock back in silence. *)
LEMMA OrderKept ==
  ASSUME OrderInv, Sent' = Sent, waiters' = waiters, answers' = answers,
         holder' \in {holder, NoTick}
  PROVE  OrderInv'
BY DEF OrderInv, Answered

(* The answer of a tick between those answered and those who go on waiting. *)
LEMMA OrderAnswered ==
  ASSUME TypeOK, OrderInv, NEW t \in Sent, Sent' = Sent,
         NEW kind \in Ends, Answer(t, kind),
         \A i \in 1..Len(answers) : Answered(i) < t,
         Len(waiters') \in Nat,
         \A j \in 1..Len(waiters') : waiters'[j] \in Sent /\ t < waiters'[j],
         \A i, j \in 1..Len(waiters') : i < j => waiters'[i] < waiters'[j]
  PROVE  OrderInv'
<1>1. t \in Ticks /\ t \in Nat /\ Sent \subseteq Nat
  BY TickTypes DEF Sent
<1>2. Len(answers) \in Nat /\ \A i \in 1..Len(answers) : Answered(i) \in Nat
  BY SeqTypes, TickTypes
<1>3. /\ Len(answers') \in Nat
      /\ \A i \in 1..Len(answers') :
           \/ i \in 1..Len(answers) /\ Answered(i)' = Answered(i)
           \/ i = Len(answers) + 1 /\ Answered(i)' = t
  BY <1>1, AnswersGrow
<1>4. \A i \in 1..Len(answers') : Answered(i)' \in Sent /\ Answered(i)' <= t
  BY <1>1, <1>2, <1>3 DEF OrderInv
<1>5. \A i, j \in 1..Len(answers') : i < j => Answered(i)' < Answered(j)'
  BY <1>1, <1>2, <1>3 DEF OrderInv
<1>6. \A i \in 1..Len(answers'), j \in 1..Len(waiters') : Answered(i)' < waiters'[j]
  <2>1. ASSUME NEW i \in 1..Len(answers'), NEW j \in 1..Len(waiters')
        PROVE  Answered(i)' < waiters'[j]
    <3>1. Answered(i)' \in Nat /\ Answered(i)' <= t
      BY <1>1, <1>4
    <3>2. waiters'[j] \in Nat /\ t < waiters'[j]
      BY <1>1
    <3>3. QED
      BY <1>1, <3>1, <3>2
  <2>2. QED
    BY <2>1
<1>7. holder' = NoTick
  BY DEF Answer
<1>8. QED
  BY <1>4, <1>5, <1>6, <1>7 DEF OrderInv

(* The task of the lock's holder answers. *)
LEMMA OrderReleased ==
  ASSUME TypeOK, OrderInv, SerialTurns, NEW t \in Ticks, holder = t,
         NEW kind \in Ends, Answer(t, kind), waiters' = waiters
  PROVE  OrderInv'
<1>1. pc[t] \in Stages
  BY DEF SerialTurns
<1>2. Sent' = Sent /\ t \in Sent
  BY <1>1, AnswerTypes DEF Sent, Ends, Stages, TurnStages
<1>3. t # NoTick
  BY TickTypes
<1>4. /\ \A i \in 1..Len(answers) : Answered(i) < t
      /\ \A j \in 1..Len(waiters) : waiters[j] \in Sent /\ t < waiters[j]
      /\ \A i, j \in 1..Len(waiters) : i < j => waiters[i] < waiters[j]
      /\ Len(waiters) \in Nat
  BY <1>3, SeqTypes DEF OrderInv
<1>5. QED
  BY <1>2, <1>4, OrderAnswered

(* Every step keeps the order. *)
LEMMA OrderStep == TypeOK /\ SerialTurns /\ OrderInv /\ [Next]_vars => OrderInv'
<1> SUFFICES ASSUME TypeOK, SerialTurns, OrderInv, [Next]_vars
             PROVE  OrderInv'
  OBVIOUS
<1>1. ASSUME NEW t \in Ticks, NEW c \in open, NEW p \in Kinds, ReceiveTick(t, c, p)
      PROVE  OrderInv'
  <2>1. waiters \in Seq(Ticks) /\ Len(waiters) \in Nat
    BY SeqTypes DEF TypeOK
  <2>2. waiters' = Append(waiters, t) /\ answers' = answers /\ holder' = holder
    BY <1>1 DEF ReceiveTick
  <2>3. /\ Len(waiters') = Len(waiters) + 1
        /\ \A j \in 1..Len(waiters) : waiters'[j] = waiters[j]
        /\ waiters'[Len(waiters) + 1] = t
    BY <2>1, <2>2, AppendProperties
  <2>4. \A j \in 1..Len(waiters') :
          \/ j \in 1..Len(waiters) /\ waiters'[j] = waiters[j]
          \/ j = Len(waiters) + 1 /\ waiters'[j] = t
    BY <2>1, <2>3
  <2>5. t \notin Sent /\ Sent' = Sent \union {t}
    BY <1>1 DEF ReceiveTick, Sent, TypeOK
  <2>6. \A u \in Ticks : u < t => u \in Sent
    BY <1>1, TickTypes DEF ReceiveTick, Sent, Ticks
  <2>7. \A u \in Sent : u < t
    BY <2>5, TickTypes DEF OrderInv, Sent
  <2>8. holder # NoTick => holder \in Sent
    BY DEF TypeOK, SerialTurns, Sent, Stages, TurnStages
  <2>9. \A u \in Sent' : \A v \in Ticks : v < u => v \in Sent'
    BY <2>5, <2>6 DEF OrderInv
  <2>10. /\ \A j \in 1..Len(waiters') : waiters'[j] \in Sent'
         /\ \A i \in 1..Len(answers') : Answered(i)' \in Sent'
    BY <2>2, <2>4, <2>5 DEF OrderInv, Answered
  <2>11. \A i, j \in 1..Len(waiters') : i < j => waiters'[i] < waiters'[j]
    BY <2>1, <2>3, <2>4, <2>7 DEF OrderInv
  <2>12. \A i \in 1..Len(answers'), j \in 1..Len(waiters') : Answered(i)' < waiters'[j]
    BY <2>2, <2>4, <2>7 DEF OrderInv, Answered
  <2>13. holder' # NoTick =>
           /\ \A i \in 1..Len(answers') : Answered(i)' < holder'
           /\ \A j \in 1..Len(waiters') : holder' < waiters'[j]
    BY <2>2, <2>4, <2>7, <2>8 DEF OrderInv, Answered
  <2>14. \A i, j \in 1..Len(answers') : i < j => Answered(i)' < Answered(j)'
    BY <2>2 DEF OrderInv, Answered
  <2>15. QED
    BY <2>9, <2>10, <2>11, <2>12, <2>13, <2>14 DEF OrderInv
<1>2. ASSUME NEW t \in Ticks, Acquire(t)
      PROVE  OrderInv'
  <2>1. /\ waiters \in Seq(Ticks) /\ waiters # <<>> /\ Len(waiters) \in Nat
        /\ t = waiters[1] /\ 1 \in 1..Len(waiters) /\ waiters' = Tail(waiters)
    BY <1>2, SeqTypes DEF Acquire, TypeOK
  <2>2. /\ Len(waiters') = Len(waiters) - 1 /\ Len(waiters') \in Nat
        /\ \A j \in 1..Len(waiters') : waiters'[j] = waiters[j + 1]
                                        /\ j + 1 \in 1..Len(waiters)
    BY <2>1, HeadTailProperties
  <2>3. t \in Sent /\ \A i \in 1..Len(answers) : Answered(i) < t
    BY <2>1 DEF OrderInv
  <2>4. \A j \in 1..Len(waiters') : waiters'[j] \in Sent /\ t < waiters'[j]
    BY <2>1, <2>2 DEF OrderInv
  <2>5. \A i, j \in 1..Len(waiters') : i < j => waiters'[i] < waiters'[j]
    BY <2>2 DEF OrderInv
  <2>6. CASE pkg[t].sleep \/ pkg[t].turn
    <3>1. holder' = t /\ answers' = answers /\ Sent' = Sent
      BY <1>2, <2>3, <2>6 DEF Acquire, Sent, TypeOK
    <3>2. \A i \in 1..Len(answers), j \in 1..Len(waiters') : Answered(i) < waiters'[j]
      BY <2>2 DEF OrderInv
    <3>3. QED
      BY <2>3, <2>4, <2>5, <3>1, <3>2 DEF OrderInv, Answered
  <2>7. CASE ~pkg[t].sleep /\ ~pkg[t].turn
    <3>1. Answer(t, "acked") /\ "acked" \in Ends
      BY <1>2, <2>7 DEF Acquire, Ends
    <3>2. Sent' = Sent
      BY <2>3, <3>1, AnswerTypes DEF Sent, Ends
    <3>3. QED
      BY <2>2, <2>3, <2>4, <2>5, <3>1, <3>2, OrderAnswered
  <2>8. QED
    BY <2>6, <2>7
<1>3. ASSUME NEW t \in Ticks, NEW from, NEW to \in Stages, Goes(t, from, to)
      PROVE  OrderInv'
  <2>1. pc[t] \in Stages
    BY <1>3 DEF Goes, SerialTurns
  <2>2. Sent' = Sent /\ waiters' = waiters /\ answers' = answers /\ holder' = holder
    BY <1>3, <2>1 DEF Goes, Sent, TypeOK, lockVars, Stages, TurnStages
  <2>3. QED
    BY <2>2, OrderKept
<1>4. ASSUME NEW t \in Ticks, NEW goals \in SUBSET Npcs, WriteAndPrime(t, goals)
      PROVE  OrderInv'
  <2>1. CASE pkg[t].scene = {}
    BY <1>4, <2>1, OrderReleased DEF WriteAndPrime, Ends
  <2>2. CASE pkg[t].scene # {}
    BY <1>3, <1>4, <2>2 DEF WriteAndPrime, Stages, TurnStages
  <2>3. QED
    BY <2>1, <2>2
<1>5. ASSUME NEW t \in Ticks, Bootstrap(t)
      PROVE  OrderInv'
  <2>1. (IF entered # {} THEN "recognise" ELSE "write") \in Stages
    BY DEF Stages, TurnStages
  <2>2. QED
    BY <1>3, <1>5, <2>1 DEF Bootstrap
<1>6. ASSUME NEW t \in Ticks, NEW S,
             Recognise(t, S) \/ Valence(t, S) \/ Retrieve(t, S) \/ Dispatch(t)
      PROVE  OrderInv'
  BY <1>3, <1>6 DEF Recognise, Valence, Retrieve, Dispatch, Stages, TurnStages
<1>7. ASSUME NEW t \in Ticks, WakeUp(t) \/ Respond(t)
      PROVE  OrderInv'
  BY <1>7, OrderReleased DEF WakeUp, Respond, Ends
<1>8. ASSUME NEW t \in Ticks, Fail(t)
      PROVE  OrderInv'
  <2>1. pc[t] \in TurnStages /\ TaskEnds(t, "failed") /\ "failed" \in Ends
    BY <1>8 DEF Fail, Ends
  <2>2. Sent' = Sent
    BY <2>1, EndTypes DEF Sent, TurnStages
  <2>3. QED
    BY <1>8, <2>2, OrderKept DEF Fail
<1>9. CASE Accept \/ (\E c \in open : Disconnect(c)) \/ UNCHANGED vars
  <2>1. pc' = pc /\ waiters' = waiters /\ answers' = answers /\ holder' = holder
    BY <1>9 DEF Accept, Disconnect, vars, lockVars
  <2>2. QED
    BY <2>1, OrderKept DEF Sent
<1>10. QED
  BY <1>1, <1>2, <1>4, <1>5, <1>6, <1>7, <1>8, <1>9 DEF Next, Stage

(* Answers on one connection come in the order of its ticks, however many  *)
(* tasks queue, fail or outlive their socket (_handle_tick, _pipeline_lock). *)
THEOREM AnswersKeepTheOrder == Spec => []AnswersInOrder
<1>1. Init => OrderInv
  BY TickTypes DEF Init, OrderInv, Sent
<1>2. OrderInv /\ TypeOK => AnswersInOrder
  <2> SUFFICES ASSUME OrderInv, TypeOK PROVE AnswersInOrder
    OBVIOUS
  <2>1. DOMAIN answers = 1..Len(answers)
    BY LenProperties DEF TypeOK
  <2>2. QED
    BY <2>1 DEF OrderInv, AnswersInOrder, Answered
<1>3. QED
  BY <1>1, <1>2, OrderStep, TypeCorrect, TurnsAreSerial, PTL DEF Spec

-----------------------------------------------------------------------------
(* What is queued was recalled in the latest turn begun, and what a turn   *)
(* has taken over in the one before it, but for its own goals.             *)
Latest == turns[Len(turns)]
Fresh(r) == r.source # "goal" /\ Len(turns) >= 1 /\ r.turn = Latest
Due(r) == r.source # "goal" => Len(turns) >= 2 /\ r.turn = turns[Len(turns) - 1]

RemindInv ==
  /\ \A t \in Ticks : pc[t] \in TurnStages => Len(turns) >= 1 /\ t = Latest
  /\ \A a \in Npcs : \A r \in reminding[a] : Fresh(r)
  /\ \A a \in Npcs : \A r \in bundles[a] : Due(r)
  /\ \A s \in shown : Due(s.what) /\ Len(turns) >= 1 /\ s.turn = Latest
  /\ holder = NoTick => shown = {}

(* A step within a turn, or out of it, in which no turn begins. *)
LEMMA RemindKept ==
  ASSUME RemindInv, turns' = turns,
         \A t \in Ticks : pc'[t] \in TurnStages => pc[t] \in TurnStages,
         \A a \in Npcs : \A r \in reminding'[a] : r \in reminding[a] \/ Fresh(r),
         \A a \in Npcs : \A r \in bundles'[a] : r \in bundles[a] \/ Due(r),
         \A s \in shown' : s \in shown \/ (Due(s.what) /\ Len(turns) >= 1 /\ s.turn = Latest),
         holder' = NoTick => shown' = {}
  PROVE  RemindInv'
<1>1. /\ \A r : Fresh(r)' <=> Fresh(r)
      /\ \A r : Due(r)' <=> Due(r)
      /\ Latest' = Latest
  BY DEF Fresh, Due, Latest
<1>2. QED
  BY <1>1 DEF RemindInv

(* The end of a task, answered or not. *)
LEMMA RemindEnded ==
  ASSUME RemindInv, NEW t \in Ticks, turns' = turns, reminding' = reminding,
         bundles' = Nothing, shown' = {}, pc'[t] \notin TurnStages,
         \A u \in Ticks : u # t => pc'[u] = pc[u]
  PROVE  RemindInv'
<1>1. \A a \in Npcs : bundles'[a] = {}
  BY DEF Nothing
<1>2. \A u \in Ticks : pc'[u] \in TurnStages => pc[u] \in TurnStages
  OBVIOUS
<1>3. QED
  BY <1>1, <1>2, RemindKept

(* A task that ends, answered or not, takes its memories with it. *)
LEMMA EndsEmpty ==
  ASSUME NEW t \in Ticks, NEW kind \in Ends, TypeOK, TaskEnds(t, kind) \/ Answer(t, kind)
  PROVE  /\ bundles' = Nothing /\ shown' = {} /\ pc'[t] \notin TurnStages
         /\ \A u \in Ticks : u # t => pc'[u] = pc[u]
<1>1. \A e \in Ends : e \notin TurnStages
  BY DEF Ends, TurnStages
<1>2. bundles' = Nothing /\ shown' = {}
  BY DEF Answer, TaskEnds
<1>3. QED
  BY <1>1, <1>2, EndTypes, AnswerTypes

(* No step brings an older memory into a turn. *)
LEMMA RemindStep == TypeOK /\ SerialTurns /\ RemindInv /\ [Next]_vars => RemindInv'
<1> SUFFICES ASSUME TypeOK, SerialTurns, RemindInv, [Next]_vars
             PROVE  RemindInv'
  OBVIOUS
<1>0. \A t \in Ticks : t # NoTick
  BY TickTypes
<1>1. ASSUME NEW t \in Ticks, NEW c \in open, NEW p \in Kinds, ReceiveTick(t, c, p)
      PROVE  RemindInv'
  <2>1. \A u \in Ticks : pc'[u] \in TurnStages => pc[u] \in TurnStages
    BY <1>1 DEF ReceiveTick, TypeOK, TurnStages
  <2>2. QED
    BY <1>1, <2>1, RemindKept DEF ReceiveTick, turnVars, historyVars, RemindInv
<1>2. ASSUME NEW t \in Ticks, Acquire(t)
      PROVE  RemindInv'
  <2>1. holder = NoTick /\ shown = {}
    BY <1>2 DEF Acquire, RemindInv
  <2>2. CASE pkg[t].sleep
    <3>1. /\ turns' = turns /\ reminding' = reminding /\ bundles' = bundles
          /\ shown' = shown /\ pc' = [pc EXCEPT ![t] = "sleep"]
      BY <1>2, <2>2 DEF Acquire
    <3>2. \A u \in Ticks : pc'[u] \in TurnStages => pc[u] \in TurnStages
      BY <3>1 DEF TypeOK, TurnStages
    <3>3. QED
      BY <2>1, <3>1, <3>2, RemindKept
  <2>3. CASE ~pkg[t].sleep /\ ~pkg[t].turn
    BY <1>2, <2>3, EndsEmpty, RemindEnded DEF Acquire, Ends
  <2>4. CASE ~pkg[t].sleep /\ pkg[t].turn
    <3>1. /\ bundles' = reminding /\ reminding' = Nothing /\ shown' = {}
          /\ turns' = Append(turns, t) /\ pc' = [pc EXCEPT ![t] = "bootstrap"]
          /\ holder' = t
      BY <1>2, <2>1, <2>4 DEF Acquire, TakeRemindings
    <3>2. turns \in Seq(Ticks) /\ Len(turns) \in Nat
      BY LenProperties DEF TypeOK
    <3>3. /\ Len(turns') = Len(turns) + 1 /\ Latest' = t
          /\ Len(turns) >= 1 => turns'[Len(turns') - 1] = Latest
      BY <3>1, <3>2, AppendProperties DEF Latest
    <3>4. \A u \in Ticks : pc'[u] \in TurnStages => u = t
      <4>1. \A u \in Ticks : pc[u] \notin Stages
        BY <1>0, <2>1 DEF SerialTurns
      <4>2. QED
        BY <3>1, <4>1 DEF TypeOK, Stages
    <3>5. \A a \in Npcs : \A r \in bundles'[a] : Due(r)'
      <4>1. \A r : Fresh(r) => Due(r)'
        BY <3>2, <3>3 DEF Fresh, Due
      <4>2. QED
        BY <3>1, <4>1 DEF RemindInv
    <3>6. \A a \in Npcs : reminding'[a] = {}
      BY <3>1 DEF Nothing
    <3>7. Len(turns') >= 1
      BY <3>2, <3>3
    <3>8. QED
      BY <1>0, <3>1, <3>3, <3>4, <3>5, <3>6, <3>7 DEF RemindInv
  <2>5. QED
    BY <2>2, <2>3, <2>4
<1>3. ASSUME NEW t \in Ticks, NEW from \in TurnStages, NEW to, Goes(t, from, to)
      PROVE  /\ turns' = turns /\ Len(turns) >= 1 /\ t = Latest
             /\ \A u \in Ticks : pc'[u] \in TurnStages => pc[u] \in TurnStages
             /\ holder' # NoTick
  BY <1>0, <1>3 DEF Goes, TypeOK, RemindInv, lockVars
<1>4. ASSUME NEW t \in Ticks, Bootstrap(t)
      PROVE  RemindInv'
  <2>1. "bootstrap" \in TurnStages
    BY DEF TurnStages
  <2>2. QED
    BY <1>3, <1>4, <2>1, RemindKept DEF Bootstrap
<1>5. ASSUME NEW t \in Ticks, NEW S, Recognise(t, S) \/ Valence(t, S) \/ Retrieve(t, S)
      PROVE  RemindInv'
  <2>1. "recognise" \in TurnStages /\ "valence" \in TurnStages /\ "retrieve" \in TurnStages
    BY DEF TurnStages
  <2>2. /\ turns' = turns /\ Len(turns) >= 1 /\ t = Latest
        /\ \A u \in Ticks : pc'[u] \in TurnStages => pc[u] \in TurnStages
        /\ holder' # NoTick /\ bundles' = bundles /\ shown' = shown
    BY <1>3, <1>5, <2>1 DEF Recognise, Valence, Retrieve
  <2>3. \A src \in {"recognition", "social", "retrieval"} : Fresh([turn |-> t, source |-> src])
    BY <2>2 DEF Fresh
  <2>4. \A a \in Npcs : \A r \in reminding'[a] : r \in reminding[a] \/ Fresh(r)
    BY <1>5, <2>3 DEF Recognise, Valence, Retrieve, Queue
  <2>5. QED
    BY <2>2, <2>4, RemindKept
<1>6. ASSUME NEW t \in Ticks, NEW goals \in SUBSET Npcs, WriteAndPrime(t, goals)
      PROVE  RemindInv'
  <2>1. CASE pkg[t].scene = {}
    BY <1>6, <2>1, EndsEmpty, RemindEnded DEF WriteAndPrime, Ends
  <2>2. CASE pkg[t].scene # {}
    <3>1. "write" \in TurnStages
      BY DEF TurnStages
    <3>2. /\ turns' = turns /\ reminding' = reminding /\ shown' = shown
          /\ \A u \in Ticks : pc'[u] \in TurnStages => pc[u] \in TurnStages
          /\ holder' # NoTick
      BY <1>3, <1>6, <2>2, <3>1 DEF WriteAndPrime
    <3>3. Due([turn |-> t, source |-> "goal"])
      BY DEF Due
    <3>4. \A a \in Npcs : \A r \in bundles'[a] : r \in bundles[a] \/ Due(r)
      BY <1>6, <2>2, <3>3 DEF WriteAndPrime
    <3>5. QED
      BY <3>2, <3>4, RemindKept
  <2>3. QED
    BY <2>1, <2>2
<1>7. ASSUME NEW t \in Ticks, Dispatch(t)
      PROVE  RemindInv'
  <2>1. "dispatch" \in TurnStages
    BY DEF TurnStages
  <2>2. /\ turns' = turns /\ Len(turns) >= 1 /\ t = Latest
        /\ \A u \in Ticks : pc'[u] \in TurnStages => pc[u] \in TurnStages
        /\ holder' # NoTick /\ reminding' = reminding /\ bundles' = bundles
    BY <1>3, <1>7, <2>1 DEF Dispatch
  <2>3. pkg[t].scene \subseteq Npcs
    BY DEF TypeOK, Package
  <2>4. ASSUME NEW s \in shown'
        PROVE  Due(s.what) /\ s.turn = t
    <3>1. PICK a \in pkg[t].scene : \E r \in bundles[a] :
            s = [agent |-> a, turn |-> t, what |-> r]
      BY <1>7, <2>4 DEF Dispatch
    <3>2. QED
      BY <2>3, <3>1 DEF RemindInv
  <2>5. QED
    BY <2>2, <2>4, RemindKept
<1>8. ASSUME NEW t \in Ticks, WakeUp(t) \/ Respond(t)
      PROVE  RemindInv'
  BY <1>8, EndsEmpty, RemindEnded DEF WakeUp, Respond, Ends
<1>9. ASSUME NEW t \in Ticks, Fail(t)
      PROVE  RemindInv'
  BY <1>9, EndsEmpty, RemindEnded DEF Fail, Ends
<1>10. CASE Accept \/ (\E c \in open : Disconnect(c)) \/ UNCHANGED vars
  BY <1>10, RemindKept DEF Accept, Disconnect, vars, lockVars, turnVars, historyVars, RemindInv
<1>11. QED
  BY <1>1, <1>2, <1>4, <1>5, <1>6, <1>7, <1>8, <1>9, <1>10 DEF Next, Stage

(* The anti-recursion guard: but for its own goals, a prompt recalls what  *)
(* the turn before it retrieved, nothing of its own and nothing older,     *)
(* whatever failed, slept or was data-only in between (_reminding_queue).  *)
THEOREM RemindingsAreATurnOld == Spec => []RemindedByTheTurnBefore
<1>1. Init => RemindInv
  BY DEF Init, RemindInv, Nothing, TurnStages
<1>2. RemindInv /\ TypeOK => RemindedByTheTurnBefore
  <2> SUFFICES ASSUME RemindInv, TypeOK, NEW s \in shown, s.what.source # "goal"
               PROVE  s.what.turn \in Before(s.turn)
    BY DEF RemindedByTheTurnBefore
  <2>1. Len(turns) \in Nat
    BY LenProperties DEF TypeOK
  <2>2. /\ Len(turns) >= 2 /\ s.what.turn = turns[Len(turns) - 1]
        /\ s.turn = turns[Len(turns)]
    BY DEF RemindInv, Due, Latest
  <2> DEFINE k == Len(turns) - 1
  <2>3. k \in 1..(Len(turns) - 1) /\ turns[k + 1] = s.turn /\ turns[k] = s.what.turn
    BY <2>1, <2>2
  <2>4. QED
    BY <2>3 DEF Before
<1>3. QED
  BY <1>1, <1>2, RemindStep, TypeCorrect, TurnsAreSerial, PTL DEF Spec
=============================================================================
