----------------------- MODULE EventAccumulatorProofs -----------------------
(***************************************************************************)
(* Theorems about Progeny's event accumulator, for any NPCs and scenes and *)
(* any events that can arrive, in packages of any length and number.       *)
(***************************************************************************)
EXTENDS EventAccumulator, FiniteSetTheorems, SequenceTheorems, TLAPS

-----------------------------------------------------------------------------
(* Sequences that grow at their end.                                       *)

LEMMA AppendGrows ==
  ASSUME NEW S, NEW s \in Seq(S), NEW x \in S
  PROVE  /\ Append(s, x) \in Seq(S) /\ Len(Append(s, x)) = Len(s) + 1
         /\ Len(s) \in Nat /\ Len(s) + 1 \notin DOMAIN s
         /\ DOMAIN s = 1..Len(s)
         /\ DOMAIN Append(s, x) = DOMAIN s \union {Len(s) + 1}
         /\ Append(s, x)[Len(s) + 1] = x
         /\ \A i \in DOMAIN s : Append(s, x)[i] = s[i]
         /\ Range(Append(s, x)) = Range(s) \union {x}
<1> DEFINE t == Append(s, x)
<1>1. /\ t \in Seq(S) /\ Len(t) = Len(s) + 1 /\ t[Len(s) + 1] = x
      /\ \A i \in 1..Len(s) : t[i] = s[i]
  BY AppendProperties
<1>2. Len(s) \in Nat /\ DOMAIN s = 1..Len(s) /\ DOMAIN t = 1..(Len(s) + 1)
  BY <1>1, LenProperties
<1> HIDE DEF t
<1>3. DOMAIN t = DOMAIN s \union {Len(s) + 1} /\ Len(s) + 1 \notin DOMAIN s
  BY <1>2
<1>4. Range(t) = Range(s) \union {x}
  <2>1. ASSUME NEW y \in Range(t)
        PROVE  y \in Range(s) \union {x}
    <3>1. PICK i \in DOMAIN s \union {Len(s) + 1} : y = t[i]
      BY <1>3, <2>1 DEF Range
    <3>2. QED
      BY <1>1, <1>2, <3>1 DEF Range
  <2>2. ASSUME NEW y \in Range(s)
        PROVE  y \in Range(t)
    <3>1. PICK i \in DOMAIN s : y = s[i]
      BY <2>2 DEF Range
    <3>2. i \in DOMAIN t /\ t[i] = y
      BY <1>1, <1>2, <1>3, <3>1
    <3>3. QED
      BY <3>2 DEF Range
  <2>3. x \in Range(t)
    BY <1>1, <1>3 DEF Range
  <2>4. QED
    BY <2>1, <2>2, <2>3
<1>5. QED
  BY <1>1, <1>2, <1>3, <1>4 DEF t

LEMMA NothingIn ==
  Range(<<>>) = {} /\ DOMAIN <<>> = {} /\ \A S : <<>> \in Seq(S)
<1>1. \A S : <<>> \in Seq(S)
  BY EmptySeq
<1>2. QED
  BY <1>1 DEF Range

LEMMA TwoInARow ==
  ASSUME NEW S, NEW x \in S, NEW y \in S
  PROVE  /\ <<x>> \o <<y>> = <<x, y>> /\ <<x, y>> \in Seq(S)
         /\ Range(<<x>>) = {x} /\ Range(<<x, y>>) = {x, y}
<1>1. <<x>> \in Seq(S)
  OBVIOUS
<1>2. <<y>> \in Seq(S)
  OBVIOUS
<1>3. <<x, y>> \in Seq(S)
  OBVIOUS
<1>4. Len(<<x, y>>) = 2 /\ <<x, y>>[1] = x /\ <<x, y>>[2] = y
  OBVIOUS
<1>5. DOMAIN <<x, y>> = 1..2
  OBVIOUS
<1>6. <<x>> \o <<y>> = <<x, y>>
  <2> DEFINE t == <<x>> \o <<y>>
  <2>1. Len(<<x>>) = 1 /\ <<x>>[1] = x /\ Len(<<y>>) = 1 /\ <<y>>[1] = y
    OBVIOUS
  <2>2. t \in Seq(S) /\ Len(t) = 2 /\ t[1] = x /\ t[2] = y
    BY <1>1, <1>2, <2>1, ConcatProperties
  <2> HIDE DEF t
  <2>3. t = <<x, y>>
    BY <1>3, <1>4, <2>2, SeqEqual
  <2>4. QED
    BY <2>3 DEF t
<1>7. Range(<<x>>) = {x}
  BY DEF Range
<1>8. Range(<<x, y>>) = {x, y}
  <2> DEFINE t == <<x, y>>
  <2>1. DOMAIN t = 1..2 /\ t[1] = x /\ t[2] = y
    BY <1>4, <1>5
  <2> HIDE DEF t
  <2>2. Range(t) = {x, y}
    BY <2>1 DEF Range
  <2>3. QED
    BY <2>2 DEF t
<1>9. QED
  BY <1>3, <1>6, <1>7, <1>8

LEMMA OneOrNone ==
  ASSUME NEW S, NEW x \in S, NEW holds \in BOOLEAN
  PROVE  /\ When(holds, x) \in Seq(S)
         /\ holds => When(holds, x) = <<x>> /\ Range(When(holds, x)) = {x}
         /\ ~holds => When(holds, x) = <<>> /\ Range(When(holds, x)) = {}
<1>1. Range(<<x>>) = {x}
  BY DEF Range
<1>2. QED
  BY <1>1, NothingIn DEF When

-----------------------------------------------------------------------------
(* What an event adds to a buffer and to a memory.                         *)

LEMMA ShapesHaveFields ==
  ASSUME NEW e \in Shapes
  PROVE  /\ e.type \in EventTypes /\ e.near \in Seq(Agents) /\ Range(e.near) \subseteq Agents
         /\ e.who \in Agents \union {Player, NoOne} /\ e.to \in Agents \union {Player, NoOne}
         /\ e.place \in Places \union {Unknown}
         /\ e \in Happening
<1>1. /\ e.type \in EventTypes /\ e.near \in Seq(Agents)
      /\ e.who \in Agents \union {Player, NoOne} /\ e.to \in Agents \union {Player, NoOne}
      /\ e.place \in Places \union {Unknown}
  BY AccumulatorAssumption DEF Shape
<1>2. Range(e.near) \subseteq Agents
  BY <1>1, ElementOfSeq DEF Range
<1>3. QED
  BY <1>1, <1>2 DEF Happening

LEMMA RoutedOnce ==
  ASSUME NEW e \in Shapes, NEW a \in Agents, This \in Nat
  PROVE  /\ Routed(e, a) \in Seq(Nat)
         /\ Range(Routed(e, a)) = IF a \in AgentsOf(e) THEN {This} ELSE {}
<1>1. /\ When(a = e.who, This) \in Seq(Nat)
      /\ Range(When(a = e.who, This)) = IF a = e.who THEN {This} ELSE {}
  BY OneOrNone
<1>2. /\ When(a = e.to, This) \in Seq(Nat)
      /\ Range(When(a = e.to, This)) = IF a = e.to THEN {This} ELSE {}
  BY OneOrNone
<1>3. /\ Routed(e, a) \in Seq(Nat)
      /\ Range(Routed(e, a)) = Range(When(a = e.who, This)) \union Range(When(a = e.to, This))
  BY <1>1, <1>2, ConcatProperties, RangeConcatenation DEF Routed
<1>4. QED
  BY <1>1, <1>2, <1>3 DEF AgentsOf

(* What an event adds to the memory of an agent. *)
Said(e, a) == Adopted(e, a) \o Spoken(e, a)

LEMMA SaidOnce ==
  ASSUME NEW e \in Shapes, NEW a \in Agents, This \in Nat
  PROVE  /\ Said(e, a) \in Seq(Entry)
         /\ Range(Said(e, a)) \subseteq {AsSpeaker, AsListener}
         /\ AsSpeaker \in Range(Said(e, a))
              <=> a = e.who /\ (e.type = "chat" \/ Speaks(e, a))
         /\ IsInjective(Said(e, a)) /\ SaidInOrder(Said(e, a))
         /\ Said(e, a) # <<>> => a \in AgentsOf(e)
         /\ \A d \in Seq(Entry) : d \o Adopted(e, a) \o Spoken(e, a) = d \o Said(e, a)
<1> DEFINE says  == When(e.type = "chat" /\ a = e.who, AsSpeaker)
           hears == When(e.type = "chat" /\ a = e.to, AsListener)
           alone == When(Speaks(e, a), AsSpeaker)
<1>1. /\ AsSpeaker \in Entry /\ AsListener \in Entry /\ AsSpeaker # AsListener
      /\ AsSpeaker.role = "assistant" /\ AsListener.role = "user"
  BY DEF AsSpeaker, AsListener, Entry
<1>2. /\ says \in {<<>>, <<AsSpeaker>>} /\ hears \in {<<>>, <<AsListener>>}
      /\ alone \in {<<>>, <<AsSpeaker>>}
  BY DEF When
<1>3. /\ says = <<AsSpeaker>> <=> e.type = "chat" /\ a = e.who
      /\ hears = <<AsListener>> <=> e.type = "chat" /\ a = e.to
      /\ alone = <<AsSpeaker>> <=> Speaks(e, a)
  BY DEF When
<1>4. Speaks(e, a) => e.type # "chat" /\ a = e.who
  BY DEF Speaks
<1>5. Adopted(e, a) = says \o hears /\ Spoken(e, a) = alone
  BY DEF Adopted, Spoken
<1> HIDE DEF says, hears, alone
<1>6. \A s \in Seq(Entry) : s \o <<>> = s /\ <<>> \o s = s
  BY ConcatEmptySeq
<1>7. /\ <<>> \in Seq(Entry) /\ <<AsSpeaker>> \in Seq(Entry) /\ <<AsListener>> \in Seq(Entry)
      /\ <<AsSpeaker, AsListener>> \in Seq(Entry)
  BY <1>1
<1>8. /\ <<AsSpeaker>> \o <<AsListener>> = <<AsSpeaker, AsListener>>
      /\ Range(<<AsSpeaker, AsListener>>) = {AsSpeaker, AsListener}
      /\ Range(<<AsSpeaker>>) = {AsSpeaker}
  <2> DEFINE spoken == AsSpeaker
             heard == AsListener
  <2>1. spoken \in Entry /\ heard \in Entry
    BY <1>1
  <2> HIDE DEF spoken, heard
  <2>2. /\ <<spoken>> \o <<heard>> = <<spoken, heard>>
        /\ Range(<<spoken, heard>>) = {spoken, heard} /\ Range(<<spoken>>) = {spoken}
    BY <2>1, TwoInARow
  <2>3. QED
    BY <2>2 DEF spoken, heard
<1>9. Adopted(e, a) \in {<<>>, <<AsSpeaker>>, <<AsListener>>, <<AsSpeaker, AsListener>>}
  BY <1>2, <1>5, <1>6, <1>7, <1>8
<1>10. /\ Said(e, a) = Adopted(e, a) \/ (Adopted(e, a) = <<>> /\ Said(e, a) = <<AsSpeaker>>)
       /\ Said(e, a) \in {<<>>, <<AsSpeaker>>, <<AsListener>>, <<AsSpeaker, AsListener>>}
  <2>1. CASE Speaks(e, a)
    <3>1. says = <<>> /\ hears = <<>> /\ alone = <<AsSpeaker>>
      BY <1>2, <1>3, <1>4, <2>1
    <3>2. QED
      BY <1>5, <1>6, <1>7, <3>1 DEF Said
  <2>2. CASE ~Speaks(e, a)
    <3>1. alone = <<>>
      BY <1>2, <1>3, <2>2
    <3>2. QED
      BY <1>5, <1>6, <1>7, <1>9, <3>1 DEF Said
  <2>3. QED
    BY <2>1, <2>2
<1>11. /\ Range(<<>>) = {} /\ Range(<<AsSpeaker>>) = {AsSpeaker}
       /\ Range(<<AsListener>>) = {AsListener}
       /\ Range(<<AsSpeaker, AsListener>>) = {AsSpeaker, AsListener}
  <2>1. Range(<<AsListener>>) = {AsListener}
    BY DEF Range
  <2>2. QED
    BY <1>8, <2>1, NothingIn
<1>12. \A d \in Seq(Entry) : d \o Adopted(e, a) \o Spoken(e, a) = d \o Said(e, a)
  BY <1>2, <1>5, <1>7, <1>9, ConcatAssociative DEF Said
<1>13. AsSpeaker \in Range(Said(e, a)) <=> a = e.who /\ (e.type = "chat" \/ Speaks(e, a))
  <2>1. CASE Speaks(e, a)
    <3>1. says = <<>> /\ hears = <<>> /\ alone = <<AsSpeaker>>
      BY <1>2, <1>3, <1>4, <2>1
    <3>2. Said(e, a) = <<AsSpeaker>>
      BY <1>5, <1>6, <1>7, <3>1 DEF Said
    <3>3. QED
      BY <1>4, <1>11, <2>1, <3>2
  <2>2. CASE ~Speaks(e, a)
    <3>1. Said(e, a) = says \o hears
      BY <1>2, <1>3, <1>5, <1>6, <1>7, <1>9, <2>2 DEF Said
    <3>2. Range(Said(e, a)) = Range(says) \union Range(hears)
      <4>1. says \in Seq(Entry) /\ hears \in Seq(Entry)
        BY <1>2, <1>7
      <4>2. QED
        BY <3>1, <4>1, RangeConcatenation
    <3>3. QED
      BY <1>1, <1>2, <1>3, <1>11, <2>2, <3>2
  <2>3. QED
    BY <2>1, <2>2
<1>14. Said(e, a) # <<>> => a \in AgentsOf(e)
  BY <1>2, <1>3, <1>4, <1>5, <1>6, <1>7 DEF Said, AgentsOf
<1>15. IsInjective(Said(e, a)) /\ SaidInOrder(Said(e, a))
  <2>1. \A s \in {<<>>, <<AsSpeaker>>, <<AsListener>>, <<AsSpeaker, AsListener>>} :
          IsInjective(s) /\ SaidInOrder(s)
    BY <1>1 DEF IsInjective, SaidInOrder
  <2>2. QED
    BY <1>10, <2>1
<1>16. QED
  BY <1>7, <1>10, <1>11, <1>12, <1>13, <1>14, <1>15

(* A memory in which the copies of a line stand together and what was said  *)
(* is in order stays so, when what is added is of an event it has nothing  *)
(* of yet, and is later than all it has or nothing the agent says.         *)
LEMMA MemoryGrows ==
  ASSUME NEW s \in Seq(Entry), NEW t \in Seq(Entry), NEW n \in Nat,
         Together(s), Together(t), SaidInOrder(s), SaidInOrder(t),
         \A x \in Range(s) : x.of # n,
         \A x \in Range(t) : x.of = n,
         \/ \A x \in Range(t) : x.role = "user"
         \/ \A x \in Range(s) : x.of < n
  PROVE  /\ s \o t \in Seq(Entry) /\ Range(s \o t) = Range(s) \union Range(t)
         /\ Len(s \o t) \in Nat /\ Len(s) \in Nat /\ Len(s \o t) >= Len(s)
         /\ Together(s \o t) /\ SaidInOrder(s \o t)
         /\ Repeated(s \o t) \subseteq Repeated(s) \union Repeated(t)
<1> DEFINE u == s \o t
           m == Len(s)
<1>1. /\ u \in Seq(Entry) /\ Len(u) = m + Len(t)
      /\ \A i \in 1..(m + Len(t)) : u[i] = IF i <= m THEN s[i] ELSE t[i - m]
      /\ Range(u) = Range(s) \union Range(t)
  BY ConcatProperties, RangeConcatenation
<1>2. /\ m \in Nat /\ Len(t) \in Nat /\ DOMAIN s = 1..m /\ DOMAIN t = 1..Len(t)
      /\ DOMAIN u = 1..(m + Len(t))
  BY <1>1, LenProperties
<1> HIDE DEF u, m
<1>3. ASSUME NEW i \in DOMAIN u
      PROVE  \/ i \in DOMAIN s /\ u[i] = s[i] /\ u[i].of # n
             \/ i > m /\ i - m \in DOMAIN t /\ u[i] = t[i - m] /\ u[i].of = n
  <2>1. CASE i <= m
    <3>1. i \in DOMAIN s /\ u[i] = s[i]
      BY <1>1, <1>2, <2>1
    <3>2. u[i] \in Range(s)
      BY <3>1 DEF Range
    <3>3. QED
      BY <3>1, <3>2
  <2>2. CASE i > m
    <3>1. i - m \in DOMAIN t /\ u[i] = t[i - m]
      BY <1>1, <1>2, <2>2
    <3>2. u[i] \in Range(t)
      BY <3>1 DEF Range
    <3>3. QED
      BY <2>2, <3>1, <3>2
  <2>3. QED
    BY <1>2, <2>1, <2>2
<1>4. ASSUME NEW i \in DOMAIN u, NEW j \in DOMAIN u, u[i] = u[j]
      PROVE  \/ /\ i \in DOMAIN s /\ u[i] = s[i] /\ j \in DOMAIN s /\ u[j] = s[j]
             \/ /\ i - m \in DOMAIN t /\ u[i] = t[i - m] /\ i > m
                /\ j - m \in DOMAIN t /\ u[j] = t[j - m] /\ j > m
  BY <1>3, <1>4
<1>5. ASSUME NEW i \in DOMAIN u, NEW j \in DOMAIN u, i < j,
             u[i].role = "assistant", u[j].role = "assistant"
      PROVE  u[i].of < u[j].of
  <2>1. CASE j \in DOMAIN s /\ u[j] = s[j]
    <3>1. i \in DOMAIN s /\ u[i] = s[i]
      BY <1>1, <1>2, <1>5, <2>1
    <3>2. QED
      BY <1>5, <2>1, <3>1 DEF SaidInOrder
  <2>2. CASE j > m /\ j - m \in DOMAIN t /\ u[j] = t[j - m] /\ u[j].of = n
    <3>1. CASE i \in DOMAIN s /\ u[i] = s[i]
      <4>1. u[i] \in Range(s) /\ u[j] \in Range(t)
        BY <2>2, <3>1 DEF Range
      <4>2. ~ \A x \in Range(t) : x.role = "user"
        BY <1>5, <4>1
      <4>3. QED
        BY <2>2, <4>1, <4>2
    <3>2. CASE i > m /\ i - m \in DOMAIN t /\ u[i] = t[i - m]
      <4>1. i - m < j - m
        BY <1>2, <1>5
      <4>2. QED
        BY <1>5, <2>2, <3>2, <4>1 DEF SaidInOrder
    <3>3. QED
      BY <1>3, <3>1, <3>2
  <2>3. QED
    BY <1>3, <2>1, <2>2
<1>6. ASSUME NEW i \in DOMAIN u, NEW j \in DOMAIN u, u[i] = u[j], NEW l \in i..j
      PROVE  u[l] = u[i]
  <2>1. CASE i \in DOMAIN s /\ u[i] = s[i] /\ j \in DOMAIN s /\ u[j] = s[j]
    <3>1. l \in DOMAIN s /\ u[l] = s[l]
      BY <1>1, <1>2, <2>1
    <3>2. s[l] = s[i]
      BY <1>6, <2>1 DEF Together
    <3>3. QED
      BY <2>1, <3>1, <3>2
  <2>2. CASE /\ i - m \in DOMAIN t /\ u[i] = t[i - m] /\ i > m
             /\ j - m \in DOMAIN t /\ u[j] = t[j - m] /\ j > m
    <3>1. l - m \in (i - m)..(j - m) /\ l \in DOMAIN u /\ l > m
      BY <1>2, <2>2
    <3>2. u[l] = t[l - m]
      BY <1>1, <1>2, <3>1
    <3>3. t[l - m] = t[i - m]
      BY <1>6, <2>2, <3>1 DEF Together
    <3>4. QED
      BY <2>2, <3>2, <3>3
  <2>3. QED
    BY <1>4, <1>6, <2>1, <2>2
<1>7. ASSUME NEW x \in Repeated(u)
      PROVE  x \in Repeated(s) \union Repeated(t)
  <2>1. PICK i \in DOMAIN u, j \in DOMAIN u : i # j /\ u[i] = x /\ u[j] = x
    BY <1>7 DEF Repeated
  <2>2. CASE i \in DOMAIN s /\ u[i] = s[i] /\ j \in DOMAIN s /\ u[j] = s[j]
    BY <2>1, <2>2 DEF Repeated, Range
  <2>3. CASE /\ i - m \in DOMAIN t /\ u[i] = t[i - m] /\ i > m
             /\ j - m \in DOMAIN t /\ u[j] = t[j - m] /\ j > m
    <3>1. i - m # j - m
      BY <1>2, <2>1
    <3>2. QED
      BY <2>1, <2>3, <3>1 DEF Repeated, Range
  <2>4. QED
    BY <1>4, <2>1, <2>2, <2>3
<1>8. Together(u) /\ SaidInOrder(u)
  BY <1>5, <1>6 DEF Together, SaidInOrder
<1>9. QED
  BY <1>1, <1>2, <1>7, <1>8 DEF u, m

(* A sequence without repetition has nothing repeated, and what it holds   *)
(* of a line stands together.                                              *)
LEMMA InjectiveRepeatsNothing ==
  ASSUME NEW s, IsInjective(s)
  PROVE  Repeated(s) = {} /\ Together(s)
<1>1. Repeated(s) = {}
  BY DEF IsInjective, Repeated
<1>2. ASSUME NEW j \in DOMAIN s, NEW k \in DOMAIN s, s[j] = s[k], NEW l \in j..k
      PROVE  s[l] = s[j]
  <2>1. j = k
    BY <1>2 DEF IsInjective
  <2>2. CASE l = j
    BY <2>2
  <2>3. QED
    BY <1>2, <2>1, <2>2
<1>3. QED
  BY <1>1, <1>2 DEF Together

-----------------------------------------------------------------------------
(* The window that slides.                                                 *)

(* It keeps the end of the sequence, and drops nothing of a short one. *)
LEMMA SlidIsTail ==
  ASSUME NEW X, NEW s \in Seq(X)
  PROVE  /\ Slid(s) \in Seq(X) /\ Range(Slid(s)) \subseteq Range(s)
         /\ Slid(s) = s \/ Len(Slid(s)) = VerbatimMax
         /\ \E d \in Nat :
              /\ \A i \in DOMAIN Slid(s) : i \in Nat /\ i + d \in DOMAIN s /\ Slid(s)[i] = s[i + d]
              /\ \A i \in DOMAIN s : /\ i \in Nat
                                     /\ i > d => i - d \in DOMAIN Slid(s) /\ Slid(s)[i - d] = s[i]
<1>v. VerbatimMax \in Nat
  BY AccumulatorAssumption
<1>1. /\ Len(s) \in Nat /\ DOMAIN s = 1..Len(s)
      /\ \A i \in 1..Len(s) : s[i] \in X
  BY LenProperties, ElementOfSeq
<1>2. CASE Len(s) <= VerbatimMax
  <2>1. Slid(s) = s
    BY <1>v, <1>1, <1>2 DEF Slid
  <2>2. /\ \A i \in DOMAIN s : i \in Nat /\ i + 0 \in DOMAIN s /\ s[i] = s[i + 0]
        /\ \A i \in DOMAIN s : i \in Nat /\ (i > 0 => i - 0 \in DOMAIN s /\ s[i - 0] = s[i])
    BY <1>1
  <2>3. QED
    BY <2>1, <2>2
<1>3. CASE Len(s) > VerbatimMax
  <2> DEFINE d == Len(s) - VerbatimMax
             t == SubSeq(s, d + 1, Len(s))
  <2>1. Slid(s) = t
    BY <1>3 DEF Slid
  <2>2. d \in Nat /\ d + VerbatimMax = Len(s)
    BY <1>v, <1>1, <1>3
  <2>3. /\ t \in Seq(X) /\ Len(t) = IF d + 1 <= Len(s) THEN Len(s) - (d + 1) + 1 ELSE 0
        /\ \A i \in 1..(Len(s) - (d + 1) + 1) : t[i] = s[(d + 1) + i - 1]
    <3>1. d + 1 \in Int /\ Len(s) \in Int
      BY <1>1, <2>2
    <3>2. \A i \in (d + 1)..Len(s) : s[i] \in X
      BY <1>1, <2>2
    <3> HIDE DEF d
    <3>3. QED
      BY <3>1, <3>2, SubSeqProperties
  <2> HIDE DEF d, t
  <2>4. Len(t) = VerbatimMax
    <3>1. CASE VerbatimMax = 0
      <4>1. ~(d + 1 <= Len(s))
        BY <1>1, <2>2, <3>1
      <4>2. QED
        BY <2>3, <3>1, <4>1
    <3>2. CASE VerbatimMax # 0
      <4>1. \A l, v, c \in Nat : c + v = l /\ v # 0 => c + 1 <= l /\ l - (c + 1) + 1 = v
        OBVIOUS
      <4>2. d + 1 <= Len(s) /\ Len(s) - (d + 1) + 1 = VerbatimMax
        <5>1. Len(s) \in Nat
          BY <1>1
        <5>2. QED
          BY <1>v, <2>2, <3>2, <4>1, <5>1
      <4>3. QED
        BY <2>3, <4>2
    <3>3. QED
      BY <3>1, <3>2
  <2>5. DOMAIN t = 1..VerbatimMax
    BY <2>3, <2>4, LenProperties
  <2>6. ASSUME NEW i \in DOMAIN t
        PROVE  i \in Nat /\ i + d \in DOMAIN s /\ t[i] = s[i + d]
    <3>1. i \in Nat /\ i + d \in 1..Len(s) /\ i \in 1..(Len(s) - (d + 1) + 1)
      BY <1>v, <1>1, <2>2, <2>5
    <3>2. t[i] = s[(d + 1) + i - 1] /\ (d + 1) + i - 1 = i + d
      BY <2>2, <2>3, <3>1
    <3>3. QED
      BY <1>1, <3>1, <3>2
  <2>7. ASSUME NEW i \in DOMAIN s, i > d
        PROVE  i - d \in DOMAIN t /\ t[i - d] = s[i]
    <3>1. i - d \in DOMAIN t /\ (i - d) + d = i
      BY <1>v, <1>1, <2>2, <2>5, <2>7
    <3>2. QED
      BY <2>6, <3>1
  <2>8. Range(t) \subseteq Range(s)
    BY <2>6 DEF Range
  <2>9. \A i \in DOMAIN s : i \in Nat
    BY <1>1
  <2>10. QED
    BY <2>1, <2>2, <2>3, <2>4, <2>6, <2>7, <2>8, <2>9
<1>4. Len(s) <= VerbatimMax \/ Len(s) > VerbatimMax
  BY <1>v, <1>1
<1>5. QED
  BY <1>2, <1>3, <1>4, Zenon

LEMMA SlidKeepsMemory ==
  ASSUME NEW s \in Seq(Entry), Together(s), SaidInOrder(s)
  PROVE  /\ Together(Slid(s)) /\ SaidInOrder(Slid(s))
         /\ Repeated(Slid(s)) \subseteq Repeated(s)
<1> DEFINE t == Slid(s)
<1>1. PICK d \in Nat :
        \A i \in DOMAIN t : i \in Nat /\ i + d \in DOMAIN s /\ t[i] = s[i + d]
  BY SlidIsTail
<1>2. t \in Seq(Entry) /\ DOMAIN t = 1..Len(t) /\ Len(t) \in Nat
  BY SlidIsTail, LenProperties
<1> HIDE DEF t
<1>3. ASSUME NEW j \in DOMAIN t, NEW k \in DOMAIN t, t[j] = t[k], NEW l \in j..k
      PROVE  t[l] = t[j]
  <2>1. l \in DOMAIN t /\ l + d \in (j + d)..(k + d)
    BY <1>1, <1>2
  <2>2. s[l + d] = s[j + d]
    BY <1>1, <1>3, <2>1 DEF Together
  <2>3. QED
    BY <1>1, <2>1, <2>2
<1>4. ASSUME NEW j \in DOMAIN t, NEW k \in DOMAIN t, j < k,
             t[j].role = "assistant", t[k].role = "assistant"
      PROVE  t[j].of < t[k].of
  <2>1. j + d < k + d
    BY <1>1, <1>4
  <2>2. QED
    BY <1>1, <1>4, <2>1 DEF SaidInOrder
<1>5. ASSUME NEW x \in Repeated(t)
      PROVE  x \in Repeated(s)
  <2>1. PICK j \in DOMAIN t, k \in DOMAIN t : j # k /\ t[j] = x /\ t[k] = x
    BY <1>5 DEF Repeated
  <2>2. j + d # k + d
    BY <1>1, <2>1
  <2>3. /\ j + d \in DOMAIN s /\ s[j + d] = x
        /\ k + d \in DOMAIN s /\ s[k + d] = x
    BY <1>1, <2>1
  <2>4. QED
    BY <2>2, <2>3 DEF Repeated, Range
<1>6. QED
  BY <1>3, <1>4, <1>5 DEF t, Together, SaidInOrder

(* The events of the entries of a history that are among those in "kept". *)
OfThose(history, kept) == {x.of : x \in {y \in Range(history) : y \in kept}}

LEMMA SlidKeepsLatest ==
  ASSUME NEW X, NEW s \in Seq(X), NEW kept, NEW said \in SUBSET Nat,
         \A j, k \in DOMAIN s :
            j < k /\ s[j] \in kept /\ s[k] \in kept => s[j].of < s[k].of,
         Latest(OfThose(s, kept), said)
  PROVE  Latest(OfThose(Slid(s), kept), said)
<1> DEFINE t == Slid(s)
<1>1. PICK d \in Nat :
        /\ \A i \in DOMAIN t : i \in Nat /\ i + d \in DOMAIN s /\ t[i] = s[i + d]
        /\ \A i \in DOMAIN s : i \in Nat /\ (i > d => i - d \in DOMAIN t /\ t[i - d] = s[i])
  BY SlidIsTail
<1>2. Range(t) \subseteq Range(s)
  BY SlidIsTail
<1> HIDE DEF t
<1>3. OfThose(t, kept) \subseteq OfThose(s, kept)
  BY <1>2 DEF OfThose
<1>4. ASSUME NEW n \in OfThose(t, kept), NEW m \in said, m > n
      PROVE  m \in OfThose(t, kept)
  <2>1. PICK j \in DOMAIN t : t[j] \in kept /\ n = t[j].of
    BY <1>4 DEF OfThose, Range
  <2>2. m \in OfThose(s, kept)
    BY <1>3, <1>4 DEF Latest
  <2>3. PICK k \in DOMAIN s : s[k] \in kept /\ m = s[k].of
    BY <2>2 DEF OfThose, Range
  <2>4. /\ j + d \in DOMAIN s /\ s[j + d] \in kept /\ s[j + d].of = n
        /\ j \in Nat /\ k \in Nat /\ j > 0
    <3>1. DOMAIN t = 1..Len(t)
      BY SlidIsTail, LenProperties DEF t
    <3>2. QED
      BY <1>1, <2>1, <2>3, <3>1
  <2>5. n \in Nat /\ m \in Nat
    BY <1>3, <1>4 DEF Latest
  <2>6. ~(k < j + d)
    BY <1>4, <2>3, <2>4, <2>5
  <2>7. k # j + d
    BY <1>4, <2>3, <2>4, <2>5
  <2>8. k > d
    BY <2>4, <2>6, <2>7
  <2>9. k - d \in DOMAIN t /\ t[k - d] = s[k]
    BY <1>1, <2>8
  <2>10. QED
    BY <2>3, <2>9 DEF OfThose, Range
<1>5. QED
  BY <1>3, <1>4 DEF t, Latest

(* The latest of what was said, as more is said. *)
LEMMA LatestGrows ==
  ASSUME NEW said \in SUBSET Nat, NEW n \in Nat, NEW new \in {{}, {n}},
         \A j \in said : j < n
  PROVE  \A held : Latest(held, said) => Latest(held \union new, said \union new)
<1> SUFFICES ASSUME NEW held, Latest(held, said)
             PROVE  Latest(held \union new, said \union new)
  OBVIOUS
<1>1. ASSUME NEW i \in held \union new, NEW j \in said \union new, j > i
      PROVE  j \in held \union new
  <2>1. CASE j \in new
    BY <2>1
  <2>2. CASE j \in said /\ i \in held
    BY <1>1, <2>2 DEF Latest
  <2>3. CASE j \in said /\ i \in new
    <3>1. i = n /\ j < n /\ j \in Nat
      BY <2>3
    <3>2. QED
      BY <1>1, <3>1
  <2>4. QED
    BY <2>1, <2>2, <2>3
<1>2. QED
  BY <1>1 DEF Latest

(* One line, as often as it was heard. *)
LEMMA CopiesOfOne ==
  ASSUME NEW x \in Entry, NEW n \in Nat, x.role = "user"
  PROVE  LET s == [k \in 1..n |-> x] IN
           /\ s \in Seq(Entry) /\ Together(s) /\ SaidInOrder(s)
           /\ Range(s) \subseteq {x}
           /\ Repeated(s) \subseteq {x} /\ (n <= 1 => Repeated(s) = {})
<1> DEFINE s == [k \in 1..n |-> x]
<1>1. s \in [1..n -> Entry] /\ DOMAIN s = 1..n /\ \A k \in 1..n : s[k] = x
  OBVIOUS
<1> HIDE DEF s
<1>2. s \in Seq(Entry)
  BY <1>1, SeqDef
<1>3. Together(s) /\ SaidInOrder(s)
  BY <1>1 DEF Together, SaidInOrder
<1>4. Range(s) \subseteq {x} /\ Repeated(s) \subseteq {x}
  BY <1>1 DEF Range, Repeated
<1>5. n <= 1 => Repeated(s) = {}
  BY <1>1 DEF Repeated
<1>6. QED
  BY <1>2, <1>3, <1>4, <1>5 DEF s

(* How often somebody hears the player. *)
LEMMA TimesIsNatural ==
  ASSUME NEW a, NEW names \in Seq(Agents)
  PROVE  Times(a, names) \in Nat
<1>1. DOMAIN names = 1..Len(names) /\ Len(names) \in Nat
  BY LenProperties
<1>2. IsFiniteSet(1..Len(names))
  BY <1>1, FS_Interval
<1>3. {k \in DOMAIN names : names[k] = a} \in SUBSET (1..Len(names))
  BY <1>1
<1>4. QED
  BY <1>2, <1>3, FS_Subset, FS_CardinalityType DEF Times

-----------------------------------------------------------------------------
(* What arrives, and types.                                                *)

(* The event e arrives: the histories grow by one. *)
Arrival(e) ==
  /\ arrived' = Append(arrived, e)
  /\ handed' = Append(handed, 0)
  /\ sceneAt' = Append(sceneAt, active)

LEMMA ArrivalGrows ==
  ASSUME TypeOK, OnlyWhatArrived, NEW e \in Happening, Arrival(e)
  PROVE  /\ This \in Nat /\ This \notin DOMAIN arrived /\ This \in DOMAIN arrived'
         /\ arrived' \in Seq(Happening) /\ handed' \in Seq(Nat)
         /\ sceneAt' \in Seq(SUBSET Agents)
         /\ DOMAIN arrived = 1..Len(arrived) /\ Len(arrived) \in Nat
         /\ Len(arrived') = Len(arrived) + 1
         /\ DOMAIN arrived' = DOMAIN arrived \union {This}
         /\ Len(handed') = Len(arrived') /\ Len(sceneAt') = Len(arrived')
         /\ resetAt <= Len(arrived') /\ resetAt < This
         /\ arrived'[This] = e /\ handed'[This] = 0
         /\ sceneAt'[This] = active
         /\ \A i \in DOMAIN arrived : /\ i < This
                                      /\ arrived'[i] = arrived[i] /\ handed'[i] = handed[i]
                                      /\ handed[i] \in Nat /\ sceneAt'[i] = sceneAt[i]
<1>t. /\ arrived \in Seq(Happening) /\ handed \in Seq(Nat) /\ sceneAt \in Seq(SUBSET Agents)
      /\ active \in SUBSET Agents /\ resetAt \in Nat
      /\ Len(handed) = Len(arrived) /\ Len(sceneAt) = Len(arrived) /\ resetAt <= Len(arrived)
  BY DEF TypeOK, OnlyWhatArrived
<1>1. /\ arrived' \in Seq(Happening) /\ Len(arrived') = Len(arrived) + 1
      /\ Len(arrived) \in Nat /\ Len(arrived) + 1 \notin DOMAIN arrived
      /\ DOMAIN arrived = 1..Len(arrived)
      /\ DOMAIN arrived' = DOMAIN arrived \union {Len(arrived) + 1}
      /\ arrived'[Len(arrived) + 1] = e
      /\ \A i \in DOMAIN arrived : arrived'[i] = arrived[i]
  BY <1>t, AppendGrows DEF Arrival
<1>2. /\ handed' \in Seq(Nat) /\ Len(handed') = Len(handed) + 1
      /\ DOMAIN handed = 1..Len(handed)
      /\ handed'[Len(handed) + 1] = 0
      /\ \A i \in DOMAIN handed : handed'[i] = handed[i]
  BY <1>t, AppendGrows DEF Arrival
<1>3. \A i \in DOMAIN handed : handed[i] \in Nat
  BY <1>t, <1>2, ElementOfSeq
<1>4. /\ sceneAt' \in Seq(SUBSET Agents) /\ Len(sceneAt') = Len(sceneAt) + 1
      /\ DOMAIN sceneAt = 1..Len(sceneAt)
      /\ sceneAt'[Len(sceneAt) + 1] = active
      /\ \A i \in DOMAIN sceneAt : sceneAt'[i] = sceneAt[i]
  BY <1>t, AppendGrows DEF Arrival
<1>5. QED
  BY <1>t, <1>1, <1>2, <1>3, <1>4 DEF This

LEMMA ArrivesIsArrival ==
  ASSUME NEW e, Arrives(e)
  PROVE  /\ Arrival(e) /\ phase' = "ingest"
         /\ sleeps' = (sleeps \/ e.type = "goodnight")
         /\ UNCHANGED <<packages, active, entered, exited, turn>>
BY DEF Arrives, Arrival

LEMMA FactTypes ==
  ASSUME TypeOK, NEW e \in Shapes, This \in Nat, RecordFact(e)
  PROVE  facts' \in Seq(Fact) /\ registered' \subseteq Agents
<1> DEFINE fact == [of |-> This, category |-> Category(e),
                    knowers |-> {Player} \union active \union Overhear(e),
                    supersededBy |-> 0]
<1>1. Overhear(e) \subseteq Agents
  BY ShapesHaveFields DEF Overhear
<1>2. fact \in Fact
  BY <1>1 DEF TypeOK, Fact, Category
<1> HIDE DEF fact
<1>3. Append(facts, fact) \in Seq(Fact)
  BY <1>2, AppendProperties DEF TypeOK
<1>4. facts' = Append(facts, fact)
  BY DEF RecordFact, fact
<1>5. QED
  BY <1>1, <1>3, <1>4 DEF RecordFact, TypeOK

(* What an agent hears of a turn's input. *)
LEMMA HeardOfInput ==
  ASSUME TypeOK, NEW a \in Agents
  PROVE  LET heard == [role |-> "user", of |-> turn.input] IN
           /\ Copies(a) \in Nat /\ heard \in Entry
           /\ Heard(a) \in Seq(Entry) /\ Together(Heard(a)) /\ SaidInOrder(Heard(a))
           /\ Range(Heard(a)) \subseteq {heard} /\ Repeated(Heard(a)) \subseteq {heard}
           /\ Copies(a) <= 1 => Repeated(Heard(a)) = {}
           /\ Copies(a) > 1 => speech # NoSpeech /\ a # speech.to /\ Times(a, speech.near) > 1
<1> DEFINE heard == [role |-> "user", of |-> turn.input]
<1>1. heard \in Entry /\ heard.role = "user"
  BY DEF Entry, TypeOK, Turn
<1>2. speech.near \in Seq(Agents)
  BY DEF TypeOK
<1>3. Times(a, speech.near) \in Nat
  BY <1>2, TimesIsNatural
<1>4. /\ Copies(a) \in Nat
      /\ Copies(a) > 1 => speech # NoSpeech /\ a # speech.to /\ Times(a, speech.near) > 1
  BY <1>3 DEF Copies
<1>5. Heard(a) = [k \in 1..Copies(a) |-> heard]
  BY DEF Heard
<1> HIDE DEF heard
<1>6. /\ Heard(a) \in Seq(Entry) /\ Together(Heard(a)) /\ SaidInOrder(Heard(a))
      /\ Range(Heard(a)) \subseteq {heard} /\ Repeated(Heard(a)) \subseteq {heard}
      /\ Copies(a) <= 1 => Repeated(Heard(a)) = {}
  BY <1>1, <1>4, <1>5, CopiesOfOne
<1>7. QED
  BY <1>1, <1>4, <1>6, Zenon DEF heard

LEMMA StepKeepsTypes ==
  ASSUME TypeOK, OnlyWhatArrived, InputIsNew, [Next]_accVars
  PROVE  TypeOK'
<1> USE DEF bufferVars, sceneVars, poolVars, historyVars
<1>e. \A S : <<>> \in Seq(S)
  BY EmptySeq
<1>1. ASSUME NEW scene \in Scenes, BeginPackage(scene)
      PROVE  TypeOK'
  <2>1. scene \subseteq Agents
    BY AccumulatorAssumption
  <2>2. earshot' \in [Agents -> SUBSET Agents]
    BY <1>1, <2>1 DEF BeginPackage, TypeOK
  <2>3. /\ active' \subseteq Agents /\ prevActive' \subseteq Agents
        /\ entered' \subseteq Agents /\ exited' \subseteq Agents
        /\ registered' \subseteq Agents
        /\ packages' \in Nat /\ phase' = "begun" /\ sleeps' = FALSE
    BY <1>1, <2>1 DEF BeginPackage, TypeOK
  <2>4. QED
    BY <1>1, <2>2, <2>3 DEF BeginPackage, TypeOK
<1>2. ASSUME NEW e \in Shapes, HandleEvent(e)
      PROVE  TypeOK'
  <2>1. Arrives(e)
    BY <1>2 DEF HandleEvent, HandleInput, HandleReset, HandleSession, HandleLocation, HandleRouted
  <2>2. e \in Happening
    BY DEF Happening
  <2>3. /\ arrived' \in Seq(Happening) /\ handed' \in Seq(Nat)
        /\ sceneAt' \in Seq(SUBSET Agents) /\ This \in Nat /\ phase' = "ingest"
        /\ UNCHANGED <<packages, active, entered, exited, turn>>
    BY <2>1, <2>2, ArrivesIsArrival, ArrivalGrows
  <2>0. sleeps' \in BOOLEAN
    BY <2>1, ArrivesIsArrival DEF TypeOK
  <2>4. CASE HandleInput(e)
    BY <2>0, <2>3, <2>4 DEF HandleInput, TypeOK
  <2>5. CASE HandleReset(e)
    <3>1. session' \in Seq(Nat)
      BY <2>3, <2>5, AppendProperties DEF HandleReset, TypeOK
    <3>2. /\ events' \in [Agents -> Seq(Nat)] /\ dialogue' \in [Agents -> Seq(Entry)]
          /\ world' \in Seq(Nat) /\ group' \in Seq(GroupEntry)
      BY <1>e, <2>5 DEF HandleReset, Reset
    <3>3. /\ known' \subseteq Agents /\ earshot' \in [Agents -> SUBSET Agents]
          /\ location' \in Places \union {Unknown} /\ prevActive' \subseteq Agents
          /\ speech' \in [to : Agents \union {Player, NoOne, None}, near : Seq(Agents)]
          /\ resetAt' \in Nat /\ introduced' \subseteq Agents
      BY <1>e, <2>3, <2>5 DEF HandleReset, Reset, NoSpeech
    <3>4. QED
      BY <2>0, <2>3, <2>5, <3>1, <3>2, <3>3 DEF HandleReset, Reset, TypeOK
  <2>6. CASE HandleSession(e)
    <3>1. session' \in Seq(Nat)
      BY <2>3, <2>6, AppendProperties DEF HandleSession, TypeOK
    <3>2. QED
      BY <2>0, <2>3, <2>6, <3>1 DEF HandleSession, TypeOK
  <2>7. CASE HandleLocation(e)
    <3>1. world' \in Seq(Nat)
      BY <2>3, <2>7, AppendProperties DEF HandleLocation, TypeOK
    <3>2. facts' \in Seq(Fact) /\ registered' \subseteq Agents
      BY <2>3, <2>7, FactTypes DEF HandleLocation
    <3>3. location' \in Places \union {Unknown}
      BY <2>7, ShapesHaveFields DEF HandleLocation
    <3>4. QED
      BY <2>0, <2>3, <2>7, <3>1, <3>2, <3>3 DEF HandleLocation, TypeOK
  <2>8. CASE HandleRouted(e)
    <3>1. \A a \in Agents : events[a] \in Seq(Nat) /\ Routed(e, a) \in Seq(Nat)
      BY <2>3, RoutedOnce DEF TypeOK
    <3>2. \A a \in Agents : events[a] \o Routed(e, a) \in Seq(Nat)
      BY <3>1, ConcatProperties
    <3>3. events' \in [Agents -> Seq(Nat)]
      BY <2>8, <3>2 DEF HandleRouted
    <3>4. \A a \in Agents : dialogue[a] \in Seq(Entry) /\ Said(e, a) \in Seq(Entry)
      BY <2>3, SaidOnce DEF TypeOK
    <3>5. \A a \in Agents : dialogue[a] \o Said(e, a) \in Seq(Entry)
      BY <3>4, ConcatProperties
    <3>6. \A a \in Agents : dialogue[a] \o Adopted(e, a) \o Spoken(e, a)
                              = dialogue[a] \o Said(e, a)
      BY <2>3, <3>4, SaidOnce
    <3>7. dialogue' \in [Agents -> Seq(Entry)]
      BY <2>8, <3>5, <3>6 DEF HandleRouted
    <3>8. facts' \in Seq(Fact) /\ registered' \subseteq Agents
      BY <2>3, <2>8, FactTypes DEF HandleRouted
    <3>9. world' \in Seq(Nat)
      BY <2>3, <2>8, AppendProperties DEF HandleRouted, TypeOK
    <3>10. group' \in Seq(GroupEntry)
      <4>1. CASE \E a \in Agents : Speaks(e, a)
        <5>1. [role |-> e.who, of |-> This] \in GroupEntry
          BY <2>3, <4>1 DEF Speaks, GroupEntry
        <5>2. Append(group, [role |-> e.who, of |-> This]) \in Seq(GroupEntry)
          BY <5>1, AppendProperties DEF TypeOK
        <5>3. QED
          BY <2>8, <4>1, <5>2 DEF HandleRouted
      <4>2. CASE ~ \E a \in Agents : Speaks(e, a)
        BY <2>8, <4>2 DEF HandleRouted, TypeOK
      <4>3. QED
        BY <4>1, <4>2
    <3>11. /\ AgentsOf(e) \subseteq Agents /\ EarshotGroup(e) \subseteq Agents
      BY ShapesHaveFields DEF AgentsOf, EarshotGroup
    <3>12. known' \subseteq Agents /\ earshot' \in [Agents -> SUBSET Agents]
      BY <2>8, <3>11 DEF HandleRouted, TypeOK
    <3>13. speech' \in [to : Agents \union {Player, NoOne, None}, near : Seq(Agents)]
      BY <2>8, ShapesHaveFields DEF HandleRouted, TypeOK
    <3>14. QED
      BY <2>0, <2>3, <2>8, <3>3, <3>7, <3>8, <3>9, <3>10, <3>12, <3>13 DEF HandleRouted, TypeOK
  <2>9. QED
    BY <1>2, <2>4, <2>5, <2>6, <2>7, <2>8 DEF HandleEvent
<1>3. CASE EndDataOnly
  BY <1>3 DEF EndDataOnly, TypeOK
<1>4. CASE EndTurn
  <2>1. turn' \in Turn
    BY <1>4 DEF EndTurn, Flushed, Turn, TypeOK
  <2>2. handed' \in Seq(Nat)
    <3>1. handed \in [1..Len(handed) -> Nat] /\ DOMAIN handed = 1..Len(handed)
          /\ Len(handed) \in Nat
      BY LenProperties DEF TypeOK
    <3>2. handed' \in [1..Len(handed) -> Nat]
      BY <1>4, <3>1 DEF EndTurn
    <3>3. QED
      BY <3>1, <3>2, SeqDef
  <2>3. events' \in [Agents -> Seq(Nat)] /\ world' \in Seq(Nat) /\ session' \in Seq(Nat)
    BY <1>4, <1>e DEF EndTurn
  <2>4. QED
    BY <1>4, <2>1, <2>2, <2>3 DEF EndTurn, TypeOK
<1>5. CASE RecordPlayerInput
  <2>1. Hearers \subseteq Agents /\ turn.input \in Nat
    BY DEF Hearers, TypeOK, Turn
  <2>2. \A a \in Agents : dialogue[a] \in Seq(Entry) /\ Heard(a) \in Seq(Entry)
    BY HeardOfInput DEF TypeOK
  <2>3. \A a \in Agents : dialogue[a] \o Heard(a) \in Seq(Entry)
    BY <2>2, ConcatProperties
  <2>4. dialogue' \in [Agents -> Seq(Entry)]
    BY <1>5, <2>3 DEF RecordPlayerInput
  <2>5. QED
    BY <1>5, <2>1, <2>4 DEF RecordPlayerInput, TypeOK
<1>6. ASSUME NEW a \in Agents, RecordAgentOutput(a)
      PROVE  TypeOK'
  <2>1. Utterance(a) \in Happening /\ Arrival(Utterance(a))
    BY <1>6 DEF Happening, RecordAgentOutput, Arrival
  <2>2. /\ arrived' \in Seq(Happening) /\ handed' \in Seq(Nat)
        /\ sceneAt' \in Seq(SUBSET Agents) /\ This \in Nat
    BY <2>1, ArrivalGrows
  <2>3. Append(dialogue[a], AsSpeaker) \in Seq(Entry)
    <3>1. AsSpeaker \in Entry
      BY <2>2 DEF AsSpeaker, Entry
    <3>2. QED
      BY <3>1, AppendProperties DEF TypeOK
  <2>4. dialogue' \in [Agents -> Seq(Entry)]
    BY <1>6, <2>3 DEF RecordAgentOutput, TypeOK
  <2>5. group' \in Seq(GroupEntry)
    <3>1. [role |-> a, of |-> This] \in GroupEntry
      BY <2>2 DEF GroupEntry
    <3>2. QED
      BY <1>6, <3>1, AppendProperties DEF TypeOK, RecordAgentOutput
  <2>6. QED
    BY <1>6, <2>2, <2>4, <2>5 DEF RecordAgentOutput, TypeOK
<1>7. CASE EndAnswers
  <2>1. \A a \in Agents : dialogue[a] \in Seq(Entry) /\ Slid(dialogue[a]) \in Seq(Entry)
    BY SlidIsTail DEF TypeOK
  <2>2. group' \in Seq(GroupEntry)
    BY <1>7, SlidIsTail DEF EndAnswers, TypeOK
  <2>3. dialogue' \in [Agents -> Seq(Entry)]
    BY <1>7, <2>1 DEF EndAnswers
  <2>4. QED
    BY <1>7, <2>2, <2>3 DEF EndAnswers, TypeOK
<1>10. CASE SleepThrough \/ AbandonTurn
  BY <1>10 DEF SleepThrough, AbandonTurn, TypeOK
<1>8. CASE UNCHANGED accVars
  BY <1>8 DEF accVars, TypeOK
<1>9. QED
  BY <1>1, <1>2, <1>3, <1>4, <1>5, <1>6, <1>7, <1>8, <1>10 DEF Next

-----------------------------------------------------------------------------
(* The invariant, by what it is about.                                     *)

(* the private and shared timelines *)
Memories ==
  /\ RepeatedOnlyIfNamedTwice
  /\ TimelinesAgree
  /\ \A a \in Agents : \A x \in Range(dialogue[a]) :
       /\ x.of \in DOMAIN arrived
       /\ x.of > resetAt \/ arrived[x.of].type = "inputtext"
  /\ \A x \in Range(group) : x.of \in DOMAIN arrived /\ x.of > resetAt

(* the events held for a turn *)
Filed == InBuffers \union Range(world)
Holdings ==
  /\ Len(handed) = Len(arrived) /\ Len(sceneAt) = Len(arrived)
  /\ resetAt <= Len(arrived)
  /\ HeldEvents \subseteq DOMAIN arrived
  /\ \A i \in Range(session) : arrived[i].type \in Lifecycle
  /\ \A i \in Filed : Accumulated(i) /\ arrived[i].type \notin Lifecycle
  /\ EachEventInOneTurn

(* the place and the earshot context *)
Surroundings ==
  /\ location # Unknown =>
       \E i \in (resetAt + 1)..Len(arrived) :
          arrived[i].type = "location" /\ arrived[i].place = location
  /\ speech # NoSpeech =>
       \E i \in (resetAt + 1)..Len(arrived) :
          /\ arrived[i].type = "_speech"
          /\ arrived[i].to = speech.to /\ arrived[i].near = speech.near

AccumulatorInv ==
  /\ TypeOK /\ NothingOutsideTheBuffers /\ InputIsNew
  /\ Memories /\ Holdings /\ Surroundings

LEMMA InvariantIsAll ==
  AccumulatorInv
    <=> BuffersInvariant /\ EachEventInOneTurn /\ ResetForgetsTheSession /\ TimelinesAgree
<1>1. AccumulatorInv
        => BuffersInvariant /\ EachEventInOneTurn /\ ResetForgetsTheSession /\ TimelinesAgree
  BY Zenon DEF AccumulatorInv, Memories, Holdings, Surroundings, Filed, BuffersInvariant,
               OnlyWhatArrived, ResetForgetsTheSession
<1>2. BuffersInvariant /\ EachEventInOneTurn /\ ResetForgetsTheSession /\ TimelinesAgree
        => AccumulatorInv
  BY Zenon DEF AccumulatorInv, Memories, Holdings, Surroundings, Filed, BuffersInvariant,
               OnlyWhatArrived, ResetForgetsTheSession
<1>3. QED
  BY <1>1, <1>2, Zenon

(* What the steps other than an arrival leave of it. *)
LEMMA MemoriesStay ==
  ASSUME Memories, UNCHANGED <<arrived, dialogue, group, resetAt, sceneAt>>
  PROVE  Memories'
<1>1. /\ arrived' = arrived /\ dialogue' = dialogue /\ group' = group
      /\ resetAt' = resetAt /\ sceneAt' = sceneAt
  OBVIOUS
<1>2. RepeatedOnlyIfNamedTwice' <=> RepeatedOnlyIfNamedTwice
  BY <1>1 DEF RepeatedOnlyIfNamedTwice, NamedTwice
<1>3. TimelinesAgree' <=> TimelinesAgree
  BY <1>1 DEF TimelinesAgree, GroupInOrder, SaidBy, SaidToGroup, RememberedSaying
<1>4. QED
  BY <1>1, <1>2, <1>3 DEF Memories

LEMMA HoldingsStay ==
  ASSUME Holdings, UNCHANGED <<arrived, handed, sceneAt, resetAt, events, world, session>>
  PROVE  Holdings'
BY DEF Holdings, Filed, HeldEvents, InBuffers, Accumulated, EachEventInOneTurn

LEMMA SurroundingsStay ==
  ASSUME Surroundings, UNCHANGED <<arrived, resetAt, location, speech>>
  PROVE  Surroundings'
BY DEF Surroundings

LEMMA InputsStay ==
  ASSUME InputIsNew, UNCHANGED <<arrived, dialogue, pending>>,
         phase' = "turn" => phase = "turn" /\ turn' = turn
  PROVE  InputIsNew'
BY DEF InputIsNew, Unrecorded

-----------------------------------------------------------------------------
(* Held for one turn.                                                      *)

LEMMA HoldingsGrow ==
  ASSUME AccumulatorInv, NEW e \in Happening, Arrival(e), resetAt' = resetAt,
         NEW filed, NEW kept,
         Filed' = Filed \union filed, Range(session)' = Range(session) \union kept,
         \/ filed = {This} /\ kept = {}
            /\ e.type \notin {"inputtext", "utterance"} \union Lifecycle
         \/ filed = {} /\ kept = {This} /\ e.type \in Lifecycle
         \/ filed = {} /\ kept = {} /\ e.type \in {"inputtext", "utterance"}
  PROVE  Holdings'
<1>t. TypeOK /\ OnlyWhatArrived /\ Holdings
  BY InvariantIsAll DEF AccumulatorInv, BuffersInvariant
<1>1. /\ This \in Nat /\ This \notin DOMAIN arrived /\ This \in DOMAIN arrived'
      /\ DOMAIN arrived' = DOMAIN arrived \union {This}
      /\ Len(handed') = Len(arrived') /\ Len(sceneAt') = Len(arrived')
      /\ resetAt <= Len(arrived') /\ resetAt < This
      /\ arrived'[This] = e /\ handed'[This] = 0
      /\ \A i \in DOMAIN arrived : arrived'[i] = arrived[i] /\ handed'[i] = handed[i]
  BY <1>t, ArrivalGrows
<1>2. HeldEvents = Filed \union Range(session) /\ HeldEvents' = Filed' \union Range(session)'
  BY DEF HeldEvents, Filed
<1>3. /\ HeldEvents \subseteq DOMAIN arrived
      /\ \A i \in Range(session) : arrived[i].type \in Lifecycle
      /\ \A i \in Filed : Accumulated(i) /\ arrived[i].type \notin Lifecycle
  BY <1>t DEF Holdings
<1>4. HeldEvents' \subseteq DOMAIN arrived'
  BY <1>1, <1>2, <1>3
<1>5. \A i \in Range(session)' : arrived'[i].type \in Lifecycle
  BY <1>1, <1>2, <1>3
<1>6. \A i \in Filed' : Accumulated(i)' /\ arrived'[i].type \notin Lifecycle
  BY <1>1, <1>2, <1>3 DEF Accumulated
<1>7. EachEventInOneTurn'
  <2> SUFFICES ASSUME NEW i \in DOMAIN arrived', Accumulated(i)'
               PROVE  LET held == IF i \in HeldEvents' THEN 1 ELSE 0 IN
                        IF i >= resetAt' \/ arrived'[i].type \in {"init", "goodnight"}
                          THEN held + handed'[i] = 1
                          ELSE held = 0 /\ handed'[i] <= 1
    BY DEF EachEventInOneTurn
  <2>1. CASE i \in DOMAIN arrived
    <3>1. /\ i \in HeldEvents' <=> i \in HeldEvents
          /\ handed'[i] = handed[i] /\ arrived'[i] = arrived[i] /\ Accumulated(i)
      BY <1>1, <1>2, <2>1 DEF Accumulated
    <3>2. LET held == IF i \in HeldEvents THEN 1 ELSE 0 IN
            IF i >= resetAt \/ arrived[i].type \in {"init", "goodnight"}
              THEN held + handed[i] = 1
              ELSE held = 0 /\ handed[i] <= 1
      BY <1>t, <2>1, <3>1 DEF Holdings, EachEventInOneTurn
    <3>3. QED
      BY <3>1, <3>2
  <2>2. CASE i = This
    <3>1. e.type \notin {"inputtext", "utterance"}
      BY <1>1, <2>2 DEF Accumulated
    <3>2. i \in HeldEvents' /\ handed'[i] = 0 /\ i >= resetAt'
      <4>1. resetAt \in Nat
        BY <1>t DEF TypeOK
      <4>2. QED
        BY <1>1, <1>2, <2>2, <3>1, <4>1
    <3>3. QED
      BY <3>2
  <2>3. QED
    BY <1>1, <2>1, <2>2
<1>8. QED
  BY <1>1, <1>4, <1>5, <1>6, <1>7 DEF Holdings

(* A reset drops all but the lifecycle events. *)
LEMMA HoldingsReset ==
  ASSUME AccumulatorInv, NEW e \in Shapes, HandleReset(e)
  PROVE  Holdings'
<1>t. TypeOK /\ OnlyWhatArrived /\ Holdings /\ session \in Seq(Nat) /\ resetAt \in Nat
  BY InvariantIsAll DEF AccumulatorInv, BuffersInvariant, TypeOK
<1>a. e \in Happening /\ Arrival(e) /\ e.type = "init"
  BY ArrivesIsArrival, ShapesHaveFields DEF HandleReset
<1>1. /\ This \in Nat /\ This \notin DOMAIN arrived /\ This \in DOMAIN arrived'
      /\ DOMAIN arrived = 1..Len(arrived) /\ Len(arrived) \in Nat
      /\ Len(arrived') = Len(arrived) + 1
      /\ DOMAIN arrived' = DOMAIN arrived \union {This}
      /\ Len(handed') = Len(arrived') /\ Len(sceneAt') = Len(arrived')
      /\ arrived'[This] = e /\ handed'[This] = 0
      /\ \A i \in DOMAIN arrived : /\ i < This /\ handed[i] \in Nat
                                   /\ arrived'[i] = arrived[i] /\ handed'[i] = handed[i]
  BY <1>t, <1>a, ArrivalGrows
<1>2. /\ Filed' = {} /\ Range(session') = Range(session) \union {This}
      /\ HeldEvents' = Range(session')
  <2>1. Range(session') = Range(session) \union {This}
    BY <1>t, <1>1, AppendGrows DEF HandleReset
  <2>2. /\ \A a \in Agents : events'[a] = <<>>
        /\ world' = <<>>
    BY DEF HandleReset, Reset
  <2>3. InBuffers' = {} /\ Range(world') = {}
    BY <2>2, NothingIn DEF InBuffers
  <2>4. QED
    BY <2>1, <2>3 DEF Filed, HeldEvents
<1>3. resetAt' = This /\ This = Len(arrived) + 1
  BY DEF HandleReset, This
<1>4. /\ Range(session) \subseteq HeldEvents /\ HeldEvents \subseteq DOMAIN arrived
      /\ HeldEvents = Filed \union Range(session)
      /\ \A i \in Range(session) : arrived[i].type \in Lifecycle
      /\ \A i \in Filed : arrived[i].type \notin Lifecycle
  BY <1>t DEF Holdings, HeldEvents, Filed
<1>5. EachEventInOneTurn'
  <2> SUFFICES ASSUME NEW i \in DOMAIN arrived', Accumulated(i)'
               PROVE  LET held == IF i \in HeldEvents' THEN 1 ELSE 0 IN
                        IF i >= resetAt' \/ arrived'[i].type \in {"init", "goodnight"}
                          THEN held + handed'[i] = 1
                          ELSE held = 0 /\ handed'[i] <= 1
    BY DEF EachEventInOneTurn
  <2>1. CASE i \in DOMAIN arrived
    <3>1. /\ handed'[i] = handed[i] /\ handed[i] \in Nat /\ arrived'[i] = arrived[i]
          /\ Accumulated(i) /\ i < This /\ i \in Nat
      BY <1>1, <2>1 DEF Accumulated
    <3>2. LET held == IF i \in HeldEvents THEN 1 ELSE 0 IN
            IF i >= resetAt \/ arrived[i].type \in {"init", "goodnight"}
              THEN held + handed[i] = 1
              ELSE held = 0 /\ handed[i] <= 1
      BY <1>t, <2>1, <3>1 DEF Holdings, EachEventInOneTurn
    <3>3. CASE arrived[i].type \in Lifecycle
      <4>1. i \in HeldEvents' <=> i \in HeldEvents
        BY <1>1, <1>2, <1>4, <2>1, <3>3
      <4>2. QED
        BY <3>1, <3>2, <3>3, <4>1 DEF Lifecycle
    <3>4. CASE arrived[i].type \notin Lifecycle
      <4>1. i \notin HeldEvents' /\ handed[i] <= 1
        BY <1>1, <1>2, <1>4, <2>1, <3>1, <3>2, <3>4
      <4>2. ~(i >= resetAt')
        BY <1>1, <1>3, <3>1
      <4>3. QED
        BY <3>1, <3>4, <4>1, <4>2 DEF Lifecycle
    <3>5. QED
      BY <3>3, <3>4
  <2>2. CASE i = This
    BY <1>1, <1>2, <1>3, <2>2
  <2>3. QED
    BY <1>1, <2>1, <2>2
<1>6. /\ HeldEvents' \subseteq DOMAIN arrived'
      /\ \A i \in Range(session') : arrived'[i].type \in Lifecycle
  BY <1>1, <1>2, <1>4, <1>a DEF Lifecycle
<1>7. resetAt' <= Len(arrived')
  BY <1>1, <1>3
<1>8. QED
  BY <1>1, <1>2, <1>5, <1>6, <1>7 DEF Holdings

(* A turn takes all that is held. *)
LEMMA HoldingsTaken ==
  ASSUME AccumulatorInv, EndTurn
  PROVE  Holdings'
<1>t. TypeOK /\ Holdings /\ handed \in Seq(Nat) /\ arrived \in Seq(Happening)
  BY DEF AccumulatorInv, TypeOK
<1>1. /\ Filed' = {} /\ Range(session') = {} /\ HeldEvents' = {}
  <2>1. /\ \A a \in Agents : events'[a] = <<>>
        /\ world' = <<>> /\ session' = <<>>
    BY DEF EndTurn
  <2>2. InBuffers' = {} /\ Range(world') = {} /\ Range(session') = {}
    BY <2>1, NothingIn DEF InBuffers
  <2>3. QED
    BY <2>2 DEF Filed, HeldEvents
<1>2. /\ UNCHANGED <<arrived, sceneAt, resetAt>>
      /\ handed' = [i \in DOMAIN handed |-> IF i \in HeldEvents THEN handed[i] + 1 ELSE handed[i]]
  BY DEF EndTurn
<1>3. /\ Len(handed) = Len(arrived) /\ DOMAIN handed = 1..Len(handed)
      /\ DOMAIN arrived = 1..Len(arrived) /\ Len(handed) \in Nat
      /\ \A i \in DOMAIN handed : handed[i] \in Nat
  BY <1>t, LenProperties, ElementOfSeq DEF Holdings
<1>4. Len(handed') = Len(arrived')
  <2>1. DOMAIN handed' = 1..Len(handed) /\ handed' \in [1..Len(handed) -> Nat]
    BY <1>2, <1>3
  <2>2. handed' \in Seq(Nat)
    BY <1>3, <2>1, SeqDef
  <2>3. DOMAIN handed' = 1..Len(handed') /\ Len(handed') \in Nat
    BY <2>2, LenProperties
  <2>4. QED
    BY <1>2, <1>3, <2>1, <2>3
<1>5. EachEventInOneTurn'
  <2> SUFFICES ASSUME NEW i \in DOMAIN arrived', Accumulated(i)'
               PROVE  LET held == IF i \in HeldEvents' THEN 1 ELSE 0 IN
                        IF i >= resetAt' \/ arrived'[i].type \in {"init", "goodnight"}
                          THEN held + handed'[i] = 1
                          ELSE held = 0 /\ handed'[i] <= 1
    BY DEF EachEventInOneTurn
  <2>1. /\ i \in DOMAIN arrived /\ i \in DOMAIN handed /\ Accumulated(i) /\ handed[i] \in Nat
        /\ handed'[i] = IF i \in HeldEvents THEN handed[i] + 1 ELSE handed[i]
    BY <1>2, <1>3 DEF Accumulated
  <2>2. LET held == IF i \in HeldEvents THEN 1 ELSE 0 IN
          IF i >= resetAt \/ arrived[i].type \in {"init", "goodnight"}
            THEN held + handed[i] = 1
            ELSE held = 0 /\ handed[i] <= 1
    BY <1>t, <2>1 DEF Holdings, EachEventInOneTurn
  <2>3. QED
    BY <1>1, <1>2, <2>1, <2>2
<1>6. QED
  BY <1>t, <1>1, <1>2, <1>4, <1>5 DEF Holdings

LEMMA StepKeepsHoldings ==
  ASSUME AccumulatorInv, [Next]_accVars
  PROVE  Holdings'
<1> USE DEF bufferVars, sceneVars, poolVars, historyVars
<1>t. TypeOK /\ OnlyWhatArrived /\ Holdings
  BY InvariantIsAll DEF AccumulatorInv, BuffersInvariant
<1>s. /\ world \in Seq(Nat) /\ session \in Seq(Nat) /\ DOMAIN events = Agents
      /\ \A a \in Agents : events[a] \in Seq(Nat)
  BY <1>t DEF TypeOK
<1>1. ASSUME NEW e \in Shapes, HandleEvent(e)
      PROVE  Holdings'
  <2>1. Arrives(e)
    BY <1>1 DEF HandleEvent, HandleInput, HandleReset, HandleSession, HandleLocation, HandleRouted
  <2>2. e \in Happening /\ Arrival(e) /\ This \in Nat
    BY <1>t, <2>1, ArrivesIsArrival, ShapesHaveFields, ArrivalGrows
  <2>3. CASE HandleInput(e)
    <3>1. UNCHANGED <<events, world, session, resetAt>> /\ e.type = "inputtext"
      BY <2>3 DEF HandleInput
    <3>2. Filed' = Filed \union {} /\ Range(session)' = Range(session) \union {}
      BY <3>1 DEF Filed, InBuffers
    <3>3. QED
      BY <2>2, <3>1, <3>2, HoldingsGrow
  <2>4. CASE HandleReset(e)
    BY <2>4, HoldingsReset
  <2>5. CASE HandleSession(e)
    <3>1. /\ UNCHANGED <<events, world, resetAt>> /\ session' = Append(session, This)
          /\ e.type \in Lifecycle
      BY <2>5 DEF HandleSession, Lifecycle
    <3>2. Filed' = Filed \union {} /\ Range(session)' = Range(session) \union {This}
      BY <1>s, <2>2, <3>1, AppendGrows, SMTT(20) DEF Filed, InBuffers
    <3>3. QED
      BY <2>2, <3>1, <3>2, HoldingsGrow
  <2>6. CASE HandleLocation(e)
    <3>1. /\ UNCHANGED <<events, session, resetAt>> /\ world' = Append(world, This)
          /\ e.type = "location"
      BY <2>6 DEF HandleLocation
    <3>2. Range(world') = Range(world) \union {This} /\ InBuffers' = InBuffers
      BY <1>s, <2>2, <3>1, AppendGrows, SMTT(20) DEF InBuffers
    <3>3. Filed' = Filed \union {This} /\ Range(session)' = Range(session) \union {}
      BY <3>1, <3>2 DEF Filed
    <3>4. e.type \notin {"inputtext", "utterance"} \union Lifecycle
      BY <3>1 DEF Lifecycle
    <3>5. QED
      BY <2>2, <3>1, <3>3, <3>4, HoldingsGrow
  <2>7. CASE HandleRouted(e)
    <3>1. /\ UNCHANGED <<session, resetAt>>
          /\ events' = [a \in Agents |-> events[a] \o Routed(e, a)]
          /\ world' = IF AgentsOf(e) = {} THEN Append(world, This) ELSE world
          /\ e.type \notin {"inputtext", "utterance"} \union Lifecycle
      BY <2>7 DEF HandleRouted, Lifecycle
    <3>2. \A a \in Agents : Range(events'[a]) =
            Range(events[a]) \union (IF a \in AgentsOf(e) THEN {This} ELSE {})
      <4>1. \A a \in Agents :
              /\ Routed(e, a) \in Seq(Nat)
              /\ Range(Routed(e, a)) = IF a \in AgentsOf(e) THEN {This} ELSE {}
        BY <2>2, RoutedOnce
      <4>2. \A a \in Agents : Range(events[a] \o Routed(e, a)) =
                                Range(events[a]) \union Range(Routed(e, a))
        BY <1>s, <4>1, RangeConcatenation
      <4>3. QED
        BY <3>1, <4>1, <4>2
    <3>3. /\ AgentsOf(e) \subseteq Agents
          /\ Range(world') = Range(world) \union (IF AgentsOf(e) = {} THEN {This} ELSE {})
      <4>1. Range(Append(world, This)) = Range(world) \union {This}
        BY <1>s, <2>2, AppendGrows
      <4>2. AgentsOf(e) \subseteq Agents
        BY DEF AgentsOf
      <4>3. QED
        BY <3>1, <4>1, <4>2
    <3>4. InBuffers' = InBuffers \union (IF AgentsOf(e) = {} THEN {} ELSE {This})
      <4>1. CASE AgentsOf(e) = {}
        BY <3>2, <4>1 DEF InBuffers
      <4>2. CASE AgentsOf(e) # {}
        <5>1. PICK b \in Agents : b \in AgentsOf(e)
          BY <3>3, <4>2
        <5>2. This \in InBuffers'
          BY <3>2, <5>1 DEF InBuffers
        <5>3. ASSUME NEW i \in InBuffers
              PROVE  i \in InBuffers'
          <6>1. PICK a \in Agents : i \in Range(events[a])
            BY <5>3 DEF InBuffers
          <6>2. i \in Range(events'[a])
            BY <3>2, <6>1
          <6>3. QED
            BY <6>2 DEF InBuffers
        <5>4. ASSUME NEW i \in InBuffers'
              PROVE  i \in InBuffers \union {This}
          <6>1. PICK a \in Agents : i \in Range(events'[a])
            BY <5>4 DEF InBuffers
          <6>2. i \in Range(events[a]) \union {This}
            BY <3>2, <6>1
          <6>3. QED
            BY <6>2 DEF InBuffers
        <5>5. QED
          BY <4>2, <5>2, <5>3, <5>4
      <4>3. QED
        BY <4>1, <4>2
    <3>5. Filed' = Filed \union {This} /\ Range(session)' = Range(session) \union {}
      BY <3>1, <3>3, <3>4 DEF Filed
    <3>6. QED
      BY <2>2, <3>1, <3>5, HoldingsGrow
  <2>8. QED
    BY <1>1, <2>3, <2>4, <2>5, <2>6, <2>7 DEF HandleEvent
<1>2. ASSUME NEW a \in Agents, RecordAgentOutput(a)
      PROVE  Holdings'
  <2>1. /\ UNCHANGED <<events, world, session, resetAt>>
        /\ Utterance(a) \in Happening /\ Arrival(Utterance(a))
        /\ Utterance(a).type = "utterance"
    BY <1>2 DEF RecordAgentOutput, Happening, Arrival, Utterance
  <2>2. Filed' = Filed \union {} /\ Range(session)' = Range(session) \union {}
    BY <2>1 DEF Filed, InBuffers
  <2>3. QED
    BY <2>1, <2>2, HoldingsGrow
<1>3. CASE EndTurn
  BY <1>3, HoldingsTaken
<1>4. CASE (\E scene \in Scenes : BeginPackage(scene)) \/ EndDataOnly \/ SleepThrough
             \/ RecordPlayerInput \/ EndAnswers \/ AbandonTurn \/ UNCHANGED accVars
  <2>1. UNCHANGED <<arrived, handed, sceneAt, resetAt, events, world, session>>
    BY <1>4 DEF BeginPackage, EndDataOnly, SleepThrough, RecordPlayerInput, EndAnswers,
                AbandonTurn, accVars
  <2>2. QED
    BY <1>t, <2>1, HoldingsStay
<1>5. QED
  BY <1>1, <1>2, <1>3, <1>4 DEF Next

-----------------------------------------------------------------------------
(* The timelines.                                                          *)

(* Where nothing is remembered and nothing was said, all is as it should be. *)
NothingSaid == group = <<>> /\ \A a \in Agents : dialogue[a] = <<>> /\ SaidBy(a) = {}
LEMMA MemoriesOfNothing == NothingSaid => Memories
<1> SUFFICES ASSUME group = <<>>, \A a \in Agents : dialogue[a] = <<>> /\ SaidBy(a) = {}
             PROVE  Memories
  BY DEF NothingSaid
<1>1. Range(<<>>) = {} /\ DOMAIN <<>> = {}
  BY NothingIn
<1>2. Together(<<>>) /\ SaidInOrder(<<>>) /\ Repeated(<<>>) = {}
  BY <1>1 DEF Together, SaidInOrder, Repeated
<1>3. \A a \in Agents : SaidToGroup(a) = {} /\ RememberedSaying(a) = {}
  BY <1>1 DEF SaidToGroup, RememberedSaying
<1>4. GroupInOrder
  BY <1>1 DEF GroupInOrder
<1>5. Latest({}, {})
  BY DEF Latest
<1>6. RepeatedOnlyIfNamedTwice
  BY <1>2 DEF RepeatedOnlyIfNamedTwice
<1>7. TimelinesAgree
  BY <1>2, <1>3, <1>4, <1>5 DEF TimelinesAgree
<1>8. QED
  BY <1>1, <1>6, <1>7 DEF Memories

(* Who says what arrives has said that more. *)
LEMMA SaidByGrows ==
  ASSUME TypeOK, OnlyWhatArrived, NEW e \in Happening, Arrival(e), resetAt' = resetAt,
         NEW a \in Agents
  PROVE  /\ SaidBy(a) \subseteq Nat /\ SaidBy(a) \subseteq DOMAIN arrived
         /\ \A i \in SaidBy(a) : i < This
         /\ SaidBy(a)' = SaidBy(a) \union
              IF e.who = a /\ (e.type = "utterance" \/ (e.type = "_speech" /\ a \in active))
                THEN {This} ELSE {}
<1>1. /\ This \in Nat /\ This \notin DOMAIN arrived
      /\ DOMAIN arrived = 1..Len(arrived) /\ Len(arrived) \in Nat
      /\ Len(arrived') = Len(arrived) + 1 /\ This = Len(arrived')
      /\ resetAt < This /\ resetAt \in Nat
      /\ arrived'[This] = e /\ sceneAt'[This] = active
      /\ \A i \in DOMAIN arrived : /\ i < This /\ arrived'[i] = arrived[i]
                                   /\ sceneAt'[i] = sceneAt[i]
  <2>1. resetAt \in Nat
    BY DEF TypeOK
  <2>2. QED
    BY <2>1, ArrivalGrows DEF This
<1>2. /\ \A i \in (resetAt + 1)..Len(arrived) : i \in DOMAIN arrived
      /\ (resetAt' + 1)..Len(arrived') = ((resetAt + 1)..Len(arrived)) \union {This}
  BY <1>1
<1>3. /\ SaidBy(a) \subseteq Nat /\ SaidBy(a) \subseteq DOMAIN arrived
      /\ \A i \in SaidBy(a) : i < This
  BY <1>1 DEF SaidBy
<1>4. ASSUME NEW i \in (resetAt + 1)..Len(arrived)
      PROVE  i \in SaidBy(a)' <=> i \in SaidBy(a)
  BY <1>1, <1>2 DEF SaidBy
<1>5. This \in SaidBy(a)'
        <=> e.who = a /\ (e.type = "utterance" \/ (e.type = "_speech" /\ a \in active))
  BY <1>1, <1>2 DEF SaidBy
<1>6. /\ SaidBy(a) \subseteq (resetAt + 1)..Len(arrived)
      /\ SaidBy(a)' \subseteq ((resetAt + 1)..Len(arrived)) \union {This}
  BY <1>2 DEF SaidBy
<1>7. QED
  BY <1>3, <1>4, <1>5, <1>6

(* What arrives is new to every timeline; who says it aloud says it to the  *)
(* group and remembers it.                                                 *)
LEMMA MemoriesGrow ==
  ASSUME AccumulatorInv, NEW e \in Happening, Arrival(e), resetAt' = resetAt,
         NEW said \in [Agents -> Seq(Entry)], NEW voiced \in SUBSET Agents,
         dialogue' = [a \in Agents |-> dialogue[a] \o said[a]],
         \A a \in Agents : IsInjective(said[a]) /\ SaidInOrder(said[a]),
         \A a \in Agents : \A x \in Range(said[a]) : x.of = This,
         \A a \in Agents : a \in voiced
            <=> e.type # "chat" /\ \E x \in Range(said[a]) : x.role = "assistant",
         \A a \in Agents : a \in voiced
            <=> e.who = a /\ (e.type = "utterance" \/ (e.type = "_speech" /\ a \in active)),
         \/ voiced = {} /\ group' = group
         \/ \E w \in Agents :
              voiced = {w} /\ group' = Append(group, [role |-> w, of |-> This])
  PROVE  Memories'
<1>t. TypeOK /\ OnlyWhatArrived /\ Memories
  BY InvariantIsAll DEF AccumulatorInv, BuffersInvariant
<1>s. /\ group \in Seq(GroupEntry)
      /\ \A a \in Agents : dialogue[a] \in Seq(Entry)
  BY <1>t DEF TypeOK
<1>1. /\ This \in Nat /\ This \notin DOMAIN arrived
      /\ DOMAIN arrived' = DOMAIN arrived \union {This} /\ resetAt < This
      /\ arrived'[This] = e
      /\ \A i \in DOMAIN arrived : i < This /\ arrived'[i] = arrived[i]
  BY <1>t, ArrivalGrows
<1>2. \A a \in Agents : \A x \in Range(dialogue[a]) :
        /\ x.of \in DOMAIN arrived /\ x.of < This
        /\ x.of > resetAt \/ arrived[x.of].type = "inputtext"
  BY <1>t, <1>1 DEF Memories
<1>3. ASSUME NEW a \in Agents
      PROVE  /\ Range(dialogue'[a]) = Range(dialogue[a]) \union Range(said[a])
             /\ Together(dialogue'[a]) /\ SaidInOrder(dialogue'[a])
             /\ Repeated(dialogue'[a]) \subseteq Repeated(dialogue[a])
             /\ Len(dialogue'[a]) >= Len(dialogue[a])
             /\ Len(dialogue'[a]) \in Nat /\ Len(dialogue[a]) \in Nat
  <2>1. /\ dialogue[a] \in Seq(Entry) /\ said[a] \in Seq(Entry)
        /\ dialogue'[a] = dialogue[a] \o said[a]
        /\ Together(dialogue[a]) /\ SaidInOrder(dialogue[a])
    BY <1>t, <1>s DEF Memories, RepeatedOnlyIfNamedTwice, TimelinesAgree
  <2>2. /\ \A x \in Range(dialogue[a]) : x.of # This /\ x.of < This
        /\ \A x \in Range(said[a]) : x.of = This
    BY <1>1, <1>2
  <2>3. Repeated(said[a]) = {} /\ Together(said[a]) /\ SaidInOrder(said[a])
    BY InjectiveRepeatsNothing
  <2> DEFINE old == dialogue[a]
             more == said[a]
  <2>4. /\ old \in Seq(Entry) /\ more \in Seq(Entry)
        /\ Together(old) /\ SaidInOrder(old) /\ Together(more) /\ SaidInOrder(more)
        /\ \A x \in Range(old) : x.of # This
        /\ \A x \in Range(old) : x.of < This
        /\ \A x \in Range(more) : x.of = This
        /\ Repeated(more) = {}
        /\ dialogue'[a] = old \o more
    BY <2>1, <2>2, <2>3
  <2> HIDE DEF old, more
  <2>5. /\ Range(old \o more) = Range(old) \union Range(more)
        /\ Together(old \o more) /\ SaidInOrder(old \o more)
        /\ Repeated(old \o more) \subseteq Repeated(old) \union Repeated(more)
        /\ Len(old \o more) >= Len(old)
        /\ Len(old \o more) \in Nat /\ Len(old) \in Nat
    <3>1. This \in Nat
      BY <1>1
    <3>2. QED
      BY <2>4, <3>1, MemoryGrows, ZenonT(60)
  <2>6. QED
    BY <2>4, <2>5 DEF old, more
<1>4. /\ Range(group') = Range(group) \union {[role |-> w, of |-> This] : w \in voiced}
      /\ Len(group') \in Nat /\ Len(group) \in Nat /\ Len(group') >= Len(group)
  <2>1. CASE voiced = {} /\ group' = group
    <3>1. Len(group) \in Nat
      BY <1>s, LenProperties
    <3>2. QED
      BY <2>1, <3>1
  <2>2. ASSUME NEW w \in Agents, voiced = {w},
               group' = Append(group, [role |-> w, of |-> This])
        PROVE  /\ Range(group') = Range(group) \union {[role |-> v, of |-> This] : v \in voiced}
               /\ Len(group') \in Nat /\ Len(group) \in Nat /\ Len(group') >= Len(group)
    <3>1. [role |-> w, of |-> This] \in GroupEntry
      BY <1>1 DEF GroupEntry
    <3>2. /\ Range(group') = Range(group) \union {[role |-> w, of |-> This]}
          /\ Len(group') = Len(group) + 1 /\ Len(group) \in Nat
      BY <1>s, <2>2, <3>1, AppendGrows
    <3>3. QED
      BY <2>2, <3>2
  <2>3. QED
    BY <2>1, <2>2
<1>5. GroupInOrder'
  <2>1. CASE voiced = {} /\ group' = group
    BY <1>t, <2>1 DEF Memories, TimelinesAgree, GroupInOrder
  <2>2. ASSUME NEW w \in Agents, group' = Append(group, [role |-> w, of |-> This])
        PROVE  GroupInOrder'
    <3> DEFINE entry == [role |-> w, of |-> This]
    <3>1. entry \in GroupEntry /\ entry.of = This
      BY <1>1 DEF GroupEntry
    <3> HIDE DEF entry
    <3>2. /\ Len(group) \in Nat /\ DOMAIN group = 1..Len(group)
          /\ DOMAIN Append(group, entry) = DOMAIN group \union {Len(group) + 1}
          /\ Append(group, entry)[Len(group) + 1] = entry
          /\ \A i \in DOMAIN group : Append(group, entry)[i] = group[i]
      BY <1>s, <3>1, AppendGrows
    <3>3. \A i \in DOMAIN group : group[i].of < This
      <4>1. \A x \in Range(group) : x.of \in DOMAIN arrived
        BY <1>t DEF Memories
      <4>2. QED
        BY <1>1, <4>1 DEF Range
    <3>4. \A j, k \in DOMAIN group : j < k => group[j].of < group[k].of
      BY <1>t DEF Memories, TimelinesAgree, GroupInOrder
    <3>5. group' = Append(group, entry)
      BY <2>2 DEF entry
    <3>6. ASSUME NEW j \in DOMAIN group', NEW k \in DOMAIN group', j < k
          PROVE  group'[j].of < group'[k].of
      <4>0. /\ j \in 1..Len(group) \union {Len(group) + 1}
            /\ k \in 1..Len(group) \union {Len(group) + 1}
        BY <3>2, <3>5
      <4>1. j \in DOMAIN group
        BY <3>2, <3>6, <4>0
      <4>2. QED
        BY <3>1, <3>2, <3>3, <3>4, <3>5, <3>6, <4>1
    <3>7. QED
      BY <3>6 DEF GroupInOrder
  <2>3. QED
    BY <2>1, <2>2
<1>6. ASSUME NEW a \in Agents
      PROVE  /\ Latest(SaidToGroup(a)', SaidBy(a)') /\ Latest(RememberedSaying(a)', SaidBy(a)')
             /\ SaidToGroup(a)' = SaidBy(a)' \/ Len(group') >= VerbatimMax
             /\ RememberedSaying(a)' = SaidBy(a)' \/ Len(dialogue'[a]) >= VerbatimMax
  <2> DEFINE new == IF a \in voiced THEN {This} ELSE {}
  <2>1. SaidToGroup(a)' = SaidToGroup(a) \union new
    <3>1. ASSUME NEW i \in SaidToGroup(a)'
          PROVE  i \in SaidToGroup(a) \union new
      <4>1. PICK x \in Range(group') : i = x.of /\ x.role = a
        BY <3>1 DEF SaidToGroup
      <4>2. CASE x \in Range(group)
        BY <4>1, <4>2 DEF SaidToGroup
      <4>3. ASSUME NEW w \in voiced, x = [role |-> w, of |-> This]
            PROVE  i \in new
        BY <4>1, <4>3
      <4>4. QED
        BY <1>4, <4>2, <4>3
    <3>2. ASSUME NEW i \in SaidToGroup(a)
          PROVE  i \in SaidToGroup(a)'
      <4>1. PICK x \in Range(group) : i = x.of /\ x.role = a
        BY <3>2 DEF SaidToGroup
      <4>2. x \in Range(group')
        BY <1>4
      <4>3. QED
        BY <4>1, <4>2 DEF SaidToGroup
    <3>3. ASSUME a \in voiced
          PROVE  This \in SaidToGroup(a)'
      <4> DEFINE entry == [role |-> a, of |-> This]
      <4>1. entry \in Range(group') /\ entry.role = a /\ entry.of = This
        BY <1>4, <3>3
      <4> HIDE DEF entry
      <4>2. QED
        BY <4>1 DEF SaidToGroup
    <3>4. QED
      BY <3>1, <3>2, <3>3
  <2>2. RememberedSaying(a)' = RememberedSaying(a) \union new
    <3>1. ASSUME NEW x \in Range(dialogue[a])
          PROVE  arrived'[x.of] = arrived[x.of]
      BY <1>1, <1>2
    <3>2. ASSUME NEW x \in Range(said[a])
          PROVE  x.of = This /\ arrived'[x.of] = e
      BY <1>1
    <3>3. /\ Range(dialogue'[a]) = Range(dialogue[a]) \union Range(said[a])
          /\ a \in voiced
               <=> e.type # "chat" /\ \E x \in Range(said[a]) : x.role = "assistant"
      BY <1>3
    <3>4. ASSUME NEW i \in RememberedSaying(a)'
          PROVE  i \in RememberedSaying(a) \union new
      <4>1. PICK x \in Range(dialogue'[a]) :
              i = x.of /\ x.role = "assistant" /\ arrived'[x.of].type # "chat"
        BY <3>4 DEF RememberedSaying
      <4>2. CASE x \in Range(dialogue[a])
        BY <3>1, <4>1, <4>2 DEF RememberedSaying
      <4>3. CASE x \in Range(said[a])
        BY <3>2, <3>3, <4>1, <4>3
      <4>4. QED
        BY <3>3, <4>1, <4>2, <4>3
    <3>5. ASSUME NEW i \in RememberedSaying(a)
          PROVE  i \in RememberedSaying(a)'
      <4>1. PICK x \in Range(dialogue[a]) :
              i = x.of /\ x.role = "assistant" /\ arrived[x.of].type # "chat"
        BY <3>5 DEF RememberedSaying
      <4>2. x \in Range(dialogue'[a]) /\ arrived'[x.of].type # "chat"
        BY <3>1, <3>3, <4>1
      <4>3. QED
        BY <4>1, <4>2 DEF RememberedSaying
    <3>6. ASSUME a \in voiced
          PROVE  This \in RememberedSaying(a)'
      <4>1. PICK x \in Range(said[a]) : x.role = "assistant" /\ e.type # "chat"
        BY <3>3, <3>6
      <4>2. x \in Range(dialogue'[a]) /\ x.of = This /\ arrived'[x.of].type # "chat"
        BY <3>2, <3>3, <4>1
      <4>3. QED
        BY <4>1, <4>2 DEF RememberedSaying
    <3>7. QED
      BY <3>4, <3>5, <3>6
  <2>3. /\ SaidBy(a)' = SaidBy(a) \union new
        /\ SaidBy(a) \in SUBSET Nat /\ \A i \in SaidBy(a) : i < This
    BY <1>t, SaidByGrows
  <2>4. new \in {{}, {This}}
    OBVIOUS
  <2> HIDE DEF new
  <2>5. /\ Latest(SaidToGroup(a), SaidBy(a)) /\ Latest(RememberedSaying(a), SaidBy(a))
        /\ SaidToGroup(a) = SaidBy(a) \/ Len(group) >= VerbatimMax
        /\ RememberedSaying(a) = SaidBy(a) \/ Len(dialogue[a]) >= VerbatimMax
    BY <1>t DEF Memories, TimelinesAgree
  <2>6. /\ Latest(SaidToGroup(a) \union new, SaidBy(a) \union new)
        /\ Latest(RememberedSaying(a) \union new, SaidBy(a) \union new)
    <3>1. \A held : Latest(held, SaidBy(a)) => Latest(held \union new, SaidBy(a) \union new)
      <4>1. This \in Nat /\ SaidBy(a) \in SUBSET Nat /\ \A i \in SaidBy(a) : i < This
        BY <1>1, <2>3
      <4>2. QED
        BY <2>4, <4>1, LatestGrows
    <3>2. QED
      BY <2>5, <3>1
  <2>7. VerbatimMax \in Nat
    BY AccumulatorAssumption
  <2>8. SaidToGroup(a)' = SaidBy(a)' \/ Len(group') >= VerbatimMax
    BY <1>4, <2>1, <2>3, <2>5, <2>7
  <2>9. RememberedSaying(a)' = SaidBy(a)' \/ Len(dialogue'[a]) >= VerbatimMax
    BY <1>3, <2>2, <2>3, <2>5, <2>7
  <2>10. QED
    BY <2>1, <2>2, <2>3, <2>6, <2>8, <2>9
<1>7. \A a \in Agents : \A x \in Range(dialogue'[a]) :
        /\ x.of \in DOMAIN arrived'
        /\ x.of > resetAt' \/ arrived'[x.of].type = "inputtext"
  BY <1>1, <1>2, <1>3
<1>8. \A x \in Range(group') : x.of \in DOMAIN arrived' /\ x.of > resetAt'
  BY <1>t, <1>1, <1>4 DEF Memories
<1>9. ASSUME NEW a \in Agents
      PROVE  NamedTwice(a) => NamedTwice(a)'
  <2>1. \A i \in (resetAt + 1)..Len(arrived) :
          i \in (resetAt' + 1)..Len(arrived') /\ arrived'[i] = arrived[i]
    <3>1. /\ DOMAIN arrived = 1..Len(arrived) /\ Len(arrived) \in Nat /\ resetAt \in Nat
          /\ Len(arrived') = Len(arrived) + 1
      BY <1>t, ArrivalGrows DEF TypeOK
    <3>2. QED
      BY <1>1, <3>1
  <2>2. QED
    BY <2>1 DEF NamedTwice
<1>10. RepeatedOnlyIfNamedTwice'
  <2> SUFFICES ASSUME NEW a \in Agents
               PROVE  /\ Together(dialogue'[a])
                      /\ \A x \in Repeated(dialogue'[a]) :
                           arrived'[x.of].type = "inputtext" /\ NamedTwice(a)'
    BY DEF RepeatedOnlyIfNamedTwice
  <2>1. ASSUME NEW x \in Repeated(dialogue'[a])
        PROVE  arrived'[x.of].type = "inputtext" /\ NamedTwice(a)'
    <3>1. x \in Repeated(dialogue[a])
      BY <1>3, <2>1
    <3>2. x \in Range(dialogue[a])
      BY <3>1 DEF Repeated
    <3>3. arrived[x.of].type = "inputtext" /\ NamedTwice(a)
      BY <1>t, <3>1, Zenon DEF Memories, RepeatedOnlyIfNamedTwice
    <3>4. arrived'[x.of] = arrived[x.of]
      BY <1>1, <1>2, <3>2
    <3>5. QED
      BY <1>9, <3>3, <3>4
  <2>2. QED
    BY <1>3, <2>1
<1>11. TimelinesAgree'
  BY <1>3, <1>5, <1>6 DEF TimelinesAgree
<1>12. QED
  BY <1>7, <1>8, <1>10, <1>11 DEF Memories

(* What arrives and is not said by anybody leaves the timelines as they are. *)
LEMMA MemoriesOfSilence ==
  ASSUME AccumulatorInv, NEW e \in Happening, Arrival(e),
         UNCHANGED <<resetAt, dialogue, group>>, e.type \notin {"_speech", "utterance"}
  PROVE  Memories'
<1> DEFINE said == [a \in Agents |-> <<>>]
<1>1. TypeOK
  BY DEF AccumulatorInv
<1>2. /\ said \in [Agents -> Seq(Entry)]
      /\ \A a \in Agents : said[a] = <<>>
  BY NothingIn
<1> HIDE DEF said
<1>3. \A a \in Agents : dialogue[a] \o said[a] = dialogue[a]
  BY <1>1, <1>2, ConcatEmptySeq DEF TypeOK
<1>4. dialogue' = [a \in Agents |-> dialogue[a] \o said[a]]
  BY <1>1, <1>3 DEF TypeOK
<1>5. IsInjective(<<>>) /\ SaidInOrder(<<>>) /\ Range(<<>>) = {}
  BY NothingIn DEF IsInjective, SaidInOrder
<1> DEFINE voiced == {}
<1>6. /\ \A a \in Agents : IsInjective(said[a]) /\ SaidInOrder(said[a])
      /\ \A a \in Agents : \A x \in Range(said[a]) : x.of = This
      /\ \A a \in Agents : a \in voiced
            <=> e.type # "chat" /\ \E x \in Range(said[a]) : x.role = "assistant"
      /\ \A a \in Agents : a \in voiced
            <=> e.who = a /\ (e.type = "utterance" \/ (e.type = "_speech" /\ a \in active))
      /\ voiced \in SUBSET Agents
  BY <1>2, <1>5
<1> HIDE DEF voiced
<1>7. voiced = {}
  BY DEF voiced
<1>8. QED
  BY <1>2, <1>4, <1>6, <1>7, MemoriesGrow

(* The player's input enters the memories of those who hear it, more than   *)
(* once only if the last _speech event names them twice.                   *)
LEMMA MemoriesOfInput ==
  ASSUME AccumulatorInv, RecordPlayerInput
  PROVE  Memories'
<1>t. TypeOK /\ Memories /\ InputIsNew /\ Surroundings
  BY DEF AccumulatorInv
<1> DEFINE n == turn.input
           heard == [role |-> "user", of |-> n]
<1>1. /\ n \in Nat /\ n \in DOMAIN arrived /\ arrived[n].type = "inputtext"
      /\ \A a \in Agents : \A x \in Range(dialogue[a]) : x.of # n
  BY <1>t DEF TypeOK, Turn, InputIsNew, Unrecorded, RecordPlayerInput
<1>2. /\ UNCHANGED <<arrived, resetAt, group, sceneAt>>
      /\ \A a \in Agents : dialogue'[a] = dialogue[a] \o Heard(a)
  BY <1>t DEF RecordPlayerInput, historyVars, TypeOK
<1>3. heard \in Entry /\ heard.of = n /\ heard.role = "user"
  BY <1>1 DEF Entry
<1>4. ASSUME NEW a \in Agents
      PROVE  /\ Heard(a) \in Seq(Entry) /\ Together(Heard(a)) /\ SaidInOrder(Heard(a))
             /\ Range(Heard(a)) \subseteq {heard} /\ Repeated(Heard(a)) \subseteq {heard}
             /\ Repeated(Heard(a)) # {} => NamedTwice(a)
  <2>1. /\ Heard(a) \in Seq(Entry) /\ Together(Heard(a)) /\ SaidInOrder(Heard(a))
        /\ Range(Heard(a)) \subseteq {heard} /\ Repeated(Heard(a)) \subseteq {heard}
        /\ Copies(a) \in Nat /\ (Copies(a) <= 1 => Repeated(Heard(a)) = {})
        /\ Copies(a) > 1 => speech # NoSpeech /\ a # speech.to /\ Times(a, speech.near) > 1
    BY <1>t, HeardOfInput
  <2>2. ASSUME speech # NoSpeech, a # speech.to, Times(a, speech.near) > 1
        PROVE  NamedTwice(a)
    <3>1. PICK m \in (resetAt + 1)..Len(arrived) :
            /\ arrived[m].type = "_speech"
            /\ arrived[m].to = speech.to /\ arrived[m].near = speech.near
      BY <1>t, <2>2 DEF Surroundings
    <3>2. QED
      BY <2>2, <3>1 DEF NamedTwice
  <2>3. ASSUME Repeated(Heard(a)) # {}
        PROVE  Copies(a) > 1
    BY <2>1, <2>3
  <2>4. QED
    BY <2>1, <2>2, <2>3
<1> HIDE DEF n, heard
<1>5. ASSUME NEW a \in Agents
      PROVE  /\ Range(dialogue'[a]) = Range(dialogue[a]) \union Range(Heard(a))
             /\ Together(dialogue'[a]) /\ SaidInOrder(dialogue'[a])
             /\ Repeated(dialogue'[a]) \subseteq Repeated(dialogue[a]) \union Repeated(Heard(a))
             /\ Len(dialogue'[a]) >= Len(dialogue[a])
             /\ Len(dialogue'[a]) \in Nat /\ Len(dialogue[a]) \in Nat
  <2>1. dialogue[a] \in Seq(Entry) /\ Together(dialogue[a]) /\ SaidInOrder(dialogue[a])
    BY <1>t DEF TypeOK, Memories, RepeatedOnlyIfNamedTwice, TimelinesAgree
  <2>2. /\ \A x \in Range(dialogue[a]) : x.of # n
        /\ \A x \in Range(Heard(a)) : x.of = n /\ x.role = "user"
    BY <1>1, <1>3, <1>4
  <2>3. /\ Range(dialogue[a] \o Heard(a)) = Range(dialogue[a]) \union Range(Heard(a))
        /\ Together(dialogue[a] \o Heard(a)) /\ SaidInOrder(dialogue[a] \o Heard(a))
        /\ Repeated(dialogue[a] \o Heard(a)) \subseteq Repeated(dialogue[a]) \union Repeated(Heard(a))
        /\ Len(dialogue[a] \o Heard(a)) >= Len(dialogue[a])
        /\ Len(dialogue[a] \o Heard(a)) \in Nat /\ Len(dialogue[a]) \in Nat
    BY <1>1, <1>4, <2>1, <2>2, MemoryGrows, ZenonT(40)
  <2>4. QED
    BY <1>2, <2>3
<1>6. ASSUME NEW a \in Agents
      PROVE  /\ SaidToGroup(a)' = SaidToGroup(a) /\ RememberedSaying(a)' = RememberedSaying(a)
             /\ SaidBy(a)' = SaidBy(a)
  <2>1. SaidToGroup(a)' = SaidToGroup(a) /\ SaidBy(a)' = SaidBy(a)
    BY <1>2 DEF SaidToGroup, SaidBy
  <2>2. \A x : x \in Range(dialogue'[a]) /\ x.role = "assistant"
                 <=> x \in Range(dialogue[a]) /\ x.role = "assistant"
    BY <1>3, <1>4, <1>5
  <2>3. RememberedSaying(a)' = RememberedSaying(a)
    BY <1>2, <2>2 DEF RememberedSaying
  <2>4. QED
    BY <2>1, <2>3
<1>7. /\ \A a \in Agents : \A x \in Range(dialogue'[a]) :
           /\ x.of \in DOMAIN arrived'
           /\ x.of > resetAt' \/ arrived'[x.of].type = "inputtext"
      /\ \A x \in Range(group') : x.of \in DOMAIN arrived' /\ x.of > resetAt'
  BY <1>t, <1>1, <1>2, <1>3, <1>4, <1>5 DEF Memories
<1>8. RepeatedOnlyIfNamedTwice'
  <2> SUFFICES ASSUME NEW a \in Agents
               PROVE  /\ Together(dialogue'[a])
                      /\ \A x \in Repeated(dialogue'[a]) :
                           arrived'[x.of].type = "inputtext" /\ NamedTwice(a)'
    BY DEF RepeatedOnlyIfNamedTwice
  <2>1. NamedTwice(a)' <=> NamedTwice(a)
    BY <1>2 DEF NamedTwice
  <2>2. ASSUME NEW x \in Repeated(dialogue[a])
        PROVE  arrived'[x.of].type = "inputtext" /\ NamedTwice(a)
    BY <1>t, <1>2, <2>2 DEF Memories, RepeatedOnlyIfNamedTwice
  <2>3. ASSUME NEW x \in Repeated(Heard(a))
        PROVE  arrived'[x.of].type = "inputtext" /\ NamedTwice(a)
    BY <1>1, <1>2, <1>3, <1>4, <2>3
  <2>4. QED
    BY <1>5, <2>1, <2>2, <2>3
<1>9. TimelinesAgree'
  <2>1. \A a \in Agents : RememberedSaying(a)' = SaidBy(a)' \/ Len(dialogue'[a]) >= VerbatimMax
    <3> SUFFICES ASSUME NEW a \in Agents
                 PROVE  RememberedSaying(a)' = SaidBy(a)' \/ Len(dialogue'[a]) >= VerbatimMax
      OBVIOUS
    <3>1. RememberedSaying(a) = SaidBy(a) \/ Len(dialogue[a]) >= VerbatimMax
      BY <1>t DEF Memories, TimelinesAgree
    <3>2. VerbatimMax \in Nat
      BY AccumulatorAssumption
    <3>3. QED
      BY <1>5, <1>6, <3>1, <3>2
  <2>2. GroupInOrder' /\ \A a \in Agents : SaidToGroup(a)' = SaidBy(a)' \/ Len(group') >= VerbatimMax
    BY <1>t, <1>2, <1>6 DEF Memories, TimelinesAgree, GroupInOrder
  <2>3. \A a \in Agents : /\ Latest(SaidToGroup(a)', SaidBy(a)')
                          /\ Latest(RememberedSaying(a)', SaidBy(a)')
    BY <1>t, <1>6 DEF Memories, TimelinesAgree
  <2>4. QED
    BY <1>5, <2>1, <2>2, <2>3 DEF TimelinesAgree
<1>10. QED
  BY <1>7, <1>8, <1>9 DEF Memories

(* The end of a turn: the oldest lines leave the windows, each in its place. *)
LEMMA MemoriesSlide ==
  ASSUME AccumulatorInv, EndAnswers
  PROVE  Memories'
<1>t. TypeOK /\ OnlyWhatArrived /\ Memories
  BY InvariantIsAll DEF AccumulatorInv, BuffersInvariant
<1>1. /\ UNCHANGED <<arrived, resetAt, sceneAt>>
      /\ group' = Slid(group)
      /\ \A a \in Agents : dialogue'[a] \in {dialogue[a], Slid(dialogue[a])}
  BY DEF EndAnswers, historyVars
<1>2. /\ group \in Seq(GroupEntry)
      /\ \A a \in Agents : dialogue[a] \in Seq(Entry)
  BY <1>t DEF TypeOK
<1>3. ASSUME NEW a \in Agents
      PROVE  SaidBy(a) \in SUBSET Nat /\ SaidBy(a)' = SaidBy(a)
  <2>1. resetAt \in Nat /\ Len(arrived) \in Nat
    BY <1>t, LenProperties DEF TypeOK
  <2>2. QED
    BY <1>1, <2>1 DEF SaidBy
<1>4. ASSUME NEW a \in Agents
      PROVE  /\ Latest(SaidToGroup(a)', SaidBy(a)')
             /\ SaidToGroup(a)' = SaidBy(a)' \/ Len(group') >= VerbatimMax
  <2> DEFINE kept == {y \in GroupEntry : y.role = a}
  <2>1. \A s \in Seq(GroupEntry) :
          {x.of : x \in {y \in Range(s) : y.role = a}} = OfThose(s, kept)
    <3> SUFFICES ASSUME NEW s \in Seq(GroupEntry)
                 PROVE  {x.of : x \in {y \in Range(s) : y.role = a}} = OfThose(s, kept)
      OBVIOUS
    <3>1. \A y \in Range(s) : y.role = a <=> y \in kept
      BY ElementOfSeq DEF Range
    <3>2. QED
      BY <3>1 DEF OfThose
  <2>2. /\ Slid(group) \in Seq(GroupEntry)
        /\ Slid(group) = group \/ Len(Slid(group)) = VerbatimMax
    BY <1>2, SlidIsTail
  <2>3. SaidToGroup(a) = OfThose(group, kept) /\ SaidToGroup(a)' = OfThose(Slid(group), kept)
    BY <1>1, <1>2, <2>1, <2>2 DEF SaidToGroup
  <2> HIDE DEF kept
  <2>4. \A j, k \in DOMAIN group :
          j < k /\ group[j] \in kept /\ group[k] \in kept => group[j].of < group[k].of
    BY <1>t DEF Memories, TimelinesAgree, GroupInOrder
  <2>5. Latest(OfThose(group, kept), SaidBy(a))
    BY <1>t, <2>3 DEF Memories, TimelinesAgree
  <2>6. Latest(OfThose(Slid(group), kept), SaidBy(a))
    BY <1>2, <1>3, <2>4, <2>5, SlidKeepsLatest
  <2>7. SaidToGroup(a)' = SaidBy(a)' \/ Len(group') >= VerbatimMax
    <3>1. CASE Slid(group) = group
      <4>1. SaidToGroup(a) = SaidBy(a) \/ Len(group) >= VerbatimMax
        BY <1>t DEF Memories, TimelinesAgree
      <4>2. QED
        BY <1>1, <1>3, <2>3, <3>1, <4>1
    <3>2. CASE Len(Slid(group)) = VerbatimMax
      <4>1. VerbatimMax \in Nat
        BY AccumulatorAssumption
      <4>2. QED
        BY <1>1, <3>2, <4>1
    <3>3. QED
      BY <2>2, <3>1, <3>2
  <2>8. QED
    BY <1>3, <2>3, <2>6, <2>7
<1>5. ASSUME NEW a \in Agents
      PROVE  /\ Latest(RememberedSaying(a)', SaidBy(a)')
             /\ RememberedSaying(a)' = SaidBy(a)' \/ Len(dialogue'[a]) >= VerbatimMax
  <2> DEFINE kept == {y \in Entry : y.role = "assistant" /\ arrived[y.of].type # "chat"}
             d == dialogue[a]
  <2>1. \A s \in Seq(Entry) :
          {x.of : x \in {y \in Range(s) : y.role = "assistant" /\ arrived[y.of].type # "chat"}}
            = OfThose(s, kept)
    <3> SUFFICES ASSUME NEW s \in Seq(Entry)
                 PROVE  {x.of : x \in {y \in Range(s) :
                                         y.role = "assistant" /\ arrived[y.of].type # "chat"}}
                          = OfThose(s, kept)
      OBVIOUS
    <3>1. \A y \in Range(s) : y.role = "assistant" /\ arrived[y.of].type # "chat" <=> y \in kept
      BY ElementOfSeq DEF Range
    <3>2. QED
      BY <3>1 DEF OfThose
  <2>2. /\ d \in Seq(Entry) /\ Slid(d) \in Seq(Entry)
        /\ Slid(d) = d \/ Len(Slid(d)) = VerbatimMax
    BY <1>2, SlidIsTail
  <2>3. /\ RememberedSaying(a) = OfThose(d, kept)
        /\ RememberedSaying(a)' = OfThose(dialogue'[a], kept)
    <3>1. dialogue'[a] \in Seq(Entry)
      BY <1>1, <2>2
    <3>2. QED
      BY <1>1, <2>1, <2>2, <3>1 DEF RememberedSaying
  <2>4. \A j, k \in DOMAIN d : j < k /\ d[j] \in kept /\ d[k] \in kept => d[j].of < d[k].of
    BY <1>t DEF Memories, TimelinesAgree, SaidInOrder
  <2>5. /\ Latest(OfThose(d, kept), SaidBy(a))
        /\ RememberedSaying(a) = SaidBy(a) \/ Len(d) >= VerbatimMax
    BY <1>t, <2>3 DEF Memories, TimelinesAgree
  <2> HIDE DEF kept
  <2>6. CASE dialogue'[a] = d
    BY <1>3, <2>3, <2>5, <2>6
  <2>7. CASE dialogue'[a] = Slid(d) /\ Slid(d) # d
    <3>1. Latest(OfThose(Slid(d), kept), SaidBy(a))
      BY <1>3, <2>2, <2>4, <2>5, SlidKeepsLatest
    <3>2. Len(dialogue'[a]) >= VerbatimMax
      <4>1. VerbatimMax \in Nat
        BY AccumulatorAssumption
      <4>2. QED
        BY <2>2, <2>7, <4>1
    <3>3. QED
      BY <1>3, <2>3, <2>7, <3>1, <3>2
  <2>8. QED
    BY <1>1, <2>6, <2>7
<1>6. ASSUME NEW a \in Agents
      PROVE  /\ Together(dialogue'[a]) /\ SaidInOrder(dialogue'[a])
             /\ Repeated(dialogue'[a]) \subseteq Repeated(dialogue[a])
             /\ Range(dialogue'[a]) \subseteq Range(dialogue[a])
  <2>1. Together(dialogue[a]) /\ SaidInOrder(dialogue[a])
    BY <1>t DEF Memories, RepeatedOnlyIfNamedTwice, TimelinesAgree
  <2>2. /\ Together(Slid(dialogue[a])) /\ SaidInOrder(Slid(dialogue[a]))
        /\ Repeated(Slid(dialogue[a])) \subseteq Repeated(dialogue[a])
        /\ Range(Slid(dialogue[a])) \subseteq Range(dialogue[a])
    BY <1>2, <2>1, SlidKeepsMemory, SlidIsTail
  <2>3. QED
    BY <1>1, <2>1, <2>2
<1>7. RepeatedOnlyIfNamedTwice'
  <2>1. \A a \in Agents : NamedTwice(a)' <=> NamedTwice(a)
    BY <1>1 DEF NamedTwice
  <2>2. QED
    BY <1>t, <1>1, <1>6, <2>1 DEF Memories, RepeatedOnlyIfNamedTwice
<1>8. Range(group') \subseteq Range(group) /\ GroupInOrder'
  <2>1. PICK c \in Nat :
          \A i \in DOMAIN group' : i \in Nat /\ i + c \in DOMAIN group /\ group'[i] = group[i + c]
    BY <1>1, <1>2, SlidIsTail
  <2>2. ASSUME NEW j \in DOMAIN group', NEW k \in DOMAIN group', j < k
        PROVE  group'[j].of < group'[k].of
    <3>1. j + c < k + c
      BY <2>1, <2>2
    <3>2. QED
      BY <1>t, <2>1, <3>1 DEF Memories, TimelinesAgree, GroupInOrder
  <2>3. Range(group') \subseteq Range(group)
    BY <1>1, <1>2, SlidIsTail
  <2>4. QED
    BY <2>2, <2>3 DEF GroupInOrder
<1>9. TimelinesAgree'
  BY <1>4, <1>5, <1>6, <1>8 DEF TimelinesAgree
<1>10. QED
  BY <1>t, <1>1, <1>6, <1>7, <1>8, <1>9 DEF Memories

LEMMA StepKeepsMemories ==
  ASSUME AccumulatorInv, [Next]_accVars
  PROVE  Memories'
<1> USE DEF bufferVars, sceneVars, poolVars, historyVars
<1>t. TypeOK /\ OnlyWhatArrived /\ Memories
  BY InvariantIsAll DEF AccumulatorInv, BuffersInvariant
<1>1. ASSUME NEW e \in Shapes, HandleEvent(e)
      PROVE  Memories'
  <2>1. Arrives(e)
    BY <1>1 DEF HandleEvent, HandleInput, HandleReset, HandleSession, HandleLocation, HandleRouted
  <2>2. e \in Happening /\ Arrival(e) /\ This \in Nat
    BY <1>t, <2>1, ArrivesIsArrival, ShapesHaveFields, ArrivalGrows
  <2>3. CASE HandleInput(e) \/ HandleSession(e) \/ HandleLocation(e)
    <3>1. UNCHANGED <<resetAt, dialogue, group>> /\ e.type \notin {"_speech", "utterance"}
      BY <2>3 DEF HandleInput, HandleSession, HandleLocation
    <3>2. QED
      BY <2>2, <3>1, MemoriesOfSilence
  <2>4. CASE HandleReset(e)
    <3>1. /\ group' = <<>> /\ \A a \in Agents : dialogue'[a] = <<>>
          /\ resetAt' = This
      BY <2>4 DEF HandleReset, Reset
    <3>2. This = Len(arrived')
      BY <1>t, <2>2, ArrivalGrows DEF This
    <3>3. \A a \in Agents : SaidBy(a)' = {}
      BY <2>2, <3>1, <3>2 DEF SaidBy
    <3>4. NothingSaid'
      BY <3>1, <3>3 DEF NothingSaid
    <3>5. QED
      BY <3>4, MemoriesOfNothing, PTL
  <2>5. CASE HandleRouted(e)
    <3> DEFINE said == [a \in Agents |-> Said(e, a)]
               voiced == {a \in Agents : Speaks(e, a)}
    <3>1. \A a \in Agents :
            /\ Said(e, a) \in Seq(Entry)
            /\ Range(Said(e, a)) \subseteq {AsSpeaker, AsListener}
            /\ AsSpeaker \in Range(Said(e, a))
                 <=> a = e.who /\ (e.type = "chat" \/ Speaks(e, a))
            /\ IsInjective(Said(e, a)) /\ SaidInOrder(Said(e, a))
            /\ \A d \in Seq(Entry) : d \o Adopted(e, a) \o Spoken(e, a) = d \o Said(e, a)
      BY <2>2, SaidOnce
    <3>2. said \in [Agents -> Seq(Entry)] /\ \A a \in Agents : said[a] = Said(e, a)
      BY <3>1
    <3>3. dialogue' = [a \in Agents |-> dialogue[a] \o said[a]]
      BY <1>t, <2>5, <3>1 DEF HandleRouted, TypeOK
    <3>4. /\ AsSpeaker.of = This /\ AsListener.of = This
          /\ AsSpeaker.role = "assistant" /\ AsListener.role = "user"
      BY DEF AsSpeaker, AsListener
    <3>5. \A a \in Agents : \A x \in Range(said[a]) : x.of = This
      BY <3>1, <3>2, <3>4
    <3>6. \A a \in Agents : Speaks(e, a) => e.type = "_speech" /\ a = e.who
      BY DEF Speaks
    <3>7. ASSUME NEW a \in Agents
          PROVE  a \in voiced
                   <=> e.type # "chat" /\ \E x \in Range(said[a]) : x.role = "assistant"
      <4>1. (\E x \in Range(said[a]) : x.role = "assistant") <=> AsSpeaker \in Range(said[a])
        BY <3>1, <3>2, <3>4
      <4>2. QED
        BY <3>1, <3>2, <3>6, <4>1
    <3>8. \/ voiced = {} /\ group' = group
          \/ \E w \in Agents : voiced = {w} /\ group' = Append(group, [role |-> w, of |-> This])
      <4>1. CASE \E a \in Agents : Speaks(e, a)
        <5>1. e.who \in Agents /\ voiced = {e.who}
          BY <3>6, <4>1
        <5>2. group' = Append(group, [role |-> e.who, of |-> This])
          BY <2>5, <4>1 DEF HandleRouted
        <5>3. QED
          BY <5>1, <5>2
      <4>2. CASE ~ \E a \in Agents : Speaks(e, a)
        BY <2>5, <4>2 DEF HandleRouted
      <4>3. QED
        BY <4>1, <4>2
    <3>9. resetAt' = resetAt /\ voiced \in SUBSET Agents
      BY <2>5 DEF HandleRouted
    <3>12. \A a \in Agents : a \in voiced
             <=> e.who = a /\ (e.type = "utterance" \/ (e.type = "_speech" /\ a \in active))
      <4>1. e.type # "utterance"
        BY <2>5 DEF HandleRouted
      <4>2. QED
        BY <4>1 DEF Speaks
    <3>10. \A a \in Agents : IsInjective(said[a]) /\ SaidInOrder(said[a])
      BY <3>1, <3>2
    <3> HIDE DEF said, voiced
    <3>11. QED
      BY <2>2, <3>2, <3>3, <3>5, <3>7, <3>8, <3>9, <3>10, <3>12, MemoriesGrow
  <2>6. QED
    BY <1>1, <2>3, <2>4, <2>5 DEF HandleEvent
<1>2. ASSUME NEW a \in Agents, RecordAgentOutput(a)
      PROVE  Memories'
  <2> DEFINE e == Utterance(a)
             said == [b \in Agents |-> IF b = a THEN <<AsSpeaker>> ELSE <<>>]
             voiced == {a}
  <2>1. /\ e \in Happening /\ Arrival(e) /\ resetAt' = resetAt
        /\ e.type = "utterance" /\ e.who = a
        /\ group' = Append(group, [role |-> a, of |-> This])
        /\ dialogue' = [dialogue EXCEPT ![a] = Append(@, AsSpeaker)]
    BY <1>2 DEF RecordAgentOutput, Happening, Arrival, Utterance
  <2>2. This \in Nat
    BY <1>t, <2>1, ArrivalGrows
  <2>3. AsSpeaker \in Entry /\ AsSpeaker.of = This /\ AsSpeaker.role = "assistant"
    BY <2>2 DEF AsSpeaker, Entry
  <2>4. /\ <<AsSpeaker>> \in Seq(Entry) /\ Range(<<AsSpeaker>>) = {AsSpeaker}
        /\ IsInjective(<<AsSpeaker>>) /\ SaidInOrder(<<AsSpeaker>>)
    <3> DEFINE entry == AsSpeaker
    <3>1. entry \in Entry /\ entry.of = This
      BY <2>3
    <3> HIDE DEF entry
    <3>2. <<entry>> \in Seq(Entry)
      BY <3>1
    <3>3. Range(<<entry>>) = {entry}
      BY <3>1, TwoInARow
    <3>4. IsInjective(<<entry>>) /\ SaidInOrder(<<entry>>)
      BY <3>1 DEF IsInjective, SaidInOrder
    <3>5. QED
      BY <3>2, <3>3, <3>4 DEF entry
  <2>5. IsInjective(<<>>) /\ SaidInOrder(<<>>) /\ Range(<<>>) = {} /\ <<>> \in Seq(Entry)
    BY NothingIn DEF IsInjective, SaidInOrder
  <2>6. /\ said \in [Agents -> Seq(Entry)]
        /\ said[a] = <<AsSpeaker>>
        /\ \A b \in Agents : b # a => said[b] = <<>>
    BY <2>4, <2>5
  <2>7. dialogue' = [b \in Agents |-> dialogue[b] \o said[b]]
    <3>1. \A b \in Agents : dialogue[b] \in Seq(Entry)
      BY <1>t DEF TypeOK
    <3>2. Append(dialogue[a], AsSpeaker) = dialogue[a] \o said[a]
      <4>1. Append(dialogue[a], AsSpeaker) = dialogue[a] \o <<AsSpeaker>>
        BY <2>3, <3>1, AppendIsConcat
      <4>2. QED
        BY <2>6, <4>1
    <3>3. \A b \in Agents : b # a => dialogue[b] \o said[b] = dialogue[b]
      BY <2>6, <3>1, ConcatEmptySeq
    <3>4. DOMAIN dialogue = Agents
      BY <1>t DEF TypeOK
    <3> HIDE DEF said
    <3>5. QED
      BY <1>t, <2>1, <3>2, <3>3 DEF TypeOK
  <2> HIDE DEF said
  <2>8. /\ \A b \in Agents : IsInjective(said[b]) /\ SaidInOrder(said[b])
        /\ \A b \in Agents : \A x \in Range(said[b]) : x.of = This
        /\ \A b \in Agents : b \in voiced
              <=> e.type # "chat" /\ \E x \in Range(said[b]) : x.role = "assistant"
        /\ \A b \in Agents : b \in voiced
              <=> e.who = b /\ (e.type = "utterance" \/ (e.type = "_speech" /\ b \in active))
    BY <2>1, <2>3, <2>4, <2>5, <2>6
  <2>9. voiced \in SUBSET Agents
    OBVIOUS
  <2>10. \/ voiced = {} /\ group' = group
         \/ \E w \in Agents : voiced = {w} /\ group' = Append(group, [role |-> w, of |-> This])
    BY <2>1
  <2> HIDE DEF e, voiced
  <2>11. e \in Happening /\ Arrival(e) /\ resetAt' = resetAt
    BY <2>1
  <2>12. said \in [Agents -> Seq(Entry)]
    BY <2>6
  <2>13. QED
    BY <2>7, <2>8, <2>9, <2>10, <2>11, <2>12, MemoriesGrow
<1>3. CASE RecordPlayerInput
  BY <1>3, MemoriesOfInput
<1>4. CASE EndAnswers
  BY <1>4, MemoriesSlide
<1>5. CASE (\E scene \in Scenes : BeginPackage(scene)) \/ EndDataOnly \/ EndTurn
             \/ SleepThrough \/ AbandonTurn \/ UNCHANGED accVars
  <2>1. UNCHANGED <<arrived, dialogue, group, resetAt, sceneAt>>
    BY <1>5 DEF BeginPackage, EndDataOnly, EndTurn, SleepThrough, AbandonTurn, accVars
  <2>2. QED
    BY <1>t, <2>1, MemoriesStay
<1>6. QED
  BY <1>1, <1>2, <1>3, <1>4, <1>5 DEF Next

-----------------------------------------------------------------------------
(* Buffers, the pending input, the place.                                  *)

LEMMA StepKeepsBuffers ==
  ASSUME AccumulatorInv, [Next]_accVars
  PROVE  NothingOutsideTheBuffers'
<1> USE DEF bufferVars, sceneVars, poolVars, historyVars
<1>t. TypeOK /\ OnlyWhatArrived /\ NothingOutsideTheBuffers
  BY InvariantIsAll DEF AccumulatorInv, BuffersInvariant
<1> SUFFICES ASSUME NEW b \in Agents, b \notin known'
             PROVE  events'[b] = <<>> /\ dialogue'[b] = <<>> /\ earshot'[b] = {}
  BY DEF NothingOutsideTheBuffers
<1>o. b \notin known => events[b] = <<>> /\ dialogue[b] = <<>> /\ earshot[b] = {}
  BY <1>t DEF NothingOutsideTheBuffers
<1>1. ASSUME NEW scene \in Scenes, BeginPackage(scene)
      PROVE  events'[b] = <<>> /\ dialogue'[b] = <<>> /\ earshot'[b] = {}
  BY <1>o, <1>1 DEF BeginPackage
<1>2. ASSUME NEW e \in Shapes, HandleInput(e) \/ HandleSession(e) \/ HandleLocation(e)
      PROVE  events'[b] = <<>> /\ dialogue'[b] = <<>> /\ earshot'[b] = {}
  BY <1>o, <1>2 DEF HandleInput, HandleSession, HandleLocation
<1>3. ASSUME NEW e \in Shapes, HandleReset(e)
      PROVE  events'[b] = <<>> /\ dialogue'[b] = <<>> /\ earshot'[b] = {}
  BY <1>3 DEF HandleReset, Reset
<1>4. ASSUME NEW e \in Shapes, HandleRouted(e)
      PROVE  events'[b] = <<>> /\ dialogue'[b] = <<>> /\ earshot'[b] = {}
  <2>1. This \in Nat
    BY <1>t, <1>4, ArrivesIsArrival, ShapesHaveFields, ArrivalGrows DEF HandleRouted
  <2>2. b \notin known /\ b \notin AgentsOf(e) /\ b \notin EarshotGroup(e)
    BY <1>4 DEF HandleRouted
  <2>3. Said(e, b) = <<>> /\ dialogue[b] \o Adopted(e, b) \o Spoken(e, b) = dialogue[b] \o Said(e, b)
    BY <1>t, <2>1, <2>2, SaidOnce DEF TypeOK
  <2>4. <<>> \in Seq(Nat) /\ <<>> \in Seq(Entry)
    BY NothingIn
  <2>5. <<>> \o <<>> = <<>>
    BY <2>4, ConcatEmptySeq
  <2>6. Routed(e, b) = <<>>
    BY <2>2, <2>5 DEF Routed, When, AgentsOf
  <2>7. QED
    BY <1>4, <1>o, <2>2, <2>3, <2>5, <2>6 DEF HandleRouted
<1>5. CASE EndTurn
  BY <1>5, <1>o DEF EndTurn
<1>6. CASE RecordPlayerInput
  <2>1. b \notin known /\ Copies(b) = 0 /\ UNCHANGED <<events, earshot>>
    BY <1>6 DEF RecordPlayerInput, Hearers
  <2>2. Heard(b) = <<>>
    BY <2>1 DEF Heard
  <2>3. dialogue'[b] = <<>> \o <<>>
    BY <1>6, <1>o, <2>1, <2>2 DEF RecordPlayerInput
  <2>4. <<>> \o <<>> = <<>>
    BY NothingIn, ConcatEmptySeq
  <2>5. QED
    BY <1>o, <2>1, <2>3, <2>4
<1>7. ASSUME NEW a \in Agents, RecordAgentOutput(a)
      PROVE  events'[b] = <<>> /\ dialogue'[b] = <<>> /\ earshot'[b] = {}
  BY <1>7, <1>o, <1>t DEF RecordAgentOutput, TypeOK
<1>8. CASE EndDataOnly \/ SleepThrough \/ EndAnswers \/ AbandonTurn \/ UNCHANGED accVars
  BY <1>8, <1>o DEF EndDataOnly, SleepThrough, EndAnswers, AbandonTurn, accVars
<1>9. QED
  BY <1>1, <1>2, <1>3, <1>4, <1>5, <1>6, <1>7, <1>8 DEF Next, HandleEvent

(* An arrival that adds to the memories what is of it leaves a pending input *)
(* as new as it was.                                                       *)
LEMMA ArrivalKeepsInputNew ==
  ASSUME AccumulatorInv, NEW e \in Happening, Arrival(e), phase' # "turn",
         \A a \in Agents : \A x \in Range(dialogue'[a]) :
            x \in Range(dialogue[a]) \/ x.of = This,
         \/ pending' = pending
         \/ pending' = This /\ e.type = "inputtext" /\ dialogue' = dialogue
  PROVE  InputIsNew'
<1>t. TypeOK /\ OnlyWhatArrived /\ InputIsNew /\ Memories
  BY InvariantIsAll DEF AccumulatorInv, BuffersInvariant
<1>1. /\ This \notin DOMAIN arrived /\ DOMAIN arrived' = DOMAIN arrived \union {This}
      /\ arrived'[This] = e
      /\ \A i \in DOMAIN arrived : arrived'[i] = arrived[i]
  BY <1>t, ArrivalGrows
<1>2. CASE pending' = pending
  BY <1>t, <1>1, <1>2 DEF InputIsNew, Unrecorded
<1>3. CASE pending' = This /\ e.type = "inputtext" /\ dialogue' = dialogue
  <2>1. \A a \in Agents : \A x \in Range(dialogue[a]) : x.of # This
    BY <1>t, <1>1 DEF Memories
  <2>2. QED
    BY <1>1, <1>3, <2>1 DEF InputIsNew, Unrecorded
<1>4. QED
  BY <1>2, <1>3

LEMMA StepKeepsInputs ==
  ASSUME AccumulatorInv, [Next]_accVars
  PROVE  InputIsNew'
<1> USE DEF bufferVars, sceneVars, poolVars, historyVars
<1>t. TypeOK /\ OnlyWhatArrived /\ InputIsNew
  BY InvariantIsAll DEF AccumulatorInv, BuffersInvariant
<1>1. ASSUME NEW e \in Shapes, HandleEvent(e)
      PROVE  InputIsNew'
  <2>1. Arrives(e)
    BY <1>1 DEF HandleEvent, HandleInput, HandleReset, HandleSession, HandleLocation, HandleRouted
  <2>2. e \in Happening /\ Arrival(e) /\ This \in Nat /\ phase' # "turn"
    BY <1>t, <2>1, ArrivesIsArrival, ShapesHaveFields, ArrivalGrows
  <2>3. CASE HandleInput(e) \/ HandleSession(e) \/ HandleLocation(e)
    <3>1. /\ dialogue' = dialogue
          /\ pending' = pending \/ (pending' = This /\ e.type = "inputtext")
      BY <2>3 DEF HandleInput, HandleSession, HandleLocation
    <3>2. QED
      BY <2>2, <3>1, ArrivalKeepsInputNew
  <2>4. CASE HandleReset(e)
    <3>1. pending' = pending /\ \A a \in Agents : dialogue'[a] = <<>>
      BY <2>4 DEF HandleReset, Reset
    <3>2. \A a \in Agents : Range(dialogue'[a]) = {}
      BY <3>1, NothingIn
    <3>3. QED
      BY <2>2, <3>1, <3>2, ArrivalKeepsInputNew
  <2>5. CASE HandleRouted(e)
    <3>1. pending' = pending
      BY <2>5 DEF HandleRouted
    <3>2. ASSUME NEW a \in Agents
          PROVE  Range(dialogue'[a]) = Range(dialogue[a]) \union Range(Said(e, a))
      <4>1. dialogue[a] \in Seq(Entry) /\ Said(e, a) \in Seq(Entry)
        BY <1>t, <2>2, SaidOnce DEF TypeOK
      <4>2. dialogue'[a] = dialogue[a] \o Said(e, a)
        BY <2>2, <2>5, <4>1, SaidOnce DEF HandleRouted
      <4>3. QED
        BY <4>1, <4>2, RangeConcatenation
    <3>3. \A a \in Agents : \A x \in Range(Said(e, a)) : x.of = This
      <4>1. AsSpeaker.of = This /\ AsListener.of = This
        BY DEF AsSpeaker, AsListener
      <4>2. QED
        BY <2>2, <4>1, SaidOnce
    <3>4. QED
      BY <2>2, <3>1, <3>2, <3>3, ArrivalKeepsInputNew
  <2>6. QED
    BY <1>1, <2>3, <2>4, <2>5 DEF HandleEvent
<1>2. ASSUME NEW a \in Agents, RecordAgentOutput(a)
      PROVE  InputIsNew'
  <2>1. /\ Utterance(a) \in Happening /\ Arrival(Utterance(a))
        /\ phase' # "turn" /\ pending' = pending
    BY <1>2 DEF RecordAgentOutput, Happening, Arrival
  <2>2. This \in Nat
    BY <1>t, <2>1, ArrivalGrows
  <2>3. AsSpeaker \in Entry /\ AsSpeaker.of = This
    BY <2>2 DEF AsSpeaker, Entry
  <2>4. Range(Append(dialogue[a], AsSpeaker)) = Range(dialogue[a]) \union {AsSpeaker}
    BY <1>t, <2>3, AppendGrows DEF TypeOK
  <2>5. \A b \in Agents : dialogue'[b] = IF b = a THEN Append(dialogue[a], AsSpeaker) ELSE dialogue[b]
    BY <1>t, <1>2 DEF RecordAgentOutput, TypeOK
  <2>6. QED
    BY <2>1, <2>3, <2>4, <2>5, ArrivalKeepsInputNew
<1>3. CASE EndTurn
  <2>1. /\ UNCHANGED <<arrived, dialogue>> /\ turn'.input = pending /\ pending' = 0
        /\ pending # 0
    BY <1>3 DEF EndTurn, Flushed
  <2>2. QED
    BY <1>t, <2>1 DEF InputIsNew, Unrecorded
<1>4. CASE RecordPlayerInput
  BY <1>t, <1>4 DEF RecordPlayerInput, InputIsNew
<1>5. CASE EndAnswers
  <2>1. /\ UNCHANGED <<arrived, pending>> /\ phase' = "idle"
        /\ \A a \in Agents : dialogue'[a] \in {dialogue[a], Slid(dialogue[a])}
    BY <1>5 DEF EndAnswers
  <2>2. \A a \in Agents : Range(Slid(dialogue[a])) \subseteq Range(dialogue[a])
    BY <1>t, SlidIsTail DEF TypeOK
  <2>3. \A a \in Agents : Range(dialogue'[a]) \subseteq Range(dialogue[a])
    BY <2>1, <2>2
  <2>4. QED
    BY <1>t, <2>1, <2>3 DEF InputIsNew, Unrecorded
<1>6. CASE (\E scene \in Scenes : BeginPackage(scene)) \/ EndDataOnly \/ SleepThrough
             \/ AbandonTurn \/ UNCHANGED accVars
  <2>1. /\ UNCHANGED <<arrived, dialogue, pending>>
        /\ phase' = "turn" => phase = "turn" /\ turn' = turn
    BY <1>6 DEF BeginPackage, EndDataOnly, SleepThrough, AbandonTurn, accVars
  <2>2. QED
    BY <1>t, <2>1, InputsStay
<1>7. QED
  BY <1>1, <1>2, <1>3, <1>4, <1>5, <1>6 DEF Next

(* The place, and who was spoken to, are of an event of this session.       *)
LEMMA StepKeepsSurroundings ==
  ASSUME AccumulatorInv, [Next]_accVars
  PROVE  Surroundings'
<1> USE DEF bufferVars, sceneVars, poolVars, historyVars
<1>t. TypeOK /\ OnlyWhatArrived /\ Surroundings /\ resetAt \in Nat
  BY InvariantIsAll DEF AccumulatorInv, BuffersInvariant, TypeOK
<1>1. ASSUME NEW e \in Happening, Arrival(e), resetAt' = resetAt,
             location' = location \/ (e.type = "location" /\ location' = e.place),
             \/ speech' = speech
             \/ e.type = "_speech" /\ speech'.to = e.to /\ speech'.near = e.near
      PROVE  Surroundings'
  <2>1. /\ DOMAIN arrived = 1..Len(arrived) /\ Len(arrived) \in Nat
        /\ Len(arrived') = Len(arrived) + 1 /\ resetAt < This
        /\ arrived'[This] = e /\ This \in Nat
        /\ \A i \in DOMAIN arrived : arrived'[i] = arrived[i]
    BY <1>t, <1>1, ArrivalGrows
  <2>2. This \in (resetAt' + 1)..Len(arrived')
    BY <1>t, <1>1, <2>1 DEF This
  <2>3. \A i \in (resetAt + 1)..Len(arrived) :
          i \in (resetAt' + 1)..Len(arrived') /\ arrived'[i] = arrived[i]
    BY <1>t, <1>1, <2>1
  <2>4. location' # Unknown =>
          \E i \in (resetAt' + 1)..Len(arrived') :
             arrived'[i].type = "location" /\ arrived'[i].place = location'
    <3>1. CASE location' = location
      BY <1>t, <2>3, <3>1 DEF Surroundings
    <3>2. CASE e.type = "location" /\ location' = e.place
      BY <2>1, <2>2, <3>2
    <3>3. QED
      BY <1>1, <3>1, <3>2
  <2>5. speech' # NoSpeech =>
          \E i \in (resetAt' + 1)..Len(arrived') :
             /\ arrived'[i].type = "_speech"
             /\ arrived'[i].to = speech'.to /\ arrived'[i].near = speech'.near
    <3>1. CASE speech' = speech
      BY <1>t, <2>3, <3>1 DEF Surroundings
    <3>2. CASE e.type = "_speech" /\ speech'.to = e.to /\ speech'.near = e.near
      BY <2>1, <2>2, <3>2
    <3>3. QED
      BY <1>1, <3>1, <3>2
  <2>6. QED
    BY <2>4, <2>5 DEF Surroundings
<1>2. ASSUME NEW e \in Shapes, HandleEvent(e)
      PROVE  Surroundings'
  <2>1. Arrives(e)
    BY <1>2 DEF HandleEvent, HandleInput, HandleReset, HandleSession, HandleLocation, HandleRouted
  <2>2. e \in Happening /\ Arrival(e)
    BY <2>1, ArrivesIsArrival, ShapesHaveFields
  <2>3. CASE HandleReset(e)
    <3>1. location' = Unknown /\ speech' = NoSpeech
      BY <2>3 DEF HandleReset, Reset
    <3>2. QED
      BY <3>1 DEF Surroundings, NoSpeech
  <2>4. CASE ~HandleReset(e)
    <3>1. /\ resetAt' = resetAt
          /\ location' = location \/ (e.type = "location" /\ location' = e.place)
          /\ \/ speech' = speech
             \/ e.type = "_speech" /\ speech'.to = e.to /\ speech'.near = e.near
      BY <1>2, <2>4 DEF HandleEvent, HandleInput, HandleSession, HandleLocation, HandleRouted
    <3>2. QED
      BY <1>1, <2>2, <3>1
  <2>5. QED
    BY <2>3, <2>4
<1>3. ASSUME NEW a \in Agents, RecordAgentOutput(a)
      PROVE  Surroundings'
  <2>1. /\ Utterance(a) \in Happening /\ Arrival(Utterance(a))
        /\ UNCHANGED <<resetAt, location, speech>>
    BY <1>3 DEF RecordAgentOutput, Happening, Arrival
  <2>2. QED
    BY <1>1, <2>1
<1>4. CASE (\E scene \in Scenes : BeginPackage(scene)) \/ EndDataOnly \/ EndTurn
             \/ SleepThrough \/ RecordPlayerInput \/ EndAnswers \/ AbandonTurn
             \/ UNCHANGED accVars
  <2>1. UNCHANGED <<arrived, resetAt, location, speech>>
    BY <1>4 DEF BeginPackage, EndDataOnly, EndTurn, SleepThrough, RecordPlayerInput, EndAnswers,
                AbandonTurn, accVars
  <2>2. QED
    BY <1>t, <2>1, SurroundingsStay
<1>5. QED
  BY <1>2, <1>3, <1>4 DEF Next

-----------------------------------------------------------------------------
LEMMA AccumulatorInitially == Init => AccumulatorInv
<1> SUFFICES ASSUME Init
             PROVE  AccumulatorInv
  OBVIOUS
<1>e. (\A S : <<>> \in Seq(S)) /\ Range(<<>>) = {} /\ DOMAIN <<>> = {} /\ Len(<<>>) = 0
  BY NothingIn
<1>1. TypeOK
  <2>1. /\ arrived \in Seq(Happening) /\ events \in [Agents -> Seq(Nat)]
        /\ dialogue \in [Agents -> Seq(Entry)] /\ world \in Seq(Nat) /\ session \in Seq(Nat)
        /\ group \in Seq(GroupEntry) /\ facts \in Seq(Fact) /\ handed \in Seq(Nat)
        /\ sceneAt \in Seq(SUBSET Agents)
    BY <1>e DEF Init
  <2>2. turn \in Turn
    BY <1>e DEF Init, NoTurn, Turn
  <2>3. /\ earshot \in [Agents -> SUBSET Agents]
        /\ speech \in [to : Agents \union {Player, NoOne, None}, near : Seq(Agents)]
    BY <1>e DEF Init, NoSpeech
  <2>4. /\ phase = "idle" /\ sleeps = FALSE /\ packages \in Nat /\ known \subseteq Agents
        /\ location \in Places \union {Unknown} /\ pending \in Nat
        /\ active \subseteq Agents /\ prevActive \subseteq Agents
        /\ entered \subseteq Agents /\ exited \subseteq Agents
        /\ registered \subseteq Agents /\ resetAt \in Nat /\ introduced \subseteq Agents
    BY DEF Init
  <2>5. QED
    BY <2>1, <2>2, <2>3, <2>4 DEF TypeOK
<1>2. /\ arrived = <<>> /\ handed = <<>> /\ sceneAt = <<>> /\ resetAt = 0 /\ pending = 0
      /\ world = <<>> /\ session = <<>> /\ group = <<>> /\ phase = "idle"
      /\ location = Unknown /\ speech = NoSpeech
      /\ \A a \in Agents : events[a] = <<>> /\ dialogue[a] = <<>> /\ earshot[a] = {}
  BY DEF Init
<1>3. NothingOutsideTheBuffers /\ InputIsNew /\ Surroundings
  BY <1>2 DEF NothingOutsideTheBuffers, InputIsNew, Surroundings
<1>4. Memories
  <2>1. \A a \in Agents : SaidBy(a) = {}
    BY <1>e, <1>2 DEF SaidBy
  <2>2. QED
    BY <1>2, <2>1, MemoriesOfNothing DEF NothingSaid
<1>5. Holdings
  <2>1. InBuffers = {} /\ Range(world) = {} /\ Range(session) = {}
    BY <1>e, <1>2 DEF InBuffers
  <2>2. Filed = {} /\ HeldEvents = {}
    BY <2>1 DEF Filed, HeldEvents
  <2>3. EachEventInOneTurn
    BY <1>e, <1>2 DEF EachEventInOneTurn
  <2>4. QED
    BY <1>e, <1>2, <2>1, <2>2, <2>3 DEF Holdings
<1>6. QED
  BY <1>1, <1>3, <1>4, <1>5 DEF AccumulatorInv

LEMMA AccumulatorIsInvariant == Spec => []AccumulatorInv
<1>1. Init => AccumulatorInv
  BY AccumulatorInitially
<1>2. AccumulatorInv /\ [Next]_accVars => AccumulatorInv'
  <2> SUFFICES ASSUME AccumulatorInv, [Next]_accVars
               PROVE  AccumulatorInv'
    OBVIOUS
  <2>1. TypeOK /\ OnlyWhatArrived /\ InputIsNew
    BY InvariantIsAll DEF AccumulatorInv, BuffersInvariant
  <2>2. TypeOK'
    BY <2>1, StepKeepsTypes
  <2>3. NothingOutsideTheBuffers' /\ InputIsNew'
    BY StepKeepsBuffers, StepKeepsInputs
  <2>4. Memories' /\ Holdings' /\ Surroundings'
    BY StepKeepsMemories, StepKeepsHoldings, StepKeepsSurroundings
  <2>5. QED
    BY <2>2, <2>3, <2>4 DEF AccumulatorInv
<1>3. QED
  BY <1>1, <1>2, PTL DEF Spec

(* Whoever has a memory has a buffer, no line is in a memory twice, what is *)
(* held, remembered or shared has arrived and is filed by its type, and a  *)
(* pending input is in no memory yet.                                      *)
THEOREM BuffersStaySound == Spec => []BuffersInvariant
<1>1. AccumulatorInv => BuffersInvariant
  BY InvariantIsAll
<1>2. QED
  BY <1>1, AccumulatorIsInvariant, PTL

(* However packages, turns and resets interleave, an event is carried by    *)
(* one turn's context or still held, and never both.                       *)
THEOREM EventsReachOneTurn == Spec => []EachEventInOneTurn
<1>1. AccumulatorInv => EachEventInOneTurn
  BY InvariantIsAll
<1>2. QED
  BY <1>1, AccumulatorIsInvariant, PTL

(* After a reset, wherever in a package it came, nothing but a pending      *)
(* input of the session before is remembered, shared or where we are.      *)
THEOREM ResetForgets == Spec => []ResetForgetsTheSession
<1>1. AccumulatorInv => ResetForgetsTheSession
  BY InvariantIsAll
<1>2. QED
  BY <1>1, AccumulatorIsInvariant, PTL

(* What the group heard an agent say, by canned speech or by an answer, is   *)
(* what the agent remembers saying, in the order in which it was said.     *)
THEOREM TimelinesStayInStep == Spec => []TimelinesAgree
<1>1. AccumulatorInv => TimelinesAgree
  BY InvariantIsAll
<1>2. QED
  BY <1>1, AccumulatorIsInvariant, PTL
=============================================================================
