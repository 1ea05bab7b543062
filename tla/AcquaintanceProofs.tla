------------------------- MODULE AcquaintanceProofs -------------------------
(***************************************************************************)
(* Theorems about acquaintance and introductions, for every set of NPCs,   *)
(* of seeded profiles and of conversations, and for every bound on the     *)
(* packages.                                                               *)
(***************************************************************************)
EXTENDS Acquaintance, TLAPS

(* What a package brings is about NPCs, known to NPCs. *)
LEMMA PackageTypes ==
  ASSUME NEW here \in SUBSET Npcs, NEW new \in SUBSET Npcs,
         NEW talk \in SUBSET Conversations
  PROVE  /\ Learned(here, new) \subseteq Npcs \X Npcs \X {"event", "identity"}
         /\ UNION {Learned(here, {p[1], p[2]}) : p \in talk}
              \subseteq Npcs \X Npcs \X {"event", "identity"}
         /\ Routed(new, talk) \subseteq Pairs
<1>1. \A p \in talk : p \in Npcs \X Npcs
  BY AcquaintanceAssumption
<1>2. \A S \in SUBSET Npcs :
        Learned(here, S) \subseteq Npcs \X Npcs \X {"event", "identity"}
  BY DEF Learned
<1>3. \A p \in talk : {p[1], p[2]} \in SUBSET Npcs
  BY <1>1
<1>4. \A p \in talk : Flip(p) \in Npcs \X Npcs
  BY <1>1 DEF Flip
<1>5. Routed(new, talk) \subseteq Pairs
  BY <1>1, <1>4 DEF Routed, Pairs
<1>6. QED
  BY <1>2, <1>3, <1>5

(* What may fail is a set of what is tried. *)
LEMMA UptoSubset ==
  ASSUME NEW failing \in BOOLEAN, NEW S, NEW T \in Upto(failing, S)
  PROVE  T \subseteq S /\ (~failing => T = {})
BY DEF Upto

(* The state keeps its types under every step of Falcon and Progeny. *)
THEOREM TypeCorrect == Spec => []TypeOK
<1>1. Init => TypeOK
  <2> SUFFICES ASSUME Init
               PROVE  TypeOK
    OBVIOUS
  <2>1. kernels \in [Npcs -> {"none", "empty", "loaded"}]
    BY DEF Init
  <2>2. /\ telling \in Pairs \union {NoPair}
        /\ lost \in BOOLEAN
    BY DEF Init
  <2>3. QED
    BY <2>1, <2>2 DEF Init, TypeOK, Stages
<1>2. TypeOK /\ [Next]_vars => TypeOK'
  <2> SUFFICES ASSUME TypeOK, [Next]_vars
               PROVE  TypeOK'
    OBVIOUS
  <2> USE AcquaintanceAssumption
  <2>1. ASSUME NEW new \in SUBSET Npcs,
               NEW talk \in {{}} \union {{p} : p \in Conversations},
               NEW turn \in BOOLEAN, Package(new \ registry, talk, turn)
        PROVE  TypeOK'
    <3>1. talk \in SUBSET Conversations
      OBVIOUS
    <3>2. registry \union (new \ registry) \in SUBSET Npcs /\ new \ registry \in SUBSET Npcs
      BY DEF TypeOK
    <3>3. beliefs' \subseteq Npcs \X Npcs \X {"event", "identity"}
      BY <2>1, <3>1, <3>2, PackageTypes DEF Package, TypeOK
    <3>4. buffered' \subseteq Pairs
      BY <2>1, <3>1, <3>2, PackageTypes DEF Package, TypeOK
    <3>5. /\ registry' \subseteq Npcs /\ prev' \subseteq Npcs
          /\ active' \subseteq Npcs /\ entered' \subseteq Npcs
      BY <2>1, <3>2 DEF Package, TypeOK
    <3>6. stage' \in Stages
      BY <2>1 DEF Package, Stages
    <3>7. packages' \in Nat
      BY <2>1 DEF Package, Ships, TypeOK
    <3>8. QED
      BY <2>1, <3>3, <3>4, <3>5, <3>6, <3>7 DEF Package, TypeOK
  <2>2. ASSUME NEW new \in SUBSET Npcs, PackageLost(new \ registry)
        PROVE  TypeOK'
    BY <2>2 DEF PackageLost, Ships, turnVars, mindVars, TypeOK
  <2>3. ASSUME NEW arrives \in BOOLEAN, SessionReset(arrives)
        PROVE  TypeOK'
    <3>1. CASE arrives
      BY <2>3, <3>1 DEF SessionReset, Ships, mindVars, TypeOK
    <3>2. CASE ~arrives
      BY <2>3, <3>2 DEF SessionReset, Ships, mindVars, TypeOK
    <3>3. QED
      BY <3>1, <3>2
  <2>4. ASSUME NEW unread, Bootstrap(unread)
        PROVE  TypeOK'
    BY <2>4 DEF Bootstrap, turnVars, TypeOK, Stages
  <2>5. ASSUME NEW unread, Recognise(unread)
        PROVE  TypeOK'
    BY <2>5 DEF Recognise, Looks, turnVars, TypeOK, Stages
  <2>6. ASSUME NEW failed, Write(failed)
        PROVE  TypeOK'
    BY <2>6 DEF Write, turnVars, mindVars, TypeOK, Stages, Pairs
  <2>7. ASSUME NEW voices, NEW failed, Respond(voices, failed)
        PROVE  TypeOK'
    BY <2>7 DEF Respond, mindVars, TypeOK, Stages
  <2>8. ASSUME NEW s \in Npcs, NEW l \in Npcs, NEW fails, TellListener(s, l, fails)
        PROVE  TypeOK'
    BY <2>8 DEF TellListener, mindVars, TypeOK, Pairs
  <2>9. ASSUME NEW fails, TellSpeaker(fails)
        PROVE  TypeOK'
    <3>1. telling \in Npcs \X Npcs
      BY <2>9 DEF TellSpeaker, TypeOK, Pairs
    <3>2. QED
      BY <2>9, <3>1 DEF TellSpeaker, Close, TypeOK, Pairs
  <2>10. CASE EndTurn
    BY <2>10 DEF EndTurn, mindVars, TypeOK, Stages
  <2>11. CASE Restart
    BY <2>11 DEF Restart, TypeOK, Stages, NoPair
  <2>12. CASE UNCHANGED vars
    BY <2>12 DEF vars, turnVars, mindVars, TypeOK
  <2>13. QED
    BY <2>1, <2>2, <2>3, <2>4, <2>5, <2>6, <2>7, <2>8, <2>9, <2>10, <2>11, <2>12
       DEF Next
<1>3. QED
  BY <1>1, <1>2, PTL DEF Spec

-----------------------------------------------------------------------------
(* What makes OnlyLossMakesStrangers inductive: without a lost package     *)
(* Progeny's last presence is Falcon's registry, or a reset or restart has *)
(* emptied it; and everyone about to look at a newcomer heard it register. *)
HeardBeforeSeen ==
  ~lost => /\ strangers = {}
           /\ prev \in {registry, {}}
           /\ stage \in {"bootstrap", "recognise"} =>
                \A p \in Looks : <<p[1], p[2], "event">> \in beliefs

(* A pair in which the observer holds a belief is not found strange. *)
LEMMA KnownIsNoStranger ==
  ASSUME NEW unread, \A p \in Looks : <<p[1], p[2], "event">> \in beliefs
  PROVE  {p \in Looks : IsStranger(p, unread)} = {}
BY DEF IsStranger, Acquainted

(* Without a lost package the stranger ledger stays empty for ever, so no  *)
(* introduction is ever due (_fire_recognition_retrieval marks nobody).    *)
THEOREM StrangersNeedALoss == Spec => []OnlyLossMakesStrangers
<1>1. Init => HeardBeforeSeen
  BY DEF Init, HeardBeforeSeen
<1>2. HeardBeforeSeen /\ [Next]_vars => HeardBeforeSeen'
  <2> SUFFICES ASSUME HeardBeforeSeen, [Next]_vars
               PROVE  HeardBeforeSeen'
    OBVIOUS
  <2>0. ASSUME ~lost' => /\ ~lost
                         /\ strangers' = strangers
                         /\ UNCHANGED <<prev, registry>>,
               stage' \notin {"bootstrap", "recognise"}
        PROVE  HeardBeforeSeen'
    BY <2>0 DEF HeardBeforeSeen
  <2>1. ASSUME NEW new \in SUBSET Npcs, NEW talk, NEW turn,
               Package(new \ registry, talk, turn)
        PROVE  HeardBeforeSeen'
    <3> SUFFICES ASSUME ~lost'
                 PROVE  /\ strangers' = {} /\ prev' = registry'
                        /\ \A p \in Looks' : <<p[1], p[2], "event">> \in beliefs'
      BY DEF HeardBeforeSeen
    <3>1. ~lost /\ strangers' = {} /\ prev' = registry'
      BY <2>1 DEF Package, HeardBeforeSeen
    <3>2. ASSUME NEW p \in Looks'
          PROVE  <<p[1], p[2], "event">> \in beliefs'
      <4>1. p[1] \in active' /\ p[1] \notin entered' /\ p[2] \in entered'
        BY <3>2 DEF Looks
      <4>2. p[1] \in prev /\ p[1] \in registry \union (new \ registry)
            /\ p[2] \in (registry \union (new \ registry)) \ prev
        BY <2>1, <4>1 DEF Package
      <4>3. prev = registry
        BY <3>1, <4>2 DEF HeardBeforeSeen
      <4>4. p[2] \in new \ registry
        BY <4>2, <4>3
      <4>5. <<p[1], p[2], "event">>
              \in Learned(registry \union (new \ registry), new \ registry)
        BY <4>2, <4>4 DEF Learned
      <4>6. QED
        BY <2>1, <4>5 DEF Package
    <3>3. QED
      BY <3>1, <3>2
  <2>2. ASSUME NEW new, PackageLost(new)
        PROVE  HeardBeforeSeen'
    BY <2>2 DEF PackageLost, HeardBeforeSeen
  <2>3. ASSUME NEW arrives, SessionReset(arrives)
        PROVE  HeardBeforeSeen'
    BY <2>3 DEF SessionReset, mindVars, HeardBeforeSeen
  <2>4. ASSUME NEW unread, Bootstrap(unread)
        PROVE  HeardBeforeSeen'
    BY <2>4 DEF Bootstrap, turnVars, Looks, HeardBeforeSeen
  <2>5. ASSUME NEW unread, Recognise(unread)
        PROVE  HeardBeforeSeen'
    <3> SUFFICES ASSUME ~lost'
                 PROVE  HeardBeforeSeen'
      BY DEF HeardBeforeSeen
    <3>1. ~lost /\ strangers = {} /\ stage = "recognise" /\ stage' = "write"
      BY <2>5 DEF Recognise, HeardBeforeSeen
    <3>2. \A p \in Looks : <<p[1], p[2], "event">> \in beliefs
      BY <3>1 DEF HeardBeforeSeen
    <3>3. {p \in Looks : IsStranger(p, unread)} = {}
      BY <3>2, KnownIsNoStranger
    <3>4. strangers' = {}
      BY <2>5, <3>1, <3>3 DEF Recognise
    <3>5. QED
      BY <2>0, <2>5, <3>1, <3>4 DEF Recognise
  <2>6. ASSUME NEW failed, Write(failed)
        PROVE  HeardBeforeSeen'
    BY <2>0, <2>6 DEF Write, mindVars
  <2>7. ASSUME NEW voices, NEW failed, Respond(voices, failed)
        PROVE  HeardBeforeSeen'
    BY <2>0, <2>7 DEF Respond, mindVars
  <2>8. ASSUME NEW s, NEW l, NEW fails, TellListener(s, l, fails)
        PROVE  HeardBeforeSeen'
    BY <2>0, <2>8 DEF TellListener, mindVars
  <2>9. ASSUME NEW fails, TellSpeaker(fails)
        PROVE  HeardBeforeSeen'
    BY <2>9 DEF TellSpeaker, Close, HeardBeforeSeen
  <2>10. CASE EndTurn
    BY <2>0, <2>10 DEF EndTurn, mindVars
  <2>11. CASE Restart
    BY <2>11 DEF Restart, HeardBeforeSeen
  <2>12. CASE UNCHANGED vars
    BY <2>12 DEF vars, turnVars, mindVars, Looks, HeardBeforeSeen
  <2>13. QED
    BY <2>1, <2>2, <2>3, <2>4, <2>5, <2>6, <2>7, <2>8, <2>9, <2>10, <2>11, <2>12
       DEF Next
<1>3. HeardBeforeSeen => OnlyLossMakesStrangers
  BY DEF HeardBeforeSeen, OnlyLossMakesStrangers
<1>4. QED
  BY <1>1, <1>2, <1>3, PTL DEF Spec

-----------------------------------------------------------------------------
(* What makes IntroducedForGood inductive: whoever was introduced, to or   *)
(* by another, remembers something, and so does the listener of the        *)
(* introduction under way; memories outlive restarts.                      *)
BothHaveAPast ==
  /\ IntroducedForGood
  /\ \A p \in introduced : Remembers(p[1]) /\ Remembers(p[2])
  /\ telling # NoPair => Remembers(telling[2])

(* Qdrant loses nothing: who remembers goes on remembering. *)
LEMMA MemoriesGrow ==
  ASSUME memories \subseteq memories', NEW n, Remembers(n)
  PROVE  \E m \in memories' : m[1] = n
BY DEF Remembers

(* Two who were introduced are never marked as strangers again, over       *)
(* presence changes, session resets and restarts, while Qdrant takes every *)
(* write and answers every query.                                          *)
THEOREM IntroducedStayKnown ==
  ASSUME ~WritesFail, ~ReadsFail
  PROVE  Spec => []IntroducedForGood
<1>1. Init => BothHaveAPast
  BY DEF Init, BothHaveAPast, IntroducedForGood
<1>2. BothHaveAPast /\ [Next]_vars => BothHaveAPast'
  <2> SUFFICES ASSUME BothHaveAPast, [Next]_vars
               PROVE  BothHaveAPast'
    OBVIOUS
  <2>0. ASSUME memories \subseteq memories', strangers' \subseteq strangers,
               UNCHANGED introduced,
               telling' = telling \/ telling' = NoPair
        PROVE  BothHaveAPast'
    <3>1. IntroducedForGood'
      BY <2>0 DEF BothHaveAPast, IntroducedForGood
    <3>2. \A p \in introduced' : /\ \E m \in memories' : m[1] = p[1]
                                 /\ \E m \in memories' : m[1] = p[2]
      BY <2>0, MemoriesGrow DEF BothHaveAPast
    <3>3. telling' # NoPair => \E m \in memories' : m[1] = telling'[2]
      BY <2>0, MemoriesGrow DEF BothHaveAPast
    <3>4. QED
      BY <3>1, <3>2, <3>3 DEF BothHaveAPast, Remembers
  <2>1. ASSUME NEW new, NEW talk, NEW turn, Package(new, talk, turn)
        PROVE  BothHaveAPast'
    BY <2>0, <2>1 DEF Package
  <2>2. ASSUME NEW new, PackageLost(new)
        PROVE  BothHaveAPast'
    BY <2>0, <2>2 DEF PackageLost, turnVars, mindVars
  <2>3. ASSUME NEW arrives, SessionReset(arrives)
        PROVE  BothHaveAPast'
    BY <2>0, <2>3 DEF SessionReset, mindVars
  <2>4. ASSUME NEW unread, Bootstrap(unread)
        PROVE  BothHaveAPast'
    BY <2>0, <2>4 DEF Bootstrap, turnVars
  <2>5. ASSUME NEW unread \in Upto(ReadsFail, Looks), Recognise(unread)
        PROVE  BothHaveAPast'
    <3>1. unread = {}
      BY <2>5, UptoSubset, AcquaintanceAssumption
    <3>2. UNCHANGED <<memories, introduced, telling>>
      BY <2>5 DEF Recognise, turnVars
    <3>3. ASSUME NEW p \in introduced
          PROVE  p \notin strangers' /\ Flip(p) \notin strangers'
      <4>1. Remembers(p[1]) /\ Remembers(Flip(p)[1])
        BY <3>3 DEF BothHaveAPast, Flip
      <4>2. p \notin strangers /\ Flip(p) \notin strangers
        BY <3>3 DEF BothHaveAPast, IntroducedForGood
      <4>3. ~IsStranger(p, unread) /\ ~IsStranger(Flip(p), unread)
        BY <3>1, <4>1 DEF IsStranger
      <4>4. QED
        BY <2>5, <4>2, <4>3 DEF Recognise
    <3>4. IntroducedForGood'
      BY <3>2, <3>3 DEF IntroducedForGood
    <3>5. QED
      BY <3>2, <3>4 DEF BothHaveAPast, Remembers
  <2>6. ASSUME NEW failed, Write(failed)
        PROVE  BothHaveAPast'
    BY <2>0, <2>6 DEF Write, turnVars, mindVars
  <2>7. ASSUME NEW voices, NEW failed, Respond(voices, failed)
        PROVE  BothHaveAPast'
    BY <2>0, <2>7 DEF Respond, mindVars
  <2>8. ASSUME NEW s \in Npcs, NEW l \in Npcs, NEW fails \in {FALSE, WritesFail},
               TellListener(s, l, fails)
        PROVE  BothHaveAPast'
    <3>1. ~fails
      BY <2>8
    <3>2. memories' = memories \union {<<l, s>>} /\ telling' = <<s, l>>
      BY <2>8, <3>1 DEF TellListener
    <3>3. UNCHANGED <<strangers, introduced>>
      BY <2>8 DEF TellListener, mindVars
    <3>4. \E m \in memories' : m[1] = telling'[2]
      <4>1. <<l, s>> \in memories' /\ telling'[2] = l
        BY <3>2
      <4>2. QED
        BY <4>1
    <3>5. \A p \in introduced' : /\ \E m \in memories' : m[1] = p[1]
                                 /\ \E m \in memories' : m[1] = p[2]
      BY <3>2, <3>3, MemoriesGrow DEF BothHaveAPast
    <3>6. QED
      BY <3>3, <3>4, <3>5 DEF BothHaveAPast, IntroducedForGood, Remembers
  <2>9. ASSUME NEW fails \in {FALSE, WritesFail}, TellSpeaker(fails)
        PROVE  BothHaveAPast'
    <3>1. ~fails
      BY <2>9
    <3>2. /\ memories' = memories \union {<<telling[1], telling[2]>>}
          /\ introduced' = introduced \union {telling}
          /\ strangers' = strangers \ {telling, Flip(telling)}
          /\ telling' = NoPair /\ telling # NoPair
      BY <2>9, <3>1 DEF TellSpeaker, Close
    <3>3. memories \subseteq memories'
      BY <3>2
    <3>4. /\ \E m \in memories' : m[1] = telling[1]
          /\ \E m \in memories' : m[1] = telling[2]
      BY <3>2, <3>3, MemoriesGrow DEF BothHaveAPast
    <3>5. \A p \in introduced' : /\ \E m \in memories' : m[1] = p[1]
                                 /\ \E m \in memories' : m[1] = p[2]
      BY <3>2, <3>3, <3>4, MemoriesGrow DEF BothHaveAPast
    <3>6. IntroducedForGood'
      BY <3>2 DEF BothHaveAPast, IntroducedForGood
    <3>7. QED
      BY <3>2, <3>5, <3>6 DEF BothHaveAPast, Remembers
  <2>10. CASE EndTurn
    BY <2>0, <2>10 DEF EndTurn, mindVars
  <2>11. CASE Restart
    BY <2>0, <2>11 DEF Restart
  <2>12. CASE UNCHANGED vars
    BY <2>0, <2>12 DEF vars, turnVars, mindVars
  <2>13. QED
    BY <2>1, <2>2, <2>3, <2>4, <2>5, <2>6, <2>7, <2>8, <2>9, <2>10, <2>11, <2>12
       DEF Next
<1>3. BothHaveAPast => IntroducedForGood
  BY DEF BothHaveAPast
<1>4. QED
  BY <1>1, <1>2, <1>3, PTL DEF Spec
=============================================================================
