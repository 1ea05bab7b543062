---------------------------- MODULE Acquaintance ----------------------------
(***************************************************************************)
(* Who knows whom: Falcon's NPC registry and the packages that carry it,   *)
(* the beliefs Progeny's fact pool takes from their events, the memories   *)
(* in Qdrant, the stranger ledger (progeny/src/acquaintance.py) and the    *)
(* introductions that clear it (progeny/src/disclosure.py), as a turn of   *)
(* progeny/api/routes.py runs through them under the pipeline lock.        *)
(*                                                                         *)
(* A text is the NPCs it mentions.  The affect of a memory, the valence of *)
(* an approach and lore (nothing in src/ adds any) are left out.           *)
(***************************************************************************)
EXTENDS Naturals

CONSTANTS
  Npcs,
  NoOne,           \* what a memory is about that mentions no other NPC
  Seeded,          \* the NPCs that skyrim_npc_profiles has a profile of
  Conversations,   \* <<speaker, listener>> of the chat lines the game sends
  MaxPackages,     \* bound: packages Falcon ships, and session resets
  PackagesLost,    \* may Falcon drop a package (no link)?
  WritesFail,      \* may Qdrant refuse a write?
  ReadsFail,       \* may Qdrant fail to answer a query?
  Restarts         \* may Progeny restart?

ASSUME AcquaintanceAssumption ==
  /\ NoOne \notin Npcs
  /\ Seeded \subseteq Npcs
  /\ Conversations \subseteq {p \in Npcs \X Npcs : p[1] # p[2]}
  /\ MaxPackages \in Nat
  /\ {PackagesLost, WritesFail, ReadsFail, Restarts} \subseteq BOOLEAN

Pairs == Npcs \X Npcs
NoPair == <<NoOne, NoOne>>
Flip(p) == <<p[2], p[1]>>
Stages == {"idle", "bootstrap", "recognise", "write", "respond", "introduce"}

VARIABLES
  registry,        \* Falcon: the NPCs every package lists
  prev,            \* _prev_active_npc_ids
  active,          \* active_npc_ids of the package in hand
  entered,         \* its presence_changes.entered
  buffered,        \* RAW texts in the agents' buffers: <<agent, about>>
  beliefs,         \* the fact pool: <<observer, subject, category>>
  strangers,       \* _strangers: <<observer, subject>>
  kernels,         \* the cached identity kernels: none, empty or loaded
  memories,        \* Qdrant, skyrim_npc_memories: <<agent, about>>
  stage,           \* where the pipeline is
  spoke,           \* the agents whose response has an utterance
  telling,         \* the introduction whose second write is under way
  introduced,      \* history: <<speaker, listener>> of the introductions made
  lost,            \* history: has Falcon dropped a package?
  packages         \* packages so far

turnVars == <<active, entered, spoke, telling>>
mindVars == <<beliefs, strangers, kernels>>
vars == <<registry, prev, turnVars, buffered, mindVars, memories, stage,
          introduced, lost, packages>>

Init ==
  /\ registry = {} /\ prev = {} /\ active = {} /\ entered = {}
  /\ buffered = {} /\ beliefs = {} /\ strangers = {}
  /\ kernels = [n \in Npcs |-> "none"]
  /\ memories = {}
  /\ stage = "idle" /\ spoke = {} /\ telling = NoPair
  /\ introduced = {} /\ lost = FALSE /\ packages = 0

-----------------------------------------------------------------------------
(* Whom o holds a belief about, and whether o remembers anything at all.   *)
Acquainted(o, s) == \E c \in {"event", "identity"} : <<o, s, c>> \in beliefs
Remembers(o) == \E m \in memories : m[1] = o

(* What everyone present learns from an event: whom its text mentions.     *)
MutLearned(here, mentioned) ==     \* only those the event is about learn it
  {<<o, s, "event">> : o \in mentioned, s \in mentioned}
Learned(here, mentioned) == {<<o, s, "event">> : o \in here, s \in mentioned}

MutRouted(new, talk) ==            \* the listener keeps nobody's name
  {<<n, n>> : n \in new} \union talk \union {<<p[2], NoOne>> : p \in talk}

(* _extract_agent_ids: a registration goes to its NPC's buffer, a chat     *)
(* line to both sides'.                                                    *)
Routed(new, talk) ==
  {<<n, n>> : n \in new} \union talk \union {Flip(p) : p \in talk}

Ships ==
  /\ packages < MaxPackages
  /\ packages' = packages + 1

(* Falcon ships a package: the registrations since the last one, perhaps a *)
(* chat line.  With player input in it Progeny begins a turn.              *)
Package(new, talk, turn) ==
  LET here == registry \union new IN
  /\ stage = "idle" /\ Ships
  /\ registry' = here
  /\ active' = here
  /\ entered' = here \ prev
  /\ prev' = here
  /\ beliefs' = beliefs \union Learned(here, new)
                  \union UNION {Learned(here, {p[1], p[2]}) : p \in talk}
  /\ buffered' = buffered \union Routed(new, talk)
  /\ stage' = IF turn THEN "bootstrap" ELSE "idle"
  /\ UNCHANGED <<strangers, kernels, memories, spoke, telling, introduced, lost>>

(* send_tick without a link: the registry keeps what Progeny never hears.  *)
PackageLost(new) ==
  /\ PackagesLost
  /\ stage = "idle" /\ Ships
  /\ registry' = registry \union new
  /\ lost' = TRUE
  /\ UNCHANGED <<prev, turnVars, buffered, mindVars, memories, stage, introduced>>

(* init or wipe: Falcon clears its registry and forwards the event;        *)
(* _handle_reset drops the buffers and the last presence, and neither the  *)
(* beliefs nor the ledger.                                                 *)
SessionReset(arrives) ==
  /\ stage = "idle" /\ Ships
  /\ registry' = {}
  /\ IF arrives THEN /\ prev' = {} /\ active' = {} /\ entered' = {} \ prev
                     /\ buffered' = {}
                     /\ UNCHANGED lost
                ELSE /\ PackagesLost
                     /\ lost' = TRUE
                     /\ UNCHANGED <<prev, active, entered, buffered>>
  /\ UNCHANGED <<spoke, telling, mindVars, memories, stage, introduced>>

-----------------------------------------------------------------------------
(* A kernel for each agent that has none: read_profile answers a failed    *)
(* query as it does a missing profile, so both are cached as empty.        *)
Bootstrap(unread) ==
  /\ stage = "bootstrap"
  /\ kernels' = [n \in Npcs |->
                   IF n \notin active \/ kernels[n] # "none" THEN kernels[n]
                   ELSE IF n \in Seeded \ unread THEN "loaded" ELSE "empty"]
  /\ stage' = IF entered # {} THEN "recognise" ELSE "write"
  /\ UNCHANGED <<registry, prev, turnVars, buffered, beliefs, strangers, memories,
                 introduced, lost, packages>>

(* Those who were there look at the newcomers.                             *)
Looks == {p \in Pairs : p[1] \in active \ entered /\ p[2] \in entered}

(* What is found is any memory of the observer: the referents of a query   *)
(* raise scores and filter nothing; a failed search finds nothing.         *)
IsStranger(p, unread) ==
  /\ p \in unread \/ ~Remembers(p[1])
  /\ ~Acquainted(p[1], p[2])

(* _fire_recognition_retrieval *)
Recognise(unread) ==
  /\ stage = "recognise"
  /\ strangers' = (strangers \ Looks) \union {p \in Looks : IsStranger(p, unread)}
  /\ stage' = "write"
  /\ UNCHANGED <<registry, prev, turnVars, buffered, beliefs, kernels, memories,
                 introduced, lost, packages>>

(* The RAW writes of what the turn took from the buffers.                  *)
Write(failed) ==
  /\ stage = "write"
  /\ memories' = memories \union (buffered \ failed)
  /\ buffered' = {}
  /\ stage' = "respond"
  /\ UNCHANGED <<registry, prev, turnVars, mindVars, introduced, lost, packages>>

(* The agents that speak, and the memories of what they said.              *)
Respond(voices, failed) ==
  /\ stage = "respond"
  /\ voices \subseteq active
  /\ spoke' = voices
  /\ memories' = memories \union {<<a, NoOne>> : a \in voices \ failed}
  /\ stage' = "introduce"
  /\ UNCHANGED <<registry, prev, active, entered, telling, buffered, mindVars,
                 introduced, lost, packages>>

Due(s, l) == <<s, l>> \in strangers \/ <<l, s>> \in strangers

(* _propagate_disclosures reaches a speaker and a listener of which one is *)
(* a stranger to the other: the listener's hearsay memory is written.      *)
TellListener(s, l, fails) ==
  /\ stage = "introduce" /\ telling = NoPair
  /\ s \in spoke /\ kernels[s] # "none"
  /\ l \in active \ {s}
  /\ Due(s, l)
  /\ memories' = IF fails THEN memories ELSE memories \union {<<l, s>>}
  /\ telling' = <<s, l>>
  /\ UNCHANGED <<registry, prev, active, entered, spoke, buffered, mindVars, stage,
                 introduced, lost, packages>>

MutClose(p) == strangers' = strangers \ {p}    \* one way
Close(p) == strangers' = strangers \ {p, Flip(p)}

(* The speaker's own memory of it, then the belief both hold about the     *)
(* speaker and the ledger.                                                 *)
TellSpeaker(fails) ==
  LET s == telling[1] l == telling[2] IN
  /\ stage = "introduce" /\ telling # NoPair
  /\ memories' = IF fails THEN memories ELSE memories \union {<<s, l>>}
  /\ beliefs' = beliefs \union {<<s, s, "identity">>, <<l, s, "identity">>}
  /\ Close(telling)
  /\ introduced' = introduced \union {telling}
  /\ telling' = NoPair
  /\ UNCHANGED <<registry, prev, active, entered, spoke, buffered, kernels, stage,
                 lost, packages>>

(* Nobody is left to introduce: the turn goes on to its end.               *)
EndTurn ==
  /\ stage = "introduce" /\ telling = NoPair
  /\ \A s \in spoke : kernels[s] # "none" => \A l \in active \ {s} : ~Due(s, l)
  /\ stage' = "idle"
  /\ spoke' = {}
  /\ UNCHANGED <<registry, prev, active, entered, telling, buffered, mindVars,
                 memories, introduced, lost, packages>>

(* Progeny restarts: what is not in Qdrant is gone.                        *)
Restart ==
  /\ Restarts
  /\ prev' = {} /\ active' = {} /\ entered' = {} /\ spoke' = {} /\ telling' = NoPair
  /\ buffered' = {} /\ beliefs' = {} /\ strangers' = {}
  /\ kernels' = [n \in Npcs |-> "none"]
  /\ stage' = "idle"
  /\ UNCHANGED <<registry, memories, introduced, lost, packages>>

-----------------------------------------------------------------------------
Upto(failing, S) == IF failing THEN SUBSET S ELSE {{}}

Next ==
  \/ \E new \in SUBSET Npcs :
       \/ \E talk \in {{}} \union {{p} : p \in Conversations}, turn \in BOOLEAN :
            Package(new \ registry, talk, turn)
       \/ PackageLost(new \ registry)
  \/ \E arrives \in BOOLEAN : SessionReset(arrives)
  \/ \E unread \in Upto(ReadsFail, active) : Bootstrap(unread)
  \/ \E unread \in Upto(ReadsFail, Looks) : Recognise(unread)
  \/ \E failed \in Upto(WritesFail, buffered) : Write(failed)
  \/ \E voices \in SUBSET active : \E failed \in Upto(WritesFail, voices) :
       Respond(voices, failed)
  \/ \E s, l \in Npcs : \E fails \in {FALSE, WritesFail} : TellListener(s, l, fails)
  \/ \E fails \in {FALSE, WritesFail} : TellSpeaker(fails)
  \/ EndTurn
  \/ Restart

Spec == Init /\ [][Next]_vars

-----------------------------------------------------------------------------
(* Every variable has its type. *)
TypeOK ==
  /\ registry \subseteq Npcs /\ prev \subseteq Npcs /\ active \subseteq Npcs
  /\ entered \subseteq Npcs /\ spoke \subseteq Npcs
  /\ kernels \in [Npcs -> {"none", "empty", "loaded"}]
  /\ buffered \subseteq Pairs
  /\ beliefs \subseteq Npcs \X Npcs \X {"event", "identity"}
  /\ strangers \subseteq Pairs
  /\ memories \subseteq Npcs \X (Npcs \union {NoOne})
  /\ stage \in Stages
  /\ telling \in Pairs \union {NoPair}
  /\ introduced \subseteq Pairs
  /\ lost \in BOOLEAN /\ packages \in Nat

(* Two who were introduced are strangers to each other never again, over   *)
(* presence changes, session resets and restarts of Progeny, as long as    *)
(* Qdrant answers (the promise of disclosure.py and of section 6e).        *)
IntroducedForGood ==
  \A p \in introduced : p \notin strangers /\ Flip(p) \notin strangers

(* Without a lost package nobody is ever a stranger: an NPC becomes active *)
(* with the registration in the same package, and its text is a belief of  *)
(* everyone present before they look at the newcomer.  So the ledger, the  *)
(* get-acquainted goal and the introductions wait for a lost package.      *)
OnlyLossMakesStrangers == ~lost => strangers = {}

-----------------------------------------------------------------------------
(* What the documentation says, and the code does not do.                  *)

(* acquaintance.py lines 11-14 and _fire_recognition_retrieval: strangers  *)
(* are detected by memories "of them" ("referent-filtered retrieval"): one *)
(* who was looked at and of whom the observer has neither a memory nor a   *)
(* belief is a stranger.                                                   *)
UnknownIsStranger ==
  [][stage = "recognise" /\ stage' = "write" =>
       \A p \in Looks : p \notin memories /\ ~Acquainted(p[1], p[2])
                          => p \in strangers']_vars

(* Living Doc line 2585, "NPCs start as strangers", and acquaintance.py    *)
(* lines 11-14, "no identity facts, no reputation-lore": a newcomer that   *)
(* nobody has met, spoken to or been told about is a stranger.             *)
FirstSightIsStrange ==
  [][stage = "recognise" /\ stage' = "write" =>
       \A p \in Looks : /\ ~Remembers(p[1])
                        /\ <<p[1], p[2], "identity">> \notin beliefs
                        => p \in strangers']_vars

(* Living Doc line 2600: after an introduction "are_acquainted is true in  *)
(* both directions".                                                       *)
AcquaintedBothWays ==
  [][\A p \in introduced' \ introduced : \A a \in {p, Flip(p)} :
       \E c \in {"event", "identity"} : <<a[1], a[2], c>> \in beliefs']_vars

(* disclosure.py lines 5-6: an introduction "leaves a memory in both       *)
(* minds".                                                                 *)
BothRemember == \A p \in introduced : p \in memories /\ Flip(p) \in memories

(* _bootstrap_identities_for_new_npcs, "A transient Qdrant error is left   *)
(* uncached so the next tick can retry": only an NPC that the seed does    *)
(* not have is cached without an identity.                                 *)
EmptyWithoutProfile == \A n \in Seeded : kernels[n] # "empty"

(* clear_stranger, "Drop the stranger mark once acquaintance is            *)
(* established": between turns nobody is marked whom the observer knows.   *)
MarksAreCurrent ==
  stage = "idle" => \A p \in strangers : ~Acquainted(p[1], p[2])
=============================================================================
