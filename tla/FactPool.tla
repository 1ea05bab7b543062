------------------------------ MODULE FactPool ------------------------------
(***************************************************************************)
(* Progeny's fact pool (progeny/src/fact_pool.py): facts tagged with the   *)
(* set of characters who know them, as bits of a per-name index, facts     *)
(* that supersede others, and the queries that cut the pool into what a    *)
(* scene shares and what an agent keeps to itself.                         *)
(*                                                                         *)
(* A Python integer is unbounded: a bit vector is the set of its positions. *)
(* A fact's id is a uuid, here the next number, except that an identity    *)
(* fact's id is made from its speaker and listener (progeny/src/           *)
(* disclosure.py) and may be added again.  The ids grow with game_ts.      *)
(***************************************************************************)
EXTENDS Integers, Sequences, FiniteSets

CONSTANTS
  Npcs,            \* character names other than the player's
  MaxFacts,        \* bound: uuid ids
  MaxTold          \* bound: introductions

Player == "Player"
Names == Npcs \union {Player}
Categories == {"event", "lore", "identity"}

Uuid == "uuid"
ASSUME PoolAssumption == /\ {Player, Uuid} \intersect Npcs = {}
                         /\ IsFiniteSet(Npcs)
                         /\ MaxFacts \in Nat /\ MaxTold \in Nat

Id(k) == <<Uuid, k>>                     \* the k-th uuid
None == Id(0)                            \* superseded_by is None
NumberedIds == {Id(k) : k \in 1..MaxFacts}
IdentityIds == {<<s, l>> : s \in Npcs, l \in Npcs}
FactIds == NumberedIds \union IdentityIds

VARIABLES
  bitOf,           \* bit_index._name_to_bit, a partial function
  nextBit,         \* bit_index._next_bit
  facts,           \* _facts: id -> category, knowledge bits, superseded_by
  byCategory,      \* _by_category
  made,            \* uuid ids handed out
  met              \* history: the NPCs ingest has found active

poolVars == <<bitOf, nextBit, facts, byCategory, made, met>>

Registered == DOMAIN bitOf
Fact == [category : Categories, bits : SUBSET Nat,
         supersededBy : NumberedIds \union {None}]

Init ==
  /\ bitOf = [n \in {Player} |-> 0]
  /\ nextBit = 1
  /\ facts = [i \in {} |-> None]
  /\ byCategory = [c \in Categories |-> <<>>]
  /\ made = 0
  /\ met = {}

-----------------------------------------------------------------------------
(* get_or_assign for each of the names, in any order: the new ones take    *)
(* the next positions.                                                     *)
Newcomers(names) == names \ Registered
MutPositionsLow(names) == (nextBit - 1)..(nextBit + Cardinality(Newcomers(names)) - 2)
Positions(names) == nextBit..(nextBit + Cardinality(Newcomers(names)) - 1)
Assignments(names) ==
  {b \in [Newcomers(names) -> Positions(names)] :
     \A m, n \in Newcomers(names) : b[m] = b[n] => m = n}
Extended(b) == [n \in Registered \union DOMAIN b |->
                  IF n \in Registered THEN bitOf[n] ELSE b[n]]
Assign(names, b) ==
  /\ b \in Assignments(names)
  /\ bitOf' = Extended(b)
  /\ nextBit' = nextBit + Cardinality(Newcomers(names))

(* mask_for_all, after the assignment b *)
Mask(names, b) == {Extended(b)[n] : n \in names}

(* The dictionary entry of a new fact; an id that is there is overwritten, *)
(* the category's list is appended to either way.                          *)
WithFact(id, category, bits) ==
  [i \in DOMAIN facts \union {id} |->
     IF i = id THEN [category |-> category, bits |-> bits, supersededBy |-> None]
               ELSE facts[i]]
Listed(id, category) == [byCategory EXCEPT ![category] = Append(@, id)]

(* add_fact *)
AddFact(knowers) ==
  /\ made < MaxFacts
  /\ made' = made + 1
  /\ \E b \in Assignments(knowers) :
       /\ Assign(knowers, b)
       /\ facts' = WithFact(Id(made + 1), "event", Mask(knowers, b))
  /\ byCategory' = Listed(Id(made + 1), "event")
  /\ UNCHANGED met

(* add_fact with the id of an introduction: both parties know it *)
AddIdentity(speaker, listener) ==
  /\ speaker # listener
  /\ Len(byCategory["identity"]) < MaxTold
  /\ \E b \in Assignments({speaker, listener}) :
       /\ Assign({speaker, listener}, b)
       /\ facts' = WithFact(<<speaker, listener>>, "identity",
                            Mask({speaker, listener}, b))
  /\ byCategory' = Listed(<<speaker, listener>>, "identity")
  /\ UNCHANGED <<made, met>>

(* add_lore: known to everyone who has a bit *)
AddLore ==
  /\ made < MaxFacts
  /\ made' = made + 1
  /\ facts' = WithFact(Id(made + 1), "lore", {bitOf[n] : n \in Registered})
  /\ byCategory' = Listed(Id(made + 1), "lore")
  /\ UNCHANGED <<bitOf, nextBit, met>>

(* EventAccumulator.ingest for an active NPC: one that has no bit gets one, *)
(* and all lore (ensure_lore_bits); one that has a bit gets nothing.       *)
RegisterActive(n) ==
  /\ n \notin met
  /\ met' = met \union {n}
  /\ IF n \in Registered THEN UNCHANGED <<bitOf, nextBit, facts>>
     ELSE \E b \in Assignments({n}) :
       /\ Assign({n}, b)
       /\ facts' = [i \in DOMAIN facts |->
                      IF facts[i].category = "lore"
                        THEN [facts[i] EXCEPT !.bits = @ \union Mask({n}, b)]
                        ELSE facts[i]]
  /\ UNCHANGED <<byCategory, made>>

(* propagate_presence, propagate_earshot; propagate_speech for one fact:   *)
(* the listeners learn the fact, and get bits if they had none.  The one   *)
(* call is made on a fact that ingest has just added, never on an          *)
(* introduction.                                                           *)
Propagate(id, listeners) ==
  /\ id \in DOMAIN facts \intersect NumberedIds
  /\ \E b \in Assignments(listeners) :
       /\ Assign(listeners, b)
       /\ facts' = [facts EXCEPT ![id].bits = @ \union Mask(listeners, b)]
  /\ UNCHANGED <<byCategory, made, met>>

MutSupersedeMoves(old, knowers) ==         \* who learns the new one drops the old
  /\ old \in DOMAIN facts
  /\ made < MaxFacts
  /\ made' = made + 1
  /\ \E b \in Assignments(knowers) :
       /\ Assign(knowers, b)
       /\ facts' = [WithFact(Id(made + 1), facts[old].category, Mask(knowers, b))
                      EXCEPT ![old].supersededBy = Id(made + 1),
                             ![old].bits = @ \ Mask(knowers, b)]
  /\ byCategory' = Listed(Id(made + 1), facts[old].category)
  /\ UNCHANGED met

(* supersede: a new fact of the same category; who knew the old one keeps it *)
Supersede(old, knowers) ==
  /\ old \in DOMAIN facts
  /\ made < MaxFacts
  /\ made' = made + 1
  /\ \E b \in Assignments(knowers) :
       /\ Assign(knowers, b)
       /\ facts' = [WithFact(Id(made + 1), facts[old].category, Mask(knowers, b))
                      EXCEPT ![old].supersededBy = Id(made + 1)]
  /\ byCategory' = Listed(Id(made + 1), facts[old].category)
  /\ UNCHANGED met

Next ==
  \/ \E K \in SUBSET Names : AddFact(K)
  \/ \E s, l \in Npcs : AddIdentity(s, l)
  \/ AddLore
  \/ \E n \in Npcs : RegisterActive(n)
  \/ \E id \in DOMAIN facts, L \in SUBSET Npcs : Propagate(id, L)
  \/ \E id \in DOMAIN facts, K \in SUBSET Names : Supersede(id, K)

Spec == Init /\ [][Next]_poolVars

-----------------------------------------------------------------------------
(* The queries, as the sets of the facts they return, without their limit. *)
Knows(n, id) == n \in Registered /\ bitOf[n] \in facts[id].bits
AllKnow(P, id) == \A n \in P : Knows(n, id)

(* a fact hidden by its replacement from those who know the replacement *)
Replaced(P, id) == /\ facts[id].supersededBy # None
                   /\ AllKnow(P, facts[id].supersededBy)

MutQuery(n) ==                             \* every superseded fact is hidden
  {id \in DOMAIN facts : Knows(n, id) /\ facts[id].supersededBy = None}
Query(n) == {id \in DOMAIN facts : Knows(n, id) /\ ~Replaced({n}, id)}
QueryShared(P) == {id \in DOMAIN facts : AllKnow(P, id) /\ ~Replaced(P, id)}
QueryPrivate(n, P) ==
  {id \in DOMAIN facts : Knows(n, id) /\ ~AllKnow(P, id) /\ ~Replaced({n}, id)}
KnowersOf(id) == {n \in Registered : bitOf[n] \in facts[id].bits}

-----------------------------------------------------------------------------
TypeOK ==
  /\ Registered \subseteq Names
  /\ bitOf \in [Registered -> Nat]
  /\ nextBit \in Nat
  /\ DOMAIN facts \subseteq FactIds
  /\ facts \in [DOMAIN facts -> Fact]
  /\ byCategory \in [Categories -> Seq(FactIds)]
  /\ made \in 0..MaxFacts
  /\ met \subseteq Npcs

(* A bit names one character for good: no two names share a position, the  *)
(* player keeps position 0, and the next position is free, so no fact      *)
(* already carries the bit a newcomer is about to get (NpcBitIndex).       *)
BitsNameOneCharacter ==
  /\ Player \in Registered /\ bitOf[Player] = 0
  /\ \A m, n \in Registered : bitOf[m] = bitOf[n] => m = n
  /\ \A n \in Registered : bitOf[n] < nextBit
  /\ \A id \in DOMAIN facts : \A k \in facts[id].bits : k < nextBit

(* all_names() indexes every position below the next: there is no gap.     *)
BitsDense == \A k \in 0..(nextBit - 1) : \E n \in Registered : bitOf[n] = k

(* Nobody ever forgets a fact, and no fact leaves the pool: what a         *)
(* character knew it knows after any step, including one that supersedes   *)
(* the fact or adds it again under its deterministic id.                   *)
NobodyForgets ==
  [][\A id \in DOMAIN facts :
       /\ id \in DOMAIN facts'
       /\ KnowersOf(id) \subseteq KnowersOf(id)']_poolVars

(* A supersession points to a later fact that is there, of the same        *)
(* category: the chain that queries follow ends.                           *)
SupersededByLater ==
  \A id \in DOMAIN facts :
    LET new == facts[id].supersededBy IN
      new # None => /\ new \in DOMAIN facts
                    /\ facts[new].category = facts[id].category
                    /\ id \in NumberedIds => id[2] < new[2]

(* A scene's context loses and repeats nothing: what a member of the scene *)
(* knows of the facts nobody has replaced is what the scene shares or what *)
(* it keeps private, never both (prompt layers 1a and 2).                  *)
Current(S) == {id \in S : facts[id].supersededBy = None}
SharedOrPrivate ==
  \A P \in SUBSET Names : \A n \in P :
    /\ Current(QueryShared(P)) \union Current(QueryPrivate(n, P)) = Current(Query(n))
    /\ QueryShared(P) \intersect QueryPrivate(n, P) = {}

(* A belief is replaced, never lost: whoever knows a version of a fact is  *)
(* shown that version or a later one, however many supersessions it has    *)
(* and has not heard of (query).                                           *)
ClosedUnderReplacement(S) == \A id \in S : facts[id].supersededBy \in S \union {None}
LaterVersions(id) ==
  {new \in DOMAIN facts :
     \A S \in SUBSET DOMAIN facts :
       id \in S /\ ClosedUnderReplacement(S) => new \in S}
NoBeliefVanishes ==
  \A n \in Registered : \A id \in DOMAIN facts :
    Knows(n, id) => LaterVersions(id) \intersect Query(n) # {}

(* What every state of the pool satisfies: types, the bit index, the order *)
(* of supersession, and the split of a scene's context.                    *)
PoolInvariant ==
  TypeOK /\ BitsNameOneCharacter /\ BitsDense /\ SupersededByLater /\ SharedOrPrivate

-----------------------------------------------------------------------------
(* What the documentation says, and the code does not do.                  *)

(* add_lore: "Lore is known by everyone"; ingest: "Register new NPCs in     *)
(* fact pool and give them lore".  A bit assigned to a knower, a companion *)
(* in earshot or a listener comes without the lore, and ingest then takes  *)
(* that NPC for one that has been given it.                                *)
Replacements == {facts[id].supersededBy : id \in DOMAIN facts}
LoreIsUniversal ==
  \A id \in DOMAIN facts \ Replacements :
    facts[id].category = "lore" => met \subseteq KnowersOf(id)

(* disclosure.py: "a retelling upserts the same points and reinforces      *)
(* rather than duplicates": the category's list has each fact once.        *)
ListedOnce ==
  \A c \in Categories : \A j, k \in DOMAIN byCategory[c] :
    byCategory[c][j] = byCategory[c][k] => j = k
=============================================================================
