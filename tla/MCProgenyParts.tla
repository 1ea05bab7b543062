--------------------------- MODULE MCProgenyParts ---------------------------
(* Small instances of the parts. *)
EXTENDS ProgenyParts

(* Two characters next to the player; three facts in a chain of            *)
(* supersessions: two that are made, and one that two introductions tell.  *)
CONSTANTS eve, fox
Characters == {eve, fox}

(* Three agents, one of them always near; scenes within the cap of two and *)
(* beyond it; the code's cadences with 4 for 16, so that the last tier is  *)
(* due again within the bound.                                             *)
CONSTANTS ann, bob, cid
Trio == {ann, bob, cid}
ListsOfActive == {<<ann>>, <<bob, ann>>, <<bob, cid, ann>>}
At(ring) == [ring |-> ring, collaborating |-> FALSE, volatile |-> FALSE]
Knowledge == {At(0), At(3), [At(3) EXCEPT !.volatile = TRUE, !.collaborating = TRUE]}
Cadences == [t \in 0..3 |-> IF t = 3 THEN 4 ELSE 2^t]

(* Three alternatives of one parent; activations below, between and above  *)
(* the thresholds, within the switch margin of each other and not.         *)
Alternatives == [g \in 1..NumGoals |-> 0]
Activations == {3, 6, 7, 9}

(* Two memories from the two ends of the line; the middle resolves, the    *)
(* far end stalls, and the mind may turn in between.                       *)
CONSTANTS m1, m2
Memories == {m1, m2}
FromBothEnds == [s \in Memories |-> IF s = m1 THEN 0 ELSE MaxKey]

(* Two NPCs that come and go, and a window of two verbatim lines, one      *)
(* compressed line and one line of keywords.                               *)
CONSTANTS lydia, belethor
Pair == {lydia, belethor}
Visits == {{lydia}, {lydia, belethor}, {}}
Overheard == {{belethor}}
=============================================================================
