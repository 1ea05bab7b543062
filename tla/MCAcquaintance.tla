--------------------------- MODULE MCAcquaintance ---------------------------
(* Three NPCs; two of them can be heard talking to each other.             *)
EXTENDS Acquaintance, TLC

CONSTANTS ann, bob, cid, none
MCNpcs == {ann, bob, cid}
MCTwo == {ann, bob}
MCSeeded == {ann}
MCTalk == {<<ann, bob>>}
=============================================================================
