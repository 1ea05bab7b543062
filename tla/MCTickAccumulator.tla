------------------------- MODULE MCTickAccumulator -------------------------
(* The accumulator on a small instance: two NPC names (one event that      *)
(* registers nothing besides), one stream handler that forces ticks next   *)
(* to the loop.                                                            *)
EXTENDS TickAccumulator

CONSTANTS n1, n2, h1

MCNpcNames == {n1, n2}
MCHandlers == {h1}
=============================================================================
