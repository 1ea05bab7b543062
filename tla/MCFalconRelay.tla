--------------------------- MODULE MCFalconRelay ---------------------------
(* The relay with three player inputs on streams or not, and a line to say. *)
EXTENDS FalconRelay

MCStreams == {"s1", "s2"}
MCTyped == {"t1"}
MCSays == {"l1"}
=============================================================================
