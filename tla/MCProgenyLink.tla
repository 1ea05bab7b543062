--------------------------- MODULE MCProgenyLink ---------------------------
(* The link on small instances: the bounds are in the configurations.      *)
EXTENDS ProgenyLink

MCFrameTypes == {"ack", "turn_response", "invalid"}
MCGoodFrames == {"ack", "turn_response"}
=============================================================================
