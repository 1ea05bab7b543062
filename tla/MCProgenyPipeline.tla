------------------------- MODULE MCProgenyPipeline -------------------------
(* The pipeline with two agents, the second of which comes and goes: a     *)
(* turn with both, one with nobody, data for the first alone, and player   *)
(* input in the package of a goodnight.                                    *)
EXTENDS ProgenyPipeline

CONSTANTS ann, bob
MCNpcs == {ann, bob}

Kind(turn, sleep, scene) ==
  [turn |-> turn, sleep |-> sleep, scene |-> scene, conn |-> 0]

MCKinds ==
  {Kind(TRUE, FALSE, {ann, bob}), Kind(TRUE, FALSE, {}),
   Kind(FALSE, FALSE, {ann}), Kind(TRUE, TRUE, {ann})}
=============================================================================
