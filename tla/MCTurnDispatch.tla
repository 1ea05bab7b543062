--------------------------- MODULE MCTurnDispatch ---------------------------
(* Turns with nobody, one and three agents at every tier, alone and in     *)
(* groups; one of them named, or the last to speak; calls that come back   *)
(* with everything, nothing, too much, text, or not at all.                *)
EXTENDS TurnDispatch

CONSTANTS ann, bob, cid
MCNpcs == {ann, bob, cid}
MCScenes == {<<>>, <<ann>>, <<bob, cid, ann>>}
At(ring) == [ring |-> ring, collaborating |-> FALSE, volatile |-> FALSE]
MCInfos == {At(-1), At(3)}
MCCadence == [t \in 0..3 |-> IF t = 3 THEN 4 ELSE 2^t]

In(named, speaker, listener, companions) ==
  [named |-> named, speaker |-> speaker, listener |-> listener,
   companions |-> companions, context |-> TRUE]
MCInputs == {In({bob}, ann, NoOne, {cid})}

Says(kind, speaks) == [kind |-> kind, speaks |-> speaks]
MCReplies ==
  {Says("fails", {}), Says("text", {}), Says("bad", {}), Says("json", {ann, bob})}
=============================================================================
