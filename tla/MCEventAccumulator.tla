------------------------- MODULE MCEventAccumulator -------------------------
(* Two NPCs, one of which may leave the scene; one event of each kind that *)
(* ingest tells apart, with every role an NPC can have in it.              *)
EXTENDS EventAccumulator

CONSTANTS ann, bob

MCAgents == {ann, bob}
MCScenes == {{ann}, {ann, bob}}
MCPlaces == {"inn"}

Plain(type, who, to, near) ==
  [type |-> type, who |-> who, to |-> to, near |-> near, place |-> Unknown]

MCInput == Plain("inputtext", Player, NoOne, <<>>)
MCReset == Plain("init", NoOne, NoOne, <<>>)
MCToBob == Plain("_speech", Player, bob, <<ann>>)
MCNamesakes == Plain("_speech", Player, bob, <<ann, ann>>)
MCInn == [Plain("location", NoOne, NoOne, <<>>) EXCEPT !.place = "inn"]

MCShapes ==
  {MCInput, MCReset, MCToBob, MCNamesakes, MCInn,
   Plain("goodnight", NoOne, NoOne, <<>>),
   Plain("_speech", ann, bob, <<bob>>),
   Plain("_speech", bob, Player, <<>>),
   Plain("chat", ann, bob, <<>>),
   Plain("chat", bob, bob, <<>>),
   Plain("addnpc", ann, NoOne, <<>>),
   Plain("info", NoOne, NoOne, <<>>)}
=============================================================================
