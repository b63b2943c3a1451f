--------------------------- MODULE MCChunkSelector ---------------------------
(* The options that ChunkSelector is checked with.                         *)
EXTENDS ChunkSelector

Mandatory == {1, 3}

(* Mode 0 with the four levels of the fastest preset that                  *)
(* AutomaticChunkOptions lets through (subMode 6), the other modes with two*)
(* rounds.                                                                 *)
MCOptions ==
    {o \in [mode : 0 .. 3, calcMode : 0 .. 2, preset : {<<1, 1, 1, 4>>}, rounds : {2},
            activeTimelimit : BOOLEAN, defaultChunk : {0, 2}] :
        /\ o.defaultChunk # 0 => o.mode = 0 /\ o.activeTimelimit /\ o.calcMode = 2
        /\ o.calcMode = 1 => o.mode \in {0, 1} /\ ~o.activeTimelimit}
=============================================================================
