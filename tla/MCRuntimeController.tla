------------------------- MODULE MCRuntimeController -------------------------
(* RuntimeController for TLC: profiles at both ends of the range of a frame  *)
(* rate, with either service or both.                                        *)
EXTENDS RuntimeController

MCConfigs ==
    [powerSave : BOOLEAN, hotkeys : BOOLEAN, fps : {15, 995}, saveFps : {5}, step : {10}]

PowerSaveOnly == {c \in MCConfigs : c.powerSave /\ ~c.hotkeys}
=============================================================================
