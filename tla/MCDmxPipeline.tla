--------------------------- MODULE MCDmxPipeline ---------------------------
(* Small instances of DmxPipeline for TLC.                                 *)
EXTENDS DmxPipeline

OffOn == {0, 1}
=============================================================================
