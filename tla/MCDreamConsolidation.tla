----------------------- MODULE MCDreamConsolidation -----------------------
(* Small instances of DreamConsolidation for TLC. *)
EXTENDS DreamConsolidation

CONSTANT i1

============================================================================
