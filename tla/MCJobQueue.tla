---------------------------- MODULE MCJobQueue ----------------------------
(* A small instance of JobQueue for TLC.  No symmetry: the run is of the    *)
(* fair specification.                                                     *)
EXTENDS JobQueue, TLC

CONSTANTS j1, j2, j3, c1, c2, w1, w2

============================================================================
