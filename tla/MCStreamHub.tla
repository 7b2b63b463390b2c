---------------------------- MODULE MCStreamHub ----------------------------
(* Two turns of three events over a ring of two.                           *)
EXTENDS StreamHub
=============================================================================
