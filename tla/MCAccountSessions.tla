------------------------- MODULE MCAccountSessions -------------------------
(* Small instances of AccountSessions for TLC. *)
EXTENDS AccountSessions

CONSTANTS d1, d2

============================================================================
