--------------------------- MODULE MCOfflineOutbox ---------------------------
(* A small instance of OfflineOutbox for TLC. *)
EXTENDS OfflineOutbox, TLC

CONSTANTS u1, u2, f1

TwoCalls == {u1, u2}
OneFlush == {f1}

Busy(u) == call[u].op # "idle"

\* Two captures, or one that is edited and deleted by calls that overlap, then
\* without a death of the app.  What this cuts are requests of the user and
\* deaths of the app, which no fairness asks for.
Focus ==
    /\ made = 2 => numbered = 0
    /\ numbered = 2 => crashes = 0
    /\ \A u, v \in Calls : Busy(u) /\ Busy(v) => u = v \/ numbered = 2
=============================================================================
