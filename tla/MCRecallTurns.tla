---------------------------- MODULE MCRecallTurns ----------------------------
(* Two turns: two of one session, a session's and a stream's, a stream's   *)
(* and a digest.  A call is free, or costs a token at one and a half micros. *)
EXTENDS RecallTurns, TLC

CONSTANTS t1, t2

MCMixes == { (t1 :> "ws") @@ (t2 :> "ws"), (t1 :> "sse") @@ (t2 :> "ws"),
             (t1 :> "sse") @@ (t2 :> "digest") }
MCUsage == { [tokens |-> 0, price |-> 0], [tokens |-> 1, price |-> 3] }
=============================================================================
