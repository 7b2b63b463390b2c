--------------------------- MODULE QueueContract ---------------------------
(***************************************************************************)
(* What the durable job queue promises to the rest of the server, with no  *)
(* transactions, locks or leases: a job appears, is worked on, goes back   *)
(* to the queue or reaches an end state, and never leaves an end state.    *)
(* JobQueue implements this specification (see JobQueue!Contract).         *)
(***************************************************************************)
CONSTANT Job

VARIABLE phase      \* phase[j]: what an observer of the queue knows of job j

Phase == {"absent", "waiting", "running", "done", "failed", "canceled"}
ContractInit == phase = [j \in Job |-> "absent"]

\* A request commits: every job it queued appears at once.
Appear(S) ==
    /\ S # {}
    /\ \A j \in S : phase[j] = "absent"
    /\ phase' = [j \in Job |-> IF j \in S THEN "waiting" ELSE phase[j]]

\* One job makes one move of its life cycle.
Move(j, from, to) ==
    /\ phase[j] = from
    /\ phase' = [phase EXCEPT ![j] = to]

Start(j)  == Move(j, "waiting", "running")
Return(j) == Move(j, "running", "waiting")
End(j)    == \E to \in {"done", "failed"} : Move(j, "running", to)
Drop(j)   == Move(j, "waiting", "canceled")

ContractNext ==
    \/ \E S \in SUBSET Job : Appear(S)
    \/ \E j \in Job : Start(j) \/ Return(j) \/ End(j) \/ Drop(j)

ContractSpec == ContractInit /\ [][ContractNext]_phase

=============================================================================
