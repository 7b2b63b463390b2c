-------------------------- MODULE MCCaptureIngest --------------------------
(* A small instance of CaptureIngest for TLC. *)
EXTENDS CaptureIngest, TLC

CONSTANTS i1, i2, j1, j2, e1, d1, d2, t1, SharedBody, SharedClock

\* Captures, jobs and digests are interchangeable.
Symmetry == Permutations(Idea) \cup Permutations(Job) \cup Permutations(Digest)

Touched == {i \in Idea : idea[i].st # "none" \/ \E e \in Editor : edit[e].idea = i}
Digesting == {d \in Digest : scan[d] # Nothing}
Editing == {e \in Editor : edit[e].pc # "idle"}

\* One capture with everything that may happen to it, where two digests overlap
\* between edits, and each still has a job id to use (without one it has no
\* effect); or two captures that may share a page, between edits and digests and
\* with fewer instants.
Focus ==
    \/ /\ Cardinality(Touched) <= 1
       /\ Cardinality(Digesting) <= Cardinality(FreeJobs)
       /\ Cardinality(Digesting) <= 1 \/ Editing = {}
    \/ /\ clock <= SharedClock
       /\ \A i \in Idea : version[i] <= SharedBody
       /\ Digesting = {} /\ Editing = {}

============================================================================
