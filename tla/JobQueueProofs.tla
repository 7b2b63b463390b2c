-------------------------- MODULE JobQueueProofs --------------------------
(***************************************************************************)
(* Proofs about JobQueue for every set of jobs, keys, requests and workers *)
(* and every bound, and about AccountSessions, whose deletion waits for    *)
(* the workers' claims, for every set of requests and devices, every       *)
(* number of accounts and pairs.                                           *)
(***************************************************************************)
EXTENDS JobQueue, AccountSessions, FiniteSetTheorems, TLAPS

\* The empty table satisfies the inductive invariant.
LEMMA InitQueueInv == Init => QueueInv
  BY JobAssumption
  DEF Init, QueueInv, TypeOK, State, Terminal, Ownership, Unattempted,
      NoVisibleLease, OneRunner, RetryBudget

\* A rollback of request c preserves the inductive invariant.
LEMMA RollbackQueueInv ==
  ASSUME NEW c \in Client, QueueInv, RollbackOf(c)
  PROVE  QueueInv'
  <1> USE JobAssumption DEF QueueInv
  <1>1. \A j \in Job : owner[j] = c => jstate[j] = "private"
    BY DEF Ownership
  <1>2. TypeOK'
    BY DEF TypeOK, RollbackOf, State, Terminal
  <1>3. Ownership' /\ Unattempted' /\ NoVisibleLease' /\ RetryBudget'
    BY <1>1 DEF TypeOK, RollbackOf, Ownership, Unattempted, NoVisibleLease, RetryBudget
  <1>4. OneRunner'
    BY <1>1 DEF TypeOK, RollbackOf, OneRunner
  <1> QED BY <1>2, <1>3, <1>4

\* Every step of a request preserves the inductive invariant.
LEMMA RequestQueueInv ==
  ASSUME NEW c \in Client, QueueInv, Request(c)
  PROVE  QueueInv'
  <1> USE JobAssumption DEF QueueInv
  <1>1. CASE Begin(c)
    BY <1>1 DEF Begin, rows, TypeOK, Ownership, Unattempted, NoVisibleLease, OneRunner, RetryBudget
  <1>2. ASSUME NEW r \in Ref, EnqueueCount(c, r) PROVE QueueInv'
    <2>1. CASE RollbackOf(c)
      BY <2>1, RollbackQueueInv
    <2>2. CASE ~RollbackOf(c)
      BY <1>2, <2>2
      DEF EnqueueCount, rows, TypeOK, Ownership, Unattempted, NoVisibleLease, OneRunner, RetryBudget
    <2> QED BY <2>1, <2>2
  <1>3. CASE EnqueueLookup(c)
    BY <1>3
    DEF EnqueueLookup, rows, TypeOK, Ownership, Unattempted, NoVisibleLease, OneRunner, RetryBudget
  <1>4. ASSUME NEW j \in Job, EnqueueInsert(c, j) PROVE QueueInv'
    <2>1. TypeOK'
      BY <1>4 DEF EnqueueInsert, TypeOK, State, Terminal
    <2>2. Ownership' /\ Unattempted' /\ NoVisibleLease' /\ RetryBudget'
      BY <1>4 DEF EnqueueInsert, TypeOK, Ownership, Unattempted, NoVisibleLease, RetryBudget
    <2>3. OneRunner'
      BY <1>4 DEF EnqueueInsert, TypeOK, OneRunner
    <2> QED BY <2>1, <2>2, <2>3
  <1>5. CASE Commit(c)
    <2>1. \A j \in Job : owner[j] = c => jstate[j] = "private" /\ attempts[j] = 0
      BY DEF Ownership, Unattempted
    <2>2. TypeOK'
      BY <1>5 DEF Commit, TypeOK, State, Terminal
    <2>3. Ownership' /\ Unattempted' /\ NoVisibleLease' /\ RetryBudget'
      BY <1>5, <2>1 DEF Commit, TypeOK, Ownership, Unattempted, NoVisibleLease, RetryBudget
    <2>4. OneRunner'
      BY <1>5 DEF Commit, TypeOK, OneRunner
    <2> QED BY <2>2, <2>3, <2>4
  <1>6. CASE Abandon(c)
    BY <1>6, RollbackQueueInv DEF Abandon
  <1> QED BY <1>1, <1>2, <1>3, <1>4, <1>5, <1>6 DEF Request

\* Every step of a worker preserves the inductive invariant.
LEMMA WorkQueueInv ==
  ASSUME NEW w \in Worker, QueueInv, Work(w)
  PROVE  QueueInv'
  <1> USE JobAssumption DEF QueueInv
  <1>1. ASSUME NEW j \in Job, Claim(w, j) PROVE QueueInv'
    BY <1>1
    DEF Claim, Locked, rows, reqs, TypeOK, Ownership, Unattempted, NoVisibleLease, OneRunner, RetryBudget
  <1>2. CASE Finish(w)
    <2>1. run[w] \in Job /\ jstate[run[w]] = "pending" /\ attempts[run[w]] < MaxAttempts
      BY <1>2 DEF Finish, TypeOK, OneRunner, RetryBudget
    <2>2. TypeOK'
      BY <1>2, <2>1 DEF Finish, reqs, TypeOK, State, Terminal
    <2>3. Ownership' /\ Unattempted' /\ NoVisibleLease' /\ RetryBudget'
      BY <1>2, <2>1 DEF Finish, reqs, TypeOK, Ownership, Unattempted, NoVisibleLease, RetryBudget
    <2>4. OneRunner'
      BY <1>2, <2>1 DEF Finish, TypeOK, OneRunner
    <2> QED BY <2>2, <2>3, <2>4
  <1>3. CASE FailOrRetry(w)
    <2>1. run[w] \in Job /\ jstate[run[w]] = "pending" /\ attempts[run[w]] < MaxAttempts
      BY <1>3 DEF FailOrRetry, TypeOK, OneRunner, RetryBudget
    <2>2. TypeOK'
      BY <1>3, <2>1 DEF FailOrRetry, reqs, TypeOK, State, Terminal
    <2>3. Ownership' /\ Unattempted' /\ NoVisibleLease' /\ RetryBudget'
      BY <1>3, <2>1
      DEF FailOrRetry, Exhausted, reqs, TypeOK, Ownership, Unattempted, NoVisibleLease, RetryBudget
    <2>4. OneRunner'
      BY <1>3, <2>1 DEF FailOrRetry, TypeOK, OneRunner
    <2> QED BY <2>2, <2>3, <2>4
  <1>4. CASE Crash(w)
    BY <1>4
    DEF Crash, rows, reqs, TypeOK, Ownership, Unattempted, NoVisibleLease, OneRunner, RetryBudget
  <1> QED BY <1>1, <1>2, <1>3, <1>4 DEF Work

\* Backoff, cancellation and lease reclaim preserve the inductive invariant.
LEMMA TableQueueInv ==
  ASSUME QueueInv, (\E j \in Job : BackoffOver(j) \/ Cancel(j)) \/ ReclaimStale
  PROVE  QueueInv'
  <1> USE JobAssumption DEF QueueInv
  <1>1. ASSUME NEW j \in Job, BackoffOver(j) PROVE QueueInv'
    BY <1>1
    DEF BackoffOver, reqs, TypeOK, Ownership, Unattempted, NoVisibleLease, OneRunner, RetryBudget
  <1>2. ASSUME NEW j \in Job, Cancel(j) PROVE QueueInv'
    <2>1. TypeOK'
      BY <1>2 DEF Cancel, reqs, TypeOK, State, Terminal
    <2>2. Ownership' /\ Unattempted' /\ NoVisibleLease' /\ RetryBudget'
      BY <1>2 DEF Cancel, reqs, TypeOK, Ownership, Unattempted, NoVisibleLease, RetryBudget
    <2>3. OneRunner'
      BY <1>2 DEF Cancel, Locked, TypeOK, OneRunner
    <2> QED BY <2>1, <2>2, <2>3
  <1>3. CASE ReclaimStale
    <2>1. jstate' = jstate
      BY <1>3 DEF ReclaimStale, NoVisibleLease, TypeOK
    <2> QED
      BY <1>3, <2>1
      DEF ReclaimStale, reqs, TypeOK, Ownership, Unattempted, NoVisibleLease, OneRunner, RetryBudget
  <1> QED BY <1>1, <1>2, <1>3

\* The inductive invariant is preserved by every step of the queue.
LEMMA NextQueueInv == QueueInv /\ [Next]_vars => QueueInv'
  <1> SUFFICES ASSUME QueueInv, [Next]_vars PROVE QueueInv'
    OBVIOUS
  <1>1. CASE UNCHANGED vars
    BY <1>1
    DEF vars, QueueInv, TypeOK, Ownership, Unattempted, NoVisibleLease, OneRunner, RetryBudget
  <1>2. CASE Next
    BY <1>2, RequestQueueInv, WorkQueueInv, TableQueueInv DEF Next
  <1> QED BY <1>1, <1>2

\* The inductive invariant holds in every reachable state of the queue.
THEOREM QueueInvariant == Spec => []QueueInv
  BY InitQueueInv, NextQueueInv, PTL DEF Spec

\* No two workers ever run the same row, and the row a worker runs is not
\* settled under it (claim_one's SKIP LOCKED and run_once's one transaction).
THEOREM OneRunnerHolds == Spec => []OneRunner
  <1>1. QueueInv => OneRunner
    BY DEF QueueInv
  <1> QED BY <1>1, QueueInvariant, PTL

\* A claimable row always has an attempt left and a failed one has none
\* (claim_one's bump against fail_or_retry's comparison).
THEOREM RetryBudgetHolds == Spec => []RetryBudget
  <1>1. QueueInv => RetryBudget
    BY DEF QueueInv
  <1> QED BY <1>1, QueueInvariant, PTL

\* No step changes a settled row, although complete, fail_or_retry and
\* reclaim_stale do not test the state they overwrite: the row lock does.
THEOREM SettledIsFinalHolds == Spec => SettledIsFinal
  <1> DEFINE Kept == \A j \in Job : jstate[j] \in Terminal => jstate'[j] = jstate[j]
  <1>1. ASSUME QueueInv, [Next]_vars PROVE [Kept]_vars
    <2>1. ASSUME NEW c \in Client, Request(c) PROVE Kept
      <3>1. \A j \in Job : owner[j] = c => jstate[j] \notin Terminal
        BY <1>1, JobAssumption DEF QueueInv, Ownership, Terminal
      <3> QED
        BY <1>1, <2>1, <3>1
        DEF QueueInv, TypeOK, Request, Begin, EnqueueCount, RollbackOf, EnqueueLookup,
            EnqueueInsert, Commit, Abandon, rows, Terminal
    <2>2. ASSUME NEW w \in Worker, Work(w) PROVE Kept
      <3>1. run[w] # NoJob => jstate[run[w]] \notin Terminal
        BY <1>1 DEF QueueInv, OneRunner, Terminal
      <3> QED
        BY <1>1, <2>2, <3>1
        DEF QueueInv, TypeOK, Work, Claim, Finish, FailOrRetry, Crash, rows
    <2>3. CASE (\E j \in Job : BackoffOver(j) \/ Cancel(j)) \/ ReclaimStale
      BY <1>1, <2>3 DEF QueueInv, TypeOK, BackoffOver, Cancel, ReclaimStale, Terminal
    <2>4. CASE UNCHANGED vars
      BY <2>4
    <2> QED BY <1>1, <2>1, <2>2, <2>3, <2>4 DEF Next
  <1>2. QueueInv /\ [Next]_vars => [Kept]_vars
    BY <1>1
  <1>3. Spec => [][Kept]_vars
    BY <1>2, QueueInvariant, PTL DEF Spec
  <1> QED BY <1>3 DEF SettledIsFinal

\* Every step keeps the account of the claims.
LEMMA NextClaims ==
  ASSUME QueueInv, ClaimsAccounted, [Next]_vars
  PROVE  ClaimsAccounted'
  <1> USE JobAssumption DEF QueueInv
  <1>t. /\ \A j \in Job : claims[j] \in Nat /\ attempts[j] \in Nat
        /\ crashes \in Nat /\ run \in [Worker -> Job \cup {NoJob}]
    BY DEF TypeOK
  <1>1. ASSUME UNCHANGED <<run, claims, crashes>>, \A j \in Job : attempts'[j] = attempts[j]
        PROVE  ClaimsAccounted'
    BY <1>1 DEF ClaimsAccounted, Locked
  <1>2. ASSUME NEW c \in Client, Request(c) PROVE ClaimsAccounted'
    BY <1>1, <1>2
    DEF Request, Begin, EnqueueCount, RollbackOf, EnqueueLookup, EnqueueInsert, Commit, Abandon, rows
  <1>3. ASSUME NEW w \in Worker, NEW j \in Job, Claim(w, j) PROVE ClaimsAccounted'
    <2>1. \A k \in Job : Locked(k)' <=> (Locked(k) \/ k = j)
      BY <1>3, <1>t DEF Claim, Locked
    <2>2. \A k \in Job : claims'[k] = IF k = j THEN claims[k] + 1 ELSE claims[k]
      BY <1>3 DEF Claim, TypeOK
    <2> QED BY <1>3, <1>t, <2>1, <2>2 DEF Claim, rows, ClaimsAccounted
  <1>4. ASSUME NEW w \in Worker, run[w] # NoJob, run' = [run EXCEPT ![w] = NoJob]
        PROVE  run[w] \in Job /\ Locked(run[w]) /\ \A k \in Job : Locked(k)' <=> (Locked(k) /\ k # run[w])
    <2>1. \A v \in Worker : run[v] = run[w] => v = w
      BY <1>4 DEF OneRunner
    <2> QED BY <1>4, <1>t, <2>1 DEF Locked
  <1>5. ASSUME NEW w \in Worker, Finish(w) \/ FailOrRetry(w) PROVE ClaimsAccounted'
    <2>1. run[w] # NoJob /\ run' = [run EXCEPT ![w] = NoJob] /\ UNCHANGED <<claims, crashes>>
      BY <1>5 DEF Finish, FailOrRetry
    <2>2. \A k \in Job : attempts'[k] = IF k = run[w] THEN attempts[k] + 1 ELSE attempts[k]
      BY <1>5 DEF Finish, FailOrRetry, TypeOK
    <2>3. ASSUME NEW k \in Job
          PROVE  claims'[k] <= attempts'[k] + crashes' + (IF Locked(k)' THEN 1 ELSE 0)
      <3>1. CASE k = run[w]
        BY <1>4, <1>t, <2>1, <2>2, <3>1 DEF ClaimsAccounted
      <3>2. CASE k # run[w]
        BY <1>4, <1>t, <2>1, <2>2, <3>2 DEF ClaimsAccounted
      <3> QED BY <3>1, <3>2
    <2> QED BY <2>3 DEF ClaimsAccounted
  <1>6. ASSUME NEW w \in Worker, Crash(w) PROVE ClaimsAccounted'
    BY <1>4, <1>6, <1>t DEF Crash, rows, ClaimsAccounted
  <1>7. ASSUME (\E j \in Job : BackoffOver(j) \/ Cancel(j)) \/ ReclaimStale PROVE ClaimsAccounted'
    BY <1>1, <1>7 DEF BackoffOver, Cancel, ReclaimStale
  <1>8. ASSUME UNCHANGED vars PROVE ClaimsAccounted'
    BY <1>1, <1>8 DEF vars
  <1> QED BY <1>2, <1>3, <1>5, <1>6, <1>7, <1>8 DEF Next, Work

\* A row is claimed at most max_attempts times plus once per crashed worker
\* (claim_one's bump is rolled back with the transaction of run_once).
THEOREM ClaimsBudgetHolds == Spec => []ClaimsBudget
  <1>1. Init => ClaimsAccounted
    BY JobAssumption DEF Init, ClaimsAccounted, Locked
  <1>2. QueueInv /\ ClaimsAccounted => ClaimsBudget
    <2> SUFFICES ASSUME QueueInv, ClaimsAccounted, NEW j \in Job
                 PROVE  claims[j] <= MaxAttempts + crashes
      BY DEF ClaimsBudget
    <2>1. claims[j] \in Nat /\ attempts[j] \in 0..MaxAttempts /\ crashes \in Nat /\ MaxAttempts \in Nat
      BY JobAssumption DEF QueueInv, TypeOK
    <2>2. Locked(j) => attempts[j] < MaxAttempts
      BY JobAssumption DEF QueueInv, OneRunner, RetryBudget, Locked
    <2> QED BY <2>1, <2>2 DEF ClaimsAccounted
  <1>3. QueueInv /\ ClaimsAccounted /\ [Next]_vars => ClaimsAccounted'
    BY NextClaims
  <1> QED BY <1>1, <1>2, <1>3, QueueInvariant, PTL DEF Spec

----------------------------------------------------------------------------
(* Each concurrent request adds at most one row per key.                   *)

LEMMA AddingIsFinite ==
  ASSUME NEW r
  PROVE  /\ IsFiniteSet(Adding(r)) /\ Cardinality(Adding(r)) \in Nat
         /\ Cardinality(Client) \in Nat /\ Cardinality(Adding(r)) <= Cardinality(Client)
  <1>1. Adding(r) \in SUBSET Client /\ IsFiniteSet(Client)
    BY JobAssumption DEF Adding
  <1> QED BY <1>1, FS_Subset, FS_CardinalityType

\* Fewer rows and fewer requests past the lookup.
LEMMA RoomShrinks ==
  ASSUME NEW r \in Ref, RoomForAll, NEW P \in SUBSET Queued(r), NEW A \in SUBSET Adding(r)
  PROVE  IsFiniteSet(P) /\ Cardinality(P) + Cardinality(A) <= Cardinality(Client)
  <1>1. IsFiniteSet(Queued(r)) /\ Cardinality(Queued(r)) + Cardinality(Adding(r)) <= Cardinality(Client)
    BY DEF RoomForAll
  <1>2. IsFiniteSet(P) /\ Cardinality(P) <= Cardinality(Queued(r))
    BY <1>1, FS_Subset
  <1>3. IsFiniteSet(A) /\ Cardinality(A) <= Cardinality(Adding(r))
    BY AddingIsFinite, FS_Subset
  <1>4. /\ Cardinality(P) \in Nat /\ Cardinality(A) \in Nat /\ Cardinality(Queued(r)) \in Nat
        /\ Cardinality(Adding(r)) \in Nat /\ Cardinality(Client) \in Nat
    BY <1>1, <1>2, <1>3, AddingIsFinite, FS_CardinalityType
  <1> QED BY <1>1, <1>2, <1>3, <1>4

LEMMA RoomStays ==
  ASSUME RoomForAll, \A r \in Ref : Queued(r)' \subseteq Queued(r) /\ Adding(r)' \subseteq Adding(r)
  PROVE  RoomForAll'
  <1> SUFFICES ASSUME NEW r \in Ref
               PROVE  /\ IsFiniteSet(Queued(r)')
                      /\ Cardinality(Queued(r)') + Cardinality(Adding(r)') <= Cardinality(Client)
    BY DEF RoomForAll
  <1> QED BY RoomShrinks

\* A miss of the lookup: no row of the key is queued.
LEMMA LookupRoom ==
  ASSUME QueueInv, InsertsOnce, RoomForAll, NEW c \in Client, EnqueueLookup(c)
  PROVE  InsertsOnce' /\ RoomForAll'
  <1>0. jstate' = jstate /\ jref' = jref /\ owner' = owner /\ txpc \in [Client -> {"idle", "open", "counted", "looked"}]
        /\ txref \in [Client -> Ref \cup {NoRef}]
    BY DEF EnqueueLookup, rows, QueueInv, TypeOK
  <1>1. \A r \in Ref : Queued(r)' = Queued(r)
    BY <1>0 DEF Queued, Pending
  <1>2. CASE Debounced(c) # {}
    <2>1. txpc' = [txpc EXCEPT ![c] = "open"] /\ txref' = [txref EXCEPT ![c] = NoRef]
      BY <1>2 DEF EnqueueLookup
    <2>2. InsertsOnce'
      BY <1>0, <2>1 DEF InsertsOnce, Mine
    <2>3. \A r \in Ref : Adding(r)' \subseteq Adding(r)
      BY <1>0, <2>1 DEF Adding, Mine
    <2> QED BY <1>1, <2>2, <2>3, RoomStays
  <1>3. CASE Debounced(c) = {}
    <2>1. txpc' = [txpc EXCEPT ![c] = "looked"] /\ txref' = txref
      BY <1>3 DEF EnqueueLookup
    <2>2. \A j \in Pending \cup Mine(c) : jref[j] # txref[c]
      BY <1>3 DEF Debounced
    <2>3. InsertsOnce'
      BY <1>0, <2>1, <2>2 DEF InsertsOnce, Mine
    <2>4. ASSUME NEW r \in Ref
          PROVE  /\ IsFiniteSet(Queued(r)')
                 /\ Cardinality(Queued(r)') + Cardinality(Adding(r)') <= Cardinality(Client)
      <3>1. CASE r = txref[c]
        <4>1. Queued(r) = {}
          BY <2>2, <3>1 DEF Queued
        <4>2. Adding(r)' \in SUBSET Client /\ IsFiniteSet(Client)
          BY JobAssumption DEF Adding
        <4>3. Cardinality(Adding(r)') <= Cardinality(Client) /\ Cardinality(Adding(r)') \in Nat
          BY <4>2, FS_Subset, FS_CardinalityType
        <4> QED BY <1>1, <4>1, <4>3, FS_EmptySet
      <3>2. CASE r # txref[c]
        <4>1. Adding(r)' \in SUBSET Adding(r)
          BY <1>0, <2>1, <3>2 DEF Adding, Mine
        <4> QED BY <1>1, <4>1, RoomShrinks
      <3> QED BY <3>1, <3>2
    <2> QED BY <2>3, <2>4 DEF RoomForAll
  <1> QED BY <1>2, <1>3

\* The insert turns a request past its lookup into one that owns the row.
LEMMA InsertRoom ==
  ASSUME QueueInv, InsertsOnce, RoomForAll, NEW c \in Client, NEW j \in Job, EnqueueInsert(c, j)
  PROVE  InsertsOnce' /\ RoomForAll'
  <1> USE JobAssumption
  <1>1. /\ txpc[c] = "looked" /\ jstate[j] = "absent" /\ owner[j] = NoClient
        /\ jref \in [Job -> Ref \cup {NoRef}] /\ owner \in [Job -> Client \cup {NoClient}]
        /\ txpc \in [Client -> {"idle", "open", "counted", "looked"}] /\ jstate \in [Job -> State]
        /\ txref \in [Client -> Ref \cup {NoRef}]
    BY DEF EnqueueInsert, QueueInv, TypeOK, Ownership
  <1>2. /\ jstate' = [jstate EXCEPT ![j] = "private"] /\ jref' = [jref EXCEPT ![j] = txref[c]]
        /\ owner' = [owner EXCEPT ![j] = c] /\ txpc' = [txpc EXCEPT ![c] = "open"]
        /\ txref' = [txref EXCEPT ![c] = NoRef]
    BY DEF EnqueueInsert
  <1>3. \A i \in Mine(c) : jref[i] # txref[c]
    BY <1>1 DEF InsertsOnce
  <1>4. InsertsOnce'
    <2>1. ASSUME NEW i \in Job, NEW k \in Job, owner'[i] # NoClient, owner'[i] = owner'[k], jref'[i] = jref'[k]
          PROVE  i = k
      BY <1>1, <1>2, <1>3, <2>1 DEF InsertsOnce, Mine
    <2>2. ASSUME NEW d \in Client, txpc'[d] = "looked", NEW k \in Mine(d)' PROVE jref'[k] # txref'[d]
      BY <1>1, <1>2, <2>2 DEF InsertsOnce, Mine
    <2> QED BY <2>1, <2>2 DEF InsertsOnce
  <1>5. ASSUME NEW r \in Ref PROVE Queued(r)' \subseteq Queued(r) /\ Adding(r)' \subseteq Adding(r)
    BY <1>1, <1>2 DEF Queued, Pending, Adding, Mine
  <1> QED BY <1>4, <1>5, RoomStays

\* The commit turns it into a queued row and one request less.
LEMMA CommitRoom ==
  ASSUME QueueInv, InsertsOnce, RoomForAll, NEW c \in Client, Commit(c)
  PROVE  InsertsOnce' /\ RoomForAll'
  <1> USE JobAssumption
  <1>1. /\ jref \in [Job -> Ref \cup {NoRef}] /\ owner \in [Job -> Client \cup {NoClient}]
        /\ txpc \in [Client -> {"idle", "open", "counted", "looked"}] /\ jstate \in [Job -> State]
        /\ \A j \in Job : owner[j] # NoClient <=> jstate[j] = "private"
    BY DEF QueueInv, TypeOK, Ownership
  <1>2. /\ jstate' = [j \in Job |-> IF owner[j] = c THEN "pending" ELSE jstate[j]]
        /\ owner' = [j \in Job |-> IF owner[j] = c THEN NoClient ELSE owner[j]]
        /\ txpc[c] = "open" /\ txpc' = [txpc EXCEPT ![c] = "idle"] /\ jref' = jref /\ txref' = txref
    BY DEF Commit
  <1>3. InsertsOnce'
    BY <1>1, <1>2 DEF InsertsOnce, Mine
  <1>4. ASSUME NEW r \in Ref
        PROVE  /\ IsFiniteSet(Queued(r)')
               /\ Cardinality(Queued(r)') + Cardinality(Adding(r)') <= Cardinality(Client)
    <2>1. CASE \A j \in Mine(c) : jref[j] # r
      <3>1. Queued(r)' \in SUBSET Queued(r) /\ Adding(r)' \in SUBSET Adding(r)
        BY <1>1, <1>2, <2>1 DEF Queued, Pending, Adding, Mine
      <3> QED BY <3>1, RoomShrinks
    <2>2. ASSUME NEW j \in Mine(c), jref[j] = r
          PROVE  /\ IsFiniteSet(Queued(r)')
                 /\ Cardinality(Queued(r)') + Cardinality(Adding(r)') <= Cardinality(Client)
      <3>1. j \in Job /\ owner[j] = c /\ j \notin Queued(r)
        BY <1>1, <2>2 DEF Mine, Queued, Pending
      <3>2. Queued(r)' = Queued(r) \cup {j}
        BY <1>1, <1>2, <2>2, <3>1 DEF Queued, Pending, InsertsOnce
      <3>3. c \in Adding(r) /\ Adding(r)' = Adding(r) \ {c}
        BY <1>1, <1>2, <2>2 DEF Adding, Mine
      <3>4. IsFiniteSet(Queued(r)) /\ Cardinality(Queued(r)) + Cardinality(Adding(r)) <= Cardinality(Client)
        BY DEF RoomForAll
      <3>5. IsFiniteSet(Queued(r)') /\ Cardinality(Queued(r)') = Cardinality(Queued(r)) + 1
        BY <3>1, <3>2, <3>4, FS_AddElement
      <3>6. Cardinality(Adding(r)') = Cardinality(Adding(r)) - 1
        <4>1. Cardinality(Adding(r) \ {c}) = IF c \in Adding(r) THEN Cardinality(Adding(r)) - 1
                                             ELSE Cardinality(Adding(r))
          BY AddingIsFinite, FS_RemoveElement, Zenon
        <4> QED BY <3>3, <4>1, Zenon
      <3>7. Cardinality(Queued(r)) \in Nat /\ Cardinality(Adding(r)) \in Nat /\ Cardinality(Client) \in Nat
        BY <3>4, AddingIsFinite, FS_CardinalityType
      <3> QED BY <3>4, <3>5, <3>6, <3>7
    <2> QED BY <2>1, <2>2
  <1> QED BY <1>3, <1>4 DEF RoomForAll

\* Every other step queues no row and takes no request past its lookup.
LEMMA NextRoom ==
  ASSUME QueueInv, InsertsOnce, RoomForAll, [Next]_vars
  PROVE  InsertsOnce' /\ RoomForAll'
  <1> USE JobAssumption
  <1>t. /\ jref \in [Job -> Ref \cup {NoRef}] /\ owner \in [Job -> Client \cup {NoClient}]
        /\ txpc \in [Client -> {"idle", "open", "counted", "looked"}] /\ jstate \in [Job -> State]
        /\ txref \in [Client -> Ref \cup {NoRef}]
        /\ \A j \in Job : owner[j] # NoClient <=> jstate[j] = "private"
    BY DEF QueueInv, TypeOK, Ownership
  <1>1. ASSUME UNCHANGED <<jref, owner, txpc, txref>>,
               \A j \in Job : jstate'[j] = "pending" => jstate[j] = "pending"
        PROVE  InsertsOnce' /\ RoomForAll'
    <2>1. InsertsOnce'
      BY <1>1 DEF InsertsOnce, Mine
    <2>2. \A r \in Ref : Queued(r)' \subseteq Queued(r) /\ Adding(r)' \subseteq Adding(r)
      BY <1>1 DEF Queued, Pending, Adding, Mine
    <2> QED BY <2>1, <2>2, RoomStays
  <1>2. ASSUME NEW c \in Client, RollbackOf(c) PROVE InsertsOnce' /\ RoomForAll'
    <2>1. InsertsOnce'
      BY <1>2, <1>t DEF RollbackOf, InsertsOnce, Mine
    <2>2. \A r \in Ref : Queued(r)' \subseteq Queued(r) /\ Adding(r)' \subseteq Adding(r)
      BY <1>2, <1>t DEF RollbackOf, Queued, Pending, Adding, Mine
    <2> QED BY <2>1, <2>2, RoomStays
  <1>3. ASSUME NEW c \in Client, UNCHANGED <<jstate, jref, owner>>,
               txpc[c] # "looked", txpc' \in [Client -> {"idle", "open", "counted", "looked"}],
               txpc'[c] # "looked",
               \A d \in Client \ {c} : txpc'[d] = txpc[d] /\ txref'[d] = txref[d]
        PROVE  InsertsOnce' /\ RoomForAll'
    <2>1. InsertsOnce'
      BY <1>3, <1>t DEF InsertsOnce, Mine
    <2>2. \A r \in Ref : Queued(r)' \subseteq Queued(r) /\ Adding(r)' \subseteq Adding(r)
      BY <1>3, <1>t DEF Queued, Pending, Adding, Mine
    <2> QED BY <2>1, <2>2, RoomStays
  <1>4. ASSUME NEW c \in Client, Request(c) PROVE InsertsOnce' /\ RoomForAll'
    <2>1. CASE Begin(c)
      BY <1>3, <1>t, <2>1 DEF Begin, rows
    <2>2. ASSUME NEW r \in Ref, EnqueueCount(c, r) PROVE InsertsOnce' /\ RoomForAll'
      <3>1. CASE RollbackOf(c)
        BY <1>2, <3>1
      <3>2. CASE ~RollbackOf(c)
        BY <1>3, <1>t, <2>2, <3>2 DEF EnqueueCount, rows
      <3> QED BY <3>1, <3>2
    <2>3. CASE EnqueueLookup(c)
      BY <2>3, LookupRoom
    <2>4. ASSUME NEW j \in Job, EnqueueInsert(c, j) PROVE InsertsOnce' /\ RoomForAll'
      BY <2>4, InsertRoom
    <2>5. CASE Commit(c)
      BY <2>5, CommitRoom
    <2>6. CASE Abandon(c)
      BY <1>2, <2>6 DEF Abandon
    <2> QED BY <1>4, <2>1, <2>2, <2>3, <2>4, <2>5, <2>6 DEF Request
  <1>5. ASSUME NEW w \in Worker, Work(w) PROVE InsertsOnce' /\ RoomForAll'
    <2>1. run[w] # NoJob => run[w] \in Job /\ jstate[run[w]] = "pending"
      BY DEF QueueInv, TypeOK, OneRunner
    <2>2. UNCHANGED <<jref, owner, txpc, txref>>
      BY <1>5 DEF Work, Claim, Finish, FailOrRetry, Crash, rows, reqs
    <2>3. \A j \in Job : jstate'[j] = "pending" => jstate[j] = "pending"
      BY <1>5, <1>t, <2>1 DEF Work, Claim, Finish, FailOrRetry, Crash, rows
    <2> QED BY <1>1, <2>2, <2>3
  <1>6. CASE (\E j \in Job : BackoffOver(j) \/ Cancel(j)) \/ ReclaimStale
    <2>1. UNCHANGED <<jref, owner, txpc, txref>>
      BY <1>6 DEF BackoffOver, Cancel, ReclaimStale, reqs
    <2>2. \A j \in Job : jstate'[j] = "pending" => jstate[j] = "pending"
      BY <1>6, <1>t DEF BackoffOver, Cancel, ReclaimStale, QueueInv, NoVisibleLease
    <2> QED BY <1>1, <2>1, <2>2
  <1>7. CASE UNCHANGED vars
    BY <1>1, <1>7 DEF vars
  <1> QED BY <1>4, <1>5, <1>6, <1>7 DEF Next

\* No key has more queued rows than there are concurrent requests, although
\* the lookup of enqueue and its insert are separate statements.
THEOREM DuplicatesBoundedHolds == Spec => []DuplicatesBounded
  <1>1. Init => InsertsOnce /\ RoomForAll
    <2> SUFFICES ASSUME Init PROVE InsertsOnce /\ RoomForAll
      OBVIOUS
    <2>1. InsertsOnce
      BY JobAssumption DEF Init, InsertsOnce
    <2>2. ASSUME NEW r \in Ref PROVE Queued(r) = {} /\ Adding(r) = {}
      BY JobAssumption DEF Init, Queued, Pending, Adding, Mine
    <2>3. Cardinality(Client) \in Nat
      BY JobAssumption, FS_CardinalityType
    <2> QED BY <2>1, <2>2, <2>3, FS_EmptySet DEF RoomForAll
  <1>2. RoomForAll => DuplicatesBounded
    <2> SUFFICES ASSUME RoomForAll, NEW r \in Ref
                 PROVE  Cardinality(Queued(r)) <= Cardinality(Client)
      BY DEF DuplicatesBounded
    <2>1. Cardinality(Queued(r)) \in Nat
      BY FS_CardinalityType DEF RoomForAll
    <2> QED BY <2>1, AddingIsFinite DEF RoomForAll
  <1>3. QueueInv /\ InsertsOnce /\ RoomForAll /\ [Next]_vars => InsertsOnce' /\ RoomForAll'
    BY NextRoom
  <1> QED BY <1>1, <1>2, <1>3, QueueInvariant, PTL DEF Spec

----------------------------------------------------------------------------
(* The queue implements QueueContract under the mapping Phase.             *)

\* The empty table shows no job.
LEMMA InitContract == Init => Contract!ContractInit
  BY JobAssumption DEF Init, Contract!ContractInit, Phase, Locked

\* A request shows either nothing or, at its commit, all its rows at once.
LEMMA RequestContract ==
  ASSUME NEW c \in Client, QueueInv, Request(c)
  PROVE  Contract!ContractNext \/ \A j \in Job : Phase(j)' = Phase(j)
  <1> USE JobAssumption DEF QueueInv
  <1>0. run' = run
    BY DEF Request, Begin, EnqueueCount, RollbackOf, EnqueueLookup, EnqueueInsert, Commit, Abandon
  <1>1. \A j \in Job : Locked(j)' <=> Locked(j)
    BY <1>0 DEF Locked
  <1>2. CASE Commit(c)
    <2> DEFINE S == Mine(c)
    <2>1. \A j \in S : j \in Job /\ jstate[j] = "private" /\ ~Locked(j)
      BY DEF Mine, Ownership, OneRunner, Locked, TypeOK
    <2>2. \A j \in Job : Phase(j)' = IF j \in S THEN "waiting" ELSE Phase(j)
      BY <1>1, <1>2, <2>1 DEF Commit, Phase, Mine, Terminal, TypeOK
    <2>3. CASE S = {}
      BY <2>2, <2>3
    <2>4. CASE S # {}
      <3>1. \A j \in S : Phase(j) = "absent"
        BY <2>1 DEF Phase
      <3>2. S \in SUBSET Job
        BY <2>1
      <3>3. Contract!Appear(S)
        BY <2>2, <2>4, <3>1, <3>2 DEF Contract!Appear
      <3> QED BY <3>2, <3>3 DEF Contract!ContractNext
    <2> QED BY <2>3, <2>4
  <1>3. CASE RollbackOf(c)
    <2>1. \A j \in Job : owner[j] = c => jstate[j] = "private"
      BY DEF Ownership
    <2> QED
      BY <1>1, <1>3, <2>1 DEF RollbackOf, Phase, TypeOK
  <1>4. CASE ~Commit(c) /\ ~RollbackOf(c)
    <2>1. \A j \in Job :
             \/ jstate'[j] = jstate[j]
             \/ jstate[j] = "absent" /\ jstate'[j] = "private"
      BY <1>4
      DEF Request, Begin, EnqueueCount, EnqueueLookup, EnqueueInsert, Abandon, rows, TypeOK
    <2> QED BY <1>1, <2>1 DEF Phase
  <1> QED BY <1>2, <1>3, <1>4

\* Every other step is one move of one job, or shows nothing.
LEMMA WorkContract ==
  ASSUME NEW w \in Worker, QueueInv, Work(w)
  PROVE  Contract!ContractNext \/ \A j \in Job : Phase(j)' = Phase(j)
  <1> USE JobAssumption DEF QueueInv
  <1>1. ASSUME NEW j \in Job, Claim(w, j) PROVE Contract!ContractNext
    <2>1. \A k \in Job : Locked(k)' <=> (Locked(k) \/ k = j)
      BY <1>1 DEF Claim, Locked, TypeOK
    <2>2. Phase(j) = "waiting"
      BY <1>1 DEF Claim, Phase, Terminal
    <2>3. \A k \in Job : Phase(k)' = IF k = j THEN "running" ELSE Phase(k)
      BY <1>1, <2>1 DEF Claim, Phase, rows
    <2>4. Contract!Start(j)
      BY <2>2, <2>3 DEF Contract!Start, Contract!Move
    <2> QED BY <2>4 DEF Contract!ContractNext
  <1>2. ASSUME NEW j \in Job, j = run[w], run' = [run EXCEPT ![w] = NoJob]
        PROVE  /\ Phase(j) = "running"
               /\ \A k \in Job : Locked(k)' <=> (Locked(k) /\ k # j)
    <2>1. Locked(j)
      BY <1>2 DEF Locked
    <2>2. \A v \in Worker : run[v] = j => v = w
      BY <1>2 DEF OneRunner
    <2> QED BY <1>2, <2>1, <2>2 DEF Phase, Locked, TypeOK
  <1>3. CASE Finish(w)
    <2> DEFINE j == run[w]
    <2>1. j \in Job
      BY <1>3 DEF Finish, TypeOK
    <2>2. \A k \in Job : Phase(k)' = IF k = j THEN "done" ELSE Phase(k)
      BY <1>2, <1>3, <2>1 DEF Finish, Phase, Terminal, TypeOK
    <2>3. Contract!End(j)
      BY <1>2, <1>3, <2>1, <2>2 DEF Finish, Contract!End, Contract!Move
    <2> QED BY <2>1, <2>3 DEF Contract!ContractNext
  <1>4. CASE FailOrRetry(w)
    <2> DEFINE j == run[w]
               to == IF Exhausted(attempts[j] + 1) THEN "failed" ELSE "waiting"
    <2>1. j \in Job
      BY <1>4 DEF FailOrRetry, TypeOK
    <2>2. \A k \in Job : Phase(k)' = IF k = j THEN to ELSE Phase(k)
      BY <1>2, <1>4, <2>1 DEF FailOrRetry, Phase, Terminal, TypeOK
    <2>3. Contract!End(j) \/ Contract!Return(j)
      BY <1>2, <1>4, <2>1, <2>2 DEF FailOrRetry, Contract!End, Contract!Return, Contract!Move
    <2> QED BY <2>1, <2>3 DEF Contract!ContractNext
  <1>5. CASE Crash(w)
    <2> DEFINE j == run[w]
    <2>1. j \in Job /\ jstate[j] = "pending"
      BY <1>5 DEF Crash, TypeOK, OneRunner
    <2>2. \A k \in Job : Phase(k)' = IF k = j THEN "waiting" ELSE Phase(k)
      BY <1>2, <1>5, <2>1 DEF Crash, Phase, rows, Terminal, TypeOK
    <2>3. Contract!Return(j)
      BY <1>2, <1>5, <2>1, <2>2 DEF Crash, Contract!Return, Contract!Move
    <2> QED BY <2>1, <2>3 DEF Contract!ContractNext
  <1> QED BY <1>1, <1>3, <1>4, <1>5 DEF Work

\* Cancellation drops a waiting job; backoff and reclaim show nothing.
LEMMA TableContract ==
  ASSUME QueueInv, (\E j \in Job : BackoffOver(j) \/ Cancel(j)) \/ ReclaimStale
  PROVE  Contract!ContractNext \/ \A j \in Job : Phase(j)' = Phase(j)
  <1> USE JobAssumption DEF QueueInv
  <1>0. \A j \in Job : Locked(j)' <=> Locked(j)
    BY DEF BackoffOver, Cancel, ReclaimStale, Locked
  <1>1. ASSUME NEW j \in Job, Cancel(j) PROVE Contract!ContractNext
    <2>1. Phase(j) = "waiting"
      BY <1>1 DEF Cancel, Phase, Terminal
    <2>2. \A k \in Job : Phase(k)' = IF k = j THEN "canceled" ELSE Phase(k)
      BY <1>0, <1>1 DEF Cancel, Phase, Terminal, TypeOK
    <2>3. Contract!Drop(j)
      BY <2>1, <2>2 DEF Contract!Drop, Contract!Move
    <2> QED BY <2>3 DEF Contract!ContractNext
  <1>2. ASSUME NEW j \in Job, BackoffOver(j) PROVE \A k \in Job : Phase(k)' = Phase(k)
    BY <1>0, <1>2 DEF BackoffOver, Phase
  <1>3. CASE ReclaimStale
    <2>1. jstate' = jstate
      BY <1>3 DEF ReclaimStale, NoVisibleLease, TypeOK
    <2> QED BY <1>0, <2>1 DEF Phase
  <1> QED BY <1>1, <1>2, <1>3

\* The transactional queue (claims, retries, crashes, rollbacks and cancels)
\* implements the life cycle of QueueContract.
THEOREM QueueRefinesContract == Spec => ImplementsContract
  <1> DEFINE shown == [j \in Job |-> Phase(j)]
  <1>1. QueueInv /\ [Next]_vars => [Contract!ContractNext]_shown
    <2> SUFFICES ASSUME QueueInv, [Next]_vars
                 PROVE  Contract!ContractNext \/ \A j \in Job : Phase(j)' = Phase(j)
      OBVIOUS
    <2>1. CASE UNCHANGED vars
      BY <2>1 DEF vars, Phase, Locked
    <2>2. CASE Next
      BY <2>2, RequestContract, WorkContract, TableContract DEF Next
    <2> QED BY <2>1, <2>2
  <1> QED
    BY <1>1, InitContract, QueueInvariant, PTL DEF Spec, ImplementsContract, Contract!ContractSpec

----------------------------------------------------------------------------
(* Accounts, sessions and tokens.                                          *)

\* Request r is at step `to` of account a, with the new pair n; the rest of it
\* and every other request are as before.
Moved(r, to, a, n) ==
    /\ req' \in [Req -> Handler]
    /\ \A q \in Req : q # r => req'[q] = req[q]
    /\ req'[r].pc = to /\ req'[r].acc = a /\ req'[r].new = n
    /\ req'[r].kind = req[r].kind /\ req'[r].dev = req[r].dev
    /\ req'[r].old = req[r].old /\ req'[r].waits = req[r].waits

\* The fields of a request have their types.
LEMMA HandlerFields ==
  ASSUME AccountTypeOK, NEW r \in Req
  PROVE  /\ req[r].kind \in Kinds /\ req[r].pc \in PCs /\ req[r].dev \in Device
         /\ req[r].acc \in 0..MaxAccount /\ req[r].old \in 0..MaxPair /\ req[r].new \in 0..MaxPair
         /\ req[r].waits \in BOOLEAN
  BY DEF AccountTypeOK, Handler

\* An update of a request by step, account and pair is a Moved step.
LEMMA HandlerUpdate ==
  ASSUME AccountTypeOK, NEW r \in Req, NEW to \in PCs, NEW a \in 0..MaxAccount, NEW n \in 0..MaxPair,
         req' = [req EXCEPT ![r].pc = to, ![r].acc = a, ![r].new = n]
  PROVE  Moved(r, to, a, n)
  <1>1. PICK s : s = req[r]
    OBVIOUS
  <1>2. s \in Handler
    BY <1>1 DEF AccountTypeOK
  <1> DEFINE t == [s EXCEPT !.pc = to, !.acc = a, !.new = n]
  <1>3. /\ t \in Handler
        /\ t.pc = to /\ t.acc = a /\ t.new = n
        /\ t.kind = s.kind /\ t.dev = s.dev /\ t.old = s.old /\ t.waits = s.waits
    BY <1>2 DEF Handler
  <1>4. req' = [req EXCEPT ![r] = t]
    BY <1>1
  <1> HIDE DEF t
  <1>5. req \in [Req -> Handler]
    BY DEF AccountTypeOK
  <1>6. t \in Handler
    BY <1>3
  <1>7. req' \in [Req -> Handler] /\ req'[r] = t /\ \A q \in Req : q # r => req'[q] = req[q]
    BY <1>4, <1>5, <1>6
  <1> QED BY <1>1, <1>3, <1>7 DEF Moved

\* Goto changes the step only.
LEMMA GotoMoves ==
  ASSUME AccountTypeOK, NEW r \in Req, NEW to \in PCs, Goto(r, to)
  PROVE  Moved(r, to, req[r].acc, req[r].new)
  <1>1. PICK s : s = req[r]
    OBVIOUS
  <1>2. s \in Handler
    BY <1>1 DEF AccountTypeOK
  <1>3. [s EXCEPT !.pc = to] = [s EXCEPT !.pc = to, !.acc = s.acc, !.new = s.new]
    BY <1>2 DEF Handler
  <1>4. req' = [req EXCEPT ![r] = [s EXCEPT !.pc = to]]
    BY <1>1 DEF Goto
  <1>5. req' = [req EXCEPT ![r].pc = to, ![r].acc = s.acc, ![r].new = s.new]
    BY <1>1, <1>3, <1>4
  <1> QED BY <1>1, <1>5, HandlerUpdate, HandlerFields

\* GotoAs changes the step and the account only.
LEMMA GotoAsMoves ==
  ASSUME AccountTypeOK, NEW r \in Req, NEW to \in PCs, NEW a \in 0..MaxAccount, GotoAs(r, to, a)
  PROVE  Moved(r, to, a, req[r].new)
  <1>1. PICK s : s = req[r]
    OBVIOUS
  <1>2. s \in Handler
    BY <1>1 DEF AccountTypeOK
  <1>3. [s EXCEPT !.pc = to, !.acc = a] = [s EXCEPT !.pc = to, !.acc = a, !.new = s.new]
    BY <1>2 DEF Handler
  <1>4. req' = [req EXCEPT ![r] = [s EXCEPT !.pc = to, !.acc = a]]
    BY <1>1 DEF GotoAs
  <1>5. req' = [req EXCEPT ![r].pc = to, ![r].acc = a, ![r].new = s.new]
    BY <1>1, <1>3, <1>4
  <1> QED BY <1>1, <1>5, HandlerUpdate, HandlerFields

\* No row is accepted that was not, and no refresh token is affected.
Calm ==
    /\ pairs' \in [Pair -> Rows]
    /\ \A p \in Pair : /\ pairs'[p].acc = pairs[p].acc /\ pairs'[p].refresh = pairs[p].refresh
                       /\ pairs'[p].access = "live" => pairs[p].access = "live"

\* A quiet step keeps the requests in order when the one that moves is.
LEMMA QuietRequests ==
  ASSUME AccountTypeOK, Requests, NEW r \in Req, NEW to \in PCs, NEW a \in 0..MaxAccount,
         Moved(r, to, a, req[r].new), Calm, Staged(req'[r]),
         req[r].kind \in Carriers \/ req[r].new # 0 => a = req[r].acc
  PROVE  Requests'
  <1>1. ASSUME NEW q \in Req PROVE Staged(req'[q])
    BY <1>1 DEF Moved, Requests
  <1>2. ASSUME NEW q \in Req PROVE Tokened(req'[q], pairs')
    <2>1. Tokened(req[q], pairs) /\ req[q].old \in 0..MaxPair /\ req[q].new \in 0..MaxPair
      BY HandlerFields DEF Requests
    <2>2. /\ req'[q].kind = req[q].kind /\ req'[q].old = req[q].old /\ req'[q].new = req[q].new
          /\ req[q].kind \in Carriers \/ req[q].new # 0 => req'[q].acc = req[q].acc
      BY DEF Moved
    <2>3. \A p \in 0..MaxPair : p # 0 => pairs'[p].acc = pairs[p].acc
      BY AccountAssumption DEF Calm, Pair
    <2> QED BY <2>1, <2>2, <2>3 DEF Tokened
  <1> QED BY <1>1, <1>2 DEF Requests

\* A step that hands over no pair leaves every pair in its place.
LEMMA QuietOnePlace ==
  ASSUME AccountTypeOK, OnePlace, NEW r \in Req, NEW to, NEW a,
         Moved(r, to, a, req[r].new), dev' = dev, \A p \in Pair : pairs'[p].acc = pairs[p].acc
  PROVE  OnePlace'
  <1>1. \A q \in Req : req'[q].kind = req[q].kind /\ req'[q].old = req[q].old
                       /\ req'[q].new = req[q].new /\ req'[q].dev = req[q].dev
    BY DEF Moved
  <1>2. \A d \in Device : dev[d].held # 0 => dev[d].held \in Pair
    BY AccountAssumption DEF AccountTypeOK, Repository, Pair
  <1> QED BY <1>1, <1>2 DEF OnePlace

\* A step of a handler leaves what the devices wait for as it was.
LEMMA QuietOneFlight ==
  ASSUME AccountTypeOK, OneFlight, NEW r \in Req, NEW to, NEW a, NEW n,
         Moved(r, to, a, n), dev' = dev
  PROVE  OneFlight'
  <1>1. \A q \in Req : req'[q].kind = req[q].kind /\ req'[q].old = req[q].old
                       /\ req'[q].dev = req[q].dev /\ req'[q].waits = req[q].waits
    BY DEF Moved
  <1> QED BY <1>1 DEF OneFlight, Refreshing

\* A step that revokes no refresh token and starts no refusal keeps the sessions.
LEMMA QuietSessions ==
  ASSUME AccountTypeOK, OnePlace, Sessions, NEW r \in Req, NEW to, NEW a, NEW n,
         Moved(r, to, a, n), dev' = dev,
         \A p \in Pair : pairs[p].acc # 0 =>
            pairs'[p].acc = pairs[p].acc /\ (pairs[p].refresh = "live" => pairs'[p].refresh = "live"),
         user.acc # 0 => user'.acc = user.acc,
         Refreshing(r) /\ (to = "refused" \/ (req[r].pc \in {"access", "refresh", "ok"}
                             /\ to \notin {"access", "refresh", "ok"}))
            => dev[req[r].dev].excused \/ ~dev[req[r].dev].in
  PROVE  Sessions'
  <1>1. \A q \in Req : req'[q].kind = req[q].kind /\ req'[q].old = req[q].old
                       /\ req'[q].dev = req[q].dev /\ req'[q].waits = req[q].waits
    BY DEF Moved
  <1>2. \A d \in Device : dev[d].held # 0 => dev[d].held \in Pair /\ pairs[dev[d].held].acc # 0
    BY AccountAssumption DEF AccountTypeOK, Repository, Pair, OnePlace
  <1>3. \A q \in Req : req[q].dev \in Device
    BY HandlerFields
  <1>4. \A d \in Device, q \in Req : Rotating(q, d) /\ dev[d].in /\ ~dev[d].excused => Rotating(q, d)'
    BY <1>1, <1>3 DEF Rotating, Refreshing, Moved
  <1>5. ASSUME NEW d \in Device
        PROVE  (IF dev[d].in
                THEN ~dev[d].excused =>
                       /\ dev[d].held # 0 /\ Exists(pairs[dev[d].held].acc)
                       /\ pairs[dev[d].held].refresh = "live" \/ \E q \in Req : Rotating(q, d)
                ELSE dev[d].held = 0 \/ dev[d].raced)'
    BY <1>2, <1>4 DEF Sessions, Exists
  <1>6. \A q \in Req : req'[q].kind = "refresh" /\ ~req'[q].waits =>
         \A d \in Device : dev[d].held = req'[q].old => dev[d].excused \/ ~dev[d].in
    BY <1>1 DEF Sessions
  <1>7. \A q \in Req : Refreshing(q)' /\ At(q, "refused")' =>
         dev[req'[q].dev].excused \/ ~dev[req'[q].dev].in
    BY <1>1, <1>3 DEF Sessions, Moved, Refreshing, At
  <1> QED BY <1>5, <1>6, <1>7 DEF Sessions

\* A step that writes no file and ends no purge keeps the files accounted for.
LEMMA QuietOnDisk ==
  ASSUME AccountTypeOK, Requests, OnDisk, NEW r \in Req, NEW to, NEW a, NEW n,
         Moved(r, to, a, n), disk' = disk, late' = late,
         user.acc # 0 => user'.acc = user.acc,
         req[r].pc # "purge", to = "append" => a = req[r].acc /\ Accounted(a) /\ a # 0
  PROVE  OnDisk'
  <1>1. \A b : b # 0 /\ Accounted(b) => Accounted(b)'
    BY DEF Accounted, At, Moved, Exists
  <1>2. 0 \notin disk
    BY DEF AccountTypeOK, Account
  <1>3. ASSUME NEW q \in Req, At(q, "append")' PROVE Accounted(req[q].acc)'
    <2>1. CASE q = r
      BY <2>1, <1>1, <1>3 DEF At, Moved, Accounted, Exists
    <2>2. CASE q # r
      <3>1. req'[q] = req[q] /\ At(q, "append")
        BY <2>2, <1>3 DEF Moved, At
      <3>2. req[q].acc # 0 /\ Accounted(req[q].acc)
        BY <3>1 DEF OnDisk, Requests, Staged, Unsure, At
      <3> QED BY <3>1, <3>2, <1>1
    <2> QED BY <2>1, <2>2
  <1>4. \A b \in disk' : Accounted(b)'
    BY <1>1, <1>2 DEF OnDisk
  <1> QED BY <1>3, <1>4 DEF OnDisk

\* The user row.
User == [acc : 0..MaxAccount, pw : BOOLEAN, linked : BOOLEAN]

\* A step of a handler that neither touches refresh tokens nor devices.
Quiet(r, to, a) ==
    /\ Moved(r, to, a, req[r].new) /\ Calm /\ dev' = dev
    /\ user' \in User /\ (user'.acc = 0 => ~user'.pw /\ ~user'.linked)
    /\ user.acc # 0 => user'.acc = user.acc
    /\ next' \in 1..(MaxAccount + 1) /\ link' \in 0..MaxAccount
    /\ mix' = mix /\ lost' = lost /\ job' = job

\* A quiet step preserves all of the invariant but what is on disk.
LEMMA QuietStep ==
  ASSUME AccountInv, NEW r \in Req, NEW to \in PCs, NEW a \in 0..MaxAccount, Quiet(r, to, a),
         disk' \subseteq Account, late' \subseteq Account,
         Staged(req'[r]), req[r].kind \in Carriers \/ req[r].new # 0 => a = req[r].acc,
         Refreshing(r) /\ (to = "refused" \/ (req[r].pc \in {"access", "refresh", "ok"}
                             /\ to \notin {"access", "refresh", "ok"}))
            => dev[req[r].dev].excused \/ ~dev[req[r].dev].in
  PROVE  AccountTypeOK' /\ Requests' /\ LiveRows' /\ OnePlace' /\ OneFlight' /\ Sessions'
  <1> USE DEF AccountInv, Quiet
  <1>1. AccountTypeOK'
    BY DEF AccountTypeOK, Calm, Moved, User
  <1>2. Requests'
    BY QuietRequests
  <1>3. LiveRows'
    <2>1. \A p \in Pair : "live" \in {pairs'[p].access, pairs'[p].refresh} =>
            "live" \in {pairs[p].access, pairs[p].refresh} /\ pairs'[p].acc = pairs[p].acc
      BY DEF Calm
    <2> QED BY <2>1 DEF LiveRows
  <1>4. OnePlace'
    BY QuietOnePlace DEF Calm
  <1>5. OneFlight'
    BY QuietOneFlight
  <1>6. Sessions'
    BY QuietSessions DEF Calm
  <1> QED BY <1>1, <1>2, <1>3, <1>4, <1>5, <1>6

\* A slot that no request uses.
LEMMA FreeFields ==
  /\ Free \in Handler
  /\ Free.kind = "none" /\ Free.pc = "none" /\ Free.acc = 0 /\ Free.old = 0 /\ Free.new = 0
  /\ Free.waits = FALSE
  <1>1. PICK d \in Device : d = CHOOSE e \in Device : TRUE
    BY AccountAssumption
  <1>2. Free = [kind |-> "none", pc |-> "none", dev |-> d, acc |-> 0, old |-> 0, new |-> 0, waits |-> FALSE]
    BY <1>1 DEF Free
  <1>3. "none" \in Kinds /\ "none" \in PCs /\ 0 \in 0..MaxAccount /\ 0 \in 0..MaxPair
    BY AccountAssumption DEF Kinds, PCs
  <1> QED BY <1>2, <1>3 DEF Handler

\* An idle slot is at no step.
LEMMA BusyKind ==
  ASSUME AccountInv, NEW r \in Req, req[r].pc # "none"
  PROVE  req[r].kind # "none"
  BY FreeFields DEF AccountInv, Requests, Staged

\* A step that leaves the token rows alone is calm.
LEMMA SamePairs ==
  ASSUME AccountTypeOK, pairs' = pairs
  PROVE  Calm
  BY DEF AccountTypeOK, Calm

\* A step that leaves the user row alone keeps its type.
LEMMA SameUser ==
  ASSUME AccountInv, user' = user
  PROVE  user' \in User /\ (user'.acc = 0 => ~user'.pw /\ ~user'.linked)
  BY DEF AccountInv, AccountTypeOK, User, LiveRows

\* A handler at `from` goes on to `to`, and nothing else changes.
LEMMA PassiveStep ==
  ASSUME AccountInv, NEW r \in Req, NEW to \in PCs, NEW a \in 0..MaxAccount,
         Moved(r, to, a, req[r].new), Staged(req'[r]), to # "append", req[r].pc # "purge",
         req[r].kind \in Carriers \/ req[r].new # 0 => a = req[r].acc,
         Refreshing(r) /\ (to = "refused" \/ (req[r].pc \in {"access", "refresh", "ok"}
                             /\ to \notin {"access", "refresh", "ok"}))
            => dev[req[r].dev].excused \/ ~dev[req[r].dev].in,
         link' \in 0..MaxAccount, UNCHANGED <<mix, user, next, pairs, dev, disk, late, lost, job>>
  PROVE  AccountInv'
  <1>1. Quiet(r, to, a)
    BY SamePairs, SameUser DEF Quiet, AccountInv, AccountTypeOK
  <1>2. AccountTypeOK' /\ Requests' /\ LiveRows' /\ OnePlace' /\ OneFlight' /\ Sessions'
    BY <1>1, QuietStep DEF AccountInv, AccountTypeOK
  <1>3. OnDisk'
    BY QuietOnDisk DEF AccountInv
  <1> QED BY <1>2, <1>3 DEF AccountInv

\* The record of a handler that is somewhere, as the steps read it.
LEMMA HandlerAt ==
  ASSUME AccountInv, NEW r \in Req, NEW from, At(r, from), from # "none"
  PROVE  /\ AccountTypeOK /\ req[r].pc = from /\ req[r].kind # "none" /\ req[r].kind \in Kinds
         /\ req[r].acc \in 0..MaxAccount /\ req[r].old \in 0..MaxPair /\ req[r].new \in 0..MaxPair
         /\ Staged(req[r]) /\ Tokened(req[r], pairs) /\ req[r].dev \in Device
         /\ user.acc \in 0..MaxAccount /\ (user.pw \/ user.linked => user.acc # 0)
  <1>1. AccountTypeOK /\ Staged(req[r]) /\ Tokened(req[r], pairs) /\ req[r].pc = from /\ LiveRows
    BY DEF AccountInv, Requests, At
  <1>2. user.acc \in 0..MaxAccount /\ user.pw \in BOOLEAN /\ user.linked \in BOOLEAN
    BY <1>1 DEF AccountTypeOK
  <1> QED BY <1>1, <1>2, BusyKind, HandlerFields DEF LiveRows

\* The identity provider's answer preserves the invariant.
LEMMA VouchInv ==
  ASSUME AccountInv, NEW r \in Req, VerifyIdToken(r) \/ UserInfo(r)
  PROVE  AccountInv'
  <1>1. PICK to \in {"identity", "lookup", "refused"} : Goto(r, to)
    BY DEF VerifyIdToken, UserInfo, Vouch
  <1>2. /\ At(r, "vouch")
        /\ UNCHANGED <<mix, user, next, pairs, link, dev, disk, late, lost, job>>
    BY DEF VerifyIdToken, UserInfo, Vouch
  <1>3. to \in PCs /\ Moved(r, to, req[r].acc, req[r].new)
    BY <1>1, GotoMoves DEF PCs, AccountInv
  <1>4. Staged(req'[r]) /\ req[r].kind \in SignIn
    BY <1>2, <1>3, HandlerAt DEF Staged, Moved, Unsure
  <1> QED BY <1>2, <1>3, <1>4, HandlerAt, PassiveStep DEF AccountTypeOK, Refreshing, SignIn

\* The lookup by identity preserves the invariant.
LEMMA IdentityInv ==
  ASSUME AccountInv, NEW r \in Req, Identity(r)
  PROVE  AccountInv'
  <1>1. At(r, "identity") /\ UNCHANGED <<mix, user, next, pairs, link, dev, disk, late, lost, job>>
    BY DEF Identity
  <1>2. PICK to \in {"access", "lookup"}, a \in 0..MaxAccount :
           Moved(r, to, a, req[r].new) /\ (to = "access" => a # 0)
    <2>1. CASE user.linked
      BY <1>1, <2>1, HandlerAt, GotoAsMoves DEF Identity, PCs
    <2>2. CASE ~user.linked
      BY <1>1, <2>2, HandlerAt, GotoMoves DEF Identity, PCs
    <2> QED BY <2>1, <2>2
  <1>3. Staged(req'[r]) /\ req[r].kind \in SignIn /\ req[r].new = 0
    BY <1>1, <1>2, HandlerAt DEF Staged, Moved, Unsure, Issuing
  <1>4. to \in PCs /\ to \notin {"append", "refused"} /\ req[r].pc = "identity" /\ link' \in 0..MaxAccount
    BY <1>1, <1>2, HandlerAt DEF AccountTypeOK, PCs
  <1>5. ~Refreshing(r) /\ req[r].kind \notin Carriers
    BY <1>3 DEF Refreshing, SignIn, Carriers
  <1> QED BY <1>1, <1>2, <1>3, <1>4, <1>5, PassiveStep

\* The lookup by email preserves the invariant.
LEMMA LookupInv ==
  ASSUME AccountInv, NEW r \in Req, Lookup(r)
  PROVE  AccountInv'
  <1>1. At(r, "lookup") /\ UNCHANGED <<mix, user, next, pairs, link, dev, disk, late, lost, job>>
    BY DEF Lookup
  <1>2. PICK to \in {"refused", "create", "rehash", "access", "link", "attach"} :
           GotoAs(r, to, user.acc) /\ (to \notin {"refused", "create"} => user.acc # 0)
    <2>1. CASE req[r].kind = "signup"
      BY <2>1 DEF Lookup, SignupTo
    <2>2. CASE req[r].kind = "login"
      BY <1>1, <2>2, HandlerAt DEF Lookup, LoginTo
    <2>3. CASE req[r].kind \notin {"signup", "login"}
      BY <2>3 DEF Lookup, FederatedTo
    <2> QED BY <2>1, <2>2, <2>3
  <1>3. to \in PCs /\ Moved(r, to, user.acc, req[r].new)
    BY <1>1, <1>2, HandlerAt, GotoAsMoves DEF PCs
  <1>4. Staged(req'[r]) /\ req[r].kind \in SignIn /\ req[r].new = 0
    BY <1>1, <1>2, <1>3, HandlerAt DEF Staged, Moved, Unsure, Issuing
  <1> QED BY <1>1, <1>2, <1>3, <1>4, HandlerAt, PassiveStep DEF AccountTypeOK, Refreshing, SignIn, Carriers

\* Consuming the one-time link preserves the invariant.
LEMMA ConsumeInv ==
  ASSUME AccountInv, NEW r \in Req, Consume(r)
  PROVE  AccountInv'
  <1>1. /\ At(r, "consume") /\ UNCHANGED <<mix, user, next, pairs, dev, disk, late, lost, job>>
        /\ link' = 0 /\ link \in 0..MaxAccount
    BY DEF Consume, AccountInv, AccountTypeOK
  <1>2. PICK to \in {"access", "refused"} : GotoAs(r, to, link) /\ (to = "access" => link # 0)
    BY DEF Consume
  <1>3. to \in PCs /\ Moved(r, to, link, req[r].new)
    BY <1>1, <1>2, HandlerAt, GotoAsMoves DEF PCs
  <1>4. Staged(req'[r]) /\ req[r].kind \in SignIn /\ req[r].new = 0
    BY <1>1, <1>2, <1>3, HandlerAt DEF Staged, Moved, Unsure, Issuing
  <1>5. link' \in 0..MaxAccount
    BY <1>1, AccountAssumption
  <1> QED BY <1>1, <1>2, <1>3, <1>4, <1>5, HandlerAt, PassiveStep DEF Refreshing, SignIn, Carriers

\* The order of the deletion, step by step.
LEMMA DeletionOrder ==
  /\ DeleteOrder[1] = "revokeall"
  /\ NextDelete("revokeall") = "audit" /\ NextDelete("audit") = "delete"
  /\ NextDelete("delete") = "cascade" /\ NextDelete("cascade") = "purge" /\ NextDelete("purge") = "ok"
  <1>1. /\ DOMAIN DeleteOrder = 1..6
        /\ DeleteOrder[1] = "revokeall" /\ DeleteOrder[2] = "audit" /\ DeleteOrder[3] = "delete"
        /\ DeleteOrder[4] = "cascade" /\ DeleteOrder[5] = "purge" /\ DeleteOrder[6] = "ok"
    BY DEF DeleteOrder
  <1> HIDE DEF DeleteOrder
  <1>2. \A i \in 1..6 : \A pc \in {"revokeall", "audit", "delete", "cascade", "purge"} :
           DeleteOrder[i] = pc => \A j \in 1..6 : DeleteOrder[j] = pc => j = i
    BY <1>1
  <1>3. Place("revokeall") = 1
    BY <1>1 DEF Place
  <1>4. Place("audit") = 2
    BY <1>1 DEF Place
  <1>5. Place("delete") = 3
    BY <1>1 DEF Place
  <1>6. Place("cascade") = 4
    BY <1>1 DEF Place
  <1>7. Place("purge") = 5
    BY <1>1 DEF Place
  <1> QED BY <1>1, <1>3, <1>4, <1>5, <1>6, <1>7 DEF NextDelete

\* The audit row, the DELETE and the row of an idea leave the model's tables
\* as they are.
LEMMA WaitingInv ==
  ASSUME AccountInv, NEW r \in Req, Audit(r) \/ Delete(r) \/ InsertIdea(r)
  PROVE  AccountInv'
  <1>1. PICK from \in {"audit", "delete", "insert"}, to \in {"delete", "cascade", "ok", "failed"} :
          /\ At(r, from) /\ Goto(r, to)
          /\ from = "insert" <=> to \in {"ok", "failed"}
          /\ UNCHANGED <<mix, user, next, pairs, link, dev, disk, late, lost, job>>
    <2>1. CASE Audit(r)
      BY <2>1, DeletionOrder DEF Audit
    <2>2. CASE Delete(r)
      BY <2>2, DeletionOrder DEF Delete
    <2>3. CASE InsertIdea(r)
      BY <2>3 DEF InsertIdea
    <2> QED BY <2>1, <2>2, <2>3
  <1>2. to \in PCs /\ Moved(r, to, req[r].acc, req[r].new)
    BY <1>1, HandlerAt, GotoMoves DEF PCs
  <1>3. Staged(req'[r]) /\ req[r].kind \in {"delete", "capture"}
    BY <1>1, <1>2, HandlerAt DEF Staged, Moved, Unsure, Issuing, SignIn
  <1> QED BY <1>1, <1>2, <1>3, HandlerAt, PassiveStep DEF AccountTypeOK, Refreshing

\* Rehashing a password preserves the invariant.
LEMMA RehashInv ==
  ASSUME AccountInv, NEW r \in Req, Rehash(r)
  PROVE  AccountInv'
  <1>1. /\ At(r, "rehash") /\ Goto(r, "access")
        /\ UNCHANGED <<mix, next, pairs, link, dev, disk, late, lost, job>>
    BY DEF Rehash
  <1>2. Moved(r, "access", req[r].acc, req[r].new)
    BY <1>1, HandlerAt, GotoMoves DEF PCs
  <1>3. Staged(req'[r]) /\ req[r].kind \in SignIn /\ req[r].acc # 0
    BY <1>1, <1>2, HandlerAt DEF Staged, Moved, Unsure, Issuing
  <1>4. user' \in User /\ user'.acc = user.acc /\ (user'.acc = 0 => ~user'.pw /\ ~user'.linked)
    <2>1. user \in User /\ user' = [user EXCEPT !.pw = user.pw \/ user.acc = req[r].acc]
      BY DEF Rehash, Exists, AccountInv, AccountTypeOK, User
    <2>2. user' \in User /\ user'.acc = user.acc /\ user'.linked = user.linked
          /\ (user'.pw => user.pw \/ user.acc = req[r].acc)
      BY <2>1 DEF User
    <2> QED BY <2>1, <2>2, <1>3 DEF AccountInv, LiveRows
  <1>5. Quiet(r, "access", req[r].acc)
    BY <1>1, <1>2, <1>4, SamePairs DEF Quiet, AccountInv, AccountTypeOK
  <1>6. AccountTypeOK' /\ Requests' /\ LiveRows' /\ OnePlace' /\ OneFlight' /\ Sessions'
    BY <1>1, <1>3, <1>5, HandlerAt, QuietStep DEF AccountTypeOK, Refreshing, SignIn, PCs
  <1>7. OnDisk'
    BY <1>1, <1>2, <1>4, HandlerAt, QuietOnDisk DEF AccountInv
  <1> QED BY <1>6, <1>7 DEF AccountInv

\* Creating the account preserves the invariant.
LEMMA CreateInv ==
  ASSUME AccountInv, NEW r \in Req, Create(r)
  PROVE  AccountInv'
  <1>1. At(r, "create") /\ UNCHANGED <<mix, pairs, link, dev, disk, late, lost, job>>
    BY DEF Create
  <1>2. CASE user.acc # 0 /\ Goto(r, "failed") /\ UNCHANGED <<user, next>>
    <2>1. Moved(r, "failed", req[r].acc, req[r].new)
      BY <1>1, <1>2, HandlerAt, GotoMoves DEF PCs
    <2>2. Staged(req'[r]) /\ req[r].kind \in SignIn
      BY <1>1, <2>1, HandlerAt DEF Staged, Moved, Unsure, Issuing
    <2>3. "failed" \in PCs /\ req[r].pc = "create" /\ req[r].acc \in 0..MaxAccount
          /\ link' \in 0..MaxAccount
      BY <1>1, HandlerAt DEF AccountTypeOK, PCs
    <2>4. ~Refreshing(r)
      BY <2>2 DEF Refreshing, SignIn
    <2> QED BY <1>1, <1>2, <2>1, <2>2, <2>3, <2>4, PassiveStep
  <1>3. CASE /\ user.acc = 0 /\ next \in Account
             /\ user' = NewUser(req[r].kind)
             /\ next' = next + 1
             /\ GotoAs(r, "access", next)
    <2>1. next \in 0..MaxAccount /\ next # 0 /\ next' \in 1..(MaxAccount + 1)
      BY <1>3, AccountAssumption DEF Account
    <2>2. Moved(r, "access", next, req[r].new)
      BY <1>1, <1>3, <2>1, HandlerAt, GotoAsMoves DEF PCs
    <2>3. Staged(req'[r]) /\ req[r].kind \in SignIn /\ req[r].new = 0
      BY <1>1, <2>1, <2>2, HandlerAt DEF Staged, Moved, Unsure, Issuing
    <2>4. user' \in User /\ user'.acc = next
      <3>1. PICK x \in BOOLEAN, y \in BOOLEAN : user' = [acc |-> next, pw |-> x, linked |-> y]
        BY <1>3 DEF NewUser
      <3> QED BY <2>1, <3>1 DEF User
    <2>5. Quiet(r, "access", next)
      BY <1>1, <1>3, <2>1, <2>2, <2>4, SamePairs DEF Quiet, AccountInv, AccountTypeOK
    <2>6. AccountTypeOK' /\ Requests' /\ LiveRows' /\ OnePlace' /\ OneFlight' /\ Sessions'
      BY <1>1, <2>1, <2>3, <2>5, HandlerAt, QuietStep DEF AccountTypeOK, Refreshing, SignIn, PCs, Carriers
    <2>7. OnDisk'
      BY <1>1, <1>3, <2>2, HandlerAt, QuietOnDisk DEF AccountInv
    <2> QED BY <2>6, <2>7 DEF AccountInv
  <1> QED BY <1>2, <1>3 DEF Create

\* Linking or attaching an identity preserves the invariant.
LEMMA LinkInv ==
  ASSUME AccountInv, NEW r \in Req, Link(r)
  PROVE  AccountInv'
  <1>1. PICK from \in {"attach", "link"}, to \in {"revokeall", "access", "failed"} :
          At(r, from) /\ Goto(r, to) /\ UNCHANGED <<mix, next, pairs, link, dev, disk, late, lost, job>>
    <2>1. PICK from \in {"attach", "link"} : At(r, from)
      BY DEF Link, At
    <2> QED BY <2>1 DEF Link
  <1>2. to \in PCs /\ Moved(r, to, req[r].acc, req[r].new)
    BY <1>1, HandlerAt, GotoMoves DEF PCs
  <1>3. Staged(req'[r]) /\ req[r].kind \in SignIn /\ req[r].acc # 0
    BY <1>1, <1>2, HandlerAt DEF Staged, Moved, Unsure, Issuing
  <1>4. user' \in User /\ user'.acc = user.acc /\ (user'.acc = 0 => ~user'.pw /\ ~user'.linked)
    <2>1. CASE user' = user
      BY <2>1, SameUser
    <2>2. CASE user' # user
      <3>1. PICK x \in BOOLEAN, y \in BOOLEAN : user' = [user EXCEPT !.pw = x, !.linked = y]
        <4>1. user.pw \in BOOLEAN /\ user.linked \in BOOLEAN
          BY DEF AccountInv, AccountTypeOK
        <4>2. user' = [user EXCEPT !.pw = user.pw /\ ~At(r, "link"),
                                   !.linked = user.linked \/ req[r].kind = "social"]
          BY <2>2 DEF Link
        <4>3. (user.pw /\ ~At(r, "link")) \in BOOLEAN /\ (user.linked \/ req[r].kind = "social") \in BOOLEAN
          BY <4>1
        <4> QED BY <4>2, <4>3
      <3>2. user.acc = req[r].acc
        BY <2>2 DEF Link, Exists
      <3>3. user \in User
        BY DEF AccountInv, AccountTypeOK, User
      <3>4. user' \in User /\ user'.acc = user.acc
        BY <3>1, <3>3 DEF User
      <3> QED BY <3>2, <3>4, <1>3
    <2> QED BY <2>1, <2>2
  <1>5. Quiet(r, to, req[r].acc)
    BY <1>1, <1>2, <1>4, SamePairs DEF Quiet, AccountInv, AccountTypeOK
  <1>6. AccountTypeOK' /\ Requests' /\ LiveRows' /\ OnePlace' /\ OneFlight' /\ Sessions'
    BY <1>1, <1>2, <1>3, <1>5, HandlerAt, QuietStep DEF AccountTypeOK, Refreshing, SignIn
  <1>7. OnDisk'
    BY <1>1, <1>2, <1>4, HandlerAt, QuietOnDisk DEF AccountInv
  <1> QED BY <1>6, <1>7 DEF AccountInv

\* The capture's file write preserves the invariant: its account is accounted for.
LEMMA AppendLogInv ==
  ASSUME AccountInv, NEW r \in Req, AppendLog(r)
  PROVE  AccountInv'
  <1>1. /\ At(r, "append") /\ Goto(r, "insert") /\ disk' = disk \cup {req[r].acc}
        /\ UNCHANGED <<mix, user, next, pairs, link, dev, late, lost, job>>
    BY DEF AppendLog
  <1>2. Moved(r, "insert", req[r].acc, req[r].new)
    BY <1>1, HandlerAt, GotoMoves DEF PCs
  <1>3. Staged(req'[r]) /\ req[r].kind = "capture" /\ req[r].acc # 0
    BY <1>1, <1>2, HandlerAt DEF Staged, Moved, Unsure, Issuing, SignIn
  <1>4. Quiet(r, "insert", req[r].acc)
    BY <1>1, <1>2, SamePairs, SameUser DEF Quiet, AccountInv, AccountTypeOK
  <1>5. disk' \subseteq Account
    BY <1>1, <1>3, HandlerAt, AccountAssumption DEF AccountTypeOK, Account
  <1>6. AccountTypeOK' /\ Requests' /\ LiveRows' /\ OnePlace' /\ OneFlight' /\ Sessions'
    <2>1. "insert" \in PCs /\ req[r].acc \in 0..MaxAccount /\ late' \subseteq Account
      BY <1>1, HandlerAt DEF AccountTypeOK, PCs
    <2>2. ~Refreshing(r)
      BY <1>3 DEF Refreshing
    <2> QED BY <1>3, <1>4, <1>5, <2>1, <2>2, QuietStep
  <1>7. \A b : Accounted(b) => Accounted(b)'
    BY <1>1, <1>2 DEF Accounted, At, Moved, Exists
  <1>8. OnDisk'
    BY <1>1, <1>2, <1>7 DEF OnDisk, At, Moved, AccountInv
  <1> QED BY <1>6, <1>8 DEF AccountInv

\* The purge of the files preserves the invariant.
LEMMA PurgeInv ==
  ASSUME AccountInv, NEW r \in Req, Purge(r)
  PROVE  AccountInv'
  <1> DEFINE a == req[r].acc
  <1>1. /\ At(r, "purge") /\ Goto(r, "ok")
        /\ UNCHANGED <<mix, user, next, pairs, link, dev, lost, job>>
    BY DeletionOrder DEF Purge
  <1>2. \/ /\ disk' = disk \ {a}
           /\ late' = late \cup {b \in {a} : \E q \in Req : At(q, "append") /\ req[q].acc = a}
        \/ disk' = disk /\ late' = late \cup {a}
    BY DEF Purge
  <1>3. Moved(r, "ok", a, req[r].new)
    BY <1>1, HandlerAt, GotoMoves DEF PCs
  <1>4. Staged(req'[r]) /\ req[r].kind = "delete" /\ a # 0
    BY <1>1, <1>3, HandlerAt DEF Staged, Moved, Unsure, Issuing, SignIn
  <1>5. Quiet(r, "ok", a)
    BY <1>1, <1>3, SamePairs, SameUser DEF Quiet, AccountInv, AccountTypeOK
  <1>6. a \in Account
    BY <1>1, <1>4, HandlerAt, AccountAssumption DEF Account
  <1>7. disk' \subseteq Account /\ late' \subseteq Account
    BY <1>2, <1>6 DEF AccountInv, AccountTypeOK
  <1>8. AccountTypeOK' /\ Requests' /\ LiveRows' /\ OnePlace' /\ OneFlight' /\ Sessions'
    <2>1. "ok" \in PCs /\ a \in 0..MaxAccount
      BY <1>1, HandlerAt DEF PCs
    <2>2. ~Refreshing(r)
      BY <1>4 DEF Refreshing
    <2> QED BY <1>4, <1>5, <1>7, <2>1, <2>2, QuietStep
  <1>9. \A b : b # a /\ Accounted(b) => Accounted(b)'
    BY <1>1, <1>2, <1>3 DEF Accounted, At, Moved, Exists
  <1>10. \A b \in disk' : Accounted(b)'
    BY <1>2, <1>9 DEF AccountInv, OnDisk, Accounted
  <1>11. ASSUME NEW q \in Req, At(q, "append")' PROVE Accounted(req[q].acc)'
    <2>1. q # r /\ req'[q] = req[q] /\ At(q, "append")
      BY <1>11, <1>3 DEF Moved, At
    <2>2. CASE req[q].acc = a
      BY <1>2, <2>1, <2>2 DEF Accounted
    <2>3. CASE req[q].acc # a
      BY <1>9, <2>1, <2>3 DEF AccountInv, OnDisk
    <2> QED BY <2>2, <2>3
  <1> QED BY <1>8, <1>10, <1>11 DEF AccountInv, OnDisk

\* The check of an access token preserves the invariant.
LEMMA ExtractInv ==
  ASSUME AccountInv, NEW r \in Req, Extract(r)
  PROVE  AccountInv'
  <1> DEFINE p == req[r].old
  <1>1. /\ At(r, "live") /\ req[r].kind # "refresh"
        /\ UNCHANGED <<mix, user, next, link, dev, disk, late, lost, job>>
    BY DEF Extract
  <1>2. PICK to \in {"revokeall", "append", "refused"} :
          /\ Goto(r, to)
          /\ to = "append" => req[r].kind # "delete" /\ pairs[p].access = "live"
          /\ to = "revokeall" => req[r].kind = "delete"
          /\ pairs' = pairs \/ pairs' = [pairs EXCEPT ![p].access = "dead"]
    BY DeletionOrder DEF Extract
  <1>3. /\ req[r].kind \in {"delete", "capture"} /\ p \in Pair /\ req[r].new = 0
        /\ pairs[p].acc = req[r].acc /\ req[r].acc # 0
    BY <1>1, HandlerAt, AccountAssumption DEF Staged, Tokened, Carriers, Pair
  <1>4. to \in PCs /\ Moved(r, to, req[r].acc, req[r].new)
    BY <1>1, <1>2, HandlerAt, GotoMoves DEF PCs
  <1>5. Staged(req'[r])
    BY <1>1, <1>2, <1>3, <1>4, HandlerAt DEF Staged, Moved, Unsure, Issuing, SignIn
  <1>6. Calm
    <2>1. PICK s : s = pairs[p]
      OBVIOUS
    <2>2. s \in Rows /\ pairs \in [Pair -> Rows]
      BY <1>3, <2>1 DEF AccountInv, AccountTypeOK
    <2> DEFINE t == [s EXCEPT !.access = "dead"]
    <2>3. t \in Rows /\ t.acc = s.acc /\ t.refresh = s.refresh /\ t.access = "dead"
      BY <2>2 DEF Rows
    <2>4. pairs' = pairs \/ pairs' = [pairs EXCEPT ![p] = t]
      BY <1>2, <2>1
    <2> HIDE DEF t
    <2>5. t \in Rows
      BY <2>3
    <2>6. pairs' \in [Pair -> Rows]
      BY <2>2, <2>4, <2>5
    <2> QED BY <1>3, <2>1, <2>2, <2>3, <2>4, <2>6 DEF Calm
  <1>7. Quiet(r, to, req[r].acc)
    BY <1>1, <1>4, <1>6, SameUser DEF Quiet, AccountInv, AccountTypeOK
  <1>8. AccountTypeOK' /\ Requests' /\ LiveRows' /\ OnePlace' /\ OneFlight' /\ Sessions'
    BY <1>1, <1>4, <1>5, <1>7, HandlerAt, QuietStep DEF AccountTypeOK, Refreshing
  <1>9. to = "append" => Accounted(req[r].acc)
    BY <1>2, <1>3 DEF AccountInv, LiveRows, Accounted, Exists
  <1>10. OnDisk'
    BY <1>1, <1>3, <1>4, <1>9, HandlerAt, QuietOnDisk DEF AccountInv
  <1> QED BY <1>8, <1>10 DEF AccountInv

\* What Excuse does to a device.
LEMMA ExcuseFields ==
  ASSUME AccountTypeOK, NEW hit \in SUBSET Pair, Excuse(hit)
  PROVE  /\ dev' \in [Device -> Repository]
         /\ \A d \in Device : /\ dev'[d].held = dev[d].held /\ dev'[d].in = dev[d].in
                              /\ dev'[d].raced = dev[d].raced
                              /\ dev'[d].excused <=> dev[d].excused \/ dev[d].held \in hit
  <1>1. ASSUME NEW d \in Device
        PROVE  /\ dev'[d] \in Repository
               /\ dev'[d].held = dev[d].held /\ dev'[d].in = dev[d].in /\ dev'[d].raced = dev[d].raced
               /\ dev'[d].excused <=> dev[d].excused \/ dev[d].held \in hit
    <2>1. PICK s : s = dev[d]
      OBVIOUS
    <2>2. s \in Repository
      BY <2>1 DEF AccountTypeOK
    <2> DEFINE t == [s EXCEPT !.excused = TRUE]
    <2>3. t \in Repository /\ t.held = s.held /\ t.in = s.in /\ t.raced = s.raced /\ t.excused = TRUE
      BY <2>2 DEF Repository
    <2>4. dev'[d] = IF s.held \in hit THEN t ELSE s
      BY <2>1 DEF Excuse
    <2> HIDE DEF t
    <2> QED BY <2>1, <2>2, <2>3, <2>4
  <1>2. DOMAIN dev' = Device /\ dev' = [d \in Device |-> dev'[d]]
    BY DEF Excuse
  <1> QED BY <1>1, <1>2

\* A step of a handler that revokes pairs, at least those of an account that
\* goes, and excuses the devices that hold them.
LEMMA RevokingStep ==
  ASSUME AccountInv, NEW r \in Req, NEW to, NEW a, NEW hit \in SUBSET Pair,
         Moved(r, to, a, req[r].new), Excuse(hit),
         \A p \in Pair : pairs'[p].acc = pairs[p].acc,
         \A p \in Pair \ hit : pairs'[p] = pairs[p] /\ (pairs[p].acc = user.acc => user'.acc = user.acc),
         Refreshing(r) => /\ req[r].pc \notin {"access", "refresh", "ok"} \/ req[r].old \in hit
                          /\ to = "refused" => req[r].old \in hit
  PROVE  OnePlace' /\ OneFlight' /\ Sessions'
  <1>1. \A q \in Req : /\ req'[q].kind = req[q].kind /\ req'[q].old = req[q].old /\ req'[q].new = req[q].new
                       /\ req'[q].dev = req[q].dev /\ req'[q].waits = req[q].waits
                       /\ req[q].dev \in Device
    BY HandlerFields DEF Moved, AccountInv
  <1>2. \A d \in Device : dev[d].held # 0 => dev[d].held \in Pair /\ pairs[dev[d].held].acc # 0
    BY AccountAssumption DEF AccountTypeOK, Repository, Pair, OnePlace, AccountInv
  <1>3. \A d \in Device : /\ dev'[d].held = dev[d].held /\ dev'[d].in = dev[d].in
                          /\ dev'[d].raced = dev[d].raced
                          /\ dev'[d].excused <=> dev[d].excused \/ dev[d].held \in hit
    BY ExcuseFields DEF AccountInv
  <1>4. OnePlace'
    BY <1>1, <1>2, <1>3 DEF OnePlace, AccountInv
  <1>5. OneFlight'
    BY <1>1, <1>3 DEF OneFlight, Refreshing, AccountInv
  <1>6. \A d \in Device, q \in Req : Rotating(q, d) /\ dev[d].held \notin hit => Rotating(q, d)'
    BY <1>1, <1>3 DEF Rotating, Refreshing, Moved
  <1>7. ASSUME NEW d \in Device
        PROVE  (IF dev[d].in
                THEN ~dev[d].excused =>
                       /\ dev[d].held # 0 /\ Exists(pairs[dev[d].held].acc)
                       /\ pairs[dev[d].held].refresh = "live" \/ \E q \in Req : Rotating(q, d)
                ELSE dev[d].held = 0 \/ dev[d].raced)'
    <2>1. CASE dev[d].in /\ ~dev'[d].excused
      <3>1. ~dev[d].excused /\ dev[d].held \notin hit
        BY <2>1, <1>3
      <3>2. /\ dev[d].held # 0 /\ Exists(pairs[dev[d].held].acc)
            /\ pairs[dev[d].held].refresh = "live" \/ \E q \in Req : Rotating(q, d)
        BY <2>1, <3>1 DEF AccountInv, Sessions
      <3>3. pairs'[dev[d].held] = pairs[dev[d].held] /\ user'.acc = user.acc
        BY <3>1, <3>2, <1>2 DEF Exists
      <3>4. dev'[d].held = dev[d].held /\ dev'[d].in /\ \A q \in Req : Rotating(q, d) => Rotating(q, d)'
        BY <2>1, <3>1, <1>3, <1>6
      <3> HIDE DEF Rotating
      <3> QED BY <3>2, <3>3, <3>4 DEF Exists
    <2>2. CASE ~(dev[d].in /\ ~dev'[d].excused)
      BY <2>2, <1>3 DEF AccountInv, Sessions
    <2> QED BY <2>1, <2>2
  <1>8. \A q \in Req : req'[q].kind = "refresh" /\ ~req'[q].waits =>
         \A d \in Device : dev'[d].held = req'[q].old => dev'[d].excused \/ ~dev'[d].in
    BY <1>1, <1>3 DEF Sessions, AccountInv
  <1>9. ASSUME NEW q \in Req, Refreshing(q)', At(q, "refused")'
        PROVE  dev'[req'[q].dev].excused \/ ~dev'[req'[q].dev].in
    <2>1. Refreshing(q)
      BY <1>1, <1>9 DEF Refreshing
    <2>2. CASE q = r
      <3>1. req[r].old \in hit
        BY <2>1, <2>2, <1>9 DEF Moved, At
      <3>2. dev[req[r].dev].in => dev[req[r].dev].held = req[r].old
        BY <2>1, <2>2 DEF AccountInv, OneFlight
      <3> QED BY <2>2, <3>1, <3>2, <1>1, <1>3
    <2>3. CASE q # r
      BY <2>1, <2>3, <1>1, <1>3, <1>9 DEF AccountInv, Sessions, Moved, At
    <2> QED BY <2>2, <2>3
  <1> QED BY <1>4, <1>5, <1>7, <1>8, <1>9 DEF Sessions

\* The rows of a revoked pair.
LEMMA DeadFields ==
  ASSUME NEW s \in Rows
  PROVE  Dead(s) \in Rows /\ Dead(s).acc = s.acc /\ Dead(s).access = "dead" /\ Dead(s).refresh = "dead"
  BY DEF Dead, Rows

\* What revoke_user_sessions does to the table.
LEMMA RevokedAllFields ==
  ASSUME AccountTypeOK, NEW a, pairs' = RevokedAll(a)
  PROVE  /\ pairs' \in [Pair -> Rows]
         /\ \A p \in Pair : /\ pairs'[p].acc = pairs[p].acc
                            /\ pairs[p].acc # a => pairs'[p] = pairs[p]
                            /\ pairs[p].acc = a => pairs'[p].access = "dead" /\ pairs'[p].refresh = "dead"
  <1>1. \A p \in Pair : pairs[p] \in Rows
    BY DEF AccountTypeOK
  <1>2. \A p \in Pair : pairs'[p] = IF pairs[p].acc = a THEN Dead(pairs[p]) ELSE pairs[p]
    BY DEF RevokedAll
  <1>3. \A p \in Pair : pairs'[p] \in Rows
    BY <1>1, <1>2, DeadFields
  <1>4. pairs' = [p \in Pair |-> pairs'[p]]
    BY DEF RevokedAll
  <1> QED BY <1>1, <1>2, <1>3, <1>4, DeadFields

\* Requests keep their pairs when the rows keep their accounts.
LEMMA MovedRequests ==
  ASSUME AccountTypeOK, Requests, NEW r \in Req, NEW to,
         Moved(r, to, req[r].acc, req[r].new), Staged(req'[r]),
         \A p \in Pair : pairs'[p].acc = pairs[p].acc
  PROVE  Requests'
  <1>1. ASSUME NEW q \in Req PROVE Staged(req'[q])
    BY <1>1 DEF Moved, Requests
  <1>2. ASSUME NEW q \in Req PROVE Tokened(req'[q], pairs')
    <2>1. Tokened(req[q], pairs) /\ req[q].old \in 0..MaxPair /\ req[q].new \in 0..MaxPair
      BY HandlerFields DEF Requests
    <2>2. /\ req'[q].kind = req[q].kind /\ req'[q].old = req[q].old /\ req'[q].new = req[q].new
          /\ req'[q].acc = req[q].acc
      BY DEF Moved
    <2>3. \A p \in 0..MaxPair : p # 0 => pairs'[p].acc = pairs[p].acc
      BY AccountAssumption DEF Pair
    <2> QED BY <2>1, <2>2, <2>3 DEF Tokened
  <1> QED BY <1>1, <1>2 DEF Requests

\* A refresh that is not on its way to a new pair: if its device counts on its
\* tokens, the refresh token is live.
LEMMA CountsOnToken ==
  ASSUME AccountInv, NEW r \in Req, Refreshing(r),
         dev[req[r].dev].in, ~dev[req[r].dev].excused
  PROVE  /\ Exists(req[r].acc)
         /\ req[r].pc \notin {"access", "refresh", "ok"} => pairs[req[r].old].refresh = "live"
  <1> DEFINE d == req[r].dev
  <1>1. d \in Device
    BY HandlerFields DEF AccountInv
  <1>2. dev[d].held = req[r].old
    BY DEF AccountInv, OneFlight
  <1>3. /\ Exists(pairs[dev[d].held].acc)
        /\ pairs[dev[d].held].refresh = "live" \/ \E q \in Req : Rotating(q, d)
    BY <1>1 DEF AccountInv, Sessions
  <1>4. pairs[req[r].old].acc = req[r].acc
    BY DEF AccountInv, Requests, Tokened, Refreshing, Carriers
  <1>5. \A q \in Req : Rotating(q, d) => q = r
    BY DEF AccountInv, OneFlight, Rotating, Refreshing
  <1>6. \A q \in Req : Rotating(q, d) => req[r].pc \in {"access", "refresh", "ok"}
    BY <1>5 DEF Rotating
  <1> QED BY <1>2, <1>3, <1>4, <1>6

\* The check of a refresh token preserves the invariant.
LEMMA SessionIsLiveInv ==
  ASSUME AccountInv, NEW r \in Req, SessionIsLive(r)
  PROVE  AccountInv'
  <1> DEFINE p == req[r].old
  <1>1. /\ At(r, "live") /\ req[r].kind = "refresh"
        /\ UNCHANGED <<mix, user, next, link, disk, late, lost, job>>
    BY DEF SessionIsLive
  <1>2. PICK to \in {"revoke", "refused"} : Goto(r, to)
    BY DEF SessionIsLive
  <1>3. to \in PCs /\ Moved(r, to, req[r].acc, req[r].new) /\ p \in Pair /\ req[r].acc # 0
    BY <1>1, <1>2, HandlerAt, GotoMoves, AccountAssumption DEF PCs, Tokened, Carriers, Pair
  <1>4. Staged(req'[r])
    BY <1>1, <1>2, <1>3, HandlerAt DEF Staged, Moved, Unsure, Issuing, SignIn
  <1>5. CASE UNCHANGED <<pairs, dev>> /\ (to = "refused" => pairs[p].refresh # "live")
    <2>1. Refreshing(r) /\ to = "refused" => dev[req[r].dev].excused \/ ~dev[req[r].dev].in
      BY <1>1, <1>5, CountsOnToken DEF At
    <2> QED BY <1>1, <1>3, <1>4, <1>5, <2>1, HandlerAt, PassiveStep DEF AccountTypeOK
  <1>6. CASE pairs' = [pairs EXCEPT ![p] = Dead(pairs[p])] /\ Excuse({p})
    <2>1. pairs \in [Pair -> Rows] /\ pairs[p] \in Rows
      BY <1>3 DEF AccountInv, AccountTypeOK
    <2>2. /\ pairs' \in [Pair -> Rows]
          /\ \A x \in Pair : pairs'[x].acc = pairs[x].acc /\ (x # p => pairs'[x] = pairs[x])
          /\ pairs'[p].access = "dead" /\ pairs'[p].refresh = "dead"
      BY <1>3, <1>6, <2>1, DeadFields
    <2>3. AccountTypeOK'
      BY <1>1, <1>3, <1>6, <2>2, ExcuseFields DEF AccountInv, AccountTypeOK, Moved
    <2>4. Requests'
      BY <1>3, <1>4, <2>2, MovedRequests DEF AccountInv
    <2>5. LiveRows'
      <3>1. \A x \in Pair : "live" \in {pairs'[x].access, pairs'[x].refresh} => x # p /\ pairs'[x] = pairs[x]
        BY <2>2
      <3> QED BY <3>1, <1>1 DEF AccountInv, LiveRows
    <2>6. OnePlace' /\ OneFlight' /\ Sessions'
      BY <1>1, <1>3, <1>6, <2>2, RevokingStep DEF At
    <2>7. OnDisk'
      BY <1>1, <1>2, <1>3, HandlerAt, QuietOnDisk DEF AccountInv
    <2> QED BY <2>3, <2>4, <2>5, <2>6, <2>7 DEF AccountInv
  <1>7. \/ UNCHANGED <<pairs, dev>> /\ (to = "refused" => pairs[p].refresh # "live")
        \/ pairs' = [pairs EXCEPT ![p] = Dead(pairs[p])] /\ Excuse({p})
    <2>1. Goto(r, "revoke") => to # "refused"
      BY <1>3, GotoMoves DEF Moved, PCs, AccountInv
    <2> QED BY <2>1 DEF SessionIsLive
  <1> QED BY <1>5, <1>6, <1>7

\* Revoking every token of the account preserves the invariant.
LEMMA RevokeAllInv ==
  ASSUME AccountInv, NEW r \in Req, RevokeAll(r)
  PROVE  AccountInv'
  <1> DEFINE a == req[r].acc
             hit == OfAccount(a)
  <1>1. /\ At(r, "revokeall") /\ pairs' = RevokedAll(a) /\ Excuse(hit)
        /\ UNCHANGED <<mix, user, next, link, disk, late, lost, job>>
    BY DEF RevokeAll
  <1>2. PICK to \in {"audit", "ok", "access"} :
          /\ Goto(r, to) /\ (to = "audit" <=> req[r].kind = "delete") /\ (to = "ok" <=> req[r].kind = "logout")
    <2>1. CASE req[r].kind = "delete"
      BY <2>1, DeletionOrder DEF RevokeAll, AfterRevoke
    <2>2. CASE req[r].kind = "logout"
      BY <2>2 DEF RevokeAll, AfterRevoke
    <2>3. CASE req[r].kind \notin {"delete", "logout"}
      BY <2>3 DEF RevokeAll, AfterRevoke
    <2> QED BY <2>1, <2>2, <2>3
  <1>3. to \in PCs /\ Moved(r, to, a, req[r].new)
    BY <1>1, <1>2, HandlerAt, GotoMoves DEF PCs
  <1>4. Staged(req'[r]) /\ req[r].kind # "refresh"
    BY <1>1, <1>2, <1>3, HandlerAt DEF Staged, Moved, Unsure, Issuing, SignIn
  <1>5. /\ pairs' \in [Pair -> Rows] /\ hit \in SUBSET Pair
        /\ \A p \in Pair : /\ pairs'[p].acc = pairs[p].acc
                           /\ p \notin hit => pairs'[p] = pairs[p]
                           /\ p \in hit => pairs'[p].access = "dead" /\ pairs'[p].refresh = "dead"
    BY <1>1, RevokedAllFields DEF OfAccount, AccountInv
  <1>6. AccountTypeOK'
    BY <1>1, <1>3, <1>5, ExcuseFields DEF AccountInv, AccountTypeOK, Moved
  <1>7. Requests'
    BY <1>3, <1>4, <1>5, MovedRequests DEF AccountInv
  <1>8. LiveRows'
    <2>1. \A x \in Pair : "live" \in {pairs'[x].access, pairs'[x].refresh} => x \notin hit /\ pairs'[x] = pairs[x]
      BY <1>5
    <2> QED BY <2>1, <1>1 DEF AccountInv, LiveRows
  <1>9. OnePlace' /\ OneFlight' /\ Sessions'
    BY <1>1, <1>3, <1>4, <1>5, RevokingStep DEF Refreshing
  <1>10. OnDisk'
    BY <1>1, <1>2, <1>3, HandlerAt, QuietOnDisk DEF AccountInv
  <1> QED BY <1>6, <1>7, <1>8, <1>9, <1>10 DEF AccountInv

\* The cascading delete of the account preserves the invariant.
LEMMA CascadeInv ==
  ASSUME AccountInv, NEW r \in Req, Cascade(r)
  PROVE  AccountInv'
  <1> DEFINE a == req[r].acc
             hit == OfAccount(a)
  <1>1. /\ At(r, "cascade") /\ Goto(r, "purge") /\ Excuse(hit)
        /\ UNCHANGED <<mix, next, link, disk, late, lost, job>>
    BY DeletionOrder DEF Cascade
  <1>2. \/ user.acc = a /\ user' = NoUser /\ pairs' = RevokedAll(a)
        \/ user.acc # a /\ UNCHANGED <<user, pairs>>
    BY DEF Cascade, Exists
  <1>3. Moved(r, "purge", a, req[r].new)
    BY <1>1, HandlerAt, GotoMoves DEF PCs
  <1>4. Staged(req'[r]) /\ req[r].kind = "delete"
    BY <1>1, <1>3, HandlerAt DEF Staged, Moved, Unsure, Issuing, SignIn
  <1>5. /\ pairs' \in [Pair -> Rows] /\ hit \in SUBSET Pair
        /\ \A p \in Pair : /\ pairs'[p].acc = pairs[p].acc
                           /\ p \notin hit => pairs'[p] = pairs[p] /\ pairs[p].acc # a
                           /\ p \in hit /\ user.acc = a => pairs'[p].access = "dead" /\ pairs'[p].refresh = "dead"
    <2>1. CASE user.acc = a
      BY <2>1, <1>2, RevokedAllFields DEF OfAccount, AccountInv
    <2>2. CASE user.acc # a
      BY <2>2, <1>2 DEF OfAccount, AccountInv, AccountTypeOK
    <2> QED BY <2>1, <2>2
  <1>6. NoUser \in User /\ NoUser.acc = 0 /\ ~NoUser.pw /\ ~NoUser.linked
    BY AccountAssumption DEF NoUser, User
  <1>7. AccountTypeOK'
    BY <1>1, <1>2, <1>3, <1>5, <1>6, ExcuseFields DEF AccountInv, AccountTypeOK, Moved, User
  <1>8. Requests'
    BY <1>3, <1>4, <1>5, MovedRequests DEF AccountInv
  <1>9. LiveRows'
    <2>1. CASE user.acc = a /\ user' = NoUser
      <3>1. \A p \in Pair : "live" \notin {pairs'[p].access, pairs'[p].refresh}
        <4> SUFFICES ASSUME NEW p \in Pair, "live" \in {pairs'[p].access, pairs'[p].refresh} PROVE FALSE
          OBVIOUS
        <4>1. p \notin hit /\ pairs'[p] = pairs[p]
          BY <1>5, <2>1
        <4>2. pairs[p].acc = user.acc
          BY <4>1 DEF AccountInv, LiveRows
        <4> QED BY <4>1, <4>2, <1>5, <2>1
      <3> QED BY <3>1, <2>1, <1>6 DEF LiveRows
    <2>2. CASE UNCHANGED <<user, pairs>>
      BY <2>2 DEF AccountInv, LiveRows
    <2> QED BY <2>1, <2>2, <1>2
  <1>10. OnePlace' /\ OneFlight' /\ Sessions'
    BY <1>1, <1>2, <1>3, <1>4, <1>5, RevokingStep DEF Refreshing
  <1>11. \A b : Accounted(b) => Accounted(b)'
    BY <1>1, <1>2, <1>3 DEF Accounted, At, Moved, Exists
  <1>12. ASSUME NEW q \in Req, At(q, "append")' PROVE Accounted(req[q].acc)'
    <2>1. req'[q] = req[q] /\ At(q, "append")
      BY <1>12, <1>3 DEF Moved, At
    <2> QED BY <1>11, <2>1 DEF AccountInv, OnDisk
  <1>13. OnDisk'
    BY <1>1, <1>11, <1>12 DEF AccountInv, OnDisk
  <1> QED BY <1>7, <1>8, <1>9, <1>10, <1>13 DEF AccountInv

\* A rotation revokes the refresh row of a device that waits for the next pair,
\* or that gave up and is excused.
LEMMA RevokeInv ==
  ASSUME AccountInv, NEW r \in Req, Revoke(r)
  PROVE  AccountInv'
  <1> DEFINE p == req[r].old
  <1>1. /\ At(r, "revoke") /\ pairs' = Rotated(r) /\ Goto(r, "access")
        /\ UNCHANGED <<mix, user, next, link, dev, disk, late, lost, job>>
    BY DEF Revoke
  <1>2. Moved(r, "access", req[r].acc, req[r].new)
    BY <1>1, HandlerAt, GotoMoves DEF PCs
  <1>3. /\ Staged(req'[r]) /\ req[r].kind = "refresh" /\ p \in Pair /\ req[r].acc # 0
    BY <1>1, <1>2, HandlerAt, AccountAssumption
    DEF Staged, Moved, Unsure, Issuing, SignIn, Tokened, Carriers, Pair
  <1>4. /\ pairs' \in [Pair -> Rows]
        /\ \A x \in Pair : pairs'[x].acc = pairs[x].acc /\ (x # p => pairs'[x] = pairs[x])
        /\ pairs'[p].refresh = "dead" /\ pairs'[p].access = pairs[p].access
    <2>1. PICK s : s = pairs[p]
      OBVIOUS
    <2>2. s \in Rows /\ pairs \in [Pair -> Rows]
      BY <1>3, <2>1 DEF AccountInv, AccountTypeOK
    <2> DEFINE t == [s EXCEPT !.refresh = "dead"]
    <2>3. t \in Rows /\ t.acc = s.acc /\ t.refresh = "dead" /\ t.access = s.access
      BY <2>2 DEF Rows
    <2>4. pairs' = [pairs EXCEPT ![p] = t]
      BY <1>1, <2>1 DEF Rotated
    <2> HIDE DEF t
    <2>5. t \in Rows
      BY <2>3
    <2>6. pairs' \in [Pair -> Rows]
      BY <2>2, <2>4, <2>5
    <2> QED BY <1>3, <2>1, <2>2, <2>3, <2>4, <2>6
  <1>5. AccountTypeOK'
    BY <1>1, <1>2, <1>4 DEF AccountInv, AccountTypeOK, Moved
  <1>6. Requests'
    BY <1>2, <1>3, <1>4, MovedRequests DEF AccountInv
  <1>7. LiveRows'
    <2>1. \A x \in Pair : "live" \in {pairs'[x].access, pairs'[x].refresh} =>
            "live" \in {pairs[x].access, pairs[x].refresh}
      BY <1>4
    <2> QED BY <2>1, <1>1, <1>4 DEF AccountInv, LiveRows
  <1>8. OnePlace'
    BY <1>1, <1>2, <1>4, QuietOnePlace DEF AccountInv
  <1>9. OneFlight'
    BY <1>1, <1>2, QuietOneFlight DEF AccountInv
  <1>10. \A q \in Req : /\ req'[q].kind = req[q].kind /\ req'[q].old = req[q].old
                        /\ req'[q].dev = req[q].dev /\ req'[q].waits = req[q].waits
    BY <1>2 DEF Moved
  <1>11. \A d \in Device, q \in Req : Rotating(q, d) => Rotating(q, d)'
    BY <1>1, <1>2, <1>10 DEF Rotating, Refreshing, Moved
  <1>12. \A d \in Device : dev[d].held # 0 => dev[d].held \in Pair
    BY AccountAssumption DEF AccountTypeOK, Repository, Pair, AccountInv
  <1>13. ASSUME NEW d \in Device
         PROVE  (IF dev[d].in
                 THEN ~dev[d].excused =>
                        /\ dev[d].held # 0 /\ Exists(pairs[dev[d].held].acc)
                        /\ pairs[dev[d].held].refresh = "live" \/ \E q \in Req : Rotating(q, d)
                 ELSE dev[d].held = 0 \/ dev[d].raced)'
    <2>1. CASE dev[d].in /\ ~dev[d].excused
      <3>1. /\ dev[d].held # 0 /\ Exists(pairs[dev[d].held].acc)
            /\ pairs[dev[d].held].refresh = "live" \/ \E q \in Req : Rotating(q, d)
        BY <2>1 DEF AccountInv, Sessions
      <3>2. user'.acc = pairs'[dev[d].held].acc
        BY <1>1, <1>4, <1>12, <3>1 DEF Exists
      <3>3. CASE dev[d].held = p
        <4>1. req[r].dev = d
          BY <3>3, <1>3 DEF AccountInv, OnePlace
        <4>2. req[r].waits
          BY <2>1, <3>3, <1>3 DEF AccountInv, Sessions
        <4>3. Rotating(r, d)'
          BY <4>1, <4>2, <3>3, <1>1, <1>2, <1>3 DEF Rotating, Refreshing, Moved
        <4> HIDE DEF Rotating
        <4> QED BY <4>3, <3>1, <3>2, <2>1, <1>1 DEF Exists
      <3>4. CASE dev[d].held # p
        <4>1. pairs'[dev[d].held] = pairs[dev[d].held]
          BY <3>1, <3>4, <1>4, <1>12
        <4> HIDE DEF Rotating
        <4> QED BY <4>1, <3>1, <3>2, <2>1, <1>1, <1>11 DEF Exists
      <3> QED BY <3>3, <3>4
    <2>2. CASE ~(dev[d].in /\ ~dev[d].excused)
      BY <2>2, <1>1 DEF AccountInv, Sessions
    <2> QED BY <2>1, <2>2
  <1>14. \A q \in Req : req'[q].kind = "refresh" /\ ~req'[q].waits =>
          \A d \in Device : dev[d].held = req'[q].old => dev[d].excused \/ ~dev[d].in
    BY <1>10 DEF Sessions, AccountInv
  <1>15. \A q \in Req : Refreshing(q)' /\ At(q, "refused")' =>
          dev[req'[q].dev].excused \/ ~dev[req'[q].dev].in
    BY <1>2, <1>10 DEF Sessions, Moved, Refreshing, At, AccountInv
  <1>16. Sessions'
    BY <1>1, <1>13, <1>14, <1>15 DEF Sessions
  <1>17. OnDisk'
    BY <1>1, <1>2, HandlerAt, QuietOnDisk DEF AccountInv
  <1> QED BY <1>5, <1>6, <1>7, <1>8, <1>9, <1>16, <1>17 DEF AccountInv

\* The account of a request is gone when it inserts a row.
LEMMA InsertFails ==
  ASSUME AccountInv, NEW r \in Req, NEW from \in {"access", "refresh"}, At(r, from),
         ~Exists(req[r].acc), Goto(r, "failed"),
         UNCHANGED <<mix, user, next, pairs, link, dev, disk, late, lost, job>>
  PROVE  AccountInv'
  <1>1. Moved(r, "failed", req[r].acc, req[r].new)
    BY HandlerAt, GotoMoves DEF PCs
  <1>2. Staged(req'[r])
    BY <1>1, HandlerAt DEF Staged, Moved, Unsure, Issuing, SignIn
  <1>3. Refreshing(r) => dev[req[r].dev].excused \/ ~dev[req[r].dev].in
    BY CountsOnToken
  <1>4. "failed" \in PCs /\ req[r].pc = from /\ req[r].acc \in 0..MaxAccount /\ link' \in 0..MaxAccount
    BY HandlerAt DEF AccountTypeOK, PCs
  <1> QED BY <1>1, <1>2, <1>3, <1>4, PassiveStep

\* Writing the access token of a new pair preserves the invariant.
LEMMA InsertAccessInv ==
  ASSUME AccountInv, NEW r \in Req, InsertAccess(r)
  PROVE  AccountInv'
  <1> DEFINE n == CHOOSE p \in Pair : pairs[p].acc = 0
             a == req[r].acc
  <1>1. /\ At(r, "access") /\ n \in Pair /\ pairs[n].acc = 0
        /\ UNCHANGED <<mix, user, next, link, dev, disk, late, lost, job>>
    BY DEF InsertAccess, Insert
  <1>2. CASE ~Exists(a)
    BY <1>1, <1>2, InsertFails DEF InsertAccess, Insert
  <1>3. CASE Exists(a)
    <2>1. /\ pairs' = [pairs EXCEPT ![n] = [acc |-> a, access |-> "live", refresh |-> "none"]]
          /\ req' = [req EXCEPT ![r].pc = "refresh", ![r].new = n]
      BY <1>3 DEF InsertAccess, Insert
    <2> HIDE DEF n
    <2>2. n \in 0..MaxPair /\ n # 0
      BY <1>1, AccountAssumption DEF Pair
    <2>3. Moved(r, "refresh", a, n)
      <3>1. PICK s : s = req[r]
        OBVIOUS
      <3>2. s \in Handler /\ s.acc \in 0..MaxAccount
        BY <3>1, HandlerFields DEF AccountInv, AccountTypeOK
      <3>3. [s EXCEPT !.pc = "refresh", !.new = n] = [s EXCEPT !.pc = "refresh", !.acc = s.acc, !.new = n]
        BY <3>2 DEF Handler
      <3>4. req' = [req EXCEPT ![r] = [s EXCEPT !.pc = "refresh", !.new = n]]
        BY <2>1, <3>1
      <3>5. req' = [req EXCEPT ![r].pc = "refresh", ![r].acc = s.acc, ![r].new = n]
        BY <3>1, <3>3, <3>4
      <3> QED BY <3>1, <3>2, <3>5, <2>2, HandlerUpdate DEF AccountInv, PCs
    <2>4. /\ Staged(req'[r]) /\ req[r].kind \in Issuing /\ a # 0 /\ a \in 0..MaxAccount
      BY <1>1, <2>2, <2>3, HandlerAt DEF Staged, Moved, Unsure, Issuing, SignIn
    <2>5. /\ pairs' \in [Pair -> Rows] /\ pairs'[n].acc = a /\ pairs'[n].refresh = "none"
          /\ \A x \in Pair : x # n => pairs'[x] = pairs[x]
      <3>1. pairs \in [Pair -> Rows]
        BY DEF AccountInv, AccountTypeOK
      <3>2. PICK t : t = [acc |-> a, access |-> "live", refresh |-> "none"]
        OBVIOUS
      <3>3. t \in Rows /\ t.acc = a /\ t.refresh = "none"
        BY <2>4, <3>2 DEF Rows
      <3>4. t \in Rows
        BY <3>3
      <3>5. pairs' = [pairs EXCEPT ![n] = t]
        BY <2>1, <3>2
      <3>6. pairs' \in [Pair -> Rows] /\ pairs'[n] = t /\ \A x \in Pair : x # n => pairs'[x] = pairs[x]
        BY <1>1, <3>1, <3>4, <3>5
      <3> QED BY <3>3, <3>6
    <2>6. AccountTypeOK'
      BY <1>1, <2>3, <2>5 DEF AccountInv, AccountTypeOK, Moved
    <2>7. \A q \in Req : /\ req[q].old \in 0..MaxPair /\ req[q].new \in 0..MaxPair
                         /\ Staged(req[q]) /\ Tokened(req[q], pairs)
      BY HandlerFields DEF AccountInv, Requests
    <2>8. \A x \in 0..MaxPair : x # 0 /\ pairs[x].acc # 0 => x # n /\ pairs'[x] = pairs[x]
      BY <1>1, <2>5, AccountAssumption DEF Pair
    <2>9. ASSUME NEW q \in Req PROVE Staged(req'[q]) /\ Tokened(req'[q], pairs')
      <3>1. CASE q = r
        <4>1. req[r].kind \in Carriers => req[r].old # 0 /\ pairs[req[r].old].acc = a
          BY <2>7 DEF Tokened
        <4>2. req[r].kind \in Carriers => pairs'[req[r].old].acc = a
          BY <4>1, <2>4, <2>7, <2>8
        <4> QED BY <3>1, <4>1, <4>2, <2>3, <2>4, <2>5 DEF Tokened, Moved
      <3>2. CASE q # r
        <4>1. req'[q] = req[q]
          BY <3>2, <2>3 DEF Moved
        <4>2. Tokened(req[q], pairs')
          BY <2>7, <2>8 DEF Tokened
        <4> QED BY <4>1, <4>2, <2>7
      <3> QED BY <3>1, <3>2
    <2>10. Requests'
      BY <2>9 DEF Requests
    <2>11. LiveRows'
      <3>1. user'.acc = a /\ a # 0
        BY <1>1, <1>3, <2>4 DEF Exists
      <3>2. \A x \in Pair : "live" \in {pairs'[x].access, pairs'[x].refresh} => pairs'[x].acc = user.acc
        BY <1>3, <2>5 DEF AccountInv, LiveRows, Exists
      <3> QED BY <3>1, <3>2, <1>1 DEF LiveRows
    <2>12. \A d \in Device : dev[d].held # 0 => /\ dev[d].held \in Pair /\ pairs[dev[d].held].acc # 0
                                                /\ dev[d].held # n /\ pairs'[dev[d].held] = pairs[dev[d].held]
      BY <1>1, <2>5, AccountAssumption DEF AccountTypeOK, Repository, Pair, OnePlace, AccountInv
    <2>13. OnePlace'
      <3>1. \A q \in Req : /\ req'[q].kind = req[q].kind /\ req'[q].old = req[q].old /\ req'[q].dev = req[q].dev
                           /\ req'[q].new = IF q = r THEN n ELSE req[q].new
        BY <2>3 DEF Moved
      <3>2. \A q \in Req : req[q].new # n /\ (req[q].kind = "refresh" => req[q].old # n)
        BY <1>1, <2>2, <2>7 DEF Tokened, Carriers
      <3>3. \A d \in Device : dev'[d] = dev[d] /\ dev[d].held # n
        BY <1>1, <2>2, <2>12
      <3>4. \A d \in Device : dev'[d].held # 0 => pairs'[dev'[d].held].acc # 0
        BY <2>12, <3>3
      <3>5. \A d, e \in Device : dev'[d].held = dev'[e].held /\ dev'[d].held # 0 => d = e
        BY <3>3 DEF AccountInv, OnePlace
      <3>6. \A q \in Req, d \in Device :
              /\ req'[q].kind = "refresh" /\ req'[q].old = dev'[d].held => req'[q].dev = d
              /\ req'[q].new # 0 => req'[q].new # dev'[d].held
        BY <3>1, <3>3 DEF AccountInv, OnePlace
      <3>7. \A x, q \in Req : req'[x].new # 0 =>
              /\ req'[q].new = req'[x].new => q = x
              /\ req'[q].kind = "refresh" => req'[q].old # req'[x].new
        BY <3>1, <3>2 DEF AccountInv, OnePlace
      <3> QED BY <3>4, <3>5, <3>6, <3>7 DEF OnePlace
    <2>14. OneFlight'
      BY <1>1, <2>3, QuietOneFlight DEF AccountInv
    <2>15. Sessions'
      BY <1>1, <2>3, <2>5, HandlerAt, QuietSessions DEF AccountInv
    <2>16. OnDisk'
      BY <1>1, <2>3, HandlerAt, QuietOnDisk DEF AccountInv
    <2> QED BY <2>6, <2>10, <2>11, <2>13, <2>14, <2>15, <2>16 DEF AccountInv
  <1> QED BY <1>2, <1>3

\* Writing the refresh token of a new pair preserves the invariant.
LEMMA InsertRefreshInv ==
  ASSUME AccountInv, NEW r \in Req, InsertRefresh(r)
  PROVE  AccountInv'
  <1> DEFINE n == req[r].new
             a == req[r].acc
  <1>1. /\ At(r, "refresh")
        /\ UNCHANGED <<mix, user, next, link, dev, disk, late, lost, job>>
    BY DEF InsertRefresh, Insert
  <1>2. CASE ~Exists(a)
    BY <1>1, <1>2, InsertFails DEF InsertRefresh, Insert
  <1>3. CASE Exists(a)
    <2>1. /\ n \in Pair /\ a # 0 /\ pairs[n].acc = a
      BY <1>1, HandlerAt, AccountAssumption DEF Staged, Tokened, Pair
    <2>2. /\ pairs' = [pairs EXCEPT ![n] = [pairs[n] EXCEPT !.refresh = "live"]]
          /\ req' = [req EXCEPT ![r].pc = "ok", ![r].new = req[r].new]
      BY <1>3 DEF InsertRefresh, Insert
    <2>3. Moved(r, "ok", a, req[r].new)
      <3>1. PICK s : s = req[r]
        OBVIOUS
      <3>2. s \in Handler /\ s.acc \in 0..MaxAccount /\ s.new \in 0..MaxPair
        BY <3>1, HandlerFields DEF AccountInv, AccountTypeOK
      <3>3. [s EXCEPT !.pc = "ok", !.new = s.new] = [s EXCEPT !.pc = "ok", !.acc = s.acc, !.new = s.new]
        BY <3>2 DEF Handler
      <3>4. req' = [req EXCEPT ![r] = [s EXCEPT !.pc = "ok", !.new = s.new]]
        BY <2>2, <3>1
      <3>5. req' = [req EXCEPT ![r].pc = "ok", ![r].acc = s.acc, ![r].new = s.new]
        BY <3>1, <3>3, <3>4
      <3> QED BY <3>1, <3>2, <3>5, HandlerUpdate DEF AccountInv, PCs
    <2>4. Staged(req'[r])
      BY <1>1, <2>1, <2>3, HandlerAt DEF Staged, Moved, Unsure, Issuing, SignIn
    <2>5. /\ pairs' \in [Pair -> Rows]
          /\ \A x \in Pair : pairs'[x].acc = pairs[x].acc /\ (x # n => pairs'[x] = pairs[x])
          /\ pairs'[n].refresh = "live"
      <3>1. PICK s : s = pairs[n]
        OBVIOUS
      <3>2. s \in Rows /\ pairs \in [Pair -> Rows]
        BY <2>1, <3>1 DEF AccountInv, AccountTypeOK
      <3> DEFINE t == [s EXCEPT !.refresh = "live"]
      <3>3. t \in Rows /\ t.acc = s.acc /\ t.refresh = "live"
        BY <3>2 DEF Rows
      <3>4. pairs' = [pairs EXCEPT ![n] = t]
        BY <2>2, <3>1
      <3> HIDE DEF t
      <3>5. t \in Rows
        BY <3>3
      <3>6. pairs' \in [Pair -> Rows]
        BY <3>2, <3>4, <3>5
      <3> QED BY <2>1, <3>1, <3>2, <3>3, <3>4, <3>6
    <2>6. AccountTypeOK'
      BY <1>1, <2>3, <2>5 DEF AccountInv, AccountTypeOK, Moved
    <2>7. Requests'
      BY <2>3, <2>4, <2>5, MovedRequests DEF AccountInv
    <2>8. LiveRows'
      <3>1. \A x \in Pair : "live" \in {pairs'[x].access, pairs'[x].refresh} =>
              pairs'[x].acc = user.acc /\ user.acc # 0
        BY <1>3, <2>1, <2>5 DEF AccountInv, LiveRows, Exists
      <3> QED BY <3>1, <1>1 DEF LiveRows, AccountInv
    <2>9. OnePlace'
      BY <1>1, <2>3, <2>5, QuietOnePlace DEF AccountInv
    <2>10. OneFlight'
      BY <1>1, <2>3, QuietOneFlight DEF AccountInv
    <2>11. Sessions'
      BY <1>1, <2>1, <2>3, <2>5, HandlerAt, QuietSessions DEF AccountInv
    <2>12. OnDisk'
      BY <1>1, <2>3, HandlerAt, QuietOnDisk DEF AccountInv
    <2> QED BY <2>6, <2>7, <2>8, <2>9, <2>10, <2>11, <2>12 DEF AccountInv
  <1> QED BY <1>2, <1>3

\* Nobody waits for request r any more: its slot is free, or it goes on alone.
Ended(r) ==
    /\ req' \in [Req -> Handler]
    /\ \A q \in Req : q # r => req'[q] = req[q]
    /\ ~req'[r].waits /\ req'[r].new \in {0, req[r].new}
    /\ \/ req'[r].kind = "none"
       \/ /\ req'[r].kind = req[r].kind /\ req'[r].old = req[r].old /\ req'[r].dev = req[r].dev
          /\ req'[r].pc = req[r].pc /\ req'[r].acc = req[r].acc

\* The device of request r has the record x now; the tables are as before.
Informed(r, x) ==
    /\ x \in Repository /\ dev'[req[r].dev] = x
    /\ \A e \in Device : e # req[r].dev => dev'[e] = dev[e]
    /\ pairs' = pairs /\ user' = user

\* Freeing a slot is the end of its request.
LEMMA FreeEnds ==
  ASSUME AccountInv, NEW r \in Req, req' = [req EXCEPT ![r] = Free]
  PROVE  Ended(r) /\ req'[r] = Free /\ (pairs' = pairs => Requests')
  <1>1. req' \in [Req -> Handler] /\ req'[r] = Free /\ \A q \in Req : q # r => req'[q] = req[q]
    BY FreeFields DEF AccountInv, AccountTypeOK
  <1>2. Staged(Free) /\ Tokened(Free, pairs)
    BY FreeFields DEF Staged, Tokened, Unsure, Carriers
  <1>3. pairs' = pairs => Requests'
    BY <1>1, <1>2 DEF AccountInv, Requests
  <1> QED BY <1>1, <1>3, FreeFields DEF Ended

\* A request ends and its device does not notice.
LEMMA EndedQuietly ==
  ASSUME AccountInv, NEW r \in Req, Ended(r), UNCHANGED <<dev, pairs, user>>,
         Refreshing(r) => req[r].pc \notin {"access", "refresh", "ok"},
         req'[r].kind = "refresh" => ~req[r].waits
  PROVE  OnePlace' /\ OneFlight' /\ Sessions'
  <1>1. OnePlace'
    BY DEF AccountInv, OnePlace, Ended
  <1>2. OneFlight'
    BY DEF AccountInv, OneFlight, Ended, Refreshing
  <1>3. \A d \in Device, q \in Req : Rotating(q, d) => Rotating(q, d)'
    BY DEF Rotating, Refreshing, Ended
  <1>4. Sessions'
    <2>1. ASSUME NEW d \in Device
          PROVE  (IF dev[d].in
                  THEN ~dev[d].excused =>
                         /\ dev[d].held # 0 /\ Exists(pairs[dev[d].held].acc)
                         /\ pairs[dev[d].held].refresh = "live" \/ \E q \in Req : Rotating(q, d)
                  ELSE dev[d].held = 0 \/ dev[d].raced)'
      <3> HIDE DEF Rotating
      <3> QED BY <1>3 DEF AccountInv, Sessions, Exists
    <2>2. \A q \in Req : req'[q].kind = "refresh" /\ ~req'[q].waits =>
            \A d \in Device : dev[d].held = req'[q].old => dev[d].excused \/ ~dev[d].in
      BY DEF AccountInv, Sessions, Ended
    <2>3. \A q \in Req : Refreshing(q)' /\ At(q, "refused")' =>
            dev[req'[q].dev].excused \/ ~dev[req'[q].dev].in
      BY DEF AccountInv, Sessions, Ended, Refreshing, At
    <2> QED BY <2>1, <2>2, <2>3 DEF Sessions
  <1> QED BY <1>1, <1>2, <1>4

\* The device clears its tokens.
LEMMA EndedSignedOut ==
  ASSUME AccountInv, NEW r \in Req, NEW x, Ended(r), Informed(r, x),
         req[r].kind # "refresh", x.held = 0, ~x.in, x.raced <=> Waits(req[r].dev, {"refresh"})
  PROVE  OnePlace' /\ OneFlight' /\ Sessions'
  <1> DEFINE d == req[r].dev
  <1>1. d \in Device /\ \A q \in Req : req[q].kind = "refresh" => req[q].old # 0
    BY HandlerFields DEF AccountInv, Requests, Tokened, Carriers
  <1>2. \A q \in Req : req'[q].kind = "refresh" => q # r /\ req'[q] = req[q] /\ req[q].old # 0
    BY <1>1 DEF Ended
  <1>3. \A e \in Device : e = d \/ dev'[e] = dev[e]
    BY DEF Informed
  <1>4. dev'[d].held = 0 /\ ~dev'[d].in /\ (dev'[d].raced <=> Waits(d, {"refresh"}))
    BY DEF Informed
  <1>5. OnePlace'
    BY <1>1, <1>2, <1>3, <1>4 DEF AccountInv, OnePlace, Ended, Informed
  <1>6. OneFlight'
    <2>1. ASSUME NEW q \in Req, Refreshing(q)'
          PROVE  IF dev'[req'[q].dev].in THEN dev'[req'[q].dev].held = req'[q].old ELSE dev'[req'[q].dev].raced
      <3>1. q # r /\ req'[q] = req[q] /\ Refreshing(q) /\ req[q].dev \in Device
        BY <2>1, <1>2, HandlerFields DEF Refreshing, AccountInv
      <3>2. CASE req[q].dev = d
        BY <3>1, <3>2, <1>4 DEF Waits, Refreshing
      <3>3. CASE req[q].dev # d
        BY <3>1, <3>3, <1>3 DEF AccountInv, OneFlight
      <3> QED BY <3>2, <3>3
    <2>2. ASSUME NEW p \in Req, NEW q \in Req, req'[q].dev = req'[p].dev, req'[q].waits
          PROVE  /\ Refreshing(p)' /\ Refreshing(q)' => q = p
                 /\ req'[p].waits /\ req'[p].kind \in SignIn => q = p
      BY <2>2 DEF AccountInv, OneFlight, Ended, Refreshing
    <2> QED BY <2>1, <2>2 DEF OneFlight
  <1>7. ASSUME NEW e \in Device
        PROVE  (IF dev[e].in
                THEN ~dev[e].excused =>
                       /\ dev[e].held # 0 /\ Exists(pairs[dev[e].held].acc)
                       /\ pairs[dev[e].held].refresh = "live" \/ \E q \in Req : Rotating(q, e)
                ELSE dev[e].held = 0 \/ dev[e].raced)'
    <2>1. CASE e = d
      BY <2>1, <1>4
    <2>2. CASE e # d
      <3>1. dev'[e] = dev[e] /\ pairs' = pairs /\ user' = user
        BY <2>2 DEF Informed
      <3>2. \A q \in Req : Rotating(q, e) => Rotating(q, e)'
        BY <3>1 DEF Rotating, Refreshing, Ended
      <3> HIDE DEF Rotating
      <3> QED BY <3>1, <3>2 DEF AccountInv, Sessions, Exists
    <2> QED BY <2>1, <2>2
  <1>8. \A q \in Req : req'[q].kind = "refresh" /\ ~req'[q].waits =>
          \A e \in Device : dev'[e].held = req'[q].old => dev'[e].excused \/ ~dev'[e].in
    BY <1>2, <1>3, <1>4 DEF AccountInv, Sessions
  <1>9. \A q \in Req : Refreshing(q)' /\ At(q, "refused")' =>
          dev'[req'[q].dev].excused \/ ~dev'[req'[q].dev].in
    BY <1>2, <1>3, <1>4, HandlerFields DEF AccountInv, Sessions, Refreshing, At
  <1> QED BY <1>5, <1>6, <1>7, <1>8, <1>9 DEF Sessions

\* The device takes over the pair that request r was answered with.
LEMMA EndedWithPair ==
  ASSUME AccountInv, NEW r \in Req, NEW x, Ended(r), Informed(r, x), req'[r] = Free,
         req[r].waits, req[r].kind \in Issuing, req[r].new # 0, x.held = req[r].new,
         x.excused <=> pairs[req[r].new].refresh # "live",
         \/ req[r].kind \in SignIn /\ x.in
         \/ req[r].kind = "refresh" /\ x.in = dev[req[r].dev].in /\ x.raced = dev[req[r].dev].raced
  PROVE  OnePlace' /\ OneFlight' /\ Sessions'
  <1> DEFINE d == req[r].dev
             n == req[r].new
  <1>1. d \in Device /\ n \in Pair /\ pairs[n].acc # 0
    BY HandlerFields, AccountAssumption DEF AccountInv, Requests, Tokened, Pair
  <1>2. \A q \in Req : (req'[q].kind # "none" \/ req'[q].waits \/ req'[q].new # 0) => q # r /\ req'[q] = req[q]
    BY FreeFields DEF Ended
  <1>3. \A e \in Device : e = d \/ dev'[e] = dev[e]
    BY DEF Informed
  <1>4. dev'[d] = x /\ dev'[d].held = n /\ pairs' = pairs /\ user' = user
    BY DEF Informed
  <1>5. OnePlace'
    <2>1. \A e \in Device : dev'[e].held # 0 => pairs'[dev'[e].held].acc # 0
      BY <1>1, <1>3, <1>4 DEF AccountInv, OnePlace
    <2>2. \A e, f \in Device : dev'[e].held = dev'[f].held /\ dev'[e].held # 0 => e = f
      BY <1>3, <1>4 DEF AccountInv, OnePlace
    <2>3. \A q \in Req, e \in Device :
            /\ req'[q].kind = "refresh" /\ req'[q].old = dev'[e].held => req'[q].dev = e
            /\ req'[q].new # 0 => req'[q].new # dev'[e].held
      BY <1>2, <1>3, <1>4 DEF AccountInv, OnePlace
    <2>4. \A p, q \in Req : req'[p].new # 0 =>
            /\ req'[q].new = req'[p].new => q = p
            /\ req'[q].kind = "refresh" => req'[q].old # req'[p].new
      BY <1>2 DEF AccountInv, OnePlace
    <2> QED BY <2>1, <2>2, <2>3, <2>4 DEF OnePlace
  <1>6. \A q \in Req : Refreshing(q)' => Refreshing(q) /\ req'[q] = req[q] /\ req[q].dev # d /\ req[q].dev \in Device
    <2> SUFFICES ASSUME NEW q \in Req, Refreshing(q)'
                 PROVE  Refreshing(q) /\ req'[q] = req[q] /\ req[q].dev # d /\ req[q].dev \in Device
      OBVIOUS
    <2>1. q # r /\ req'[q] = req[q] /\ Refreshing(q) /\ req[q].dev \in Device
      BY <1>2, HandlerFields DEF Refreshing, AccountInv
    <2>2. CASE req[q].dev = d
      <3>1. req[r].kind \in SignIn \/ Refreshing(r)
        BY DEF Refreshing
      <3> QED BY <2>1, <2>2, <3>1 DEF AccountInv, OneFlight, Refreshing
    <2> QED BY <2>1, <2>2
  <1>7. OneFlight'
    <2>1. ASSUME NEW q \in Req, Refreshing(q)'
          PROVE  IF dev'[req'[q].dev].in THEN dev'[req'[q].dev].held = req'[q].old ELSE dev'[req'[q].dev].raced
      BY <2>1, <1>3, <1>6 DEF AccountInv, OneFlight
    <2>2. ASSUME NEW p \in Req, NEW q \in Req, req'[q].dev = req'[p].dev, req'[q].waits
          PROVE  /\ Refreshing(p)' /\ Refreshing(q)' => q = p
                 /\ req'[p].waits /\ req'[p].kind \in SignIn => q = p
      BY <2>2, <1>2 DEF AccountInv, OneFlight, Refreshing
    <2> QED BY <2>1, <2>2 DEF OneFlight
  <1>8. ASSUME NEW e \in Device
        PROVE  (IF dev[e].in
                THEN ~dev[e].excused =>
                       /\ dev[e].held # 0 /\ Exists(pairs[dev[e].held].acc)
                       /\ pairs[dev[e].held].refresh = "live" \/ \E q \in Req : Rotating(q, e)
                ELSE dev[e].held = 0 \/ dev[e].raced)'
    <2>1. CASE e = d
      <3>1. CASE x.in
        <4>1. ~x.excused => user.acc = pairs[n].acc /\ pairs[n].refresh = "live"
          BY <1>1 DEF AccountInv, LiveRows
        <4> QED BY <2>1, <3>1, <4>1, <1>4 DEF Exists
      <3>2. CASE ~x.in
        <4>1. req[r].kind = "refresh" /\ ~dev[d].in /\ x.raced = dev[d].raced
          BY <3>2
        <4>2. dev[d].raced
          BY <4>1 DEF AccountInv, OneFlight, Refreshing
        <4> QED BY <2>1, <3>2, <4>1, <4>2, <1>4
      <3> QED BY <3>1, <3>2
    <2>2. CASE e # d
      <3>1. dev'[e] = dev[e] /\ pairs' = pairs /\ user' = user
        BY <2>2 DEF Informed
      <3>2. \A q \in Req : Rotating(q, e) => Rotating(q, e)'
        BY <2>2, <3>1 DEF Rotating, Refreshing, Ended
      <3> HIDE DEF Rotating
      <3> QED BY <3>1, <3>2 DEF AccountInv, Sessions, Exists
    <2> QED BY <2>1, <2>2
  <1>9. \A q \in Req : req'[q].kind = "refresh" /\ ~req'[q].waits =>
          \A e \in Device : dev'[e].held = req'[q].old => dev'[e].excused \/ ~dev'[e].in
    BY <1>2, <1>3, <1>4 DEF AccountInv, Sessions, OnePlace
  <1>10. \A q \in Req : Refreshing(q)' /\ At(q, "refused")' =>
          dev'[req'[q].dev].excused \/ ~dev'[req'[q].dev].in
    BY <1>3, <1>6 DEF AccountInv, Sessions, At
  <1> QED BY <1>5, <1>7, <1>8, <1>9, <1>10 DEF Sessions

\* A refresh fails its device: refused, or cut off.
LEMMA EndedRefresh ==
  ASSUME AccountInv, NEW r \in Req, NEW x, Ended(r), Informed(r, x), Refreshing(r),
         x.in = dev[req[r].dev].in, x.raced = dev[req[r].dev].raced,
         \/ x.held = dev[req[r].dev].held /\ x.excused
         \/ x.held = 0 /\ (x.excused \/ ~x.in) /\ req'[r].kind = "none"
  PROVE  OnePlace' /\ OneFlight' /\ Sessions'
  <1> DEFINE d == req[r].dev
  <1>1. d \in Device /\ \A q \in Req : req[q].kind = "refresh" => req[q].old # 0
    BY HandlerFields DEF AccountInv, Requests, Tokened, Carriers
  <1>2. \A q \in Req : /\ q # r => req'[q] = req[q]
                       /\ req'[q].waits => q # r
                       /\ req'[q].kind = "refresh" => req[q].kind = "refresh" /\ req'[q].old = req[q].old
                                                      /\ req'[q].dev = req[q].dev /\ req[q].old # 0
                       /\ req'[q].new # 0 => req'[q].new = req[q].new
    BY <1>1 DEF Ended
  <1>3. \A e \in Device : e = d \/ dev'[e] = dev[e]
    BY DEF Informed
  <1>4. dev'[d] = x /\ pairs' = pairs /\ user' = user /\ (dev'[d].held # 0 => dev'[d].held = dev[d].held)
    BY DEF Informed
  <1>5. OnePlace'
    <2>1. \A e \in Device : dev'[e].held # 0 => dev'[e].held = dev[e].held
      BY <1>3, <1>4
    <2> QED BY <1>2, <1>4, <2>1 DEF AccountInv, OnePlace
  <1>6. \A q \in Req : Refreshing(q)' => Refreshing(q) /\ req'[q] = req[q] /\ req[q].dev # d /\ req[q].dev \in Device
    BY <1>2, HandlerFields DEF AccountInv, OneFlight, Refreshing
  <1>7. OneFlight'
    <2>1. ASSUME NEW q \in Req, Refreshing(q)'
          PROVE  IF dev'[req'[q].dev].in THEN dev'[req'[q].dev].held = req'[q].old ELSE dev'[req'[q].dev].raced
      BY <2>1, <1>3, <1>6 DEF AccountInv, OneFlight
    <2>2. ASSUME NEW p \in Req, NEW q \in Req, req'[q].dev = req'[p].dev, req'[q].waits
          PROVE  /\ Refreshing(p)' /\ Refreshing(q)' => q = p
                 /\ req'[p].waits /\ req'[p].kind \in SignIn => q = p
      BY <2>2, <1>2 DEF AccountInv, OneFlight, Refreshing
    <2> QED BY <2>1, <2>2 DEF OneFlight
  <1>8. ASSUME NEW e \in Device
        PROVE  (IF dev[e].in
                THEN ~dev[e].excused =>
                       /\ dev[e].held # 0 /\ Exists(pairs[dev[e].held].acc)
                       /\ pairs[dev[e].held].refresh = "live" \/ \E q \in Req : Rotating(q, e)
                ELSE dev[e].held = 0 \/ dev[e].raced)'
    <2>1. CASE e = d
      <3>1. dev[d].in \/ dev[d].raced
        BY DEF AccountInv, OneFlight
      <3> QED BY <2>1, <3>1, <1>4
    <2>2. CASE e # d
      <3>1. dev'[e] = dev[e] /\ pairs' = pairs /\ user' = user
        BY <2>2 DEF Informed
      <3>2. \A q \in Req : Rotating(q, e) => Rotating(q, e)'
        BY <2>2, <3>1 DEF Rotating, Refreshing, Ended
      <3> HIDE DEF Rotating
      <3> QED BY <3>1, <3>2 DEF AccountInv, Sessions, Exists
    <2> QED BY <2>1, <2>2
  <1>9. ASSUME NEW q \in Req, req'[q].kind = "refresh", ~req'[q].waits, NEW e \in Device, dev'[e].held = req'[q].old
        PROVE  dev'[e].excused \/ ~dev'[e].in
    <2>1. CASE e = d
      BY <2>1, <1>2, <1>4, <1>9
    <2>2. CASE e # d
      <3>1. dev'[e] = dev[e] /\ req[q].kind = "refresh" /\ req[q].old = dev[e].held
        BY <2>2, <1>2, <1>3, <1>9
      <3>2. q # r
        BY <2>2, <3>1 DEF AccountInv, OnePlace
      <3> QED BY <3>1, <3>2, <1>2, <1>9 DEF AccountInv, Sessions
    <2> QED BY <2>1, <2>2
  <1>10. \A q \in Req : Refreshing(q)' /\ At(q, "refused")' =>
          dev'[req'[q].dev].excused \/ ~dev'[req'[q].dev].in
    BY <1>3, <1>6 DEF AccountInv, Sessions, At
  <1> QED BY <1>5, <1>7, <1>8, <1>9, <1>10 DEF Sessions

\* One device is told.
LEMMA InformOne ==
  ASSUME AccountInv, NEW r \in Req, NEW x \in Repository, dev' = [dev EXCEPT ![req[r].dev] = x],
         UNCHANGED <<pairs, user>>
  PROVE  Informed(r, x) /\ dev' \in [Device -> Repository]
  <1>1. req[r].dev \in Device /\ dev \in [Device -> Repository]
    BY HandlerFields DEF AccountInv, AccountTypeOK
  <1> QED BY <1>1 DEF Informed

\* What signing out leaves of a device.
LEMMA SignedOutFields ==
  ASSUME NEW d
  PROVE  /\ SignedOut(d) \in Repository /\ SignedOut(d).held = 0 /\ ~SignedOut(d).in
         /\ SignedOut(d).raced <=> Waits(d, {"refresh"})
  <1>1. Waits(d, {"refresh"}) \in BOOLEAN
    BY DEF Waits
  <1>2. PICK b \in BOOLEAN : b = Waits(d, {"refresh"})
    BY <1>1
  <1>3. SignedOut(d) = [Out EXCEPT !.raced = b]
    BY <1>2 DEF SignedOut
  <1>4. PICK o : o = Out
    OBVIOUS
  <1>5. o \in Repository /\ o.held = 0 /\ o.in = FALSE
    BY <1>4, AccountAssumption DEF Repository, Out
  <1> DEFINE t == [o EXCEPT !.raced = b]
  <1>6. t \in Repository /\ t.held = 0 /\ t.in = FALSE /\ t.raced = b
    BY <1>5 DEF Repository
  <1>7. SignedOut(d) = t
    BY <1>3, <1>4
  <1> HIDE DEF t
  <1> QED BY <1>2, <1>6, <1>7

\* When a request ends, the files are in the account of somebody else's purge.
LEMMA EndedOnDisk ==
  ASSUME AccountInv, NEW r \in Req, \A q \in Req : q # r => req'[q] = req[q],
         \/ req'[r] = Free
         \/ req'[r].pc = req[r].pc /\ req'[r].acc = req[r].acc,
         user' = user, disk' = disk, late \subseteq late',
         req'[r] = Free /\ At(r, "purge") => req[r].acc \in late'
  PROVE  OnDisk'
  <1>1. \A b : Accounted(b) => Accounted(b)'
    BY DEF Accounted, At, Exists
  <1>2. ASSUME NEW q \in Req, At(q, "append")' PROVE Accounted(req[q].acc)'
    <2>1. req'[q].acc = req[q].acc /\ At(q, "append")
      BY <1>2, FreeFields DEF At
    <2>2. Accounted(req[q].acc)
      BY <2>1 DEF AccountInv, OnDisk
    <2>3. PICK b : b = req[q].acc
      OBVIOUS
    <2>4. Accounted(b)'
      BY <1>1, <2>2, <2>3
    <2>5. b' = b
      BY <2>1, <2>3
    <2> QED BY <2>1, <2>3, <2>4 DEF Accounted, Exists
  <1> QED BY <1>1, <1>2 DEF AccountInv, OnDisk

\* A good answer that reaches its device preserves the invariant.
LEMMA OkInv ==
  ASSUME AccountInv, NEW r \in Req, Ok(r)
  PROVE  AccountInv'
  <1> DEFINE d == req[r].dev
             n == req[r].new
  <1>1. /\ At(r, "ok") /\ req' = [req EXCEPT ![r] = Free]
        /\ UNCHANGED <<mix, user, next, pairs, link, disk, late, lost, job>>
    BY DEF Ok
  <1>2. Ended(r) /\ req'[r] = Free /\ Requests'
    BY <1>1, FreeEnds
  <1>3. /\ req[r].kind \in Kinds /\ req[r].kind # "none" /\ req[r].kind # "ingest" /\ d \in Device
        /\ n \in 0..MaxPair /\ (req[r].kind \in Issuing => n # 0) /\ Staged(req[r])
    BY <1>1, HandlerAt DEF Staged
  <1>4. CASE ~req[r].waits \/ req[r].kind = "capture"
    <2>1. dev' = dev
      BY <1>4 DEF Ok
    <2>2. OnePlace' /\ OneFlight' /\ Sessions'
      BY <1>1, <1>2, <1>4, <2>1, FreeFields, EndedQuietly DEF Refreshing
    <2> QED BY <1>1, <1>2, <2>1, <2>2, EndedOnDisk DEF AccountInv, AccountTypeOK, LiveRows, Ended, At
  <1>5. CASE req[r].waits /\ req[r].kind # "capture"
    <2>1. PICK x \in Repository :
            /\ dev' = [dev EXCEPT ![d] = x]
            /\ \/ req[r].kind \in SignIn /\ x.in
               \/ req[r].kind = "refresh" /\ x.in = dev[d].in /\ x.raced = dev[d].raced
               \/ /\ req[r].kind \notin Issuing /\ x.held = 0 /\ ~x.in
                  /\ x.raced <=> Waits(d, {"refresh"})
            /\ req[r].kind \in Issuing => x.held = n /\ (x.excused <=> pairs[n].refresh # "live")
      <3>1. CASE req[r].kind \in SignIn
        <4>1. dev' = [dev EXCEPT ![d] = Signed(n)]
          BY <1>5, <3>1 DEF Ok, SignIn
        <4>2. PICK b \in BOOLEAN : b = (pairs[n].refresh # "live")
          OBVIOUS
        <4>3. Signed(n) = [held |-> n, in |-> TRUE, excused |-> b, raced |-> FALSE]
          BY <4>2 DEF Signed
        <4>4. Signed(n) \in Repository /\ Signed(n).in /\ Signed(n).held = n /\ (Signed(n).excused <=> b)
          BY <4>3, <1>3 DEF Repository
        <4> QED BY <3>1, <4>1, <4>2, <4>4
      <3>2. CASE req[r].kind = "refresh"
        <4>1. PICK s : s = dev[d]
          OBVIOUS
        <4>2. s \in Repository
          BY <4>1, <1>3 DEF AccountInv, AccountTypeOK
        <4>3. PICK b \in BOOLEAN : b = (pairs[n].refresh # "live")
          OBVIOUS
        <4> DEFINE t == [s EXCEPT !.held = n, !.excused = b]
        <4>4. t \in Repository /\ t.in = s.in /\ t.raced = s.raced /\ t.held = n /\ (t.excused <=> b)
          BY <4>2, <1>3 DEF Repository
        <4>5. dev' = [dev EXCEPT ![d] = t]
          BY <1>5, <3>2, <4>1, <4>3 DEF Ok, SignIn
        <4> HIDE DEF t
        <4> QED BY <3>2, <4>1, <4>3, <4>4, <4>5 DEF SignIn
      <3>3. CASE req[r].kind \notin Issuing
        <4>1. dev' = [dev EXCEPT ![d] = SignedOut(d)]
          BY <1>5, <3>3 DEF Ok, Issuing
        <4> QED BY <3>3, <4>1, SignedOutFields DEF Issuing
      <3> QED BY <3>1, <3>2, <3>3 DEF Issuing
    <2>2. Informed(r, x) /\ dev' \in [Device -> Repository]
      BY <1>1, <2>1, InformOne
    <2>3. CASE req[r].kind \in Issuing
      BY <1>1, <1>2, <1>3, <1>5, <2>1, <2>2, <2>3, EndedWithPair, EndedOnDisk
      DEF AccountInv, AccountTypeOK, LiveRows, Ended, At
    <2>4. CASE req[r].kind \notin Issuing
      BY <1>1, <1>2, <1>3, <1>5, <2>1, <2>2, <2>4, EndedSignedOut, EndedOnDisk
      DEF AccountInv, AccountTypeOK, LiveRows, Ended, At, Issuing, SignIn
    <2> QED BY <2>3, <2>4
  <1> QED BY <1>4, <1>5

\* A refusal that reaches its device preserves the invariant.
LEMMA RefusedInv ==
  ASSUME AccountInv, NEW r \in Req, Refused(r)
  PROVE  AccountInv'
  <1> DEFINE d == req[r].dev
  <1>1. /\ req[r].pc \in {"refused", "failed"} /\ req' = [req EXCEPT ![r] = Free]
        /\ UNCHANGED <<mix, user, next, pairs, link, disk, late, lost, job>>
    BY DEF Refused
  <1>2. Ended(r) /\ req'[r] = Free /\ Requests'
    BY <1>1, FreeEnds
  <1>3. CASE Refreshing(r) /\ At(r, "refused")
    <2>1. d \in Device /\ (dev[d].excused \/ ~dev[d].in)
      BY <1>3, HandlerFields DEF AccountInv, Sessions
    <2>2. PICK x \in Repository : /\ dev' = [dev EXCEPT ![d] = x] /\ x.held = 0 /\ x.in = dev[d].in
                                  /\ x.raced = dev[d].raced /\ x.excused = dev[d].excused
      <3>1. PICK s : s = dev[d]
        OBVIOUS
      <3>2. s \in Repository
        BY <2>1, <3>1 DEF AccountInv, AccountTypeOK
      <3> DEFINE t == [s EXCEPT !.held = 0]
      <3>3. t \in Repository /\ t.held = 0 /\ t.in = s.in /\ t.raced = s.raced /\ t.excused = s.excused
        BY <3>2, AccountAssumption DEF Repository
      <3>4. dev' = [dev EXCEPT ![d] = t]
        BY <1>3, <3>1 DEF Refused, Refreshing
      <3> HIDE DEF t
      <3> QED BY <3>1, <3>3, <3>4
    <2>3. Informed(r, x) /\ dev' \in [Device -> Repository]
      BY <1>1, <2>2, InformOne
    <2>4. OnePlace' /\ OneFlight' /\ Sessions'
      BY <1>2, <1>3, <2>1, <2>2, <2>3, FreeFields, EndedRefresh
    <2> QED BY <1>1, <1>2, <2>3, <2>4, EndedOnDisk DEF AccountInv, AccountTypeOK, LiveRows, Ended, At
  <1>4. CASE req[r].waits /\ req[r].kind = "logout"
    <2>1. dev' = [dev EXCEPT ![d] = SignedOut(d)]
      BY <1>4 DEF Refused
    <2>2. Informed(r, SignedOut(d)) /\ dev' \in [Device -> Repository]
      BY <1>1, <2>1, SignedOutFields, InformOne
    <2>3. OnePlace' /\ OneFlight' /\ Sessions'
      BY <1>2, <1>4, <2>2, SignedOutFields, EndedSignedOut
    <2> QED BY <1>1, <1>2, <2>2, <2>3, EndedOnDisk DEF AccountInv, AccountTypeOK, LiveRows, Ended, At
  <1>5. CASE ~(Refreshing(r) /\ At(r, "refused")) /\ ~(req[r].waits /\ req[r].kind = "logout")
    <2>1. dev' = dev
      BY <1>5 DEF Refused, Refreshing
    <2>2. OnePlace' /\ OneFlight' /\ Sessions'
      BY <1>1, <1>2, <1>5, <2>1, FreeFields, EndedQuietly DEF Refreshing
    <2> QED BY <1>1, <1>2, <2>1, <2>2, EndedOnDisk DEF AccountInv, AccountTypeOK, LiveRows, Ended, At
  <1> QED BY <1>3, <1>4, <1>5

\* A handler dropped with its connection preserves the invariant.
LEMMA DropInv ==
  ASSUME AccountInv, NEW r \in Req, Drop(r)
  PROVE  AccountInv'
  <1>1. /\ req[r].kind # "none" /\ ~req[r].waits /\ req' = [req EXCEPT ![r] = Free]
        /\ late' = late \cup {a \in {req[r].acc} : At(r, "purge")}
        /\ UNCHANGED <<mix, user, next, pairs, link, dev, disk, lost, job>>
    BY DEF Drop
  <1>2. Ended(r) /\ req'[r] = Free /\ Requests'
    BY <1>1, FreeEnds
  <1>3. OnePlace' /\ OneFlight' /\ Sessions'
    BY <1>1, <1>2, FreeFields, EndedQuietly DEF Refreshing
  <1>4. late' \subseteq Account
    <2>1. At(r, "purge") => req[r].acc \in Account
      BY HandlerAt, AccountAssumption DEF Staged, Unsure, Account
    <2> QED BY <1>1, <2>1 DEF AccountInv, AccountTypeOK
  <1>5. OnDisk'
    BY <1>1, <1>2, EndedOnDisk DEF Ended
  <1> QED BY <1>1, <1>2, <1>3, <1>4, <1>5 DEF AccountInv, AccountTypeOK, LiveRows, Ended

\* A failed connection preserves the invariant.
LEMMA GiveUpInv ==
  ASSUME AccountInv, NEW r \in Req, GiveUp(r)
  PROVE  AccountInv'
  <1> DEFINE d == req[r].dev
  <1>1. /\ req[r].waits /\ lost < MaxLost /\ lost' = lost + 1 /\ req' = [req EXCEPT ![r].waits = FALSE]
        /\ UNCHANGED <<mix, user, next, pairs, link, disk, late, job>>
    BY DEF GiveUp
  <1>2. PICK s : s = req[r]
    OBVIOUS
  <1>3. s \in Handler /\ d \in Device
    BY <1>2, HandlerFields DEF AccountInv, AccountTypeOK
  <1>4. PICK t \in Handler : /\ req' = [req EXCEPT ![r] = t] /\ t.kind = s.kind /\ t.pc = s.pc /\ t.dev = s.dev
                              /\ t.acc = s.acc /\ t.old = s.old /\ t.new = s.new /\ t.waits = FALSE
    <2> DEFINE u == [s EXCEPT !.waits = FALSE]
    <2>1. /\ u \in Handler /\ u.kind = s.kind /\ u.pc = s.pc /\ u.dev = s.dev
          /\ u.acc = s.acc /\ u.old = s.old /\ u.new = s.new /\ u.waits = FALSE
      BY <1>3 DEF Handler
    <2>2. req' = [req EXCEPT ![r] = u]
      BY <1>1, <1>2
    <2> HIDE DEF u
    <2> QED BY <2>1, <2>2
  <1>5. req' \in [Req -> Handler] /\ req'[r] = t /\ \A q \in Req : q # r => req'[q] = req[q]
    BY <1>4 DEF AccountInv, AccountTypeOK
  <1>6. Ended(r)
    BY <1>2, <1>4, <1>5 DEF Ended
  <1>7. Staged(req[r]) /\ Tokened(req[r], pairs) /\ req[r].kind # "none"
    BY <1>1, FreeFields DEF AccountInv, Requests, Staged
  <1>8. Staged(t) /\ Tokened(t, pairs)
    BY <1>2, <1>4, <1>7 DEF Staged, Tokened
  <1>9. Requests'
    BY <1>1, <1>5, <1>8 DEF AccountInv, Requests
  <1>10. OnDisk'
    <2>1. req'[r] # Free
      BY <1>2, <1>4, <1>5, <1>7, FreeFields
    <2> QED BY <1>1, <1>2, <1>4, <1>5, <2>1, EndedOnDisk
  <1>11. lost' \in 0..MaxLost
    BY <1>1, AccountAssumption DEF AccountInv, AccountTypeOK
  <1>12. dev' \in [Device -> Repository] /\ OnePlace' /\ OneFlight' /\ Sessions'
    <2>1. CASE req[r].kind = "logout"
      <3>1. dev' = [dev EXCEPT ![d] = SignedOut(d)]
        BY <2>1 DEF GiveUp
      <3>2. Informed(r, SignedOut(d)) /\ dev' \in [Device -> Repository]
        BY <1>1, <3>1, SignedOutFields, InformOne
      <3> QED BY <1>6, <2>1, <3>2, SignedOutFields, EndedSignedOut
    <2>2. CASE req[r].kind = "refresh"
      <3>1. PICK x \in Repository : /\ dev' = [dev EXCEPT ![d] = x] /\ x.held = dev[d].held /\ x.in = dev[d].in
                                    /\ x.raced = dev[d].raced /\ x.excused
        <4>1. PICK v : v = dev[d]
          OBVIOUS
        <4>2. v \in Repository
          BY <1>3, <4>1 DEF AccountInv, AccountTypeOK
        <4> DEFINE u == [v EXCEPT !.excused = TRUE]
        <4>3. u \in Repository /\ u.held = v.held /\ u.in = v.in /\ u.raced = v.raced /\ u.excused
          BY <4>2 DEF Repository
        <4>4. dev' = [dev EXCEPT ![d] = u]
          BY <2>2, <4>1 DEF GiveUp
        <4> HIDE DEF u
        <4> QED BY <4>1, <4>3, <4>4
      <3>2. Informed(r, x) /\ dev' \in [Device -> Repository]
        BY <1>1, <3>1, InformOne
      <3> QED BY <1>1, <1>6, <2>2, <3>1, <3>2, EndedRefresh DEF Refreshing
    <2>3. CASE req[r].kind \notin {"logout", "refresh"}
      <3>1. dev' = dev
        BY <2>3 DEF GiveUp
      <3> QED BY <1>1, <1>2, <1>4, <1>5, <1>6, <2>3, <3>1, EndedQuietly DEF AccountInv, AccountTypeOK, Refreshing
    <2> QED BY <2>1, <2>2, <2>3
  <1> QED BY <1>1, <1>5, <1>9, <1>10, <1>11, <1>12 DEF AccountInv, AccountTypeOK, LiveRows

\* A request is sent: a sign-in by a device without tokens and without another
\* request, any other request with the tokens the device holds.
LEMMA SendInv ==
  ASSUME AccountInv, NEW r \in Req, NEW d \in Device, NEW k \in Kind, Send(r, d, k)
  PROVE  AccountInv'
  <1>1. /\ MaySend(d, k) /\ req[r].kind = "none"
        /\ UNCHANGED <<mix, user, next, pairs, link, dev, disk, late, lost, job>>
    BY DEF Send
  <1>2. PICK a : a = IF k \in SignIn THEN 0 ELSE pairs[dev[d].held].acc
    OBVIOUS
  <1>3. dev[d].held \in 0..MaxPair /\ (dev[d].held # 0 => dev[d].held \in Pair)
    BY AccountAssumption DEF AccountInv, AccountTypeOK, Repository, Pair
  <1>4. /\ k \in SignIn => dev[d].held = 0 /\ ~Waits(d, Kind)
        /\ k \notin SignIn => dev[d].held # 0 /\ ~Waits(d, SignIn \cup {k})
    BY <1>1 DEF MaySend
  <1>5. a \in 0..MaxAccount /\ (k \notin SignIn => a # 0 /\ pairs[dev[d].held].acc = a)
    <2>1. k \notin SignIn => pairs[dev[d].held] \in Rows /\ pairs[dev[d].held].acc # 0
      BY <1>3, <1>4 DEF AccountInv, AccountTypeOK, OnePlace
    <2> QED BY <1>2, <2>1, AccountAssumption DEF Rows
  <1>6. PICK to \in {"lookup", "vouch", "consume", "revokeall", "live"} :
          /\ to = FirstStep(k)
          /\ to = "revokeall" => k = "logout"
          /\ to = "live" => k \in Carriers \ {"logout"}
          /\ to \notin {"revokeall", "live"} => k \in SignIn
    <2>1. CASE k \in {"signup", "login"}
      BY <2>1 DEF FirstStep, SignIn
    <2>2. CASE k \in {"social", "oidc"}
      BY <2>2 DEF FirstStep, SignIn
    <2>3. CASE k = "magic"
      BY <2>3 DEF FirstStep, SignIn
    <2>4. CASE k = "logout"
      BY <2>4 DEF FirstStep
    <2>5. CASE k \in {"refresh", "delete", "capture"}
      BY <2>5 DEF FirstStep, Carriers
    <2> QED BY <2>1, <2>2, <2>3, <2>4, <2>5 DEF Kind, SignIn
  <1>7. PICK n \in Handler : /\ req' = [req EXCEPT ![r] = n] /\ n.kind = k /\ n.pc = to /\ n.dev = d /\ n.acc = a
                              /\ n.old = dev[d].held /\ n.new = 0 /\ n.waits = TRUE
    <2> DEFINE m == [kind |-> k, pc |-> to, dev |-> d, acc |-> a, old |-> dev[d].held, new |-> 0, waits |-> TRUE]
    <2>1. k \in Kinds /\ to \in PCs /\ 0 \in 0..MaxPair
      BY AccountAssumption DEF Kinds, PCs
    <2>2. /\ m \in Handler /\ m.kind = k /\ m.pc = to /\ m.dev = d /\ m.acc = a
          /\ m.old = dev[d].held /\ m.new = 0 /\ m.waits = TRUE
      BY <1>3, <1>5, <2>1 DEF Handler
    <2>3. req' = [req EXCEPT ![r] = m]
      BY <1>2, <1>6 DEF Send
    <2> HIDE DEF m
    <2> QED BY <2>2, <2>3
  <1>8. req' \in [Req -> Handler] /\ req'[r] = n /\ \A q \in Req : q # r => req'[q] = req[q]
    BY <1>7 DEF AccountInv, AccountTypeOK
  <1>9. AccountTypeOK'
    BY <1>1, <1>8 DEF AccountInv, AccountTypeOK
  <1>10. Staged(n) /\ Tokened(n, pairs) /\ k # "none"
    BY <1>4, <1>5, <1>6, <1>7 DEF Staged, Tokened, Unsure, Carriers, Issuing, SignIn, Kind
  <1>11. Requests'
    BY <1>1, <1>8, <1>10 DEF AccountInv, Requests
  <1>12. LiveRows'
    BY <1>1 DEF AccountInv, LiveRows
  <1>13. \A q \in Req : req[q].waits => req[q].kind \in Kind
    <2>1. \A q \in Req : req[q].waits => req[q].kind # "none" /\ req[q].kind # "ingest" /\ req[q].kind \in Kinds
      BY FreeFields, HandlerFields DEF AccountInv, Requests, Staged
    <2> QED BY <2>1 DEF Kinds
  <1>14. OnePlace'
    <2>1. \A e \in Device : dev'[e] = dev[e]
      BY <1>1
    <2>2. \A q \in Req, e \in Device :
            /\ req'[q].kind = "refresh" /\ req'[q].old = dev[e].held => req'[q].dev = e
            /\ req'[q].new # 0 => req'[q].new # dev[e].held
      BY <1>4, <1>7, <1>8 DEF AccountInv, OnePlace, SignIn
    <2>3. \A p, q \in Req : req'[p].new # 0 =>
            /\ req'[q].new = req'[p].new => q = p
            /\ req'[q].kind = "refresh" => req'[q].old # req'[p].new
      BY <1>7, <1>8 DEF AccountInv, OnePlace
    <2> QED BY <1>1, <2>1, <2>2, <2>3 DEF AccountInv, OnePlace
  <1>15. OneFlight'
    <2>1. ASSUME NEW q \in Req, Refreshing(q)'
          PROVE  IF dev'[req'[q].dev].in THEN dev'[req'[q].dev].held = req'[q].old ELSE dev'[req'[q].dev].raced
      <3>1. CASE q = r
        <4>1. k = "refresh" /\ dev[d].held # 0
          BY <2>1, <3>1, <1>4, <1>7, <1>8 DEF Refreshing, SignIn
        <4>2. dev[d].in \/ dev[d].raced
          BY <4>1 DEF AccountInv, Sessions
        <4> QED BY <3>1, <4>2, <1>1, <1>7, <1>8
      <3>2. CASE q # r
        BY <2>1, <3>2, <1>1, <1>8 DEF AccountInv, OneFlight, Refreshing
      <3> QED BY <3>1, <3>2
    <2>2. ASSUME NEW p \in Req, NEW q \in Req, req'[q].dev = req'[p].dev, req'[q].waits
          PROVE  /\ Refreshing(p)' /\ Refreshing(q)' => q = p
                 /\ req'[p].waits /\ req'[p].kind \in SignIn => q = p
      <3>1. CASE p # r /\ q # r
        BY <2>2, <3>1, <1>8 DEF AccountInv, OneFlight, Refreshing
      <3>2. CASE p = r /\ q # r
        BY <2>2, <3>2, <1>4, <1>7, <1>8, <1>13 DEF Waits, Refreshing, SignIn
      <3>3. CASE p # r /\ q = r
        <4>1. req'[p] = req[p] /\ req[p].dev = d
          BY <2>2, <3>3, <1>7, <1>8
        <4>2. req[p].waits => ~(k \in SignIn) /\ req[p].kind \notin SignIn \cup {k}
          BY <4>1, <1>4, <1>13 DEF Waits
        <4> QED BY <4>1, <4>2, <3>3, <1>7, <1>8 DEF Refreshing
      <3> QED BY <3>1, <3>2, <3>3
    <2> QED BY <2>1, <2>2 DEF OneFlight
  <1>16. Sessions'
    <2>1. \A e \in Device, q \in Req : Rotating(q, e) => Rotating(q, e)'
      <3>1. ~Refreshing(r)
        BY <1>1 DEF Refreshing
      <3> QED BY <3>1, <1>1, <1>8 DEF Rotating, Refreshing
    <2>2. ASSUME NEW e \in Device
          PROVE  (IF dev[e].in
                  THEN ~dev[e].excused =>
                         /\ dev[e].held # 0 /\ Exists(pairs[dev[e].held].acc)
                         /\ pairs[dev[e].held].refresh = "live" \/ \E q \in Req : Rotating(q, e)
                  ELSE dev[e].held = 0 \/ dev[e].raced)'
      <3> HIDE DEF Rotating
      <3> QED BY <1>1, <2>1 DEF AccountInv, Sessions, Exists
    <2>3. \A q \in Req : req'[q].kind = "refresh" /\ ~req'[q].waits =>
            \A e \in Device : dev'[e].held = req'[q].old => dev'[e].excused \/ ~dev'[e].in
      BY <1>1, <1>7, <1>8 DEF AccountInv, Sessions
    <2>4. \A q \in Req : Refreshing(q)' /\ At(q, "refused")' =>
            dev'[req'[q].dev].excused \/ ~dev'[req'[q].dev].in
      BY <1>1, <1>7, <1>8 DEF AccountInv, Sessions, Refreshing, At
    <2> QED BY <2>2, <2>3, <2>4 DEF Sessions
  <1>17. OnDisk'
    <2>1. req[r].pc = "none"
      BY <1>1, FreeFields DEF AccountInv, Requests, Staged
    <2>2. \A b : Accounted(b) => Accounted(b)'
      BY <1>1, <1>8, <2>1 DEF Accounted, At, Exists
    <2>3. ASSUME NEW q \in Req, At(q, "append")' PROVE Accounted(req[q].acc)'
      <3>1. req'[q] = req[q] /\ At(q, "append")
        BY <2>3, <1>7, <1>8 DEF At
      <3> QED BY <2>2, <3>1 DEF AccountInv, OnDisk
    <2> QED BY <1>1, <2>2, <2>3 DEF AccountInv, OnDisk
  <1> QED BY <1>9, <1>11, <1>12, <1>14, <1>15, <1>16, <1>17 DEF AccountInv

\* Steps that no handler takes: links and jobs.
LEMMA AsideInv ==
  ASSUME AccountInv, UNCHANGED <<mix, user, next, pairs, req, dev, disk, late, lost>>,
         link' \in 0..MaxAccount, job' \in {"none", "claimed", "written"}
  PROVE  AccountInv'
  <1>1. AccountTypeOK'
    BY DEF AccountInv, AccountTypeOK
  <1>2. Requests' /\ LiveRows' /\ OnePlace'
    BY DEF AccountInv, Requests, LiveRows, OnePlace
  <1>3. OneFlight'
    BY DEF AccountInv, OneFlight, Refreshing
  <1>4. Sessions'
    BY DEF AccountInv, Sessions, Refreshing, Rotating, At, Exists
  <1>5. OnDisk'
    BY DEF AccountInv, OnDisk, Accounted, At, Exists
  <1> QED BY <1>1, <1>2, <1>3, <1>4, <1>5 DEF AccountInv

\* A database error preserves the invariant: the device of a refresh that was
\* past its revoke is excused.
LEMMA StatementFailsInv ==
  ASSUME AccountInv, NEW r \in Req, StatementFails(r)
  PROVE  AccountInv'
  <1> DEFINE past == req[r].kind = "refresh" /\ req[r].pc \in {"access", "refresh"}
             hit == IF past THEN {req[r].old} ELSE {}
  <1>1. /\ req[r].pc \in Statements /\ lost < MaxLost /\ lost' = lost + 1 /\ Goto(r, "failed") /\ Excuse(hit)
        /\ UNCHANGED <<mix, user, next, pairs, link, disk, late, job>>
    BY DEF StatementFails
  <1>2. /\ AccountTypeOK /\ Staged(req[r]) /\ Tokened(req[r], pairs) /\ req[r].kind # "none"
        /\ req[r].old \in 0..MaxPair
    BY <1>1, BusyKind, HandlerFields DEF AccountInv, Requests, Statements
  <1>3. Moved(r, "failed", req[r].acc, req[r].new)
    BY <1>1, <1>2, GotoMoves DEF PCs
  <1>4. hit \in SUBSET Pair
    BY <1>2, AccountAssumption DEF Tokened, Carriers, Pair
  <1>5. Staged(req'[r])
    BY <1>2, <1>3 DEF Staged, Moved, Unsure
  <1>6. lost' \in 0..MaxLost
    BY <1>1, <1>2, AccountAssumption DEF AccountTypeOK
  <1>7. AccountTypeOK'
    BY <1>1, <1>2, <1>3, <1>4, <1>6, ExcuseFields DEF AccountTypeOK, Moved
  <1>8. Requests' /\ LiveRows'
    BY <1>1, <1>2, <1>3, <1>5, MovedRequests DEF AccountInv, LiveRows
  <1>9. Refreshing(r) => req[r].pc \notin {"access", "refresh", "ok"} \/ req[r].old \in hit
    BY <1>1 DEF Refreshing, Statements
  <1>10. OnePlace' /\ OneFlight' /\ Sessions'
    <2> HIDE DEF hit
    <2> QED BY <1>1, <1>3, <1>4, <1>9, RevokingStep
  <1>11. OnDisk'
    BY <1>1, <1>2, <1>3, QuietOnDisk DEF AccountInv, Statements
  <1> QED BY <1>7, <1>8, <1>10, <1>11 DEF AccountInv

\* Every step of a handler preserves the invariant.
LEMMA HandleInv ==
  ASSUME AccountInv, NEW r \in Req, Handle(r)
  PROVE  AccountInv'
  BY VouchInv, IdentityInv, LookupInv, RehashInv, CreateInv, LinkInv, ConsumeInv, SessionIsLiveInv,
     ExtractInv, RevokeInv, RevokeAllInv, InsertAccessInv, InsertRefreshInv, WaitingInv, CascadeInv,
     PurgeInv, AppendLogInv, OkInv, RefusedInv
  DEF Handle

\* The empty service satisfies the inductive invariant.
LEMMA InitAccountInv == AccountInit => AccountInv
  <1> SUFFICES ASSUME AccountInit PROVE AccountInv
    OBVIOUS
  <1>1. \A r \in Req : req[r] = Free
    BY DEF AccountInit
  <1>2. \A p \in Pair : pairs[p] \in Rows /\ pairs[p].acc = 0 /\ pairs[p].access = "none" /\ pairs[p].refresh = "none"
    BY AccountAssumption DEF AccountInit, NoPair, Rows
  <1>3. \A d \in Device : dev[d] \in Repository /\ dev[d].held = 0 /\ dev[d].in = FALSE
    BY AccountAssumption DEF AccountInit, Out, Repository
  <1>4. user \in User /\ next \in 1..(MaxAccount + 1) /\ (user.acc = 0 => ~user.pw /\ ~user.linked)
    <2>1. CASE user = NoUser /\ next = 1
      BY <2>1, AccountAssumption DEF NoUser, User
    <2>2. CASE user = [acc |-> 1, pw |-> TRUE, linked |-> FALSE] /\ next = 2
      BY <2>2, AccountAssumption DEF User
    <2> QED BY <2>1, <2>2 DEF AccountInit
  <1>5. AccountTypeOK
    <2>1. req \in [Req -> Handler]
      BY FreeFields DEF AccountInit
    <2>2. pairs \in [Pair -> Rows] /\ dev \in [Device -> Repository]
      BY <1>2, <1>3 DEF AccountInit
    <2>3. link \in 0..MaxAccount /\ lost \in 0..MaxLost
      BY AccountAssumption DEF AccountInit
    <2> QED BY <1>4, <2>1, <2>2, <2>3 DEF AccountInit, AccountTypeOK, User
  <1>6. Requests
    <2>1. Staged(Free) /\ Tokened(Free, pairs)
      BY FreeFields DEF Staged, Tokened, Unsure, Carriers
    <2> QED BY <1>1, <2>1 DEF Requests
  <1>7. LiveRows
    BY <1>2, <1>4 DEF LiveRows
  <1>8. OnePlace
    BY <1>1, <1>3, FreeFields DEF OnePlace
  <1>9. OneFlight
    BY <1>1, FreeFields DEF OneFlight, Refreshing
  <1>10. Sessions
    BY <1>1, <1>3, FreeFields DEF Sessions, Refreshing
  <1>11. OnDisk
    BY <1>1, FreeFields DEF AccountInit, OnDisk, At
  <1> QED BY <1>5, <1>6, <1>7, <1>8, <1>9, <1>10, <1>11 DEF AccountInv

\* Every step preserves the inductive invariant.
LEMMA NextAccountInv == AccountInv /\ [AccountNext]_accountVars => AccountInv'
  <1> SUFFICES ASSUME AccountInv, [AccountNext]_accountVars PROVE AccountInv'
    OBVIOUS
  <1>1. link \in 0..MaxAccount /\ user.acc \in 0..MaxAccount /\ 0 \in 0..MaxAccount
        /\ job \in {"none", "claimed", "written"}
    BY AccountAssumption DEF AccountInv, AccountTypeOK
  <1>2. CASE UNCHANGED accountVars
    BY <1>1, <1>2, AsideInv DEF accountVars
  <1>3. CASE MagicRequest \/ MagicExpires
    BY <1>1, <1>3, AsideInv DEF MagicRequest, MagicExpires, IssuedFor
  <1>4. CASE ClaimJob \/ WriteWiki \/ FinishJob
    BY <1>1, <1>4, AsideInv DEF ClaimJob, WriteWiki, FinishJob, JobStep
  <1>5. ASSUME NEW r \in Req, Handle(r) \/ StatementFails(r) \/ GiveUp(r) \/ Drop(r)
        PROVE  AccountInv'
    BY <1>5, HandleInv, StatementFailsInv, GiveUpInv, DropInv
  <1>6. ASSUME NEW r \in Req, NEW d \in Device, NEW k \in Kind, Send(r, d, k) PROVE AccountInv'
    BY <1>6, SendInv
  <1> QED BY <1>2, <1>3, <1>4, <1>5, <1>6 DEF AccountNext

\* The inductive invariant holds of the accounts, their tokens and devices for every
\* number of requests, devices, accounts and pairs.
THEOREM AccountInvariance == AccountSpec => []AccountInv
  BY InitAccountInv, NextAccountInv, PTL DEF AccountSpec

\* The tokens of a device match what its user did, for any number of devices,
\* requests and pairs.
THEOREM TokensMatch == AccountSpec => []TokensMatchSession
  <1>1. AccountInv => TokensMatchSession
    BY DEF AccountInv, Sessions, TokensMatchSession, Rotating, Refreshing
  <1> QED BY <1>1, AccountInvariance, PTL

\* Once a deletion is through, nothing of the account is on disk, unless the purge
\* failed, its request was dropped after the commit, or a capture was between its
\* check and its write (delete_account and the capture route).
THEOREM DeletionErases == AccountSpec => []Erased
  <1>1. AccountInv => Erased
    BY DEF AccountInv, OnDisk, Erased, Accounted
  <1> QED BY <1>1, AccountInvariance, PTL

============================================================================
