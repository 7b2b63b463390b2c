----------------------------- MODULE JobQueue -----------------------------
(***************************************************************************)
(* The durable job queue of one tenant: qcue-rs/app-server/src/jobs.       *)
(*                                                                         *)
(* The table `jobs` is modelled as Postgres shows it under READ COMMITTED: *)
(* jstate is the committed state of every row, a row inserted by a request *)
(* that has not committed is "private" to that request, and a row a worker *)
(* has claimed is locked by that worker while its committed state is still *)
(* "pending" (run_once claims, runs the handler and records the outcome in *)
(* ONE transaction, so the lease columns never become visible).            *)
(*                                                                         *)
(* The tenant is fixed (every statement is tenant-scoped).  Rows are       *)
(* claimed in any order: enqueue never sets `priority`, and the order by   *)
(* available_at only decides latency; its fairness is in Fairness.         *)
(***************************************************************************)
EXTENDS Naturals, FiniteSets

CONSTANTS
    Job,            \* ids of the rows the instance may ever hold
    Ref,            \* debounce keys: a (kind, debounce_ref) pair each
    DreamRef,       \* the keys whose kind is 'dream'; the others are 'ingest'
    Client,         \* request handlers (and the cron) that enqueue
    Worker,         \* tasks of the ingest worker pool
    MaxPending,     \* MAX_PENDING_PER_TENANT
    MaxAttempts,    \* jobs.max_attempts
    MaxCrash,       \* bound of the model: crashes of a worker mid-handler
    NoJob, NoRef, NoClient

ASSUME JobAssumption ==
    /\ NoJob \notin Job /\ NoRef \notin Ref /\ NoClient \notin Client
    /\ DreamRef \subseteq Ref /\ IsFiniteSet(Client)
    /\ MaxPending \in Nat \ {0} /\ MaxAttempts \in Nat \ {0} /\ MaxCrash \in Nat

VARIABLES
    jstate,     \* committed state of each row ("absent": no row)
    jref,       \* debounce key of each row
    attempts,   \* committed attempt_count
    due,        \* available_at <= now()
    owner,      \* the request whose open transaction inserted the row
    txpc,       \* where each request is inside its transaction
    txref,      \* the key of the enqueue call in progress
    run,        \* the row each worker has claimed, or NoJob
    claims,     \* history: how often each row was claimed
    crashes     \* history: crashes so far (bounds the model)

rows == <<jstate, jref, attempts, due>>
reqs == <<owner, txpc, txref>>
vars == <<jstate, jref, attempts, due, owner, txpc, txref, run, claims, crashes>>

Terminal == {"done", "failed", "canceled"}
State == {"absent", "private", "pending", "leased"} \cup Terminal

TypeOK ==
    /\ jstate \in [Job -> State]
    /\ jref \in [Job -> Ref \cup {NoRef}]
    /\ attempts \in [Job -> 0..MaxAttempts]
    /\ due \in [Job -> BOOLEAN]
    /\ owner \in [Job -> Client \cup {NoClient}]
    /\ txpc \in [Client -> {"idle", "open", "counted", "looked"}]
    /\ txref \in [Client -> Ref \cup {NoRef}]
    /\ run \in [Worker -> Job \cup {NoJob}]
    /\ claims \in [Job -> Nat]
    /\ crashes \in 0..MaxCrash

Init ==
    /\ jstate = [j \in Job |-> "absent"]
    /\ jref = [j \in Job |-> NoRef]
    /\ attempts = [j \in Job |-> 0]
    /\ due = [j \in Job |-> FALSE]
    /\ owner = [j \in Job |-> NoClient]
    /\ txpc = [c \in Client |-> "idle"]
    /\ txref = [c \in Client |-> NoRef]
    /\ run = [w \in Worker |-> NoJob]
    /\ claims = [j \in Job |-> 0]
    /\ crashes = 0

----------------------------------------------------------------------------
(* Requests: enqueue inside a tenant transaction.                          *)

\* Rows a statement of request c can see: committed live ones and its own.
Pending == {j \in Job : jstate[j] = "pending"}
Live == {j \in Job : jstate[j] \in {"pending", "leased"}}
Mine(c) == {j \in Job : owner[j] = c}

\* Variant: claim without SKIP LOCKED.
LockedIgnored(j) == FALSE

\* The row lock of an open worker transaction.
Locked(j) == \E w \in Worker : run[w] = j

\* The request's transaction is open (TenantCtx / open_tenant_tx).
Begin(c) ==
    /\ txpc[c] = "idle"
    /\ txpc' = [txpc EXCEPT ![c] = "open"]
    /\ UNCHANGED <<rows, owner, txref, run, claims, crashes>>

\* The rows a request inserted disappear with its transaction.
RollbackOf(c) ==
    /\ jstate' = [j \in Job |-> IF owner[j] = c THEN "absent" ELSE jstate[j]]
    /\ jref' = [j \in Job |-> IF owner[j] = c THEN NoRef ELSE jref[j]]
    /\ owner' = [j \in Job |-> IF owner[j] = c THEN NoClient ELSE owner[j]]
    /\ txpc' = [txpc EXCEPT ![c] = "idle"]
    /\ txref' = [txref EXCEPT ![c] = NoRef]
    /\ UNCHANGED <<attempts, due, run, claims, crashes>>

\* enqueue, first statement: count pending + leased against the bound.
Overloaded(c) == Cardinality(Live \cup Mine(c)) >= MaxPending

EnqueueCount(c, r) ==
    /\ txpc[c] = "open"
    /\ \/ /\ ~Overloaded(c)
          /\ txpc' = [txpc EXCEPT ![c] = "counted"]
          /\ txref' = [txref EXCEPT ![c] = r]
          /\ UNCHANGED <<rows, owner, run, claims, crashes>>
       \/ /\ Overloaded(c)      \* EnqueueError::Overloaded: the caller gives up
          /\ RollbackOf(c)

\* Variant: only committed rows are compared, not the request's own.
DebouncedCommittedOnly(c) == {j \in Job : jstate[j] = "done" /\ jref[j] = txref[c]}

\* Second statement: a visible pending row with the same key is returned
\* instead of a new one.  A row a worker is running still reads "pending".
Debounced(c) == {j \in Pending \cup Mine(c) : jref[j] = txref[c]}

EnqueueLookup(c) ==
    /\ txpc[c] = "counted"
    /\ \/ /\ Debounced(c) # {}
          /\ txpc' = [txpc EXCEPT ![c] = "open"]
          /\ txref' = [txref EXCEPT ![c] = NoRef]
       \/ /\ Debounced(c) = {}
          /\ txpc' = [txpc EXCEPT ![c] = "looked"]
          /\ UNCHANGED txref
    /\ UNCHANGED <<rows, owner, run, claims, crashes>>

\* Third statement: INSERT under a fresh id.
EnqueueInsert(c, j) ==
    /\ txpc[c] = "looked"
    /\ jstate[j] = "absent"
    /\ jstate' = [jstate EXCEPT ![j] = "private"]
    /\ jref' = [jref EXCEPT ![j] = txref[c]]
    /\ owner' = [owner EXCEPT ![j] = c]
    /\ txpc' = [txpc EXCEPT ![c] = "open"]
    /\ txref' = [txref EXCEPT ![c] = NoRef]
    /\ UNCHANGED <<attempts, due, run, claims, crashes>>

\* The handler commits: its rows become pending and available now.
Commit(c) ==
    /\ txpc[c] = "open"
    /\ jstate' = [j \in Job |-> IF owner[j] = c THEN "pending" ELSE jstate[j]]
    /\ due' = [j \in Job |-> IF owner[j] = c THEN TRUE ELSE due[j]]
    /\ owner' = [j \in Job |-> IF owner[j] = c THEN NoClient ELSE owner[j]]
    /\ txpc' = [txpc EXCEPT ![c] = "idle"]
    /\ UNCHANGED <<jref, attempts, txref, run, claims, crashes>>

\* The request fails elsewhere or its connection drops.
Abandon(c) == txpc[c] # "idle" /\ RollbackOf(c)

----------------------------------------------------------------------------
(* Workers: run_once.                                                      *)

\* claim_one: UPDATE .. WHERE id = (SELECT .. FOR UPDATE SKIP LOCKED).  There
\* is no predicate on the kind of the row.
Claim(w, j) ==
    /\ run[w] = NoJob
    /\ jstate[j] = "pending" /\ due[j]
    /\ ~Locked(j)
    /\ run' = [run EXCEPT ![w] = j]
    /\ claims' = [claims EXCEPT ![j] = @ + 1]
    /\ UNCHANGED <<rows, reqs, crashes>>

\* The ingest pool registers one handler and passes JobKind::Ingest to
\* run_once, so every row it claims goes to the ingest handler.  A dream
\* payload has no idea_id, which that handler reports as an error.
HandlerCanSucceed(j) == jref[j] \notin DreamRef

\* complete + commit: the attempt counted by the claim becomes durable too.
Finish(w) ==
    /\ run[w] # NoJob
    /\ HandlerCanSucceed(run[w])
    /\ jstate' = [jstate EXCEPT ![run[w]] = "done"]
    /\ attempts' = [attempts EXCEPT ![run[w]] = @ + 1]
    /\ run' = [run EXCEPT ![w] = NoJob]
    /\ UNCHANGED <<jref, due, reqs, claims, crashes>>

\* Variants: the comparison with max_attempts is off by one.
ExhaustedLate(n) == n > MaxAttempts
ExhaustedEarly(n) == n + 1 >= MaxAttempts

\* attempt_count >= max_attempts.
Exhausted(n) == n >= MaxAttempts

\* Variant: a retried row keeps its leased state.
FailOrRetryLeased(w) ==
    LET j == run[w]
    IN  /\ j # NoJob
        /\ jstate' = [jstate EXCEPT ![j] = "leased"]
        /\ attempts' = [attempts EXCEPT ![j] = IF @ < MaxAttempts THEN @ + 1 ELSE @]
        /\ due' = [due EXCEPT ![j] = FALSE]
        /\ run' = [run EXCEPT ![w] = NoJob]
        /\ UNCHANGED <<jref, reqs, claims, crashes>>

\* fail_or_retry + commit.
FailOrRetry(w) ==
    LET j == run[w]
        n == attempts[j] + 1
    IN  /\ j # NoJob
        /\ jstate' = [jstate EXCEPT ![j] = IF Exhausted(n) THEN "failed" ELSE "pending"]
        /\ attempts' = [attempts EXCEPT ![j] = n]
        /\ due' = [due EXCEPT ![j] = FALSE]
        /\ run' = [run EXCEPT ![w] = NoJob]
        /\ UNCHANGED <<jref, reqs, claims, crashes>>

\* The worker dies, or a statement after the claim fails: Postgres rolls the
\* transaction back, the bump of attempt_count with it.
Crash(w) ==
    /\ run[w] # NoJob
    /\ crashes < MaxCrash
    /\ run' = [run EXCEPT ![w] = NoJob]
    /\ crashes' = crashes + 1
    /\ UNCHANGED <<rows, reqs, claims>>

\* The 30 s backoff of a retried row is over.
BackoffOver(j) ==
    /\ jstate[j] = "pending" /\ ~due[j]
    /\ due' = [due EXCEPT ![j] = TRUE]
    /\ UNCHANGED <<jstate, jref, attempts, reqs, run, claims, crashes>>

\* Variant: cancel does not wait for the worker's row lock.
CancelRunning(j) ==
    /\ jstate[j] = "pending"
    /\ jstate' = [jstate EXCEPT ![j] = "canceled"]
    /\ UNCHANGED <<jref, attempts, due, reqs, run, claims, crashes>>

\* cancel: waits for the row lock, then needs a non-terminal state.
Cancel(j) ==
    /\ jstate[j] = "pending"
    /\ ~Locked(j)
    /\ jstate' = [jstate EXCEPT ![j] = "canceled"]
    /\ UNCHANGED <<jref, attempts, due, reqs, run, claims, crashes>>

\* reclaim_stale, at the head of every pool tick: leases that expired (all of
\* them, here) go back to the queue or fail.
ReclaimStale ==
    /\ jstate' = [j \in Job |->
                    IF jstate[j] # "leased" THEN jstate[j]
                    ELSE IF Exhausted(attempts[j]) THEN "failed" ELSE "pending"]
    /\ UNCHANGED <<jref, attempts, due, reqs, run, claims, crashes>>

----------------------------------------------------------------------------
Request(c) ==
    \/ Begin(c)
    \/ \E r \in Ref : EnqueueCount(c, r)
    \/ EnqueueLookup(c)
    \/ \E j \in Job : EnqueueInsert(c, j)
    \/ Commit(c)
    \/ Abandon(c)

Work(w) ==
    \/ \E j \in Job : Claim(w, j)
    \/ Finish(w)
    \/ FailOrRetry(w)
    \/ Crash(w)

Next ==
    \/ \E c \in Client : Request(c)
    \/ \E w \in Worker : Work(w)
    \/ \E j \in Job : BackoffOver(j) \/ Cancel(j)
    \/ ReclaimStale

Spec == Init /\ [][Next]_vars

\* Every tick of the pool claims whatever is due, oldest available_at first,
\* so a row that is due again and again is claimed (SF); a handler that runs
\* ends one way or the other, and a backoff elapses.  Nothing obliges a
\* request to enqueue, to commit or to cancel.
Fairness ==
    /\ \A j \in Job : SF_vars(\E w \in Worker : Claim(w, j))
    /\ \A w \in Worker : WF_vars(Finish(w) \/ FailOrRetry(w))
    /\ \A j \in Job : WF_vars(BackoffOver(j))

FairSpec == Spec /\ Fairness

----------------------------------------------------------------------------
(* Properties.                                                             *)

\* No two workers run the same row, and the row a worker runs is neither
\* settled nor withdrawn under it (SKIP LOCKED in claim_one, worker.rs's
\* unguarded UPDATE .. WHERE id=$1 in complete and fail_or_retry).
OneRunner ==
    \A w \in Worker : run[w] # NoJob =>
        /\ jstate[run[w]] = "pending"
        /\ \A v \in Worker : run[v] = run[w] => v = w

\* A row that can still be claimed has an attempt left, and a failed one has
\* used all of them (attempt_count is bumped by claim_one but compared with
\* max_attempts only in fail_or_retry).
RetryBudget ==
    \A j \in Job :
        /\ jstate[j] = "pending" => attempts[j] < MaxAttempts
        /\ jstate[j] = "failed" => attempts[j] = MaxAttempts

\* A row is claimed at most max_attempts times, plus once for each worker that
\* died: a crash rolls the claim's bump of attempt_count back, so it is not
\* max_attempts alone that bounds the claims (worker.rs:7-8, :188).
ClaimsBudget == \A j \in Job : claims[j] <= MaxAttempts + crashes

\* The debounce lookup and the insert are separate statements: each concurrent
\* request adds at most one row per key beside the ones the others add.
Queued(r) == {j \in Pending : jref[j] = r}
DuplicatesBounded == \A r \in Ref : Cardinality(Queued(r)) <= Cardinality(Client)

\* A settled row is never touched again, although complete, fail_or_retry and
\* reclaim_stale carry no guard on the state they overwrite.
SettledIsFinal ==
    [][\A j \in Job : jstate[j] \in Terminal => jstate'[j] = jstate[j]]_vars

\* Every queued job settles, whatever finite number of workers crash.
JobSettles == \A j \in Job : jstate[j] = "pending" ~> jstate[j] \in Terminal

\* The inductive invariant behind OneRunner and RetryBudget.  A row is private
\* exactly while a request owns it; rows that were never visible have no
\* attempt; and no lease is ever visible, because run_once claims and settles
\* in one transaction (so reclaim_stale never finds a row).
Ownership == \A j \in Job : owner[j] # NoClient <=> jstate[j] = "private"
Unattempted == \A j \in Job : jstate[j] \in {"absent", "private"} => attempts[j] = 0
NoVisibleLease == \A j \in Job : jstate[j] # "leased"

QueueInv ==
    /\ TypeOK
    /\ Ownership
    /\ Unattempted
    /\ NoVisibleLease
    /\ OneRunner
    /\ RetryBudget

\* Every claim is an attempt on record, the one in progress, or a crash: the
\* strengthening of ClaimsBudget.
ClaimsAccounted ==
    \A j \in Job : claims[j] <= attempts[j] + crashes + (IF Locked(j) THEN 1 ELSE 0)

\* A request inserts a key at most once: its own row would answer the lookup.
InsertsOnce ==
    /\ \A i, j \in Job : owner[i] # NoClient /\ owner[i] = owner[j] /\ jref[i] = jref[j] => i = j
    /\ \A c \in Client : txpc[c] = "looked" => \A j \in Mine(c) : jref[j] # txref[c]

\* The requests past the lookup of r, which no row visible to them answered.
\* Each may still add a row: the strengthening of DuplicatesBounded counts
\* them in.
Adding(r) == {c \in Client : \/ txpc[c] = "looked" /\ txref[c] = r
                             \/ \E j \in Mine(c) : jref[j] = r}
RoomForAll == \A r \in Ref :
    IsFiniteSet(Queued(r)) /\ Cardinality(Queued(r)) + Cardinality(Adding(r)) <= Cardinality(Client)

\* What an observer sees of each row, for the contract of the queue.
Phase(j) ==
    IF Locked(j) THEN "running"
    ELSE IF jstate[j] \in {"absent", "private"} THEN "absent"
    ELSE IF jstate[j] \in Terminal THEN jstate[j]
    ELSE "waiting"

Contract == INSTANCE QueueContract WITH phase <- [j \in Job |-> Phase(j)]

\* The transactional queue implements the life cycle QueueContract promises.
ImplementsContract == Contract!ContractSpec

============================================================================
