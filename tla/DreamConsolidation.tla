------------------------ MODULE DreamConsolidation ------------------------
(***************************************************************************)
(* Auto-Dream of one tenant: the row of wiki_consolidation that is both    *)
(* lease and clock, the cron that enqueues a dream when it is due, and the *)
(* dream jobs that climb the gate ladder, take the lease and run the agent *)
(* (qcue-rs/wiki/src/dream, app-server/src/dream, ideas/src/dream).        *)
(*                                                                         *)
(* Captures are counted by captured_at, which the client stamps when the   *)
(* user acts and the server takes as it is: a capture may arrive long      *)
(* after its stamp, or before it.  Instants are therefore numbered by the  *)
(* claims of the lease: `claims` is how many transactions of try_acquire   *)
(* have begun, a stamp is how many had begun at that instant, and a clock  *)
(* is the number of the claim that set it (0: NULL, read as the epoch).    *)
(* Durations are kept as ages: `age` is the time since the clock, `left`   *)
(* the time to lease_expires, each capped where the gates stop telling     *)
(* values apart.                                                           *)
(*                                                                         *)
(* A dream job is run by at most one worker (the queue locks its row, see  *)
(* JobQueue), but the cron and the manual route use different debounce     *)
(* keys, so two dreams of a tenant can run at once.  The pool that main    *)
(* starts has the ingest handler only, so no dream need ever be claimed:   *)
(* no fairness is assumed of one.  The scan throttle lives in a scheduler  *)
(* that is built anew for every tick and every job, so it never stops      *)
(* anything and is left out.                                               *)
(***************************************************************************)
EXTENDS Naturals, FiniteSets

CONSTANTS
    Ref,            \* debounce keys of the dream jobs: cron and manual
    CronRef,        \* the key the cron uses
    Idea,           \* the captures of the tenant
    MinHours,       \* DreamConfig.min_hours, in ticks of the model's time
    MinSessions,    \* DreamConfig.min_sessions
    LeaseTicks,     \* the lease of one hour, in ticks
    Seeds,          \* whether the tenant has a row: the code never inserts one
    MaxClaims,      \* bound of the model: claims of the lease begun
    MaxCrash        \* bound of the model: crashes and database errors of dreams

ASSUME DreamAssumption ==
    /\ CronRef \in Ref /\ IsFiniteSet(Idea)
    /\ MinHours \in Nat \ {0} /\ MinSessions \in Nat \ {0}
    /\ LeaseTicks \in Nat \ {0} /\ LeaseTicks <= MinHours
    /\ Seeds \subseteq BOOLEAN /\ MaxClaims \in Nat /\ MaxCrash \in Nat

VARIABLES
    row,        \* wiki_consolidation of the tenant
    idea,       \* the captures: whether there and active, and captured_at
    claims,     \* how many claims have begun
    job,        \* the dream job of each debounce key
    dream,      \* what the handler running each job knows
    optin,      \* session_kv settings:server_dream
    dreamt,     \* history: captures a dream that succeeded had claimed over
    late,       \* history: captures that arrived stamped before the clock
    unsure,     \* history: captures an accident took out of the account
    overran,    \* history: a dream outlived its lease
    crashes     \* history: crashes so far

account == <<dreamt, late, unsure>>
world == <<idea, optin, overran, crashes>>
vars == <<row, claims, job, dream, account, world>>

Ages == 0..MinHours
Instants == 0..MaxClaims
Up(n, top) == IF n < top THEN n + 1 ELSE n
Down(n) == IF n > 0 THEN n - 1 ELSE n

\* A handler that is not running; one that has taken the lease is `Inside`.
\* `read` is the clock it read last, `mine` the one its claim sets, `seen`
\* (history) the captures its claim leaves behind the clock, and `astray`
\* (history) says that `read` is not, or no more, what its claim replaced.
Asleep == [pc |-> "none", age |-> 0, read |-> 0, mine |-> 0, seen |-> {}, astray |-> FALSE]
InsidePC == {"budget", "model", "release", "rollback"}
Inside(r) == dream[r].pc \in InsidePC

Row == [present : BOOLEAN, clock : Instants, age : Ages,
        held : BOOLEAN, left : 0..LeaseTicks]
Handler == [pc : {"none", "gates", "count", "lock", "claim"} \cup InsidePC,
            age : Ages, read : Instants, mine : Instants,
            seen : SUBSET Idea, astray : BOOLEAN]

TypeOK ==
    /\ row \in Row
    /\ idea \in [Idea -> [state : {"absent", "active", "removed"}, at : Instants]]
    /\ claims \in Instants
    /\ job \in [Ref -> {"none", "pending", "running"}]
    /\ dream \in [Ref -> Handler]
    /\ optin \in BOOLEAN /\ overran \in BOOLEAN
    /\ dreamt \subseteq Idea /\ late \subseteq Idea /\ unsure \subseteq Idea
    /\ crashes \in 0..MaxCrash

\* A missing row and a NULL clock both read as the epoch: long ago.
Init ==
    /\ row \in [present : Seeds, clock : {0}, age : {MinHours},
                held : {FALSE}, left : {0}]
    /\ idea = [i \in Idea |-> [state |-> "absent", at |-> 0]]
    /\ claims = 0
    /\ job = [r \in Ref |-> "none"]
    /\ dream = [r \in Ref |-> Asleep]
    /\ optin = FALSE
    /\ dreamt = {} /\ late = {} /\ unsure = {}
    /\ overran = FALSE /\ crashes = 0

----------------------------------------------------------------------------
(* The world: captures arrive and go, and time passes.                     *)

Active == {i \in Idea : idea[i].state = "active"}

\* captures_since: the active captures stamped after the clock.
Since(clock) == {i \in Active : idea[i].at >= clock}

\* A capture or a pushed change arrives with whatever stamp the client set.
Capture(i, at) ==
    /\ idea[i].state = "absent"
    /\ idea' = [idea EXCEPT ![i] = [state |-> "active", at |-> at]]
    /\ late' = IF at < row.clock THEN late \cup {i} ELSE late
    /\ UNCHANGED <<row, claims, job, dream, dreamt, unsure, optin, overran, crashes>>

\* The user deletes a capture: it stays a row, and is never active again.
Deactivate(i) ==
    /\ idea[i].state = "active"
    /\ idea' = [idea EXCEPT ![i].state = "removed"]
    /\ UNCHANGED <<row, claims, job, dream, account, optin, overran, crashes>>

\* A clock that has been read for a rollback grows older with the row's.
Aged(d) == IF d.pc \in {"claim"} \cup InsidePC THEN [d EXCEPT !.age = Up(@, MinHours)] ELSE d

Tick ==
    /\ row' = IF row.present
              THEN [row EXCEPT !.age = Up(@, MinHours), !.left = Down(@)]
              ELSE row
    /\ dream' = [r \in Ref |-> Aged(dream[r])]
    /\ overran' = (overran \/ (row.held /\ row.left <= 1 /\ \E r \in Ref : Inside(r)))
    /\ UNCHANGED <<claims, job, account, idea, optin, crashes>>

\* PUT /v1/settings/dream.  Nothing reads the posture back but the screen.
SetDream ==
    /\ optin' = ~optin
    /\ UNCHANGED <<row, claims, job, dream, account, idea, overran, crashes>>

----------------------------------------------------------------------------
(* Enqueueing: both callers debounce on their own key.                     *)

Enqueue(r) ==
    /\ job' = [job EXCEPT ![r] = IF @ = "none" THEN "pending" ELSE @]
    /\ UNCHANGED <<row, claims, dream, account, world>>

\* eval_gate without the count: DREAM_ENABLED is set and the throttle never
\* binds, so the clock alone decides.
TimeGate == row.age >= MinHours

\* dream_due: the captures are not counted here.
DreamDue == TimeGate

CronTick == DreamDue /\ Enqueue(CronRef)

RunManual(r) == r # CronRef /\ Enqueue(r)

----------------------------------------------------------------------------
(* The job handler: try_dream.                                             *)

Step(r, from, d) ==
    /\ dream[r].pc = from
    /\ dream' = [dream EXCEPT ![r] = d]

\* A gate stopped the dream: the job is done with {dreamed: false}.
Stopped(r, from) ==
    /\ Step(r, from, Asleep)
    /\ job' = [job EXCEPT ![r] = "none"]

Claim(r) ==
    /\ job[r] = "pending"
    /\ job' = [job EXCEPT ![r] = "running"]
    /\ Step(r, "none", [Asleep EXCEPT !.pc = "gates"])
    /\ UNCHANGED <<row, claims, account, world>>

\* The cheap gates.  A manual job climbs them too.
CheapGates(r) ==
    /\ \/ /\ TimeGate
          /\ Step(r, "gates", [Asleep EXCEPT !.pc = "count", !.read = row.clock])
          /\ UNCHANGED job
       \/ ~TimeGate /\ Stopped(r, "gates")
    /\ UNCHANGED <<row, claims, account, world>>

\* captures_since(last): against the clock read above, not the row's.
SessionGate(r) ==
    /\ \/ /\ Cardinality(Since(dream[r].read)) >= MinSessions
          /\ Step(r, "count", [Asleep EXCEPT !.pc = "lock"])
          /\ UNCHANGED job
       \/ /\ Cardinality(Since(dream[r].read)) < MinSessions
          /\ Stopped(r, "count")
    /\ UNCHANGED <<row, claims, account, world>>

\* try_acquire begins: its now() is fixed here, and the prior clock is read
\* for the rollback.
ReadPrior(r) ==
    /\ claims < MaxClaims
    /\ claims' = claims + 1
    /\ Step(r, "lock", [Asleep EXCEPT !.pc = "claim", !.age = row.age,
                                      !.read = row.clock, !.mine = claims + 1])
    /\ UNCHANGED <<row, job, account, world>>

\* Variants: the lease is not looked at; a stale lease is never reclaimed.
LeaseIgnored == row.present
LeaseForever == row.present /\ ~row.held

\* WHERE holder IS NULL OR lease_expires IS NULL OR lease_expires < now().
LeaseFree == row.present /\ (~row.held \/ row.left = 0)

\* The dreams other than r that are past the lock lose sight of the clock.
Contested(r) == [s \in Ref |-> IF s # r /\ Inside(s)
                               THEN [dream[s] EXCEPT !.astray = TRUE] ELSE dream[s]]

\* The conditional UPDATE: claiming moves the clock to this transaction's
\* now().  One that began before the claim it follows moves the clock back.
TryAcquire(r) ==
    /\ dream[r].pc = "claim"
    /\ \/ /\ LeaseFree
          /\ dream' = [Contested(r) EXCEPT ![r] =
                [@ EXCEPT !.pc = "budget", !.seen = Active \ Since(dream[r].mine),
                          !.astray = (dream[r].read # row.clock)]]
          /\ row' = [row EXCEPT !.clock = dream[r].mine, !.age = 0,
                                !.held = TRUE, !.left = LeaseTicks]
          /\ unsure' = IF dream[r].mine < row.clock THEN unsure \cup Active ELSE unsure
          /\ UNCHANGED job
       \/ ~LeaseFree /\ Stopped(r, "claim") /\ UNCHANGED <<row, unsure>>
    /\ UNCHANGED <<claims, dreamt, late, world>>

\* DreamAgent::run: the budget is checked before the only provider call.
Budget(r) ==
    /\ \E pc \in {"model", "rollback"} : Step(r, "budget", [dream[r] EXCEPT !.pc = pc])
    /\ UNCHANGED <<row, claims, job, account, world>>

Model(r) ==
    /\ \E pc \in {"release", "rollback"} : Step(r, "model", [dream[r] EXCEPT !.pc = pc])
    /\ UNCHANGED <<row, claims, job, account, world>>

\* release: the clock stays; whoever holds the lease by now loses it.
Release(r) ==
    /\ Step(r, "release", Asleep)
    /\ row' = [row EXCEPT !.held = FALSE, !.left = 0]
    /\ job' = [job EXCEPT ![r] = "none"]
    /\ dreamt' = dreamt \cup dream[r].seen
    /\ UNCHANGED <<claims, late, unsure, world>>

\* Variant: the clock stays where it is.
Unwound(r) == [row EXCEPT !.held = FALSE, !.left = 0]

\* The row after a rewind to the clock that try_acquire read.
Rewound(r) == [row EXCEPT !.clock = dream[r].read, !.age = dream[r].age,
                          !.held = FALSE, !.left = 0]

\* rollback; the error makes the queue retry the job or give it up.  One
\* that rewinds to another clock than it should blurs what was captured.
Rollback(r) ==
    /\ dream[r].pc = "rollback"
    /\ row' = Rewound(r)
    /\ \E s \in {"pending", "none"} : job' = [job EXCEPT ![r] = s]
    /\ dream' = [IF dream[r].astray THEN Contested(r) ELSE dream EXCEPT ![r] = Asleep]
    /\ unsure' = IF dream[r].astray THEN unsure \cup Active ELSE unsure
    /\ UNCHANGED <<claims, dreamt, late, world>>

\* The process dies, or a statement fails: past the lock the lease is left
\* to expire and the clock to stand.  The job is run again or given up.
Crash(r) ==
    /\ dream[r].pc # "none"
    /\ crashes < MaxCrash
    /\ crashes' = crashes + 1
    /\ dream' = [dream EXCEPT ![r] = Asleep]
    /\ \E s \in {"pending", "none"} : job' = [job EXCEPT ![r] = s]
    /\ unsure' = unsure \cup dream[r].seen
    /\ UNCHANGED <<row, claims, dreamt, late, idea, optin, overran>>

DreamStep(r) ==
    \/ CheapGates(r) \/ SessionGate(r) \/ ReadPrior(r) \/ TryAcquire(r)
    \/ Budget(r) \/ Model(r) \/ Release(r) \/ Rollback(r)

Next ==
    \/ Tick \/ SetDream \/ CronTick
    \/ \E i \in Idea : Deactivate(i) \/ \E at \in Instants : Capture(i, at)
    \/ \E r \in Ref : RunManual(r) \/ Claim(r) \/ DreamStep(r) \/ Crash(r)

Spec == Init /\ [][Next]_vars

\* Only that time passes: a dream may wait for its provider for ever, die, or
\* never be run.
FairSpec == Spec /\ WF_vars(Tick)

----------------------------------------------------------------------------
(* Properties.                                                             *)

\* Two dreams of a tenant, the cron's and a manual one, are never both past
\* the lock, however their gates interleave, unless one outlived its lease.
OneDream == overran \/ Cardinality({r \in Ref : Inside(r)}) <= 1

\* When no dream is past the lock, the session gate counts a capture exactly
\* if no successful dream has claimed over it: dreams that fail, are skipped
\* or are retried forget none.  The captures left out are those that arrive
\* stamped before the clock, those a dream that died past the lock had
\* claimed over, and those that were there when a dream rewound the clock to
\* one that was not the clock its claim had replaced.
NoneForgotten ==
    (\A r \in Ref : ~Inside(r)) =>
        \A i \in Active \ (late \cup unsure) : i \in Since(row.clock) <=> i \notin dreamt

\* Whatever becomes of the dreams that took it, hung or dead, the lease of a
\* tenant comes free again: try_acquire reclaims a stale one.
LeaseComesFree == []<>(row.present => LeaseFree)

----------------------------------------------------------------------------
(* The inductive invariant behind OneDream and NoneForgotten.              *)

\* A dream past the lock is covered by an unexpired lease, and is alone.
LeaseCovers ==
    ~overran => \A r \in Ref : Inside(r) =>
        /\ row.present /\ row.held /\ row.left > 0
        /\ \A s \in Ref : Inside(s) => s = r

\* A claim is newer than the clock it read, and no clock is ahead of time.
ClocksInOrder ==
    /\ row.clock <= claims
    /\ \A r \in Ref : dream[r].pc \in {"claim"} \cup InsidePC =>
          dream[r].read < dream[r].mine /\ dream[r].mine <= claims

\* The history speaks of captures that have arrived.
HistoryArrived ==
    \A i \in Idea : idea[i].state = "absent" =>
        i \notin dreamt /\ \A r \in Ref : i \notin dream[r].seen

\* The dream that can still rewind the clock rightly: there is at most one,
\* and the clock is the one its claim set.
Sound(r) == Inside(r) /\ ~dream[r].astray

OneSound ==
    \A r \in Ref : Sound(r) =>
        row.clock = dream[r].mine /\ \A s \in Ref : Sound(s) => s = r

\* The captures that dreams past the lock, of which the clock knows no more,
\* have claimed over: either way out settles them.
Pending == UNION {dream[r].seen : r \in {s \in Ref : Inside(s) /\ dream[s].astray}}

\* A sound dream has seen what is behind the clock, and what was behind the
\* clock it replaced is dreamt or pending.  Without one that holds of the
\* clock itself.
Accounted ==
    \A i \in Active \ (late \cup unsure) :
        /\ \A r \in Ref : Sound(r) =>
              /\ i \in dream[r].seen <=> idea[i].at < row.clock
              /\ i \in dreamt \cup Pending <=> idea[i].at < dream[r].read
        /\ (\A r \in Ref : ~Sound(r)) =>
              (i \in dreamt \cup Pending <=> idea[i].at < row.clock)

DreamInv ==
    TypeOK /\ LeaseCovers /\ ClocksInOrder /\ HistoryArrived /\ OneSound /\ Accounted

============================================================================
