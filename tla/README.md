# Verification of QCue

TLA+ models, TLC runs and TLAPS proofs for the server (`qcue-rs`) and the app
(`qcue_app`) of QCue, a note-taking system: captures are stored at once,
distilled by a language model into a wiki by background jobs, and followed by
several devices through a change feed.

Paths below are relative to `src/`; `app-server` stands for
`qcue-rs/app-server/src`.

## 1. The system

| part | state | operations | talks to |
|---|---|---|---|
| Job queue (`app-server/jobs`) | `jobs` rows: state, attempts, lease, debounce key | `enqueue`, `claim_one`, `complete`, `fail_or_retry`, `cancel`, `reclaim_stale`, pool ticks | capture, digest and the dream scheduler enqueue in their own transactions; the pool runs the handlers |
| Capture and ingest (`app-server/capture`, `app-server/ingest`, `qcue-rs/wiki/src/ingest.rs`) | `ideas` rows (body, `ingest_state`, `updated_at`, `last_ingested_at`, `active`), source pages | capture, edit, delete, digest, the ingest handler | queue, write gate, change feed, language model |
| Change feed (`app-server/sync`, `qcue_app/lib/core/sync`) | `sync_ops` log with an identity `seq`, advisory lock, each device's cursor and cached feed | `emit_op`, push, pull, `applyDelta` | every handler that changes a capture emits; devices pull |
| Offline outbox (`qcue_app/lib/core/offline`) | queued captures and mutations, cached feed | capture, edit, delete, flush, reconcile, owner change | the capture API, with an idempotency key |
| Credential pool and dispatch (`qcue-rs/router`, `app-server/dispatch`) | credential statuses and cooldowns, in memory and in the table | select, mark exhausted / ok / dead, retry, write back | every model call |
| Turn loop (`router/src/turn.rs`, `app-server/wire/engine.rs`, `recall.rs`) | iterations, messages, cancellation | run a turn, call tools | dispatch, streams |
| Streams (`app-server/wire`) | sequence number, replay ring and channel per thread; in-flight slots per WebSocket | publish, subscribe, replay, start / interrupt | turn loop, app |
| Dream (`qcue-rs/wiki/src/dream`, `app-server/dream`) | consolidation lock row, session counter | gates, acquire, release, rollback, approvals | queue, write gate |
| Write gate and page factory (`qcue-rs/wiki`) | markdown file, mirror row, link rows | write, merge, soft-delete | ingest, dream, sync |
| Cost ledger (`store/src/cost_repo.rs`, `wiki/src/cost.rs`) | one row per tenant, user and day | check, accrue | every model call |
| Accounts and sessions (`app-server/auth`, `account`, `qcue_app/lib/features/auth`) | user, identity and session rows, magic links, token pair in the app, files of the tenant | sign-up, login, federated sign-in, refresh, logout, deletion | every request |
| Transcription (`app-server/transcribe`, `router/src/stt*.rs`) | the setting `stt_provider` | choose a vendor, open its key, transcribe | credentials, settings |
| Provider wires (`router/src/transport_*.rs`) | none; the transcript of a turn | render a request, read an answer | turn loop, dispatch |

What is hard about it: request transactions run at READ COMMITTED, so a check
and the write it guards are separate steps; handlers run for minutes on data
they loaded at the start; a worker may die at any point; identity values become
visible out of order; devices pull, lose answers and retry; and the same action
may be queued, sent and sent again. `PROJECT.json` lists the hazards one by one,
at the line where each bites.

What makes each part correct: the queue runs a row once at a time, retries it a
bounded number of times and settles it; every edit ends up in the wiki and every
capture has one page; no device moves past a capture it does not have; a capture
made offline reaches the server exactly once; a dead credential stays dead; a
subscriber sees every event or is told that it did not; a consolidation is done
by one holder; spending stays near the ceiling; a page's mirror row and its file
agree; a device is signed in exactly while its user is; a deleted account leaves
nothing behind; every request to a provider is one it accepts.

## 2. Modules

| module | models | uses |
|---|---|---|
| `QueueContract` | what a client of the queue may rely on: the life cycle of a job | |
| `JobQueue` | the queue: requests statement by statement, workers, crashes | `QueueContract` (refinement) |
| `CaptureIngest` | captures, edits, deletes, pushed ops, digest and the ingest handler | `QueueContract` (composition) |
| `SyncFeed` | op log, emitters, pushers, pulling devices | |
| `OfflineOutbox` | the app's durable queues against the capture routes of the server | |
| `ProviderRoutes` | routes, fallback chains and the classification of errors, as operators | |
| `CredentialDispatch` | concurrent provider calls over one table of keys, the vault, the model picker | `ProviderRoutes` |
| `Transcription` | voice clips over the same keys | `CredentialDispatch` (composition) |
| `RecallTurns` | turns: admission, budget, billing, cancellation; the WebSocket session | |
| `TurnTranscript` | the messages of one turn and their rendering on three wires | |
| `StreamHub` | one thread's events from the turn to the screen | |
| `DreamConsolidation` | the consolidation lease, its clock, the cron and the gates | |
| `WikiPages` | the pages of one slug and everybody who writes them; approvals | |
| `AccountSessions` | an account, its sessions, its devices and its deletion | |
| `CaptureIngestProofs`, `OfflineOutboxProofs`, `RecallTurnsProofs`, `WikiPagesProofs` | theorems | the module they are named after |
| `JobQueueProofs` | theorems | `JobQueue`; in a second part `AccountSessions` |
| `SyncFeedProofs` | theorems | `SyncFeed`; in a second part `StreamHub` |
| `DreamConsolidationProofs` | theorems | `DreamConsolidation`; in a second part `TurnTranscript` |
| `TranscriptionProofs` | theorems | `Transcription`, and `CredentialDispatch` with it |
| `MC*` | the constants of the TLC runs | |

Definitions marked "Variant" next to an operation are plausible mistakes in it,
used to confirm that the properties would notice them. Every module with state has a
type invariant that documents the shape of its state; those of `JobQueue`,
`SyncFeed`, `CaptureIngest`, `DreamConsolidation`, `WikiPages`, `StreamHub`,
`AccountSessions` and `TurnTranscript` are parts of proved invariants. The last
three carry a prefix (`HubTypeOK`, `AccountSpec`, `transcriptVars`), because their
theorems stand in a module with those of another component.

Several modules record, in a history variable, that a behaviour met a race the
code is known to lose (`raced`, `torn`, `lossy`, `disturbed`, `excused`,
`overran`). The properties are stated outside those races, so they say exactly
where the code is right; section 5 says in prose what each race does.

### JobQueue

A request (`Begin` .. `Commit`) executes `enqueue` as three statements,
`EnqueueCount`, `EnqueueLookup` and `EnqueueInsert`, any number of times in one
transaction; its rows are `"private"` until it commits. `run_once` claims, runs
the handler and settles in one transaction, so a running row still reads
`pending` to everybody else and only its row lock (`Locked`) marks it: `Claim`
sets `run[w]`, `Finish` and `FailOrRetry` commit, `Crash` rolls everything back,
the counted attempt included. `Cancel` waits for the row lock. `ReclaimStale`
is the head of each tick; because no lease is ever visible it finds nothing
(`NoVisibleLease`, part of the proved invariant). `claims` is a history
variable. Time is reduced to `due`: whether a row's backoff is over. Rows with a
key in `DreamRef` can only fail, because the pool runs them with the ingest
handler (`HandlerCanSucceed`); the run has none, since what they do is a part of
what an ingest row does.

### CaptureIngest

A body is a version number. `now()` is the start of a transaction, so an edit
keeps the time it began (`edit[e].start`) and may commit after a stamp taken
later; that is why the PATCH handler is two steps and every other transaction is
one. `PushBegin` and `PushCreate`, `PushUpdate`, `PushDelete` or `PushMisses` are
the same for the idea ops of a push, which take the edit's slot: a pushed create
queues no job and a pushed delete keeps the pages. The handler is one step per
transaction: `Load`, `SkipRedundant` or `ChooseSlug`, `WriteSource`,
`MarkIngested`, `StampIngested`; it may fail or die between any two (`RunFails`).
The queue appears as `QueueContract`, which `JobQueue` is proved to implement. A
semantic slug is any `Title`, so two captures may get the same one; the fallback
slug is the capture itself. `raced` records that an edit met one of the races the
code is known to lose. One digest request is in progress at a time and its
enqueue is atomic: the duplicate jobs that two racing digests can queue are the
subject of `JobQueue` (`DuplicatesBounded`), not of this module.

### SyncFeed

`Change`, then `Emit` or `Push`, then `Commit` are the transaction of a writer:
`Emit` waits for the advisory lock, `Push` does not. `TakeSeq` consumes an
identity value that `Abort` does not return. A pull is `PullSend` (reads the
cursor), `PullCursor` and `PullRead` (the two statements of the route),
`PullApply`, and `PullLost` at any point. A pull at cursor 0 is answered with a
snapshot of the rows, any other with ops. Only captures are modelled, and only
their creation and deletion; as in `_applyOp`, a device reacts to creation only.
`Overtaken` names the ops a push may have cost a device: of such an op and a
later one at or below the cursor, one was pushed, so that nothing ordered their
commits.

### OfflineOutbox

The app is one thread of turns and every await is an HTTP request, so a call is
at any time waiting for one request: `call[p]` holds the loop it is in, the items
the loop still has to send and the request. The screens' calls (`Capture`,
`Edit`, `Delete`, `Refresh`) do everything up to their first await in one step,
`Flush` starts the two loops of `flushOutbox`, and each `...Acked` action is the
turn after an answer; `Failed` is the turn after an exception. `Serve` is one
statement or transaction of the server: the capture route looks its key up and
inserts in two statements. `Lose` ends a call without an answer; its request
moves to `late`, where the server may still get it. `Crash` kills the app
between turns, `CrashInWriteQueue` and `CrashInWriteMutations` inside a rewrite
of a durable list, which deletes all rows and inserts them one by one outside a
transaction.

Captures are numbered in the order of the queue and the number is the
idempotency key; an edit's number stands for the body it sets. The feed is a set
of ids; which of the read rows the cap lets go depends on their dates and is left
open. `want`, `raced` and `torn` are history variables: the last mutation of each
row, the rows mutated while a mutation of theirs was under way, and the captures
dropped by a rewrite that was cut. Left out: a change of account, the wiki cache,
the view by date, the background task's own database connection, and a death
between the write of the queue and the write of the feed.

### ProviderRoutes and CredentialDispatch

`TenantRoute` and `Chain` compute the links a turn may use from the keys, the
picked model and the catalogs; `Reason` and `ActionFor` are `classify_reason` and
the action it asks for. The text of an error is the set of signals the classifier
searches it for.

A call goes `Load` (the pool of the current link's provider), `Decrypt` (a second
transaction: the row may be gone), then an answer: `Success`, `Rotate`,
`Fallback`, `Abort` or `TransportError`, then `Persist`, which writes the WHOLE
pool it loaded row by row with the conditions of the three statements
(`RowAfter`). `LoadFails`, `PersistFails` and `GiveUp` are the error paths.
`PutKey`, `ListKeys`, `DeleteKey` and `SetActive` are the vault and the model
picker beside it. `verdict` and `rest` are history variables: whether a provider
condemned the key that is stored, and until when a call's own rejection asked for
rest. Time is a few ticks; a cooldown never ends past `MaxCooldown`.

### Transcription

Extends `CredentialDispatch` with the voice route: `Transcribe`, `ReadSetting`,
`Derive`, `OpenKey` and `Reply`, each a transaction, and `ReadFails` between
them; `SetSttProvider` changes the setting at any time. `settings`, `derived` and
`dead` in a clip remember what the setting and the keys were during the request.

### RecallTurns

`Path` gives the order of the steps of the three kinds of turn: the SSE route
checks the ceiling before it takes a permit, the WebSocket route after it wrote
the question, a digest only checks. `Round` is one provider call with its usage;
`Exhausted` is the token budget and the cap of rounds, after which one last call
is made. `Accrue` and `Insert` are the two statements of the ledger, `Micros` the
rounding of a turn's price, `AccrueFails` the error that is logged and dropped.
The session is `Connect`, `Initialize`, `TurnStart`, `Interrupt`, `Done`,
`Disconnect`; `Stall` is a client that stops and resumes reading, `Say` and
`Drain` the bounded channel it reads from. `Midnight` starts a new ledger row and
`Restart` is the death of the server. Permits, slots and tokens belong to the
turn and are returned where the code's guards drop.

### TurnTranscript

`Ask` builds the copy that is sent (`ApiCopy`: equal roles joined, orphaned
results dropped) and renders it for the wire of the current link; `Answer` reads
a reply back, with the reasoning under the key that wire uses; `Tools` runs the
calls; `Fallback` moves to the next wire within a round, `Abandon` ends the turn.
Text is a sequence of tokens so that joining shows; a call is `<<round, k>>`, or
`NoId` where a provider gave no id. `Policy` is what each kind of turn
advertises, `Executed` what the executor does with a call.

### StreamHub

`NextSeq` and `Publish` are the two acquisitions of the hub's lock that an event
needs, `Close` removes the entry at a turn's end. `ConnectFresh` and `Resume` are
the two branches of the route, `Replay` the read of the ring after the
subscription. `ReadBack`, `ReadLive`, `Finish` and `Drop` are the response and
the app's `SseClient`, which resumes after `lastSeq` and ignores frames that are
not newer; `Ask` and `AskElsewhere` are questions from this screen and another.
`Reap` is what a subscription elsewhere does when the registry is at its cap:
entries without a receiver go, that of a running turn whose client is away too;
in a full registry a question (`ConnectRefused`) or a resume gets a receiver
without a channel. `live` tells whether the reader's channel is still the one
turns publish to. `disturbed` records what takes events from the reader: turns
that share the thread, a lagging channel, a ring that has moved on, an entry that
went while the client was away, a full registry. `torn` marks a turn under which
the entry was removed: the next event makes a new one, whose numbers start at 1
again.

### DreamConsolidation

The row of `wiki_consolidation` is kept as ages: since the clock, to the end of
the lease, and the number of captures newer than the clock. `CronTick` and
`RunManual` enqueue under two debounce keys, so two dreams may run; `CheapGates`,
`SessionGate`, `TryAcquire`, `Budget`, `Model`, then `Release` or `Rollback`, are
the steps of one. `Crash` kills the worker, which leaves the lease. `overran`
records that a dream outlived its lease. A tenant without a row is a case of
`Init`, because no code inserts one.

### WikiPages

One slug, an entity and a concept page; a body is the set of runs whose content
is in it. An item of an ingest is `Resolve`, `ReadAndMerge`, `Quota`,
`WriteFile`, `Upsert`; a push takes the same last three steps for a body, and
`PushSet`, `PushDelete`, `PushCommit` with the row locks it holds. `Fail` may end
any of them anywhere. `Propose` commits an approval and `SoftDelete` acts on it,
`ProposerDies` in between; `Approve` and `Reject` are the routes. `torn` and
`lossy` record overlapping writers of one page and contributions whose reader
was overtaken.

### AccountSessions

A handler is a sequence of transactions: `Send` starts one, `Handle` lists its
steps, `Ok`, `Refused`, `GiveUp` and `Drop` end it, and `dev` is what the device
then keeps. `Mixes` are the kinds of request explored together. `Insert` stores
the access and the refresh session one after the other, `Revoke` precedes them in
a refresh. `DeleteOrder` is the order of `delete_account`; from `Delete` to the
end of the cascade it holds the tenant row (`Deleting`), and writers of the
tenant's rows wait. `ClaimJob`, `WriteWiki` and `FinishJob` are the worker of a
job of the account, with the row lock that `run_once` holds. `excused`, `raced`
and `late` record a revocation of all sessions or a cut refresh, a refresh under
way at a logout, and files written or kept after the deletion.

## 3. What TLC checks

| run | instance | shows |
|---|---|---|
| `queue` | 3 rows, 1 key, 2 requests, 2 workers, 2 attempts, 1 crash, fair | one runner per row, the retry budget, bounded duplicates, `QueueContract` is implemented, every queued row settles |
| `ingest` | 1 capture with 3 bodies, 7 instants, an editor or pusher, 2 jobs; or 2 captures that may share a title within 5 instants | outside the recorded races no edit is lost to the digest and a capture has one page; no run overwrites a later one |
| `sync` | 2 captures, 2 emitters, 1 pusher, 1 device, 3 identity values, fair | every capture has its op; no capture at or below a cursor is missing unless overtaken; what stays is delivered |
| `outbox` | 2 captures, or 1 with 2 mutations in overlapping calls; 1 flush at a time, cap 1, 1 loss, 1 crash, fair | one row per capture; none lost but by a cut rewrite; the last delete, and the last edit that met no other, is queued or done; queued captures stay visible; all land |
| `dispatch` | 2 calls over 1 key, 1 call over 2 keys, a voice clip over 2 vendors, a clip beside a call; 8 answers, 2 attempts | verdicts and cooldowns survive outside the named races, every call returns, a clip goes where the tenant chose |
| `turns` | 2 turns: two of a session, one of each route, a stream and a digest; 1 permit, cap 2, 1 midnight or restart, fair | spending is bounded by the ceiling and one turn per slot; the ledger is exact but for a double first row; slots match turns; only superseded turns outlive a session; every turn ends |
| `streams` | 2 turns of 3 events, ring 2, channel 3, 2 lost connections or reaped entries, fair | each event shown once and in order, no gap and the last event arrives unless disturbed |
| `dream` | 2 keys, 3 hours, 2 sessions, lease of 2, 1 crash, with and without a row, fair | one dream at a time and no capture forgotten within the lease; a due tenant is dreamt over |
| `wiki` | 3 runs, 2 at once, 3 rows, 2 approvals, quotas of 1 and 3 | mirror and file agree, contributions stay, decisions stand, outside the named overlaps |
| `accounts` | 2 devices, 2 handlers, 2 accounts, 3 token pairs, 1 lost connection, 5 mixes, fair | tokens match the session of their device; a deletion leaves no files; every request ends |
| `accounts_delete` (violation) | 1 device, a deletion beside a job of the account | the deletion and the job wait for each other |
| `wire` | 2 rounds with tools and the last call, 10 chains, 3 histories, 14 replies, 3 seams | calls answered in place, reasoning before its calls, roles alternate, offered tools run |

Bounds. Two requests and two workers are what a race needs; a third row is
needed for a duplicate beside a running row. Two attempts separate "retried" from
"failed". Three bodies give an edit before and an edit after a run; seven
instants cover a capture, a complete run, an edit and a second run. Three
identity values give a device a warm cursor, an op in the making and one behind
it. A flush beside a capture's own post gives two requests with one key and a
late third; two mutations are an edit overtaken by an edit or by a delete. Two
attempts of a dispatch are one rotation and the limit. Three events over a ring
of two give a ring that has lost its head; a channel longer than the ring may hold
events that a new entry numbers again. A lease shorter than the gate's hours
lets it expire before the next dream is due. Three runs give a creator, a
merger and a deleter of one page. Three pairs are a sign-in on two devices and
one rotation. Two rounds and the last call cover every succession of two wires.

Constraints. `ingest` uses `Focus` to combine two instances: everything about one
capture, or the collision of two between edits and digests. `outbox` and `sync`
use `Focus` and `Ordered`, which cut requests of users and deaths of the app
only, for which no fairness is assumed, so a liveness property that holds is not
due to a cut. `Scopes` and `Mixes` of the other modules are values of a constant
fixed in `Init`. Symmetry is used in `ingest` only, which checks no liveness.
Deadlock checking is off where behaviours really stop: the instants, runs, turns
or token pairs of the instance are used up.

Fairness. `queue`: a worker keeps ticking, a handler returns, backoffs end;
crashes are finitely many, as nothing else could settle a row. `sync`: pulls
recur (start, resume, online, every 30 s in `main.dart`) and of infinitely many
tries one gets through; nothing is assumed of the writers. `outbox`: the triggers
of a flush recur, the server answers the flush's requests, the event loop runs
its turns; nothing is assumed of the screens' calls. `dispatch` and `turns`: the
steps of a call or turn follow each other, since every await in it is a statement
or a request with a timeout; one of the interchangeable slots is watched.
`streams`: the turn and the client go on; drops are finitely many. `dream`: time
passes, the cron fires, a worker polls and a dream's steps follow each other.
`accounts`: a handler's step that can be taken is taken, and so are the job's.

## 4. What is proved

For every value of the constants that meets the modules' assumptions, by TLAPS.
Each invariant below was model-checked as a whole before it was proved.

Queue (`JobQueueProofs`):

* `QueueInvariant`: the inductive invariant `QueueInv` of `JobQueue`. `OneRunner`
  and `RetryBudget` are not inductive alone: a commit must not touch a row that
  runs (`Ownership`: a row is private exactly while a request owns it), a fresh
  row has no attempts (`Unattempted`), and `ReclaimStale` must find nothing
  (`NoVisibleLease`). `OneRunnerHolds`, `RetryBudgetHolds` and the action
  property `SettledIsFinalHolds` follow.
* `ClaimsBudgetHolds`: a row is claimed at most `max_attempts` times plus once per
  crash, from `ClaimsAccounted`, which accounts each claim to a recorded attempt,
  to the run in progress or to a crash.
* `DuplicatesBoundedHolds`: a debounce key has at most one queued row per
  concurrent request. The count alone is not inductive, since a commit adds a row
  whose lookup was long ago. `RoomForAll` reserves a place: the queued rows of a
  key and the requests that are past its lookup or hold a row of it (`Adding`)
  are together at most the requests, and `InsertsOnce` says that a request holds
  one row of a key.
* `QueueRefinesContract`: every step of the queue is, seen through `Phase`, a
  step of `QueueContract` or nothing.

Ingest (`CaptureIngestProofs`):

* `CleanIsCurrent` and the action property `PagesOnlyAdvance`, from
  `IngestInvariant`. A page is as new as the body a run loaded, so the invariant
  follows the runs: a capture has one live job (`JobsOwned`), a run between load
  and stamp holds the present body unless raced, and nothing on the capture's
  pages is newer (`RunsInStep`); a capture contributes to one page (`OnePage`);
  and an ingested capture whose page is behind is one whose `updated_at` is
  after its stamp (`CurrentOrStamped`). The proof has no counterpart of
  `Focus`: collisions of titles and pushes are covered together.

Feed (`SyncFeedProofs`):

* `RowsHaveOpsHolds`: no emitted op is dropped, with any pushers. The invariant
  `OpsInv` says that the lock is held from reading the lamport to the commit, so
  the lamport stays above every committed op of the server's site.
* `CoversUnlessOvertakenHolds`: with any emitters and pushers, and one pull of a
  device in flight, no cursor passes a live capture the device lacks unless a
  push took part in the race. `FeedInv` adds that identity values are distinct
  (`SeqsDistinct`), that an emit in the making is above every emit logged
  (`EmitsInOrder`, from the lock), that a cursor is the value of a committed op
  (`CursorsCommitted`), that an answer in flight was asked from the present
  cursor (`PullsCurrent`) and holds every capture up to its own that was not
  overtaken (`AnswersComplete`). `FeedCoversCursorHolds` is the corollary when
  nobody pushes, without the exception. The hypothesis `OnePull` is needed: with
  two slots TLC finds a counterexample.

Outbox (`OfflineOutboxProofs`):

* `OneRowPerCaptureHolds`, `NothingLostHolds` and the action property
  `QueuedStaysVisibleHolds`, from the invariant `OutboxInv`. `NothingLost` alone
  is not inductive: a turn dequeues on an answer, so the answer to a capture must
  mean that its row is stored (`AnsweredIsStored`), which lasts because no
  statement removes a row or changes its key. The lemmas on `Handle` state this
  once for the requests of calls and for late ones (`Sound`).
* `MutationKeptHolds`: the last delete of a row, and the last edit that met no
  other mutation under way, is queued or done. `dropMutation` drops by id and
  kind, so an answer may drop a mutation it does not belong to. `MutationInv`
  says why that is harmless: what is queued for a server id is what is wanted of
  it (`QueuedIsWanted`), a wanted edit that met no other is the only mutation of
  its row under way (`Alone`), and an answered change is in the row
  (`AnsweredIsApplied`), where only a mutation under way could change it
  (`Faithful`).

Dispatch and voice (`TranscriptionProofs`, over both modules at once):

* `VerdictsStay` and `KeysAlwaysRest`. A call writes its whole pool back, so the
  invariant is about every pool in memory: an entry that will make a stored key
  dead has a verdict for it (`PoolJudged`), and a rest that is not over is in the
  pool that will be written and in the row once it was (`RestKept`).
* `ClipsGoWhereChosen`: the histories of a clip contain the present setting and
  the vendor the present keys give (`Current`), so whatever a later step reads is
  in them; a model corrected for one vendor is not the default of another.
* Both are theorems of `VoiceSpec`, that is, with voice requests beside the calls.

Turns (`RecallTurnsProofs`):

* `SpendIsBounded`, from `Reserved`: between the check of the ceiling and the
  accrual a turn is committed, and the bound has room for one whole turn for each
  committed one. A turn's price is bounded through its rounds (`SlotsFit`).
* `LedgerIsExact`: the sum of the rows is a recursive function, so the lemmas on
  what an update or an insert adds to it are proved by induction on the number of
  rows, with a least counterexample (`WFMin`).
* `SlotsAlwaysMatch` and `OutlivingTurns`, from `SlotsCounted` and `TokensKept`: a
  turn the session listens to holds the session's token, or was cancelled or
  superseded.

Streams (`SyncFeedProofs`, second part), for any number and length of turns, any
sizes of ring and channel:

* `ShownOnce`. The client lets a frame pass when its number is greater than the
  last (`ShownInOrder`), so order on the screen is order of numbers, and what is
  to be shown is that the numbers of a turn's events are in the order of the
  events wherever they are (`SeqsInOrder`: ring, backfill, channel and screen).
  That needs that a turn takes its numbers from one counter (`OneCounter`), which
  holds while its entry stays: `next_seq` and `publish` take the lock separately,
  and an entry removed between or after them restarts the counter. The property
  therefore excepts turns marked `torn`. The exception was found by the proof
  attempt: with a channel longer than the ring, TLC finds a receiver that still
  has an event of the old entry when the ring hands it one of the new entry.
* `ShownWithoutGap`, from `Undisturbed`: one turn runs and has the entry for
  itself (`Alone`), so that an event's number is its place in the turn and the
  ring, the backfill and the channel are stretches of the turn (`Stretch`), and
  the client reads that turn so that screen, backfill and channel leave nothing
  out (`Follows`). The tail that `Since` filters from a stretch is a stretch
  again; that lemma counts kept indices, by a least counterexample (`WFMin`).

Accounts (`JobQueueProofs`, second part), for any number of devices, handlers,
accounts and token pairs: `TokensMatch` and `DeletionErases`, from
`AccountInvariance`. A refresh revokes the token a device holds before the device
has the next one, so the invariant follows every handler: which kind of request is
at which step and what pair it has by then (`Staged`, `Tokened`), that a live row
belongs to the account that exists (`LiveRows`), that a pair is with one device or
one handler (`OnePlace`), that a device has one refresh under way and it is for
the token it holds (`OneFlight`), and that a device that is not excused has a live
token or waits for its successor, and is never refused one (`Sessions`). A capture writes its file after its
check, so `OnDisk` asks of the accounts of such captures what `Erased` asks of
those on disk.

Transcript (`DreamConsolidationProofs`, second part): `TranscriptPairs`, that in
the transcript of a turn every call has its result right behind and in its place
before the next request, every result its call, and ids tell calls apart, and
`OfferedToolsRun`, for any fallback chain, history, replies and cap of rounds;
`TranscriptInvariance` also bounds the calls of a turn by `MaxRounds + 1`. This is
about the transcript, before a request is rendered from it; what the copy and the
three wires make of it is checked by TLC only.

Dream (`DreamConsolidationProofs`): `OneDreamAtATime` and `NoCaptureForgotten`.
`LeaseCovers` says that a dream past the lock has an unexpired lease, `Accounted`
that both ways out leave the right count: the saved one for a rollback, the fresh
one for a release.

Wiki (`WikiPagesProofs`): `MirrorAlwaysMatches` needs that a writer about to
mirror a body mirrors the one on disk (`Mirroring`), the unique index (`OneLive`)
and the agreement of dead rows that a rejection may bring back (`HashKept`).
`ContributionsStay` needs that who carries a body that was not overtaken carries
every contribution (`Kept`), `DecisionsAlwaysHold` the same of pending approvals
(`Decided`).

Assumptions, which TLC evaluates in every run: bounds are numbers and special
values are no members of the sets they stand beside; there is a device
(`AccountAssumption`); a reply is a text, calls and a flag
(`TranscriptAssumption`); the turns of a thread are finitely many
(`HubAssumption`); the requests and the slots
of turns are finite sets (`JobAssumption`, `TurnsAssumption`); no call costs more
than `MaxPrice`; pushed batches are sequences of ops (`WikiAssumption`); the keys
of a tenant are distinct rows (`DispatchAssumption`); the vendors' models differ,
as in the table `STT_VENDORS`, and a priority is at least the least value of the
`INT` column (`VoiceAssumption`); a lease is not longer than the time gate
(`DreamAssumption`: 1 h against 24 h).

Only model-checked:

* liveness (`JobSettles`, `Delivered`, `CapturesLand`, `CallReturns`, `TurnEnds`,
  `Answered`, `DueDreams`, `RequestEnds`): fairness and `ENABLED` are out of the
  prover's reach;
* `CallsAnswered`, `ReasoningEchoed` and `RolesAlternate` of `TurnTranscript`: a
  request is the result of three folds over the transcript, and what a fold
  computes for every input needs induction over data;
* the type of the chain of links in `CredentialDispatch`, which is put
  together from filtered catalogs (`SelectSeq`); the proofs do not depend on it.

## 5. Where comments and code differ

One disagreement has a run: `accounts_delete`. `account/routes.rs:33` orders the
deletion so that it cannot deadlock on a foreign key; a job of the account that a
worker has claimed does it all the same. The others were found while modelling,
and the models contain the behaviour.

Queue and ingest:

* The pool asks for the ingest handler and claims rows of every kind, so a dream
  row fails until its attempts are used up (`jobs/worker.rs:169` against `:159`);
  no handler for dreams is registered in production.
* A job brings the page of a deleted capture back (`ingest/mod.rs:52` against
  `capture/routes.rs:328`).
* A location edit hides an earlier body edit (`capture/routes.rs:290`, "true no-op
  for the wiki"); source pages are not 1:1 with captures when titles collide
  (`:360`); nothing re-enqueues a pending capture (`:3`, "a reaper re-enqueues");
  the edit of a capture that was skipped as redundant is invisible to the digest
  (`:253`).
* A crashed claim costs no attempt (`jobs/worker.rs:7`); two racing requests queue
  one debounce key twice and exceed the bound of the queue (`jobs/queue.rs:48`,
  `:59`).

Feed and outbox:

* An op that a push commits below a cursor already handed out is lost to the
  device (`sync/routes.rs:170` against `sync/materialize.rs:338`); two pulls in
  flight can lose captures (`sync_client.dart:59`, "Safe to call repeatedly");
  devices do not drop a capture on its delete op (`capture/routes.rs:389`); the
  replay is in clock order within one push only (`sync/materialize.rs:36`).
* The answer to an edit drops a later edit of the same row whose own request then
  fails (`offline_api_client.dart:195` against `:198`).
* A mutation of a row that still has its local id, or a delete whose answer was
  lost, is refused with 404 on every flush and keeps the mutations behind it
  waiting (`offline_api_client.dart:251`, `idea_cache.dart:443`); a cut rewrite of
  the queue loses captures (`idea_cache.dart:5`).

Providers, turns and streams:

* A pool that was loaded earlier is written back over newer rows: it lifts a
  verdict or a cooldown (`dispatch/resolver.rs:197`). A provider that answers
  `Retry-After: 0` is asked again up to 16 times.
* Two first accruals of a day insert two rows (`store/src/cost_repo.rs:115`), and
  later ones are counted in both; what a turn used before a provider error or a
  cancellation is not billed (`ingest/router_llm.rs:275`, `wire/engine.rs:285`);
  the cap of a user never binds; speech is not billed at all, and an error of its
  ceiling check admits the request (`transcribe/routes.rs:93`).
* `turn/interrupt` is refused at the cap of frames in flight
  (`wire/dispatch.rs:78`); a superseded turn survives interrupt and session
  (`wire/ws.rs:155`); a client that stops reading keeps its permit
  (`wire/engine.rs:291`).
* The app treats the end of a response as a lost connection and comes back after
  `done` (`recall_provider.dart:150`); a close between subscription and replay
  loses the tail (`wire/routes.rs:96`); a turn that ends removes the entry under
  another (`wire/hub.rs:122`), and a full registry that of a turn whose client is
  away (`:64`): the numbers start at 1 again, so that events are not shown or,
  when an older one is still in a channel, shown out of order; a full registry starts a turn nobody can read
  (`wire/routes.rs:102`).
* Reasoning of the Anthropic wire is stored under a key that its renderer does
  not read (`transport_anthropic.rs:57` against `:27`); the last instruction of an
  exhausted turn gives two user messages in a row (`:34` says that this is a 400);
  a call whose provider gave no id loses its result (`compress.rs:58`).

Wiki, dream and accounts:

* Writers of one page that overlap between file and row leave a hash of the other
  body (`write_gate.rs:91`); two creators of one name overwrite each other
  (`page_factory.rs:43`); entity and concept pages of one name can both exist
  (`conflict.rs:33`); the quota is checked before the write (`write_gate.rs:66`);
  a rejection fails for ever when the slug was taken again
  (`activity/routes.rs:110`); pages written for a push survive its rollback, and a
  push that deletes and creates one slug waits for itself (`materialize.rs:85`).
* No code inserts the row the dream lock needs (`dream/lock.rs:18`); the opt-in
  setting is never read (`settings/routes.rs:127`); a manual run does not bypass
  the time gate (`dream/routes.rs:2`); an error for one tenant ends the cron's
  tick for the rest (`dream/scheduler.rs:71`).
* A refresh answered after a logout writes the tokens back
  (`auth_repository.dart:186` against `:231`); a lost answer to a refresh strands
  the device, and two refreshes with one token both pass (`auth/routes.rs:275`,
  "one-time-use"); a rehash restores a password that linking an identity dropped
  (`auth/routes.rs:237`); a request dropped between commit and purge, or a capture
  past its check, leaves files of a deleted account (`account/routes.rs:52`,
  `capture/routes.rs:86`).

## 6. Not modelled

Row-level security and tenancy (one tenant is modelled), the text of prompts and
of model answers and what is extracted from them, query and lint (reads), JSON and
chunked encodings, encryption and signatures, the address guard of the HTTP
client, link rows and the generated index of the wiki, device registration and
the clock order of a pushed batch, the background isolate of the app and its
change of account, the size of the connection pool, self-update, the user
interface. `PROJECT.json` gives the reason for each component.

## 7. Plan

The safety properties that the runs check are proved, but for those about rendered
requests. Left: `ApiCopy` and the renderers as functions on prefixes, so that a
message appended to the transcript is a step of the request and `RolesAlternate`
can be proved from `CallsPaired`; as models, the background isolate as a second
writer of `OfflineOutbox`, and the order of materialization of a pushed batch.
