----------------------------- MODULE SyncFeed -----------------------------
(***************************************************************************)
(* The change feed of one tenant and the devices that follow it: the op    *)
(* log sync_ops (app-server/src/sync), the capture and delete handlers     *)
(* that emit into it, the push route, the pull route and the app's         *)
(* read-sync client (qcue_app/lib/core/sync/sync_client.dart).             *)
(*                                                                         *)
(* seq is a Postgres identity: it is taken when the row is inserted and    *)
(* becomes visible when the transaction commits, in another order if two   *)
(* transactions overlap.  emit_op holds a per-tenant advisory lock until   *)
(* commit; push_ops takes no lock.  A pull reads the cursor and then the   *)
(* ops (or the snapshot) in two statements of READ COMMITTED.              *)
(***************************************************************************)
EXTENDS Naturals, FiniteSets

CONSTANTS
    Idea,       \* captures
    Emitter,    \* requests that change a capture and call emit_op
    Pusher,     \* POST /v1/sync/push requests
    Device,     \* devices that pull
    Slot,       \* pulls one device may have in flight at once
    FeedCap,    \* rows a device's cached feed keeps (feedCap)
    FeedPage,   \* rows GET /v1/captures answers with
    MaxSeq,     \* bound of the model: identity values handed out
    NoOne       \* no idea / lock free

ASSUME FeedAssumption ==
    /\ MaxSeq \in Nat \ {0} /\ FeedCap \in Nat \ {0} /\ FeedPage \in Nat \ {0}
    /\ Emitter \cap Pusher = {}
    /\ NoOne \notin Idea \cup Emitter \cup Pusher

VARIABLES
    row,        \* committed state of each capture
    log,        \* committed rows of sync_ops
    nextSeq,    \* next identity value
    lock,       \* holder of the advisory lock
    tx,         \* the open transaction of each writer
    cursor,     \* sync_meta.cursor of each device
    feed,       \* captures in each device's cached feed
    reached,    \* history: captures a pull has put in the device's feed
    crowded,    \* history: captures a pull brought that the feed had no room for
    pull        \* pulls in flight

vars == <<row, log, nextSeq, lock, tx, cursor, feed, reached, crowded, pull>>

Writer == Emitter \cup Pusher
Kind == {"create", "delete"}
Seq0 == 0..MaxSeq
Site == Pusher \cup {NoOne}    \* NoOne: the server's own site, 0
Op == [seq : 1..MaxSeq, lamport : Nat, site : Site, idea : Idea, kind : Kind]
TxRec == [pc : {"idle", "open", "logged"}, idea : Idea \cup {NoOne}, kind : Kind,
          seq : Seq0, lamport : Nat]
PullRec == [pc : {"idle", "sent", "cursor", "answered"}, since : Seq0, cursor : Seq0,
            ops : SUBSET Op, snap : SUBSET Idea]
Tx(pc, i, k, n, l) == [pc |-> pc, idea |-> i, kind |-> k, seq |-> n, lamport |-> l]
NoTx == Tx("idle", NoOne, "create", 0, 0)
Pull(pc, since, n, ops, snap) ==
    [pc |-> pc, since |-> since, cursor |-> n, ops |-> ops, snap |-> snap]
NoPull == Pull("idle", 0, 0, {}, {})

TypeOK ==
    /\ row \in [Idea -> {"absent", "live", "gone"}]
    /\ log \subseteq Op
    /\ nextSeq \in 1..(MaxSeq + 1)
    /\ lock \in Emitter \cup {NoOne}
    /\ tx \in [Writer -> TxRec]
    /\ cursor \in [Device -> Seq0]
    /\ feed \in [Device -> SUBSET Idea]
    /\ reached \in [Device -> SUBSET Idea]
    /\ crowded \in [Device -> SUBSET Idea]
    /\ pull \in [Device -> [Slot -> PullRec]]

Init ==
    /\ row = [i \in Idea |-> "absent"]
    /\ log = {}
    /\ nextSeq = 1
    /\ lock = NoOne
    /\ tx = [w \in Writer |-> NoTx]
    /\ cursor = [d \in Device |-> 0]
    /\ feed = [d \in Device |-> {}]
    /\ reached = [d \in Device |-> {}]
    /\ crowded = [d \in Device |-> {}]
    /\ pull = [d \in Device |-> [s \in Slot |-> NoPull]]

\* COALESCE(MAX(..), 0)
IsMax(n, S) == n \in S \cup {0} /\ \A m \in S : m <= n

----------------------------------------------------------------------------
(* Writers.                                                                *)

\* A request changes the canonical row: a capture of a fresh id, or a delete
\* of a live one (its row lock keeps other writers of that row out).
Change(w, i, k) ==
    /\ tx[w].pc = "idle"
    /\ row[i] = IF k = "create" THEN "absent" ELSE "live"
    /\ \A v \in Writer : tx[v].idea # i
    /\ tx' = [tx EXCEPT ![w] = Tx("open", i, k, 0, 0)]
    /\ UNCHANGED <<row, log, nextSeq, lock, cursor, feed, reached, crowded, pull>>

\* INSERT INTO sync_ops: takes the next identity value.
TakeSeq(w, lamport) ==
    /\ tx[w].pc = "open"
    /\ nextSeq <= MaxSeq
    /\ nextSeq' = nextSeq + 1
    /\ tx' = [tx EXCEPT ![w] = Tx("logged", @.idea, @.kind, nextSeq, lamport)]

\* Lamports pushed stay within MaxSeq, so emitted ones within twice that.
MaxLamport(n) == n \in 0..(2 * MaxSeq) /\ IsMax(n, {o.lamport : o \in log})

\* Variant: emit_op without pg_advisory_xact_lock.
EmitUnlocked(w) ==
    /\ \E n \in 0..(2 * MaxSeq) : MaxLamport(n) /\ TakeSeq(w, n + 1)
    /\ UNCHANGED <<row, log, lock, cursor, feed, reached, crowded, pull>>

\* emit_op: waits for the advisory lock; the lamport is one more than the
\* largest in the committed log.
Emit(w) ==
    /\ lock = NoOne
    /\ lock' = w
    /\ \E n \in 0..(2 * MaxSeq) : MaxLamport(n) /\ TakeSeq(w, n + 1)
    /\ UNCHANGED <<row, log, cursor, feed, reached, crowded, pull>>

\* push_ops: no lock, and the lamport is the device's own.  apply_unapplied
\* writes the canonical row in the same transaction: the one Change chose.
Push(w) ==
    /\ \E n \in 1..MaxSeq : TakeSeq(w, n)
    /\ UNCHANGED <<row, log, lock, cursor, feed, reached, crowded, pull>>

OpOf(w) == [seq |-> tx[w].seq, lamport |-> tx[w].lamport,
            site |-> IF w \in Emitter THEN NoOne ELSE w,
            idea |-> tx[w].idea, kind |-> tx[w].kind]

\* ON CONFLICT (tenant, device, site, lamport) DO NOTHING.
Conflicts(w) == \E o \in log : o.site = OpOf(w).site /\ o.lamport = tx[w].lamport

\* COMMIT: row and op become visible together, and the lock is released.  A
\* pushed op that conflicted (a re-send) is not applied either.
Commit(w) ==
    /\ tx[w].pc = "logged"
    /\ row' = IF w \in Pusher /\ Conflicts(w) THEN row
              ELSE [row EXCEPT ![tx[w].idea] = IF tx[w].kind = "create" THEN "live" ELSE "gone"]
    /\ log' = IF Conflicts(w) THEN log ELSE log \cup {OpOf(w)}
    /\ lock' = IF lock = w THEN NoOne ELSE lock
    /\ tx' = [tx EXCEPT ![w] = NoTx]
    /\ UNCHANGED <<nextSeq, cursor, feed, reached, crowded, pull>>

\* The request fails: rolled back, but its identity value is gone.
Abort(w) ==
    /\ tx[w].pc # "idle"
    /\ lock' = IF lock = w THEN NoOne ELSE lock
    /\ tx' = [tx EXCEPT ![w] = NoTx]
    /\ UNCHANGED <<row, log, nextSeq, cursor, feed, reached, crowded, pull>>

----------------------------------------------------------------------------
(* Devices.                                                                *)

\* SyncClient.pull: reads the persisted cursor and sends the request.
PullSend(d, s) ==
    /\ pull[d][s].pc = "idle"
    /\ pull' = [pull EXCEPT ![d][s] = Pull("sent", cursor[d], 0, {}, {})]
    /\ UNCHANGED <<row, log, nextSeq, lock, tx, cursor, feed, reached, crowded>>

\* Variant: the cursor is the identity's last value, committed or not.
CursorFromIdentity(d, s) ==
    /\ pull[d][s].pc = "sent"
    /\ pull' = [pull EXCEPT ![d][s] = Pull("cursor", @.since, nextSeq - 1, {}, {})]
    /\ UNCHANGED <<row, log, nextSeq, lock, tx, cursor, feed, reached, crowded>>

\* pull_route, first statement: tenant_cursor.
PullCursor(d, s) ==
    /\ pull[d][s].pc = "sent"
    /\ \E n \in Seq0 :
         /\ IsMax(n, {o.seq : o \in log})
         /\ pull' = [pull EXCEPT ![d][s] = Pull("cursor", @.since, n, {}, {})]
    /\ UNCHANGED <<row, log, nextSeq, lock, tx, cursor, feed, reached, crowded>>

\* Variant: the snapshot selects the rows that are not active.
SnapshotInactive == {i \in Idea : row[i] = "gone"}

\* The captures in a snapshot, and ops_since_seq.
Snapshot == {i \in Idea : row[i] = "live"}
OpsSince(n) == {o \in log : o.seq > n}

\* Second statement: the snapshot (cold) or the ops (warm).
PullRead(d, s) ==
    LET p == pull[d][s] IN
    /\ p.pc = "cursor"
    /\ pull' = [pull EXCEPT ![d][s] =
          IF p.since = 0 THEN Pull("answered", 0, p.cursor, {}, Snapshot)
          ELSE Pull("answered", p.since, p.cursor, OpsSince(p.since), {})]
    /\ UNCHANGED <<row, log, nextSeq, lock, tx, cursor, feed, reached, crowded>>

\* _applyOp: only the `create` of an idea changes the feed.
Added(ops) == {o.idea : o \in {p \in ops : p.kind = "create"}}

\* The captures an answer carries.
Brought(p) == IF p.since = 0 THEN p.snap ELSE Added(p.ops)

\* _capFeed: the first FeedCap rows.  Which ones those are follows from the
\* captured_at the devices chose: any may be the ones left out.
Capped(S) == {F \in SUBSET S : Cardinality(F) <= FeedCap /\ (F = S \/ Cardinality(F) = FeedCap)}

\* applyDelta: a snapshot replaces the feed, ops go in front of it; then the
\* cursor of the answer is persisted, whatever the cursor is by now.
PullApply(d, s) ==
    LET p == pull[d][s] IN
    /\ p.pc = "answered"
    /\ \E F \in Capped(IF p.since = 0 THEN p.snap ELSE feed[d] \cup Brought(p)) :
         /\ Brought(p) \subseteq F \/ F \subseteq Brought(p)
         /\ feed' = [feed EXCEPT ![d] = F]
         /\ reached' = [reached EXCEPT ![d] = @ \cup (Brought(p) \cap F)]
         /\ crowded' = [crowded EXCEPT ![d] = @ \cup (Brought(p) \ F)]
    /\ cursor' = [cursor EXCEPT ![d] = p.cursor]
    /\ pull' = [pull EXCEPT ![d][s] = NoPull]
    /\ UNCHANGED <<row, log, nextSeq, lock, tx>>

\* captures(): the newest page of live captures, as it was when the server read
\* it, replaces the feed; it overlaps the pulls and leaves the cursor alone.
FeedRefresh(d) ==
    /\ \E F \in SUBSET {i \in Idea : row[i] # "absent"} :
         /\ Cardinality(F) <= FeedPage
         /\ feed' \in {[feed EXCEPT ![d] = G] : G \in Capped(F)}
    /\ UNCHANGED <<row, log, nextSeq, lock, tx, cursor, reached, crowded, pull>>

\* The app dies, perhaps while it rewrites the feed (writeFeed deletes the rows
\* and inserts them one by one): some rows are gone, answers not applied too.
AppDies(d) ==
    /\ \E F \in SUBSET (feed[d] \cup UNION {Brought(pull[d][s]) : s \in Slot}) :
         Cardinality(F) <= FeedCap /\ feed' = [feed EXCEPT ![d] = F]
    /\ pull' = [pull EXCEPT ![d] = [s \in Slot |-> NoPull]]
    /\ UNCHANGED <<row, log, nextSeq, lock, tx, cursor, reached, crowded>>

\* The request or the answer is lost; a later trigger pulls again.
PullLost(d, s) ==
    /\ pull[d][s].pc # "idle"
    /\ pull' = [pull EXCEPT ![d][s] = NoPull]
    /\ UNCHANGED <<row, log, nextSeq, lock, tx, cursor, feed, reached, crowded>>

----------------------------------------------------------------------------
Write ==
    \/ \E w \in Writer, i \in Idea, k \in Kind : Change(w, i, k)
    \/ \E w \in Emitter : Emit(w)
    \/ \E w \in Pusher : Push(w)
    \/ \E w \in Writer : Commit(w) \/ Abort(w)

Follow(d, s) ==
    PullSend(d, s) \/ PullCursor(d, s) \/ PullRead(d, s) \/ PullApply(d, s) \/ PullLost(d, s)

Next ==
    \/ Write
    \/ \E d \in Device, s \in Slot : Follow(d, s)
    \/ \E d \in Device : FeedRefresh(d) \/ AppDies(d)

Spec == Init /\ [][Next]_vars

\* Pulls recur (start, resume, online, every 30 s); a network that lets a
\* device try again and again lets one of the tries through (SF).
Fairness ==
    \A d \in Device :
        /\ WF_vars(\E s \in Slot : PullSend(d, s))
        /\ SF_vars(\E s \in Slot : PullCursor(d, s))
        /\ SF_vars(\E s \in Slot : PullRead(d, s))
        /\ SF_vars(\E s \in Slot : PullApply(d, s))

FairSpec == Spec /\ Fairness

----------------------------------------------------------------------------
(* Properties.                                                             *)

\* Every capture on the server has its create op in the log, so no device can
\* be left without it: no emit is dropped by the (device, site, lamport)
\* conflict clause, whatever lamports the pushing devices use.
RowsHaveOps ==
    \A i \in Idea : row[i] = "live" => \E o \in log : o.idea = i /\ o.kind = "create"

\* A push takes its seq without the lock: of a pushed op and another one, the
\* lower may be committed after a cursor at or above the higher was handed out.
Overtaken(o, n) == \E p \in log :
    o.seq < p.seq /\ p.seq <= n /\ (o.site # NoOne \/ p.site # NoOne)

\* A pull has put every live capture created at or below seq n in the feed of
\* device d, or brought it with more captures than the feed holds, unless a push
\* took part.
CoveredTo(d, n) == \A o \in log :
    o.kind = "create" /\ o.seq <= n /\ row[o.idea] = "live" /\ ~Overtaken(o, n)
    => o.idea \in reached[d] \cup crowded[d]

\* A device's cursor never passes a capture that no pull has brought it: a later
\* pull asks only for what is above the cursor.  It rests on the advisory lock,
\* which orders the emits, and on the cursor being read before the ops; several
\* pulls in flight, and a cursor that an older one sets back, do no harm.  What
\* the cached feed still holds of it is another matter: it has a cap, and a
\* refresh or a death takes rows out of it.
CoversUnlessOvertaken == \A d \in Device : CoveredTo(d, cursor[d])

\* The inductive invariant behind RowsHaveOps: the lock keeps the lamport an
\* emit has read above every committed op of the server's site until it commits.
LockHeld == \A w \in Emitter : tx[w].pc = "logged" => lock = w
LamportFresh ==
    \A w \in Emitter : tx[w].pc = "logged" =>
        \A o \in log : o.site = NoOne => o.lamport < tx[w].lamport
TxFormed ==
    \A w \in Writer :
        /\ tx[w].pc # "idle" => tx[w].idea \in Idea
        /\ tx[w].pc = "logged" => tx[w].seq # 0
OpsInv == TypeOK /\ LockHeld /\ LamportFresh /\ TxFormed /\ RowsHaveOps

\* The inductive invariant behind CoversUnlessOvertaken: seqs are handed out
\* once; an emit in the making is above every emit logged, because the advisory
\* lock is held from taking seq to commit; a cursor, and the one a pull starts
\* from, is the seq of a committed op; and an answer holds everything from there
\* up to its cursor that was not overtaken.
SeqsDistinct ==
    /\ \A o \in log : o.seq < nextSeq
    /\ \A w \in Writer : tx[w].pc = "logged" =>
         tx[w].seq < nextSeq /\ \A o \in log : o.seq # tx[w].seq
    /\ \A v, w \in Writer :
         tx[v].pc = "logged" /\ tx[w].pc = "logged" /\ tx[v].seq = tx[w].seq => v = w
EmitsInOrder ==
    \A w \in Emitter : tx[w].pc = "logged" =>
        \A o \in log : o.site = NoOne => o.seq < tx[w].seq
RowsFollowLog ==
    /\ \A o \in log : row[o.idea] # "absent"
    /\ \A w \in Writer : tx[w].pc # "idle" =>
         tx[w].idea \in Idea /\ row[tx[w].idea] = IF tx[w].kind = "create" THEN "absent" ELSE "live"
    /\ \A v, w \in Writer : tx[v].pc # "idle" /\ tx[v].idea = tx[w].idea => v = w
Committed(n) == n = 0 \/ \E o \in log : o.seq = n
CursorsCommitted ==
    /\ \A d \in Device : Committed(cursor[d])
    /\ \A d \in Device, s \in Slot : Committed(pull[d][s].since) /\ Committed(pull[d][s].cursor)
PullsCovered == \A d \in Device, s \in Slot :
    /\ CoveredTo(d, pull[d][s].since)
    /\ pull[d][s].pc \in {"cursor", "answered"} => pull[d][s].since <= pull[d][s].cursor
AnswersComplete ==
    \A d \in Device, s \in Slot : pull[d][s].pc = "answered" =>
      \A o \in log :
        /\ o.kind = "create" /\ o.seq <= pull[d][s].cursor /\ row[o.idea] = "live"
        /\ ~Overtaken(o, pull[d][s].cursor)
        => IF pull[d][s].since = 0 THEN o.idea \in pull[d][s].snap
           ELSE o.seq > pull[d][s].since => o \in pull[d][s].ops

FeedInv ==
    /\ TypeOK /\ TxFormed /\ LockHeld /\ SeqsDistinct /\ EmitsInOrder /\ RowsFollowLog
    /\ CursorsCommitted /\ PullsCovered /\ AnswersComplete /\ CoversUnlessOvertaken

\* Every capture that stays reaches the feed of every device that keeps pulling,
\* unless its op was overtaken in the race with a push or it came in an answer
\* with more captures than the feed holds.
Delivered ==
    \A d \in Device, i \in Idea :
        row[i] = "live" ~>
          \/ i \in reached[d] \cup crowded[d] \/ row[i] = "gone"
          \/ \E o \in log : o.idea = i /\ o.kind = "create" /\ Overtaken(o, cursor[d])

============================================================================
