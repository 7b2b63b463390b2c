----------------------------- MODULE WikiPages -----------------------------
(***************************************************************************)
(* The pages of a wiki and everybody who writes them: the source page of   *)
(* stage 4 of an ingest (wiki/src/ingest.rs), the page factory of stage 5  *)
(* (page_factory.rs, conflict.rs), the ops of a push (app-server/src/sync/ *)
(* materialize.rs), the write gate below them all (write_gate.rs), and the *)
(* approvals of a proposed merge or deletion (approvals.rs, activity).     *)
(*                                                                         *)
(* One slug; pages of different types live in different folders, so a page *)
(* is named by its type.  A body is the set of the runs whose content is   *)
(* whole in it: a complete answer of the model merges by union, and a      *)
(* content hash is the body it was taken from.  Links, titles, tags and    *)
(* provenance are left out, and no code sets `reviewed`; its append-only   *)
(* branch is the same union.                                               *)
(***************************************************************************)
EXTENDS Naturals, FiniteSets, Sequences

CONSTANTS
    MaxRun,         \* bound of the model: writers ever started
    AtOnce,         \* bound of the model: writers at the same time
    MaxRow,         \* bound of the model: wiki_pages rows ever inserted
    MaxApproval,    \* bound of the model: approvals ever proposed
    Scopes,         \* instances to explore: QCUE_TENANT_MAX_PAGES, and how many
                    \* of the runs and approvals take part
    Batches         \* the sequences of ops a push may carry

Run == 1..MaxRun
Row == 1..MaxRow
Approval == 1..MaxApproval
Type == {"entity", "concept", "source"}
Body == SUBSET Run
NoFile == {0}
Op == {"create", "title", "body", "delete"}

ASSUME WikiAssumption ==
    /\ MaxRun \in Nat /\ AtOnce \in Nat /\ MaxRow \in Nat /\ MaxApproval \in Nat
    /\ Scopes \subseteq [pages : Nat, runs : 0..MaxRun, approvals : 0..MaxApproval]
    /\ Batches \subseteq Seq(Op)

VARIABLES
    scope,      \* the instance: TenantQuota.max_pages and the actors
    row,        \* the wiki_pages rows, in the order of their ids
    file,       \* the bodies in the vault
    run,        \* the writers
    appr,       \* the approvals rows, and where route_destructive is
    torn,       \* history: pages whose body and mirror may differ since the
                \* last write of the body
    lossy       \* history: runs whose content was overwritten, cut or deleted

vars == <<scope, row, file, run, appr, torn, lossy>>

NoRow == [type |-> "entity", in |-> FALSE, live |-> FALSE, hash |-> {}, dropped |-> FALSE]
NotStarted == [pc |-> "none", kind |-> "item", type |-> "entity", body |-> {},
               ops |-> <<>>, held |-> {}, stale |-> FALSE]
NoApproval == [st |-> "none", row |-> 1, todo |-> FALSE, odd |-> FALSE]

RowState == [type : Type, in : BOOLEAN, live : BOOLEAN, hash : Body, dropped : BOOLEAN]
RunState == [pc : {"none", "resolve", "read", "op", "quota", "file", "fill", "upsert", "done", "failed"},
             kind : {"item", "source", "push"}, type : Type, body : Body, ops : Seq(Op),
             held : SUBSET Row, stale : BOOLEAN]
ApprovalState == [st : {"none", "pending", "approved", "rejected"}, row : Row \cup {1},
                  todo : BOOLEAN, odd : BOOLEAN]

TypeOK ==
    /\ scope \in Scopes
    /\ row \in [Row -> RowState] /\ file \in [Type -> Body \cup {NoFile}]
    /\ run \in [Run -> RunState] /\ appr \in [Approval -> ApprovalState]
    /\ torn \subseteq Type /\ lossy \subseteq Run

Init ==
    /\ scope \in Scopes
    /\ row = [i \in Row |-> NoRow]
    /\ file = [t \in Type |-> NoFile]
    /\ run = [r \in Run |-> NotStarted]
    /\ appr = [a \in Approval |-> NoApproval]
    /\ torn = {} /\ lossy = {}

LiveRows == {i \in Row : row[i].live}
LiveOf(t) == {i \in LiveRows : row[i].type = t}
Content(t) == IF file[t] = NoFile THEN {} ELSE file[t]
At(r, pc) == run[r].pc = pc

\* Rows whose deletion a push has not committed yet.
Held == UNION {run[r].held : r \in Run}

----------------------------------------------------------------------------
(* Writers.                                                                *)

\* Runs start in the order of their numbers.
Active == {r \in Run : run[r].pc \notin {"none", "done", "failed"}}
Starts(r) ==
    /\ At(r, "none") /\ \A q \in 1..(r - 1) : ~At(q, "none")
    /\ r <= scope.runs /\ Cardinality(Active) < AtOnce

\* A run that is over: the locks and locals are gone.
Over(r, pc) == [NotStarted EXCEPT !.pc = pc, !.kind = run[r].kind,
                !.type = IF pc = "done" /\ run[r].kind = "item" THEN run[r].type ELSE @]

\* Stage 4: the source page of a capture, under the slug of its title or of
\* the page an earlier ingest of the capture made; it is never merged.
StartSource(r) ==
    /\ Starts(r)
    /\ run' = [run EXCEPT ![r].pc = "quota", ![r].kind = "source", ![r].type = "source",
                          ![r].body = {r}]
    /\ UNCHANGED <<scope, row, file, appr, torn, lossy>>

\* Stage 5: an entity or a concept of the capture gets its page.
StartItem(r, t) ==
    /\ Starts(r) /\ t # "source"
    /\ run' = [run EXCEPT ![r].pc = "resolve", ![r].type = t, ![r].body = {r}]
    /\ UNCHANGED <<scope, row, file, appr, torn, lossy>>

\* A push: its ops are inserted, then applied one after the other; only a
\* create names a type.
StartPush(r, b, t) ==
    /\ Starts(r)
    /\ t = "concept" \/ \E k \in DOMAIN b : b[k] = "create"
    /\ run' = [run EXCEPT ![r].pc = "op", ![r].kind = "push", ![r].type = t, ![r].ops = b]
    /\ UNCHANGED <<scope, row, file, appr, torn, lossy>>

\* Variant: the resolver compares no types and no slugs.
NoMatch(t) == {}

\* The page a new name falls on: one of its own type first, else a page of
\* another type with the slug.
Match(t) == IF LiveOf(t) # {} THEN LiveOf(t) ELSE LiveRows

\* Between the first byte of the body and the mirror row of the page t.
Writing(q, t) == run[q].type = t /\ run[q].pc \in {"fill", "upsert"}
Unmirrored(r, t) == {q \in Run \ {r} : Writing(q, t)}

\* Other writers that have emptied the file of the page t and not filled it.
Filling(r, t) == {q \in Run \ {r} : At(q, "fill") /\ run[q].type = t}

\* existing_pages and ConflictResolver::resolve.
Resolve(r) ==
    /\ At(r, "resolve")
    /\ \/ /\ Match(run[r].type) = {}
          /\ run' = [run EXCEPT ![r].pc = "quota", ![r].stale = Unmirrored(r, run[r].type) # {}]
       \/ \E i \in Match(run[r].type) :
             run' = [run EXCEPT ![r].pc = "read", ![r].type = row[i].type]
    /\ UNCHANGED <<scope, row, file, appr, torn, lossy>>

\* What a read of the page t finds: a file that is being written may be empty
\* or cut anywhere.
Reads(r, t) ==
    IF Filling(r, t) = {} THEN {Content(t)}
    ELSE SUBSET UNION ({Content(t)} \cup {run[q].body : q \in Filling(r, t)})

\* The body off the disk, merged by the model: an answer cut at max_tokens is
\* taken as it is, in `b` whatever of the two is still whole.  Or the model
\* has nothing new to say.
ReadAndMerge(r) ==
    LET t == run[r].type
    IN  /\ At(r, "read")
        /\ \/ \E c \in Reads(r, t) : \E b \in SUBSET (run[r].body \cup c) :
                 run' = [run EXCEPT ![r].pc = "quota", ![r].body = b,
                          ![r].stale = b # run[r].body \cup c \/ Filling(r, t) # {}]
           \/ run' = [run EXCEPT ![r] = Over(r, "failed")]
        /\ UNCHANGED <<scope, row, file, appr, torn, lossy>>

\* apply_wiki_op, delete: the row stays locked until the push commits, and is
\* waited for while another push has it.
PushDelete(r) ==
    /\ At(r, "op") /\ run[r].ops # <<>> /\ Head(run[r].ops) = "delete"
    /\ \/ /\ LiveRows \ run[r].held = {}
          /\ run' = [run EXCEPT ![r].ops = Tail(@)]
       \/ \E i \in LiveRows \ Held :
             run' = [run EXCEPT ![r].ops = Tail(@), ![r].held = @ \cup {i}]
    /\ UNCHANGED <<scope, row, file, appr, torn, lossy>>

\* apply_wiki_op, otherwise: the page the slug has now, its type unless the
\* op creates one, its body unless the op sets one; a body that cannot be
\* read counts as empty.
PushSet(r) ==
    LET op == Head(run[r].ops)
        now == LiveRows \ run[r].held
    IN  /\ At(r, "op") /\ run[r].ops # <<>> /\ op # "delete"
        /\ \E i \in IF now = {} THEN {0} ELSE now :
             LET was == IF i = 0 THEN "concept" ELSE row[i].type
             IN  \E b \in IF op = "body" THEN {{r}}
                          ELSE IF i = 0 THEN {{}} ELSE {{}} \cup Reads(r, was) :
                   run' = [run EXCEPT ![r].pc = "quota", ![r].body = b, ![r].stale = FALSE,
                            ![r].type = IF op = "create" THEN @ ELSE was]
        /\ UNCHANGED <<scope, row, file, appr, torn, lossy>>

\* Items whose body has reached the page t.
Contributes(q, t) == run[q].kind = "item" /\ run[q].type = t /\ run[q].pc \in {"upsert", "done"}
Contributors(t) == {q \in Run : Contributes(q, t)}

\* What goes with a page that is deleted.
Listed(t) == {q \in Contributors(t) : At(q, "done")}

\* The push commits: the deletions take effect.
PushCommit(r) ==
    /\ At(r, "op") /\ run[r].ops = <<>>
    /\ row' = [i \in Row |-> IF i \in run[r].held
                             THEN [row[i] EXCEPT !.live = FALSE, !.dropped = TRUE] ELSE row[i]]
    /\ lossy' = lossy \cup UNION {Listed(row[i].type) : i \in run[r].held}
    /\ run' = [run EXCEPT ![r] = Over(r, "done")]
    /\ UNCHANGED <<scope, file, appr, torn>>

----------------------------------------------------------------------------
(* write_page.                                                             *)

\* The quota is counted, the file is emptied and filled, then the mirror row.
WriteOrder == [quota |-> "file", file |-> "fill", fill |-> "upsert"]

\* After the last step a page of an ingest is through, and a push takes its
\* next op.
Onward(r) ==
    LET s == run[r]
    IN  IF s.pc \in DOMAIN WriteOrder THEN [s EXCEPT !.pc = WriteOrder[s.pc]]
        ELSE IF s.kind = "push" THEN [s EXCEPT !.pc = "op", !.ops = Tail(s.ops), !.body = {}]
        ELSE Over(r, "done")

\* At the cap every write is refused, that of an existing page too.
Quota(r) ==
    /\ At(r, "quota")
    /\ run' = [run EXCEPT ![r] = IF Cardinality(LiveRows) >= scope.pages
                                 THEN Over(r, "failed") ELSE Onward(r)]
    /\ UNCHANGED <<scope, row, file, appr, torn, lossy>>

\* Writers on their way to the same page with a body read before this write.
Behind(r, t) == {q \in Run \ {r} : run[q].pc \in {"quota", "file"} /\ run[q].type = t}

\* Whose content a write of r takes out of the page t: two that are written at
\* once may leave nothing whole; else what is not in the body of a push, of a
\* source page, or of a writer that was overtaken or got a cut merge.
TakenOut(r, t) ==
    IF Filling(r, t) # {} THEN Contributors(t) \cup Filling(r, t) \cup {r}
    ELSE IF run[r].stale \/ run[r].kind # "item" THEN (Contributors(t) \cup {r}) \ run[r].body
    ELSE {}

\* tokio::fs::write opens the file, which empties it ..
Truncate(r) ==
    LET t == run[r].type
    IN  /\ At(r, "file")
        /\ file' = [file EXCEPT ![t] = {}]
        /\ run' = [q \in Run |-> IF q = r THEN Onward(r)
                                ELSE IF q \in Behind(r, t) THEN [run[q] EXCEPT !.stale = TRUE]
                                ELSE run[q]]
        /\ torn' = IF Unmirrored(r, t) # {} THEN torn \cup {t} ELSE torn \ {t}
        /\ lossy' = lossy \cup TakenOut(r, t)
        /\ UNCHANGED <<scope, row, appr>>

\* .. and then writes the bytes; over those of another writer, if one wrote
\* since, with whatever of the two is left whole.
Fill(r) ==
    LET t == run[r].type
    IN  /\ At(r, "fill")
        /\ \E b \in IF Content(t) = {} THEN {run[r].body} ELSE SUBSET (run[r].body \cup Content(t)) :
              file' = [file EXCEPT ![t] = b]
        /\ run' = [run EXCEPT ![r] = Onward(r)]
        /\ UNCHANGED <<scope, row, appr, torn, lossy>>

\* Variant: the conflict branch of the upsert leaves content_hash alone.
KeepsHash(i, b) == [row[i] EXCEPT !.in = TRUE]

\* DO UPDATE SET content_hash = EXCLUDED.content_hash.
Updated(i, b) == [row[i] EXCEPT !.hash = b]

\* upsert_page; an INSERT that meets a row under deletion waits for the push.
Upsert(r) ==
    LET t == run[r].type
    IN  /\ At(r, "upsert") /\ LiveOf(t) \cap Held = {}
        /\ \/ \E i \in LiveOf(t) : row' = [row EXCEPT ![i] = Updated(i, run[r].body)]
           \/ /\ LiveOf(t) = {}
              /\ \E i \in Row :
                   /\ ~row[i].in /\ \A k \in 1..(i - 1) : row[k].in
                   /\ row' = [row EXCEPT ![i] = [type |-> t, in |-> TRUE, live |-> TRUE,
                                                 hash |-> run[r].body, dropped |-> FALSE]]
        /\ run' = [run EXCEPT ![r] = Onward(r)]
        /\ UNCHANGED <<scope, file, appr, torn, lossy>>

\* An error or the death of the process: the push is rolled back, what the
\* gate wrote stays.
Fail(r) ==
    /\ run[r].pc \in {"resolve", "read", "op", "quota", "file", "upsert"}
    /\ run' = [run EXCEPT ![r] = Over(r, "failed")]
    /\ torn' = IF At(r, "upsert") THEN torn \cup {run[r].type} ELSE torn
    /\ UNCHANGED <<scope, row, file, appr, lossy>>

\* The same inside the write of the body, any part of which may be on disk.
FailInFill(r) ==
    LET t == run[r].type
    IN  /\ At(r, "fill")
        /\ \E b \in SUBSET (run[r].body \cup Content(t)) :
              /\ file' = [file EXCEPT ![t] = b]
              /\ lossy' = lossy \cup (Contributors(t) \ b)
        /\ torn' = torn \cup {t}
        /\ run' = [run EXCEPT ![r] = Over(r, "failed")]
        /\ UNCHANGED <<scope, row, appr>>

----------------------------------------------------------------------------
(* Approvals.                                                              *)

\* route_destructive: the pending row is committed ..
Propose(a, i) ==
    /\ a <= scope.approvals /\ appr[a].st = "none" /\ \A b \in 1..(a - 1) : appr[b].st # "none"
    /\ row[i].live
    /\ appr' = [appr EXCEPT ![a] = [st |-> "pending", row |-> i, todo |-> TRUE, odd |-> FALSE]]
    /\ UNCHANGED <<scope, row, file, run, torn, lossy>>

\* .. then the page is soft-deleted in a transaction of its own ..
SoftDelete(a) ==
    /\ appr[a].todo /\ appr[a].row \notin Held
    /\ row' = [row EXCEPT ![appr[a].row].live = FALSE]
    /\ appr' = [appr EXCEPT ![a].todo = FALSE]
    /\ lossy' = lossy \cup Listed(row[appr[a].row].type)
    /\ UNCHANGED <<scope, file, run, torn>>

\* .. unless the process ends in between.
ProposerDies(a) ==
    /\ appr[a].todo
    /\ appr' = [appr EXCEPT ![a].todo = FALSE, ![a].odd = TRUE]
    /\ UNCHANGED <<scope, row, file, run, torn, lossy>>

\* Variant: an approval is decided whatever its status.
AnyStatus(a) == appr[a].st # "none"

\* respond_approval: only a pending row may be decided.
Decidable(a) == appr[a].st = "pending"

Approve(a) ==
    /\ Decidable(a)
    /\ appr' = [appr EXCEPT ![a].st = "approved"]
    /\ UNCHANGED <<scope, row, file, run, torn, lossy>>

\* The page comes back, unless its name is taken by now: then the unique index
\* fails the request and the approval stays pending.
Reject(a) ==
    LET i == appr[a].row
        t == row[i].type
    IN  /\ Decidable(a)
        /\ row[i].live \/ LiveOf(t) = {}
        /\ row' = [row EXCEPT ![i].live = TRUE]
        /\ appr' = [appr EXCEPT ![a].st = "rejected", ![a].odd = @ \/ appr[a].todo]
        /\ torn' = IF ~row[i].live /\ \E k \in Row \ {i} : row[k].in /\ row[k].type = t
                   THEN torn \cup {t} ELSE torn
        /\ UNCHANGED <<scope, file, run, lossy>>

----------------------------------------------------------------------------
Write(r) == Quota(r) \/ Truncate(r) \/ Fill(r) \/ Upsert(r)

Next ==
    \/ \E r \in Run :
        \/ StartSource(r)
        \/ \E t \in Type : StartItem(r, t) \/ \E b \in Batches : StartPush(r, b, t)
        \/ Resolve(r) \/ ReadAndMerge(r)
        \/ PushDelete(r) \/ PushSet(r) \/ PushCommit(r)
        \/ Write(r) \/ Fail(r) \/ FailInFill(r)
    \/ \E a \in Approval :
        \/ \E i \in Row : Propose(a, i)
        \/ SoftDelete(a) \/ ProposerDies(a) \/ Approve(a) \/ Reject(a)

Spec == Init /\ [][Next]_vars

----------------------------------------------------------------------------
(* Properties.                                                             *)

\* Whatever fails or interleaves, a live page has a file in the vault; and
\* content_hash, by which devices decide to fetch a body, is that of the body
\* on disk.  Excused: a writer between the first byte and the mirror row; and,
\* until the next write of the page that none overlaps, two writers that
\* overlapped there, one that failed there, and a page restored after another
\* had used its path.
MirrorMatches == \A i \in LiveRows : LET t == row[i].type IN
    /\ file[t] # NoFile
    /\ \/ row[i].hash = file[t]
       \/ t \in torn
       \/ \E r \in Run : Writing(r, t)

\* What an item of an ingest wrote stays in the page, but for the moment in
\* which the file is written again.  Excused, for the runs it took out and no
\* others: a writer whose read was overtaken or whose merge was cut, a write
\* of the body by a push or as a source page, one that failed or overlapped
\* inside the file, and a deleted page.
ContributionKept == \A r \in Run : LET t == run[r].type IN
    run[r].kind = "item" /\ At(r, "done") =>
        \/ r \in Content(t) \/ r \in lossy
        \/ \E q \in Run : At(q, "fill") /\ run[q].type = t

Others(a) == {b \in Approval \ {a} : appr[b].row = appr[a].row /\ appr[b].st # "none"}

\* A decision stands: an approved deletion stays deleted unless a second
\* proposal for the page was rejected; a rejected one leaves the page live
\* unless a second proposal or a push deleted it.  Excused: a decision that
\* comes between the row and the soft-delete, and a proposer that died there.
DecisionsHold == \A a \in Approval : ~appr[a].todo /\ ~appr[a].odd =>
    /\ appr[a].st = "approved" =>
        ~row[appr[a].row].live \/ \E b \in Others(a) : appr[b].st = "rejected"
    /\ appr[a].st = "rejected" =>
        row[appr[a].row].live \/ row[appr[a].row].dropped \/ Others(a) # {}

----------------------------------------------------------------------------
(* The inductive invariant behind the three properties.                    *)

\* A writer is where its kind can be: an item has itself in its body but for
\* a cut merge, a push at the gate has the op that brought it there.
InPlace == \A r \in Run : LET s == run[r] IN
    /\ s.pc \in {"none", "resolve", "read"} => s.kind = "item"
    /\ s.pc = "op" => s.kind = "push"
    /\ s.pc \in {"resolve", "read"} => r \in s.body
    /\ s.pc \in {"quota", "file"} /\ s.kind = "item" => r \in s.body \/ s.stale
    /\ s.pc \in {"quota", "file", "fill", "upsert"} /\ s.kind = "push" => s.ops # <<>>

\* The unique index on live pages, and what an inserted row implies.
OneLive == \A i \in Row :
    /\ row[i].live => row[i].in /\ \A k \in Row : row[k].live /\ row[k].type = row[i].type => k = i
    /\ row[i].in => file[row[i].type] # NoFile

\* A writer about to mirror a body mirrors the one on disk, or the page is torn;
\* and it is torn while two are at it.
Mirroring == \A r \in Run : LET t == run[r].type IN
    /\ At(r, "upsert") => file[t] # NoFile /\ (file[t] = run[r].body \/ t \in torn)
    /\ Writing(r, t) /\ Unmirrored(r, t) # {} => t \in torn

\* A writer inside the file is alone with an empty file, or the page is torn
\* and everything written to it counts as lost; who carries an older body has
\* been told.
InFile == \A r \in Run : At(r, "fill") => LET t == run[r].type IN
    /\ file[t] # NoFile
    /\ \/ file[t] = {} /\ Filling(r, t) = {} /\ (run[r].kind = "item" => r \in run[r].body \cup lossy)
       \/ t \in torn /\ r \in lossy /\ Contributors(t) \subseteq lossy
    /\ \A q \in Behind(r, t) : run[q].kind = "item" => run[q].stale

\* MirrorMatches for dead rows too, while no other row has used their path.
HashKept == \A i \in Row : row[i].in => LET t == row[i].type IN
    \/ row[i].hash = file[t]
    \/ t \in torn
    \/ \E r \in Run : Writing(r, t)
    \/ ~row[i].live /\ \E k \in Row \ {i} : row[k].in /\ row[k].type = t

\* Contributions are on disk or about to be, and listed once their writer is
\* through; who carries a body that no write has overtaken carries them all.
Kept == \A t \in Type : \A q \in Contributors(t) \ lossy :
    /\ q \in Content(t) \/ \E r \in Run : At(r, "fill") /\ run[r].type = t
    /\ At(q, "done") => LiveOf(t) # {}
    /\ \A r \in Run : run[r].type = t =>
        /\ At(r, "fill") => q \in run[r].body
        /\ run[r].kind = "item" /\ ~run[r].stale /\ run[r].pc \in {"quota", "file"} => q \in run[r].body

\* DecisionsHold, for approvals still pending too.
Decided == \A a \in Approval :
    /\ appr[a].todo => appr[a].st # "none"
    /\ appr[a].todo /\ appr[a].st = "rejected" => appr[a].odd
    /\ appr[a].st # "none" => appr[a].row \in Row /\ row[appr[a].row].in
    /\ ~appr[a].todo /\ ~appr[a].odd =>
        /\ appr[a].st \in {"pending", "approved"} =>
            ~row[appr[a].row].live \/ \E b \in Others(a) : appr[b].st = "rejected"
        /\ appr[a].st = "rejected" =>
            row[appr[a].row].live \/ row[appr[a].row].dropped \/ Others(a) # {}

WikiInv == TypeOK /\ InPlace /\ OneLive /\ Mirroring /\ InFile /\ HashKept /\ Kept /\ Decided

============================================================================
