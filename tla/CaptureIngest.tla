--------------------------- MODULE CaptureIngest ---------------------------
(***************************************************************************)
(* From a capture to its wiki page: the `ideas` row, the edit and delete   *)
(* handlers (app-server/src/capture), the one-click digest                 *)
(* (app-server/src/ingest/routes.rs), the idea operations a device pushes  *)
(* (app-server/src/sync/materialize.rs), and the ingest handler the worker *)
(* pool runs (app-server/src/ingest/mod.rs, wiki/src/ingest.rs), over the  *)
(* job queue as QueueContract specifies it.                                *)
(*                                                                         *)
(* A body is a version number: every edit that changes the text makes a    *)
(* new one.  A page is the live wiki_pages row of type 'source' of a slug; *)
(* a semantic slug comes from the model's title, so two captures may get   *)
(* the same one.  now() is the start time of a transaction, `clock`; a     *)
(* transaction of one statement is one step, the edit handler is two.      *)
(***************************************************************************)
EXTENDS Naturals, FiniteSets

CONSTANTS
    Idea,       \* captures of the tenant
    Job,        \* ids of the ingest jobs the instance may hold
    Editor,     \* concurrent PATCH and push requests
    Digest,     \* concurrent POST /v1/ingest/run requests
    Title,      \* semantic slugs the model may derive; an idea is its own
                \* fallback slug (fallback_title + short_idea_id)
    MaxBody,    \* bound of the model: versions of a body
    MaxClock,   \* bound of the model: instants
    Nothing     \* SQL NULL / no row

\* A live source page: the capture it was made from last, the version of that
\* capture's body, and the captures in its provenance.
Page == [of : Idea, body : 0..MaxBody, src : SUBSET Idea]

ASSUME IngestAssumption ==
    /\ MaxBody \in Nat \ {0} /\ MaxClock \in Nat \ {0}
    /\ Nothing \notin Idea \cup Title \cup Page
    /\ Idea \cap Title = {}

VARIABLES
    phase,      \* QueueContract's view of each job
    jidea,      \* payload.idea_id of each job
    idea,       \* the ideas rows
    page,       \* the live source page of each slug
    pc,         \* where the handler of a running job is
    loaded,     \* the body version that handler works on
    target,     \* the slug it is about to write
    edit,       \* open PATCH and push transactions
    scan,       \* an open POST /v1/ingest/run: the dirty ideas it has not looked
                \* up yet and those it inserts a job for, or Nothing
    version,    \* last body version handed out to an idea
    clock,
    twin,       \* history: the job was live beside another job of its idea
    raced       \* history: the idea met one of the known races

vars == <<phase, jidea, idea, page, pc, loaded, target, edit, scan, version, clock, twin, raced>>

Queue == INSTANCE QueueContract

Slug == Title \cup Idea
Time == 0..MaxClock
Row == [st : {"none", "pending", "ingested", "skipped"}, body : 0..MaxBody,
        upd : Time, last : Time \cup {Nothing}, active : BOOLEAN]
Scan == [todo : SUBSET Idea, need : SUBSET Idea]
Edit == [pc : {"idle", "open", "push"}, idea : Idea \cup {Nothing}, start : Time, seen : 0..MaxBody]

TypeOK ==
    /\ phase \in [Job -> Queue!Phase]
    /\ jidea \in [Job -> Idea \cup {Nothing}]
    /\ idea \in [Idea -> Row]
    /\ page \in [Slug -> Page \cup {Nothing}]
    /\ pc \in [Job -> {"idle", "claimed", "loaded", "named", "written", "marked", "returned"}]
    /\ loaded \in [Job -> 0..MaxBody]
    /\ target \in [Job -> Slug \cup {Nothing}]
    /\ edit \in [Editor -> Edit]
    /\ scan \in [Digest -> Scan \cup {Nothing}]
    /\ version \in [Idea -> 0..MaxBody]
    /\ clock \in Time
    /\ twin \in [Job -> BOOLEAN]
    /\ raced \in [Idea -> BOOLEAN]

NoEdit == [pc |-> "idle", idea |-> Nothing, start |-> 0, seen |-> 0]

Init ==
    /\ Queue!ContractInit
    /\ jidea = [j \in Job |-> Nothing]
    /\ idea = [i \in Idea |->
                [st |-> "none", body |-> 0, upd |-> 0, last |-> Nothing, active |-> FALSE]]
    /\ page = [s \in Slug |-> Nothing]
    /\ pc = [j \in Job |-> "idle"]
    /\ loaded = [j \in Job |-> 0]
    /\ target = [j \in Job |-> Nothing]
    /\ edit = [e \in Editor |-> NoEdit]
    /\ scan = [d \in Digest |-> Nothing]
    /\ version = [i \in Idea |-> 0]
    /\ clock = 0
    /\ twin = [j \in Job |-> FALSE]
    /\ raced = [i \in Idea |-> FALSE]

\* A transaction that stamps now() starts.
Tick == clock < MaxClock /\ clock' = clock + 1
Now == clock + 1

\* Source pages with the idea in their provenance (source_ids @> ARRAY[i]).
PagesOf(i) == {s \in Slug : page[s] # Nothing /\ i \in page[s].src}

\* Variant: the debounce only sees jobs no worker has taken.
LiveJobsUnclaimed(i) == {j \in Job : jidea[j] = i /\ phase[j] = "waiting"}

\* Jobs the debounce of enqueue finds: a running job still reads 'pending'.
LiveJobs(i) == {j \in Job : jidea[j] = i /\ phase[j] \in {"waiting", "running"}}
FreeJobs == {j \in Job : phase[j] = "absent"}

----------------------------------------------------------------------------
(* Requests.                                                               *)

\* POST /v1/capture: the row and its job commit together.
Capture(i, j) ==
    /\ idea[i].st = "none"
    /\ Tick
    /\ Queue!Appear({j})
    /\ jidea' = [jidea EXCEPT ![j] = i]
    /\ idea' = [idea EXCEPT ![i] =
                  [st |-> "pending", body |-> 1, upd |-> Now, last |-> Nothing, active |-> TRUE]]
    /\ version' = [version EXCEPT ![i] = 1]
    /\ UNCHANGED <<page, pc, loaded, target, edit, scan, twin, raced>>

\* PATCH, first half: the transaction opens and reads the current body.
EditBegin(e, i) ==
    /\ edit[e].pc = "idle"
    /\ idea[i].active
    /\ Tick
    /\ edit' = [edit EXCEPT ![e] = [pc |-> "open", idea |-> i, start |-> Now, seen |-> idea[i].body]]
    /\ UNCHANGED <<phase, jidea, idea, page, pc, loaded, target, scan, version, twin, raced>>

\* select_dirty_for_ingest.
Dirty(i) ==
    /\ idea[i].active
    /\ \/ idea[i].st = "pending"
       \/ idea[i].last # Nothing /\ idea[i].upd > idea[i].last

\* Some run of the idea has read the body and has not stamped it yet.
BeingIngested(i) ==
    \E j \in Job : jidea[j] = i /\ pc[j] \in {"loaded", "named", "written", "marked"}

\* Left 'pending' without a stamp: skipped as redundant, or the run died
\* between set_ingest_state and set_last_ingested.
NeverStamped(i) == idea[i].st # "pending" /\ idea[i].last = Nothing

Later(a, b) == IF a # Nothing /\ a > b THEN a ELSE b     \* GREATEST(a, b)

\* Variant: an edit that changes the body does not touch updated_at.
EditBodyUnstamped(e) ==
    LET i == edit[e].idea IN
    /\ edit[e].pc = "open"
    /\ version[i] < MaxBody
    /\ version' = [version EXCEPT ![i] = @ + 1]
    /\ idea' = [idea EXCEPT ![i].body = version[i] + 1]
    /\ edit' = [edit EXCEPT ![e] = NoEdit]
    /\ UNCHANGED <<phase, jidea, page, pc, loaded, target, scan, clock, twin, raced>>

\* Transaction e gives the row a new body: the trigger stamps updated_at with
\* the start of the transaction.
NewBody(e) ==
    LET i == edit[e].idea IN
    /\ version[i] < MaxBody
    /\ version' = [version EXCEPT ![i] = @ + 1]
    /\ idea' = [idea EXCEPT ![i].body = version[i] + 1, ![i].upd = edit[e].start]
    /\ edit' = [edit EXCEPT ![e] = NoEdit]
    /\ raced' = [raced EXCEPT ![i] =
                   \/ @
                   \/ BeingIngested(i)          \* a run works on the old body
                   \/ NeverStamped(i)           \* NULL hides the edit from the scan
                   \/ idea[i].last # Nothing /\ edit[e].start <= idea[i].last]
    /\ UNCHANGED <<phase, jidea, page, pc, loaded, target, scan, clock, twin>>

\* It only changes the location: the row is marked as ingested at that start.
NewLocation(e) ==
    LET i == edit[e].idea IN
    /\ idea' = [idea EXCEPT ![i].upd = edit[e].start,
                            ![i].last = Later(@, edit[e].start)]
    /\ edit' = [edit EXCEPT ![e] = NoEdit]
    /\ raced' = [raced EXCEPT ![i] = @ \/ (Dirty(i) /\ idea[i].st # "pending")]
    /\ UNCHANGED <<phase, jidea, page, pc, loaded, target, scan, version, clock, twin>>

\* PATCH, second half: the new body differs from the one read.
EditBody(e) == edit[e].pc = "open" /\ NewBody(e)

\* PATCH, second half: the body is absent or equals the one read.
EditLocation(e) == edit[e].pc = "open" /\ NewLocation(e)

\* DELETE: the row goes inactive and every source page it contributed to is
\* soft-deleted, one transaction.
Delete(i) ==
    /\ idea[i].active
    /\ Tick
    /\ idea' = [idea EXCEPT ![i].active = FALSE, ![i].upd = Now]
    /\ page' = [s \in Slug |->
                  IF s \in PagesOf(i) THEN Nothing ELSE page[s]]
    /\ raced' = [k \in Idea |-> raced[k] \/ (k # i /\ PagesOf(k) \cap PagesOf(i) # {})]
    /\ UNCHANGED <<phase, jidea, pc, loaded, target, edit, scan, version, twin>>

\* POST /v1/sync/push: its transaction opens; the operations it carries are
\* applied later in it, whatever state the row is in by then.
PushBegin(e, i) ==
    /\ edit[e].pc = "idle"
    /\ Tick
    /\ edit' = [edit EXCEPT ![e] = [NoEdit EXCEPT !.pc = "push", !.idea = i, !.start = Now]]
    /\ UNCHANGED <<phase, jidea, idea, page, pc, loaded, target, scan, version, twin, raced>>

\* idea.create: the row alone, with no job; ON CONFLICT DO NOTHING leaves a
\* row that is there as it is.
PushCreate(e) ==
    LET i == edit[e].idea IN
    /\ edit[e].pc = "push"
    /\ IF idea[i].st = "none"
       THEN /\ idea' = [idea EXCEPT ![i] = [st |-> "pending", body |-> 1, upd |-> edit[e].start,
                                           last |-> Nothing, active |-> TRUE]]
            /\ version' = [version EXCEPT ![i] = 1]
       ELSE UNCHANGED <<idea, version>>
    /\ edit' = [edit EXCEPT ![e] = NoEdit]
    /\ UNCHANGED <<phase, jidea, page, pc, loaded, target, scan, clock, twin, raced>>

\* idea.update: the row, active or not, takes a body other than its own, or
\* the location only.
PushUpdate(e) ==
    /\ edit[e].pc = "push"
    /\ idea[edit[e].idea].st # "none"
    /\ NewBody(e) \/ NewLocation(e)

\* idea.delete: the row goes inactive and keeps its pages.
PushDelete(e) ==
    LET i == edit[e].idea IN
    /\ edit[e].pc = "push"
    /\ idea[i].st # "none"
    /\ idea' = [idea EXCEPT ![i].active = FALSE, ![i].upd = edit[e].start]
    /\ edit' = [edit EXCEPT ![e] = NoEdit]
    /\ UNCHANGED <<phase, jidea, page, pc, loaded, target, scan, version, clock, twin, raced>>

\* No row has the key of the update or delete, or the update brings the body
\* the row has: nothing changes.
PushMisses(e) ==
    /\ edit[e].pc = "push"
    /\ edit' = [edit EXCEPT ![e] = NoEdit]
    /\ UNCHANGED <<phase, jidea, idea, page, pc, loaded, target, scan, version, clock, twin, raced>>

\* POST /v1/ingest/run: the dirty scan is a transaction of its own ..
DigestScan(d) ==
    /\ scan[d] = Nothing
    /\ scan' = [scan EXCEPT ![d] = [todo |-> {i \in Idea : Dirty(i)}, need |-> {}]]
    /\ UNCHANGED <<phase, jidea, idea, page, pc, loaded, target, edit, version, clock, twin, raced>>

\* .. then enqueue, idea after idea in the request's transaction: the debounce
\* finds the committed live job, or a row is inserted that nobody sees yet ..
DigestLookup(d, i) ==
    /\ scan[d] # Nothing
    /\ i \in scan[d].todo
    /\ scan' = [scan EXCEPT ![d] =
                  [todo |-> scan[d].todo \ {i},
                   need |-> IF LiveJobs(i) = {} THEN scan[d].need \cup {i} ELSE scan[d].need]]
    /\ UNCHANGED <<phase, jidea, idea, page, pc, loaded, target, edit, version, clock, twin, raced>>

\* .. and the commit, which makes the rows visible together.  A job of an idea
\* that another request gave one meanwhile is its twin.
DigestCommit(d) ==
    /\ scan[d] # Nothing
    /\ scan[d].todo = {}
    /\ LET need == scan[d].need IN
       \E f \in [need -> FreeJobs] :
          /\ \A a, b \in need : f[a] = f[b] => a = b
          /\ LET new == {f[i] : i \in need} IN
             /\ IF new = {} THEN UNCHANGED phase ELSE Queue!Appear(new)
             /\ jidea' = [j \in Job |-> IF j \in new THEN CHOOSE i \in need : f[i] = j ELSE jidea[j]]
          /\ twin' = [j \in Job |->
                        twin[j] \/ \E i \in need : LiveJobs(i) # {} /\ j \in LiveJobs(i) \cup {f[i]}]
    /\ scan' = [scan EXCEPT ![d] = Nothing]
    /\ UNCHANGED <<idea, page, pc, loaded, target, edit, version, clock, raced>>

\* The tenant is at its limit of queued jobs, a statement fails or the client
\* goes away: the request rolls back.
DigestFails(d) ==
    /\ scan[d] # Nothing
    /\ scan' = [scan EXCEPT ![d] = Nothing]
    /\ UNCHANGED <<phase, jidea, idea, page, pc, loaded, target, edit, version, clock, twin, raced>>

----------------------------------------------------------------------------
(* The ingest handler, step by step.                                       *)

At(j, p) == phase[j] = "running" /\ pc[j] = p
Goto(j, p) == pc' = [pc EXCEPT ![j] = p]

\* A worker claims the job.
Claim(j) ==
    /\ Queue!Start(j)
    /\ Goto(j, "claimed")
    /\ UNCHANGED <<jidea, idea, page, loaded, target, edit, scan, version, clock, twin, raced>>

\* load_idea: reads the body whether or not the capture is still active.
Load(j) ==
    /\ At(j, "claimed")
    /\ loaded' = [loaded EXCEPT ![j] = idea[jidea[j]].body]
    /\ Goto(j, "loaded")
    /\ UNCHANGED <<phase, jidea, idea, page, target, edit, scan, version, clock, twin, raced>>

\* Stage 2: the model calls the capture redundant; nothing is written.
SkipRedundant(j) ==
    /\ At(j, "loaded")
    /\ Tick
    /\ idea' = [idea EXCEPT ![jidea[j]].st = "skipped", ![jidea[j]].upd = Now]
    /\ Goto(j, "returned")
    /\ UNCHANGED <<phase, jidea, page, loaded, target, edit, scan, version, twin, raced>>

\* Variant: a fresh slug at every run, so an edited capture gets a second page.
ChooseFreshSlug(j, s) ==
    LET i == jidea[j] IN
    /\ At(j, "loaded")
    /\ s \in Title \cup {i}
    /\ target' = [target EXCEPT ![j] = s]
    /\ Goto(j, "named")
    /\ UNCHANGED <<phase, jidea, idea, page, loaded, edit, scan, version, clock, twin, raced>>

\* Stages 3-4: the slug of the page this idea already has, if any (the most
\* recently updated one), else one from the model's title or the fallback.
ChooseSlug(j, s) ==
    LET i == jidea[j] IN
    /\ At(j, "loaded")
    /\ IF PagesOf(i) # {} THEN s \in PagesOf(i) ELSE s \in Title \cup {i}
    /\ target' = [target EXCEPT ![j] = s]
    /\ Goto(j, "named")
    /\ UNCHANGED <<phase, jidea, idea, page, loaded, edit, scan, version, clock, twin, raced>>

\* write_page: upsert by slug; the provenance of an existing row is kept.
WriteSource(j) ==
    LET i == jidea[j]
        s == target[j]
        old == IF page[s] = Nothing THEN {} ELSE page[s].src
    IN  /\ At(j, "named")
        /\ page' = [page EXCEPT ![s] = [of |-> i, body |-> loaded[j], src |-> old \cup {i}]]
        /\ raced' = [k \in Idea |->
                       \/ raced[k]
                       \/ k \in old /\ k # i                       \* a shared slug
                       \/ k = i /\ twin[j] /\ PagesOf(i) \ {s} # {}] \* twins chose two slugs
        /\ Goto(j, "written")
        /\ UNCHANGED <<phase, jidea, idea, loaded, target, edit, scan, version, clock, twin>>

\* Variant: the idea is marked before its page is written.
MarkBeforeWrite(j) ==
    /\ At(j, "named") \/ At(j, "written")
    /\ Tick
    /\ idea' = [idea EXCEPT ![jidea[j]].st = "ingested", ![jidea[j]].upd = Now]
    /\ Goto(j, "marked")
    /\ UNCHANGED <<phase, jidea, page, loaded, target, edit, scan, version, twin, raced>>

\* Stage 6: set_ingest_state, then set_last_ingested, two transactions.
MarkIngested(j) ==
    /\ At(j, "written")
    /\ Tick
    /\ idea' = [idea EXCEPT ![jidea[j]].st = "ingested", ![jidea[j]].upd = Now]
    /\ Goto(j, "marked")
    /\ UNCHANGED <<phase, jidea, page, loaded, target, edit, scan, version, twin, raced>>

StampIngested(j) ==
    /\ At(j, "marked")
    /\ Tick
    /\ idea' = [idea EXCEPT ![jidea[j]].last = Now, ![jidea[j]].upd = Now]
    /\ Goto(j, "returned")
    /\ UNCHANGED <<phase, jidea, page, loaded, target, edit, scan, version, twin, raced>>

\* The locals of the handler are gone when it returns or dies.
HandlerGone(j) ==
    /\ Goto(j, "idle")
    /\ loaded' = [loaded EXCEPT ![j] = 0]
    /\ target' = [target EXCEPT ![j] = Nothing]

\* The handler returned Ok: the job is completed.
Complete(j) ==
    /\ At(j, "returned")
    /\ Queue!Move(j, "running", "done")
    /\ HandlerGone(j)
    /\ UNCHANGED <<jidea, idea, page, edit, scan, version, clock, twin, raced>>

\* An error (model, budget, database) or a crash at any point: the job is
\* retried or fails; what the handler wrote in its own transactions stays.
RunFails(j) ==
    /\ phase[j] = "running"
    /\ Queue!Return(j) \/ Queue!Move(j, "running", "failed")
    /\ HandlerGone(j)
    /\ UNCHANGED <<jidea, idea, page, edit, scan, version, clock, twin, raced>>

----------------------------------------------------------------------------
Handle(j) ==
    \/ Claim(j) \/ Load(j) \/ SkipRedundant(j)
    \/ \E s \in Slug : ChooseSlug(j, s)
    \/ WriteSource(j) \/ MarkIngested(j) \/ StampIngested(j) \/ Complete(j)

Request ==
    \/ \E i \in Idea, j \in Job : Capture(i, j)
    \/ \E e \in Editor, i \in Idea : EditBegin(e, i)
    \/ \E e \in Editor : EditBody(e) \/ EditLocation(e)
    \/ \E e \in Editor, i \in Idea : PushBegin(e, i)
    \/ \E e \in Editor : PushCreate(e) \/ PushUpdate(e) \/ PushDelete(e) \/ PushMisses(e)
    \/ \E i \in Idea : Delete(i)
    \/ \E d \in Digest : DigestScan(d) \/ DigestCommit(d) \/ DigestFails(d)
    \/ \E d \in Digest, i \in Idea : DigestLookup(d, i)

Next == Request \/ \E j \in Job : Handle(j) \/ RunFails(j)

Spec == Init /\ [][Next]_vars

----------------------------------------------------------------------------
(* Properties.                                                             *)

\* The idea has one live source page, made from its present body.
PageShows(i) == \E s \in Slug :
    PagesOf(i) = {s} /\ page[s].of = i /\ page[s].body = idea[i].body

\* An ingested capture the digest takes for clean has one source page, made
\* from its present body: select_dirty_for_ingest misses nothing and a second
\* run reuses the page (source_page_slug).  Excused are the races `raced`
\* records: an edit while a run holds the old body, of a row never stamped, or
\* whose transaction started before the stamp, a location edit of an edited
\* row, two captures sharing a slug, and twin jobs that both found the capture
\* without a page and named it differently.
CurrentUnlessRaced ==
    \A i \in Idea :
        idea[i].active /\ idea[i].st = "ingested" /\ ~raced[i] /\ ~Dirty(i) => PageShows(i)

\* Job j takes the step from naming the page to having written it.
Writes(j) == pc[j] = "named" /\ pc'[j] = "written"

\* A run overwrites what a later run made of the same capture only as one of
\* two jobs that concurrent digests queued for it: otherwise the jobs of a
\* capture do not overlap, because the debounce still finds a job a worker is
\* running.  Once the twins are done, the capture's page only advances again.
PageNeverRegresses ==
    [][\A s \in Slug :
         page[s] # Nothing /\ page'[s] # Nothing /\ page'[s].of = page[s].of
         => page'[s].body >= page[s].body \/ \E j \in Job : twin[j] /\ Writes(j)]_vars

----------------------------------------------------------------------------
(* The inductive invariant behind both properties.                         *)

\* At most one live job of a capture but for twins, and a handler only in a
\* running one.
JobsOwned ==
    /\ \A j \in Job :
        /\ phase[j] # "absent" => jidea[j] \in Idea /\ idea[jidea[j]].st # "none"
        /\ phase[j] # "running" => pc[j] = "idle"
        /\ pc[j] = "named" => target[j] \in Slug
    /\ \A i \in Idea : \A j, k \in LiveJobs(i) : j = k \/ twin[j]

\* The row holds the last version handed out; requests and the scan are about
\* rows that exist.
RowsInStep ==
    /\ \A i \in Idea :
        /\ idea[i].body = version[i]
        /\ idea[i].st = "none" => version[i] = 0 /\ ~idea[i].active
    /\ \A e \in Editor :
        /\ edit[e].pc # "idle" => edit[e].idea \in Idea
        /\ edit[e].pc = "open" => idea[edit[e].idea].st # "none"
    /\ \A d \in Digest : scan[d] # Nothing =>
        \A i \in scan[d].todo \cup scan[d].need : idea[i].st # "none"

\* Until raced, a capture contributes to one page at most, and it is its own.
OnePage ==
    /\ \A s \in Slug : page[s] # Nothing =>
        page[s].of \in page[s].src /\ page[s].body <= idea[page[s].of].body
    /\ \A i \in Idea : ~raced[i] => \A s, t \in PagesOf(i) : s = t /\ page[s].of = i

\* A run holds the present body until raced; unless it has a twin, nothing on
\* the capture's pages is newer; what it wrote is still there.
RunsInStep == \A j \in Job : LET i == jidea[j] IN
    pc[j] \in {"loaded", "named", "written", "marked"} =>
        /\ ~raced[i] => loaded[j] = idea[i].body
        /\ ~twin[j] =>
             \A s \in Slug : page[s] # Nothing /\ page[s].of = i => page[s].body <= loaded[j]
        /\ loaded[j] <= idea[i].body
        /\ pc[j] = "named" /\ ~twin[j] /\ ~raced[i] => PagesOf(i) \subseteq {target[j]}
        /\ pc[j] \in {"written", "marked"} /\ idea[i].active /\ ~raced[i] => PageShows(i)

\* CurrentUnlessRaced, but for what the stamps alone tell.
CurrentOrStamped == \A i \in Idea :
    idea[i].active /\ idea[i].st = "ingested" /\ ~raced[i] =>
        PageShows(i) \/ (idea[i].last # Nothing /\ idea[i].upd > idea[i].last)

IngestInv == TypeOK /\ JobsOwned /\ RowsInStep /\ OnePage /\ RunsInStep /\ CurrentOrStamped

============================================================================
