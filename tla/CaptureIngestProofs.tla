-------------------------- MODULE CaptureIngestProofs --------------------------
(***************************************************************************)
(* Proofs about CaptureIngest for every number of captures, jobs, requests, *)
(* titles, versions and instants, without the limits of the checked         *)
(* instance (MCCaptureIngest!Focus): a clean capture's page shows its body, *)
(* and a run never sets a page back.                                       *)
(***************************************************************************)
EXTENDS CaptureIngest, TLAPS

PCs == {"idle", "claimed", "loaded", "named", "written", "marked", "returned"}
Working == {"loaded", "named", "written", "marked"}

\* What a page shows depends on the pages and the body alone.
LEMMA ShowsFrame ==
  ASSUME page' = page
  PROVE  /\ \A i \in Idea : PagesOf(i)' = PagesOf(i)
         /\ \A i \in Idea : idea'[i].body = idea[i].body => PageShows(i)' = PageShows(i)
  BY DEF PagesOf, PageShows

LEMMA TickTime == TypeOK /\ Tick => Now \in Time /\ clock' \in Time
  BY IngestAssumption DEF TypeOK, Tick, Now, Time

LEMMA Nones == /\ NoEdit \in Edit /\ NoEdit.pc = "idle"
               /\ MaxClock \in Nat /\ MaxBody \in Nat
  BY IngestAssumption DEF NoEdit, Edit, Time

\* What a digest holds are captures.
LEMMA ScanIdeas ==
  ASSUME TypeOK, NEW d \in Digest, scan[d] # Nothing
  PROVE  scan[d] \in Scan /\ scan[d].todo \subseteq Idea /\ scan[d].need \subseteq Idea
  BY DEF TypeOK, Scan

\* The rows a digest found stay rows.
LEMMA ScansKept ==
  ASSUME TypeOK, RowsInStep, scan' = scan,
         \A k \in Idea : idea[k].st # "none" => idea'[k].st # "none"
  PROVE  \A d \in Digest : scan'[d] # Nothing =>
           \A k \in scan'[d].todo \cup scan'[d].need : idea'[k].st # "none"
  BY ScanIdeas DEF RowsInStep

\* A request ends, and no row leaves the table.
LEMMA RequestEnds ==
  ASSUME IngestInv, NEW e \in Editor, edit'[e] = NoEdit, scan' = scan,
         \A d \in Editor \ {e} : edit'[d] = edit[d],
         \A k \in Idea : /\ idea'[k].body = version'[k]
                         /\ idea[k].st # "none" => idea'[k].st # "none",
         \A k \in Idea : idea'[k].st = "none" => version'[k] = version[k] /\ ~idea'[k].active
  PROVE  RowsInStep'
  <1>1. \A k \in Idea : idea'[k].st = "none" => version'[k] = 0 /\ ~idea'[k].active
    BY DEF IngestInv, RowsInStep
  <1>2. \A d \in Editor : /\ edit'[d].pc # "idle" => edit'[d].idea \in Idea
                          /\ edit'[d].pc = "open" => idea'[edit'[d].idea].st # "none"
    BY Nones DEF IngestInv, RowsInStep
  <1>3. \A d \in Digest : scan'[d] # Nothing =>
          \A k \in scan'[d].todo \cup scan'[d].need : idea'[k].st # "none"
    BY ScansKept DEF IngestInv, RowsInStep
  <1> QED BY <1>1, <1>2, <1>3 DEF RowsInStep

\* A step that only opens or closes a request.
LEMMA QuietStep ==
  ASSUME IngestInv, TypeOK', RowsInStep',
         UNCHANGED <<phase, jidea, idea, page, pc, loaded, target, twin, raced>>
  PROVE  IngestInv'
  <1>1. JobsOwned'
    BY DEF IngestInv, JobsOwned, LiveJobs
  <1>2. OnePage'
    BY DEF IngestInv, OnePage, PagesOf
  <1>3. RunsInStep'
    BY DEF IngestInv, RunsInStep, PagesOf, PageShows
  <1>4. CurrentOrStamped'
    BY DEF IngestInv, CurrentOrStamped, PagesOf, PageShows
  <1> QED BY <1>1, <1>2, <1>3, <1>4 DEF IngestInv

LEMMA OpenSteps ==
  ASSUME IngestInv,
         \/ \E e \in Editor, i \in Idea : EditBegin(e, i) \/ PushBegin(e, i)
         \/ \E e \in Editor : PushMisses(e)
         \/ \E d \in Digest : DigestScan(d) \/ DigestFails(d) \/ \E i \in Idea : DigestLookup(d, i)
  PROVE  IngestInv'
  <1>0. /\ TypeOK /\ RowsInStep
        /\ UNCHANGED <<phase, jidea, idea, page, pc, loaded, target, version, twin, raced>>
    BY DEF IngestInv, EditBegin, PushBegin, PushMisses, DigestScan, DigestFails, DigestLookup
  <1>1. ASSUME NEW d \in Digest, DigestScan(d) \/ DigestFails(d) \/ \E i \in Idea : DigestLookup(d, i)
        PROVE  IngestInv'
    <2>0. UNCHANGED <<edit, clock>>
      BY <1>1 DEF DigestScan, DigestFails, DigestLookup
    <2>1. PICK n \in Scan \cup {Nothing} :
             /\ scan' = [scan EXCEPT ![d] = n]
             /\ n # Nothing => \A i \in n.todo \cup n.need : idea[i].st # "none"
      <3>1. CASE DigestScan(d)
        <4> DEFINE n == [todo |-> {i \in Idea : Dirty(i)}, need |-> {}]
        <4>1. n \in Scan /\ n.todo = {i \in Idea : Dirty(i)} /\ n.need = {}
          BY DEF Scan
        <4>2. \A i \in n.todo \cup n.need : idea[i].st # "none"
          BY <1>0, <4>1 DEF RowsInStep, Dirty
        <4>3. scan' = [scan EXCEPT ![d] = n]
          BY <3>1 DEF DigestScan
        <4> HIDE DEF n
        <4> QED BY <4>1, <4>2, <4>3
      <3>2. CASE DigestFails(d)
        BY <3>2 DEF DigestFails
      <3>3. ASSUME NEW i \in Idea, DigestLookup(d, i)
            PROVE  \E n \in Scan \cup {Nothing} :
                     /\ scan' = [scan EXCEPT ![d] = n]
                     /\ n # Nothing => \A k \in n.todo \cup n.need : idea[k].st # "none"
        <4> DEFINE need == IF LiveJobs(i) = {} THEN scan[d].need \cup {i} ELSE scan[d].need
                   n == [todo |-> scan[d].todo \ {i}, need |-> need]
        <4>0. scan[d] # Nothing /\ i \in scan[d].todo
          BY <3>3 DEF DigestLookup
        <4>1. need \subseteq scan[d].todo \cup scan[d].need /\ scan[d].todo \cup scan[d].need \subseteq Idea
          BY <1>0, <4>0, ScanIdeas
        <4>3. scan' = [scan EXCEPT ![d] = n]
          BY <3>3 DEF DigestLookup
        <4> HIDE DEF need
        <4>2. n \in Scan /\ n.todo = scan[d].todo \ {i} /\ n.need = need
          BY <4>1 DEF Scan
        <4> HIDE DEF n
        <4>4. \A k \in n.todo \cup n.need : idea[k].st # "none"
          BY <1>0, <4>0, <4>1, <4>2 DEF RowsInStep
        <4> QED BY <4>2, <4>3, <4>4
      <3> QED BY <1>1, <3>1, <3>2, <3>3
    <2>2. /\ scan' \in [Digest -> Scan \cup {Nothing}] /\ scan'[d] = n
          /\ \A c \in Digest \ {d} : scan'[c] = scan[c]
      BY <1>0, <2>1 DEF TypeOK
    <2>3. TypeOK'
      BY <1>0, <2>0, <2>2 DEF TypeOK
    <2>4. RowsInStep'
      BY <1>0, <2>0, <2>1, <2>2 DEF RowsInStep
    <2> QED BY <1>0, <2>3, <2>4, QuietStep
  <1>2. ASSUME NEW e \in Editor, PushMisses(e) \/ \E i \in Idea : EditBegin(e, i) \/ PushBegin(e, i)
        PROVE  IngestInv'
    <2>0. scan' = scan /\ (clock' = clock \/ Tick)
      BY <1>2 DEF PushMisses, EditBegin, PushBegin
    <2>1. clock' \in Time /\ scan' = scan
      BY <1>0, <2>0, TickTime DEF TypeOK
    <2>2. PICK n \in Edit : /\ edit' = [edit EXCEPT ![e] = n]
                            /\ n.pc # "idle" => n.idea \in Idea
                            /\ n.pc = "open" => idea[n.idea].st # "none"
      <3>1. CASE PushMisses(e)
        BY <3>1, Nones DEF PushMisses
      <3>2. ASSUME NEW i \in Idea, EditBegin(e, i)
            PROVE  \E n \in Edit : /\ edit' = [edit EXCEPT ![e] = n]
                                   /\ n.pc # "idle" => n.idea \in Idea
                                   /\ n.pc = "open" => idea[n.idea].st # "none"
        <4> DEFINE n == [pc |-> "open", idea |-> i, start |-> Now, seen |-> idea[i].body]
        <4>5. Now \in Time /\ idea[i].body \in 0..MaxBody
          BY <1>0, <3>2, TickTime DEF TypeOK, EditBegin, Row
        <4>1. n \in Edit
          BY <4>5 DEF Edit
        <4>2. n.pc = "open" /\ n.idea = i
          OBVIOUS
        <4>3. idea[i].st # "none"
          BY <1>0, <3>2 DEF RowsInStep, EditBegin
        <4>4. edit' = [edit EXCEPT ![e] = n]
          BY <3>2 DEF EditBegin
        <4> HIDE DEF n
        <4> QED BY <4>1, <4>2, <4>3, <4>4
      <3>3. ASSUME NEW i \in Idea, PushBegin(e, i)
            PROVE  \E n \in Edit : /\ edit' = [edit EXCEPT ![e] = n]
                                   /\ n.pc # "idle" => n.idea \in Idea
                                   /\ n.pc = "open" => idea[n.idea].st # "none"
        <4> DEFINE n == [NoEdit EXCEPT !.pc = "push", !.idea = i, !.start = Now]
        <4>3. Now \in Time
          BY <1>0, <3>3, TickTime DEF PushBegin
        <4>1. n \in Edit /\ n.pc = "push" /\ n.idea = i
          BY <4>3, Nones DEF Edit
        <4>2. edit' = [edit EXCEPT ![e] = n]
          BY <3>3 DEF PushBegin
        <4> HIDE DEF n
        <4> QED BY <4>1, <4>2
      <3> QED BY <1>2, <3>1, <3>2, <3>3
    <2>3. edit' \in [Editor -> Edit] /\ edit'[e] = n /\ \A d \in Editor \ {e} : edit'[d] = edit[d]
      BY <1>0, <2>2 DEF TypeOK
    <2>4. TypeOK'
      BY <1>0, <2>1, <2>3 DEF TypeOK
    <2>5. RowsInStep'
      BY <1>0, <2>1, <2>2, <2>3 DEF RowsInStep
    <2> QED BY <1>0, <2>4, <2>5, QuietStep
  <1> QED BY <1>1, <1>2

\* A step that rewrites a row but not its body; the handler that does it may
\* return, or go from the page to the mark.
LEMMA RowStep ==
  ASSUME IngestInv, NEW i \in Idea, NEW n \in Row, idea' = [idea EXCEPT ![i] = n],
         UNCHANGED <<phase, jidea, page, loaded, target, twin>>,
         TypeOK', RowsInStep',
         n.body = idea[i].body, n.active => idea[i].active, n.st # "none",
         \A k \in Idea : raced[k] => raced'[k],
         \A j \in Job : \/ pc'[j] = pc[j]
                        \/ phase[j] = "running" /\ pc'[j] = "returned"
                        \/ phase[j] = "running" /\ pc[j] = "written" /\ pc'[j] = "marked",
         n.active /\ n.st = "ingested" /\ ~raced'[i] =>
           PageShows(i) \/ (n.last # Nothing /\ n.upd > n.last)
  PROVE  IngestInv'
  <1>0. TypeOK /\ idea'[i] = n /\ \A k \in Idea \ {i} : idea'[k] = idea[k]
    BY DEF IngestInv, TypeOK
  <1>1. \A k \in Idea : idea[k].st # "none" => idea'[k].st # "none"
    BY <1>0
  <1>5. \A k \in Idea : /\ idea'[k].body = idea[k].body
                        /\ idea'[k].active => idea[k].active
    BY <1>0
  <1>2. \A k \in Idea : PagesOf(k)' = PagesOf(k) /\ (PageShows(k)' <=> PageShows(k))
    BY <1>5, ShowsFrame
  <1>3. JobsOwned'
    <2>1. \A k \in Idea : LiveJobs(k)' = LiveJobs(k)
      BY DEF LiveJobs
    <2> QED BY <1>1, <2>1 DEF IngestInv, JobsOwned
  <1>4. OnePage'
    BY <1>0, <1>2, <1>5 DEF IngestInv, OnePage, TypeOK, Page
  <1>6. RunsInStep'
    <2> SUFFICES ASSUME NEW j \in Job, pc'[j] \in Working
                 PROVE  LET k == jidea[j] IN
                        /\ ~raced'[k] => loaded[j] = idea'[k].body
                        /\ ~twin[j] => \A s \in Slug : page[s] # Nothing /\ page[s].of = k => page[s].body <= loaded[j]
                        /\ loaded[j] <= idea'[k].body
                        /\ pc'[j] = "named" /\ ~twin[j] /\ ~raced'[k] => PagesOf(k)' \subseteq {target[j]}
                        /\ pc'[j] \in {"written", "marked"} /\ idea'[k].active /\ ~raced'[k] => PageShows(k)'
      BY DEF RunsInStep, Working
    <2>1. pc[j] \in Working /\ (pc'[j] = pc[j] \/ (pc[j] = "written" /\ pc'[j] = "marked"))
      BY DEF Working
    <2>2. jidea[j] \in Idea
      BY <2>1 DEF IngestInv, JobsOwned, Working
    <2>3. LET k == jidea[j] IN
          /\ ~raced[k] => loaded[j] = idea[k].body
          /\ ~twin[j] => \A s \in Slug : page[s] # Nothing /\ page[s].of = k => page[s].body <= loaded[j]
          /\ loaded[j] <= idea[k].body
          /\ pc[j] = "named" /\ ~twin[j] /\ ~raced[k] => PagesOf(k) \subseteq {target[j]}
          /\ pc[j] \in {"written", "marked"} /\ idea[k].active /\ ~raced[k] => PageShows(k)
      BY <2>1 DEF IngestInv, RunsInStep, Working
    <2> HIDE DEF Working
    <2> QED BY <1>2, <1>5, <2>1, <2>2, <2>3
  <1>7. CurrentOrStamped'
    BY <1>0, <1>2 DEF IngestInv, CurrentOrStamped
  <1> QED BY <1>3, <1>4, <1>6, <1>7 DEF IngestInv

\* The location of a capture, and its deletion by a push.
LEMMA LocationSteps ==
  ASSUME IngestInv, NEW e \in Editor, edit[e].pc # "idle",
         idea[edit[e].idea].st # "none",
         NewLocation(e) \/ PushDelete(e)
  PROVE  IngestInv'
  <1> DEFINE i == edit[e].idea
  <1>0. /\ TypeOK /\ RowsInStep /\ i \in Idea /\ idea[i] \in Row /\ edit[e].start \in Time
        /\ raced[i] \in BOOLEAN
        /\ edit' = [edit EXCEPT ![e] = NoEdit]
        /\ UNCHANGED <<phase, jidea, page, pc, loaded, target, scan, version, clock, twin>>
    BY DEF IngestInv, TypeOK, RowsInStep, Edit, NewLocation, PushDelete
  <1>1. edit' \in [Editor -> Edit] /\ edit'[e] = NoEdit /\ \A d \in Editor \ {e} : edit'[d] = edit[d]
    BY <1>0, Nones DEF TypeOK
  <1>2. ASSUME NEW n \in Row, idea' = [idea EXCEPT ![i] = n], n.body = idea[i].body,
               n.st = idea[i].st, n.active => idea[i].active, raced' \in [Idea -> BOOLEAN]
        PROVE  TypeOK' /\ RowsInStep'
    <2>1. idea' \in [Idea -> Row] /\ idea'[i] = n /\ \A k \in Idea \ {i} : idea'[k] = idea[k]
      BY <1>0, <1>2 DEF TypeOK
    <2>2. TypeOK'
      BY <1>0, <1>1, <1>2, <2>1 DEF TypeOK
    <2>3. \A k \in Idea : /\ idea'[k].body = idea[k].body /\ idea'[k].st = idea[k].st
                          /\ idea'[k].active => idea[k].active
      BY <1>2, <2>1
    <2>4. RowsInStep'
      BY <1>0, <1>1, <2>3, Nones, ScansKept DEF RowsInStep, TypeOK
    <2> QED BY <2>2, <2>4
  <1>3. CASE NewLocation(e)
    <2> DEFINE last == Later(idea[i].last, edit[e].start)
               n == [idea[i] EXCEPT !.upd = edit[e].start, !.last = last]
    <2>1. last \in Time
      BY <1>0 DEF Later, Row, Time
    <2>2. /\ n \in Row /\ n.body = idea[i].body /\ n.st = idea[i].st
          /\ n.active = idea[i].active
      BY <1>0, <2>1 DEF Row
    <2>3. idea' = [idea EXCEPT ![i] = n]
      BY <1>0, <1>3 DEF NewLocation, TypeOK
    <2>4. /\ raced' = [raced EXCEPT ![i] = raced[i] \/ (Dirty(i) /\ idea[i].st # "pending")]
      BY <1>3, <1>0 DEF NewLocation, TypeOK
    <2>5. raced' \in [Idea -> BOOLEAN] /\ \A k \in Idea : raced[k] => raced'[k]
      BY <1>0, <2>4 DEF TypeOK
    <2> HIDE DEF n
    <2>6. idea[i].active /\ idea[i].st = "ingested" /\ ~raced'[i] => PageShows(i)
      <3>1. ~raced'[i] => ~raced[i] /\ ~(Dirty(i) /\ idea[i].st # "pending")
        BY <1>0, <2>4 DEF TypeOK
      <3> QED BY <1>0, <3>1 DEF IngestInv, CurrentOrStamped, Dirty
    <2>7. TypeOK' /\ RowsInStep'
      BY <1>2, <2>2, <2>3, <2>5
    <2> QED BY <1>0, <2>2, <2>3, <2>5, <2>6, <2>7, RowStep
  <1>4. CASE PushDelete(e)
    <2> DEFINE n == [idea[i] EXCEPT !.active = FALSE, !.upd = edit[e].start]
    <2>1. /\ n \in Row /\ n.body = idea[i].body /\ n.st = idea[i].st
          /\ n.active = FALSE
      BY <1>0 DEF Row
    <2>2. idea' = [idea EXCEPT ![i] = n]
      BY <1>0, <1>4 DEF PushDelete, TypeOK
    <2>3. raced' = raced
      BY <1>4 DEF PushDelete
    <2> HIDE DEF n
    <2>4. TypeOK' /\ RowsInStep'
      BY <1>0, <1>2, <2>1, <2>2, <2>3 DEF TypeOK
    <2> QED BY <1>0, <2>1, <2>2, <2>3, <2>4, RowStep
  <1> QED BY <1>3, <1>4

\* The handler's marks: the capture is redundant, ingested, or stamped.
LEMMA MarkSteps ==
  ASSUME IngestInv, NEW j \in Job, SkipRedundant(j) \/ MarkIngested(j) \/ StampIngested(j)
  PROVE  IngestInv'
  <1> DEFINE i == jidea[j]
  <1>0. /\ TypeOK /\ RowsInStep /\ phase[j] = "running" /\ Tick
        /\ UNCHANGED <<phase, jidea, page, loaded, target, edit, scan, version, twin, raced>>
    BY DEF IngestInv, SkipRedundant, MarkIngested, StampIngested, At
  <1>1. i \in Idea /\ idea[i] \in Row /\ idea[i].st # "none" /\ Now \in Time /\ clock' \in Time
    BY <1>0, TickTime DEF IngestInv, JobsOwned, TypeOK
  <1>2. PICK q \in PCs : /\ pc' = [pc EXCEPT ![j] = q]
                         /\ q = "returned" \/ (pc[j] = "written" /\ q = "marked")
    BY DEF PCs, SkipRedundant, MarkIngested, StampIngested, At, Goto
  <1>3. pc' \in [Job -> PCs] /\ \A k \in Job : pc'[k] = IF k = j THEN q ELSE pc[k]
    BY <1>0, <1>2 DEF TypeOK, PCs
  <1>4. PICK n \in Row :
           /\ idea' = [idea EXCEPT ![i] = n] /\ n.body = idea[i].body /\ n.st # "none"
           /\ n.active = idea[i].active
           /\ n.active /\ n.st = "ingested" /\ ~raced[i] => PageShows(i)
    <2>1. CASE SkipRedundant(j)
      <3> DEFINE n == [idea[i] EXCEPT !.st = "skipped", !.upd = Now]
      <3>1. n \in Row /\ n.body = idea[i].body /\ n.st = "skipped" /\ n.active = idea[i].active
        BY <1>1 DEF Row
      <3>2. idea' = [idea EXCEPT ![i] = n]
        BY <1>0, <1>1, <2>1 DEF SkipRedundant, TypeOK
      <3> HIDE DEF n
      <3> QED BY <3>1, <3>2
    <2>2. CASE MarkIngested(j)
      <3> DEFINE n == [idea[i] EXCEPT !.st = "ingested", !.upd = Now]
      <3>1. n \in Row /\ n.body = idea[i].body /\ n.st = "ingested" /\ n.active = idea[i].active
        BY <1>1 DEF Row
      <3>2. idea' = [idea EXCEPT ![i] = n]
        BY <1>0, <1>1, <2>2 DEF MarkIngested, TypeOK
      <3>3. idea[i].active /\ ~raced[i] => PageShows(i)
        BY <2>2 DEF MarkIngested, At, IngestInv, RunsInStep
      <3> HIDE DEF n
      <3> QED BY <3>1, <3>2, <3>3
    <2>3. CASE StampIngested(j)
      <3> DEFINE n == [idea[i] EXCEPT !.last = Now, !.upd = Now]
      <3>1. n \in Row /\ n.body = idea[i].body /\ n.st = idea[i].st /\ n.active = idea[i].active
        BY <1>1 DEF Row
      <3>2. idea' = [idea EXCEPT ![i] = n]
        BY <1>0, <1>1, <2>3 DEF StampIngested, TypeOK
      <3>3. idea[i].active /\ ~raced[i] => PageShows(i)
        BY <2>3 DEF StampIngested, At, IngestInv, RunsInStep
      <3> HIDE DEF n
      <3> QED BY <1>1, <3>1, <3>2, <3>3
    <2> QED BY <2>1, <2>2, <2>3
  <1>5. idea' \in [Idea -> Row] /\ idea'[i] = n /\ \A k \in Idea \ {i} : idea'[k] = idea[k]
    BY <1>0, <1>1, <1>4 DEF TypeOK
  <1>6. TypeOK'
    BY <1>0, <1>1, <1>3, <1>5 DEF TypeOK, PCs
  <1>7. RowsInStep'
    <2>1. \A k \in Idea : /\ idea'[k].body = idea[k].body
                          /\ idea[k].st # "none" => idea'[k].st # "none"
                          /\ idea'[k].st = "none" => idea[k].st = "none" /\ idea'[k] = idea[k]
      BY <1>4, <1>5
    <2> QED BY <1>0, <2>1, ScansKept DEF RowsInStep, TypeOK
  <1> QED BY <1>0, <1>1, <1>2, <1>3, <1>4, <1>6, <1>7, RowStep

\* A new body: a run at work on the old one is a race, and so is an edit that
\* the stamps do not tell from the ingest.
LEMMA NewBodyStep ==
  ASSUME IngestInv, NEW e \in Editor, edit[e].pc # "idle",
         idea[edit[e].idea].st # "none", NewBody(e)
  PROVE  IngestInv'
  <1> DEFINE i == edit[e].idea
             n == [idea[i] EXCEPT !.body = version[i] + 1, !.upd = edit[e].start]
  <1>0. /\ TypeOK /\ RowsInStep /\ i \in Idea /\ idea[i] \in Row /\ edit[e].start \in Time
        /\ version[i] \in 0..MaxBody /\ version[i] < MaxBody /\ version[i] + 1 \in 0..MaxBody
        /\ edit' = [edit EXCEPT ![e] = NoEdit]
        /\ version' = [version EXCEPT ![i] = version[i] + 1]
        /\ UNCHANGED <<phase, jidea, page, pc, loaded, target, scan, clock, twin>>
    BY Nones DEF IngestInv, TypeOK, RowsInStep, Edit, NewBody
  <1>1. edit' \in [Editor -> Edit] /\ edit'[e] = NoEdit /\ \A d \in Editor \ {e} : edit'[d] = edit[d]
    BY <1>0, Nones DEF TypeOK
  <1>2. idea' = [idea EXCEPT ![i] = n]
    BY <1>0 DEF NewBody, TypeOK
  <1>3. /\ n \in Row /\ n.body = version[i] + 1 /\ n.st = idea[i].st /\ n.last = idea[i].last
        /\ n.upd = edit[e].start /\ n.active = idea[i].active
    BY <1>0 DEF Row
  <1> HIDE DEF n
  <1>4. idea' \in [Idea -> Row] /\ idea'[i] = n /\ \A k \in Idea \ {i} : idea'[k] = idea[k]
    BY <1>0, <1>2, <1>3 DEF TypeOK
  <1>5. /\ version' \in [Idea -> 0..MaxBody] /\ version'[i] = version[i] + 1
        /\ \A k \in Idea \ {i} : version'[k] = version[k]
    BY <1>0 DEF TypeOK
  <1>6. /\ raced' \in [Idea -> BOOLEAN] /\ \A k \in Idea \ {i} : raced'[k] = raced[k]
        /\ ~raced'[i] => /\ ~raced[i] /\ ~BeingIngested(i) /\ ~NeverStamped(i)
                         /\ ~(idea[i].last # Nothing /\ edit[e].start <= idea[i].last)
    BY <1>0 DEF NewBody, TypeOK
  <1>7. TypeOK'
    BY <1>0, <1>1, <1>4, <1>5, <1>6 DEF TypeOK
  <1>8. RowsInStep'
    <2>1. \A k \in Idea : /\ idea'[k].body = version'[k] /\ idea'[k].st = idea[k].st
                          /\ idea'[k].active = idea[k].active
      BY <1>0, <1>3, <1>4, <1>5 DEF RowsInStep
    <2>2. \A k \in Idea : idea'[k].st = "none" => version'[k] = version[k] /\ ~idea'[k].active
      BY <1>0, <1>5, <2>1 DEF RowsInStep
    <2> QED BY <1>0, <1>1, <2>1, <2>2, RequestEnds
  <1>9. JobsOwned'
    <2>1. \A k \in Idea : LiveJobs(k)' = LiveJobs(k)
      BY <1>0 DEF LiveJobs
    <2>2. \A k \in Idea : idea'[k].st = idea[k].st
      BY <1>3, <1>4
    <2> QED BY <1>0, <2>1, <2>2 DEF IngestInv, JobsOwned
  <1>10. \A k \in Idea : PagesOf(k)' = PagesOf(k)
    BY <1>0, ShowsFrame
  <1>11. \A k \in Idea : /\ idea[k].body \in Nat /\ idea'[k].body \in Nat
                         /\ idea[k].body <= idea'[k].body
    <2>1. idea[i].body = version[i]
      BY <1>0 DEF RowsInStep
    <2>2. ASSUME NEW k \in Idea PROVE idea[k].body \in Nat /\ idea'[k].body \in Nat
      <3>1. idea[k] \in Row /\ idea'[k] \in Row
        BY <1>0, <1>4 DEF TypeOK
      <3> QED BY <3>1, Nones DEF Row
    <2> QED BY <1>0, <1>3, <1>4, <2>1, <2>2
  <1>12. OnePage'
    <2>1. \A s \in Slug : page[s] # Nothing => page[s].of \in Idea /\ page[s].body \in Nat
      BY <1>0, Nones DEF TypeOK, Page
    <2>2. \A k \in Idea : ~raced'[k] => ~raced[k]
      BY <1>6
    <2> QED BY <1>0, <1>10, <1>11, <2>1, <2>2 DEF IngestInv, OnePage
  <1>13. RunsInStep'
    <2> SUFFICES ASSUME NEW j \in Job, pc[j] \in Working
                 PROVE  LET k == jidea[j] IN
                        /\ ~raced'[k] => loaded[j] = idea'[k].body
                        /\ ~twin[j] => \A s \in Slug : page[s] # Nothing /\ page[s].of = k => page[s].body <= loaded[j]
                        /\ loaded[j] <= idea'[k].body
                        /\ pc[j] = "named" /\ ~twin[j] /\ ~raced'[k] => PagesOf(k)' \subseteq {target[j]}
                        /\ pc[j] \in {"written", "marked"} /\ idea'[k].active /\ ~raced'[k] => PageShows(k)'
      BY <1>0 DEF RunsInStep, Working
    <2>1. jidea[j] \in Idea
      BY DEF IngestInv, JobsOwned, Working
    <2>2. LET k == jidea[j] IN
          /\ ~raced[k] => loaded[j] = idea[k].body
          /\ ~twin[j] => \A s \in Slug : page[s] # Nothing /\ page[s].of = k => page[s].body <= loaded[j]
          /\ loaded[j] <= idea[k].body
          /\ pc[j] = "named" /\ ~twin[j] /\ ~raced[k] => PagesOf(k) \subseteq {target[j]}
          /\ pc[j] \in {"written", "marked"} /\ idea[k].active /\ ~raced[k] => PageShows(k)
      BY DEF IngestInv, RunsInStep, Working
    <2>3. loaded[j] \in Nat
      BY <1>0, Nones DEF TypeOK
    <2>4. loaded[j] <= idea'[jidea[j]].body
      BY <1>11, <2>1, <2>2, <2>3
    <2>5. CASE jidea[j] = i
      <3>1. raced'[i]
        BY <1>6, <2>5 DEF BeingIngested, Working
      <3> QED BY <1>0, <1>10, <2>1, <2>2, <2>4, <2>5, <3>1
    <2>6. CASE jidea[j] # i
      <3>1. idea'[jidea[j]] = idea[jidea[j]] /\ raced'[jidea[j]] = raced[jidea[j]]
        BY <1>4, <1>6, <2>1, <2>6
      <3>2. PageShows(jidea[j])' <=> PageShows(jidea[j])
        BY <1>0, <2>1, <3>1, ShowsFrame
      <3> QED BY <1>0, <1>10, <2>1, <2>2, <3>1, <3>2
    <2> QED BY <2>5, <2>6
  <1>14. CurrentOrStamped'
    <2> SUFFICES ASSUME NEW k \in Idea, idea'[k].active, idea'[k].st = "ingested", ~raced'[k]
                 PROVE  PageShows(k)' \/ (idea'[k].last # Nothing /\ idea'[k].upd > idea'[k].last)
      BY DEF CurrentOrStamped
    <2>1. CASE k = i
      <3>1. idea[i].last # Nothing /\ ~(edit[e].start <= idea[i].last)
        BY <1>3, <1>4, <1>6, <2>1 DEF NeverStamped
      <3>2. idea[i].last \in Time
        BY <1>0, <3>1 DEF Row
      <3> QED BY <1>0, <1>3, <1>4, <2>1, <3>1, <3>2, Nones DEF Time
    <2>2. CASE k # i
      <3>1. idea'[k] = idea[k] /\ raced'[k] = raced[k]
        BY <1>4, <1>6, <2>2
      <3>2. PageShows(k)' <=> PageShows(k)
        BY <1>0, <3>1, ShowsFrame
      <3> QED BY <3>1, <3>2 DEF IngestInv, CurrentOrStamped
    <2> QED BY <2>1, <2>2
  <1> QED BY <1>7, <1>8, <1>9, <1>12, <1>13, <1>14 DEF IngestInv

\* The requests of a device that has the row, or whose PATCH found it.
LEMMA EditSteps ==
  ASSUME IngestInv, NEW e \in Editor,
         EditBody(e) \/ EditLocation(e) \/ PushUpdate(e) \/ PushDelete(e)
  PROVE  IngestInv'
  <1>1. edit[e].pc # "idle" /\ idea[edit[e].idea].st # "none"
    BY DEF IngestInv, RowsInStep, EditBody, EditLocation, PushUpdate, PushDelete
  <1> QED BY <1>1, NewBodyStep, LocationSteps DEF EditBody, EditLocation, PushUpdate

\* A row appears: nothing was ever made of it.
LEMMA NewRowStep ==
  ASSUME IngestInv, NEW i \in Idea, NEW n \in Row, idea[i].st = "none",
         idea' = [idea EXCEPT ![i] = n], n.st = "pending", n.body = 1,
         version' = [version EXCEPT ![i] = 1],
         TypeOK', RowsInStep', JobsOwned',
         UNCHANGED <<page, pc, loaded, target, twin, raced>>,
         \A j \in Job : pc[j] # "idle" => jidea'[j] = jidea[j]
  PROVE  IngestInv'
  <1>0. TypeOK /\ idea'[i] = n /\ \A k \in Idea \ {i} : idea'[k] = idea[k]
    BY DEF IngestInv, TypeOK
  <1>1. idea[i].body = 0
    BY DEF IngestInv, RowsInStep
  <1>2. \A k \in Idea : PagesOf(k)' = PagesOf(k)
    BY ShowsFrame
  <1>3. \A k \in Idea \ {i} : PageShows(k)' <=> PageShows(k)
    BY <1>0, ShowsFrame
  <1>4. \A s \in Slug : page[s] # Nothing => page[s].of \in Idea /\ page[s].body \in Nat
    BY <1>0, Nones DEF TypeOK, Page
  <1>5. OnePage'
    BY <1>0, <1>1, <1>2, <1>4 DEF IngestInv, OnePage
  <1>6. \A j \in Job : pc[j] # "idle" => jidea[j] \in Idea \ {i} /\ jidea'[j] = jidea[j]
    BY DEF IngestInv, JobsOwned
  <1>7. RunsInStep'
    BY <1>0, <1>2, <1>3, <1>6 DEF IngestInv, RunsInStep
  <1>8. CurrentOrStamped'
    BY <1>0, <1>3 DEF IngestInv, CurrentOrStamped
  <1> QED BY <1>5, <1>7, <1>8 DEF IngestInv

LEMMA CaptureStep ==
  ASSUME IngestInv, NEW i \in Idea, NEW j \in Job, Capture(i, j)
  PROVE  IngestInv'
  <1> DEFINE n == [st |-> "pending", body |-> 1, upd |-> Now, last |-> Nothing, active |-> TRUE]
  <1>0. /\ TypeOK /\ RowsInStep /\ JobsOwned /\ idea[i].st = "none" /\ Tick
        /\ phase[j] = "absent" /\ phase' = [k \in Job |-> IF k \in {j} THEN "waiting" ELSE phase[k]]
        /\ jidea' = [jidea EXCEPT ![j] = i]
        /\ version' = [version EXCEPT ![i] = 1]
        /\ UNCHANGED <<page, pc, loaded, target, edit, scan, twin, raced>>
    BY DEF IngestInv, Capture, Queue!Appear
  <1>1. Now \in Time /\ clock' \in Time /\ 1 \in 0..MaxBody
    BY <1>0, TickTime, IngestAssumption
  <1>2. n \in Row
    BY <1>1 DEF Row
  <1>3. n.st = "pending" /\ n.body = 1
    OBVIOUS
  <1>4. idea' = [idea EXCEPT ![i] = n]
    BY DEF Capture
  <1> HIDE DEF n
  <1>5. idea' \in [Idea -> Row] /\ idea'[i] = n /\ \A k \in Idea \ {i} : idea'[k] = idea[k]
    BY <1>0, <1>2, <1>4 DEF TypeOK
  <1>6. /\ phase' \in [Job -> Queue!Phase] /\ phase'[j] = "waiting"
        /\ \A k \in Job \ {j} : phase'[k] = phase[k]
        /\ jidea' \in [Job -> Idea \cup {Nothing}] /\ jidea'[j] = i
        /\ \A k \in Job \ {j} : jidea'[k] = jidea[k]
    BY <1>0 DEF TypeOK, Queue!Phase
  <1>7. /\ version' \in [Idea -> 0..MaxBody] /\ version'[i] = 1
        /\ \A k \in Idea \ {i} : version'[k] = version[k]
    BY <1>0, <1>1 DEF TypeOK
  <1>8. TypeOK'
    BY <1>0, <1>1, <1>5, <1>6, <1>7 DEF TypeOK
  <1>9. RowsInStep'
    <2>1. \A k \in Idea : idea[k].st # "none" => idea'[k].st # "none"
      BY <1>3, <1>5
    <2> QED BY <1>0, <1>3, <1>5, <1>7, <2>1, ScansKept DEF RowsInStep, TypeOK
  <1>10. JobsOwned'
    <2>1. \A k \in Job : phase[k] # "absent" => k # j /\ jidea[k] # i
      BY <1>0 DEF JobsOwned
    <2>2. LiveJobs(i)' \subseteq {j}
      BY <1>6, <2>1 DEF LiveJobs
    <2>3. \A k \in Idea \ {i} : LiveJobs(k)' \subseteq LiveJobs(k)
      BY <1>6 DEF LiveJobs
    <2>4. \A k \in Idea : \A a, b \in LiveJobs(k)' : a = b \/ twin'[a]
      <3>1. \A a, b \in LiveJobs(i)' : a = b
        BY <2>2
      <3>2. ASSUME NEW k \in Idea \ {i}, NEW a \in LiveJobs(k)', NEW b \in LiveJobs(k)'
            PROVE  a = b \/ twin'[a]
        BY <1>0, <2>3 DEF JobsOwned
      <3> QED BY <3>1, <3>2
    <2>5. \A k \in Job : /\ phase'[k] # "absent" => jidea'[k] \in Idea /\ idea'[jidea'[k]].st # "none"
                         /\ phase'[k] # "running" => pc[k] = "idle"
                         /\ pc[k] = "named" => target[k] \in Slug
      BY <1>0, <1>3, <1>5, <1>6, <2>1 DEF JobsOwned
    <2> QED BY <1>0, <2>4, <2>5 DEF JobsOwned
  <1>11. \A k \in Job : pc[k] # "idle" => jidea'[k] = jidea[k]
    BY <1>0, <1>6 DEF JobsOwned
  <1> QED BY <1>0, <1>2, <1>3, <1>4, <1>8, <1>9, <1>10, <1>11, NewRowStep

LEMMA PushCreateStep ==
  ASSUME IngestInv, NEW e \in Editor, PushCreate(e)
  PROVE  IngestInv'
  <1> DEFINE i == edit[e].idea
             n == [st |-> "pending", body |-> 1, upd |-> edit[e].start,
                   last |-> Nothing, active |-> TRUE]
  <1>0. /\ TypeOK /\ RowsInStep /\ JobsOwned /\ i \in Idea /\ edit[e].start \in Time
        /\ 1 \in 0..MaxBody /\ edit' = [edit EXCEPT ![e] = NoEdit]
        /\ UNCHANGED <<phase, jidea, page, pc, loaded, target, scan, clock, twin, raced>>
    BY IngestAssumption DEF IngestInv, TypeOK, RowsInStep, Edit, PushCreate
  <1>1. edit' \in [Editor -> Edit] /\ edit'[e] = NoEdit /\ \A d \in Editor \ {e} : edit'[d] = edit[d]
    BY <1>0, Nones DEF TypeOK
  <1>2. CASE idea[i].st = "none"
    <2>1. n \in Row
      BY <1>0 DEF Row
    <2>2. n.st = "pending" /\ n.body = 1
      OBVIOUS
    <2>3. idea' = [idea EXCEPT ![i] = n] /\ version' = [version EXCEPT ![i] = 1]
      BY <1>2 DEF PushCreate
    <2> HIDE DEF n
    <2>4. idea' \in [Idea -> Row] /\ idea'[i] = n /\ \A k \in Idea \ {i} : idea'[k] = idea[k]
      BY <1>0, <2>1, <2>3 DEF TypeOK
    <2>5. /\ version' \in [Idea -> 0..MaxBody] /\ version'[i] = 1
          /\ \A k \in Idea \ {i} : version'[k] = version[k]
      BY <1>0, <2>3 DEF TypeOK
    <2>6. TypeOK'
      BY <1>0, <1>1, <2>4, <2>5 DEF TypeOK
    <2>7. RowsInStep'
      <3>1. \A k \in Idea : /\ idea'[k].body = version'[k]
                            /\ idea[k].st # "none" => idea'[k].st # "none"
        BY <1>0, <2>2, <2>4, <2>5 DEF RowsInStep
      <3>2. \A k \in Idea : idea'[k].st = "none" => version'[k] = version[k] /\ ~idea'[k].active
        BY <1>0, <2>2, <2>4, <2>5 DEF RowsInStep
      <3> QED BY <1>0, <1>1, <3>1, <3>2, RequestEnds
    <2>8. JobsOwned'
      <3>1. \A k \in Idea : LiveJobs(k)' = LiveJobs(k)
        BY <1>0 DEF LiveJobs
      <3>2. \A k \in Idea : idea[k].st # "none" => idea'[k].st # "none"
        BY <2>2, <2>4
      <3> QED BY <1>0, <3>1, <3>2 DEF JobsOwned
    <2> QED BY <1>0, <1>2, <2>1, <2>2, <2>3, <2>6, <2>7, <2>8, NewRowStep
  <1>3. CASE idea[i].st # "none"
    <2>1. UNCHANGED <<idea, version>>
      BY <1>3 DEF PushCreate
    <2>2. TypeOK'
      BY <1>0, <1>1, <2>1 DEF TypeOK
    <2>3. RowsInStep'
      BY <1>0, <1>1, <2>1, Nones DEF RowsInStep
    <2> QED BY <1>0, <2>1, <2>2, <2>3, QuietStep
  <1> QED BY <1>2, <1>3

\* A step of jobs and handlers that writes neither row nor page.
LEMMA JobStep ==
  ASSUME IngestInv, TypeOK', JobsOwned', RunsInStep',
         UNCHANGED <<idea, page, edit, version, raced>>,
         \A d \in Digest : scan'[d] = scan[d] \/ scan'[d] = Nothing
  PROVE  IngestInv'
  <1>1. RowsInStep'
    BY DEF IngestInv, RowsInStep
  <1>2. OnePage'
    BY DEF IngestInv, OnePage, PagesOf
  <1>3. CurrentOrStamped'
    BY DEF IngestInv, CurrentOrStamped, PagesOf, PageShows
  <1> QED BY <1>1, <1>2, <1>3 DEF IngestInv

\* The commit: a capture that has a live job gets a second one only as its twin.
LEMMA DigestStep ==
  ASSUME IngestInv, NEW d \in Digest, DigestCommit(d)
  PROVE  IngestInv'
  <1> DEFINE need == scan[d].need
  <1>0. /\ TypeOK /\ RowsInStep /\ JobsOwned /\ scan[d] # Nothing
        /\ scan' = [scan EXCEPT ![d] = Nothing]
        /\ UNCHANGED <<idea, page, pc, loaded, target, edit, version, clock, raced>>
    BY DEF IngestInv, DigestCommit
  <1>1. need \subseteq Idea /\ \A i \in need : idea[i].st # "none"
    BY <1>0, ScanIdeas DEF RowsInStep
  <1>2. PICK f \in [need -> FreeJobs] :
          /\ \A a, b \in need : f[a] = f[b] => a = b
          /\ LET new == {f[i] : i \in need} IN
             /\ IF new = {} THEN UNCHANGED phase ELSE Queue!Appear(new)
             /\ jidea' = [j \in Job |-> IF j \in new THEN CHOOSE i \in need : f[i] = j ELSE jidea[j]]
          /\ twin' = [j \in Job |->
                        twin[j] \/ \E i \in need : LiveJobs(i) # {} /\ j \in LiveJobs(i) \cup {f[i]}]
    BY DEF DigestCommit
  <1> DEFINE new == {f[i] : i \in need}
  <1>3. new \subseteq Job /\ \A j \in new : phase[j] = "absent"
    BY <1>2 DEF FreeJobs
  <1>4. \A j \in Job : phase'[j] = IF j \in new THEN "waiting" ELSE phase[j]
    BY <1>2 DEF Queue!Appear
  <1>5. phase' \in [Job -> Queue!Phase]
    <2>1. CASE new = {}
      BY <1>0, <1>2, <2>1 DEF TypeOK
    <2>2. CASE new # {}
      <3>1. phase' = [j \in Job |-> IF j \in new THEN "waiting" ELSE phase[j]]
        BY <1>2, <2>2 DEF Queue!Appear
      <3>2. \A j \in Job : phase[j] \in Queue!Phase
        BY <1>0 DEF TypeOK
      <3>3. "waiting" \in Queue!Phase
        BY DEF Queue!Phase
      <3> HIDE DEF new
      <3> QED BY <3>1, <3>2, <3>3
    <2> QED BY <2>1, <2>2
  <1>6. ASSUME NEW j \in new PROVE jidea'[j] \in need /\ f[jidea'[j]] = j
    <2>1. \E i \in need : f[i] = j
      BY <1>6
    <2>2. jidea'[j] = CHOOSE i \in need : f[i] = j
      BY <1>2, <1>3
    <2> HIDE DEF need
    <2> QED BY <2>1, <2>2
  <1>7. \A j \in Job \ new : jidea'[j] = jidea[j]
    BY <1>2
  <1>8. jidea' \in [Job -> Idea \cup {Nothing}]
    <2>1. jidea' = [j \in Job |-> jidea'[j]]
      BY <1>2
    <2>2. \A j \in Job : jidea'[j] \in Idea \cup {Nothing}
      BY <1>0, <1>1, <1>6, <1>7 DEF TypeOK
    <2> QED BY <2>1, <2>2
  <1>12. \A i \in need : i \in Idea /\ idea[i].st # "none"
    BY <1>1
  <1>13. /\ scan' \in [Digest -> Scan \cup {Nothing}]
         /\ \A c \in Digest : scan'[c] = scan[c] \/ scan'[c] = Nothing
    BY <1>0 DEF TypeOK
  <1>14. /\ twin' \in [Job -> BOOLEAN] /\ \A j \in Job : twin[j] => twin'[j]
         /\ \A i \in need : LiveJobs(i) # {} => \A j \in Job : j \in LiveJobs(i) \cup {f[i]} => twin'[j]
    BY <1>0, <1>2 DEF TypeOK
  <1> HIDE DEF need, new
  <1>9. TypeOK'
    BY <1>0, <1>5, <1>8, <1>13, <1>14 DEF TypeOK
  <1>10. JobsOwned'
    <2>1. ASSUME NEW i \in Idea, NEW j \in LiveJobs(i)', NEW k \in LiveJobs(i)'
          PROVE  j = k \/ twin'[j]
      <3>1. j \in Job /\ k \in Job /\ jidea'[j] = i /\ jidea'[k] = i
            /\ phase'[j] \in {"waiting", "running"} /\ phase'[k] \in {"waiting", "running"}
        BY DEF LiveJobs
      <3>2. j \notin new => j \in LiveJobs(i)
        BY <1>4, <1>7, <3>1 DEF LiveJobs
      <3>3. k \notin new => k \in LiveJobs(i)
        BY <1>4, <1>7, <3>1 DEF LiveJobs
      <3>5. /\ j \in new => i \in need /\ f[i] = j
            /\ k \in new => i \in need /\ f[i] = k
        BY <1>6, <3>1
      <3>6. CASE j \in new /\ k \in new
        BY <3>5, <3>6
      <3>7. CASE j \notin new /\ k \notin new
        BY <1>0, <1>14, <3>1, <3>2, <3>3, <3>7 DEF JobsOwned
      <3>8. CASE j \in new /\ k \notin new
        BY <1>14, <3>1, <3>3, <3>5, <3>8
      <3>9. CASE j \notin new /\ k \in new
        BY <1>14, <3>1, <3>2, <3>5, <3>9
      <3> QED BY <3>6, <3>7, <3>8, <3>9
    <2>2. ASSUME NEW j \in Job
          PROVE  /\ phase'[j] # "absent" => jidea'[j] \in Idea /\ idea[jidea'[j]].st # "none"
                 /\ phase'[j] # "running" => pc[j] = "idle"
                 /\ pc[j] = "named" => target[j] \in Slug
      BY <1>0, <1>3, <1>4, <1>6, <1>7, <1>12 DEF JobsOwned
    <2> QED BY <1>0, <2>1, <2>2 DEF JobsOwned
  <1>11. RunsInStep'
    <2>1. \A j \in Job : pc[j] \in Working => jidea'[j] = jidea[j]
      BY <1>0, <1>3, <1>7 DEF JobsOwned, Working
    <2>2. \A j \in Job : ~twin'[j] => ~twin[j]
      BY <1>14
    <2> QED BY <1>0, <2>1, <2>2 DEF IngestInv, RunsInStep, Working, PagesOf, PageShows
  <1> QED BY <1>0, <1>9, <1>10, <1>11, <1>13, JobStep

\* Job j after such a step: its phase, its place, what it read and its page.
Moved(j, p, q, l, t) ==
    /\ phase' = [phase EXCEPT ![j] = p] /\ pc' = [pc EXCEPT ![j] = q]
    /\ loaded' = [loaded EXCEPT ![j] = l] /\ target' = [target EXCEPT ![j] = t]
    /\ phase[j] \in {"waiting", "running"}
    /\ p # "absent" /\ (p # "running" => q = "idle")
    /\ q \in {"idle", "claimed", "loaded", "named"}
    /\ q \in {"loaded", "named"} => jidea[j] \in Idea
    /\ q = "loaded" => l = idea[jidea[j]].body
    /\ q = "named" => /\ pc[j] = "loaded" /\ l = loaded[j]
                      /\ t \in Slug /\ (PagesOf(jidea[j]) = {} \/ t \in PagesOf(jidea[j]))

\* The handler is claimed, reads, names its page, or is gone.
LEMMA HandlerSteps ==
  ASSUME IngestInv, NEW j \in Job,
         \/ Claim(j) \/ Load(j) \/ Complete(j) \/ RunFails(j)
         \/ \E s \in Slug : ChooseSlug(j, s)
  PROVE  IngestInv'
  <1>0. /\ TypeOK /\ JobsOwned /\ OnePage /\ RowsInStep /\ RunsInStep
        /\ UNCHANGED <<jidea, idea, page, edit, scan, version, clock, twin, raced>>
    BY DEF IngestInv, Claim, Load, Complete, RunFails, ChooseSlug
  <1>1. \E p \in Queue!Phase, q \in PCs, l \in 0..MaxBody, t \in Slug \cup {Nothing} :
          Moved(j, p, q, l, t)
    <2>0. /\ phase[j] \in Queue!Phase /\ loaded[j] \in 0..MaxBody /\ target[j] \in Slug \cup {Nothing}
          /\ phase = [phase EXCEPT ![j] = phase[j]] /\ loaded = [loaded EXCEPT ![j] = loaded[j]]
          /\ target = [target EXCEPT ![j] = target[j]]
          /\ 0 \in 0..MaxBody
      BY <1>0, Nones DEF TypeOK
    <2>1. CASE Claim(j)
      <3>1. /\ phase[j] = "waiting" /\ phase' = [phase EXCEPT ![j] = "running"]
            /\ pc' = [pc EXCEPT ![j] = "claimed"] /\ loaded' = loaded /\ target' = target
        BY <2>1 DEF Claim, Goto, Queue!Start, Queue!Move
      <3>2. "running" \in Queue!Phase /\ "claimed" \in PCs
        BY DEF Queue!Phase, PCs
      <3>3. Moved(j, "running", "claimed", loaded[j], target[j])
        BY <2>0, <3>1 DEF Moved
      <3> QED BY <2>0, <3>2, <3>3
    <2>2. CASE Load(j)
      <3>1. /\ phase[j] = "running" /\ phase' = phase /\ jidea[j] \in Idea
            /\ pc' = [pc EXCEPT ![j] = "loaded"]
            /\ loaded' = [loaded EXCEPT ![j] = idea[jidea[j]].body] /\ target' = target
        BY <1>0, <2>2 DEF Load, At, Goto, JobsOwned
      <3>2. idea[jidea[j]].body \in 0..MaxBody
        BY <1>0, <3>1 DEF TypeOK, Row
      <3>3. "loaded" \in PCs
        BY DEF PCs
      <3>4. Moved(j, phase[j], "loaded", idea[jidea[j]].body, target[j])
        BY <2>0, <3>1 DEF Moved
      <3> QED BY <2>0, <3>2, <3>3, <3>4
    <2>3. ASSUME NEW s \in Slug, ChooseSlug(j, s)
          PROVE  "named" \in PCs /\ Moved(j, phase[j], "named", loaded[j], s)
      <3>1. /\ phase[j] = "running" /\ phase' = phase /\ jidea[j] \in Idea /\ pc[j] = "loaded"
            /\ pc' = [pc EXCEPT ![j] = "named"]
            /\ loaded' = loaded /\ target' = [target EXCEPT ![j] = s]
            /\ PagesOf(jidea[j]) = {} \/ s \in PagesOf(jidea[j])
        BY <1>0, <2>3 DEF ChooseSlug, At, Goto, JobsOwned
      <3> QED BY <2>0, <3>1 DEF Moved, PCs
    <2>4. CASE Complete(j) \/ RunFails(j)
      <3>1. /\ phase[j] = "running" /\ pc' = [pc EXCEPT ![j] = "idle"]
            /\ loaded' = [loaded EXCEPT ![j] = 0] /\ target' = [target EXCEPT ![j] = Nothing]
            /\ \E x \in {"done", "failed", "waiting"} : phase' = [phase EXCEPT ![j] = x]
        BY <2>4 DEF Complete, RunFails, HandlerGone, At, Goto, Queue!Return, Queue!Move
      <3>2. "idle" \in PCs /\ {"done", "failed", "waiting"} \subseteq Queue!Phase
        BY DEF PCs, Queue!Phase
      <3>3. PICK x \in {"done", "failed", "waiting"} : phase' = [phase EXCEPT ![j] = x]
        BY <3>1
      <3>4. Moved(j, x, "idle", 0, Nothing)
        BY <3>1, <3>3 DEF Moved
      <3> QED BY <2>0, <3>2, <3>3, <3>4
    <2>5. CASE \E s \in Slug : ChooseSlug(j, s)
      BY <2>0, <2>3, <2>5
    <2> QED BY <2>1, <2>2, <2>4, <2>5
  <1>7. PICK p \in Queue!Phase, q \in PCs, l \in 0..MaxBody, t \in Slug \cup {Nothing} :
          Moved(j, p, q, l, t)
    BY <1>1
  <1>2. /\ phase' \in [Job -> Queue!Phase] /\ phase'[j] = p /\ \A k \in Job \ {j} : phase'[k] = phase[k]
        /\ pc' \in [Job -> PCs] /\ pc'[j] = q /\ \A k \in Job \ {j} : pc'[k] = pc[k]
    BY <1>0, <1>7 DEF TypeOK, PCs, Moved
  <1>3. /\ loaded' \in [Job -> 0..MaxBody] /\ loaded'[j] = l
        /\ \A k \in Job \ {j} : loaded'[k] = loaded[k]
        /\ target' \in [Job -> Slug \cup {Nothing}] /\ target'[j] = t
        /\ \A k \in Job \ {j} : target'[k] = target[k]
    BY <1>0, <1>7 DEF TypeOK, Moved
  <1>4. TypeOK'
    BY <1>0, <1>2, <1>3 DEF TypeOK, PCs
  <1>5. JobsOwned'
    <2>1. \A i \in Idea : LiveJobs(i)' \subseteq LiveJobs(i)
      BY <1>0, <1>7, <1>2 DEF LiveJobs, Moved
    <2>2. ASSUME NEW k \in Job
          PROVE  /\ phase'[k] # "absent" => jidea[k] \in Idea /\ idea[jidea[k]].st # "none"
                 /\ phase'[k] # "running" => pc'[k] = "idle"
                 /\ pc'[k] = "named" => target'[k] \in Slug
      BY <1>0, <1>7, <1>2, <1>3 DEF JobsOwned, Moved
    <2> QED BY <1>0, <2>1, <2>2 DEF JobsOwned
  <1>6. RunsInStep'
    <2> SUFFICES ASSUME NEW k \in Job, pc'[k] \in Working
                 PROVE  LET i == jidea[k] IN
                        /\ ~raced[i] => loaded'[k] = idea[i].body
                        /\ ~twin[k] => \A s \in Slug : page[s] # Nothing /\ page[s].of = i => page[s].body <= loaded'[k]
                        /\ loaded'[k] <= idea[i].body
                        /\ pc'[k] = "named" /\ ~twin[k] /\ ~raced[i] => PagesOf(i) \subseteq {target'[k]}
                        /\ pc'[k] \in {"written", "marked"} /\ idea[i].active /\ ~raced[i] => PageShows(i)
      BY <1>0 DEF RunsInStep, Working, PagesOf, PageShows
    <2>1. CASE k # j
      BY <1>0, <1>2, <1>3, <2>1 DEF RunsInStep, Working
    <2>2. CASE k = j /\ q = "loaded"
      <3>1. idea[jidea[j]].body \in Nat
        BY <1>0, <1>7, <2>2, Nones DEF TypeOK, Row, Moved
      <3>2. \A s \in Slug : page[s] # Nothing /\ page[s].of = jidea[j] => page[s].body <= idea[jidea[j]].body
        BY <1>0 DEF OnePage
      <3> QED BY <1>7, <1>2, <1>3, <2>2, <3>1, <3>2 DEF Moved
    <2>3. CASE k = j /\ q = "named"
      <3>1. ~raced[jidea[j]] => PagesOf(jidea[j]) \subseteq {t}
        BY <1>0, <1>7, <2>3 DEF OnePage, Moved
      <3> QED BY <1>0, <1>7, <1>2, <1>3, <2>3, <3>1 DEF RunsInStep, Moved
    <2> QED BY <1>7, <1>2, <2>1, <2>2, <2>3 DEF Working, Moved
  <1> QED BY <1>0, <1>4, <1>5, <1>6, JobStep

\* What a page of k shows, when the pages k contributed to stay as they are.
LEMMA ShowsKept ==
  ASSUME NEW k \in Idea, PagesOf(k)' = PagesOf(k), \A s \in PagesOf(k) : page'[s] = page[s],
         idea'[k].body = idea[k].body
  PROVE  PageShows(k) => PageShows(k)'
  BY DEF PageShows

\* A deletion takes the capture's pages; who shared one was raced.
LEMMA DeleteStep ==
  ASSUME IngestInv, NEW i \in Idea, Delete(i)
  PROVE  IngestInv'
  <1> DEFINE n == [idea[i] EXCEPT !.active = FALSE, !.upd = Now]
  <1>0. /\ TypeOK /\ RowsInStep /\ JobsOwned /\ Tick /\ idea[i] \in Row
        /\ page' = [s \in Slug |-> IF s \in PagesOf(i) THEN Nothing ELSE page[s]]
        /\ raced' = [k \in Idea |-> raced[k] \/ (k # i /\ PagesOf(k) \cap PagesOf(i) # {})]
        /\ UNCHANGED <<phase, jidea, pc, loaded, target, edit, scan, version, twin>>
    BY DEF IngestInv, TypeOK, Delete
  <1>1. Now \in Time /\ clock' \in Time
    BY <1>0, TickTime
  <1>2. idea' = [idea EXCEPT ![i] = n]
    BY <1>0 DEF Delete, TypeOK
  <1>3. n \in Row /\ n.st = idea[i].st /\ n.body = idea[i].body /\ n.active = FALSE
    BY <1>0, <1>1 DEF Row
  <1> HIDE DEF n
  <1>4. idea' \in [Idea -> Row] /\ idea'[i] = n /\ \A k \in Idea \ {i} : idea'[k] = idea[k]
    BY <1>0, <1>2, <1>3 DEF TypeOK
  <1>5. \A k \in Idea : /\ idea'[k].st = idea[k].st /\ idea'[k].body = idea[k].body
                        /\ idea'[k].active => idea[k].active
    BY <1>3, <1>4
  <1>6. /\ \A s \in Slug : page'[s] # Nothing => page'[s] = page[s] /\ s \notin PagesOf(i)
        /\ \A k \in Idea : PagesOf(k)' = PagesOf(k) \ PagesOf(i)
    BY <1>0 DEF PagesOf
  <1>7. TypeOK'
    <2>1. page' \in [Slug -> Page \cup {Nothing}]
      BY <1>0 DEF TypeOK
    <2>2. raced' \in [Idea -> BOOLEAN]
      BY <1>0 DEF TypeOK
    <2> QED BY <1>0, <1>1, <1>4, <2>1, <2>2 DEF TypeOK
  <1>8. RowsInStep'
    BY <1>0, <1>5, ScansKept DEF RowsInStep, TypeOK
  <1>9. JobsOwned'
    <2>1. \A k \in Idea : LiveJobs(k)' = LiveJobs(k)
      BY <1>0 DEF LiveJobs
    <2> QED BY <1>0, <1>5, <2>1 DEF JobsOwned
  <1>10. \A k \in Idea : ~raced'[k] => ~raced[k] /\ (k = i \/ PagesOf(k) \cap PagesOf(i) = {})
    BY <1>0
  <1>11. OnePage'
    <2>1. \A s \in Slug : page[s] # Nothing => page[s].of \in Idea
      BY <1>0 DEF TypeOK, Page
    <2>2. \A s \in Slug : page'[s] # Nothing =>
            page'[s].of \in page'[s].src /\ page'[s].body <= idea'[page'[s].of].body
      BY <1>5, <1>6, <2>1 DEF IngestInv, OnePage
    <2>3. ASSUME NEW k \in Idea, ~raced'[k], NEW s \in PagesOf(k)', NEW t \in PagesOf(k)'
          PROVE  s = t /\ page'[s].of = k
      <3>1. s \in PagesOf(k) /\ t \in PagesOf(k) /\ s \in Slug /\ page'[s] = page[s]
        BY <1>0, <1>6 DEF PagesOf
      <3> QED BY <1>10, <2>3, <3>1 DEF IngestInv, OnePage
    <2> QED BY <2>2, <2>3 DEF OnePage
  <1>12. ASSUME NEW k \in Idea, idea'[k].active, ~raced'[k], PageShows(k)
         PROVE  PageShows(k)'
    <2>1. k # i
      BY <1>3, <1>4, <1>12
    <2>2. PagesOf(k) \cap PagesOf(i) = {}
      BY <1>10, <1>12, <2>1
    <2>3. PagesOf(k)' = PagesOf(k) /\ \A s \in PagesOf(k) : page'[s] = page[s]
      BY <1>0, <1>6, <2>2 DEF PagesOf
    <2> QED BY <1>5, <1>12, <2>3, ShowsKept
  <1>13. RunsInStep'
    <2> SUFFICES ASSUME NEW j \in Job, pc[j] \in Working
                 PROVE  /\ ~raced'[jidea[j]] => loaded[j] = idea'[jidea[j]].body
                        /\ ~twin[j] => \A s \in Slug : page'[s] # Nothing /\ page'[s].of = jidea[j] =>
                                           page'[s].body <= loaded[j]
                        /\ loaded[j] <= idea'[jidea[j]].body
                        /\ pc[j] = "named" /\ ~twin[j] /\ ~raced'[jidea[j]] => PagesOf(jidea[j])' \subseteq {target[j]}
                        /\ pc[j] \in {"written", "marked"} /\ idea'[jidea[j]].active /\ ~raced'[jidea[j]]
                             => PageShows(jidea[j])'
      BY <1>0 DEF RunsInStep, Working
    <2>1. PICK k \in Idea : k = jidea[j]
      BY DEF IngestInv, JobsOwned, Working
    <2>2. /\ ~raced[k] => loaded[j] = idea[k].body
          /\ ~twin[j] => \A s \in Slug : page[s] # Nothing /\ page[s].of = k => page[s].body <= loaded[j]
          /\ loaded[j] <= idea[k].body
          /\ pc[j] = "named" /\ ~twin[j] /\ ~raced[k] => PagesOf(k) \subseteq {target[j]}
          /\ pc[j] \in {"written", "marked"} /\ idea[k].active /\ ~raced[k] => PageShows(k)
      BY <2>1 DEF IngestInv, RunsInStep, Working
    <2>3. /\ ~raced'[k] => loaded[j] = idea'[k].body
          /\ ~twin[j] => \A s \in Slug : page'[s] # Nothing /\ page'[s].of = k => page'[s].body <= loaded[j]
          /\ loaded[j] <= idea'[k].body
          /\ pc[j] = "named" /\ ~twin[j] /\ ~raced'[k] => PagesOf(k)' \subseteq {target[j]}
          /\ pc[j] \in {"written", "marked"} /\ idea'[k].active /\ ~raced'[k] => PageShows(k)'
      BY <1>5, <1>6, <1>10, <1>12, <2>2
    <2> QED BY <1>0, <2>1, <2>3
  <1>14. CurrentOrStamped'
    <2> SUFFICES ASSUME NEW k \in Idea, idea'[k].active, idea'[k].st = "ingested", ~raced'[k]
                 PROVE  PageShows(k)' \/ (idea'[k].last # Nothing /\ idea'[k].upd > idea'[k].last)
      BY DEF CurrentOrStamped
    <2>1. k # i /\ idea'[k] = idea[k] /\ ~raced[k]
      BY <1>3, <1>4, <1>10
    <2>2. PageShows(k) \/ (idea[k].last # Nothing /\ idea[k].upd > idea[k].last)
      BY <2>1 DEF IngestInv, CurrentOrStamped
    <2> QED BY <1>12, <2>1, <2>2
  <1> QED BY <1>7, <1>8, <1>9, <1>11, <1>13, <1>14 DEF IngestInv

\* The page is written: unless the run has a twin, it is the only one of its
\* capture, and nothing on it is newer than what the run read.
LEMMA WriteSourceStep ==
  ASSUME IngestInv, NEW j \in Job, WriteSource(j)
  PROVE  /\ IngestInv'
         /\ ~twin[j] => \A s \in Slug : page[s] # Nothing /\ page'[s].of = page[s].of =>
                                         page'[s].body >= page[s].body
  <1> DEFINE old == IF page[target[j]] = Nothing THEN {} ELSE page[target[j]].src
             n == [of |-> jidea[j], body |-> loaded[j], src |-> old \cup {jidea[j]}]
  <1>0. /\ TypeOK /\ RowsInStep /\ JobsOwned /\ phase[j] = "running" /\ pc[j] = "named"
        /\ page' = [page EXCEPT ![target[j]] = n]
        /\ raced' = [k \in Idea |->
                       \/ raced[k] \/ (k \in old /\ k # jidea[j])
                       \/ k = jidea[j] /\ twin[j] /\ PagesOf(jidea[j]) \ {target[j]} # {}]
        /\ pc' = [pc EXCEPT ![j] = "written"]
        /\ UNCHANGED <<phase, jidea, idea, loaded, target, edit, scan, version, clock, twin>>
    BY DEF IngestInv, WriteSource, At, Goto
  <1>1. PICK i \in Idea, s \in Slug : i = jidea[j] /\ s = target[j]
    BY <1>0 DEF JobsOwned
  <1>2. /\ ~raced[i] => loaded[j] = idea[i].body
        /\ ~twin[j] => \A x \in Slug : page[x] # Nothing /\ page[x].of = i => page[x].body <= loaded[j]
        /\ loaded[j] <= idea[i].body
        /\ ~twin[j] /\ ~raced[i] => PagesOf(i) \subseteq {s}
    BY <1>0, <1>1 DEF IngestInv, RunsInStep
  <1>3. /\ loaded[j] \in 0..MaxBody /\ old \in SUBSET Idea
    BY <1>0, <1>1 DEF TypeOK, Page
  <1>4. \A k \in Idea : k \in old <=> s \in PagesOf(k)
    BY <1>1 DEF PagesOf
  <1> HIDE DEF old
  <1>5. /\ n \in Page /\ n.of = i /\ n.body = loaded[j] /\ n.src = old \cup {i}
    BY <1>1, <1>3 DEF Page
  <1>6. n # Nothing
    BY <1>5, IngestAssumption
  <1> HIDE DEF n
  <1>7. /\ page' \in [Slug -> Page \cup {Nothing}] /\ page'[s] = n
        /\ \A x \in Slug \ {s} : page'[x] = page[x]
    BY <1>0, <1>1, <1>5 DEF TypeOK
  <1>8. /\ raced' \in [Idea -> BOOLEAN]
        /\ \A k \in Idea : ~raced'[k] => ~raced[k] /\ (k = i \/ k \notin old)
        /\ ~raced'[i] => PagesOf(i) \subseteq {s}
    <2>1. raced' \in [Idea -> BOOLEAN]
      BY <1>0 DEF TypeOK
    <2>2. ASSUME NEW k \in Idea, ~raced'[k] PROVE ~raced[k] /\ (k = i \/ k \notin old)
      BY <1>0, <1>1, <2>2
    <2>3. ~raced'[i] => PagesOf(i) \subseteq {s}
      BY <1>0, <1>1, <1>2
    <2> QED BY <2>1, <2>2, <2>3
  <1>9. /\ pc' \in [Job -> PCs] /\ pc'[j] = "written" /\ \A m \in Job \ {j} : pc'[m] = pc[m]
    BY <1>0 DEF TypeOK, PCs
  <1>10. /\ PagesOf(i)' = PagesOf(i) \cup {s} /\ (~raced'[i] => PagesOf(i)' = {s})
         /\ \A k \in Idea \ {i} : PagesOf(k)' = PagesOf(k)
    <2>1. ASSUME NEW k \in Idea, NEW x \in Slug
          PROVE  x \in PagesOf(k)' <=> IF x = s THEN k \in old \cup {i} ELSE x \in PagesOf(k)
      BY <1>5, <1>6, <1>7 DEF PagesOf
    <2>2. \A k \in Idea : PagesOf(k) \subseteq Slug /\ PagesOf(k)' \subseteq Slug
      BY DEF PagesOf
    <2>3. PagesOf(i)' = PagesOf(i) \cup {s}
      BY <2>1, <2>2
    <2>5. ~raced'[i] => PagesOf(i)' = {s}
      BY <1>8, <2>3
    <2>4. ASSUME NEW k \in Idea \ {i} PROVE PagesOf(k)' = PagesOf(k)
      BY <1>4, <2>1, <2>2
    <2> QED BY <2>3, <2>4, <2>5
  <1>11. TypeOK'
    BY <1>0, <1>7, <1>8, <1>9 DEF TypeOK, PCs
  <1>12. RowsInStep'
    BY <1>0 DEF RowsInStep
  <1>13. JobsOwned'
    <2>1. \A k \in Idea : LiveJobs(k)' = LiveJobs(k)
      BY <1>0 DEF LiveJobs
    <2> QED BY <1>0, <1>9, <2>1 DEF JobsOwned
  <1>14. ~raced'[i] => PageShows(i)'
    <2>1. ~raced'[i] => page'[s].of = i /\ page'[s].body = idea[i].body
      BY <1>2, <1>5, <1>7, <1>8
    <2> QED BY <1>0, <1>10, <2>1 DEF PageShows
  <1>15. ASSUME NEW k \in Idea \ {i}, ~raced'[k], PageShows(k)
         PROVE  PageShows(k)'
    <2>1. s \notin PagesOf(k)
      BY <1>4, <1>8, <1>15
    <2>2. \A x \in PagesOf(k) : page'[x] = page[x]
      BY <1>7, <2>1 DEF PagesOf
    <2> QED BY <1>0, <1>10, <1>15, <2>2, ShowsKept
  <1>16. OnePage'
    <2>1. \A x \in Slug : page'[x] # Nothing =>
            page'[x].of \in page'[x].src /\ page'[x].body <= idea[page'[x].of].body
      BY <1>2, <1>5, <1>7 DEF IngestInv, OnePage
    <2>2. ASSUME NEW k \in Idea, ~raced'[k], NEW x \in PagesOf(k)', NEW y \in PagesOf(k)'
          PROVE  x = y /\ page'[x].of = k
      <3>1. CASE k = i
        BY <1>5, <1>7, <1>10, <2>2, <3>1
      <3>2. CASE k # i
        <4>1. x \in PagesOf(k) /\ y \in PagesOf(k) /\ x \in Slug
          BY <1>10, <3>2 DEF PagesOf
        <4>2. ~raced[k] /\ x # s
          BY <1>4, <1>8, <2>2, <3>2, <4>1
        <4> QED BY <1>7, <4>1, <4>2 DEF IngestInv, OnePage
      <3> QED BY <3>1, <3>2
    <2> QED BY <1>0, <2>1, <2>2 DEF OnePage
  <1>17. RunsInStep'
    <2> SUFFICES ASSUME NEW m \in Job, pc'[m] \in Working
                 PROVE  /\ ~raced'[jidea[m]] => loaded[m] = idea[jidea[m]].body
                        /\ ~twin[m] => \A x \in Slug : page'[x] # Nothing /\ page'[x].of = jidea[m] =>
                                           page'[x].body <= loaded[m]
                        /\ loaded[m] <= idea[jidea[m]].body
                        /\ pc'[m] = "named" /\ ~twin[m] /\ ~raced'[jidea[m]] => PagesOf(jidea[m])' \subseteq {target[m]}
                        /\ pc'[m] \in {"written", "marked"} /\ idea[jidea[m]].active /\ ~raced'[jidea[m]]
                             => PageShows(jidea[m])'
      BY <1>0 DEF RunsInStep, Working
    <2>1. CASE m = j
      <3>1. ~twin[j] =>
              \A x \in Slug : page'[x] # Nothing /\ page'[x].of = i => page'[x].body <= loaded[j]
        BY <1>2, <1>3, <1>5, <1>7, Nones
      <3>2. ~raced'[i] => loaded[j] = idea[i].body
        BY <1>2, <1>8
      <3> QED BY <1>0, <1>1, <1>2, <1>9, <1>14, <2>1, <3>1, <3>2
    <2>2. CASE m # j
      <3>0. pc[m] \in Working /\ pc'[m] = pc[m]
        BY <1>9, <2>2
      <3>1. PICK k \in Idea : k = jidea[m]
        BY <1>0, <3>0 DEF JobsOwned, Working
      <3>2. k # i \/ twin[m]
        <4>1. phase[m] = "running"
          BY <1>0, <3>0 DEF JobsOwned, Working
        <4> QED BY <1>0, <1>1, <2>2, <3>1, <4>1 DEF JobsOwned, LiveJobs
      <3>3. /\ ~raced[k] => loaded[m] = idea[k].body
            /\ ~twin[m] => \A x \in Slug : page[x] # Nothing /\ page[x].of = k => page[x].body <= loaded[m]
            /\ loaded[m] <= idea[k].body
            /\ pc[m] = "named" /\ ~twin[m] /\ ~raced[k] => PagesOf(k) \subseteq {target[m]}
            /\ pc[m] \in {"written", "marked"} /\ idea[k].active /\ ~raced[k] => PageShows(k)
        BY <3>0, <3>1 DEF IngestInv, RunsInStep, Working
      <3>4. ~twin[m] =>
              \A x \in Slug : page'[x] # Nothing /\ page'[x].of = k => page'[x].body <= loaded[m]
        BY <1>5, <1>7, <3>2, <3>3
      <3>5. /\ ~raced'[k] => loaded[m] = idea[k].body
            /\ pc'[m] = "named" /\ ~twin[m] /\ ~raced'[k] => PagesOf(k)' \subseteq {target[m]}
            /\ pc'[m] \in {"written", "marked"} /\ idea[k].active /\ ~raced'[k] => PageShows(k)'
        <4>1. CASE k = i
          BY <1>8, <1>14, <3>0, <3>2, <3>3, <4>1
        <4>2. CASE k # i
          BY <1>8, <1>10, <1>15, <3>0, <3>3, <4>2
        <4> QED BY <4>1, <4>2
      <3> QED BY <1>0, <3>1, <3>3, <3>4, <3>5
    <2> QED BY <2>1, <2>2
  <1>18. CurrentOrStamped'
    <2> SUFFICES ASSUME NEW k \in Idea, idea[k].active, idea[k].st = "ingested", ~raced'[k]
                 PROVE  PageShows(k)' \/ (idea[k].last # Nothing /\ idea[k].upd > idea[k].last)
      BY <1>0 DEF CurrentOrStamped
    <2>1. CASE k = i
      BY <1>14, <2>1
    <2>2. CASE k # i
      BY <1>8, <1>15, <2>2 DEF IngestInv, CurrentOrStamped
    <2> QED BY <2>1, <2>2
  <1>19. ~twin[j] => \A x \in Slug : page[x] # Nothing /\ page'[x].of = page[x].of =>
                                      page'[x].body >= page[x].body
    <2>1. \A x \in Slug : page[x] # Nothing => page[x].body \in Nat
      BY <1>0, Nones DEF TypeOK, Page
    <2> QED BY <1>2, <1>3, <1>5, <1>7, <2>1, Nones
  <1> QED BY <1>11, <1>12, <1>13, <1>16, <1>17, <1>18, <1>19 DEF IngestInv

----------------------------------------------------------------------------
LEMMA InitIngestInv == Init => IngestInv
  <1> SUFFICES ASSUME Init PROVE IngestInv
    OBVIOUS
  <1> DEFINE none == [st |-> "none", body |-> 0, upd |-> 0, last |-> Nothing, active |-> FALSE]
  <1>1. none \in Row
    BY Nones DEF Row, Time
  <1>2. none.st = "none" /\ none.body = 0 /\ none.active = FALSE
    OBVIOUS
  <1>3. idea = [i \in Idea |-> none]
    BY DEF Init
  <1> HIDE DEF none
  <1>4. TypeOK
    <2>1. phase \in [Job -> Queue!Phase]
      BY DEF Init, Queue!ContractInit, Queue!Phase
    <2>2. /\ jidea \in [Job -> Idea \cup {Nothing}] /\ idea \in [Idea -> Row]
          /\ page \in [Slug -> Page \cup {Nothing}]
      BY <1>1, <1>3 DEF Init
    <2>3. /\ pc \in [Job -> {"idle", "claimed", "loaded", "named", "written", "marked", "returned"}]
          /\ loaded \in [Job -> 0..MaxBody] /\ target \in [Job -> Slug \cup {Nothing}]
          /\ version \in [Idea -> 0..MaxBody]
      BY Nones DEF Init
    <2>4. /\ edit \in [Editor -> Edit] /\ scan \in [Digest -> Scan \cup {Nothing}]
          /\ twin \in [Job -> BOOLEAN] /\ clock \in Time /\ raced \in [Idea -> BOOLEAN]
      BY Nones DEF Init, Time
    <2> QED BY <2>1, <2>2, <2>3, <2>4 DEF TypeOK
  <1>5. \A j \in Job : phase[j] = "absent" /\ pc[j] = "idle"
    BY DEF Init, Queue!ContractInit
  <1>6. JobsOwned /\ RunsInStep
    BY <1>5 DEF JobsOwned, LiveJobs, RunsInStep
  <1>7. \A i \in Idea : idea[i] = none
    BY <1>3
  <1>8. RowsInStep /\ CurrentOrStamped
    <2>1. \A i \in Idea : version[i] = 0
      BY DEF Init
    <2>2. \A e \in Editor : edit[e].pc = "idle"
      BY Nones DEF Init
    <2>3. \A d \in Digest : scan[d] = Nothing
      BY DEF Init
    <2> QED BY <1>2, <1>7, <2>1, <2>2, <2>3 DEF RowsInStep, CurrentOrStamped
  <1>9. OnePage
    BY DEF Init, OnePage, PagesOf
  <1> QED BY <1>4, <1>6, <1>8, <1>9 DEF IngestInv

LEMMA NextIngestInv == IngestInv /\ [Next]_vars => IngestInv'
  <1> SUFFICES ASSUME IngestInv, [Next]_vars PROVE IngestInv'
    OBVIOUS
  <1>1. ASSUME NEW i \in Idea, NEW j \in Job, Capture(i, j) PROVE IngestInv'
    BY <1>1, CaptureStep
  <1>2. CASE \/ \E e \in Editor, i \in Idea : EditBegin(e, i) \/ PushBegin(e, i)
             \/ \E e \in Editor : PushMisses(e)
             \/ \E d \in Digest : DigestScan(d) \/ DigestFails(d) \/ \E i \in Idea : DigestLookup(d, i)
    BY <1>2, OpenSteps
  <1>3. ASSUME NEW e \in Editor,
               EditBody(e) \/ EditLocation(e) \/ PushUpdate(e) \/ PushDelete(e)
        PROVE  IngestInv'
    BY <1>3, EditSteps
  <1>4. ASSUME NEW e \in Editor, PushCreate(e) PROVE IngestInv'
    BY <1>4, PushCreateStep
  <1>5. ASSUME NEW i \in Idea, Delete(i) PROVE IngestInv'
    BY <1>5, DeleteStep
  <1>6. ASSUME NEW d \in Digest, DigestCommit(d) PROVE IngestInv'
    BY <1>6, DigestStep
  <1>7. ASSUME NEW j \in Job,
               \/ Claim(j) \/ Load(j) \/ Complete(j) \/ RunFails(j)
               \/ \E s \in Slug : ChooseSlug(j, s)
        PROVE  IngestInv'
    BY <1>7, HandlerSteps
  <1>8. ASSUME NEW j \in Job, SkipRedundant(j) \/ MarkIngested(j) \/ StampIngested(j)
        PROVE  IngestInv'
    BY <1>8, MarkSteps
  <1>9. ASSUME NEW j \in Job, WriteSource(j) PROVE IngestInv'
    BY <1>9, WriteSourceStep
  <1>10. CASE UNCHANGED vars
    <2>1. /\ UNCHANGED <<phase, jidea, idea, page, pc, loaded, target, twin, raced>>
          /\ UNCHANGED <<edit, scan, version, clock>>
      BY <1>10 DEF vars
    <2>2. TypeOK' /\ RowsInStep'
      BY <2>1 DEF IngestInv, TypeOK, RowsInStep
    <2> QED BY <2>1, <2>2, QuietStep
  <1>11. CASE Request
    BY <1>1, <1>2, <1>3, <1>4, <1>5, <1>6, <1>11 DEF Request
  <1>12. ASSUME NEW j \in Job, Handle(j) \/ RunFails(j) PROVE IngestInv'
    BY <1>7, <1>8, <1>9, <1>12 DEF Handle
  <1> QED BY <1>10, <1>11, <1>12 DEF Next

\* The invariant of capture and ingest, for every number of captures, jobs and
\* concurrent requests.
THEOREM IngestInvariant == Spec => []IngestInv
  BY InitIngestInv, NextIngestInv, PTL DEF Spec

\* What select_dirty_for_ingest takes for clean is shown by one page, made from
\* the present body, but for the races that `raced` records.
THEOREM CleanIsCurrent == Spec => []CurrentUnlessRaced
  <1>1. IngestInv => CurrentUnlessRaced
    BY DEF IngestInv, CurrentOrStamped, CurrentUnlessRaced, Dirty
  <1> QED BY <1>1, IngestInvariant, PTL

\* A run of the ingest handler sets a capture's page back to an older body only
\* as one of two jobs that concurrent digests queued: the debounce of enqueue
\* leaves a capture one live job otherwise.
THEOREM PagesOnlyAdvance == Spec => PageNeverRegresses
  <1> DEFINE Advances == \A s \in Slug :
                page[s] # Nothing /\ page'[s] # Nothing /\ page'[s].of = page[s].of
                => page'[s].body >= page[s].body \/ \E j \in Job : twin[j] /\ Writes(j)
  <1>1. ASSUME IngestInv, [Next]_vars PROVE Advances
    <2>1. \A s \in Slug : page[s] # Nothing => page[s].body \in Nat
      BY <1>1, Nones DEF IngestInv, TypeOK, Page
    <2>2. CASE page' = page
      BY <2>1, <2>2
    <2>3. ASSUME NEW i \in Idea, Delete(i) PROVE Advances
      BY <2>1, <2>3 DEF Delete
    <2>4. ASSUME NEW j \in Job, WriteSource(j) PROVE Advances
      <3>1. Writes(j)
        BY <1>1, <2>4 DEF WriteSource, At, Goto, Writes, IngestInv, TypeOK
      <3> QED BY <1>1, <2>4, <3>1, WriteSourceStep
    <2>5. CASE Request
      <3>1. page' = page \/ \E i \in Idea : Delete(i)
        BY <2>5 DEF Request, Capture, EditBegin, EditBody, EditLocation, PushBegin, PushCreate,
                    PushUpdate, PushDelete, PushMisses, NewBody, NewLocation, DigestScan, DigestLookup,
                    DigestCommit, DigestFails
      <3> QED BY <2>2, <2>3, <3>1
    <2>6. ASSUME NEW j \in Job, Handle(j) \/ RunFails(j) PROVE Advances
      <3>1. page' = page \/ WriteSource(j)
        BY <2>6 DEF Handle, Claim, Load, SkipRedundant, ChooseSlug, MarkIngested, StampIngested,
                    Complete, RunFails
      <3> QED BY <2>2, <2>4, <3>1
    <2>7. CASE UNCHANGED vars
      BY <2>2, <2>7 DEF vars
    <2> HIDE DEF Advances
    <2> QED BY <1>1, <2>5, <2>6, <2>7 DEF Next
  <1>2. IngestInv /\ [Next]_vars => [Advances]_vars
    BY <1>1
  <1> QED BY <1>2, IngestInvariant, PTL DEF Spec, PageNeverRegresses

================================================================================
