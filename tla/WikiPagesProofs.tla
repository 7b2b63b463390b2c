---------------------------- MODULE WikiPagesProofs ----------------------------
(***************************************************************************)
(* Proofs about WikiPages for every number of writers, rows and approvals  *)
(* and every set of pushes: the vault and its mirror, the contributions of *)
(* an ingest, and the decisions on approvals.                              *)
(***************************************************************************)
EXTENDS WikiPages, TLAPS

\* A body is never the mark of a missing file.
LEMMA BodyIsFile == \A b \in Body : b # NoFile
  BY WikiAssumption DEF Body, NoFile, Run

\* The states that Over writes.
LEMMA OverState ==
  ASSUME TypeOK, NEW r \in Run, NEW pc \in {"done", "failed"}
  PROVE  /\ Over(r, pc) \in RunState /\ Over(r, pc).pc = pc /\ Over(r, pc).kind = run[r].kind
         /\ pc = "done" /\ run[r].kind = "item" => Over(r, pc).type = run[r].type
  <1>1. NotStarted \in RunState
    BY DEF NotStarted, RunState, Type, Body
  <1>2. run[r] \in RunState
    BY DEF TypeOK
  <1>3. run[r].type \in Type /\ run[r].kind \in {"item", "source", "push"}
    BY <1>2 DEF RunState
  <1>4. NotStarted.type \in Type
    BY <1>1 DEF RunState
  <1>5. (IF pc = "done" /\ run[r].kind = "item" THEN run[r].type ELSE NotStarted.type) \in Type
    BY <1>3, <1>4
  <1>6. Over(r, pc) = [NotStarted EXCEPT !.pc = pc, !.kind = run[r].kind,
           !.type = IF pc = "done" /\ run[r].kind = "item" THEN run[r].type ELSE NotStarted.type]
    BY DEF Over
  <1> QED BY <1>1, <1>3, <1>5, <1>6 DEF RunState

\* What the writer r alone can be asked for after its step.
Placed(r, s) ==
    /\ s \in RunState
    /\ s.pc \in {"none", "resolve", "read"} => s.kind = "item"
    /\ s.pc = "op" => s.kind = "push"
    /\ s.pc \in {"resolve", "read"} => r \in s.body
    /\ s.pc \in {"quota", "file"} /\ s.kind = "item" => r \in s.body \/ s.stale
    /\ s.pc \in {"quota", "file", "fill", "upsert"} /\ s.kind = "push" => s.ops # <<>>

\* InFile for one writer, Mirroring for one, and Kept for one page and item, on
\* the writers ru, the files fi, the rows ro and the histories to and lo.
FileOk(r, ru, fi, to, lo) == ru[r].pc = "fill" =>
    /\ fi[ru[r].type] # NoFile
    /\ \/ /\ fi[ru[r].type] = {}
          /\ \A q \in Run \ {r} : ru[q].pc = "fill" => ru[q].type # ru[r].type
          /\ ru[r].kind = "item" => r \in ru[r].body \/ r \in lo
       \/ /\ ru[r].type \in to /\ r \in lo
          /\ \A q \in Run : ru[q].kind = "item" /\ ru[q].type = ru[r].type
                            /\ ru[q].pc \in {"upsert", "done"} => q \in lo
    /\ \A q \in Run \ {r} : ru[q].kind = "item" /\ ru[q].type = ru[r].type
                            /\ ru[q].pc \in {"quota", "file"} => ru[q].stale

MirrorOk(r, ru, fi, to) ==
    /\ ru[r].pc = "upsert" =>
        fi[ru[r].type] # NoFile /\ (fi[ru[r].type] = ru[r].body \/ ru[r].type \in to)
    /\ ru[r].pc \in {"fill", "upsert"} => \A q \in Run \ {r} :
        ru[q].pc \in {"fill", "upsert"} /\ ru[q].type = ru[r].type => ru[r].type \in to

Counts(t, q, ru, lo) ==
    ru[q].kind = "item" /\ ru[q].type = t /\ ru[q].pc \in {"upsert", "done"} /\ q \notin lo

HasIt(t, q, ru, fi, lo, ro) == Counts(t, q, ru, lo) =>
    /\ \/ fi[t] # NoFile /\ q \in fi[t]
       \/ \E r \in Run : ru[r].pc = "fill" /\ ru[r].type = t
    /\ ru[q].pc = "done" => \E i \in Row : ro[i].live /\ ro[i].type = t
    /\ \A r \in Run : ru[r].type = t =>
        /\ ru[r].pc = "fill" => q \in ru[r].body
        /\ ru[r].kind = "item" /\ ~ru[r].stale /\ ru[r].pc \in {"quota", "file"} => q \in ru[r].body

LEMMA FileByWriter == /\ InFile <=> \A r \in Run : FileOk(r, run, file, torn, lossy)
                      /\ InFile' <=> \A r \in Run : FileOk(r, run', file', torn', lossy')
  BY DEF InFile, FileOk, At, Filling, Behind, Contributors, Contributes

LEMMA MirrorByWriter == /\ Mirroring <=> \A r \in Run : MirrorOk(r, run, file, torn)
                        /\ Mirroring' <=> \A r \in Run : MirrorOk(r, run', file', torn')
  BY DEF Mirroring, MirrorOk, At, Unmirrored, Writing

LEMMA KeptByItem == /\ Kept <=> \A t \in Type, q \in Run : HasIt(t, q, run, file, lossy, row)
                    /\ Kept' <=> \A t \in Type, q \in Run : HasIt(t, q, run', file', lossy', row')
  BY DEF Kept, HasIt, Counts, At, Contributors, Contributes, Content, LiveOf, LiveRows

\* Where write_page goes on.
LEMMA OnwardState ==
  ASSUME TypeOK, InPlace, NEW r \in Run, run[r].pc \in {"quota", "file", "fill", "upsert"}
  PROVE  /\ Placed(r, Onward(r)) /\ Onward(r).kind = run[r].kind
         /\ run[r].pc = "quota" => Onward(r) = [run[r] EXCEPT !.pc = "file"]
         /\ run[r].pc = "file" => Onward(r) = [run[r] EXCEPT !.pc = "fill"]
         /\ run[r].pc = "fill" => Onward(r) = [run[r] EXCEPT !.pc = "upsert"]
         /\ run[r].pc = "upsert" /\ run[r].kind = "push" => Onward(r).pc = "op"
         /\ run[r].pc = "upsert" /\ run[r].kind # "push" => Onward(r).pc = "done"
         /\ run[r].pc = "upsert" /\ run[r].kind = "item" => Onward(r).type = run[r].type
  <1>0. /\ run[r] \in RunState /\ run[r].ops \in Seq(Op)
        /\ run[r].pc \in {"quota", "file"} /\ run[r].kind = "item" => r \in run[r].body \/ run[r].stale
        /\ run[r].kind = "push" => run[r].ops # <<>>
    BY DEF TypeOK, InPlace, RunState
  <1>1. /\ DOMAIN WriteOrder = {"quota", "file", "fill"} /\ WriteOrder["quota"] = "file"
        /\ WriteOrder["file"] = "fill" /\ WriteOrder["fill"] = "upsert"
    BY DEF WriteOrder
  <1>2. CASE run[r].pc = "quota"
    <2>1. Onward(r) = [run[r] EXCEPT !.pc = "file"]
      BY <1>1, <1>2 DEF Onward
    <2>2. Placed(r, [run[r] EXCEPT !.pc = "file"]) /\ [run[r] EXCEPT !.pc = "file"].kind = run[r].kind
      BY <1>0, <1>2 DEF Placed, RunState
    <2> QED BY <1>2, <2>1, <2>2
  <1>3. CASE run[r].pc = "file"
    <2>1. Onward(r) = [run[r] EXCEPT !.pc = "fill"]
      BY <1>1, <1>3 DEF Onward
    <2>2. Placed(r, [run[r] EXCEPT !.pc = "fill"]) /\ [run[r] EXCEPT !.pc = "fill"].kind = run[r].kind
      BY <1>0 DEF Placed, RunState
    <2> QED BY <1>3, <2>1, <2>2
  <1>4. CASE run[r].pc = "fill"
    <2>1. Onward(r) = [run[r] EXCEPT !.pc = "upsert"]
      BY <1>1, <1>4 DEF Onward
    <2>2. Placed(r, [run[r] EXCEPT !.pc = "upsert"]) /\ [run[r] EXCEPT !.pc = "upsert"].kind = run[r].kind
      BY <1>0 DEF Placed, RunState
    <2> QED BY <1>4, <2>1, <2>2
  <1>5. CASE run[r].pc = "upsert" /\ run[r].kind = "push"
    <2> DEFINE s == [run[r] EXCEPT !.pc = "op", !.ops = Tail(run[r].ops), !.body = {}]
    <2>1. Onward(r) = s
      BY <1>1, <1>5 DEF Onward
    <2>2. Tail(run[r].ops) \in Seq(Op) /\ {} \in Body
      BY <1>0, <1>5 DEF Body
    <2>3. Placed(r, s) /\ s.kind = "push" /\ s.pc = "op"
      BY <1>0, <1>5, <2>2 DEF Placed, RunState
    <2> QED BY <1>5, <2>1, <2>3
  <1>6. CASE run[r].pc = "upsert" /\ run[r].kind # "push"
    <2>1. Onward(r) = Over(r, "done")
      BY <1>1, <1>6 DEF Onward
    <2> QED BY <1>6, <2>1, OverState DEF Placed
  <1> QED BY <1>2, <1>3, <1>4, <1>5, <1>6

\* A step of a writer that touches neither vault nor rows and is neither in
\* the file nor at its mirror row.
LEMMA WriterMoves ==
  ASSUME WikiInv, NEW r \in Run, NEW s, Placed(r, s), run' = [run EXCEPT ![r] = s],
         UNCHANGED <<scope, row, file, appr, torn, lossy>>,
         run[r].pc \notin {"fill", "upsert"}, s.pc \notin {"fill", "upsert"},
         s.pc = "done" => s.kind = "push", run[r].pc = "done" => run[r].kind = "push",
         s.kind = "item" /\ s.pc \in {"quota", "file"} /\ ~s.stale =>
           /\ \A q \in Run \ {r} : run[q].pc = "fill" => run[q].type # s.type
           /\ \A q \in Run : Counts(s.type, q, run, lossy) => q \in s.body
  PROVE  WikiInv'
  <1>1. /\ run' \in [Run -> RunState] /\ run'[r] = s /\ \A q \in Run \ {r} : run'[q] = run[q]
    BY DEF WikiInv, TypeOK, Placed
  <1>2. TypeOK'
    BY <1>1 DEF WikiInv, TypeOK
  <1>3. InPlace'
    BY <1>1 DEF WikiInv, InPlace, Placed
  <1>4. OneLive'
    BY DEF WikiInv, OneLive
  <1>5. \A q \in Run : /\ run'[q].pc \in {"fill", "upsert"} <=> run[q].pc \in {"fill", "upsert"}
                       /\ run[q].pc \in {"fill", "upsert"} => run'[q] = run[q]
    BY <1>1
  <1>6. Mirroring'
    <2> SUFFICES ASSUME NEW q \in Run PROVE MirrorOk(q, run', file', torn')
      BY MirrorByWriter
    <2>1. MirrorOk(q, run, file, torn)
      BY MirrorByWriter DEF WikiInv
    <2> QED BY <1>5, <2>1 DEF MirrorOk
  <1>7. InFile'
    <2> SUFFICES ASSUME NEW q \in Run PROVE FileOk(q, run', file', torn', lossy')
      BY FileByWriter
    <2>1. FileOk(q, run, file, torn, lossy)
      BY FileByWriter DEF WikiInv
    <2>2. s.stale \in BOOLEAN
      BY DEF Placed, RunState
    <2> QED BY <1>1, <1>5, <2>1, <2>2 DEF FileOk
  <1>8. HashKept'
    BY <1>5 DEF WikiInv, HashKept, Writing
  <1>9. Kept'
    <2> SUFFICES ASSUME NEW t \in Type, NEW q \in Run, Counts(t, q, run', lossy')
                 PROVE  HasIt(t, q, run', file', lossy', row')
      BY KeptByItem DEF HasIt
    <2>1. q # r /\ Counts(t, q, run, lossy) /\ run'[q] = run[q]
      BY <1>1 DEF Counts, Placed
    <2>2. HasIt(t, q, run, file, lossy, row)
      BY KeptByItem DEF WikiInv
    <2>3. s.type = t => /\ s.pc # "fill"
                        /\ s.kind = "item" /\ ~s.stale /\ s.pc \in {"quota", "file"} => q \in s.body
      BY <2>1
    <2> QED BY <1>1, <1>5, <2>1, <2>2, <2>3 DEF HasIt
  <1>10. Decided'
    BY DEF WikiInv, Decided, Others
  <1> QED BY <1>2, <1>3, <1>4, <1>6, <1>7, <1>8, <1>9, <1>10 DEF WikiInv

\* Starting, and the ops of a push that only read.
LEMMA StartSteps ==
  ASSUME WikiInv, NEW r \in Run, NEW t \in Type,
         StartSource(r) \/ StartItem(r, t) \/ \E b \in Batches : StartPush(r, b, t)
  PROVE  WikiInv'
  <1>0. /\ TypeOK /\ InPlace /\ run[r] \in RunState /\ run[r].pc = "none" /\ run[r].kind = "item"
        /\ UNCHANGED <<scope, row, file, appr, torn, lossy>>
    BY DEF WikiInv, TypeOK, InPlace, StartSource, StartItem, StartPush, Starts, At
  <1>1. CASE StartItem(r, t)
    <2> DEFINE s == [run[r] EXCEPT !.pc = "resolve", !.type = t, !.body = {r}]
    <2>1. run' = [run EXCEPT ![r] = s]
      BY <1>0, <1>1 DEF StartItem, TypeOK
    <2>2. Placed(r, s) /\ s.pc = "resolve"
      BY <1>0 DEF RunState, Placed, Body
    <2> HIDE DEF s
    <2> QED BY <1>0, <2>1, <2>2, WriterMoves
  <1>2. ASSUME NEW b \in Batches, StartPush(r, b, t) PROVE WikiInv'
    <2> DEFINE s == [run[r] EXCEPT !.pc = "op", !.kind = "push", !.type = t, !.ops = b]
    <2>1. run' = [run EXCEPT ![r] = s]
      BY <1>0, <1>2 DEF StartPush, TypeOK
    <2>2. Placed(r, s) /\ s.pc = "op"
      BY <1>0, WikiAssumption DEF RunState, Placed
    <2> HIDE DEF s
    <2> QED BY <1>0, <2>1, <2>2, WriterMoves
  <1>3. CASE StartSource(r)
    <2> DEFINE s == [run[r] EXCEPT !.pc = "quota", !.kind = "source", !.type = "source", !.body = {r}]
    <2>1. run' = [run EXCEPT ![r] = s]
      BY <1>0, <1>3 DEF StartSource, TypeOK
    <2>2. Placed(r, s) /\ s.pc = "quota" /\ s.kind = "source"
      BY <1>0 DEF RunState, Placed, Body, Type
    <2> HIDE DEF s
    <2> QED BY <1>0, <2>1, <2>2, WriterMoves
  <1> QED BY <1>1, <1>2, <1>3

\* Resolving, and reading the body to merge into.  Where nothing is live,
\* nothing that was listed is left to carry but what a deletion took.
LEMMA ItemSteps ==
  ASSUME WikiInv, NEW r \in Run, Resolve(r) \/ ReadAndMerge(r)
  PROVE  WikiInv'
  <1>0. /\ TypeOK /\ InPlace /\ Kept /\ run[r] \in RunState /\ run[r].kind = "item"
        /\ run[r].pc \in {"resolve", "read"} /\ r \in run[r].body
        /\ UNCHANGED <<scope, row, file, appr, torn, lossy>>
    BY DEF WikiInv, TypeOK, InPlace, Resolve, ReadAndMerge, At
  <1>1. CASE Resolve(r)
    <2>1. CASE /\ Match(run[r].type) = {}
               /\ run' = [run EXCEPT ![r].pc = "quota", ![r].stale = Unmirrored(r, run[r].type) # {}]
      <3> DEFINE s == [run[r] EXCEPT !.pc = "quota", !.stale = Unmirrored(r, run[r].type) # {}]
      <3>1. run' = [run EXCEPT ![r] = s]
        BY <1>0, <2>1 DEF TypeOK
      <3>2. /\ Placed(r, s) /\ s.pc = "quota" /\ s.type = run[r].type
            /\ s.stale = (Unmirrored(r, run[r].type) # {})
        BY <1>0 DEF RunState, Placed
      <3>3. LiveOf(run[r].type) = {}
        BY <2>1 DEF Match, LiveOf
      <3> HIDE DEF s
      <3>4. ASSUME ~s.stale, NEW q \in Run \ {r} PROVE ~Writing(q, s.type)
        BY <3>2, <3>4 DEF Unmirrored
      <3>5. ASSUME ~s.stale, NEW q \in Run, Counts(s.type, q, run, lossy)
            PROVE  FALSE
        <4>1. q # r /\ s.type \in Type
          BY <1>0, <3>2, <3>5 DEF Counts, RunState
        <4>2. run[q].pc = "done"
          BY <3>4, <3>5, <4>1 DEF Counts, Writing
        <4>3. HasIt(s.type, q, run, file, lossy, row)
          BY <1>0, <4>1, KeptByItem
        <4>4. \E i \in Row : row[i].live /\ row[i].type = s.type
          BY <3>5, <4>2, <4>3 DEF HasIt
        <4> QED BY <3>2, <3>3, <4>4 DEF LiveOf, LiveRows
      <3>6. \A q \in Run \ {r} : ~s.stale /\ run[q].pc = "fill" => run[q].type # s.type
        BY <3>4 DEF Writing
      <3> QED BY <1>0, <3>1, <3>2, <3>5, <3>6, WriterMoves
    <2>2. ASSUME NEW i \in Match(run[r].type),
                 run' = [run EXCEPT ![r].pc = "read", ![r].type = row[i].type]
          PROVE  WikiInv'
      <3> DEFINE s == [run[r] EXCEPT !.pc = "read", !.type = row[i].type]
      <3>1. run' = [run EXCEPT ![r] = s]
        BY <1>0, <2>2 DEF TypeOK
      <3>2. row[i].type \in Type
        BY <1>0, <2>2 DEF Match, LiveOf, LiveRows, TypeOK, RowState
      <3>3. Placed(r, s) /\ s.pc = "read"
        BY <1>0, <3>2 DEF RunState, Placed
      <3> HIDE DEF s
      <3> QED BY <1>0, <3>1, <3>3, WriterMoves
    <2> QED BY <1>1, <2>1, <2>2 DEF Resolve
  <1>2. CASE ReadAndMerge(r)
    <2> DEFINE t == run[r].type
    <2>1. ASSUME NEW c \in Reads(r, t), NEW b \in SUBSET (run[r].body \cup c),
                 run' = [run EXCEPT ![r].pc = "quota", ![r].body = b,
                          ![r].stale = b # run[r].body \cup c \/ Filling(r, t) # {}]
          PROVE  WikiInv'
      <3> DEFINE z == b # run[r].body \cup c \/ Filling(r, t) # {}
                 s == [run[r] EXCEPT !.pc = "quota", !.body = b, !.stale = z]
      <3>1. run' = [run EXCEPT ![r] = s]
        BY <1>0, <2>1 DEF TypeOK
      <3>2. t \in Type /\ run[r].body \in Body
        BY <1>0 DEF RunState
      <3>3. Content(t) \in Body
        BY <1>0, <3>2 DEF Content, TypeOK, Body
      <3>4. c \in Body
        <4>1. \A q \in Filling(r, t) : run[q].body \in Body
          BY <1>0 DEF Filling, TypeOK, RunState
        <4> QED BY <2>1, <3>3, <4>1 DEF Reads, Body
      <3>5. b \in Body /\ z \in BOOLEAN
        BY <3>2, <3>4 DEF Body
      <3>6. ~z => b = run[r].body \cup c /\ Filling(r, t) = {}
        OBVIOUS
      <3> HIDE DEF z
      <3>7. /\ s \in RunState /\ s.pc = "quota" /\ s.type = t /\ s.body = b /\ s.stale = z
            /\ s.kind = "item"
        BY <1>0, <3>5 DEF RunState
      <3>8. Placed(r, s)
        BY <1>0, <3>5, <3>6, <3>7 DEF Placed
      <3> HIDE DEF s
      <3>9. ASSUME ~z PROVE /\ \A q \in Run \ {r} : run[q].pc = "fill" => run[q].type # t
                            /\ \A q \in Run : Counts(t, q, run, lossy) => q \in b
        <4>1. \A q \in Run \ {r} : run[q].pc = "fill" => run[q].type # t
          BY <3>6, <3>9 DEF Filling, At
        <4>2. c = Content(t)
          BY <2>1, <3>6, <3>9 DEF Reads
        <4>3. ASSUME NEW q \in Run, Counts(t, q, run, lossy) PROVE q \in Content(t)
          <5>1. HasIt(t, q, run, file, lossy, row)
            BY <1>0, <3>2, KeptByItem
          <5>2. run[r].pc # "fill"
            BY <1>0
          <5> QED BY <4>1, <4>3, <5>1, <5>2 DEF HasIt, Content
        <4> QED BY <3>6, <3>9, <4>1, <4>2, <4>3
      <3> QED BY <1>0, <3>1, <3>5, <3>7, <3>8, <3>9, WriterMoves
    <2>2. CASE run' = [run EXCEPT ![r] = Over(r, "failed")]
      <3>1. Placed(r, Over(r, "failed")) /\ Over(r, "failed").pc = "failed"
        BY <1>0, OverState DEF Placed
      <3> QED BY <1>0, <2>2, <3>1, WriterMoves
    <2> QED BY <1>2, <2>1, <2>2 DEF ReadAndMerge
  <1> QED BY <1>1, <1>2

\* The ops of a push that do not commit it, the quota, and a failure away
\* from the mirror row.
LEMMA PushSteps ==
  ASSUME WikiInv, NEW r \in Run, PushDelete(r) \/ PushSet(r)
  PROVE  WikiInv'
  <1>0. /\ TypeOK /\ InPlace /\ run[r] \in RunState /\ run[r].pc = "op"
        /\ run[r].kind = "push" /\ run[r].ops # <<>> /\ run[r].ops \in Seq(Op)
        /\ UNCHANGED <<scope, row, file, appr, torn, lossy>>
    BY DEF WikiInv, TypeOK, InPlace, RunState, PushDelete, PushSet, At
  <1>1. CASE PushDelete(r)
    <2>1. PICK h \in SUBSET Row : run' = [run EXCEPT ![r] = [run[r] EXCEPT !.ops = Tail(@), !.held = h]]
      <3>1. CASE run' = [run EXCEPT ![r].ops = Tail(@)]
        <4>1. [run[r] EXCEPT !.ops = Tail(@)] = [run[r] EXCEPT !.ops = Tail(@), !.held = run[r].held]
          BY <1>0 DEF RunState
        <4>2. run[r].held \in SUBSET Row
          BY <1>0 DEF RunState
        <4> QED BY <1>0, <3>1, <4>1, <4>2 DEF TypeOK
      <3>2. ASSUME NEW i \in LiveRows \ Held,
                   run' = [run EXCEPT ![r].ops = Tail(@), ![r].held = @ \cup {i}]
            PROVE  run' = [run EXCEPT ![r] = [run[r] EXCEPT !.ops = Tail(@), !.held = run[r].held \cup {i}]]
                   /\ run[r].held \cup {i} \in SUBSET Row
        BY <1>0, <3>2 DEF TypeOK, LiveRows, RunState
      <3> QED BY <1>1, <3>1, <3>2 DEF PushDelete
    <2> DEFINE s == [run[r] EXCEPT !.ops = Tail(@), !.held = h]
    <2>2. Tail(run[r].ops) \in Seq(Op)
      BY <1>0
    <2>3. Placed(r, s) /\ s.pc = "op"
      BY <1>0, <2>2 DEF RunState, Placed
    <2> HIDE DEF s
    <2>4. run' = [run EXCEPT ![r] = s]
      BY <2>1 DEF s
    <2> QED BY <1>0, <2>3, <2>4, WriterMoves
  <1>2. CASE PushSet(r)
    <2> DEFINE op == Head(run[r].ops)
               now == LiveRows \ run[r].held
    <2> DEFINE Was(i) == IF i = 0 THEN "concept" ELSE row[i].type
               Bodies(i) == IF op = "body" THEN {{r}}
                            ELSE IF i = 0 THEN {{}} ELSE {{}} \cup Reads(r, Was(i))
    <2>1. PICK i \in IF now = {} THEN {0} ELSE now : \E b \in Bodies(i) :
                   run' = [run EXCEPT ![r].pc = "quota", ![r].body = b, ![r].stale = FALSE,
                            ![r].type = IF op = "create" THEN @ ELSE Was(i)]
      BY <1>2 DEF PushSet
    <2>2. Was(i) \in Type
      BY <1>0, <2>1 DEF LiveRows, TypeOK, RowState, Type
    <2>3. PICK bo \in Bodies(i) :
                   run' = [run EXCEPT ![r].pc = "quota", ![r].body = bo, ![r].stale = FALSE,
                            ![r].type = IF op = "create" THEN @ ELSE Was(i)]
      BY <2>1
    <2> DEFINE was == Was(i)
               ty == IF op = "create" THEN run[r].type ELSE was
               s == [run[r] EXCEPT !.pc = "quota", !.body = bo, !.stale = FALSE, !.type = ty]
    <2>4. ty \in Type
      BY <1>0, <2>2 DEF RunState
    <2>5. bo \in Body
      <3>1. Content(Was(i)) \in Body
        BY <1>0, <2>2 DEF Content, TypeOK, Body
      <3>2. \A q \in Filling(r, Was(i)) : run[q].body \in Body
        BY <1>0 DEF Filling, TypeOK, RunState
      <3>3. \A c \in Reads(r, Was(i)) : c \in Body
        BY <3>1, <3>2 DEF Reads, Body
      <3>4. {} \in Body /\ {r} \in Body
        BY DEF Body
      <3> QED BY <2>3, <3>3, <3>4
    <2>6. run' = [run EXCEPT ![r] = s]
      BY <1>0, <2>3 DEF TypeOK
    <2> HIDE DEF ty
    <2>7. Placed(r, s) /\ s.pc = "quota" /\ s.kind = "push"
      BY <1>0, <2>4, <2>5 DEF RunState, Placed
    <2> HIDE DEF s
    <2> QED BY <1>0, <2>6, <2>7, WriterMoves
  <1> QED BY <1>1, <1>2

\* The quota, and a failure away from the mirror row.
LEMMA QuotaSteps ==
  ASSUME WikiInv, NEW r \in Run, Quota(r) \/ (Fail(r) /\ ~At(r, "upsert"))
  PROVE  WikiInv'
  <1>0. /\ TypeOK /\ InPlace /\ Kept /\ run[r] \in RunState /\ run[r].pc \notin {"fill", "upsert", "done"}
        /\ UNCHANGED <<scope, row, file, appr, torn, lossy>>
    BY DEF WikiInv, TypeOK, Quota, Fail, At
  <1>1. CASE run' = [run EXCEPT ![r] = Over(r, "failed")]
    <2>1. Placed(r, Over(r, "failed")) /\ Over(r, "failed").pc = "failed"
      BY <1>0, OverState DEF Placed
    <2> QED BY <1>0, <1>1, <2>1, WriterMoves
  <1>2. CASE run[r].pc = "quota" /\ run' = [run EXCEPT ![r] = Onward(r)]
    <2> DEFINE s == Onward(r)
    <2>1. Placed(r, s) /\ s = [run[r] EXCEPT !.pc = "file"]
      BY <1>0, <1>2, OnwardState
    <2>2. /\ s.pc = "file" /\ s.type = run[r].type /\ s.kind = run[r].kind
          /\ s.stale = run[r].stale /\ s.body = run[r].body /\ s.type \in Type
      BY <1>0, <2>1 DEF RunState
    <2> HIDE DEF s
    <2>3. ASSUME s.kind = "item", ~s.stale
          PROVE  /\ \A q \in Run \ {r} : run[q].pc = "fill" => run[q].type # s.type
                 /\ \A q \in Run : Counts(s.type, q, run, lossy) => q \in s.body
      <3>1. ASSUME NEW q \in Run \ {r}, run[q].pc = "fill" PROVE run[q].type # s.type
        <4>1. FileOk(q, run, file, torn, lossy)
          BY FileByWriter DEF WikiInv
        <4> QED BY <1>2, <2>2, <2>3, <3>1, <4>1 DEF FileOk
      <3>2. ASSUME NEW q \in Run, Counts(s.type, q, run, lossy) PROVE q \in s.body
        <4>1. HasIt(s.type, q, run, file, lossy, row)
          BY <1>0, <2>2, KeptByItem
        <4> QED BY <1>2, <2>2, <2>3, <3>2, <4>1 DEF HasIt
      <3> QED BY <3>1, <3>2
    <2>4. run' = [run EXCEPT ![r] = s]
      BY <1>2 DEF s
    <2> QED BY <1>0, <2>1, <2>2, <2>3, <2>4, WriterMoves
  <1> QED BY <1>1, <1>2 DEF Quota, Fail, At

\* A failure between the body and the mirror row tears the page.
LEMMA TornStep ==
  ASSUME WikiInv, NEW r \in Run, Fail(r), At(r, "upsert")
  PROVE  WikiInv'
  <1> DEFINE s == Over(r, "failed")
  <1>0. /\ TypeOK /\ InPlace /\ run[r] \in RunState /\ run[r].pc = "upsert"
        /\ run' = [run EXCEPT ![r] = s] /\ torn' = torn \cup {run[r].type}
        /\ UNCHANGED <<scope, row, file, appr, lossy>>
    BY DEF WikiInv, TypeOK, Fail, At
  <1>1. Placed(r, s) /\ s.pc = "failed"
    BY <1>0, OverState DEF Placed
  <1> HIDE DEF s
  <1>2. /\ run' \in [Run -> RunState] /\ run'[r] = s /\ \A q \in Run \ {r} : run'[q] = run[q]
    BY <1>0, <1>1 DEF TypeOK, Placed
  <1>3. TypeOK'
    BY <1>0, <1>2 DEF TypeOK, RunState
  <1>4. InPlace'
    BY <1>0, <1>1, <1>2 DEF InPlace, Placed
  <1>5. OneLive' /\ Decided'
    BY <1>0 DEF WikiInv, OneLive, Decided, Others
  <1>6. Mirroring'
    <2> SUFFICES ASSUME NEW q \in Run PROVE MirrorOk(q, run', file', torn')
      BY MirrorByWriter
    <2>1. MirrorOk(q, run, file, torn)
      BY MirrorByWriter DEF WikiInv
    <2> QED BY <1>0, <1>1, <1>2, <2>1 DEF MirrorOk
  <1>9. InFile'
    <2> SUFFICES ASSUME NEW q \in Run PROVE FileOk(q, run', file', torn', lossy')
      BY FileByWriter
    <2>1. FileOk(q, run, file, torn, lossy)
      BY FileByWriter DEF WikiInv
    <2> QED BY <1>0, <1>1, <1>2, <2>1 DEF FileOk
  <1>7. HashKept'
    BY <1>0, <1>2 DEF WikiInv, HashKept, Writing
  <1>8. Kept'
    <2> SUFFICES ASSUME NEW t \in Type, NEW q \in Run, Counts(t, q, run', lossy')
                 PROVE  HasIt(t, q, run', file', lossy', row')
      BY KeptByItem DEF HasIt
    <2>1. q # r /\ Counts(t, q, run, lossy) /\ run'[q] = run[q]
      BY <1>0, <1>1, <1>2 DEF Counts
    <2>2. HasIt(t, q, run, file, lossy, row)
      BY KeptByItem DEF WikiInv
    <2> QED BY <1>0, <1>1, <1>2, <2>1, <2>2 DEF HasIt
  <1> QED BY <1>3, <1>4, <1>5, <1>6, <1>7, <1>8, <1>9 DEF WikiInv

\* A failure inside the file: the page is torn, and what is not left of it is
\* lost.
LEMMA FailInFillStep ==
  ASSUME WikiInv, NEW r \in Run, FailInFill(r)
  PROVE  WikiInv'
  <1> DEFINE t == run[r].type
             s == Over(r, "failed")
  <1>0. /\ TypeOK /\ InPlace /\ run[r] \in RunState /\ run[r].pc = "fill" /\ t \in Type
        /\ run' = [run EXCEPT ![r] = s] /\ torn' = torn \cup {t}
        /\ UNCHANGED <<scope, row, appr>>
    BY DEF WikiInv, TypeOK, FailInFill, At, RunState
  <1>b. PICK b \in SUBSET (run[r].body \cup Content(t)) :
           file' = [file EXCEPT ![t] = b] /\ lossy' = lossy \cup (Contributors(t) \ b)
    BY DEF FailInFill
  <1>1. Placed(r, s) /\ s.pc = "failed"
    BY <1>0, OverState DEF Placed
  <1> HIDE DEF s
  <1>2. /\ run' \in [Run -> RunState] /\ run'[r] = s /\ \A q \in Run \ {r} : run'[q] = run[q]
    BY <1>0, <1>1 DEF TypeOK, Placed
  <1>3. /\ b \in Body /\ b # NoFile /\ file'[t] = b
        /\ \A u \in Type : u # t => file'[u] = file[u]
    <2>1. Content(t) \in Body /\ run[r].body \in Body
      BY <1>0 DEF Content, TypeOK, RunState, Body
    <2>2. b \in Body
      BY <2>1 DEF Body
    <2> QED BY <1>0, <1>b, <2>2, BodyIsFile DEF TypeOK
  <1> DEFINE here == {q \in Run : Contributes(q, t)}
  <1>4. lossy' = lossy \cup (here \ b)
    BY <1>b DEF Contributors
  <1>5. TypeOK'
    <2>1. file' \in [Type -> Body \cup {NoFile}]
      BY <1>0, <1>b, <1>3 DEF TypeOK
    <2>2. lossy' \subseteq Run
      BY <1>0, <1>4 DEF TypeOK
    <2> QED BY <1>0, <1>2, <2>1, <2>2 DEF TypeOK
  <1>6. InPlace'
    BY <1>0, <1>1, <1>2 DEF InPlace, Placed
  <1>7. OneLive' /\ Decided'
    <2>1. \A i \in Row : row[i].type \in Type
      BY <1>0 DEF TypeOK, RowState
    <2>2. OneLive'
      BY <1>0, <1>3, <2>1 DEF WikiInv, OneLive
    <2>3. Decided'
      BY <1>0 DEF WikiInv, Decided, Others
    <2> QED BY <2>2, <2>3
  <1>8. \A q \in Run : run[q].type \in Type
    BY <1>0 DEF TypeOK, RunState
  <1>9. Mirroring'
    <2> SUFFICES ASSUME NEW q \in Run PROVE MirrorOk(q, run', file', torn')
      BY MirrorByWriter
    <2>1. MirrorOk(q, run, file, torn)
      BY MirrorByWriter DEF WikiInv
    <2> QED BY <1>0, <1>1, <1>2, <1>3, <1>8, <2>1 DEF MirrorOk
  <1>10. InFile'
    <2> SUFFICES ASSUME NEW q \in Run, run'[q].pc = "fill" PROVE FileOk(q, run', file', torn', lossy')
      BY FileByWriter DEF FileOk
    <2>1. FileOk(q, run, file, torn, lossy) /\ q # r /\ run'[q] = run[q]
      BY <1>1, <1>2, FileByWriter DEF WikiInv
    <2>2. CASE run[q].type = t
      BY <1>0, <1>1, <1>2, <1>3, <1>4, <2>1, <2>2 DEF FileOk
    <2>3. CASE run[q].type # t
      BY <1>0, <1>1, <1>2, <1>3, <1>4, <1>8, <2>1, <2>3 DEF FileOk
    <2> QED BY <2>2, <2>3
  <1>11. HashKept'
    <2>1. \A i \in Row : row[i].type \in Type
      BY <1>0 DEF TypeOK, RowState
    <2> QED BY <1>0, <1>2, <1>3, <2>1 DEF WikiInv, HashKept, Writing
  <1>12. Kept'
    <2> SUFFICES ASSUME NEW u \in Type, NEW q \in Run, Counts(u, q, run', lossy')
                 PROVE  HasIt(u, q, run', file', lossy', row')
      BY KeptByItem DEF HasIt
    <2>1. q # r /\ Counts(u, q, run, lossy) /\ run'[q] = run[q] /\ (u = t => q \in b)
      BY <1>0, <1>1, <1>2, <1>4 DEF Counts, Contributes
    <2>2. HasIt(u, q, run, file, lossy, row)
      BY KeptByItem DEF WikiInv
    <2> QED BY <1>0, <1>1, <1>2, <1>3, <2>1, <2>2 DEF HasIt
  <1> QED BY <1>5, <1>6, <1>7, <1>9, <1>10, <1>11, <1>12 DEF WikiInv

\* The push commits: its deletions make pages lossy and rows dropped.
LEMMA PushCommitStep ==
  ASSUME WikiInv, NEW r \in Run, PushCommit(r)
  PROVE  WikiInv'
  <1> DEFINE s == Over(r, "done")
             h == run[r].held
  <1>0. /\ TypeOK /\ InPlace /\ run[r] \in RunState /\ run[r].pc = "op" /\ run[r].kind = "push"
        /\ run' = [run EXCEPT ![r] = s] /\ h \subseteq Row
        /\ row' = [i \in Row |-> IF i \in h THEN [row[i] EXCEPT !.live = FALSE, !.dropped = TRUE] ELSE row[i]]
        /\ lossy' = lossy \cup UNION {Listed(row[i].type) : i \in h}
        /\ UNCHANGED <<scope, file, appr, torn>>
    BY DEF WikiInv, TypeOK, InPlace, PushCommit, At, RunState
  <1>1. Placed(r, s) /\ s.pc = "done" /\ s.kind = "push"
    BY <1>0, OverState DEF Placed
  <1> HIDE DEF s, h
  <1>2. /\ run' \in [Run -> RunState] /\ run'[r] = s /\ \A q \in Run \ {r} : run'[q] = run[q]
    BY <1>0, <1>1 DEF TypeOK, Placed
  <1>3. ASSUME NEW i \in Row
        PROVE  /\ row'[i] \in RowState /\ row'[i].type = row[i].type /\ row'[i].in = row[i].in
               /\ row'[i].hash = row[i].hash
               /\ row'[i].live = (row[i].live /\ i \notin h)
               /\ row'[i].dropped = (row[i].dropped \/ i \in h)
    <2>1. row[i] \in RowState
      BY <1>0 DEF TypeOK
    <2>2. CASE i \in h
      BY <1>0, <2>1, <2>2 DEF RowState
    <2>3. CASE i \notin h
      BY <1>0, <2>1, <2>3 DEF RowState
    <2> QED BY <2>2, <2>3
  <1>12. UNCHANGED <<file, appr, torn>>
    BY <1>0
  <1>4. TypeOK'
    <2>1. row' \in [Row -> RowState]
      BY <1>0, <1>3
    <2>2. UNION {Listed(row[i].type) : i \in h} \subseteq Run
      BY DEF Listed, Contributors
    <2> QED BY <1>0, <1>2, <2>1, <2>2 DEF TypeOK
  <1>5. InPlace'
    BY <1>0, <1>1, <1>2 DEF InPlace, Placed
  <1>6. OneLive'
    BY <1>12, <1>3 DEF WikiInv, OneLive
  <1>7. \A q \in Run : /\ run'[q].pc \in {"fill", "upsert"} <=> run[q].pc \in {"fill", "upsert"}
                       /\ run[q].pc \in {"fill", "upsert"} => run'[q] = run[q]
    BY <1>0, <1>1, <1>2
  <1>8. Mirroring'
    <2> SUFFICES ASSUME NEW q \in Run PROVE MirrorOk(q, run', file', torn')
      BY MirrorByWriter
    <2>1. MirrorOk(q, run, file, torn)
      BY MirrorByWriter DEF WikiInv
    <2> QED BY <1>7, <1>12, <2>1 DEF MirrorOk
  <1>13. lossy \subseteq lossy'
    BY <1>0
  <1>14. InFile'
    <2> SUFFICES ASSUME NEW q \in Run PROVE FileOk(q, run', file', torn', lossy')
      BY FileByWriter
    <2>1. FileOk(q, run, file, torn, lossy)
      BY FileByWriter DEF WikiInv
    <2> QED BY <1>1, <1>2, <1>7, <1>12, <1>13, <2>1 DEF FileOk
  <1>9. HashKept'
    <2> SUFFICES ASSUME NEW i \in Row, row'[i].in
                 PROVE  LET t == row[i].type IN
                        \/ row[i].hash = file[t]
                        \/ t \in torn
                        \/ \E q \in Run : Writing(q, t)
                        \/ ~row'[i].live /\ \E k \in Row \ {i} : row[k].in /\ row[k].type = t
      BY <1>12, <1>3, <1>7 DEF HashKept, Writing
    <2> QED BY <1>3 DEF WikiInv, HashKept
  <1>10. Kept'
    <2> SUFFICES ASSUME NEW t \in Type, NEW q \in Run, Counts(t, q, run', lossy')
                 PROVE  HasIt(t, q, run', file', lossy', row')
      BY KeptByItem DEF HasIt
    <2>1. q # r /\ Counts(t, q, run, lossy) /\ run'[q] = run[q]
      BY <1>0, <1>1, <1>2 DEF Counts
    <2>2. HasIt(t, q, run, file, lossy, row)
      BY KeptByItem DEF WikiInv
    <2>3. ASSUME run[q].pc = "done" PROVE \E i \in Row : row'[i].live /\ row'[i].type = t
      <3>1. q \in Listed(t)
        BY <2>1, <2>3 DEF Counts, Listed, Contributors, Contributes, At
      <3>2. \A i \in h : row[i].type # t
        BY <1>0, <2>1, <3>1 DEF Counts
      <3>3. PICK i \in Row : row[i].live /\ row[i].type = t
        BY <2>1, <2>2, <2>3 DEF HasIt
      <3> QED BY <1>3, <3>2, <3>3
    <2> QED BY <1>1, <1>2, <1>7, <1>12, <2>1, <2>2, <2>3 DEF HasIt
  <1>11. Decided'
    <2>1. \A a \in Approval : Others(a)' = Others(a)
      BY <1>12 DEF Others
    <2> SUFFICES ASSUME NEW a \in Approval
                 PROVE  /\ appr[a].todo => appr[a].st # "none"
                        /\ appr[a].todo /\ appr[a].st = "rejected" => appr[a].odd
                        /\ appr[a].st # "none" => appr[a].row \in Row /\ row'[appr[a].row].in
                        /\ ~appr[a].todo /\ ~appr[a].odd =>
                            /\ appr[a].st \in {"pending", "approved"} =>
                                 ~row'[appr[a].row].live \/ \E b \in Others(a) : appr[b].st = "rejected"
                            /\ appr[a].st = "rejected" =>
                                 row'[appr[a].row].live \/ row'[appr[a].row].dropped \/ Others(a) # {}
      BY <1>12, <2>1 DEF Decided
    <2>2. /\ appr[a].todo => appr[a].st # "none"
          /\ appr[a].todo /\ appr[a].st = "rejected" => appr[a].odd
          /\ appr[a].st # "none" => appr[a].row \in Row /\ row[appr[a].row].in
          /\ ~appr[a].todo /\ ~appr[a].odd =>
              /\ appr[a].st \in {"pending", "approved"} =>
                   ~row[appr[a].row].live \/ \E b \in Others(a) : appr[b].st = "rejected"
              /\ appr[a].st = "rejected" =>
                   row[appr[a].row].live \/ row[appr[a].row].dropped \/ Others(a) # {}
      BY DEF WikiInv, Decided
    <2> QED BY <1>3, <2>2
  <1> QED BY <1>4, <1>5, <1>6, <1>8, <1>9, <1>10, <1>11, <1>14 DEF WikiInv

\* The file is emptied: who carried an older body is stale now.
LEMMA TruncateStep ==
  ASSUME WikiInv, NEW r \in Run, Truncate(r)
  PROVE  WikiInv'
  <1> DEFINE t == run[r].type
             s == Onward(r)
  <1>0. /\ TypeOK /\ InPlace /\ run[r] \in RunState /\ run[r].pc = "file"
        /\ t \in Type /\ run[r].body \in Body
        /\ file' = [file EXCEPT ![t] = {}]
        /\ torn' = IF Unmirrored(r, t) # {} THEN torn \cup {t} ELSE torn \ {t}
        /\ lossy' = lossy \cup TakenOut(r, t)
        /\ UNCHANGED <<scope, row, appr>>
    BY DEF WikiInv, TypeOK, Truncate, At, RunState
  <1>1. /\ Placed(r, s) /\ s.pc = "fill" /\ s.kind = run[r].kind /\ s.type = t
        /\ s.body = run[r].body
    BY <1>0, OnwardState DEF RunState
  <1>2. /\ run'[r] = s /\ run' = [q \in Run |-> run'[q]]
        /\ \A q \in Run \ {r} :
              run'[q] = IF q \in Behind(r, t) THEN [run[q] EXCEPT !.stale = TRUE] ELSE run[q]
    BY DEF Truncate
  <1> HIDE DEF s
  <1>3. ASSUME NEW q \in Run \ {r}
        PROVE  /\ Placed(q, run'[q]) /\ run'[q].pc = run[q].pc /\ run'[q].kind = run[q].kind
               /\ run'[q].type = run[q].type /\ run'[q].body = run[q].body
               /\ run'[q].stale = (run[q].stale \/ (run[q].pc \in {"quota", "file"} /\ run[q].type = t))
    <2>1. run[q] \in RunState /\ Placed(q, run[q])
      BY <1>0 DEF TypeOK, InPlace, Placed
    <2>2. CASE q \in Behind(r, t)
      <3> DEFINE v == [run[q] EXCEPT !.stale = TRUE]
      <3>1. run'[q] = v
        BY <1>2, <2>2
      <3>2. /\ v \in RunState /\ v.pc = run[q].pc /\ v.kind = run[q].kind /\ v.type = run[q].type
            /\ v.body = run[q].body /\ v.ops = run[q].ops /\ v.stale = TRUE
        BY <2>1 DEF RunState
      <3>3. run[q].pc \in {"quota", "file"} /\ run[q].type = t
        BY <2>2 DEF Behind
      <3> HIDE DEF v
      <3> QED BY <2>1, <3>1, <3>2, <3>3 DEF Placed
    <2>3. CASE q \notin Behind(r, t)
      <3>1. run'[q] = run[q] /\ ~(run[q].pc \in {"quota", "file"} /\ run[q].type = t)
        BY <1>2, <2>3 DEF Behind
      <3>2. run[q].stale \in BOOLEAN
        BY <2>1 DEF RunState
      <3> QED BY <2>1, <3>1, <3>2
    <2> QED BY <2>2, <2>3
  <1>4. TypeOK'
    <2>1. \A q \in Run : run'[q] \in RunState
      BY <1>1, <1>2, <1>3 DEF Placed
    <2>2. run' \in [Run -> RunState]
      BY <1>2, <2>1
    <2>3. TakenOut(r, t) \subseteq Run /\ {} \in Body
      BY DEF TakenOut, Contributors, Filling, Body
    <2>4. file' \in [Type -> Body \cup {NoFile}] /\ lossy' \subseteq Run
      BY <1>0, <2>3 DEF TypeOK
    <2> QED BY <1>0, <2>2, <2>4 DEF TypeOK
  <1>5. InPlace'
    BY <1>1, <1>2, <1>3 DEF InPlace, Placed
  <1>e. {} # NoFile /\ {} \in Body
    BY DEF NoFile, Body
  <1>f. file'[t] = {} /\ \A u \in Type : u # t => file'[u] = file[u]
    BY <1>0 DEF TypeOK
  <1>g. \A q \in Run : run[q].type \in Type
    BY <1>0 DEF TypeOK, RunState
  <1>n. \A q \in Run \ {r} : run[q].type # t => run'[q] = run[q]
    BY <1>2 DEF Behind
  <1>o. \A q \in Run : run'[q].type # t => q # r /\ run'[q] = run[q]
    BY <1>1, <1>2, <1>3, <1>n
  <1>h. torn \ {t} \subseteq torn'
    BY <1>0
  <1>i. \A q \in Run \ {r} : run[q].pc \in {"fill", "upsert"} /\ run[q].type = t => t \in torn'
    BY <1>0 DEF Unmirrored, Writing
  <1>6. OneLive'
    <2>1. \A i \in Row : row[i].type \in Type
      BY <1>0 DEF TypeOK, RowState
    <2> QED BY <1>0, <1>e, <1>f, <2>1 DEF WikiInv, OneLive
  <1>7. Mirroring'
    <2> SUFFICES ASSUME NEW q \in Run PROVE MirrorOk(q, run', file', torn')
      BY MirrorByWriter
    <2>1. MirrorOk(q, run, file, torn)
      BY MirrorByWriter DEF WikiInv
    <2>2. CASE q = r
      BY <1>1, <1>2, <1>3, <1>i, <2>2 DEF MirrorOk
    <2>3. CASE q # r /\ run[q].type # t
      BY <1>1, <1>2, <1>3, <1>f, <1>g, <1>h, <2>1, <2>3 DEF MirrorOk
    <2>4. CASE q # r /\ run[q].type = t
      BY <1>3, <1>e, <1>f, <1>i, <2>4 DEF MirrorOk
    <2> QED BY <2>2, <2>3, <2>4
  <1>j. lossy \subseteq lossy'
    BY <1>0
  <1>k. ASSUME NEW p \in Run \ {r}, run[p].pc = "fill", run[p].type = t
        PROVE  /\ p \in lossy' /\ r \in lossy'
               /\ \A q \in Run : Contributes(q, t) => q \in lossy'
    <2>1. p \in Filling(r, t)
      BY <1>k DEF Filling, At
    <2>2. TakenOut(r, t) = Contributors(t) \cup Filling(r, t) \cup {r}
      BY <2>1 DEF TakenOut
    <2> QED BY <1>0, <2>1, <2>2 DEF Contributors
  <1>l. ASSUME Filling(r, t) = {}, run[r].stale \/ run[r].kind # "item"
        PROVE  lossy' = lossy \cup (({q \in Run : Contributes(q, t)} \cup {r}) \ run[r].body)
    BY <1>0, <1>l DEF TakenOut, Contributors
  <1>m. r \notin lossy' /\ run[r].kind = "item" => r \in run[r].body
    <2>1. CASE Filling(r, t) # {}
      BY <1>0, <2>1 DEF TakenOut
    <2>2. CASE Filling(r, t) = {} /\ run[r].stale
      BY <1>l, <2>2
    <2>3. CASE ~run[r].stale
      BY <1>0, <2>3 DEF InPlace
    <2> QED BY <2>1, <2>2, <2>3
  <1>8. InFile'
    <2> SUFFICES ASSUME NEW q \in Run, run'[q].pc = "fill"
                 PROVE  FileOk(q, run', file', torn', lossy')
      BY FileByWriter DEF FileOk
    <2>1. \A p \in Run : p # q /\ run'[p].kind = "item" /\ run'[p].type = t
                         /\ run'[p].pc \in {"quota", "file"} => run'[p].stale
      BY <1>1, <1>2, <1>3
    <2>2. \A p \in Run : run'[p].kind = "item" /\ run'[p].type = t /\ run'[p].pc \in {"upsert", "done"}
                         => Contributes(p, t)
      BY <1>1, <1>2, <1>3 DEF Contributes
    <2>3. CASE q = r /\ \A p \in Run \ {r} : run[p].pc = "fill" => run[p].type # t
      BY <1>1, <1>2, <1>3, <1>e, <1>f, <1>m, <2>1, <2>3 DEF FileOk
    <2>4. CASE q = r /\ \E p \in Run \ {r} : run[p].pc = "fill" /\ run[p].type = t
      <3>1. PICK p \in Run \ {r} : run[p].pc = "fill" /\ run[p].type = t
        BY <2>4
      <3>2. t \in torn' /\ r \in lossy' /\ \A x \in Run : Contributes(x, t) => x \in lossy'
        BY <1>i, <1>k, <3>1
      <3> QED BY <1>1, <1>2, <1>e, <1>f, <2>1, <2>2, <2>4, <3>2 DEF FileOk
    <2>5. CASE q # r /\ run[q].type = t
      <3>1. run[q].pc = "fill" /\ run'[q].type = t
        BY <1>3, <2>5
      <3>2. t \in torn' /\ q \in lossy' /\ \A x \in Run : Contributes(x, t) => x \in lossy'
        BY <1>i, <1>k, <2>5, <3>1
      <3> QED BY <1>e, <1>f, <2>1, <2>2, <3>1, <3>2 DEF FileOk
    <2>6. CASE q # r /\ run[q].type # t
      <3>1. FileOk(q, run, file, torn, lossy)
        BY FileByWriter DEF WikiInv
      <3> QED BY <1>f, <1>g, <1>h, <1>j, <1>n, <1>o, <2>6, <3>1 DEF FileOk
    <2> QED BY <2>3, <2>4, <2>5, <2>6
  <1>9. HashKept'
    <2>2. \A q \in Run, u \in Type : Writing(q, u) => run'[q].type = u /\ run'[q].pc \in {"fill", "upsert"}
      BY <1>0, <1>3 DEF Writing
    <2>3. run'[r].type = t /\ run'[r].pc \in {"fill", "upsert"}
      BY <1>1, <1>2
    <2>4. \A i \in Row : row[i].type \in Type
      BY <1>0 DEF TypeOK, RowState
    <2> SUFFICES ASSUME NEW i \in Row, row[i].in
                 PROVE  \/ row[i].hash = file'[row[i].type]
                        \/ row[i].type \in torn'
                        \/ \E q \in Run : run'[q].type = row[i].type /\ run'[q].pc \in {"fill", "upsert"}
                        \/ ~row[i].live /\ \E k \in Row \ {i} : row[k].in /\ row[k].type = row[i].type
      BY <1>0 DEF HashKept, Writing
    <2>5. \/ row[i].hash = file[row[i].type]
          \/ row[i].type \in torn
          \/ \E q \in Run : Writing(q, row[i].type)
          \/ ~row[i].live /\ \E k \in Row \ {i} : row[k].in /\ row[k].type = row[i].type
      BY DEF WikiInv, HashKept
    <2> QED BY <1>f, <1>h, <2>2, <2>3, <2>4, <2>5
  <1>10. Kept'
    <2> SUFFICES ASSUME NEW u \in Type, NEW q \in Run, Counts(u, q, run', lossy')
                 PROVE  HasIt(u, q, run', file', lossy', row')
      BY KeptByItem DEF HasIt
    <2>1. /\ q # r /\ Counts(u, q, run, lossy) /\ run'[q].pc = run[q].pc /\ row' = row
      BY <1>0, <1>1, <1>2, <1>3, <1>j DEF Counts
    <2>2. HasIt(u, q, run, file, lossy, row)
      BY KeptByItem DEF WikiInv
    <2>3. CASE u # t
      BY <1>0, <1>f, <1>n, <1>o, <2>1, <2>2, <2>3 DEF HasIt
    <2>4. CASE u = t
      <3>1. Contributes(q, t) /\ q \notin lossy'
        BY <2>1, <2>4 DEF Counts, Contributes
      <3>2. \A p \in Run \ {r} : run[p].pc = "fill" => run[p].type # t
        BY <1>k, <3>1
      <3>3. Filling(r, t) = {}
        BY <3>2 DEF Filling, At
      <3>4. q \in run[r].body
        <4>1. CASE run[r].stale \/ run[r].kind # "item"
          BY <1>l, <3>1, <3>3, <4>1
        <4>2. CASE ~run[r].stale /\ run[r].kind = "item"
          BY <1>0, <2>1, <2>2, <2>4, <4>2 DEF HasIt
        <4> QED BY <4>1, <4>2
      <3>5. run'[r].pc = "fill" /\ run'[r].type = t /\ run'[r].body = run[r].body
        BY <1>1, <1>2
      <3>6. \A p \in Run \ {r} : run'[p].type = t =>
               run'[p].pc # "fill" /\ (run'[p].pc \in {"quota", "file"} => run'[p].stale)
        BY <1>3, <3>2
      <3> QED BY <2>1, <2>2, <2>4, <3>4, <3>5, <3>6 DEF HasIt
    <2> QED BY <2>3, <2>4
  <1>11. Decided'
    BY <1>0 DEF WikiInv, Decided, Others
  <1> QED BY <1>4, <1>5, <1>6, <1>7, <1>8, <1>9, <1>10, <1>11 DEF WikiInv

\* The bytes go to the vault.
LEMMA FillStep ==
  ASSUME WikiInv, NEW r \in Run, Fill(r)
  PROVE  WikiInv'
  <1> DEFINE t == run[r].type
             s == Onward(r)
  <1>0. /\ TypeOK /\ InPlace /\ run[r] \in RunState /\ run[r].pc = "fill"
        /\ t \in Type /\ run[r].body \in Body /\ run' = [run EXCEPT ![r] = s]
        /\ UNCHANGED <<scope, row, appr, torn, lossy>>
    BY DEF WikiInv, TypeOK, Fill, At, RunState
  <1>b. PICK b \in IF Content(t) = {} THEN {run[r].body} ELSE SUBSET (run[r].body \cup Content(t)) :
              file' = [file EXCEPT ![t] = b]
    BY DEF Fill
  <1>1. /\ Placed(r, s) /\ s.pc = "upsert" /\ s.kind = run[r].kind /\ s.type = t
        /\ s.body = run[r].body
    BY <1>0, OnwardState DEF RunState
  <1> HIDE DEF s
  <1>2. /\ run' \in [Run -> RunState] /\ run'[r] = s /\ \A q \in Run \ {r} : run'[q] = run[q]
    BY <1>0, <1>1 DEF TypeOK, Placed
  <1>3. /\ b \in Body /\ b # NoFile /\ file'[t] = b
        /\ \A u \in Type : u # t => file'[u] = file[u]
    <2>1. Content(t) \in Body
      BY <1>0 DEF Content, TypeOK, Body
    <2>2. b \in Body
      BY <1>0, <2>1 DEF Body
    <2> QED BY <1>0, <1>b, <2>2, BodyIsFile DEF TypeOK
  <1>4. FileOk(r, run, file, torn, lossy) /\ MirrorOk(r, run, file, torn)
    BY FileByWriter, MirrorByWriter DEF WikiInv
  <1>5. \/ /\ b = run[r].body
           /\ \A q \in Run \ {r} : run[q].pc = "fill" => run[q].type # t
           /\ run[r].kind = "item" => r \in run[r].body \/ r \in lossy
        \/ /\ t \in torn /\ r \in lossy
           /\ \A q \in Run : run[q].kind = "item" /\ run[q].type = t
                             /\ run[q].pc \in {"upsert", "done"} => q \in lossy
    <2>1. file[t] = {} => Content(t) = {}
      BY DEF Content
    <2> QED BY <1>0, <1>4, <2>1 DEF FileOk
  <1>6. \A q \in Run : run[q].type \in Type
    BY <1>0 DEF TypeOK, RunState
  <1>7. \A i \in Row : row[i].type \in Type
    BY <1>0 DEF TypeOK, RowState
  <1>8. TypeOK'
    <2>1. file' \in [Type -> Body \cup {NoFile}]
      BY <1>0, <1>b, <1>3 DEF TypeOK
    <2> QED BY <1>0, <1>2, <2>1 DEF TypeOK
  <1>9. InPlace'
    BY <1>0, <1>1, <1>2 DEF InPlace, Placed
  <1>10. OneLive'
    BY <1>0, <1>3, <1>7 DEF WikiInv, OneLive
  <1>11. Mirroring'
    <2> SUFFICES ASSUME NEW q \in Run PROVE MirrorOk(q, run', file', torn')
      BY MirrorByWriter
    <2>1. MirrorOk(q, run, file, torn)
      BY MirrorByWriter DEF WikiInv
    <2>2. CASE q = r
      BY <1>0, <1>1, <1>2, <1>3, <1>4, <1>5, <2>2 DEF MirrorOk
    <2>3. CASE q # r /\ run[q].type # t
      BY <1>0, <1>1, <1>2, <1>3, <1>6, <2>1, <2>3 DEF MirrorOk
    <2>4. CASE q # r /\ run[q].type = t
      <3>1. run[q].pc \in {"fill", "upsert"} => t \in torn
        BY <1>0, <2>1, <2>4 DEF MirrorOk
      <3> QED BY <1>0, <1>2, <1>3, <2>4, <3>1 DEF MirrorOk
    <2> QED BY <2>2, <2>3, <2>4
  <1>12. InFile'
    <2> SUFFICES ASSUME NEW q \in Run, run'[q].pc = "fill" PROVE FileOk(q, run', file', torn', lossy')
      BY FileByWriter DEF FileOk
    <2>1. FileOk(q, run, file, torn, lossy) /\ q # r /\ run'[q] = run[q]
      BY <1>1, <1>2, FileByWriter DEF WikiInv
    <2>2. CASE run[q].type = t
      <3>1. r \in lossy
        BY <1>5, <2>1, <2>2
      <3> QED BY <1>0, <1>1, <1>2, <1>3, <2>1, <2>2, <3>1 DEF FileOk
    <2>3. CASE run[q].type # t
      BY <1>0, <1>1, <1>2, <1>3, <1>6, <2>1, <2>3 DEF FileOk
    <2> QED BY <2>2, <2>3
  <1>13. HashKept'
    <2>2. \A q \in Run, u \in Type : Writing(q, u) => run'[q].type = u /\ run'[q].pc \in {"fill", "upsert"}
      BY <1>1, <1>2 DEF Writing
    <2>3. run'[r].type = t /\ run'[r].pc \in {"fill", "upsert"}
      BY <1>1, <1>2
    <2> SUFFICES ASSUME NEW i \in Row, row[i].in
                 PROVE  \/ row[i].hash = file'[row[i].type]
                        \/ row[i].type \in torn
                        \/ \E q \in Run : run'[q].type = row[i].type /\ run'[q].pc \in {"fill", "upsert"}
                        \/ ~row[i].live /\ \E k \in Row \ {i} : row[k].in /\ row[k].type = row[i].type
      BY <1>0 DEF HashKept, Writing
    <2>5. \/ row[i].hash = file[row[i].type]
          \/ row[i].type \in torn
          \/ \E q \in Run : Writing(q, row[i].type)
          \/ ~row[i].live /\ \E k \in Row \ {i} : row[k].in /\ row[k].type = row[i].type
      BY DEF WikiInv, HashKept
    <2> QED BY <1>3, <1>7, <2>2, <2>3, <2>5
  <1>14. Kept'
    <2> SUFFICES ASSUME NEW u \in Type, NEW q \in Run, Counts(u, q, run', lossy')
                 PROVE  HasIt(u, q, run', file', lossy', row')
      BY KeptByItem DEF HasIt
    <2>1. HasIt(u, q, run, file, lossy, row) /\ (q # r => Counts(u, q, run, lossy))
      BY <1>0, <1>2, KeptByItem DEF WikiInv, Counts
    <2>2. CASE u # t
      <3>1. q # r
        BY <1>1, <1>2, <2>2 DEF Counts
      <3> QED BY <1>0, <1>1, <1>2, <1>3, <2>1, <2>2, <3>1 DEF HasIt
    <2>3. CASE u = t
      <3>1. q \notin lossy /\ (q # r => run[q].kind = "item" /\ run[q].type = t /\ run[q].pc \in {"upsert", "done"})
        BY <1>0, <2>1, <2>3 DEF Counts
      <3>2. /\ b = run[r].body
            /\ \A p \in Run \ {r} : run[p].pc = "fill" => run[p].type # t
            /\ q = r => r \in run[r].body
        <4>1. q = r => run[r].kind = "item"
          BY <1>1, <1>2 DEF Counts
        <4> QED BY <1>5, <3>1, <4>1
      <3>3. q \in b
        BY <1>0, <2>1, <2>3, <3>2 DEF HasIt
      <3>4. \A p \in Run \ {r} : run[p].kind = "item" /\ run[p].type = t
                                 /\ run[p].pc \in {"quota", "file"} => run[p].stale
        BY <1>0, <1>4 DEF FileOk
      <3>5. q = r => run'[q].pc # "done"
        BY <1>1, <1>2
      <3> QED BY <1>0, <1>1, <1>2, <1>3, <2>1, <2>3, <3>2, <3>3, <3>4, <3>5 DEF HasIt
    <2> QED BY <2>2, <2>3
  <1>15. Decided'
    BY <1>0 DEF WikiInv, Decided, Others
  <1> QED BY <1>8, <1>9, <1>10, <1>11, <1>12, <1>13, <1>14, <1>15 DEF WikiInv

\* The mirror row follows the body.
LEMMA UpsertStep ==
  ASSUME WikiInv, NEW r \in Run, Upsert(r)
  PROVE  WikiInv'
  <1> DEFINE t == run[r].type
             s == Onward(r)
  <1>0. /\ TypeOK /\ InPlace /\ run[r] \in RunState /\ run[r].pc = "upsert"
        /\ t \in Type /\ run[r].body \in Body /\ run[r].kind \in {"item", "source", "push"}
        /\ run' = [run EXCEPT ![r] = s]
        /\ UNCHANGED <<scope, file, appr, torn, lossy>>
    BY DEF WikiInv, TypeOK, Upsert, At, RunState
  <1>1. /\ Placed(r, s) /\ s.kind = run[r].kind
        /\ run[r].kind = "push" => s.pc = "op"
        /\ run[r].kind # "push" => s.pc = "done"
        /\ run[r].kind = "item" => s.type = t
    BY <1>0, OnwardState
  <1> HIDE DEF s
  <1>2. /\ run' \in [Run -> RunState] /\ run'[r] = s /\ \A q \in Run \ {r} : run'[q] = run[q]
    BY <1>0, <1>1 DEF TypeOK, Placed
  <1>3. PICK i \in Row :
           /\ row'[i] \in RowState /\ row'[i].type = t /\ row'[i].in /\ row'[i].live
           /\ row'[i].hash = run[r].body
           /\ row' = [row EXCEPT ![i] = row'[i]]
           /\ \/ row[i].live /\ row[i].type = t /\ row'[i].dropped = row[i].dropped
              \/ LiveOf(t) = {} /\ ~row[i].in
    <2>1. ASSUME NEW i \in LiveOf(t), row' = [row EXCEPT ![i] = Updated(i, run[r].body)]
          PROVE  /\ i \in Row
                 /\ row'[i] \in RowState /\ row'[i].type = t /\ row'[i].in /\ row'[i].live
                 /\ row'[i].hash = run[r].body
                 /\ row' = [row EXCEPT ![i] = row'[i]]
                 /\ row[i].live /\ row[i].type = t /\ row'[i].dropped = row[i].dropped
      <3>1. i \in Row /\ row[i].live /\ row[i].type = t /\ row[i] \in RowState /\ row[i].in
        BY <1>0 DEF LiveOf, LiveRows, TypeOK, WikiInv, OneLive
      <3>2. row'[i] = Updated(i, run[r].body) /\ row' = [row EXCEPT ![i] = row'[i]]
        BY <1>0, <2>1, <3>1 DEF TypeOK
      <3>3. /\ Updated(i, run[r].body) \in RowState
            /\ Updated(i, run[r].body).type = row[i].type
            /\ Updated(i, run[r].body).hash = run[r].body
        BY <1>0, <3>1 DEF RowState, Updated
      <3>4. /\ Updated(i, run[r].body).in = row[i].in
            /\ Updated(i, run[r].body).live = row[i].live
            /\ Updated(i, run[r].body).dropped = row[i].dropped
        BY <3>1 DEF RowState, Updated
      <3> QED BY <3>1, <3>2, <3>3, <3>4
    <2>2. ASSUME LiveOf(t) = {}, NEW i \in Row, ~row[i].in,
                 row' = [row EXCEPT ![i] = [type |-> t, in |-> TRUE, live |-> TRUE,
                                            hash |-> run[r].body, dropped |-> FALSE]]
          PROVE  /\ row'[i] \in RowState /\ row'[i].type = t /\ row'[i].in /\ row'[i].live
                 /\ row'[i].hash = run[r].body
                 /\ row' = [row EXCEPT ![i] = row'[i]]
      <3> DEFINE n == [type |-> t, in |-> TRUE, live |-> TRUE,
                       hash |-> run[r].body, dropped |-> FALSE]
      <3>1. n \in RowState
        BY <1>0 DEF RowState
      <3>2. n.type = t /\ n.hash = run[r].body /\ n.in = TRUE /\ n.live = TRUE
        OBVIOUS
      <3>3. row' = [row EXCEPT ![i] = n]
        BY <2>2
      <3> HIDE DEF n
      <3>4. row'[i] = n
        BY <1>0, <2>2, <3>3 DEF TypeOK
      <3> QED BY <3>1, <3>2, <3>3, <3>4
    <2>3. \/ \E i \in LiveOf(t) : row' = [row EXCEPT ![i] = Updated(i, run[r].body)]
          \/ /\ LiveOf(t) = {}
             /\ \E i \in Row :
                  /\ ~row[i].in
                  /\ row' = [row EXCEPT ![i] = [type |-> t, in |-> TRUE, live |-> TRUE,
                                                hash |-> run[r].body, dropped |-> FALSE]]
      BY DEF Upsert
    <2>4. CASE \E i \in LiveOf(t) : row' = [row EXCEPT ![i] = Updated(i, run[r].body)]
      <3>1. PICK i \in LiveOf(t) : row' = [row EXCEPT ![i] = Updated(i, run[r].body)]
        BY <2>4
      <3> QED BY <3>1, <2>1, Zenon
    <2>5. CASE /\ LiveOf(t) = {}
               /\ \E i \in Row :
                    /\ ~row[i].in
                    /\ row' = [row EXCEPT ![i] = [type |-> t, in |-> TRUE, live |-> TRUE,
                                                  hash |-> run[r].body, dropped |-> FALSE]]
      <3>1. PICK i \in Row :
                    /\ ~row[i].in
                    /\ row' = [row EXCEPT ![i] = [type |-> t, in |-> TRUE, live |-> TRUE,
                                                  hash |-> run[r].body, dropped |-> FALSE]]
        BY <2>5
      <3> QED BY <2>5, <3>1, <2>2, Zenon
    <2> QED BY <2>3, <2>4, <2>5
  <1>4. \A k \in Row \ {i} : row'[k] = row[k]
    BY <1>0, <1>3 DEF TypeOK
  <1>5. TypeOK'
    BY <1>0, <1>2, <1>3 DEF TypeOK
  <1>6. InPlace'
    BY <1>0, <1>1, <1>2 DEF InPlace, Placed
  <1>7. UNCHANGED <<file, appr, torn, lossy>>
    BY <1>0
  <1>8. \A k \in Row \ {i} : row[k].live => row[k].type # t
    <2>1. CASE row[i].live /\ row[i].type = t
      BY <2>1 DEF WikiInv, OneLive
    <2>2. CASE LiveOf(t) = {}
      BY <2>2 DEF LiveOf, LiveRows
    <2> QED BY <1>3, <2>1, <2>2
  <1>9. OneLive'
    <2>1. file[t] # NoFile
      BY <1>0 DEF WikiInv, Mirroring, At
    <2> QED BY <1>3, <1>4, <1>7, <1>8, <2>1 DEF WikiInv, OneLive
  <1>10. s.pc \notin {"fill", "upsert"}
    BY <1>0, <1>1
  <1>11. Mirroring'
    <2> SUFFICES ASSUME NEW q \in Run PROVE MirrorOk(q, run', file', torn')
      BY MirrorByWriter
    <2>1. MirrorOk(q, run, file, torn)
      BY MirrorByWriter DEF WikiInv
    <2> QED BY <1>2, <1>7, <1>10, <2>1 DEF MirrorOk
  <1>15. InFile'
    <2> SUFFICES ASSUME NEW q \in Run, run'[q].pc = "fill" PROVE FileOk(q, run', file', torn', lossy')
      BY FileByWriter DEF FileOk
    <2>1. FileOk(q, run, file, torn, lossy) /\ q # r /\ run'[q] = run[q]
      BY <1>2, <1>10, FileByWriter DEF WikiInv
    <2> QED BY <1>0, <1>1, <1>2, <1>7, <1>10, <2>1 DEF FileOk
  <1>12. HashKept'
    <2> SUFFICES ASSUME NEW k \in Row, row'[k].in
                 PROVE  LET u == row'[k].type IN
                        \/ row'[k].hash = file[u]
                        \/ u \in torn
                        \/ \E q \in Run : run'[q].type = u /\ run'[q].pc \in {"fill", "upsert"}
                        \/ ~row'[k].live /\ \E l \in Row \ {k} : row'[l].in /\ row'[l].type = u
      BY <1>7 DEF HashKept, Writing
    <2>1. CASE k = i
      <3>1. file[t] = run[r].body \/ t \in torn
        BY <1>0 DEF WikiInv, Mirroring, At
      <3> QED BY <1>3, <2>1, <3>1
    <2>2. CASE k # i /\ row[k].type = t
      BY <1>3, <1>4, <1>8, <2>2
    <2>3. CASE k # i /\ row[k].type # t
      <3>1. \/ row[k].hash = file[row[k].type]
            \/ row[k].type \in torn
            \/ \E q \in Run : Writing(q, row[k].type)
            \/ ~row[k].live /\ \E l \in Row \ {k} : row[l].in /\ row[l].type = row[k].type
        BY <1>4, <2>3 DEF WikiInv, HashKept
      <3>2. \A q \in Run, u \in Type : Writing(q, u) /\ u # t =>
                run'[q].type = u /\ run'[q].pc \in {"fill", "upsert"}
        BY <1>2 DEF Writing
      <3>4. row[k].type \in Type /\ row'[k] = row[k]
        BY <1>0, <1>4, <2>3 DEF TypeOK, RowState
      <3>3. \A l \in Row \ {k} : row[l].in /\ row[l].type = row[k].type =>
                                 row'[l].in /\ row'[l].type = row[k].type
        BY <1>3, <1>4, <2>3
      <3> QED BY <2>3, <3>1, <3>2, <3>3, <3>4
    <2> QED BY <2>1, <2>2, <2>3
  <1>13. Kept'
    <2> SUFFICES ASSUME NEW u \in Type, NEW q \in Run, Counts(u, q, run', lossy')
                 PROVE  HasIt(u, q, run', file', lossy', row')
      BY KeptByItem DEF HasIt
    <2>1. HasIt(u, q, run, file, lossy, row) /\ Counts(u, q, run, lossy)
      BY <1>0, <1>1, <1>2, KeptByItem DEF WikiInv, Counts
    <2>2. ASSUME run'[q].pc = "done" PROVE \E k \in Row : row'[k].live /\ row'[k].type = u
      <3>1. CASE u = t
        BY <1>3, <3>1
      <3>2. CASE u # t
        <4>1. q # r /\ run'[q] = run[q]
          BY <1>2, <2>1, <3>2 DEF Counts
        <4>2. PICK k \in Row : row[k].live /\ row[k].type = u
          BY <2>1, <2>2, <4>1 DEF HasIt
        <4>3. k # i
          BY <1>3, <3>2, <4>2 DEF WikiInv, OneLive
        <4> QED BY <1>4, <4>2, <4>3
      <3> QED BY <3>1, <3>2
    <2> QED BY <1>0, <1>1, <1>2, <1>7, <1>10, <2>1, <2>2 DEF HasIt
  <1>14. Decided'
    <2>1. \A a \in Approval : Others(a)' = Others(a)
      BY <1>7 DEF Others
    <2>2. \A k \in Row : row[k].in => /\ row'[k].in /\ row'[k].live = row[k].live
                                       /\ row'[k].dropped = row[k].dropped
      <3>1. row[i].live \in BOOLEAN /\ row'[i].live \in BOOLEAN
        BY <1>0, <1>3 DEF TypeOK, RowState
      <3> QED BY <1>3, <1>4, <3>1
    <2> QED BY <1>7, <2>1, <2>2 DEF WikiInv, Decided
  <1> QED BY <1>5, <1>6, <1>9, <1>11, <1>12, <1>13, <1>14, <1>15 DEF WikiInv

\* The part of Decided about one approval, on the rows ro and the approvals ap.
RowHolds(a, ro, ap) ==
    /\ ap[a].todo => ap[a].st # "none"
    /\ ap[a].todo /\ ap[a].st = "rejected" => ap[a].odd
    /\ ap[a].st # "none" => ap[a].row \in Row /\ ro[ap[a].row].in
    /\ ~ap[a].todo /\ ~ap[a].odd =>
        /\ ap[a].st \in {"pending", "approved"} =>
            \/ ~ro[ap[a].row].live
            \/ \E b \in Approval \ {a} : ap[b].row = ap[a].row /\ ap[b].st = "rejected"
        /\ ap[a].st = "rejected" =>
            \/ ro[ap[a].row].live
            \/ ro[ap[a].row].dropped
            \/ \E b \in Approval \ {a} : ap[b].row = ap[a].row /\ ap[b].st # "none"

LEMMA DecidedByRow == /\ Decided <=> \A a \in Approval : RowHolds(a, row, appr)
                      /\ Decided' <=> \A a \in Approval : RowHolds(a, row', appr')
  BY DEF Decided, RowHolds, Others

\* The approvals that are written but not the page.
LEMMA ApprovalSteps ==
  ASSUME WikiInv, NEW a \in Approval,
         (\E i \in Row : Propose(a, i)) \/ ProposerDies(a) \/ Approve(a)
  PROVE  WikiInv'
  <1>0. TypeOK /\ appr[a] \in ApprovalState /\ UNCHANGED <<scope, row, file, run, torn, lossy>>
    BY DEF WikiInv, TypeOK, Propose, ProposerDies, Approve
  <1>1. PICK n \in ApprovalState :
           /\ appr' = [appr EXCEPT ![a] = n] /\ RowHolds(a, row, [appr EXCEPT ![a] = n])
           /\ n.st # "none"
           /\ appr[a].st # "none" => n.row = appr[a].row
           /\ appr[a].st = "rejected" => n.st = "rejected"
    <2>1. ASSUME NEW i \in Row, Propose(a, i)
          PROVE  \E n \in ApprovalState :
                   /\ appr' = [appr EXCEPT ![a] = n] /\ RowHolds(a, row, [appr EXCEPT ![a] = n])
                   /\ n.st # "none"
                   /\ appr[a].st # "none" => n.row = appr[a].row
                   /\ appr[a].st = "rejected" => n.st = "rejected"
      <3> DEFINE n == [st |-> "pending", row |-> i, todo |-> TRUE, odd |-> FALSE]
      <3>1. n \in ApprovalState
        BY DEF ApprovalState
      <3>2. n.st = "pending" /\ n.row = i /\ n.todo = TRUE
        OBVIOUS
      <3>3. appr' = [appr EXCEPT ![a] = n] /\ row[i].in /\ appr[a].st = "none"
        BY <2>1 DEF Propose, WikiInv, OneLive
      <3> HIDE DEF n
      <3>4. RowHolds(a, row, [appr EXCEPT ![a] = n])
        <4>1. [appr EXCEPT ![a] = n][a] = n
          BY <1>0 DEF TypeOK
        <4> QED BY <3>2, <3>3, <4>1 DEF RowHolds
      <3> QED BY <3>1, <3>2, <3>3, <3>4
    <2>2. ASSUME ProposerDies(a)
          PROVE  \E n \in ApprovalState :
                   /\ appr' = [appr EXCEPT ![a] = n] /\ RowHolds(a, row, [appr EXCEPT ![a] = n])
                   /\ n.st # "none"
                   /\ appr[a].st # "none" => n.row = appr[a].row
                   /\ appr[a].st = "rejected" => n.st = "rejected"
      <3> DEFINE n == [appr[a] EXCEPT !.todo = FALSE, !.odd = TRUE]
      <3>1. n \in ApprovalState
        BY <1>0 DEF ApprovalState
      <3>2. n.st = appr[a].st /\ n.row = appr[a].row /\ n.todo = FALSE /\ n.odd = TRUE
        BY <1>0 DEF ApprovalState
      <3>3. appr' = [appr EXCEPT ![a] = n] /\ appr[a].todo
        BY <1>0, <2>2 DEF ProposerDies, TypeOK
      <3> HIDE DEF n
      <3>4. RowHolds(a, row, appr)
        BY DecidedByRow DEF WikiInv
      <3>5. RowHolds(a, row, [appr EXCEPT ![a] = n])
        <4>1. [appr EXCEPT ![a] = n][a] = n
          BY <1>0 DEF TypeOK
        <4> QED BY <3>2, <3>3, <3>4, <4>1 DEF RowHolds
      <3> QED BY <3>1, <3>2, <3>3, <3>4, <3>5 DEF RowHolds
    <2>3. ASSUME Approve(a)
          PROVE  \E n \in ApprovalState :
                   /\ appr' = [appr EXCEPT ![a] = n] /\ RowHolds(a, row, [appr EXCEPT ![a] = n])
                   /\ n.st # "none"
                   /\ appr[a].st # "none" => n.row = appr[a].row
                   /\ appr[a].st = "rejected" => n.st = "rejected"
      <3> DEFINE n == [appr[a] EXCEPT !.st = "approved"]
      <3>1. n \in ApprovalState
        BY <1>0 DEF ApprovalState
      <3>2. n.st = "approved" /\ n.row = appr[a].row /\ n.todo = appr[a].todo /\ n.odd = appr[a].odd
        BY <1>0 DEF ApprovalState
      <3>3. appr' = [appr EXCEPT ![a] = n] /\ appr[a].st = "pending"
        BY <1>0, <2>3 DEF Approve, Decidable, TypeOK
      <3> HIDE DEF n
      <3>4. RowHolds(a, row, appr)
        BY DecidedByRow DEF WikiInv
      <3>5. RowHolds(a, row, [appr EXCEPT ![a] = n])
        <4>1. /\ [appr EXCEPT ![a] = n][a] = n
              /\ \A b \in Approval \ {a} : [appr EXCEPT ![a] = n][b] = appr[b]
          BY <1>0 DEF TypeOK
        <4> QED BY <3>2, <3>3, <3>4, <4>1 DEF RowHolds
      <3> QED BY <3>1, <3>2, <3>3, <3>5
    <2> QED BY <2>1, <2>2, <2>3
  <1>2. /\ appr' \in [Approval -> ApprovalState] /\ appr'[a] = n
        /\ \A b \in Approval \ {a} : appr'[b] = appr[b]
    BY <1>0, <1>1 DEF TypeOK
  <1>3. TypeOK' /\ InPlace' /\ OneLive' /\ Mirroring' /\ InFile' /\ HashKept'
    <2>1. TypeOK'
      BY <1>0, <1>2 DEF TypeOK
    <2>2. InPlace' /\ OneLive'
      BY <1>0 DEF WikiInv, InPlace, OneLive
    <2>3. Mirroring' /\ InFile'
      BY <1>0, MirrorByWriter, FileByWriter DEF WikiInv
    <2>4. HashKept'
      BY <1>0 DEF WikiInv, HashKept, Writing
    <2> QED BY <2>1, <2>2, <2>3, <2>4
  <1>4. Kept'
    BY <1>0, KeptByItem DEF WikiInv
  <1>5. Decided'
    <2> SUFFICES ASSUME NEW c \in Approval PROVE RowHolds(c, row', appr')
      BY DecidedByRow
    <2>1. CASE c = a
      BY <1>0, <1>1, <2>1
    <2>2. CASE c # a
      <3>1. RowHolds(c, row, appr) /\ appr'[c] = appr[c]
        BY <1>2, <2>2, DecidedByRow DEF WikiInv
      <3>2. \A b \in Approval \ {c} : appr[b].st # "none" =>
              /\ appr'[b].st # "none" /\ appr'[b].row = appr[b].row
              /\ appr[b].st = "rejected" => appr'[b].st = "rejected"
        BY <1>1, <1>2
      <3> QED BY <1>0, <3>1, <3>2 DEF RowHolds
    <2> QED BY <2>1, <2>2
  <1> QED BY <1>3, <1>4, <1>5 DEF WikiInv

\* The deletion that was proposed.
LEMMA SoftDeleteStep ==
  ASSUME WikiInv, NEW a \in Approval, SoftDelete(a)
  PROVE  WikiInv'
  <1> DEFINE i == appr[a].row
             n == [appr[a] EXCEPT !.todo = FALSE]
             d == [row[i] EXCEPT !.live = FALSE]
  <1>0. /\ TypeOK /\ appr[a] \in ApprovalState /\ appr[a].todo
        /\ lossy' = lossy \cup Listed(row[i].type)
        /\ UNCHANGED <<scope, file, run, torn>>
    BY DEF WikiInv, TypeOK, SoftDelete
  <1>1. RowHolds(a, row, appr) /\ i \in Row /\ row[i] \in RowState /\ row[i].in
    BY <1>0, DecidedByRow DEF WikiInv, RowHolds, TypeOK
  <1>2. row' = [row EXCEPT ![i] = d] /\ appr' = [appr EXCEPT ![a] = n]
    BY <1>0, <1>1 DEF SoftDelete, TypeOK
  <1>3. /\ d \in RowState /\ d.type = row[i].type /\ d.hash = row[i].hash
        /\ d.live = FALSE /\ d.in = row[i].in /\ d.dropped = row[i].dropped
    BY <1>1 DEF RowState
  <1>4. /\ n \in ApprovalState /\ n.st = appr[a].st /\ n.row = appr[a].row
        /\ n.todo = FALSE /\ n.odd = appr[a].odd
    BY <1>0 DEF ApprovalState
  <1> HIDE DEF n, d
  <1>5. /\ row' \in [Row -> RowState] /\ row'[i] = d /\ \A k \in Row \ {i} : row'[k] = row[k]
        /\ appr' \in [Approval -> ApprovalState] /\ appr'[a] = n
        /\ \A b \in Approval \ {a} : appr'[b] = appr[b]
    BY <1>0, <1>1, <1>2, <1>3, <1>4 DEF TypeOK
  <1>6. \A k \in Row : /\ row'[k].type = row[k].type /\ row'[k].in = row[k].in
                       /\ row'[k].hash = row[k].hash /\ row'[k].dropped = row[k].dropped
                       /\ row'[k].live => row[k].live
    BY <1>3, <1>5
  <1> HIDE DEF i
  <1>7. TypeOK'
    <2>1. Listed(row[i].type) \subseteq Run
      BY DEF Listed, Contributors
    <2> QED BY <1>0, <1>5, <2>1 DEF TypeOK
  <1>8. InPlace' /\ OneLive'
    <2>1. InPlace'
      BY <1>0 DEF WikiInv, InPlace
    <2>2. OneLive'
      BY <1>0, <1>6 DEF WikiInv, OneLive
    <2> QED BY <2>1, <2>2
  <1>9. Mirroring'
    BY <1>0, MirrorByWriter DEF WikiInv
  <1>13. InFile'
    <2> SUFFICES ASSUME NEW q \in Run PROVE FileOk(q, run', file', torn', lossy')
      BY FileByWriter
    <2>1. FileOk(q, run, file, torn, lossy)
      BY FileByWriter DEF WikiInv
    <2> QED BY <1>0, <2>1 DEF FileOk
  <1>10. HashKept'
    BY <1>0, <1>6 DEF WikiInv, HashKept, Writing
  <1>11. Kept'
    <2> SUFFICES ASSUME NEW u \in Type, NEW q \in Run, Counts(u, q, run', lossy')
                 PROVE  HasIt(u, q, run', file', lossy', row')
      BY KeptByItem DEF HasIt
    <2>1. HasIt(u, q, run, file, lossy, row) /\ Counts(u, q, run, lossy)
      BY <1>0, KeptByItem DEF WikiInv, Counts
    <2>2. ASSUME run[q].pc = "done" PROVE \E k \in Row : row'[k].live /\ row'[k].type = u
      <3>1. q \in Listed(u) /\ q \notin lossy'
        BY <2>1, <2>2 DEF Counts, Listed, Contributors, Contributes, At
      <3>2. u # row[i].type
        BY <1>0, <3>1
      <3>3. PICK k \in Row : row[k].live /\ row[k].type = u
        BY <2>1, <2>2 DEF HasIt
      <3> QED BY <1>5, <3>2, <3>3
    <2> QED BY <1>0, <2>1, <2>2 DEF HasIt
  <1>12. Decided'
    <2> SUFFICES ASSUME NEW c \in Approval PROVE RowHolds(c, row', appr')
      BY DecidedByRow
    <2>0. RowHolds(c, row, appr)
      BY DecidedByRow DEF WikiInv
    <2>1. \A b \in Approval : /\ appr'[b].st = appr[b].st /\ appr'[b].row = appr[b].row
                              /\ appr'[b].odd = appr[b].odd
      BY <1>4, <1>5
    <2>2. CASE c = a
      <3>1. appr[c].st = "rejected" => appr[c].odd
        BY <1>0, <1>1, <2>2 DEF RowHolds
      <3>2. ~row'[appr[c].row].live
        BY <1>3, <1>5, <2>2 DEF i
      <3>3. appr'[c].todo = FALSE /\ appr[c].st # "none"
        BY <1>0, <1>1, <1>4, <1>5, <2>2 DEF RowHolds
      <3> QED BY <1>6, <2>0, <2>1, <3>1, <3>2, <3>3 DEF RowHolds
    <2>3. CASE c # a /\ appr[c].row = i
      <3>1. appr[a].row = appr[c].row /\ appr[a].st # "none"
        BY <1>0, <1>1, <2>3 DEF RowHolds, i
      <3>2. ~row'[appr[c].row].live
        BY <1>3, <1>5, <2>3
      <3>3. appr'[c] = appr[c]
        BY <1>5, <2>3
      <3> QED BY <1>6, <2>0, <2>1, <2>3, <3>1, <3>2, <3>3 DEF RowHolds
    <2>4. CASE c # a /\ appr[c].row # i
      <3>1. appr'[c] = appr[c]
        BY <1>5, <2>4
      <3>2. appr[c].st # "none" => row'[appr[c].row] = row[appr[c].row]
        BY <1>5, <2>0, <2>4 DEF RowHolds
      <3> QED BY <2>0, <2>1, <3>1, <3>2 DEF RowHolds
    <2> QED BY <2>2, <2>3, <2>4
  <1> QED BY <1>7, <1>8, <1>9, <1>10, <1>11, <1>12, <1>13 DEF WikiInv

\* The page comes back.
LEMMA RejectStep ==
  ASSUME WikiInv, NEW a \in Approval, Reject(a)
  PROVE  WikiInv'
  <1> DEFINE i == appr[a].row
             n == [appr[a] EXCEPT !.st = "rejected", !.odd = appr[a].odd \/ appr[a].todo]
             d == [row[i] EXCEPT !.live = TRUE]
  <1>0. /\ TypeOK /\ appr[a] \in ApprovalState /\ appr[a].st = "pending"
        /\ row[i].live \/ LiveOf(row[i].type) = {}
        /\ torn' = IF ~row[i].live /\ \E k \in Row \ {i} : row[k].in /\ row[k].type = row[i].type
                   THEN torn \cup {row[i].type} ELSE torn
        /\ UNCHANGED <<scope, file, run, lossy>>
    BY DEF WikiInv, TypeOK, Reject, Decidable
  <1>1. RowHolds(a, row, appr) /\ i \in Row /\ row[i] \in RowState /\ row[i].in
    BY <1>0, DecidedByRow DEF WikiInv, RowHolds, TypeOK
  <1>2. row' = [row EXCEPT ![i] = d] /\ appr' = [appr EXCEPT ![a] = n]
    BY <1>0, <1>1 DEF Reject, TypeOK
  <1>3. /\ d \in RowState /\ d.type = row[i].type /\ d.hash = row[i].hash
        /\ d.live = TRUE /\ d.in = row[i].in /\ d.dropped = row[i].dropped
    BY <1>1 DEF RowState
  <1>4. /\ n \in ApprovalState /\ n.st = "rejected" /\ n.row = appr[a].row
        /\ n.todo = appr[a].todo /\ n.odd = (appr[a].odd \/ appr[a].todo)
    BY <1>0 DEF ApprovalState
  <1> HIDE DEF n, d
  <1>5. /\ row' \in [Row -> RowState] /\ row'[i] = d /\ \A k \in Row \ {i} : row'[k] = row[k]
        /\ appr' \in [Approval -> ApprovalState] /\ appr'[a] = n
        /\ \A b \in Approval \ {a} : appr'[b] = appr[b]
    BY <1>0, <1>1, <1>2, <1>3, <1>4 DEF TypeOK
  <1>6. \A k \in Row : /\ row'[k].type = row[k].type /\ row'[k].in = row[k].in
                       /\ row'[k].hash = row[k].hash /\ row'[k].dropped = row[k].dropped
                       /\ row[k].live => row'[k].live
                       /\ row'[k].live => row[k].live \/ k = i
    BY <1>3, <1>5
  <1> HIDE DEF i
  <1>7. TypeOK'
    <2>1. row[i].type \in Type
      BY <1>1 DEF RowState
    <2>2. torn' \subseteq Type
      BY <1>0, <2>1 DEF TypeOK
    <2> QED BY <1>0, <1>5, <2>2 DEF TypeOK
  <1>8. InPlace' /\ OneLive'
    <2>1. InPlace'
      BY <1>0 DEF WikiInv, InPlace
    <2>2. \A k \in Row : row[k].live /\ row[k].type = row[i].type => k = i
      BY <1>0, <1>1 DEF WikiInv, OneLive, LiveOf, LiveRows
    <2>3. OneLive'
      BY <1>0, <1>1, <1>6, <2>2 DEF WikiInv, OneLive
    <2> QED BY <2>1, <2>3
  <1>13. torn \subseteq torn'
    BY <1>0
  <1>9. Mirroring' /\ InFile'
    <2>1. ASSUME NEW q \in Run PROVE MirrorOk(q, run', file', torn') /\ FileOk(q, run', file', torn', lossy')
      <3>1. MirrorOk(q, run, file, torn) /\ FileOk(q, run, file, torn, lossy)
        BY MirrorByWriter, FileByWriter DEF WikiInv
      <3> QED BY <1>0, <1>13, <3>1 DEF MirrorOk, FileOk
    <2> QED BY <2>1, MirrorByWriter, FileByWriter
  <1>10. HashKept'
    <2> SUFFICES ASSUME NEW k \in Row, row[k].in
                 PROVE  \/ row[k].hash = file[row[k].type]
                        \/ row[k].type \in torn'
                        \/ \E q \in Run : Writing(q, row[k].type)
                        \/ ~row'[k].live /\ \E l \in Row \ {k} : row[l].in /\ row[l].type = row[k].type
      BY <1>0, <1>6 DEF HashKept, Writing
    <2>1. \/ row[k].hash = file[row[k].type]
          \/ row[k].type \in torn
          \/ \E q \in Run : Writing(q, row[k].type)
          \/ ~row[k].live /\ \E l \in Row \ {k} : row[l].in /\ row[l].type = row[k].type
      BY DEF WikiInv, HashKept
    <2>2. CASE ~row[k].live /\ \E l \in Row \ {k} : row[l].in /\ row[l].type = row[k].type
      <3>1. CASE k = i
        BY <1>0, <2>2, <3>1
      <3>2. CASE k # i
        BY <1>6, <2>2, <3>2
      <3> QED BY <3>1, <3>2
    <2> QED BY <1>13, <2>1, <2>2
  <1>11. Kept'
    <2> SUFFICES ASSUME NEW u \in Type, NEW q \in Run PROVE HasIt(u, q, run', file', lossy', row')
      BY KeptByItem
    <2>1. HasIt(u, q, run, file, lossy, row)
      BY KeptByItem DEF WikiInv
    <2> QED BY <1>0, <1>6, <2>1 DEF HasIt, Counts
  <1>12. Decided'
    <2> SUFFICES ASSUME NEW c \in Approval PROVE RowHolds(c, row', appr')
      BY DecidedByRow
    <2>0. RowHolds(c, row, appr)
      BY DecidedByRow DEF WikiInv
    <2>1. \A b \in Approval : /\ appr'[b].row = appr[b].row /\ appr'[b].todo = appr[b].todo
                              /\ appr[b].st = "rejected" => appr'[b].st = "rejected"
                              /\ appr[b].st # "none" => appr'[b].st # "none"
      BY <1>0, <1>4, <1>5
    <2>2. CASE c = a
      <3>1. appr'[c].st = "rejected" /\ appr[c].row = i /\ row'[appr[c].row].live
        BY <1>3, <1>4, <1>5, <2>2 DEF i
      <3>2. appr'[c].todo => appr'[c].odd
        BY <1>4, <1>5, <2>2
      <3> QED BY <1>1, <1>6, <2>1, <3>1, <3>2 DEF RowHolds
    <2>3. CASE c # a /\ appr[c].row = i
      <3>1. appr'[a].row = appr'[c].row /\ appr'[a].st = "rejected"
        BY <1>4, <1>5, <2>1, <2>3 DEF i
      <3>2. row'[appr[c].row].live
        BY <1>3, <1>5, <2>3
      <3>3. appr'[c] = appr[c]
        BY <1>5, <2>3
      <3> QED BY <1>6, <2>0, <2>1, <2>3, <3>1, <3>2, <3>3 DEF RowHolds
    <2>4. CASE c # a /\ appr[c].row # i
      <3>1. appr'[c] = appr[c]
        BY <1>5, <2>4
      <3>2. appr[c].st # "none" => row'[appr[c].row] = row[appr[c].row]
        BY <1>5, <2>0, <2>4 DEF RowHolds
      <3> QED BY <2>0, <2>1, <3>1, <3>2 DEF RowHolds
    <2> QED BY <2>2, <2>3, <2>4
  <1> QED BY <1>7, <1>8, <1>9, <1>10, <1>11, <1>12 DEF WikiInv

----------------------------------------------------------------------------
LEMMA InitWikiInv == Init => WikiInv
  <1> SUFFICES ASSUME Init PROVE WikiInv
    OBVIOUS
  <1>1. NoRow \in RowState /\ NoRow.in = FALSE /\ NoRow.live = FALSE
    BY DEF NoRow, RowState, Type, Body
  <1>2. NotStarted \in RunState /\ NotStarted.pc = "none" /\ NotStarted.kind = "item"
    BY DEF NotStarted, RunState, Type, Body
  <1>3. /\ NoApproval \in ApprovalState /\ NoApproval.st = "none" /\ NoApproval.todo = FALSE
    BY DEF NoApproval, ApprovalState
  <1>4. /\ \A i \in Row : row[i] = NoRow
        /\ \A r \in Run : run[r] = NotStarted
        /\ \A a \in Approval : appr[a] = NoApproval
    BY DEF Init
  <1>5. TypeOK
    BY <1>1, <1>2, <1>3 DEF Init, TypeOK
  <1>6. InPlace /\ OneLive /\ Mirroring /\ InFile
    BY <1>1, <1>2, <1>4 DEF InPlace, OneLive, Mirroring, InFile, At, Writing
  <1>7. HashKept /\ Kept
    BY <1>1, <1>2, <1>4 DEF HashKept, Kept, Contributors, Contributes
  <1>8. Decided
    BY <1>3, <1>4 DEF Decided
  <1> QED BY <1>5, <1>6, <1>7, <1>8 DEF WikiInv

LEMMA NextWikiInv == WikiInv /\ [Next]_vars => WikiInv'
  <1> SUFFICES ASSUME WikiInv, [Next]_vars PROVE WikiInv'
    OBVIOUS
  <1>1. ASSUME NEW r \in Run, NEW t \in Type,
               StartItem(r, t) \/ \E b \in Batches : StartPush(r, b, t)
        PROVE  WikiInv'
    BY <1>1, StartSteps
  <1>11. ASSUME NEW r \in Run, StartSource(r) PROVE WikiInv'
    <2>1. "source" \in Type
      BY DEF Type
    <2> QED BY <1>11, <2>1, StartSteps
  <1>2. ASSUME NEW r \in Run, Resolve(r) \/ ReadAndMerge(r) PROVE WikiInv'
    BY <1>2, ItemSteps
  <1>3. ASSUME NEW r \in Run, PushDelete(r) \/ PushSet(r) PROVE WikiInv'
    BY <1>3, PushSteps
  <1>4. ASSUME NEW r \in Run, PushCommit(r) PROVE WikiInv'
    BY <1>4, PushCommitStep
  <1>5. ASSUME NEW r \in Run, Write(r) PROVE WikiInv'
    BY <1>5, QuotaSteps, TruncateStep, FillStep, UpsertStep DEF Write
  <1>6. ASSUME NEW r \in Run, Fail(r) \/ FailInFill(r) PROVE WikiInv'
    BY <1>6, QuotaSteps, TornStep, FailInFillStep
  <1>7. ASSUME NEW a \in Approval,
               (\E i \in Row : Propose(a, i)) \/ ProposerDies(a) \/ Approve(a)
        PROVE  WikiInv'
    BY <1>7, ApprovalSteps
  <1>8. ASSUME NEW a \in Approval, SoftDelete(a) PROVE WikiInv'
    BY <1>8, SoftDeleteStep
  <1>9. ASSUME NEW a \in Approval, Reject(a) PROVE WikiInv'
    BY <1>9, RejectStep
  <1>10. CASE UNCHANGED vars
    <2>1. /\ scope' = scope /\ row' = row /\ file' = file /\ run' = run /\ appr' = appr
          /\ torn' = torn /\ lossy' = lossy
      BY <1>10 DEF vars
    <2>2. TypeOK' /\ InPlace' /\ OneLive'
      BY <2>1 DEF WikiInv, TypeOK, InPlace, OneLive
    <2>3. Mirroring' /\ InFile' /\ Kept'
      BY <2>1, MirrorByWriter, FileByWriter, KeptByItem DEF WikiInv
    <2>4. HashKept'
      BY <2>1 DEF WikiInv, HashKept, Writing
    <2>5. Decided'
      BY <2>1, DecidedByRow DEF WikiInv
    <2> QED BY <2>2, <2>3, <2>4, <2>5 DEF WikiInv
  <1> QED
    BY <1>1, <1>2, <1>3, <1>4, <1>5, <1>6, <1>7, <1>8, <1>9, <1>10, <1>11 DEF Next

\* The invariant of the wiki, for every number of writers, rows, approvals and
\* every set of push batches.
THEOREM WikiInvariant == Spec => []WikiInv
  BY InitWikiInv, NextWikiInv, PTL DEF Spec

\* A live page has its file in the vault, and its content_hash is that of the
\* body on disk but while a write is under way or, until the next write that
\* none overlaps, after one that was cut or overlapped (write_gate.rs:97).
THEOREM MirrorAlwaysMatches == Spec => []MirrorMatches
  <1>1. WikiInv => MirrorMatches
    BY DEF WikiInv, OneLive, HashKept, MirrorMatches, LiveRows
  <1> QED BY <1>1, WikiInvariant, PTL

\* What an ingest's item wrote stays in its page, unless that very content was
\* taken out by a writer that was overtaken or whose merge was cut, by a push,
\* a source page, a write that failed or overlapped inside the file, or by the
\* deletion of the page.
THEOREM ContributionsStay == Spec => []ContributionKept
  <1>1. WikiInv => ContributionKept
    <2> SUFFICES ASSUME WikiInv, NEW r \in Run, run[r].kind = "item", At(r, "done"), r \notin lossy
                 PROVE  r \in Content(run[r].type)
                        \/ \E q \in Run : At(q, "fill") /\ run[q].type = run[r].type
      BY DEF ContributionKept
    <2>1. run[r].type \in Type
      BY DEF WikiInv, TypeOK, RunState
    <2>2. r \in Contributors(run[r].type) \ lossy
      BY DEF Contributors, Contributes, At
    <2> QED BY <2>1, <2>2 DEF WikiInv, Kept
  <1> QED BY <1>1, WikiInvariant, PTL

\* A decided approval keeps its effect on the page.
THEOREM DecisionsAlwaysHold == Spec => []DecisionsHold
  <1>1. WikiInv => DecisionsHold
    BY DEF WikiInv, Decided, DecisionsHold
  <1> QED BY <1>1, WikiInvariant, PTL

================================================================================
