------------------------ MODULE OfflineOutboxProofs ------------------------
(***************************************************************************)
(* Proofs about OfflineOutbox, for any number of calls, flushes, captures, *)
(* mutations, losses and crashes: a capture has one row on the server, is  *)
(* never lost but by a cut rewrite of the queue, and is in the feed while  *)
(* it is queued, but for its deletion and a cut rewrite of the feed, until *)
(* the next read; the last edit or delete of a row is not lost but to a    *)
(* mutation of the row that was under way.                                 *)
(*                                                                         *)
(* NothingLost is not inductive: a turn that dequeues needs to know that   *)
(* the answer it acts on is true, AnsweredIsStored, which holds because    *)
(* rows are never removed and a request is answered with the row.          *)
(***************************************************************************)
EXTENDS OfflineOutbox, WellFoundedInduction, TLAPS

Id == [at : {"local", "server"}, n : Nat]
Item == [id : Id, kind : {"capture", "refresh", "edit", "delete"}, n : Nat]
Req == [item : Item, st : {"sent", "looked", "done", "refused"}, got : SUBSET Id]
CallRec == [op : {"idle", "once", "flush", "mutate"}, todo : SUBSET Item, req : Req]
Row == [key : Nat, body : Nat, active : BOOLEAN]

Keys(rows) == {rows[i].key : i \in DOMAIN rows}
OneRow(rows) == \A i, j \in DOMAIN rows : rows[i].key = rows[j].key => i = j

Types ==
  /\ made \in Nat /\ numbered \in Nat
  /\ queue \subseteq Nat /\ torn \subseteq Nat
  /\ muts \subseteq Item /\ feed \subseteq Id
  /\ call \in [Calls \cup Flushes -> CallRec]
  /\ late \subseteq Req /\ (\A r \in late : Open(r))
  /\ ideas \in Seq(Row)

AnsweredIsStored ==
  \A p \in Calls \cup Flushes :
    call[p].req.st = "done" /\ call[p].req.item.kind = "capture"
    => call[p].req.item.n \in Keys(ideas)

KeptSomewhere == \A c \in 1..made : c \in queue \/ c \in Keys(ideas) \/ c \in torn

Numbered == \A m \in muts : m.n <= numbered

OutboxInv == Types /\ OneRow(ideas) /\ AnsweredIsStored /\ KeptSomewhere /\ Numbered
-----------------------------------------------------------------------------
(***************************************************************************)
(* The loops of flush and flushMutations send an item of their list, and a *)
(* call that has just sent waits for its answer.                           *)
(***************************************************************************)
LEMMA OldestIsIn ==
  ASSUME NEW S \in SUBSET Item, S # {}
  PROVE  Oldest(S) \in S
<1> DEFINE N == {m.n : m \in S}
<1>1. PICK a \in S : TRUE
  OBVIOUS
<1>2. N \in SUBSET Nat /\ a.n \in N
  BY <1>1 DEF Item
<1> DEFINE Less == {ss \in Nat \X Nat : ss[1] < ss[2]}
<1>3. IsWellFoundedOn(Less, Nat)
  BY NatLessThanWellFounded, Zenon DEF OpToRel
<1>4. PICK k \in N : \A j \in N : ~ (<<j, k>> \in Less)
  <2> HIDE DEF N, Less
  <2> QED BY <1>2, <1>3, WFMin
<1>5. ASSUME NEW j \in N PROVE k <= j
  <2>1. j \in Nat /\ k \in Nat
    <3> HIDE DEF N
    <3> QED BY <1>2
  <2>2. j < k => <<j, k>> \in Less
    <3> HIDE DEF N
    <3> QED BY <2>1
  <2> HIDE DEF N, Less
  <2> QED BY <1>4, <2>1, <2>2
<1>6. PICK m \in S : m.n = k
  BY <1>4
<1>7. \A o \in S : m.n <= o.n
  BY <1>5, <1>6
<1> QED BY <1>6, <1>7 DEF Oldest

LEMMA FreshRequest ==
  ASSUME NEW m \in Item
  PROVE  Request(m) \in Req /\ Request(m).st = "sent" /\ Once(m) \in CallRec
         /\ Once(m).req.st = "sent"
BY DEF Request, RequestAt, CallOf, Once, Req, CallRec

LEMMA FreshCall ==
  /\ NoCall \in CallRec /\ NoCall.req.st = "sent"
  /\ \A S \in SUBSET Item, op \in {"flush", "mutate"} :
       S # {} => SendNext(op, S) \in CallRec /\ SendNext(op, S).req.st = "sent"
<1>1. LiveFeed \in Item
  BY DEF LiveFeed, Mutation, Local, Item, Id
<1>2. NoCall \in CallRec /\ NoCall.req.st = "sent"
  BY <1>1, FreshRequest DEF NoCall, CallOf, CallRec
<1>3. ASSUME NEW S \in SUBSET Item, NEW op \in {"flush", "mutate"}, S # {}
      PROVE  SendNext(op, S) \in CallRec /\ SendNext(op, S).req.st = "sent"
  <2>1. Oldest(S) \in Item
    BY <1>3, OldestIsIn
  <2> QED BY <2>1, FreshRequest DEF SendNext, CallOf, CallRec
<1> QED BY <1>2, <1>3

LEMMA FlushCalls ==
  ASSUME muts \in SUBSET Item, NEW q \in SUBSET Item
  PROVE  /\ BeginMutations \in CallRec /\ BeginMutations.req.st = "sent"
         /\ FlushOf(q) \in CallRec /\ FlushOf(q).req.st = "sent"
BY FreshCall DEF BeginMutations, FlushOf

LEMMA QueuedAreItems ==
  ASSUME NEW c \in Nat
  PROVE  Queued(c) \in Item /\ Local(c) \in Id
BY DEF Queued, Mutation, Local, Item, Id
-----------------------------------------------------------------------------
(***************************************************************************)
(* What a statement of the server may do: rows keep their keys and stay    *)
(* one per key, and a capture is answered only when its row is there.      *)
(***************************************************************************)
Sound(r, h) ==
  /\ h.req \in Req /\ h.req.item = r.item
  /\ h.rows \in Seq(Row) /\ OneRow(h.rows) /\ Keys(ideas) \subseteq Keys(h.rows)
  /\ h.req.st = "done" /\ r.item.kind = "capture" => r.item.n \in Keys(h.rows)

LEMMA RowOfKey ==
  ASSUME NEW c, ideas \in Seq(Row)
  PROVE  /\ RowOf(c) # {} <=> c \in Keys(ideas)
         /\ RowOf(c) \subseteq Id /\ Active \subseteq Id
<1>1. \A i \in DOMAIN ideas : Server(i) \in Id
  BY DEF Server, Id
<1>2. RowOf(c) \subseteq Id /\ Active \subseteq Id
  BY <1>1 DEF RowOf, Active
<1>3. ASSUME RowOf(c) # {} PROVE c \in Keys(ideas)
  BY <1>3 DEF RowOf, Keys
<1>4. ASSUME c \in Keys(ideas) PROVE RowOf(c) # {}
  <2>1. PICK i \in DOMAIN ideas : ideas[i].key = c
    BY <1>4 DEF Keys
  <2>2. Server(i) \in RowOf(c)
    BY <2>1 DEF RowOf
  <2> QED BY <2>2
<1> QED BY <1>2, <1>3, <1>4

LEMMA Replies ==
  ASSUME NEW r \in Req
  PROVE  /\ Looked(r) \in Req /\ Looked(r).item = r.item /\ Looked(r).st = "looked"
         /\ Refused(r) \in Req /\ Refused(r).item = r.item /\ Refused(r).st = "refused"
         /\ \A got \in SUBSET Id : Done(r, got) \in Req /\ Done(r, got).item = r.item
BY DEF Done, Looked, Refused, RequestAt, Req

LEMMA CaptureIsSound ==
  ASSUME NEW r \in Req, Open(r), r.item.kind = "capture", ideas \in Seq(Row), OneRow(ideas)
  PROVE  Sound(r, HandleCapture(r))
<1> DEFINE n == r.item.n
<1>0. n \in Nat /\ r.st \in {"sent", "looked"}
  BY DEF Req, Item, Open
<1>1. CASE RowOf(n) # {}
  <2>1. HandleCapture(r) = Step(Done(r, RowOf(n)), ideas)
    BY <1>1 DEF HandleCapture
  <2>2. RowOf(n) \in SUBSET Id /\ n \in Keys(ideas)
    BY <1>1, RowOfKey
  <2>3. Done(r, RowOf(n)) \in Req /\ Done(r, RowOf(n)).item = r.item
    BY <2>2, Replies
  <2> QED BY <2>1, <2>2, <2>3 DEF Sound, Step
<1>2. CASE RowOf(n) = {} /\ r.st = "sent"
  <2>1. HandleCapture(r) = Step(Looked(r), ideas)
    BY <1>2 DEF HandleCapture
  <2>2. Looked(r) \in Req /\ Looked(r).item = r.item /\ Looked(r).st = "looked"
    BY Replies
  <2> QED BY <2>1, <2>2 DEF Sound, Step
<1>3. CASE RowOf(n) = {} /\ r.st = "looked"
  <2> DEFINE row == Idea(n, 0, TRUE)
             rows == Append(ideas, row)
             got == {Server(Len(ideas) + 1)}
  <2>1. HandleCapture(r) = Step(Done(r, got), rows)
    BY <1>3 DEF HandleCapture
  <2>2. n \notin Keys(ideas)
    BY <1>3, RowOfKey
  <2>3. row \in Row /\ row.key = n
    BY <1>0 DEF Row, Idea
  <2>4. /\ rows \in Seq(Row) /\ Len(ideas) \in Nat
        /\ DOMAIN rows = 1..(Len(ideas) + 1) /\ DOMAIN ideas = 1..Len(ideas)
        /\ rows[Len(ideas) + 1] = row
        /\ \A i \in 1..Len(ideas) : rows[i] = ideas[i]
    <3> HIDE DEF row
    <3> QED BY <2>3
  <2> HIDE DEF row, rows, n
  <2>5. OneRow(rows)
    BY <2>2, <2>3, <2>4 DEF OneRow, Keys
  <2>6. n \in Keys(rows)
    BY <2>3, <2>4 DEF Keys
  <2>7. Keys(ideas) \subseteq Keys(rows)
    BY <2>4 DEF Keys
  <2>8. got \in SUBSET Id
    BY <2>4 DEF Server, Id
  <2>9. Done(r, got) \in Req /\ Done(r, got).item = r.item
    BY <2>8, Replies
  <2> HIDE DEF got
  <2> QED BY <2>1, <2>4, <2>5, <2>6, <2>7, <2>9 DEF Sound, Step, n
<1> QED BY <1>0, <1>1, <1>2, <1>3

LEMMA ChangeIsSound ==
  ASSUME NEW r \in Req, r.item.kind \in {"edit", "delete"}, ideas \in Seq(Row), OneRow(ideas)
  PROVE  Sound(r, HandleChange(r))
<1> DEFINE k == r.item.id.n
           row == Changed(ideas[k], r.item)
           rows == [ideas EXCEPT ![k] = row]
<1>1. CASE r.item.id \notin Active
  <2>1. HandleChange(r) = Step(Refused(r), ideas)
    BY <1>1 DEF HandleChange
  <2> QED BY <2>1, Replies DEF Sound, Step
<1>2. CASE r.item.id \in Active
  <2>1. k \in DOMAIN ideas
    BY <1>2 DEF Active, Server
  <2>2. row \in Row /\ row.key = ideas[k].key
    <3>1. ideas[k] \in Row /\ r.item.n \in Nat
      BY <2>1 DEF Req, Item
    <3> HIDE DEF k
    <3>2. CASE r.item.kind = "edit"
      BY <3>1, <3>2 DEF Row, Changed, Idea
    <3>3. CASE r.item.kind = "delete"
      BY <3>1, <3>3 DEF Row, Changed, Idea
    <3> QED BY <3>2, <3>3
  <2>3. HandleChange(r) = Step(Done(r, {}), rows)
    BY <1>2 DEF HandleChange
  <2> HIDE DEF row, k
  <2>4. rows \in Seq(Row) /\ DOMAIN rows = DOMAIN ideas
    BY <2>1, <2>2
  <2>5. \A i \in DOMAIN ideas : rows[i].key = ideas[i].key
    BY <2>1, <2>2
  <2> HIDE DEF rows
  <2>6. OneRow(rows) /\ Keys(ideas) \subseteq Keys(rows)
    BY <2>4, <2>5 DEF OneRow, Keys
  <2> QED BY <2>3, <2>4, <2>6, Replies DEF Sound, Step
<1> QED BY <1>1, <1>2

LEMMA HandleIsSound ==
  ASSUME NEW r \in Req, Open(r), ideas \in Seq(Row), OneRow(ideas)
  PROVE  Sound(r, Handle(r))
<1>1. CASE r.item.kind = "capture"
  BY <1>1, CaptureIsSound DEF Handle
<1>2. CASE r.item.kind \in {"edit", "delete"}
  <2>1. Handle(r) = HandleChange(r)
    BY <1>2 DEF Handle
  <2> QED BY <1>2, <2>1, ChangeIsSound
<1>3. CASE r.item.kind = "refresh"
  <2>1. Handle(r) = Step(Done(r, Active), ideas)
    BY <1>3 DEF Handle
  <2>2. Done(r, Active) \in Req /\ Done(r, Active).item = r.item
    BY RowOfKey, Replies
  <2> QED BY <1>3, <2>1, <2>2 DEF Sound, Step
<1> QED BY <1>1, <1>2, <1>3 DEF Req, Item
-----------------------------------------------------------------------------
(***************************************************************************)
(* The invariant holds at the start and is kept by every action.           *)
(***************************************************************************)
LEMMA InitOutbox == Init => OutboxInv
<1> SUFFICES ASSUME Init PROVE OutboxInv
  OBVIOUS
<1> USE DEF Init
<1>1. Types
  BY FreshCall DEF Types
<1>2. OneRow(ideas) /\ KeptSomewhere /\ Numbered
  BY DEF OneRow, KeptSomewhere, Numbered
<1>3. AnsweredIsStored
  BY FreshCall DEF AnsweredIsStored
<1> QED BY <1>1, <1>2, <1>3 DEF OutboxInv

(***************************************************************************)
(* A turn puts a call that awaits something in the place of another, and   *)
(* leaves the server alone: answers stay true.                             *)
(***************************************************************************)
LEMMA NewCall ==
  ASSUME OutboxInv, NEW p \in Calls \cup Flushes, NEW c \in CallRec, c.req.st # "done",
         call' = [call EXCEPT ![p] = c], ideas' = ideas
  PROVE  call' \in [Calls \cup Flushes -> CallRec] /\ AnsweredIsStored' /\ OneRow(ideas)'
BY DEF OutboxInv, Types, AnsweredIsStored, OneRow, Keys

(***************************************************************************)
(* A statement of the server on a request, whoever waits for its answer.   *)
(***************************************************************************)
LEMMA Served ==
  ASSUME OutboxInv, NEW r \in Req, Open(r), ideas' = Handle(r).rows
  PROVE  /\ ideas' \in Seq(Row) /\ OneRow(ideas') /\ Keys(ideas) \subseteq Keys(ideas')
         /\ Handle(r).req \in Req /\ Handle(r).req.item = r.item
         /\ Handle(r).req.st = "done" /\ r.item.kind = "capture" => r.item.n \in Keys(ideas')
BY HandleIsSound DEF OutboxInv, Types, Sound

LEMMA Capped ==
  ASSUME NEW rows, NEW q, NEW f \in CapFeed(rows, q)
  PROVE  f \subseteq rows /\ rows \cap Rows(q) \subseteq f
BY DEF CapFeed

LEMMA Died ==
  ASSUME OutboxInv, Die, feed' \subseteq feed
  PROVE  /\ call' \in [Calls \cup Flushes -> CallRec] /\ AnsweredIsStored' /\ OneRow(ideas)'
         /\ late' \subseteq Req /\ (\A r \in late' : Open(r))
         /\ ideas' \in Seq(Row) /\ feed' \subseteq Id /\ made' \in Nat /\ numbered' \in Nat
         /\ Keys(ideas') = Keys(ideas) /\ made' = made /\ numbered' = numbered
<1> USE DEF OutboxInv, Die
<1>1. call' \in [Calls \cup Flushes -> CallRec] /\ (\A p \in Calls \cup Flushes : call'[p].req.st = "sent")
  BY FreshCall
<1>2. AnsweredIsStored'
  BY <1>1 DEF AnsweredIsStored
<1>3. \A p \in Calls \cup Flushes : call[p].req \in Req
  BY DEF Types, CallRec
<1>4. late' \subseteq Req /\ (\A r \in late' : Open(r))
  BY <1>3 DEF Types, Awaits
<1> QED BY <1>1, <1>2, <1>4 DEF Types, OneRow, Keys

LEMMA StepOutbox == OutboxInv /\ [Next]_vars => OutboxInv'
<1> SUFFICES ASSUME OutboxInv, [Next]_vars PROVE OutboxInv'
  OBVIOUS
<1> USE DEF OutboxInv
<1>1. ASSUME NEW p \in Calls, Capture(p) PROVE OutboxInv'
  <2> USE <1>1 DEF Capture
  <2>1. made' \in Nat /\ made' = made + 1 /\ Queued(made') \in Item /\ Local(made') \in Id
    BY QueuedAreItems DEF Types
  <2>2. Once(Queued(made')) \in CallRec /\ Once(Queued(made')).req.st = "sent"
    BY <2>1, FreshRequest
  <2>3. call' \in [Calls \cup Flushes -> CallRec] /\ AnsweredIsStored' /\ OneRow(ideas)'
    BY <2>2, NewCall
  <2>4. feed' \subseteq Id
    BY <2>1, Capped DEF Types
  <2>5. Types'
    BY <2>1, <2>3, <2>4 DEF Types, Open
  <2>6. KeptSomewhere' /\ Numbered'
    BY <2>1 DEF KeptSomewhere, Numbered, Types
  <2> QED BY <2>3, <2>5, <2>6
<1>2. ASSUME NEW p \in Calls, NEW id \in feed, Edit(p, id) PROVE OutboxInv'
  <2> DEFINE m == Mutation(id, "edit", numbered + 1)
  <2> USE <1>2 DEF Edit
  <2>1. m \in Item /\ m.n = numbered + 1 /\ numbered' = numbered + 1
    BY DEF Types, Mutation, Item
  <2>2. muts' \subseteq muts \cup {m}
    BY DEF EnqueueEdit
  <2> HIDE DEF m
  <2>3. Once(m) \in CallRec /\ Once(m).req.st = "sent"
    BY <2>1, FreshRequest
  <2>4. call' \in [Calls \cup Flushes -> CallRec] /\ AnsweredIsStored' /\ OneRow(ideas)'
    BY <2>3, NewCall DEF m
  <2>5. Types'
    BY <2>1, <2>2, <2>4 DEF Types, Open
  <2>6. KeptSomewhere' /\ Numbered'
    BY <2>1, <2>2 DEF KeptSomewhere, Numbered, Types, Item
  <2> QED BY <2>4, <2>5, <2>6
<1>3. ASSUME NEW p \in Calls, NEW id \in feed, Delete(p, id) PROVE OutboxInv'
  <2> DEFINE m == Mutation(id, "delete", numbered + 1)
  <2> USE <1>3 DEF Delete
  <2>1. m \in Item /\ m.n = numbered + 1 /\ numbered' = numbered + 1
    BY DEF Types, Mutation, Item
  <2>2. muts' \subseteq muts \cup {m}
    BY DEF EnqueueDelete
  <2> HIDE DEF m
  <2>3. Once(m) \in CallRec /\ Once(m).req.st = "sent"
    BY <2>1, FreshRequest
  <2>4. call' \in [Calls \cup Flushes -> CallRec] /\ AnsweredIsStored' /\ OneRow(ideas)'
    BY <2>3, NewCall DEF m
  <2>5. Types'
    BY <2>1, <2>2, <2>4 DEF Types, Open
  <2>6. KeptSomewhere' /\ Numbered'
    BY <2>1, <2>2 DEF KeptSomewhere, Numbered, Types, Item
  <2> QED BY <2>4, <2>5, <2>6
<1>4. ASSUME NEW p \in Calls, Refresh(p) PROVE OutboxInv'
  <2> USE <1>4 DEF Refresh
  <2>1. Once(LiveFeed) \in CallRec /\ Once(LiveFeed).req.st = "sent"
    BY FreshRequest DEF LiveFeed, Mutation, Local, Item, Id
  <2>2. call' \in [Calls \cup Flushes -> CallRec] /\ AnsweredIsStored' /\ OneRow(ideas)'
    BY <2>1, NewCall
  <2> QED BY <2>2 DEF Types, KeptSomewhere, Numbered, Open
<1>5. ASSUME NEW f \in Flushes, Flush(f) PROVE OutboxInv'
  <2> USE <1>5 DEF Flush
  <2> DEFINE q == {Queued(c) : c \in queue}
  <2>1. q \in SUBSET Item
    BY QueuedAreItems DEF Types
  <2> HIDE DEF q
  <2>2. FlushOf(q) \in CallRec /\ FlushOf(q).req.st = "sent"
    BY <2>1, FlushCalls DEF Types
  <2>3. call' \in [Calls \cup Flushes -> CallRec] /\ AnsweredIsStored' /\ OneRow(ideas)'
    BY <2>2, NewCall DEF q
  <2> QED BY <2>3 DEF Types, KeptSomewhere, Numbered, Open
<1>6. ASSUME NEW p \in Calls \cup Flushes, Serve(p) PROVE OutboxInv'
  <2> DEFINE r == call[p].req
             s == Handle(r).req
  <2> USE <1>6 DEF Serve
  <2>1. r \in Req /\ Open(r) /\ call[p] \in CallRec
    BY DEF Types, CallRec, Awaits
  <2>2. /\ ideas' \in Seq(Row) /\ OneRow(ideas') /\ Keys(ideas) \subseteq Keys(ideas')
        /\ s \in Req /\ s.item = r.item
        /\ s.st = "done" /\ r.item.kind = "capture" => r.item.n \in Keys(ideas')
    BY <2>1, Served
  <2> HIDE DEF s
  <2>3. /\ CallOf(call[p].op, call[p].todo, s) \in CallRec
        /\ CallOf(call[p].op, call[p].todo, s).req = s
    BY <2>1, <2>2 DEF CallOf, CallRec
  <2>4. call' = [call EXCEPT ![p] = CallOf(call[p].op, call[p].todo, s)]
    BY DEF s
  <2>5. call' \in [Calls \cup Flushes -> CallRec]
    BY <2>3, <2>4 DEF Types
  <2>6. ASSUME NEW o \in Calls \cup Flushes, call'[o].req.st = "done",
               call'[o].req.item.kind = "capture"
        PROVE  call'[o].req.item.n \in Keys(ideas')
    <3>1. CASE o = p
      <4>1. call'[o].req = s
        BY <2>3, <2>4, <3>1 DEF Types
      <4> QED BY <2>2, <2>6, <4>1
    <3>2. CASE o # p
      BY <2>2, <2>4, <2>6, <3>2 DEF Types, AnsweredIsStored
    <3> QED BY <3>1, <3>2
  <2>7. AnsweredIsStored'
    BY <2>6 DEF AnsweredIsStored
  <2>8. Types'
    BY <2>2, <2>5 DEF Types, Open
  <2>9. KeptSomewhere' /\ Numbered'
    BY <2>2 DEF KeptSomewhere, Numbered
  <2>10. OneRow(ideas)'
    BY <2>2 DEF OneRow
  <2> QED BY <2>7, <2>8, <2>9, <2>10
<1>7. ASSUME NEW r \in late, ServeLate(r) PROVE OutboxInv'
  <2> USE <1>7 DEF ServeLate
  <2>1. r \in Req /\ Open(r)
    BY DEF Types
  <2>2. /\ ideas' \in Seq(Row) /\ OneRow(ideas') /\ Keys(ideas) \subseteq Keys(ideas')
        /\ Handle(r).req \in Req
    BY <2>1, Served
  <2>3. late' \subseteq Req /\ (\A s \in late' : Open(s))
    BY <2>2 DEF Types
  <2>4. Types'
    BY <2>2, <2>3 DEF Types, Open
  <2>5. AnsweredIsStored'
    BY <2>2 DEF AnsweredIsStored
  <2>6. KeptSomewhere' /\ Numbered' /\ OneRow(ideas)'
    BY <2>2 DEF KeptSomewhere, Numbered, OneRow
  <2> QED BY <2>4, <2>5, <2>6
<1>8. ASSUME NEW r \in late, DropLate(r) PROVE OutboxInv'
  BY <1>8 DEF DropLate, Types, Open, AnsweredIsStored, KeptSomewhere, Numbered, OneRow, Keys
<1>9. ASSUME NEW p \in Calls \cup Flushes, Lose(p) PROVE OutboxInv'
  <2> DEFINE c == CallOf(call[p].op, call[p].todo, Refused(call[p].req))
  <2> USE <1>9 DEF Lose
  <2>1. call[p] \in CallRec /\ call[p].req \in Req
    BY DEF Types, CallRec
  <2>2. c \in CallRec /\ c.req.st # "done"
    BY <2>1, Replies DEF CallOf, CallRec
  <2>3. call' \in [Calls \cup Flushes -> CallRec] /\ AnsweredIsStored' /\ OneRow(ideas)'
    <3> HIDE DEF c
    <3>1. call' = [call EXCEPT ![p] = c] /\ ideas' = ideas
      BY DEF c
    <3> QED BY <2>2, <3>1, NewCall
  <2>4. late' \subseteq Req /\ (\A s \in late' : Open(s))
    BY <2>1 DEF Types, Awaits
  <2>5. Types'
    BY <2>3, <2>4 DEF Types, Open
  <2> QED BY <2>3, <2>5 DEF KeptSomewhere, Numbered
<1>10. ASSUME NEW p \in Calls, CaptureAcked(p) PROVE OutboxInv'
  <2> USE <1>10 DEF CaptureAcked, Acked
  <2>1. call' \in [Calls \cup Flushes -> CallRec] /\ AnsweredIsStored' /\ OneRow(ideas)'
    BY FreshCall, NewCall
  <2>2. call[p].req.item.n \in Keys(ideas)
    BY DEF AnsweredIsStored
  <2>3. feed' \subseteq Id
    <3>1. call[p].req.got \subseteq Id
      BY DEF Types, CallRec, Req
    <3> QED BY <3>1, Capped DEF Types
  <2>4. Types'
    BY <2>1, <2>3 DEF Types, Open
  <2>5. KeptSomewhere' /\ Numbered'
    BY <2>2 DEF KeptSomewhere, Numbered
  <2> QED BY <2>1, <2>4, <2>5
<1>11. ASSUME NEW p \in Calls, MutationAcked(p) PROVE OutboxInv'
  <2> USE <1>11 DEF MutationAcked
  <2>1. call' \in [Calls \cup Flushes -> CallRec] /\ AnsweredIsStored' /\ OneRow(ideas)'
    BY FreshCall, NewCall
  <2>2. muts' \subseteq muts
    BY DEF DropMutation
  <2> QED BY <2>1, <2>2 DEF Types, Open, KeptSomewhere, Numbered
<1>12. ASSUME NEW p \in Calls, Refreshed(p) PROVE OutboxInv'
  <2> USE <1>12 DEF Refreshed
  <2>1. call' \in [Calls \cup Flushes -> CallRec] /\ AnsweredIsStored' /\ OneRow(ideas)'
    BY FreshCall, NewCall
  <2>2. feed' \subseteq Id
    <3>1. call[p].req.got \subseteq Id /\ Rows(queue) \subseteq Id
      BY QueuedAreItems DEF Types, CallRec, Req, Rows
    <3> QED BY <3>1, Capped
  <2> QED BY <2>1, <2>2 DEF Types, Open, KeptSomewhere, Numbered
<1>13. ASSUME NEW f \in Flushes, FlushAcked(f) PROVE OutboxInv'
  <2> USE <1>13 DEF FlushAcked
  <2>1. call[f].todo \in SUBSET Item
    BY DEF Types, CallRec
  <2>2. FlushOf(call[f].todo) \in CallRec /\ FlushOf(call[f].todo).req.st = "sent"
    BY <2>1, FlushCalls DEF Types
  <2>3. call' \in [Calls \cup Flushes -> CallRec] /\ AnsweredIsStored' /\ OneRow(ideas)'
    BY <2>2, NewCall
  <2>4. call[f].req.item.n \in Keys(ideas)
    BY DEF AnsweredIsStored, Acked
  <2>5. Types'
    BY <2>3 DEF Types, Open
  <2>6. KeptSomewhere' /\ Numbered'
    BY <2>4 DEF KeptSomewhere, Numbered
  <2> QED BY <2>3, <2>5, <2>6
<1>14. ASSUME NEW f \in Flushes, FlushMutationAcked(f) PROVE OutboxInv'
  <2> DEFINE c == IF call[f].todo = {} THEN NoCall ELSE SendNext("mutate", call[f].todo)
  <2> USE <1>14 DEF FlushMutationAcked
  <2>1. call[f].todo \in SUBSET Item
    BY DEF Types, CallRec
  <2>2. c \in CallRec /\ c.req.st # "done"
    BY <2>1, FreshCall
  <2>3. call' \in [Calls \cup Flushes -> CallRec] /\ AnsweredIsStored' /\ OneRow(ideas)'
    BY <2>2, NewCall
  <2>4. muts' \subseteq muts
    BY DEF DropMutation
  <2> HIDE DEF c
  <2> QED BY <2>3, <2>4 DEF Types, Open, KeptSomewhere, Numbered
<1>15. ASSUME NEW p \in Calls \cup Flushes, Failed(p) PROVE OutboxInv'
  <2> DEFINE c == IF call[p].op = "flush" THEN BeginMutations ELSE NoCall
  <2> USE <1>15 DEF Failed
  <2>1. c \in CallRec /\ c.req.st # "done"
    BY FlushCalls, FreshCall DEF Types
  <2>2. call' \in [Calls \cup Flushes -> CallRec] /\ AnsweredIsStored' /\ OneRow(ideas)'
    BY <2>1, NewCall
  <2> QED BY <2>2 DEF Types, Open, KeptSomewhere, Numbered
<1>16. ASSUME Crash PROVE OutboxInv'
  BY <1>16, Died DEF Crash, Types, KeptSomewhere, Numbered, Open
<1>17. ASSUME NEW rows \in QueueRewrites, NEW cut \in 1..MaxCaptures, CrashInWriteQueue(rows, cut)
       PROVE  OutboxInv'
  <2> USE <1>17 DEF CrashInWriteQueue
  <2>1. rows \subseteq queue /\ (\A c \in queue : c \in rows \/ c \in Keys(ideas))
    BY DEF QueueRewrites, Acked, AnsweredIsStored
  <2>2. \A c \in rows : c \in queue' \/ c \in torn'
    BY <2>1 DEF Types
  <2>3. queue' \subseteq Nat /\ torn' \subseteq Nat /\ torn \subseteq torn'
    BY <2>1 DEF Types
  <2>4. Types'
    BY <2>3, Died DEF Types, Open
  <2>5. KeptSomewhere'
    BY <2>1, <2>2, <2>3, Died DEF KeptSomewhere
  <2> QED BY <2>4, <2>5, Died DEF Numbered
<1>18. ASSUME NEW rows \in MutationRewrites, NEW cut \in 1..MaxMutations,
              CrashInWriteMutations(rows, cut)
       PROVE  OutboxInv'
  <2> USE <1>18 DEF CrashInWriteMutations
  <2>1. muts' \subseteq muts
    BY DEF MutationRewrites, DropMutation
  <2> QED BY <2>1, Died DEF Types, KeptSomewhere, Numbered, Open
<1>20. ASSUME NEW rows \in SUBSET feed, CrashInWriteFeed(rows) PROVE OutboxInv'
  BY <1>20, Died DEF CrashInWriteFeed, Types, KeptSomewhere, Numbered, Open
<1>19. CASE UNCHANGED vars
  BY <1>19 DEF vars, Types, Open, AnsweredIsStored, KeptSomewhere, Numbered, OneRow, Keys
<1> QED
  BY <1>1, <1>2, <1>3, <1>4, <1>5, <1>6, <1>7, <1>8, <1>9, <1>10, <1>11, <1>12, <1>13,
     <1>14, <1>15, <1>16, <1>17, <1>18, <1>19, <1>20 DEF Next
-----------------------------------------------------------------------------
LEMMA OutboxInvariant == Spec => []OutboxInv
BY InitOutbox, StepOutbox, PTL DEF Spec

(***************************************************************************)
(* However often a capture is posted, by its own call, by overlapping      *)
(* flushes and by late requests of a dead app, it has one row.             *)
(***************************************************************************)
THEOREM OneRowPerCaptureHolds == Spec => []OneRowPerCapture
<1>1. OutboxInv => OneRowPerCapture
  BY DEF OutboxInv, OneRow, OneRowPerCapture
<1> QED BY <1>1, OutboxInvariant, PTL

(***************************************************************************)
(* A capture that was made is queued or on the server at any time, unless  *)
(* the app died inside a rewrite of the queue that held it.                *)
(***************************************************************************)
THEOREM NothingLostHolds == Spec => []NothingLost
<1>1. OutboxInv => NothingLost
  BY RowOfKey DEF OutboxInv, Types, KeptSomewhere, NothingLost, OnServer
<1> QED BY <1>1, OutboxInvariant, PTL

(***************************************************************************)
(* The cap of the feed and the lists reads bring back never keep a queued  *)
(* capture out of the feed; only its deletion and a rewrite of the feed    *)
(* cut by the death of the app do, until putFeed brings it back.           *)
(***************************************************************************)
THEOREM QueuedStaysVisibleHolds == Spec => []QueuedStaysVisible
<1>1. Init => QueuedStaysVisible
  BY DEF Init, QueuedStaysVisible
<1>2. ASSUME OutboxInv, QueuedStaysVisible, [Next]_vars, NEW c \in queue'
      PROVE  Local(c) \in feed' \/ c \in hidden'
  <2> DEFINE Goal == Local(c) \in feed' \/ c \in hidden'
  <2>0. (\A q : c \in q => Local(c) \in Rows(q)) /\ (c \in queue => Local(c) \in feed \/ c \in hidden)
    BY <1>2 DEF Rows, QueuedStaysVisible
  <2>1. ASSUME c \in queue, feed \subseteq feed', hidden \subseteq hidden' PROVE Goal
    BY <2>0, <2>1
  <2>2. ASSUME NEW p \in Calls, Capture(p) PROVE Goal
    <3>1. Local(c) \in Rows(queue') /\ (c \in queue \/ c = made') /\ hidden' = hidden
      BY <1>2, <2>0, <2>2 DEF Capture
    <3>2. (feed \cup {Local(made')}) \cap Rows(queue') \subseteq feed'
      BY <2>2, Capped DEF Capture
    <3> QED BY <2>0, <3>1, <3>2
  <2>3. ASSUME NEW p \in Calls, NEW id \in feed, Delete(p, id) PROVE Goal
    BY <1>2, <2>0, <2>3 DEF Delete
  <2>4. ASSUME NEW p \in Calls, CaptureAcked(p) PROVE Goal
    <3> DEFINE k == call[p].req.item.n
    <3>1. c \in queue /\ c # k /\ Local(c) # Local(k) /\ hidden' = hidden
      BY <1>2, <2>4 DEF CaptureAcked, Local
    <3>2. Local(c) \in Rows(queue')
      BY <1>2, <2>0
    <3>3. ((feed \ {Local(k)}) \cup call[p].req.got) \cap Rows(queue') \subseteq feed'
      BY <2>4, Capped DEF CaptureAcked
    <3> HIDE DEF k
    <3> QED BY <2>0, <3>1, <3>2, <3>3
  <2>5. ASSUME NEW p \in Calls, Refreshed(p) PROVE Goal
    <3>1. Local(c) \in Rows(queue)
      BY <1>2, <2>0, <2>5 DEF Refreshed
    <3>2. (Rows(queue) \cup call[p].req.got) \cap Rows(queue) \subseteq feed'
      BY <2>5, Capped DEF Refreshed
    <3> QED BY <3>1, <3>2
  <2> DEFINE Same == queue' \subseteq queue /\ feed' = feed /\ hidden' = hidden
  <2>6. ASSUME NEW p \in Calls \cup Flushes, Serve(p) \/ Lose(p) \/ Failed(p) PROVE Same
    BY <2>6 DEF Serve, Lose, Failed
  <2>7. ASSUME NEW f \in Flushes, Flush(f) \/ FlushAcked(f) \/ FlushMutationAcked(f)
        PROVE  Same
    BY <2>7 DEF Flush, FlushAcked, FlushMutationAcked
  <2>8. ASSUME NEW p \in Calls, NEW id \in feed, Edit(p, id) PROVE Same
    BY <2>8 DEF Edit
  <2>9. ASSUME NEW p \in Calls, Refresh(p) \/ MutationAcked(p) PROVE Same
    BY <2>9 DEF Refresh, MutationAcked
  <2>10. ASSUME NEW r \in late, ServeLate(r) \/ DropLate(r) PROVE Same
    BY <2>10 DEF ServeLate, DropLate
  <2>11. ASSUME NEW rows \in QueueRewrites, NEW cut, CrashInWriteQueue(rows, cut) PROVE Same
    BY <2>11 DEF CrashInWriteQueue, QueueRewrites
  <2>12. ASSUME NEW rows, NEW cut, CrashInWriteMutations(rows, cut) PROVE Same
    BY <2>12 DEF CrashInWriteMutations
  <2>17. ASSUME Crash PROVE Same
    BY <2>17 DEF Crash
  <2>13. ASSUME NEW rows \in SUBSET feed, CrashInWriteFeed(rows) PROVE Goal
    BY <1>2, <2>0, <2>13 DEF CrashInWriteFeed
  <2>14. CASE UNCHANGED vars
    BY <1>2, <2>1, <2>14 DEF vars
  <2>15. Same => Goal
    BY <1>2, <2>1
  <2> HIDE DEF Goal, Same
  <2>16. ASSUME Next PROVE Goal
    BY <2>2, <2>3, <2>4, <2>5, <2>6, <2>7, <2>8, <2>9, <2>10, <2>11, <2>12, <2>13, <2>15, <2>16,
       <2>17 DEF Next
  <2> QED BY <1>2, <2>14, <2>16 DEF Goal
<1>3. OutboxInv /\ QueuedStaysVisible /\ [Next]_vars => QueuedStaysVisible'
  BY <1>2 DEF QueuedStaysVisible
<1> QED BY <1>1, <1>3, OutboxInvariant, PTL DEF Spec
-----------------------------------------------------------------------------
(***************************************************************************)
(* Edits and deletes.  What is wanted of an id is one mutation, the queued *)
(* one if one is queued; as long as no other is under way, nothing else    *)
(* can change the row, and an answer means that the row was changed.       *)
(***************************************************************************)
Exists(id) == id.at = "server" => id.n \in DOMAIN ideas

IdsExist ==
  /\ \A id \in feed : Exists(id)
  /\ \A p \in Calls \cup Flushes : \A id \in call[p].req.got : Exists(id)

WantedOnce ==
  /\ \A w \in want : /\ w \in Item /\ w.kind \in {"edit", "delete"}
                     /\ w.id.at = "server" /\ w.id.n \in DOMAIN ideas
  /\ \A v, w \in want : v.id = w.id => v = w

QueuedIsWanted == \A m \in muts : m.id.at = "server" => m \in want

Calm(w) == w \in want /\ w.kind = "edit" /\ w.id \notin raced

Alone == \A w \in want : Calm(w) => \A o \in UnderWay : o.id = w.id => o = w

\* An answered change is in the row.
Applied(req) ==
  req.st = "done" =>
    /\ req.item.kind = "delete" =>
         req.item.id.n \in DOMAIN ideas /\ ~ideas[req.item.id.n].active
    /\ Calm(req.item) => ideas[req.item.id.n].body = req.item.n

AnsweredIsApplied == \A p \in Calls \cup Flushes : call[p].op # "idle" => Applied(call[p].req)

MutationInv ==
  IdsExist /\ WantedOnce /\ QueuedIsWanted /\ Alone /\ AnsweredIsApplied /\ MutationKept
-----------------------------------------------------------------------------
(***************************************************************************)
(* What the requests under way carry, in the state and in the next one.    *)
(***************************************************************************)
Carried(c) == IF c.op = "idle" THEN {} ELSE c.todo \cup {c.req.item}

Way(l, k) == {r.item : r \in l} \cup UNION {Carried(k[p]) : p \in Calls \cup Flushes}

LEMMA UnderWayIs == UnderWay = Way(late, call) /\ UnderWay' = Way(late', call')
<1>1. \A p : call[p].op # "idle" => Carried(call[p]) = call[p].todo \cup {call[p].req.item}
  BY DEF Carried
<1>2. \A p : call[p].op = "idle" => Carried(call[p]) = {}
  BY DEF Carried
<1>3. UnderWay = Way(late, call)
  BY <1>1, <1>2 DEF UnderWay, Way
<1>4. \A p : call'[p].op # "idle" => Carried(call'[p]) = call'[p].todo \cup {call'[p].req.item}
  BY DEF Carried
<1>5. \A p : call'[p].op = "idle" => Carried(call'[p]) = {}
  BY DEF Carried
<1>6. UnderWay' = Way(late', call')
  <2>1. UnderWay' = {r.item : r \in late'}
                     \cup UNION {call'[p].todo \cup {call'[p].req.item} :
                                 p \in {q \in Calls \cup Flushes : call'[q].op # "idle"}}
    BY DEF UnderWay
  <2> QED BY <1>4, <1>5, <2>1 DEF Way
<1> QED BY <1>3, <1>6

LEMMA CarriedByCalls ==
  /\ Carried(NoCall) = {}
  /\ \A m : Carried(Once(m)) = {m}
  /\ \A S \in SUBSET Item, op \in {"flush", "mutate"} :
       S # {} => Carried(SendNext(op, S)) \subseteq S
<1>1. Carried(NoCall) = {}
  BY DEF NoCall, CallOf, Carried
<1>2. ASSUME NEW m PROVE Carried(Once(m)) = {m}
  BY DEF Once, CallOf, Request, RequestAt, Carried
<1>3. ASSUME NEW S \in SUBSET Item, NEW op \in {"flush", "mutate"}, S # {}
      PROVE  Carried(SendNext(op, S)) \subseteq S
  <2>1. Oldest(S) \in S
    BY <1>3, OldestIsIn
  <2> QED BY <2>1 DEF SendNext, CallOf, Request, RequestAt, Carried
<1> QED BY <1>1, <1>2, <1>3

LEMMA CarriedByFlushes ==
  ASSUME muts \in SUBSET Item, NEW q \in SUBSET Item
  PROVE  /\ Carried(BeginMutations) \subseteq muts
         /\ Carried(FlushOf(q)) \subseteq q \cup muts
BY CarriedByCalls DEF BeginMutations, FlushOf

\* A turn of p: what is under way next was under way, or is carried by its new call.
LEMMA WayOfTurn ==
  ASSUME OutboxInv, NEW p \in Calls \cup Flushes, NEW c,
         call' = [call EXCEPT ![p] = c], late' = late
  PROVE  UnderWay' \subseteq UnderWay \cup Carried(c)
<1>1. \A o \in Calls \cup Flushes : call'[o] = c \/ call'[o] = call[o]
  BY DEF OutboxInv, Types
<1> QED BY <1>1, UnderWayIs DEF Way

\* The call of p carries its request.
LEMMA CallIsUnderWay ==
  ASSUME NEW p \in Calls \cup Flushes, call[p].op # "idle"
  PROVE  call[p].req.item \in UnderWay /\ call[p].todo \subseteq UnderWay
BY DEF UnderWay

LEMMA LateIsUnderWay ==
  ASSUME NEW r \in late
  PROVE  r.item \in UnderWay
BY DEF UnderWay
-----------------------------------------------------------------------------
(***************************************************************************)
(* A statement of the server never brings a row back, changes a body only  *)
(* to the one its request sets, and answers a change it has made.          *)
(***************************************************************************)
Faithful(r, h) ==
  /\ DOMAIN ideas \subseteq DOMAIN h.rows
  /\ \A n \in DOMAIN ideas : ~ideas[n].active => ~h.rows[n].active
  /\ \A n \in DOMAIN ideas :
       \/ h.rows[n].body = ideas[n].body
       \/ r.item.kind = "edit" /\ r.item.id = Server(n) /\ h.rows[n].body = r.item.n
  /\ h.req.st = "done" /\ r.item.kind \in {"edit", "delete"} =>
       /\ r.item.id.n \in DOMAIN h.rows
       /\ r.item.kind = "edit" => h.rows[r.item.id.n].body = r.item.n
       /\ r.item.kind = "delete" => ~h.rows[r.item.id.n].active
  /\ \A id \in h.req.got : id.at = "server" => id.n \in DOMAIN h.rows

LEMMA StepFields ==
  ASSUME NEW r, NEW rows
  PROVE  Step(r, rows).req = r /\ Step(r, rows).rows = rows
BY DEF Step

LEMMA ReplyFields ==
  ASSUME NEW r
  PROVE  /\ Looked(r).st = "looked" /\ Looked(r).got = {}
         /\ Refused(r).st = "refused" /\ Refused(r).got = {} /\ Refused(r).item = r.item
BY DEF Looked, Refused, RequestAt

LEMMA DoneFields ==
  ASSUME NEW r, NEW got, NEW rows, NEW h, h = Step(Done(r, got), rows)
  PROVE  h.rows = rows /\ h.req.st = "done" /\ h.req.got = got
BY DEF Step, Done, RequestAt

LEMMA RowsFound ==
  ASSUME NEW c, NEW id \in RowOf(c) \cup Active
  PROVE  id.at = "server" /\ id.n \in DOMAIN ideas /\ id = Server(id.n)
BY DEF RowOf, Active, Server

LEMMA CaptureIsFaithful ==
  ASSUME NEW r \in Req, Open(r), r.item.kind = "capture", ideas \in Seq(Row)
  PROVE  Faithful(r, HandleCapture(r))
<1> DEFINE n == r.item.n
<1>0. r.item.kind \notin {"edit", "delete"}
  OBVIOUS
<1>1. CASE RowOf(n) # {}
  <2>1. HandleCapture(r) = Step(Done(r, RowOf(n)), ideas)
    BY <1>1 DEF HandleCapture
  <2>2. \A id \in RowOf(n) : id.n \in DOMAIN ideas
    BY RowsFound
  <2> QED BY <1>0, <2>1, <2>2, DoneFields DEF Faithful
<1>2. CASE RowOf(n) = {} /\ r.st = "sent"
  <2>1. HandleCapture(r) = Step(Looked(r), ideas)
    BY <1>2 DEF HandleCapture
  <2> QED BY <2>1, StepFields, ReplyFields DEF Faithful
<1>3. CASE RowOf(n) = {} /\ r.st # "sent"
  <2> DEFINE row == Idea(n, 0, TRUE)
             rows == Append(ideas, row)
             got == {Server(Len(ideas) + 1)}
  <2>1. HandleCapture(r) = Step(Done(r, got), rows)
    BY <1>3 DEF HandleCapture
  <2>2. row \in Row
    BY DEF Row, Idea, Req, Item
  <2>3. /\ Len(ideas) \in Nat
        /\ DOMAIN rows = 1..(Len(ideas) + 1) /\ DOMAIN ideas = 1..Len(ideas)
        /\ \A i \in 1..Len(ideas) : rows[i] = ideas[i]
    <3> HIDE DEF row
    <3> QED BY <2>2
  <2>4. \A id \in got : id.n = Len(ideas) + 1
    BY DEF Server
  <2> HIDE DEF row, rows, n, got
  <2>5. DOMAIN ideas \subseteq DOMAIN rows /\ \A id \in got : id.n \in DOMAIN rows
    BY <2>3, <2>4
  <2>6. \A i \in DOMAIN ideas : rows[i] = ideas[i]
    BY <2>3
  <2> QED BY <1>0, <2>1, <2>5, <2>6, DoneFields DEF Faithful
<1> QED BY <1>1, <1>2, <1>3

LEMMA ChangeIsFaithful ==
  ASSUME NEW r \in Req, r.item.kind \in {"edit", "delete"}, ideas \in Seq(Row)
  PROVE  Faithful(r, HandleChange(r))
<1> DEFINE k == r.item.id.n
           row == Changed(ideas[k], r.item)
           rows == [ideas EXCEPT ![k] = row]
<1>1. CASE r.item.id \notin Active
  <2>1. HandleChange(r) = Step(Refused(r), ideas)
    BY <1>1 DEF HandleChange
  <2> QED BY <2>1, StepFields, ReplyFields DEF Faithful
<1>2. CASE r.item.id \in Active
  <2>1. k \in DOMAIN ideas /\ r.item.id = Server(k)
    BY <1>2, RowsFound
  <2>2. HandleChange(r) = Step(Done(r, {}), rows)
    BY <1>2 DEF HandleChange
  <2>3. /\ r.item.kind = "edit" => row.body = r.item.n /\ row.active = ideas[k].active
        /\ r.item.kind = "delete" => row.body = ideas[k].body /\ row.active = FALSE
    BY DEF Changed, Idea
  <2> HIDE DEF row, k
  <2>4. DOMAIN rows = DOMAIN ideas /\ rows[k] = row
        /\ \A n \in DOMAIN ideas : n # k => rows[n] = ideas[n]
    BY <2>1
  <2> HIDE DEF rows
  <2>5. \A n \in DOMAIN ideas : ~ideas[n].active => ~rows[n].active
    BY <2>3, <2>4
  <2>6. \A n \in DOMAIN ideas :
          \/ rows[n].body = ideas[n].body
          \/ r.item.kind = "edit" /\ r.item.id = Server(n) /\ rows[n].body = r.item.n
    BY <2>1, <2>3, <2>4
  <2>7. /\ r.item.id.n \in DOMAIN rows
        /\ r.item.kind = "edit" => rows[r.item.id.n].body = r.item.n
        /\ r.item.kind = "delete" => ~rows[r.item.id.n].active
    BY <2>1, <2>3, <2>4 DEF k
  <2> QED BY <2>2, <2>4, <2>5, <2>6, <2>7, DoneFields DEF Faithful
<1> QED BY <1>1, <1>2

LEMMA HandleIsFaithful ==
  ASSUME NEW r \in Req, Open(r), ideas \in Seq(Row)
  PROVE  Faithful(r, Handle(r))
<1>1. CASE r.item.kind = "capture"
  BY <1>1, CaptureIsFaithful DEF Handle
<1>2. CASE r.item.kind \in {"edit", "delete"}
  <2>1. Handle(r) = HandleChange(r)
    BY <1>2 DEF Handle
  <2> QED BY <1>2, <2>1, ChangeIsFaithful
<1>3. CASE r.item.kind = "refresh"
  <2>1. Handle(r) = Step(Done(r, Active), ideas)
    BY <1>3 DEF Handle
  <2>2. \A id \in Active : id.n \in DOMAIN ideas
    BY RowsFound
  <2> QED BY <1>3, <2>1, <2>2, DoneFields DEF Faithful
<1> QED BY <1>1, <1>2, <1>3 DEF Req, Item
-----------------------------------------------------------------------------
(***************************************************************************)
(* A request that may set out without racing an edit that is wanted.       *)
(***************************************************************************)
Harmless(o) ==
  \/ o \in UnderWay \/ o \in muts
  \/ \A w \in want : w.id = o.id => w.kind = "delete"

LEMMA LocalIsHarmless ==
  ASSUME MutationInv, NEW o, o.id.at = "local"
  PROVE  Harmless(o)
BY DEF MutationInv, WantedOnce, Harmless

LEMMA HarmlessIsWanted ==
  ASSUME MutationInv, NEW w, Calm(w), NEW o, Harmless(o), o.id = w.id
  PROVE  o = w
<1>1. w \in want /\ w.kind = "edit" /\ w.id.at = "server"
  BY DEF MutationInv, WantedOnce, Calm
<1>2. CASE o \in UnderWay
  BY <1>1, <1>2 DEF MutationInv, Alone
<1>3. CASE o \in muts
  <2>1. o \in want
    BY <1>1, <1>3 DEF MutationInv, QueuedIsWanted
  <2> QED BY <1>1, <2>1 DEF MutationInv, WantedOnce
<1> QED BY <1>1, <1>2, <1>3 DEF Harmless

\* A step that leaves the server and what is wanted alone, but for wants cut with the queue.
Quiet ==
  /\ ideas' = ideas /\ raced \subseteq raced'
  /\ want' \subseteq want /\ want \cap muts' \subseteq want'
  /\ \A m \in muts' : m.id.at = "server" => m \in muts
  /\ \A id \in feed' : Exists(id)
  /\ \A o \in UnderWay' : Harmless(o)
  /\ \A p \in Calls \cup Flushes :
       call'[p] = call[p] \/ (call'[p].req.st # "done" /\ call'[p].req.got = {})

LEMMA QuietKeeps ==
  ASSUME OutboxInv, MutationInv, Quiet, MutationKept'
  PROVE  MutationInv'
<1> USE DEF Quiet
<1>1. \A id : Exists(id) => Exists(id)'
  BY DEF Exists
<1>2. IdsExist'
  BY <1>1 DEF MutationInv, IdsExist, Exists
<1>3. WantedOnce'
  BY DEF MutationInv, WantedOnce
<1>4. QueuedIsWanted'
  BY DEF MutationInv, QueuedIsWanted
<1>5. ASSUME NEW w, Calm(w)' PROVE Calm(w)
  BY <1>5 DEF Calm
<1>6. Alone'
  <2> SUFFICES ASSUME NEW w, Calm(w)', NEW o \in UnderWay', o.id = w.id PROVE o = w
    BY DEF Alone
  <2> QED BY <1>5, HarmlessIsWanted
<1>7. AnsweredIsApplied'
  <2> SUFFICES ASSUME NEW p \in Calls \cup Flushes, call'[p].op # "idle", call'[p].req.st = "done"
               PROVE  Applied(call[p].req)'
    BY DEF AnsweredIsApplied, Applied
  <2>1. call'[p] = call[p] /\ Applied(call[p].req)
    BY DEF MutationInv, AnsweredIsApplied
  <2>2. call[p].req.st = "done" /\ call'[p].req = call[p].req
    BY <2>1
  <2>3. Calm(call[p].req.item)' => Calm(call[p].req.item)
    BY <2>2 DEF Calm
  <2> QED BY <2>1, <2>2, <2>3 DEF Applied
<1> QED BY <1>2, <1>3, <1>4, <1>6, <1>7 DEF MutationInv

LEMMA KeptByFrame ==
  ASSUME MutationKept, ideas' = ideas, want' = want, raced \subseteq raced',
         \A w \in want : w \in muts => w \in muts'
  PROVE  MutationKept'
BY DEF MutationKept, Holds
-----------------------------------------------------------------------------
(***************************************************************************)
(* A statement of the server on a request under way.                       *)
(***************************************************************************)
LEMMA ServedKeeps ==
  ASSUME OutboxInv, MutationInv, NEW r \in Req, Open(r), r.item \in UnderWay,
         ideas' = Handle(r).rows, UnderWay' \subseteq UnderWay,
         want' = want, raced' = raced, muts' = muts, feed' = feed,
         \A p \in Calls \cup Flushes :
           call'[p] = call[p] \/ call'[p].req = Handle(r).req
  PROVE  MutationInv'
<1> DEFINE h == Handle(r)
           i == r.item
<1>1. Faithful(r, h) /\ h.req.item = i /\ ideas' = h.rows
  BY HandleIsFaithful, Served DEF OutboxInv, Types
<1> HIDE DEF h
<1>2. /\ DOMAIN ideas \subseteq DOMAIN ideas'
      /\ \A n \in DOMAIN ideas : ~ideas[n].active => ~ideas'[n].active
      /\ \A n \in DOMAIN ideas :
           \/ ideas'[n].body = ideas[n].body
           \/ i.kind = "edit" /\ i.id = Server(n) /\ ideas'[n].body = i.n
  BY <1>1 DEF Faithful
<1>3. h.req.st = "done" /\ i.kind \in {"edit", "delete"} =>
        /\ i.id.n \in DOMAIN ideas'
        /\ i.kind = "edit" => ideas'[i.id.n].body = i.n
        /\ i.kind = "delete" => ~ideas'[i.id.n].active
  BY <1>1 DEF Faithful
<1>4. \A id \in h.req.got : id.at = "server" => id.n \in DOMAIN ideas'
  BY <1>1 DEF Faithful
<1>5. \A p \in Calls \cup Flushes : call'[p] = call[p] \/ call'[p].req = h.req
  BY DEF h
<1> HIDE DEF i
<1>6. IdsExist'
  BY <1>2, <1>4, <1>5 DEF MutationInv, IdsExist, Exists
<1>7. WantedOnce'
  BY <1>2 DEF MutationInv, WantedOnce
<1>8. QueuedIsWanted'
  BY DEF MutationInv, QueuedIsWanted
<1>9. Alone'
  BY DEF MutationInv, Alone, Calm
\* The body of a row that an edit set stays while the edit is wanted and alone.
<1>10. ASSUME NEW w, Calm(w), ideas[w.id.n].body = w.n
       PROVE  ideas'[w.id.n].body = w.n
  <2>1. w \in want /\ w.id \in Id /\ w.id.at = "server" /\ w.id.n \in DOMAIN ideas
    BY <1>10 DEF MutationInv, WantedOnce, Calm, Item
  <2>2. w.id = Server(w.id.n)
    BY <2>1 DEF Id, Server
  <2>3. i.id = w.id => i = w
    BY <1>10, <2>1 DEF MutationInv, Alone, i
  <2> QED BY <1>2, <1>10, <2>1, <2>2, <2>3
<1>11. AnsweredIsApplied'
  <2> SUFFICES ASSUME NEW p \in Calls \cup Flushes, call'[p].op # "idle"
               PROVE  Applied(call[p].req)'
    BY DEF AnsweredIsApplied
  <2>1. CASE call'[p] = call[p]
    <3>1. Applied(call[p].req)
      BY <2>1 DEF MutationInv, AnsweredIsApplied
    <3> QED BY <1>2, <1>10, <2>1, <3>1 DEF Applied, Calm
  <2>2. CASE call'[p].req = h.req
    <3>1. Calm(i) => i.kind = "edit"
      BY DEF Calm
    <3> QED BY <1>1, <1>3, <2>2, <3>1 DEF Applied, Calm
  <2> QED BY <1>5, <2>1, <2>2
<1>12. MutationKept'
  <2> SUFFICES ASSUME NEW w \in want, w \notin muts, ~ (w.kind = "edit" /\ w.id \in raced)
               PROVE  Holds(w)'
    BY DEF MutationKept, Holds
  <2>1. Holds(w) /\ w.kind \in {"edit", "delete"} /\ w.id.n \in DOMAIN ideas
    BY DEF MutationInv, MutationKept, WantedOnce
  <2>2. CASE w.kind = "edit"
    BY <1>10, <2>1, <2>2 DEF Holds, Calm
  <2>3. CASE w.kind = "delete"
    BY <1>2, <2>1, <2>3 DEF Holds
  <2> QED BY <2>1, <2>2, <2>3
<1> QED BY <1>6, <1>7, <1>8, <1>9, <1>11, <1>12 DEF MutationInv
-----------------------------------------------------------------------------
(***************************************************************************)
(* dropMutation, by id and kind: what it drops is done on the server.      *)
(***************************************************************************)
LEMMA DropKeeps ==
  ASSUME MutationInv, NEW p \in Calls \cup Flushes,
         call[p].op # "idle", call[p].req.st = "done",
         muts' = DropMutation(call[p].req.item), ideas' = ideas, want' = want, raced' = raced
  PROVE  MutationKept'
<1> DEFINE o == call[p].req.item
<1> SUFFICES ASSUME NEW w \in want, w \in muts, w \notin muts',
                    ~ (w.kind = "edit" /\ w.id \in raced)
             PROVE  IF w.kind = "edit" THEN ideas[w.id.n].body = w.n ELSE ~ideas[w.id.n].active
  BY DEF MutationKept, Holds, MutationInv
<1>1. w.id = o.id /\ w.kind = o.kind /\ w.kind \in {"edit", "delete"}
  BY DEF DropMutation, MutationInv, WantedOnce
<1>2. o \in UnderWay /\ Applied(call[p].req)
  BY CallIsUnderWay DEF MutationInv, AnsweredIsApplied
<1>3. CASE w.kind = "edit"
  <2>1. Calm(w)
    BY <1>3 DEF Calm
  <2>2. o = w
    BY <1>1, <1>2, <2>1 DEF MutationInv, Alone
  <2> QED BY <1>2, <1>3, <2>1, <2>2 DEF Applied
<1>4. CASE w.kind = "delete"
  BY <1>1, <1>2, <1>4 DEF Applied
<1> QED BY <1>1, <1>3, <1>4

(***************************************************************************)
(* A mutation of a server's row enters the queue and is sent: it is what   *)
(* is wanted of the row now, and it is alone unless it races another.      *)
(***************************************************************************)
LEMMA MutateKeeps ==
  ASSUME OutboxInv, MutationInv, NEW p \in Calls \cup Flushes, NEW m \in Item,
         call[p].op = "idle",
         m.kind \in {"edit", "delete"}, m.id.at = "server", m.id.n \in DOMAIN ideas,
         m \in muts', \A q \in muts' : q = m \/ (q \in muts /\ q.id # m.id),
         \A q \in muts : q.id # m.id => q \in muts',
         call' = [call EXCEPT ![p] = Once(m)], late' = late, ideas' = ideas,
         feed' \subseteq feed, want' = Wanted(m), raced' = Raced(m)
  PROVE  MutationInv'
<1>1. want' = {w \in want : w.id # m.id} \cup {m}
  BY DEF Wanted
<1>2. /\ raced \subseteq raced'
      /\ \A o \in UnderWay : o.id = m.id => m.id \in raced'
  BY DEF Raced
<1>3. UnderWay' \subseteq UnderWay \cup {m}
  BY WayOfTurn, CarriedByCalls
<1>4. /\ call'[p].req.st # "done" /\ call'[p].req.got = {}
      /\ \A o \in Calls \cup Flushes : o # p => call'[o] = call[o]
  BY DEF OutboxInv, Types, Once, CallOf, Request, RequestAt
<1>5. IdsExist'
  BY <1>4 DEF MutationInv, IdsExist, Exists
<1>6. WantedOnce'
  BY <1>1 DEF MutationInv, WantedOnce
<1>7. QueuedIsWanted'
  BY <1>1 DEF MutationInv, QueuedIsWanted
<1>8. ASSUME NEW w, Calm(w)', w # m PROVE Calm(w) /\ w.id # m.id
  BY <1>1, <1>2, <1>8 DEF Calm
<1>9. Alone'
  <2> SUFFICES ASSUME NEW w, Calm(w)', NEW o \in UnderWay', o.id = w.id PROVE o = w
    BY DEF Alone
  <2>1. CASE w = m
    BY <1>2, <1>3, <2>1 DEF Calm
  <2>2. CASE w # m
    BY <1>3, <1>8, <2>2 DEF MutationInv, Alone, Calm
  <2> QED BY <2>1, <2>2
<1>10. AnsweredIsApplied'
  <2> SUFFICES ASSUME NEW o \in Calls \cup Flushes, call'[o].op # "idle", call'[o].req.st = "done"
               PROVE  Applied(call[o].req)'
    BY DEF AnsweredIsApplied, Applied
  <2>1. call'[o] = call[o] /\ Applied(call[o].req)
    BY <1>4 DEF MutationInv, AnsweredIsApplied
  <2>2. call[o].req.item \in UnderWay
    BY <2>1, CallIsUnderWay
  <2>3. Calm(call[o].req.item)' => Calm(call[o].req.item)
    <3>1. call'[o].req.item = call[o].req.item
      BY <2>1
    <3>2. m.id \in raced' => ~ (m \in want' /\ m.kind = "edit" /\ m.id \notin raced')
      OBVIOUS
    <3> QED BY <1>1, <1>2, <2>2, <3>1, <3>2 DEF Calm
  <2> QED BY <2>1, <2>3 DEF Applied
<1>11. MutationKept'
  <2> SUFFICES ASSUME NEW w \in want', w # m, ~ (w.kind = "edit" /\ w.id \in raced')
               PROVE  Holds(w)'
    BY DEF MutationKept, Holds
  <2>1. w \in want /\ w.id # m.id
    BY <1>1
  <2> QED BY <1>2, <2>1 DEF MutationInv, MutationKept, Holds
<1> QED BY <1>5, <1>6, <1>7, <1>9, <1>10, <1>11 DEF MutationInv

(***************************************************************************)
(* A mutation of a row that has no server id yet, and an edit that the     *)
(* queued delete of its row absorbs: nothing wanted changes.               *)
(***************************************************************************)
LEMMA MutateQuietly ==
  ASSUME OutboxInv, MutationInv, NEW p \in Calls \cup Flushes, NEW m, Harmless(m),
         \A q : q.id.at = "server" => (q \in muts' <=> q \in muts),
         call' = [call EXCEPT ![p] = Once(m)], late' = late, ideas' = ideas,
         feed' \subseteq feed, want' = want, raced \subseteq raced'
  PROVE  MutationInv'
<1>1. UnderWay' \subseteq UnderWay \cup {m}
  BY WayOfTurn, CarriedByCalls
<1>2. \A o \in UnderWay' : Harmless(o)
  BY <1>1 DEF Harmless
<1>3. /\ call'[p].req.st # "done" /\ call'[p].req.got = {}
      /\ \A o \in Calls \cup Flushes : o # p => call'[o] = call[o]
  BY DEF OutboxInv, Types, Once, CallOf, Request, RequestAt
<1>4. \A w \in want : w.id.at = "server"
  BY DEF MutationInv, WantedOnce
<1>5. Quiet
  BY <1>2, <1>3 DEF Quiet, MutationInv, IdsExist
<1>6. MutationKept'
  BY <1>4, KeptByFrame DEF MutationInv
<1> QED BY <1>5, <1>6, QuietKeeps

(***************************************************************************)
(* A turn of p that sends nothing but what was queued, and touches neither *)
(* the server nor what is wanted.                                          *)
(***************************************************************************)
LEMMA TurnKeeps ==
  ASSUME OutboxInv, MutationInv, MutationKept', NEW p \in Calls \cup Flushes, NEW c,
         \A o \in Carried(c) : Harmless(o), c.req.st # "done", c.req.got = {},
         call' = [call EXCEPT ![p] = c], late' = late, ideas' = ideas,
         muts' \subseteq muts, \A id \in feed' : Exists(id), want' = want, raced' = raced
  PROVE  MutationInv'
<1>1. UnderWay' \subseteq UnderWay \cup Carried(c)
  BY WayOfTurn
<1>2. \A o \in UnderWay' : Harmless(o)
  BY <1>1 DEF Harmless
<1>3. \A o \in Calls \cup Flushes :
        call'[o] = call[o] \/ (call'[o].req.st # "done" /\ call'[o].req.got = {})
  BY DEF OutboxInv, Types
<1>4. Quiet
  BY <1>2, <1>3 DEF Quiet
<1> QED BY <1>4, QuietKeeps

LEMMA GotNothing ==
  /\ NoCall.req.got = {} /\ NoCall.req.st # "done"
  /\ \A m : Once(m).req.got = {} /\ Once(m).req.st # "done"
  /\ \A op, S : SendNext(op, S).req.got = {} /\ SendNext(op, S).req.st # "done"
BY DEF NoCall, Once, SendNext, CallOf, Request, RequestAt

\* The death of the app: nothing new is under way.
LEMMA DeathKeeps ==
  ASSUME OutboxInv, MutationInv, Die, feed' \subseteq feed, muts' \subseteq muts, want' = want \ (muts \ muts')
  PROVE  MutationInv'
<1> USE DEF Die
<1>1. \A r \in late' : r.item \in UnderWay
  BY CallIsUnderWay, LateIsUnderWay DEF Awaits
<1>2. \A p \in Calls \cup Flushes : call'[p] = NoCall
  OBVIOUS
<1>3. UnderWay' \subseteq UnderWay
  <2>1. UnderWay' = Way(late', call')
    BY UnderWayIs
  <2> QED BY <1>1, <1>2, <2>1, CarriedByCalls DEF Way
<1>4. \A o \in UnderWay' : Harmless(o)
  BY <1>3 DEF Harmless
<1>5. Quiet
  BY <1>2, <1>4, GotNothing DEF Quiet, MutationInv, IdsExist
<1>6. MutationKept'
  BY DEF MutationInv, MutationKept, Holds
<1> QED BY <1>5, <1>6, QuietKeeps

LEMMA InitMutations == Init => MutationInv
<1> SUFFICES ASSUME Init PROVE MutationInv
  OBVIOUS
<1> USE DEF Init
<1>1. IdsExist
  BY GotNothing DEF IdsExist
<1>2. AnsweredIsApplied
  BY DEF AnsweredIsApplied, NoCall, CallOf
<1> QED BY <1>1, <1>2 DEF MutationInv, WantedOnce, QueuedIsWanted, Alone, MutationKept

LEMMA StepMutations == OutboxInv /\ MutationInv /\ [Next]_vars => MutationInv'
<1> SUFFICES ASSUME OutboxInv, MutationInv, [Next]_vars PROVE MutationInv'
  OBVIOUS
<1>0. /\ muts \in SUBSET Item
      /\ \A p \in Calls \cup Flushes : /\ call[p] \in CallRec /\ call[p].req \in Req
                                     /\ call[p].todo \in SUBSET Item
      /\ \A id \in feed : Exists(id)
      /\ \A p \in Calls \cup Flushes : \A id \in call[p].req.got : Exists(id)
      /\ \A c : Exists(Local(c))
      /\ MutationKept
  BY DEF OutboxInv, Types, CallRec, MutationInv, IdsExist, Exists, Local
<1>01. ASSUME NEW o \in muts PROVE Harmless(o)
  BY DEF Harmless
<1>02. ASSUME NEW p \in Calls \cup Flushes, call[p].op # "idle", NEW o \in call[p].todo
       PROVE  Harmless(o)
  BY <1>02, CallIsUnderWay DEF Harmless
<1>03. ASSUME NEW c PROVE Harmless(Queued(c))
  BY LocalIsHarmless DEF Queued, Mutation, Local
<1>1. ASSUME NEW p \in Calls, Capture(p) PROVE MutationInv'
  <2> DEFINE c == Once(Queued(made'))
  <2> USE <1>1 DEF Capture
  <2>1. (\A o \in Carried(c) : Harmless(o)) /\ c.req.st # "done" /\ c.req.got = {}
    BY <1>03, CarriedByCalls, GotNothing
  <2>2. \A id \in feed' : Exists(id)
    BY <1>0, Capped
  <2>3. MutationKept'
    BY <1>0, KeptByFrame
  <2> QED BY <2>1, <2>2, <2>3, TurnKeeps
<1>2. ASSUME NEW p \in Calls, NEW id \in feed, Edit(p, id) PROVE MutationInv'
  <2> DEFINE m == Mutation(id, "edit", numbered + 1)
  <2> USE <1>2 DEF Edit
  <2>1. /\ m \in Item /\ m.kind = "edit" /\ m.id = id /\ m.n = numbered + 1
        /\ id \in Id /\ Exists(id)
    BY <1>0 DEF OutboxInv, Types, Mutation, Item
  <2>2. m \notin muts
    BY <2>1 DEF OutboxInv, Types, Numbered
  <2>3. /\ call[p].op = "idle" /\ muts' = EnqueueEdit(m) /\ call' = [call EXCEPT ![p] = Once(m)]
        /\ want' = (IF m \in muts' THEN Wanted(m) ELSE want) /\ raced' = Raced(m)
        /\ feed' = feed /\ late' = late /\ ideas' = ideas
    OBVIOUS
  <2>4. raced \subseteq raced'
    BY <2>3 DEF Raced
  <2> HIDE DEF m, Edit
  <2>5. CASE id.at = "local"
    <3>1. want' = want
      BY <2>1, <2>3, <2>5 DEF Wanted
    <3>2. \A q : q.id.at = "server" => (q \in muts' <=> q \in muts)
      BY <2>1, <2>3, <2>5 DEF EnqueueEdit
    <3>3. Harmless(m)
      BY <2>1, <2>5, LocalIsHarmless
    <3> QED BY <2>3, <2>4, <3>1, <3>2, <3>3, MutateQuietly
  <2>6. CASE id.at = "server" /\ \E q \in muts : q.id = id /\ q.kind = "delete"
    <3>1. PICK q \in muts : q.id = id /\ q.kind = "delete"
      BY <2>6
    <3>2. muts' = muts /\ want' = want
      BY <2>1, <2>2, <2>3, <2>6 DEF EnqueueEdit
    <3>3. q \in want
      BY <2>6, <3>1 DEF MutationInv, QueuedIsWanted
    <3>4. Harmless(m)
      BY <2>1, <3>1, <3>3 DEF MutationInv, WantedOnce, Harmless
    <3> QED BY <2>3, <2>4, <3>2, <3>4, MutateQuietly
  <2>7. CASE id.at = "server" /\ ~ \E q \in muts : q.id = id /\ q.kind = "delete"
    <3>1. muts' = {q \in muts : ~ (q.id = id /\ q.kind = "edit")} \cup {m}
      BY <2>1, <2>3, <2>7 DEF EnqueueEdit
    <3>2. \A q \in muts : q.id = id => q.kind = "edit"
      BY <2>7 DEF MutationInv, QueuedIsWanted, WantedOnce
    <3>3. \A q \in muts' : q = m \/ (q \in muts /\ q.id # m.id)
      BY <2>1, <3>1, <3>2
    <3>4. m \in muts' /\ (\A q \in muts : q.id # m.id => q \in muts') /\ want' = Wanted(m)
      BY <2>1, <2>3, <3>1
    <3>5. id.n \in DOMAIN ideas
      BY <2>1, <2>7 DEF Exists
    <3> QED BY <2>1, <2>3, <2>7, <3>3, <3>4, <3>5, MutateKeeps
  <2> QED BY <2>1, <2>5, <2>6, <2>7 DEF Id
<1>3. ASSUME NEW p \in Calls, NEW id \in feed, Delete(p, id) PROVE MutationInv'
  <2> DEFINE m == Mutation(id, "delete", numbered + 1)
  <2> USE <1>3 DEF Delete
  <2>1. m \in Item /\ m.kind = "delete" /\ m.id = id /\ id \in Id /\ Exists(id)
    BY <1>0 DEF OutboxInv, Types, Mutation, Item
  <2>2. /\ call[p].op = "idle" /\ muts' = EnqueueDelete(m) /\ call' = [call EXCEPT ![p] = Once(m)]
        /\ want' = Wanted(m) /\ raced' = Raced(m)
        /\ feed' \subseteq feed /\ late' = late /\ ideas' = ideas
    OBVIOUS
  <2> HIDE DEF m, Delete
  <2>3. muts' = {q \in muts : q.id # id} \cup {m}
    BY <2>1, <2>2 DEF EnqueueDelete
  <2>4. CASE id.at = "local"
    <3>1. want' = want /\ raced \subseteq raced'
      BY <2>1, <2>2, <2>4 DEF Wanted, Raced
    <3>2. \A q : q.id.at = "server" => (q \in muts' <=> q \in muts)
      BY <2>1, <2>3, <2>4
    <3>3. Harmless(m)
      BY <2>1, <2>4, LocalIsHarmless
    <3> QED BY <2>2, <3>1, <3>2, <3>3, MutateQuietly
  <2>5. CASE id.at = "server"
    <3>1. m \in muts' /\ (\A q \in muts' : q = m \/ (q \in muts /\ q.id # m.id))
          /\ (\A q \in muts : q.id # m.id => q \in muts')
      BY <2>1, <2>3
    <3>2. id.n \in DOMAIN ideas
      BY <2>1, <2>5 DEF Exists
    <3> QED BY <2>1, <2>2, <2>5, <3>1, <3>2, MutateKeeps
  <2> QED BY <2>1, <2>4, <2>5 DEF Id
<1>4. ASSUME NEW p \in Calls, Refresh(p) PROVE MutationInv'
  <2> DEFINE c == Once(LiveFeed)
  <2> USE <1>4 DEF Refresh
  <2>1. Harmless(LiveFeed)
    BY LocalIsHarmless DEF LiveFeed, Mutation, Local
  <2>2. (\A o \in Carried(c) : Harmless(o)) /\ c.req.st # "done" /\ c.req.got = {}
    BY <2>1, CarriedByCalls, GotNothing
  <2>3. MutationKept'
    BY <1>0, KeptByFrame
  <2> QED BY <1>0, <2>2, <2>3, TurnKeeps
<1>5. ASSUME NEW f \in Flushes, Flush(f) PROVE MutationInv'
  <2> DEFINE q == {Queued(n) : n \in queue}
             c == FlushOf(q)
  <2> USE <1>5 DEF Flush
  <2>1. q \in SUBSET Item /\ \A o \in q : Harmless(o)
    BY <1>03, QueuedAreItems DEF OutboxInv, Types
  <2>2. call' = [call EXCEPT ![f] = c]
    OBVIOUS
  <2> HIDE DEF q
  <2>3. \A o \in Carried(c) : Harmless(o)
    BY <1>0, <1>01, <2>1, CarriedByFlushes
  <2>4. c.req.st # "done" /\ c.req.got = {}
    BY GotNothing DEF FlushOf, BeginMutations
  <2>5. MutationKept'
    BY <1>0, KeptByFrame
  <2> HIDE DEF c
  <2> QED BY <1>0, <2>2, <2>3, <2>4, <2>5, TurnKeeps
<1>6. ASSUME NEW p \in Calls \cup Flushes, Serve(p) PROVE MutationInv'
  <2> DEFINE r == call[p].req
             c == CallOf(call[p].op, call[p].todo, Handle(r).req)
  <2> USE <1>6 DEF Serve
  <2>1. r \in Req /\ Open(r) /\ call[p].op # "idle"
    BY <1>0 DEF Awaits
  <2>2. r.item \in UnderWay /\ call[p].todo \subseteq UnderWay
    BY <2>1, CallIsUnderWay
  <2>3. Handle(r).req.item = r.item
    BY <2>1, Served
  <2>4. Carried(c) \subseteq UnderWay /\ c.req = Handle(r).req
    BY <2>2, <2>3 DEF Carried, CallOf
  <2>5. call' = [call EXCEPT ![p] = c] /\ ideas' = Handle(r).rows
    OBVIOUS
  <2> HIDE DEF c, r
  <2>6. UnderWay' \subseteq UnderWay
    BY <2>4, <2>5, WayOfTurn
  <2>7. \A o \in Calls \cup Flushes : call'[o] = call[o] \/ call'[o].req = Handle(r).req
    BY <2>4, <2>5 DEF OutboxInv, Types
  <2> QED BY <2>1, <2>2, <2>5, <2>6, <2>7, ServedKeeps
<1>7. ASSUME NEW r \in late, ServeLate(r) PROVE MutationInv'
  <2> USE <1>7 DEF ServeLate
  <2>1. r \in Req /\ Open(r) /\ r.item \in UnderWay
    BY LateIsUnderWay DEF OutboxInv, Types
  <2>2. Handle(r).req.item = r.item
    BY <2>1, Served
  <2>3. \A s \in late' : s \in late \/ s.item = r.item
    BY <2>2
  <2>4. UnderWay' \subseteq UnderWay
    BY <2>3, UnderWayIs DEF Way
  <2> QED BY <2>1, <2>4, ServedKeeps
<1>8. ASSUME NEW r \in late, DropLate(r) PROVE MutationInv'
  <2> USE <1>8 DEF DropLate
  <2>1. UnderWay' \subseteq UnderWay
    BY UnderWayIs DEF Way
  <2>2. Quiet
    BY <1>0, <2>1 DEF Quiet, Harmless
  <2>3. MutationKept'
    BY <1>0, KeptByFrame
  <2> QED BY <2>2, <2>3, QuietKeeps
<1>9. ASSUME NEW p \in Calls \cup Flushes, Lose(p) PROVE MutationInv'
  <2> DEFINE c == CallOf(call[p].op, call[p].todo, Refused(call[p].req))
  <2> USE <1>9 DEF Lose
  <2>1. call[p].req.item \in UnderWay /\ call[p].todo \subseteq UnderWay
    BY CallIsUnderWay
  <2>2. Carried(c) \subseteq UnderWay /\ c.req.st # "done" /\ c.req.got = {}
    BY <2>1, ReplyFields DEF Carried, CallOf
  <2>3. call' = [call EXCEPT ![p] = c]
    OBVIOUS
  <2> HIDE DEF c
  <2>4. \A o \in Calls \cup Flushes : call'[o] = c \/ call'[o] = call[o]
    BY <2>3 DEF OutboxInv, Types
  <2>5. \A r \in late' : r \in late \/ r = call[p].req
    OBVIOUS
  <2>6. UnderWay' \subseteq UnderWay
    BY <2>1, <2>2, <2>4, <2>5, UnderWayIs DEF Way
  <2>7. Quiet
    BY <1>0, <2>2, <2>4, <2>6 DEF Quiet, Harmless
  <2>8. MutationKept'
    BY <1>0, KeptByFrame
  <2> QED BY <2>7, <2>8, QuietKeeps
<1>10. ASSUME NEW p \in Calls, CaptureAcked(p) PROVE MutationInv'
  <2> USE <1>10 DEF CaptureAcked
  <2>1. \A id \in feed' : Exists(id)
    BY <1>0, Capped
  <2>2. MutationKept'
    BY <1>0, KeptByFrame
  <2> QED BY <2>1, <2>2, CarriedByCalls, GotNothing, TurnKeeps
<1>11. ASSUME NEW p \in Calls, MutationAcked(p) PROVE MutationInv'
  <2> USE <1>11 DEF MutationAcked, Acked
  <2>1. MutationKept'
    BY DropKeeps
  <2>2. muts' \subseteq muts
    BY DEF DropMutation
  <2> QED BY <1>0, <2>1, <2>2, CarriedByCalls, GotNothing, TurnKeeps
<1>12. ASSUME NEW p \in Calls, Refreshed(p) PROVE MutationInv'
  <2> USE <1>12 DEF Refreshed
  <2>1. \A id \in feed' : Exists(id)
    BY <1>0, Capped DEF Rows
  <2>2. MutationKept'
    BY <1>0, KeptByFrame
  <2> QED BY <2>1, <2>2, CarriedByCalls, GotNothing, TurnKeeps
<1>13. ASSUME NEW f \in Flushes, FlushAcked(f) PROVE MutationInv'
  <2> DEFINE c == FlushOf(call[f].todo)
  <2> USE <1>13 DEF FlushAcked, Acked
  <2>1. call[f].op # "idle" /\ call[f].todo \in SUBSET Item
    BY <1>0
  <2>2. \A o \in Carried(c) : Harmless(o)
    BY <1>0, <1>01, <1>02, <2>1, CarriedByFlushes
  <2>3. c.req.st # "done" /\ c.req.got = {}
    BY GotNothing DEF FlushOf, BeginMutations
  <2>4. MutationKept'
    BY <1>0, KeptByFrame
  <2> QED BY <1>0, <2>2, <2>3, <2>4, TurnKeeps
<1>14. ASSUME NEW f \in Flushes, FlushMutationAcked(f) PROVE MutationInv'
  <2> DEFINE c == IF call[f].todo = {} THEN NoCall ELSE SendNext("mutate", call[f].todo)
  <2> USE <1>14 DEF FlushMutationAcked, Acked
  <2>1. call[f].op # "idle" /\ call[f].todo \in SUBSET Item
    BY <1>0
  <2>2. \A o \in Carried(c) : Harmless(o)
    BY <1>02, <2>1, CarriedByCalls
  <2>3. c.req.st # "done" /\ c.req.got = {}
    BY GotNothing
  <2>4. MutationKept'
    BY DropKeeps
  <2>5. muts' \subseteq muts /\ call' = [call EXCEPT ![f] = c]
    BY DEF DropMutation
  <2> HIDE DEF c
  <2> QED BY <1>0, <2>2, <2>3, <2>4, <2>5, TurnKeeps
<1>15. ASSUME NEW p \in Calls \cup Flushes, Failed(p) PROVE MutationInv'
  <2> DEFINE c == IF call[p].op = "flush" THEN BeginMutations ELSE NoCall
  <2> USE <1>15 DEF Failed
  <2>1. \A o \in Carried(c) : Harmless(o)
    BY <1>0, <1>01, CarriedByCalls, CarriedByFlushes
  <2>2. c.req.st # "done" /\ c.req.got = {}
    BY GotNothing DEF BeginMutations
  <2>3. MutationKept'
    BY <1>0, KeptByFrame
  <2>4. call' = [call EXCEPT ![p] = c]
    OBVIOUS
  <2> HIDE DEF c
  <2> QED BY <1>0, <2>1, <2>2, <2>3, <2>4, TurnKeeps
<1>16. ASSUME Crash PROVE MutationInv'
  BY <1>16, DeathKeeps DEF Crash
<1>17. ASSUME NEW rows \in QueueRewrites, NEW cut \in 1..MaxCaptures, CrashInWriteQueue(rows, cut)
       PROVE  MutationInv'
  BY <1>17, DeathKeeps DEF CrashInWriteQueue
<1>18. ASSUME NEW rows \in MutationRewrites, NEW cut \in 1..MaxMutations,
              CrashInWriteMutations(rows, cut)
       PROVE  MutationInv'
  <2>1. muts' \subseteq muts
    BY <1>18 DEF CrashInWriteMutations, MutationRewrites, DropMutation
  <2> QED BY <1>18, <2>1, DeathKeeps DEF CrashInWriteMutations
<1>20. ASSUME NEW rows \in SUBSET feed, CrashInWriteFeed(rows) PROVE MutationInv'
  BY <1>20, DeathKeeps DEF CrashInWriteFeed
<1>19. CASE UNCHANGED vars
  <2> USE <1>19 DEF vars
  <2>1. UnderWay' = UnderWay
    BY UnderWayIs
  <2>2. Quiet
    BY <1>0, <2>1 DEF Quiet, Harmless
  <2>3. MutationKept'
    BY <1>0, KeptByFrame
  <2> QED BY <2>2, <2>3, QuietKeeps
<1> QED
  BY <1>1, <1>2, <1>3, <1>4, <1>5, <1>6, <1>7, <1>8, <1>9, <1>10, <1>11, <1>12, <1>13,
     <1>14, <1>15, <1>16, <1>17, <1>18, <1>19, <1>20 DEF Next

(***************************************************************************)
(* The last edit or delete of a capture is queued or done on the server,   *)
(* whatever is lost, answered late or dropped by id and kind alone; an     *)
(* edit made while another mutation of its row was under way is the one    *)
(* exception (updateCapture, deleteCapture, flushMutations).               *)
(***************************************************************************)
THEOREM MutationKeptHolds == Spec => []MutationKept
<1>1. MutationInv => MutationKept
  BY DEF MutationInv
<1> QED BY <1>1, OutboxInvariant, InitMutations, StepMutations, PTL DEF Spec
=============================================================================
