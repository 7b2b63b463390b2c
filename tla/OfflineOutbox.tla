---------------------------- MODULE OfflineOutbox ----------------------------
(***************************************************************************)
(* The offline side of the app: OfflineAwareApiClient decorates the HTTP   *)
(* client with IdeaCache, which keeps three durable lists on the device -  *)
(* the feed, the queue of captures not yet acknowledged and the queue of   *)
(* edits and deletes - and flushes the two queues whenever it is told to.  *)
(*                                                                         *)
(* The app is one thread of turns: between two awaits a call runs alone,   *)
(* and every await is an HTTP request.  A call is therefore at any time    *)
(* waiting for one request; requests and answers may be lost, a request    *)
(* whose caller gave up or died may still reach the server, and the app    *)
(* may die at any point, also inside a rewrite of a list, which the store  *)
(* does with one DELETE and one INSERT per row and no transaction.         *)
(*                                                                         *)
(* A capture is numbered in the order of the calls, which is the order of  *)
(* the queue; its number is its idempotency key, and Local(c) is the id    *)
(* the device gives it.  Its row has the id Server(i), i its place in      *)
(* ideas.  An edit or delete is numbered as well; the number of an edit    *)
(* stands for the body it sets, 0 for the body of the capture.             *)
(***************************************************************************)
EXTENDS Naturals, Sequences, FiniteSets

CONSTANTS Calls,        \* the screens' calls that may be in flight together
          Flushes,      \* the flushOutbox calls that may be in flight together
          FeedCap,      \* feedCap: read rows the feed keeps
          MaxCaptures,  \* bound: captures made
          MaxMutations, \* bound: edits and deletes made
          MaxLosses,    \* bound: calls that end without an answer
          MaxCrashes    \* bound: times the app dies

ASSUME OutboxAssumption ==
  /\ Calls \cap Flushes = {}
  /\ FeedCap \in Nat
  /\ {MaxCaptures, MaxMutations, MaxLosses, MaxCrashes} \subseteq Nat

VARIABLES queue,    \* outbound(): the captures not acknowledged yet
          muts,     \* mutations(): the queued edits and deletes
          feed,     \* the ids of feed()
          call,     \* what each call awaits
          late,     \* requests on their way whose caller no longer waits
          ideas,    \* the server's rows, in the order of their insertion
          made,     \* captures made so far
          numbered, \* edits and deletes made so far
          want,     \* ghost: the last edit or delete of each server id, but for
                    \* those dropped by a rewrite that was cut
          raced,    \* ghost: ids mutated while a mutation of theirs was under way
          torn,     \* ghost: captures dropped by a rewrite of the queue that was cut
          hidden,   \* ghost: captures whose feed row the user deleted, or a rewrite
                    \* of the feed that was cut dropped, since putFeed last ran
          losses, crashes

vars == <<queue, muts, feed, call, late, ideas, made, numbered, want, raced,
          torn, hidden, losses, crashes>>

Local(c) == [at |-> "local", n |-> c]
Server(i) == [at |-> "server", n |-> i]

(***************************************************************************)
(* What a request carries: a mutation, a capture, or the read of the feed. *)
(***************************************************************************)
Mutation(id, kind, n) == [id |-> id, kind |-> kind, n |-> n]
Queued(c) == Mutation(Local(c), "capture", c)
LiveFeed == Mutation(Local(0), "refresh", 0)

(***************************************************************************)
(* A request with how far it is and the ids its answer holds, and a call:  *)
(* the loop it is in, the items the loop has still to send, the request.   *)
(***************************************************************************)
RequestAt(item, st, got) == [item |-> item, st |-> st, got |-> got]
CallOf(op, todo, req) == [op |-> op, todo |-> todo, req |-> req]

Request(item) == RequestAt(item, "sent", {})
NoCall == CallOf("idle", {}, Request(LiveFeed))
Once(item) == CallOf("once", {}, Request(item))

Oldest(S) == CHOOSE m \in S : \A o \in S : m.n <= o.n

\* One turn of the loops of flush and flushMutations over the list they copied.
SendNext(op, todo) ==
  CallOf(op, todo \ {Oldest(todo)}, Request(Oldest(todo)))

\* _flushVia once flush has returned, whatever it achieved: the mutations are read now.
BeginMutations == IF muts = {} THEN NoCall ELSE SendNext("mutate", muts)

\* _flushVia, with the captures in q left to post.
FlushOf(q) == IF q = {} THEN BeginMutations ELSE SendNext("flush", q)
-----------------------------------------------------------------------------
(***************************************************************************)
(* IdeaCache.                                                              *)
(***************************************************************************)
Rows(captures) == {Local(c) : c \in captures}

\* Variant: the cap counts the queued rows as well.
CapEveryRow(rows, q) ==
  {f \in SUBSET rows :
     Cardinality(f) = IF Cardinality(rows) < FeedCap THEN Cardinality(rows) ELSE FeedCap}

(***************************************************************************)
(* _capFeed: every row of the queue q stays, and FeedCap of the others.    *)
(* Which ones is a matter of the rows' order, which is left open.          *)
(***************************************************************************)
CapFeed(rows, q) ==
  {f \in SUBSET rows :
     /\ rows \cap Rows(q) \subseteq f
     /\ LET reads == rows \ Rows(q)
        IN  Cardinality(f \ Rows(q))
              = IF Cardinality(reads) < FeedCap THEN Cardinality(reads) ELSE FeedCap}

\* enqueueEdit: the last edit replaces an earlier one, a queued delete absorbs it.
EnqueueEdit(m) ==
  IF \E q \in muts : q.id = m.id /\ q.kind = "delete"
  THEN muts
  ELSE {q \in muts : ~(q.id = m.id /\ q.kind = "edit")} \cup {m}

\* enqueueDelete: the delete replaces whatever is queued for the id.
EnqueueDelete(m) == {q \in muts : q.id # m.id} \cup {m}

\* Variant: by the id alone.
DropAllOfId(m) == {q \in muts : q.id # m.id}

\* dropMutation: by id and kind, not by the mutation that was answered.
DropMutation(m) == {q \in muts : ~(q.id = m.id /\ q.kind = m.kind)}

\* The mutations some call or some late request may still bring to the server.
UnderWay ==
  {r.item : r \in late}
    \cup UNION {call[p].todo \cup {call[p].req.item} :
                 p \in {q \in Calls \cup Flushes : call[q].op # "idle"}}

Raced(m) ==
  IF m.id.at = "server" /\ (\E o \in UnderWay : o.id = m.id) THEN raced \cup {m.id} ELSE raced

Wanted(m) ==
  IF m.id.at = "server" THEN {w \in want : w.id # m.id} \cup {m} ELSE want
-----------------------------------------------------------------------------
(***************************************************************************)
(* The screens' calls: what each does before its first await.              *)
(***************************************************************************)
Init ==
  /\ queue = {} /\ muts = {} /\ feed = {}
  /\ call = [p \in Calls \cup Flushes |-> NoCall]
  /\ late = {} /\ ideas = <<>>
  /\ made = 0 /\ numbered = 0
  /\ want = {} /\ raced = {} /\ torn = {} /\ hidden = {}
  /\ losses = 0 /\ crashes = 0

\* capture: the row enters the queue and the feed, and is posted with its key.
Capture(p) ==
  /\ call[p].op = "idle" /\ made < MaxCaptures
  /\ made' = made + 1
  /\ queue' = queue \cup {made'}
  /\ feed' \in CapFeed(feed \cup {Local(made')}, queue')
  /\ call' = [call EXCEPT ![p] = Once(Queued(made'))]
  /\ UNCHANGED <<muts, late, ideas, numbered, want, raced, torn, hidden, losses, crashes>>

\* updateCapture: the edit is queued, or absorbed, and sent in either case.
Edit(p, id) ==
  LET m == Mutation(id, "edit", numbered + 1)
  IN  /\ call[p].op = "idle" /\ numbered < MaxMutations
      /\ numbered' = numbered + 1
      /\ muts' = EnqueueEdit(m)
      /\ call' = [call EXCEPT ![p] = Once(m)]
      /\ want' = IF m \in muts' THEN Wanted(m) ELSE want
      /\ raced' = Raced(m)
      /\ UNCHANGED <<queue, feed, late, ideas, made, torn, hidden, losses, crashes>>

\* deleteCapture: the row leaves the feed at once; the capture queue is not looked at.
Delete(p, id) ==
  LET m == Mutation(id, "delete", numbered + 1)
  IN  /\ call[p].op = "idle" /\ numbered < MaxMutations
      /\ numbered' = numbered + 1
      /\ muts' = EnqueueDelete(m)
      /\ feed' = feed \ {id}
      /\ hidden' = hidden \cup {c \in queue : Local(c) = id}
      /\ call' = [call EXCEPT ![p] = Once(m)]
      /\ want' = Wanted(m)
      /\ raced' = Raced(m)
      /\ UNCHANGED <<queue, late, ideas, made, torn, losses, crashes>>

\* captures(): the live feed is asked for.
Refresh(p) ==
  /\ call[p].op = "idle"
  /\ call' = [call EXCEPT ![p] = Once(LiveFeed)]
  /\ UNCHANGED <<queue, muts, feed, late, ideas, made, numbered, want, raced,
                 torn, hidden, losses, crashes>>

\* flushOutbox: on reconnect, on resume and from the background task.
Flush(f) ==
  /\ call[f].op = "idle"
  /\ queue # {} \/ muts # {}
  /\ call' = [call EXCEPT ![f] = FlushOf({Queued(c) : c \in queue})]
  /\ UNCHANGED <<queue, muts, feed, late, ideas, made, numbered, want, raced,
                 torn, hidden, losses, crashes>>
-----------------------------------------------------------------------------
(***************************************************************************)
(* The server.  The handlers of edit and delete are one transaction each;  *)
(* capture looks its key up and inserts in two statements, and the unique  *)
(* index on the key decides between two inserts.                           *)
(***************************************************************************)
RowOf(c) == {Server(i) : i \in {j \in DOMAIN ideas : ideas[j].key = c}}
Active == {Server(i) : i \in {j \in DOMAIN ideas : ideas[j].active}}

Idea(key, body, active) == [key |-> key, body |-> body, active |-> active]

Looked(r) == RequestAt(r.item, "looked", {})
Done(r, got) == RequestAt(r.item, "done", got)
Refused(r) == RequestAt(r.item, "refused", {})

\* What a statement makes of the request and of the rows.
Step(r, rows) == [req |-> r, rows |-> rows]

\* Variant: the insert after a lookup that found nothing, without the arbiter.
HandleCaptureUnarbitrated(r) ==
  LET found == RowOf(r.item.n)
  IN  IF r.st = "looked"
      THEN Step(Done(r, {Server(Len(ideas) + 1)}), Append(ideas, Idea(r.item.n, 0, TRUE)))
      ELSE IF found # {} THEN Step(Done(r, found), ideas) ELSE Step(Looked(r), ideas)

\* capture: the lookup of the key, then INSERT ... ON CONFLICT DO NOTHING and,
\* when that inserts nothing, the row of the key again.
HandleCapture(r) ==
  LET found == RowOf(r.item.n)
  IN  IF found # {} THEN Step(Done(r, found), ideas)
      ELSE IF r.st = "sent" THEN Step(Looked(r), ideas)
      ELSE Step(Done(r, {Server(Len(ideas) + 1)}), Append(ideas, Idea(r.item.n, 0, TRUE)))

\* edit and delete_capture: the active row of the id, or 404.
Changed(row, m) ==
  IF m.kind = "edit" THEN Idea(row.key, m.n, row.active) ELSE Idea(row.key, row.body, FALSE)

HandleChange(r) ==
  LET m == r.item
  IN  IF m.id \in Active
      THEN Step(Done(r, {}), [ideas EXCEPT ![m.id.n] = Changed(ideas[m.id.n], m)])
      ELSE Step(Refused(r), ideas)

Handle(r) ==
  IF r.item.kind = "capture" THEN HandleCapture(r)
  ELSE IF r.item.kind = "refresh" THEN Step(Done(r, Active), ideas)
  ELSE HandleChange(r)

Open(r) == r.st \in {"sent", "looked"}

Awaits(p) == call[p].op # "idle" /\ Open(call[p].req)

\* The server works on the request a call awaits.
Serve(p) ==
  /\ Awaits(p)
  /\ call' = [call EXCEPT ![p] = CallOf(call[p].op, call[p].todo, Handle(call[p].req).req)]
  /\ ideas' = Handle(call[p].req).rows
  /\ UNCHANGED <<queue, muts, feed, late, made, numbered, want, raced, torn, hidden,
                 losses, crashes>>

\* The server works on a request nobody waits for any more, to the end.
ServeLate(r) ==
  LET h == Handle(r)
  IN  /\ late' = (late \ {r}) \cup (IF Open(h.req) THEN {h.req} ELSE {})
      /\ ideas' = h.rows
      /\ UNCHANGED <<queue, muts, feed, call, made, numbered, want, raced, torn, hidden,
                     losses, crashes>>

\* A request is lost on its way, or its transaction is rolled back.
DropLate(r) ==
  /\ late' = late \ {r}
  /\ UNCHANGED <<queue, muts, feed, call, ideas, made, numbered, want, raced,
                 torn, hidden, losses, crashes>>
-----------------------------------------------------------------------------
(***************************************************************************)
(* The turns that follow an answer, and the failures.                      *)
(***************************************************************************)
\* A call comes back with an exception: no connection, no answer, an error.
Lose(p) ==
  /\ call[p].op # "idle" /\ call[p].req.st # "refused" /\ losses < MaxLosses
  /\ losses' = losses + 1
  /\ call' = [call EXCEPT ![p] = CallOf(call[p].op, call[p].todo, Refused(call[p].req))]
  /\ late' = IF Awaits(p) THEN late \cup {call[p].req} ELSE late
  /\ UNCHANGED <<queue, muts, feed, ideas, made, numbered, want, raced, torn,
                 hidden, crashes>>

Acked(p, op, kinds) ==
  /\ call[p].op = op /\ call[p].req.st = "done"
  /\ call[p].req.item.kind \in kinds

\* capture: reconcileQueued puts the server's row in the place of the local one.
CaptureAcked(p) ==
  LET c == call[p].req.item.n
  IN  /\ Acked(p, "once", {"capture"})
      /\ queue' = queue \ {c}
      /\ feed' \in CapFeed((feed \ {Local(c)}) \cup call[p].req.got, queue')
      /\ call' = [call EXCEPT ![p] = NoCall]
      /\ UNCHANGED <<muts, late, ideas, made, numbered, want, raced, torn, hidden,
                     losses, crashes>>

\* updateCapture and deleteCapture: the mutation is dropped.
MutationAcked(p) ==
  /\ Acked(p, "once", {"edit", "delete"})
  /\ muts' = DropMutation(call[p].req.item)
  /\ call' = [call EXCEPT ![p] = NoCall]
  /\ UNCHANGED <<queue, feed, late, ideas, made, numbered, want, raced, torn, hidden,
                 losses, crashes>>

\* captures(): putFeed keeps the queued rows the server does not list.
Refreshed(p) ==
  /\ Acked(p, "once", {"refresh"})
  /\ feed' \in CapFeed(Rows(queue) \cup call[p].req.got, queue)
  /\ hidden' = {}
  /\ call' = [call EXCEPT ![p] = NoCall]
  /\ UNCHANGED <<queue, muts, late, ideas, made, numbered, want, raced, torn,
                 losses, crashes>>

\* Variant: the answer to a post does not dequeue.
FlushAckedKeeps(f) ==
  /\ Acked(f, "flush", {"capture"})
  /\ call' = [call EXCEPT ![f] = FlushOf(call[f].todo)]
  /\ UNCHANGED <<queue, muts, feed, late, ideas, made, numbered, want, raced,
                 torn, hidden, losses, crashes>>

\* flush, after a post: dequeued, its feed row flipped in place, and on to the next.
FlushAcked(f) ==
  /\ Acked(f, "flush", {"capture"})
  /\ queue' = queue \ {call[f].req.item.n}
  /\ call' = [call EXCEPT ![f] = FlushOf(call[f].todo)]
  /\ UNCHANGED <<muts, feed, late, ideas, made, numbered, want, raced, torn, hidden,
                 losses, crashes>>

\* flushMutations, after a post.
FlushMutationAcked(f) ==
  /\ Acked(f, "mutate", {"edit", "delete"})
  /\ muts' = DropMutation(call[f].req.item)
  /\ call' = [call EXCEPT ![f] = IF call[f].todo = {} THEN NoCall
                                 ELSE SendNext("mutate", call[f].todo)]
  /\ UNCHANGED <<queue, feed, late, ideas, made, numbered, want, raced, torn, hidden,
                 losses, crashes>>

\* Variant: the clean-up of a post runs whether it threw or not.
FailedDequeues(p) ==
  /\ call[p].op # "idle" /\ call[p].req.st = "refused"
  /\ queue' = {c \in queue : Queued(c) # call[p].req.item}
  /\ call' = [call EXCEPT ![p] = IF call[p].op = "flush" THEN BeginMutations ELSE NoCall]
  /\ UNCHANGED <<muts, feed, late, ideas, made, numbered, want, raced, torn, hidden,
                 losses, crashes>>

\* The exception is caught: what was queued stays queued.  A flush that stops
\* at a capture goes on with the mutations all the same.
Failed(p) ==
  /\ call[p].op # "idle" /\ call[p].req.st = "refused"
  /\ call' = [call EXCEPT ![p] = IF call[p].op = "flush" THEN BeginMutations ELSE NoCall]
  /\ UNCHANGED <<queue, muts, feed, late, ideas, made, numbered, want, raced,
                 torn, hidden, losses, crashes>>

\* The app dies: the calls are gone, their requests are on their way.
Die ==
  /\ crashes < MaxCrashes
  /\ crashes' = crashes + 1
  /\ call' = [p \in Calls \cup Flushes |-> NoCall]
  /\ late' = late \cup {call[p].req : p \in {q \in Calls \cup Flushes : Awaits(q)}}
  /\ UNCHANGED <<ideas, made, numbered, raced, losses>>

Crash == Die /\ UNCHANGED <<queue, muts, feed, want, torn, hidden>>

\* ... inside writeFeed: the turn's queue is written, the rows from some place on
\* of the new feed are not.
CrashInWriteFeed(rows) ==
  /\ Die
  /\ feed' = rows
  /\ hidden' = hidden \cup {c \in queue : Local(c) \in feed \ rows}
  /\ UNCHANGED <<queue, muts, want, torn>>

\* The old rows in the lists enqueueCapture, reconcileQueued and flush write.
QueueRewrites ==
  {queue} \cup {queue \ {call[p].req.item.n} :
                 p \in {q \in Calls \cup Flushes :
                          Acked(q, "once", {"capture"}) \/ Acked(q, "flush", {"capture"})}}

\* ... inside writeQueue: the rows from some place on are not inserted any more.
CrashInWriteQueue(rows, cut) ==
  /\ Die
  /\ queue' = {c \in rows : c < cut}
  /\ torn' = torn \cup {c \in rows : c >= cut}
  /\ UNCHANGED <<muts, feed, want, hidden>>

\* The old rows in the lists the enqueues, dropMutation and flushMutations write.
MutationRewrites ==
  {{m \in muts : m.id # id} : id \in feed}
    \cup {DropMutation(call[p].req.item) :
           p \in {q \in Calls \cup Flushes :
                    Acked(q, "once", {"edit", "delete"}) \/ Acked(q, "mutate", {"edit", "delete"})}}

\* ... inside writeMutations.
CrashInWriteMutations(rows, cut) ==
  /\ Die
  /\ muts' = {m \in rows : m.n < cut}
  /\ want' = want \ (muts \ muts')
  /\ UNCHANGED <<queue, feed, torn, hidden>>

Next ==
  \/ \E p \in Calls :
       \/ Capture(p) \/ Refresh(p)
       \/ \E id \in feed : Edit(p, id) \/ Delete(p, id)
       \/ CaptureAcked(p) \/ MutationAcked(p) \/ Refreshed(p)
  \/ \E f \in Flushes : Flush(f) \/ FlushAcked(f) \/ FlushMutationAcked(f)
  \/ \E p \in Calls \cup Flushes :
       \/ Serve(p) \/ Lose(p) \/ Failed(p)
  \/ \E r \in late : ServeLate(r) \/ DropLate(r)
  \/ Crash
  \/ \E rows \in SUBSET feed : CrashInWriteFeed(rows)
  \/ \E rows \in QueueRewrites, cut \in 1..MaxCaptures : CrashInWriteQueue(rows, cut)
  \/ \E rows \in MutationRewrites, cut \in 1..MaxMutations : CrashInWriteMutations(rows, cut)

Spec == Init /\ [][Next]_vars

(***************************************************************************)
(* The triggers of flushOutbox come back for ever (resume, reconnect, the  *)
(* periodic background task), the server answers what reaches it and the   *)
(* event loop runs the turns; nothing is assumed of the screens' calls.    *)
(***************************************************************************)
FairSpec ==
  /\ Spec
  /\ \A f \in Flushes :
       /\ WF_vars(Flush(f)) /\ WF_vars(Serve(f))
       /\ WF_vars(FlushAcked(f) \/ FlushMutationAcked(f) \/ Failed(f))
-----------------------------------------------------------------------------
Ids == {Local(c) : c \in 1..made} \cup {Server(i) : i \in DOMAIN ideas}

MutationSet == [id : Ids, kind : {"edit", "delete"}, n : 1..numbered]

\* Every list holds ids that exist, and the mutations are collapsed to one per id.
TypeOK ==
  /\ made \in 0..MaxCaptures /\ numbered \in 0..MaxMutations
  /\ queue \subseteq 1..made /\ torn \subseteq 1..made /\ hidden \subseteq 1..made
  /\ feed \subseteq Ids /\ raced \subseteq Ids
  /\ muts \subseteq MutationSet /\ want \subseteq MutationSet
  /\ \A m, o \in muts : m.id = o.id => m = o
  /\ \A p \in Calls \cup Flushes : call[p].op \in {"idle", "once", "flush", "mutate"}
  /\ \A r \in late : Open(r)

OnServer(c) == RowOf(c) # {}

(***************************************************************************)
(* The flush is idempotent by the key (idea_cache.dart 8-11): a capture    *)
(* posted by its own call, by overlapping flushes, again after a lost      *)
(* answer or by a dead app's late request has one row on the server.       *)
(***************************************************************************)
OneRowPerCapture ==
  \A i, j \in DOMAIN ideas : ideas[i].key = ideas[j].key => i = j

(***************************************************************************)
(* A capture is never lost (idea_cache.dart 5-7): at any time it is in the *)
(* durable queue or on the server, whatever fails in between; the one      *)
(* exception is a rewrite of the queue cut short by the death of the app.  *)
(***************************************************************************)
NothingLost == \A c \in 1..made : c \in queue \/ OnServer(c) \/ c \in torn

(***************************************************************************)
(* A capture that is still queued is in the feed, however small the cap    *)
(* and however old the lists that reads bring back (_capFeed, putFeed;     *)
(* S4-R28).  The user deleting its row and a rewrite of the feed cut by    *)
(* the death of the app take it out; the next putFeed brings it back.      *)
(***************************************************************************)
QueuedStaysVisible == \A c \in queue : Local(c) \in feed \/ c \in hidden

(***************************************************************************)
(* The last edit or delete of a capture is queued or done on the server    *)
(* (updateCapture, deleteCapture, flushMutations): a delete always, an     *)
(* edit unless another mutation of the capture was under way when it was   *)
(* made.                                                                   *)
(***************************************************************************)
Holds(w) ==
  \/ w \in muts
  \/ IF w.kind = "edit" THEN ideas[w.id.n].body = w.n ELSE ~ideas[w.id.n].active

MutationKept ==
  \A w \in want : Holds(w) \/ (w.kind = "edit" /\ w.id \in raced)

(***************************************************************************)
(* Every capture reaches the server and leaves the queue for good, after   *)
(* finitely many failures (flush, S4-R26).                                 *)
(***************************************************************************)
CapturesLand ==
  \A c \in 1..MaxCaptures :
    (c <= made) ~> [](c \notin queue /\ (OnServer(c) \/ c \in torn))
=============================================================================
