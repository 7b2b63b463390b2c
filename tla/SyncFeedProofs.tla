-------------------------- MODULE SyncFeedProofs --------------------------
(***************************************************************************)
(* Proofs about the change feed: no emitted op is lost to the conflict     *)
(* clause, whoever pushes; and, however many pulls a device has in flight, *)
(* its cursor passes no capture that no pull has brought it, unless a push *)
(* overtook its op.                                                        *)
(*                                                                         *)
(* And about the other way the server reaches a device, the stream of a    *)
(* thread: whatever is dropped, replayed and resumed, the screen shows a   *)
(* turn's events once and in order, and without a gap when undisturbed.    *)
(***************************************************************************)
EXTENDS SyncFeed, StreamHub, FiniteSetTheorems, WellFoundedInduction, TLAPS

\* Every step is one of the actions; used to split the induction steps.
LEMMA StepCases ==
    ASSUME [Next]_vars
    PROVE  \/ \E w \in Writer, i \in Idea, k \in Kind : Change(w, i, k)
           \/ \E w \in Emitter : Emit(w)
           \/ \E w \in Pusher : Push(w)
           \/ \E w \in Writer : Commit(w)
           \/ \E w \in Writer : Abort(w)
           \/ \E d \in Device, s \in Slot : PullSend(d, s)
           \/ \E d \in Device, s \in Slot : PullCursor(d, s)
           \/ \E d \in Device, s \in Slot : PullRead(d, s)
           \/ \E d \in Device, s \in Slot : PullApply(d, s)
           \/ \E d \in Device, s \in Slot : PullLost(d, s)
           \/ \E d \in Device : FeedRefresh(d)
           \/ \E d \in Device : AppDies(d)
           \/ UNCHANGED vars
BY DEF Next, Write, Follow

\* A writer's transaction, or a device's pull, is replaced by a record of its type.
LEMMA TxUpdate ==
    ASSUME TypeOK, NEW w \in Writer, NEW r \in TxRec, tx' = [tx EXCEPT ![w] = r]
    PROVE  /\ tx' \in [Writer -> TxRec]
           /\ tx'[w] = r
           /\ \A v \in Writer : v # w => tx'[v] = tx[v]
BY DEF TypeOK

LEMMA PullUpdate ==
    ASSUME TypeOK, NEW d \in Device, NEW s \in Slot, NEW r \in PullRec,
           pull' = [pull EXCEPT ![d][s] = r]
    PROVE  /\ pull' \in [Device -> [Slot -> PullRec]]
           /\ pull'[d][s] = r
           /\ \A e \in Device, t \in Slot : <<e, t>> # <<d, s>> => pull'[e][t] = pull[e][t]
BY DEF TypeOK

\* Every action keeps every variable in its type.
LEMMA TypeStep ==
    ASSUME TypeOK, TxFormed, [Next]_vars
    PROVE  TypeOK'
<1> USE FeedAssumption
<1>1. ASSUME NEW w \in Writer, NEW i \in Idea, NEW k \in Kind, Change(w, i, k)
      PROVE  TypeOK'
  <2> DEFINE r == Tx("open", i, k, 0, 0)
  <2>1. r \in TxRec
    BY DEF TxRec, Tx, NoTx, Kind, Seq0
  <2>2. tx' = [tx EXCEPT ![w] = r]
    BY <1>1 DEF Change
  <2> HIDE DEF r
  <2> QED
    BY <1>1, <2>1, <2>2, TxUpdate DEF Change, TypeOK
<1>2. ASSUME NEW w \in Writer, NEW n \in Nat, TakeSeq(w, n)
      PROVE  tx' \in [Writer -> TxRec] /\ nextSeq' \in 1..(MaxSeq + 1)
  <2> DEFINE r == Tx("logged", tx[w].idea, tx[w].kind, nextSeq, n)
  <2>1. r \in TxRec /\ nextSeq' \in 1..(MaxSeq + 1)
    BY <1>2 DEF TypeOK, TxRec, Tx, Seq0, TakeSeq
  <2>2. tx' = [tx EXCEPT ![w] = r]
    BY <1>2 DEF TakeSeq
  <2> HIDE DEF r
  <2> QED
    BY <2>1, <2>2, TxUpdate
<1>3. ASSUME NEW w \in Emitter, Emit(w)
      PROVE  TypeOK'
  <2>1. PICK n \in 0..(2 * MaxSeq) : TakeSeq(w, n + 1)
    BY <1>3 DEF Emit
  <2>n. n + 1 \in Nat /\ w \in Writer
    BY DEF Writer
  <2>2. tx' \in [Writer -> TxRec] /\ nextSeq' \in 1..(MaxSeq + 1)
    BY <1>2, <2>1, <2>n
  <2> QED
    BY <1>3, <2>2 DEF Emit, TypeOK
<1>4. ASSUME NEW w \in Pusher, Push(w)
      PROVE  TypeOK'
  <2>1. PICK n \in 1..MaxSeq : TakeSeq(w, n)
    BY <1>4 DEF Push
  <2>n. n \in Nat /\ w \in Writer
    BY DEF Writer
  <2>2. tx' \in [Writer -> TxRec] /\ nextSeq' \in 1..(MaxSeq + 1)
    BY <1>2, <2>1, <2>n
  <2> QED
    BY <1>4, <2>2 DEF Push, TypeOK
<1>5. ASSUME NEW w \in Writer, tx' = [tx EXCEPT ![w] = NoTx]
      PROVE  tx' \in [Writer -> TxRec]
  <2>1. NoTx \in TxRec
    BY DEF TxRec, Tx, NoTx, Kind, Seq0
  <2> QED
    BY <1>5, <2>1, TxUpdate
<1>6. ASSUME NEW w \in Writer, Commit(w)
      PROVE  TypeOK'
  <2>1. tx[w] \in TxRec /\ tx[w].idea \in Idea
    BY <1>6 DEF TypeOK, TxFormed, Commit
  <2>2. log' \subseteq log \cup {OpOf(w)} /\ tx' = [tx EXCEPT ![w] = NoTx]
    BY <1>6 DEF Commit
  <2>3. tx[w].seq \in 1..MaxSeq
    BY <1>6, <2>1 DEF Commit, TxRec, TxFormed, Seq0
  <2>4. OpOf(w) \in Op
    BY <2>1, <2>3 DEF OpOf, Op, Site, TxRec, Writer
  <2>5. row' \in [Idea -> {"absent", "live", "gone"}]
    BY <1>6, <2>1 DEF Commit, TypeOK
  <2>6. lock' \in Emitter \cup {NoOne}
    BY <1>6 DEF Commit, TypeOK
  <2> QED
    BY <1>5, <1>6, <2>2, <2>4, <2>5, <2>6 DEF Commit, TypeOK
<1>7. ASSUME NEW w \in Writer, Abort(w)
      PROVE  TypeOK'
  BY <1>5, <1>7 DEF Abort, TypeOK
<1>8. ASSUME NEW d \in Device, NEW s \in Slot, NEW r \in PullRec,
             pull' = [pull EXCEPT ![d][s] = r]
      PROVE  pull' \in [Device -> [Slot -> PullRec]]
  BY <1>8, PullUpdate
<1>9. NoPull \in PullRec
  BY DEF PullRec, Pull, NoPull, Seq0
<1>10. ASSUME NEW d \in Device, NEW s \in Slot, PullSend(d, s)
       PROVE  TypeOK'
  <2>1. Pull("sent", cursor[d], 0, {}, {}) \in PullRec
    BY DEF TypeOK, PullRec, Pull, Seq0
  <2> QED
    BY <1>8, <1>10, <2>1 DEF PullSend, TypeOK
<1>11. ASSUME NEW d \in Device, NEW s \in Slot, PullCursor(d, s)
       PROVE  TypeOK'
  <2>1. PICK n \in Seq0 : pull' = [pull EXCEPT ![d][s] = Pull("cursor", @.since, n, {}, {})]
    BY <1>11 DEF PullCursor
  <2>2. Pull("cursor", pull[d][s].since, n, {}, {}) \in PullRec
    BY DEF TypeOK, PullRec, Pull
  <2> QED
    BY <1>8, <1>11, <2>1, <2>2 DEF PullCursor, TypeOK
<1>12. ASSUME NEW d \in Device, NEW s \in Slot, PullRead(d, s)
       PROVE  TypeOK'
  <2> DEFINE p == pull[d][s]
             live == {i \in Idea : row[i] = "live"}
             ops == {o \in log : o.seq > p.since}
             r == IF p.since = 0 THEN Pull("answered", 0, p.cursor, {}, live)
                  ELSE Pull("answered", p.since, p.cursor, ops, {})
  <2>1. p \in PullRec /\ ops \subseteq Op /\ live \subseteq Idea
    BY DEF TypeOK
  <2>2. r \in PullRec
    BY <2>1 DEF PullRec, Pull, Seq0
  <2>3. pull' = [pull EXCEPT ![d][s] = r]
    BY <1>12 DEF PullRead, Snapshot, OpsSince
  <2> HIDE DEF r
  <2> QED
    BY <1>8, <1>12, <2>2, <2>3 DEF PullRead, Snapshot, OpsSince, TypeOK
<1>13. ASSUME NEW d \in Device, NEW s \in Slot, PullApply(d, s)
       PROVE  TypeOK'
  <2> DEFINE p == pull[d][s]
  <2>1. p \in PullRec
    BY DEF TypeOK
  <2>2. p.cursor \in Seq0 /\ p.snap \subseteq Idea /\ p.ops \subseteq Op
    BY <2>1 DEF PullRec
  <2>3. Brought(p) \subseteq Idea
    BY <2>2 DEF Added, Op, Brought
  <2>4. PICK F \in Capped(IF p.since = 0 THEN p.snap ELSE feed[d] \cup Brought(p)) :
          /\ feed' = [feed EXCEPT ![d] = F]
          /\ reached' = [reached EXCEPT ![d] = @ \cup (Brought(p) \cap F)]
          /\ crowded' = [crowded EXCEPT ![d] = @ \cup (Brought(p) \ F)]
    BY <1>13 DEF PullApply
  <2>5. F \subseteq Idea
    BY <2>2, <2>3, <2>4 DEF Capped, TypeOK
  <2> HIDE DEF p
  <2>6. feed' \in [Device -> SUBSET Idea]
    BY <2>4, <2>5 DEF TypeOK
  <2>7. reached' \in [Device -> SUBSET Idea] /\ crowded' \in [Device -> SUBSET Idea]
    <3>1. reached[d] \cup (Brought(p) \cap F) \in SUBSET Idea
      BY <2>3 DEF TypeOK
    <3>2. crowded[d] \cup (Brought(p) \ F) \in SUBSET Idea
      BY <2>3 DEF TypeOK
    <3> QED
      BY <2>4, <3>1, <3>2 DEF TypeOK
  <2>8. cursor' \in [Device -> Seq0]
    BY <1>13, <2>2 DEF PullApply, TypeOK, p
  <2> QED
    BY <1>8, <1>9, <1>13, <2>6, <2>7, <2>8 DEF PullApply, TypeOK
<1>14. ASSUME NEW d \in Device, NEW s \in Slot, PullLost(d, s)
       PROVE  TypeOK'
  BY <1>8, <1>9, <1>14 DEF PullLost, TypeOK
<1>15. ASSUME UNCHANGED vars
       PROVE  TypeOK'
  BY <1>15 DEF vars, TypeOK
<1>16. ASSUME NEW d \in Device, FeedRefresh(d)
       PROVE  TypeOK'
  BY <1>16 DEF FeedRefresh, Capped, TypeOK
<1>17. ASSUME NEW d \in Device, AppDies(d)
       PROVE  TypeOK'
  <2>1. \A s \in Slot : pull[d][s] \in PullRec
    BY DEF TypeOK
  <2>2. \A s \in Slot : pull[d][s].snap \subseteq Idea /\ pull[d][s].ops \subseteq Op
    BY <2>1 DEF PullRec
  <2>3. \A s \in Slot : Brought(pull[d][s]) \subseteq Idea
    BY <2>2 DEF Brought, Added, Op
  <2>4. PICK F \in SUBSET (feed[d] \cup UNION {Brought(pull[d][s]) : s \in Slot}) :
          feed' = [feed EXCEPT ![d] = F]
    BY <1>17 DEF AppDies
  <2>5. F \subseteq Idea
    BY <2>3, <2>4 DEF TypeOK
  <2>6. [s \in Slot |-> NoPull] \in [Slot -> PullRec]
    BY <1>9
  <2>7. pull' \in [Device -> [Slot -> PullRec]]
    BY <1>17, <2>6 DEF AppDies, TypeOK
  <2> QED
    BY <1>17, <2>4, <2>5, <2>7 DEF AppDies, TypeOK
<1> QED
  BY StepCases, <1>1, <1>3, <1>4, <1>6, <1>7, <1>10, <1>11, <1>12, <1>13, <1>14, <1>15, <1>16, <1>17

----------------------------------------------------------------------------
(* No emit is dropped.                                                     *)

\* The empty log satisfies both inductive invariants.
LEMMA InitInv == Init => OpsInv /\ FeedInv
<1> SUFFICES ASSUME Init PROVE OpsInv /\ FeedInv
  OBVIOUS
<1> USE FeedAssumption DEF Init
<1>1. NoTx \in TxRec /\ NoTx.pc = "idle" /\ NoPull \in PullRec /\ NoPull.pc = "idle"
      /\ NoPull.cursor = 0 /\ NoPull.since = 0
  BY DEF NoTx, Tx, TxRec, NoPull, Pull, PullRec, Seq0, Kind
<1>2. TypeOK
  BY <1>1 DEF TypeOK, Seq0
<1>3. TxFormed /\ LockHeld /\ LamportFresh /\ RowsHaveOps
  BY <1>1 DEF TxFormed, LockHeld, LamportFresh, RowsHaveOps, Writer
<1>4. SeqsDistinct /\ EmitsInOrder /\ RowsFollowLog /\ CursorsCommitted
  BY <1>1 DEF SeqsDistinct, EmitsInOrder, RowsFollowLog, CursorsCommitted, Committed, Writer
<1>5. PullsCovered /\ AnswersComplete /\ CoversUnlessOvertaken
  BY <1>1 DEF PullsCovered, CoveredTo, AnswersComplete, CoversUnlessOvertaken
<1> QED
  BY <1>2, <1>3, <1>4, <1>5 DEF OpsInv, FeedInv

\* A writer with an open transaction works on a capture and has taken a seq.
LEMMA FormedStep ==
    ASSUME TypeOK, TxFormed, [Next]_vars
    PROVE  TxFormed'
<1> USE DEF TxFormed
<1>1. ASSUME NEW w \in Writer, NEW i \in Idea, NEW k \in Kind, Change(w, i, k)
      PROVE  TxFormed'
  BY <1>1 DEF Change, Tx, TypeOK
<1>2. ASSUME NEW w \in Writer, NEW n, TakeSeq(w, n)
      PROVE  TxFormed'
  BY <1>2 DEF TakeSeq, Tx, TypeOK
<1>3. ASSUME NEW w \in Writer, Commit(w) \/ Abort(w)
      PROVE  TxFormed'
  BY <1>3 DEF Commit, Abort, NoTx, Tx, TypeOK
<1>4. ASSUME UNCHANGED tx
      PROVE  TxFormed'
  BY <1>4
<1>5. ASSUME NEW d \in Device, NEW s \in Slot, Follow(d, s)
      PROVE  UNCHANGED tx
  BY <1>5 DEF Follow, PullSend, PullCursor, PullRead, Snapshot, OpsSince, PullApply, PullLost
<1>6. ASSUME NEW d \in Device, FeedRefresh(d) \/ AppDies(d)
      PROVE  UNCHANGED tx
  BY <1>6 DEF FeedRefresh, AppDies
<1> QED
  BY <1>1, <1>2, <1>3, <1>4, <1>5, <1>6 DEF Next, Write, Emit, Push, Writer, vars

\* Every step preserves the invariant behind RowsHaveOps.
LEMMA OpsStep ==
    ASSUME OpsInv, [Next]_vars
    PROVE  OpsInv'
<1> USE DEF OpsInv
<1>1. TypeOK' /\ TxFormed'
  BY TypeStep, FormedStep
<1> DEFINE Rest == LockHeld /\ LamportFresh /\ RowsHaveOps
<1>2. ASSUME NEW w \in Writer, NEW i \in Idea, NEW k \in Kind, Change(w, i, k)
      PROVE  Rest'
  BY <1>2 DEF Change, Tx, TypeOK, LockHeld, LamportFresh, RowsHaveOps, Writer
<1>3. ASSUME NEW w \in Emitter, Emit(w)
      PROVE  Rest'
  <2>1. PICK n \in 0..(2 * MaxSeq) : MaxLamport(n) /\ TakeSeq(w, n + 1)
    BY <1>3 DEF Emit
  <2>2. \A v \in Emitter : v # w => tx[v].pc # "logged" /\ tx'[v] = tx[v]
    BY <1>3, <2>1, FeedAssumption DEF Emit, TakeSeq, TypeOK, LockHeld, Writer
  <2>3. tx'[w].lamport = n + 1 /\ \A o \in log : o.lamport <= n
    BY <2>1 DEF TakeSeq, Tx, TypeOK, MaxLamport, IsMax, Writer
  <2>4. \A o \in log : o.lamport \in Nat
    BY DEF TypeOK, Op
  <2>5. LamportFresh'
    BY <1>3, <2>2, <2>3, <2>4, FeedAssumption DEF Emit, LamportFresh
  <2> QED
    BY <1>3, <2>2, <2>5 DEF Emit, LockHeld, RowsHaveOps
<1>4. ASSUME NEW w \in Pusher, Push(w)
      PROVE  Rest'
  BY <1>4, FeedAssumption DEF Push, TakeSeq, Tx, TypeOK, LockHeld, LamportFresh, RowsHaveOps, Writer
<1>5. ASSUME NEW w \in Writer, Commit(w)
      PROVE  Rest'
  <2>1. tx[w].idea \in Idea /\ tx'[w] = NoTx /\ \A v \in Writer : v # w => tx'[v] = tx[v]
    BY <1>5 DEF Commit, TxFormed, TypeOK
  <2>2. \A v \in Emitter : tx'[v].pc = "logged" => v # w /\ tx[v].pc = "logged" /\ lock = v
    BY <2>1 DEF LockHeld, NoTx, Tx, Writer
  <2>3. LockHeld'
    BY <1>5, <2>2 DEF Commit, LockHeld
  <2>4. \A o \in log' : o \in log \/ o.site # NoOne \/ \A v \in Emitter : tx'[v].pc # "logged"
    BY <1>5, <2>2, FeedAssumption DEF Commit, OpOf, LockHeld, Writer
  <2>5. LamportFresh'
    BY <2>1, <2>2, <2>4 DEF LamportFresh, Writer
  <2>6. w \in Emitter => ~Conflicts(w)
    BY <1>5 DEF Commit, Conflicts, OpOf, LamportFresh, TypeOK, Op, TxRec, Writer
  <2>7. RowsHaveOps'
    <3>1. log \subseteq log' /\ row \in [Idea -> {"absent", "live", "gone"}]
      BY <1>5 DEF Commit, TypeOK
    <3>2. OpOf(w).idea = tx[w].idea /\ OpOf(w).kind = tx[w].kind
      BY DEF OpOf
    <3>3. row' = row \/ OpOf(w) \in log'
      BY <1>5, <2>6 DEF Commit, Writer
    <3>4. \A i \in Idea : i # tx[w].idea => row'[i] = row[i]
      BY <1>5, <2>1, <3>1 DEF Commit
    <3>5. row'[tx[w].idea] = "live" => row' = row \/ tx[w].kind = "create"
      BY <1>5, <2>1, <3>1 DEF Commit
    <3> QED
      BY <3>1, <3>2, <3>3, <3>4, <3>5 DEF RowsHaveOps
  <2> QED
    BY <2>3, <2>5, <2>7
<1>6. ASSUME NEW w \in Writer, Abort(w)
      PROVE  Rest'
  BY <1>6 DEF Abort, NoTx, Tx, TypeOK, LockHeld, LamportFresh, RowsHaveOps, Writer
<1>7. ASSUME UNCHANGED <<row, log, lock, tx>>
      PROVE  Rest'
  BY <1>7 DEF LockHeld, LamportFresh, RowsHaveOps
<1>8. ASSUME NEW d \in Device, NEW s \in Slot, Follow(d, s)
      PROVE  UNCHANGED <<row, log, lock, tx>>
  BY <1>8 DEF Follow, PullSend, PullCursor, PullRead, Snapshot, OpsSince, PullApply, PullLost
<1>10. ASSUME NEW d \in Device, FeedRefresh(d) \/ AppDies(d)
       PROVE  UNCHANGED <<row, log, lock, tx>>
  BY <1>10 DEF FeedRefresh, AppDies
<1>9. Rest'
  BY <1>2, <1>3, <1>4, <1>5, <1>6, <1>7, <1>8, <1>10 DEF Next, Write, vars
<1> QED
  BY <1>1, <1>9

\* Every capture on the server has its create op in the log, for any number of
\* emitters and pushers and any lamports pushed (emit_op and its lock).
THEOREM RowsHaveOpsHolds == Spec => []RowsHaveOps
<1>1. Init => OpsInv
  BY InitInv
<1>2. OpsInv /\ [Next]_vars => OpsInv'
  BY OpsStep
<1>3. OpsInv => RowsHaveOps
  BY DEF OpsInv
<1> QED
  BY <1>1, <1>2, <1>3, PTL DEF Spec

----------------------------------------------------------------------------
(* No device passes a capture it lacks.                                    *)

\* The part of FeedInv that TypeStep and FormedStep do not cover.
FeedRest ==
    /\ LockHeld /\ SeqsDistinct /\ EmitsInOrder /\ RowsFollowLog
    /\ CursorsCommitted /\ PullsCovered /\ AnswersComplete /\ CoversUnlessOvertaken

\* The numbers the arguments compare.
LEMMA FeedNumbers ==
    ASSUME TypeOK
    PROVE  /\ nextSeq \in Nat
           /\ \A o \in log : o.seq \in Nat /\ o.idea \in Idea /\ o.site \in Site
           /\ \A v \in Writer : tx[v].seq \in Nat
           /\ \A d \in Device : cursor[d] \in Nat
           /\ \A d \in Device, s \in Slot : pull[d][s].cursor \in Nat /\ pull[d][s].since \in Nat
  BY FeedAssumption DEF TypeOK, Op, TxRec, PullRec, Seq0

\* A writer that opens, numbers or rolls back its transaction changes nothing a
\* device can see, and a seq it takes is above everything handed out before.
LEMMA WriterFeed ==
    ASSUME FeedInv, NEW w \in Writer,
           \/ \E i \in Idea, k \in Kind : Change(w, i, k)
           \/ w \in Emitter /\ Emit(w)
           \/ w \in Pusher /\ Push(w)
           \/ Abort(w)
    PROVE  FeedRest'
<1> USE FeedAssumption DEF FeedInv
<1>t. /\ nextSeq \in Nat
      /\ \A o \in log : o.seq \in Nat
      /\ \A v \in Writer : tx[v].seq \in Nat
      /\ \A v \in Emitter : v \in Writer /\ v \notin Pusher
  BY FeedNumbers DEF Writer
<1>v. UNCHANGED <<row, log, cursor, reached, crowded, pull>>
  BY DEF Change, Emit, Push, Abort
<1>1. CursorsCommitted' /\ PullsCovered' /\ AnswersComplete' /\ CoversUnlessOvertaken'
  BY <1>v
  DEF CursorsCommitted, Committed, PullsCovered, AnswersComplete, CoversUnlessOvertaken, CoveredTo, Overtaken
<1>2. ASSUME NEW i \in Idea, NEW k \in Kind, Change(w, i, k)
      PROVE  FeedRest'
  <2>1. tx'[w] = Tx("open", i, k, 0, 0) /\ \A v \in Writer : v # w => tx'[v] = tx[v]
    BY <1>2 DEF Change, TypeOK
  <2>2. tx'[w].pc = "open" /\ tx'[w].idea = i /\ tx'[w].kind = k
    BY <2>1 DEF Tx
  <2>3. LockHeld' /\ SeqsDistinct' /\ EmitsInOrder'
    BY <1>2, <2>1, <2>2, <1>t, <1>v DEF Change, LockHeld, SeqsDistinct, EmitsInOrder
  <2>4. RowsFollowLog'
    BY <1>2, <2>1, <2>2, <1>v DEF Change, RowsFollowLog
  <2> QED
    BY <1>1, <2>3, <2>4 DEF FeedRest
<1>3. ASSUME NEW n, TakeSeq(w, n), IF w \in Emitter THEN lock = NoOne /\ lock' = w ELSE lock' = lock
      PROVE  FeedRest'
  <2>1. /\ tx'[w].pc = "logged" /\ tx'[w].seq = nextSeq /\ nextSeq' = nextSeq + 1
        /\ tx'[w].idea = tx[w].idea /\ tx'[w].kind = tx[w].kind /\ tx[w].pc # "idle"
        /\ \A v \in Writer : v # w => tx'[v] = tx[v]
    BY <1>3 DEF TakeSeq, Tx, TypeOK
  <2>2. \A v \in Emitter : v # w => tx[v] = tx'[v] /\ (w \in Emitter => tx[v].pc # "logged")
    BY <1>3, <1>t, <2>1 DEF LockHeld
  <2>3. LockHeld'
    BY <1>3, <1>t, <2>1, <2>2 DEF LockHeld
  <2>4. SeqsDistinct' /\ EmitsInOrder'
    BY <2>1, <2>2, <1>t, <1>v DEF SeqsDistinct, EmitsInOrder
  <2>5. RowsFollowLog'
    BY <2>1, <1>v DEF RowsFollowLog
  <2> QED
    BY <1>1, <2>3, <2>4, <2>5 DEF FeedRest
<1>4. CASE Abort(w)
  <2>1. tx'[w].pc = "idle" /\ tx'[w].idea = NoOne /\ \A v \in Writer : v # w => tx'[v] = tx[v]
    BY <1>4 DEF Abort, NoTx, Tx, TypeOK
  <2>2. LockHeld' /\ SeqsDistinct' /\ EmitsInOrder'
    BY <1>4, <1>t, <2>1, <1>v DEF Abort, LockHeld, SeqsDistinct, EmitsInOrder
  <2>3. RowsFollowLog'
    BY <2>1, <1>v DEF RowsFollowLog
  <2> QED
    BY <1>1, <2>2, <2>3 DEF FeedRest
<1>5. w \in Emitter /\ Emit(w) => FeedRest'
  BY <1>3 DEF Emit
<1>6. w \in Pusher /\ Push(w) => FeedRest'
  BY <1>3, <1>t DEF Push
<1> QED
  BY <1>2, <1>4, <1>5, <1>6

\* A commit publishes an op that is above every cursor handed out, or that a
\* push overtook: no device is obliged to have it yet.
LEMMA CommitFeed ==
    ASSUME FeedInv, NEW w \in Writer, Commit(w)
    PROVE  FeedRest'
<1> USE FeedAssumption DEF FeedInv
<1>t. /\ nextSeq \in Nat
      /\ \A o \in log : o.seq \in Nat /\ o.idea \in Idea
      /\ \A v \in Writer : tx[v].seq \in Nat
      /\ \A d \in Device : cursor[d] \in Nat
      /\ \A d \in Device, s \in Slot : pull[d][s].cursor \in Nat /\ pull[d][s].since \in Nat
      /\ \A v \in Emitter : v \in Writer
  BY FeedNumbers DEF Writer
<1>v. UNCHANGED <<nextSeq, cursor, reached, crowded, pull>> /\ tx[w].pc = "logged"
  BY DEF Commit
<1>1. /\ tx[w].idea \in Idea /\ tx'[w].pc = "idle" /\ tx'[w].idea = NoOne /\ tx[w].seq # 0
      /\ \A v \in Writer : v # w => tx'[v] = tx[v]
  BY <1>v DEF Commit, TxFormed, NoTx, Tx, TypeOK
<1>2. /\ log \subseteq log'
      /\ \A o \in log' : o \in log \/ /\ o.seq = tx[w].seq /\ o.idea = tx[w].idea
                                      /\ o.site = IF w \in Emitter THEN NoOne ELSE w
                                      /\ row'[o.idea] # "absent"
  <2>1. log' = log \/ (log' = log \cup {OpOf(w)} /\ ~Conflicts(w))
    BY DEF Commit
  <2>2. /\ OpOf(w).seq = tx[w].seq /\ OpOf(w).idea = tx[w].idea
        /\ OpOf(w).site = IF w \in Emitter THEN NoOne ELSE w
    BY DEF OpOf
  <2>3. ~Conflicts(w) => row'[tx[w].idea] # "absent"
    BY <1>1 DEF Commit, TypeOK
  <2> QED
    BY <2>1, <2>2, <2>3
<1>3. /\ \A i \in Idea : i # tx[w].idea => row'[i] = row[i]
      /\ \/ row'[tx[w].idea] = row[tx[w].idea]
         \/ row'[tx[w].idea] = IF tx[w].kind = "create" THEN "live" ELSE "gone"
  BY <1>1 DEF Commit, TypeOK
<1>4. w \in Emitter => \A v \in Emitter : v # w => tx[v].pc # "logged"
  BY <1>v DEF LockHeld
<1>5. LockHeld' /\ SeqsDistinct'
  <2>1. LockHeld'
    BY <1>1, <1>t DEF LockHeld, Commit
  <2>2. SeqsDistinct'
    BY <1>1, <1>2, <1>t, <1>v DEF SeqsDistinct
  <2> QED
    BY <2>1, <2>2
<1>6. EmitsInOrder'
  BY <1>1, <1>2, <1>4, <1>t, <1>v DEF EmitsInOrder, Writer
<1>7. RowsFollowLog'
  <2>1. \A o \in log' : row'[o.idea] # "absent"
    BY <1>1, <1>2, <1>3, <1>t DEF RowsFollowLog
  <2>2. \A v \in Writer : tx'[v].pc # "idle" => v # w /\ tx'[v] = tx[v] /\ tx[v].idea # tx[w].idea
    BY <1>1 DEF RowsFollowLog
  <2>3. ASSUME NEW v \in Writer, tx'[v].pc # "idle"
        PROVE  tx'[v].idea \in Idea
               /\ row'[tx'[v].idea] = IF tx'[v].kind = "create" THEN "absent" ELSE "live"
    BY <2>2, <2>3, <1>3 DEF RowsFollowLog
  <2>4. ASSUME NEW v \in Writer, NEW u \in Writer, tx'[v].pc # "idle", tx'[v].idea = tx'[u].idea
        PROVE  v = u
    BY <2>2, <2>3, <2>4, <1>1 DEF RowsFollowLog
  <2> QED
    BY <2>1, <2>3, <2>4 DEF RowsFollowLog
<1>8. ASSUME NEW o \in log, row'[o.idea] = "live"
      PROVE  row[o.idea] = "live"
  BY <1>1, <1>3, <1>8, <1>t, <1>v DEF RowsFollowLog
<1>9. ASSUME NEW o \in log', NEW n \in Nat, Committed(n), o.seq <= n, ~Overtaken(o, n)'
      PROVE  o \in log /\ ~Overtaken(o, n)
  <2>1. ~\E p \in log' : o.seq < p.seq /\ p.seq <= n /\ (o.site # NoOne \/ p.site # NoOne)
    BY <1>9 DEF Overtaken
  <2>2. ~Overtaken(o, n)
    BY <1>2, <2>1 DEF Overtaken
  <2>3. ASSUME o \notin log
        PROVE  FALSE
    <3>1. o.seq = tx[w].seq /\ o.site = IF w \in Emitter THEN NoOne ELSE w
      BY <1>2, <2>3
    <3>2. PICK p \in log : p.seq = n
      BY <1>1, <1>9, <1>t, <3>1 DEF Committed
    <3>3. o.seq < p.seq
      BY <1>9, <1>t, <1>v, <3>1, <3>2 DEF SeqsDistinct
    <3>4. w \in Emitter => p.site # NoOne
      BY <1>t, <1>v, <3>1, <3>3 DEF EmitsInOrder
    <3>5. w \notin Emitter => o.site # NoOne
      BY <3>1 DEF Writer
    <3> QED
      BY <1>2, <1>9, <2>1, <3>2, <3>3, <3>4, <3>5
  <2> QED
    BY <2>2, <2>3
<1>10. CursorsCommitted'
  BY <1>2, <1>v DEF CursorsCommitted, Committed
<1>11. ASSUME NEW d \in Device, NEW n \in Nat, Committed(n), CoveredTo(d, n)
       PROVE  \A o \in log' :
                o.kind = "create" /\ o.seq <= n /\ row'[o.idea] = "live" /\ ~Overtaken(o, n)'
                => o.idea \in reached[d] \cup crowded[d]
  <2> SUFFICES ASSUME NEW o \in log', o.kind = "create", o.seq <= n,
                      row'[o.idea] = "live", ~Overtaken(o, n)'
               PROVE  o.idea \in reached[d] \cup crowded[d]
    OBVIOUS
  <2>1. o \in log /\ ~Overtaken(o, n)
    BY <1>9, <1>11
  <2>2. row[o.idea] = "live"
    BY <1>8, <2>1
  <2> QED
    BY <1>11, <2>1, <2>2 DEF CoveredTo
<1>13. CoversUnlessOvertaken'
  <2>1. ASSUME NEW d \in Device
        PROVE  \A o \in log' :
                 o.kind = "create" /\ o.seq <= cursor[d] /\ row'[o.idea] = "live"
                 /\ ~(\E p \in log' : o.seq < p.seq /\ p.seq <= cursor[d] /\ (o.site # NoOne \/ p.site # NoOne))
                 => o.idea \in reached[d] \cup crowded[d]
    <3> DEFINE n == cursor[d]
    <3>1. n \in Nat /\ Committed(n) /\ CoveredTo(d, n)
      BY <1>t DEF CursorsCommitted, CoversUnlessOvertaken
    <3> HIDE DEF n
    <3>2. \A o \in log' :
             o.kind = "create" /\ o.seq <= n /\ row'[o.idea] = "live"
             /\ ~(\E p \in log' : o.seq < p.seq /\ p.seq <= n /\ (o.site # NoOne \/ p.site # NoOne))
             => o.idea \in reached[d] \cup crowded[d]
      BY <1>11, <3>1 DEF Overtaken
    <3> QED
      BY <3>2 DEF n
  <2> QED
    BY <1>v, <2>1 DEF CoversUnlessOvertaken, CoveredTo, Overtaken
<1>14. PullsCovered'
  <2>1. ASSUME NEW d \in Device, NEW s \in Slot
        PROVE  \A o \in log' :
                 o.kind = "create" /\ o.seq <= pull[d][s].since /\ row'[o.idea] = "live"
                 /\ ~(\E p \in log' : o.seq < p.seq /\ p.seq <= pull[d][s].since
                                    /\ (o.site # NoOne \/ p.site # NoOne))
                 => o.idea \in reached[d] \cup crowded[d]
    <3> DEFINE n == pull[d][s].since
    <3>1. n \in Nat /\ Committed(n) /\ CoveredTo(d, n)
      BY <1>t DEF CursorsCommitted, PullsCovered
    <3> HIDE DEF n
    <3>2. \A o \in log' :
             o.kind = "create" /\ o.seq <= n /\ row'[o.idea] = "live"
             /\ ~(\E p \in log' : o.seq < p.seq /\ p.seq <= n /\ (o.site # NoOne \/ p.site # NoOne))
             => o.idea \in reached[d] \cup crowded[d]
      BY <1>11, <3>1 DEF Overtaken
    <3> QED
      BY <3>2 DEF n
  <2> QED
    BY <1>v, <2>1 DEF PullsCovered, CoveredTo, Overtaken
<1>12. AnswersComplete'
  <2> SUFFICES ASSUME NEW d \in Device, NEW s \in Slot, pull[d][s].pc = "answered",
                      NEW o \in log', o.kind = "create", o.seq <= pull[d][s].cursor,
                      row'[o.idea] = "live", ~Overtaken(o, pull[d][s].cursor)'
               PROVE  IF pull[d][s].since = 0 THEN o.idea \in pull[d][s].snap
                      ELSE o.seq > pull[d][s].since => o \in pull[d][s].ops
    BY <1>v DEF AnswersComplete, Overtaken
  <2>1. ~\E p \in log' :
            o.seq < p.seq /\ p.seq <= pull[d][s].cursor /\ (o.site # NoOne \/ p.site # NoOne)
    BY <1>v DEF Overtaken
  <2>2. Committed(pull[d][s].cursor) /\ pull[d][s].cursor \in Nat
    BY <1>t DEF CursorsCommitted
  <2>3. o \in log /\ ~Overtaken(o, pull[d][s].cursor)
    BY <1>9, <2>1, <2>2 DEF Overtaken
  <2> QED
    BY <1>8, <2>3 DEF AnswersComplete
<1> QED
  BY <1>5, <1>6, <1>7, <1>10, <1>12, <1>13, <1>14 DEF FeedRest

\* A pull's steps: an answer holds all the captures from the cursor it was asked
\* from up to its own, and everything below the former was brought before.
LEMMA FollowFeed ==
    ASSUME FeedInv, NEW d \in Device, NEW s \in Slot, Follow(d, s)
    PROVE  FeedRest'
<1> USE FeedAssumption DEF FeedInv
<1> DEFINE p == pull[d][s]
<1>t. /\ \A o \in log : o.seq \in Nat /\ o.idea \in Idea
      /\ \A e \in Device : cursor[e] \in Nat
      /\ \A e \in Device, t \in Slot : pull[e][t].cursor \in Nat /\ pull[e][t].since \in Nat
  BY FeedNumbers
<1>v. UNCHANGED <<row, log, nextSeq, lock, tx>>
  BY DEF Follow, PullSend, PullCursor, PullRead, PullApply, PullLost
<1>o. \A o, n : Overtaken(o, n)' <=> Overtaken(o, n)
  BY <1>v DEF Overtaken
<1>1. LockHeld' /\ SeqsDistinct' /\ EmitsInOrder' /\ RowsFollowLog'
  BY <1>v DEF LockHeld, SeqsDistinct, EmitsInOrder, RowsFollowLog
<1>2. /\ \A e \in Device, t \in Slot : <<e, t>> # <<d, s>> => pull'[e][t] = pull[e][t]
      /\ \A e \in Device : e # d => cursor'[e] = cursor[e]
      /\ \A e \in Device : reached[e] \subseteq reached'[e] /\ crowded[e] \subseteq crowded'[e]
  <2>1. \E r : pull' = [pull EXCEPT ![d][s] = r]
    BY DEF Follow, PullSend, PullCursor, PullRead, PullApply, PullLost
  <2>2. \A e \in Device : e # d => cursor'[e] = cursor[e]
    BY DEF Follow, PullSend, PullCursor, PullRead, PullApply, PullLost, TypeOK
  <2>3. \/ UNCHANGED <<reached, crowded>>
        \/ \E F, G : /\ reached' = [reached EXCEPT ![d] = @ \cup F]
                     /\ crowded' = [crowded EXCEPT ![d] = @ \cup G]
    BY DEF Follow, PullSend, PullCursor, PullRead, PullApply, PullLost
  <2>4. \A e \in Device : reached[e] \subseteq reached'[e] /\ crowded[e] \subseteq crowded'[e]
    BY <2>3 DEF TypeOK
  <2> QED
    BY <2>1, <2>2, <2>4 DEF TypeOK
<1>3. ASSUME Committed(cursor'[d]), Committed(pull'[d][s].cursor), Committed(pull'[d][s].since)
      PROVE  CursorsCommitted'
  BY <1>2, <1>3, <1>v DEF CursorsCommitted, Committed
<1>c. ASSUME NEW e \in Device, NEW n, CoveredTo(e, n)
      PROVE  \A o \in log : o.kind = "create" /\ o.seq <= n /\ row[o.idea] = "live" /\ ~Overtaken(o, n)
                => o.idea \in reached'[e] \cup crowded'[e]
  BY <1>2, <1>c DEF CoveredTo
<1>4. ASSUME CoveredTo(d, pull'[d][s].since),
             pull'[d][s].pc \in {"cursor", "answered"} => pull'[d][s].since <= pull'[d][s].cursor
      PROVE  PullsCovered'
  <2>1. ASSUME NEW e \in Device, NEW t \in Slot
        PROVE  /\ CoveredTo(e, pull'[e][t].since)
               /\ pull'[e][t].pc \in {"cursor", "answered"} => pull'[e][t].since <= pull'[e][t].cursor
    BY <1>2, <1>4 DEF PullsCovered
  <2>2. ASSUME NEW e \in Device, NEW t \in Slot
        PROVE  \A o \in log : /\ o.kind = "create" /\ o.seq <= pull'[e][t].since
                              /\ row[o.idea] = "live" /\ ~Overtaken(o, pull'[e][t].since)
                  => o.idea \in reached'[e] \cup crowded'[e]
    BY <1>c, <2>1
  <2> QED
    BY <1>o, <1>v, <2>1, <2>2 DEF PullsCovered, CoveredTo
<1>5. ASSUME UNCHANGED cursor
      PROVE  CoversUnlessOvertaken'
  <2>1. ASSUME NEW e \in Device
        PROVE  \A o \in log : o.kind = "create" /\ o.seq <= cursor[e] /\ row[o.idea] = "live"
                              /\ ~Overtaken(o, cursor[e])
                  => o.idea \in reached'[e] \cup crowded'[e]
    BY <1>c DEF CoversUnlessOvertaken
  <2> QED
    BY <1>5, <1>o, <1>v, <2>1 DEF CoversUnlessOvertaken, CoveredTo
<1>6. CASE PullSend(d, s)
  <2>1. pull'[d][s] = Pull("sent", cursor[d], 0, {}, {}) /\ UNCHANGED cursor
    BY <1>6 DEF PullSend, TypeOK
  <2>2. pull'[d][s].pc = "sent" /\ pull'[d][s].since = cursor[d] /\ pull'[d][s].cursor = 0
    BY <2>1 DEF Pull
  <2>3. CursorsCommitted'
    BY <1>3, <2>1, <2>2 DEF CursorsCommitted, Committed
  <2>4. PullsCovered'
    BY <1>4, <2>2 DEF CoversUnlessOvertaken
  <2>5. AnswersComplete'
    BY <1>2, <1>o, <1>v, <2>2 DEF AnswersComplete
  <2> QED
    BY <1>1, <1>5, <2>1, <2>3, <2>4, <2>5 DEF FeedRest
<1>7. CASE PullCursor(d, s)
  <2>1. PICK n \in Seq0 : /\ IsMax(n, {o.seq : o \in log})
                          /\ pull' = [pull EXCEPT ![d][s] = Pull("cursor", @.since, n, {}, {})]
    BY <1>7 DEF PullCursor
  <2>2. pull'[d][s] = Pull("cursor", p.since, n, {}, {}) /\ UNCHANGED cursor
    BY <1>7, <2>1 DEF PullCursor, TypeOK
  <2>3. pull'[d][s].pc = "cursor" /\ pull'[d][s].since = p.since /\ pull'[d][s].cursor = n
    BY <2>2 DEF Pull
  <2>4. Committed(n)
    BY <2>1 DEF IsMax, Committed
  <2>5. Committed(p.since) /\ p.since <= n /\ CoveredTo(d, p.since)
    <3>1. Committed(p.since) /\ p.since \in Nat /\ n \in Nat /\ CoveredTo(d, p.since)
      BY <1>t DEF CursorsCommitted, PullsCovered, Seq0
    <3>2. \A o \in log : o.seq <= n
      BY <2>1 DEF IsMax
    <3> QED
      BY <3>1, <3>2 DEF Committed
  <2>6. CursorsCommitted'
    BY <1>3, <2>2, <2>3, <2>4, <2>5 DEF CursorsCommitted
  <2>7. PullsCovered'
    BY <1>4, <2>3, <2>5
  <2>8. AnswersComplete'
    BY <1>2, <1>o, <1>v, <2>3 DEF AnswersComplete
  <2> QED
    BY <1>1, <1>5, <2>2, <2>6, <2>7, <2>8 DEF FeedRest
<1>8. CASE PullRead(d, s)
  <2> DEFINE live == {i \in Idea : row[i] = "live"}
             ops == {o \in log : o.seq > p.since}
  <2>1. /\ p.pc = "cursor" /\ UNCHANGED cursor
        /\ pull'[d][s] = IF p.since = 0 THEN Pull("answered", 0, p.cursor, {}, live)
                         ELSE Pull("answered", p.since, p.cursor, ops, {})
    BY <1>8 DEF PullRead, Snapshot, OpsSince, TypeOK
  <2>2. /\ pull'[d][s].pc = "answered" /\ pull'[d][s].since = p.since
        /\ pull'[d][s].cursor = p.cursor
        /\ p.since = 0 => pull'[d][s].snap = live
        /\ p.since # 0 => pull'[d][s].ops = ops
    BY <2>1 DEF Pull
  <2>3. AnswersComplete'
    BY <1>2, <1>o, <1>t, <1>v, <2>2 DEF AnswersComplete
  <2> HIDE DEF live, ops
  <2>4. CursorsCommitted'
    BY <1>3, <2>1, <2>2 DEF CursorsCommitted
  <2>5. PullsCovered'
    BY <1>4, <2>1, <2>2 DEF PullsCovered
  <2> QED
    BY <1>1, <1>5, <2>1, <2>3, <2>4, <2>5 DEF FeedRest
<1>9. CASE PullApply(d, s)
  <2>1. /\ p.pc = "answered" /\ pull'[d][s] = NoPull /\ cursor'[d] = p.cursor
    BY <1>9 DEF PullApply, TypeOK
  <2>2. pull'[d][s].pc = "idle" /\ pull'[d][s].cursor = 0 /\ pull'[d][s].since = 0
    BY <2>1 DEF NoPull, Pull
  <2>3. CursorsCommitted'
    BY <1>3, <2>1, <2>2 DEF CursorsCommitted, Committed
  <2>4. AnswersComplete'
    BY <1>2, <1>o, <1>v, <2>2 DEF AnswersComplete
  <2>5. PullsCovered'
    <3>1. CoveredTo(d, 0)
      BY <1>t DEF CoveredTo, TypeOK, Op
    <3> QED
      BY <1>4, <2>2, <3>1
  <2>6. Brought(p) \subseteq reached'[d] \cup crowded'[d]
    <3>1. PICK F : /\ reached' = [reached EXCEPT ![d] = @ \cup (Brought(p) \cap F)]
                   /\ crowded' = [crowded EXCEPT ![d] = @ \cup (Brought(p) \ F)]
      BY <1>9 DEF PullApply
    <3> HIDE DEF p
    <3> QED
      BY <3>1 DEF TypeOK
  <2>7. ASSUME NEW o \in log, o.kind = "create", o.seq <= p.cursor, row[o.idea] = "live",
               ~Overtaken(o, p.cursor)
        PROVE  o.idea \in reached'[d] \cup crowded'[d]
    <3>1. CASE p.since = 0
      BY <2>1, <2>6, <2>7, <3>1 DEF AnswersComplete, Brought
    <3>2. CASE p.since # 0 /\ o.seq > p.since
      <4>1. o \in p.ops
        BY <2>1, <2>7, <3>2 DEF AnswersComplete
      <4>2. o.idea \in Brought(p)
        BY <2>7, <3>2, <4>1 DEF Brought, Added
      <4> QED
        BY <2>6, <4>2
    <3>3. CASE p.since # 0 /\ o.seq <= p.since
      <4>1. CoveredTo(d, p.since) /\ p.since <= p.cursor
        BY <2>1 DEF PullsCovered
      <4>2. ~Overtaken(o, p.since)
        BY <1>t, <2>7, <4>1 DEF Overtaken
      <4> QED
        BY <1>c, <2>7, <3>3, <4>1, <4>2
    <3> QED
      BY <3>1, <3>2, <3>3, <1>t
  <2>8. CoversUnlessOvertaken'
    <3>1. ASSUME NEW e \in Device
          PROVE  \A o \in log : o.kind = "create" /\ o.seq <= cursor'[e] /\ row[o.idea] = "live"
                                /\ ~Overtaken(o, cursor'[e])
                    => o.idea \in reached'[e] \cup crowded'[e]
      <4>1. CASE e = d
        BY <2>1, <2>7, <4>1
      <4>2. CASE e # d
        <5>1. CoveredTo(e, cursor[e]) /\ cursor'[e] = cursor[e]
          BY <1>2, <4>2 DEF CoversUnlessOvertaken
        <5> QED
          BY <1>c, <5>1
      <4> QED
        BY <4>1, <4>2
    <3> QED
      BY <1>o, <1>v, <3>1 DEF CoversUnlessOvertaken, CoveredTo
  <2> QED
    BY <1>1, <2>3, <2>4, <2>5, <2>8 DEF FeedRest
<1>10. CASE PullLost(d, s)
  <2>1. /\ pull'[d][s].pc = "idle" /\ pull'[d][s].cursor = 0 /\ pull'[d][s].since = 0
        /\ UNCHANGED cursor
    BY <1>10 DEF PullLost, TypeOK, NoPull, Pull
  <2>2. CursorsCommitted'
    BY <1>3, <2>1 DEF CursorsCommitted, Committed
  <2>3. PullsCovered'
    <3>1. CoveredTo(d, 0)
      BY <1>t DEF CoveredTo, TypeOK, Op
    <3> QED
      BY <1>4, <2>1, <3>1
  <2>4. AnswersComplete'
    BY <1>2, <1>o, <1>v, <2>1 DEF AnswersComplete
  <2> QED
    BY <1>1, <1>5, <2>1, <2>2, <2>3, <2>4 DEF FeedRest
<1> QED
  BY <1>6, <1>7, <1>8, <1>9, <1>10 DEF Follow

\* A refresh and a death change the cached feed, never the cursor, and a death
\* gives up the pulls in flight.
LEMMA CacheFeed ==
    ASSUME FeedInv, NEW d \in Device, FeedRefresh(d) \/ AppDies(d)
    PROVE  FeedRest'
<1> USE FeedAssumption DEF FeedInv
<1>v. UNCHANGED <<row, log, nextSeq, lock, tx, cursor, reached, crowded>>
  BY DEF FeedRefresh, AppDies
<1>1. LockHeld' /\ SeqsDistinct' /\ EmitsInOrder' /\ RowsFollowLog'
  BY <1>v DEF LockHeld, SeqsDistinct, EmitsInOrder, RowsFollowLog
<1>2. CoversUnlessOvertaken'
  BY <1>v DEF CoversUnlessOvertaken, CoveredTo, Overtaken
<1>3. NoPull.pc = "idle" /\ NoPull.cursor = 0 /\ NoPull.since = 0
  BY DEF NoPull, Pull
<1>4. \A e \in Device, t \in Slot : pull'[e][t] = pull[e][t] \/ pull'[e][t] = NoPull
  <2>1. CASE FeedRefresh(d)
    BY <2>1 DEF FeedRefresh
  <2>2. CASE AppDies(d)
    <3>1. pull' = [pull EXCEPT ![d] = [s \in Slot |-> NoPull]] /\ pull \in [Device -> [Slot -> PullRec]]
      BY <2>2 DEF AppDies, TypeOK
    <3> QED BY <3>1
  <2> QED BY <2>1, <2>2
<1>5. CursorsCommitted'
  BY <1>v, <1>3, <1>4 DEF CursorsCommitted, Committed
<1>6. PullsCovered'
  <2>1. \A e \in Device : CoveredTo(e, 0)
    BY FeedNumbers DEF CoveredTo, TypeOK, Op
  <2>2. \A e \in Device, t \in Slot :
          /\ CoveredTo(e, pull'[e][t].since)
          /\ pull'[e][t].pc \in {"cursor", "answered"} => pull'[e][t].since <= pull'[e][t].cursor
    BY <1>3, <1>4, <2>1 DEF PullsCovered
  <2> QED
    BY <1>v, <2>2 DEF PullsCovered, CoveredTo, Overtaken
<1>7. AnswersComplete'
  BY <1>v, <1>3, <1>4 DEF AnswersComplete, Overtaken
<1> QED
  BY <1>1, <1>2, <1>5, <1>6, <1>7 DEF FeedRest

\* Every step preserves FeedInv, whoever pushes and however the pulls overlap.
LEMMA FeedStep ==
    ASSUME FeedInv, [Next]_vars
    PROVE  FeedInv'
<1>1. TypeOK' /\ TxFormed'
  BY TypeStep, FormedStep DEF FeedInv
<1>2. ASSUME UNCHANGED vars
      PROVE  FeedRest'
  BY <1>2
  DEF vars, FeedInv, FeedRest, LockHeld, SeqsDistinct, EmitsInOrder, RowsFollowLog, CursorsCommitted,
      Committed, PullsCovered, AnswersComplete, CoversUnlessOvertaken, CoveredTo, Overtaken
<1>3. FeedRest'
  BY <1>2, WriterFeed, CommitFeed, FollowFeed, CacheFeed DEF Next, Write, Writer
<1> QED
  BY <1>1, <1>3 DEF FeedInv, FeedRest

\* However many pulls a device has in flight, and whatever refreshes, the cap and
\* deaths do to its feed, its cursor never passes a live capture that no pull has
\* brought it, unless the capture's op was overtaken in a race with a push
\* (emit_op, push_ops, pull_route and SyncClient.pull together).
THEOREM CoversUnlessOvertakenHolds == Spec => []CoversUnlessOvertaken
<1>1. Init => FeedInv
  BY InitInv
<1>2. FeedInv /\ [Next]_vars => FeedInv'
  BY FeedStep
<1>3. FeedInv => CoversUnlessOvertaken
  BY DEF FeedInv
<1> QED
  BY <1>1, <1>2, <1>3, PTL DEF Spec

----------------------------------------------------------------------------
(* The stream of a thread.                                                 *)

\* What Append does to a sequence.
LEMMA AppendFacts ==
  ASSUME NEW S, NEW s \in Seq(S), NEW e \in S
  PROVE  /\ Append(s, e) \in Seq(S) /\ Len(Append(s, e)) = Len(s) + 1
         /\ \A i \in 1..Len(s) : Append(s, e)[i] = s[i]
         /\ Append(s, e)[Len(s) + 1] = e
         /\ Range(Append(s, e)) \subseteq Range(s) \cup {e}
  <1>1. /\ Append(s, e) \in Seq(S) /\ Len(Append(s, e)) = Len(s) + 1
        /\ \A i \in 1..Len(s) : Append(s, e)[i] = s[i]
        /\ Append(s, e)[Len(s) + 1] = e
    OBVIOUS
  <1>2. DOMAIN Append(s, e) = 1..(Len(s) + 1) /\ DOMAIN s = 1..Len(s) /\ Len(s) \in Nat
    OBVIOUS
  <1>3. \A i \in 1..(Len(s) + 1) : i \in 1..Len(s) \/ i = Len(s) + 1
    BY <1>2
  <1> QED BY <1>1, <1>2, <1>3 DEF Range

\* What Tail and Head are of a sequence with elements.
LEMMA TailFacts ==
  ASSUME NEW S, NEW s \in Seq(S), s # <<>>
  PROVE  /\ Tail(s) \in Seq(S) /\ Len(s) \in Nat \ {0} /\ Len(Tail(s)) = Len(s) - 1
         /\ \A i \in 1..(Len(s) - 1) : Tail(s)[i] = s[i + 1]
         /\ Range(Tail(s)) \subseteq Range(s)
         /\ Head(s) = s[1] /\ Head(s) \in Range(s) /\ Head(s) \in S
  <1>1. /\ Tail(s) \in Seq(S) /\ Len(s) \in Nat \ {0} /\ Len(Tail(s)) = Len(s) - 1
        /\ \A i \in 1..(Len(s) - 1) : Tail(s)[i] = s[i + 1]
        /\ Head(s) = s[1]
    OBVIOUS
  <1>2. DOMAIN Tail(s) = 1..(Len(s) - 1) /\ DOMAIN s = 1..Len(s)
    BY <1>1
  <1>3. \A i \in 1..(Len(s) - 1) : i + 1 \in 1..Len(s)
    BY <1>1
  <1>4. 1 \in DOMAIN s
    BY <1>1, <1>2
  <1> QED BY <1>1, <1>2, <1>3, <1>4 DEF Range

\* The elements of a sequence of events are events.
LEMMA EventsOf ==
  ASSUME NEW s \in Seq(Event)
  PROVE  /\ DOMAIN s = 1..Len(s) /\ Len(s) \in Nat
         /\ \A i \in 1..Len(s) : /\ s[i] \in Event /\ s[i].seq \in Nat
                                 /\ s[i].n \in 1..Length /\ s[i].turn \in Turn
  <1>1. \A i \in 1..Len(s) : s[i] \in Event
    OBVIOUS
  <1>2. \A e \in Event : e.seq \in Nat /\ e.n \in 1..Length /\ e.turn \in Turn
    BY DEF Event
  <1> QED BY <1>1, <1>2

\* A stretch of which the first k events are dropped and the next one is added.
LEMMA StretchGrows ==
  ASSUME NEW s, NEW r, NEW t, NEW last \in Nat, NEW k \in Nat, NEW m \in Nat,
         Stretch(s, t, last), DOMAIN s = 1..Len(s), Len(s) \in Nat, k <= Len(s),
         Len(r) = Len(s) - k + 1, DOMAIN r = 1..Len(r), m = last + 1,
         \A i \in 1..(Len(s) - k) : r[i] = s[i + k],
         r[Len(r)] = [turn |-> t, n |-> m, seq |-> m]
  PROVE  Stretch(r, t, m)
  <1>1. ASSUME NEW i \in DOMAIN r
        PROVE  r[i] = [turn |-> t, n |-> m - Len(r) + i, seq |-> m - Len(r) + i]
    <2>1. CASE i = Len(r)
      <3>1. m - Len(r) + i = m
        BY <2>1
      <3> QED BY <2>1, <3>1
    <2>2. CASE i # Len(r)
      <3>1. i \in Nat /\ 1 <= i /\ i <= Len(s) - k
        BY <1>1, <2>2
      <3>2. i \in 1..(Len(s) - k) /\ i + k \in DOMAIN s
        BY <3>1
      <3>3. m - Len(r) + i = last - Len(s) + (i + k)
        BY <3>1
      <3>4. s[i + k] = [turn |-> t, n |-> last - Len(s) + (i + k), seq |-> last - Len(s) + (i + k)]
        BY <3>2 DEF Stretch
      <3>5. r[i] = s[i + k]
        BY <3>2
      <3> QED BY <3>3, <3>4, <3>5
    <2> QED BY <2>1, <2>2
  <1>2. Len(r) <= m
    BY DEF Stretch
  <1> QED BY <1>1, <1>2 DEF Stretch

\* A bounded buffer that loses its oldest element when a new one comes.
LEMMA PushFacts ==
  ASSUME NEW cap \in Nat \ {0}, NEW s \in Seq(Event), Len(s) <= cap, NEW e \in Event
  PROVE  LET r == Append(IF Len(s) = cap THEN Tail(s) ELSE s, e) IN
         /\ r \in Seq(Event) /\ Len(r) <= cap /\ r # <<>>
         /\ Range(r) \subseteq Range(s) \cup {e}
         /\ Len(s) # cap => Len(r) = Len(s) + 1
         /\ \A t : \A last, m \in Nat :
              Stretch(s, t, last) /\ m = last + 1 /\ e = [turn |-> t, n |-> m, seq |-> m]
                => Stretch(r, t, m)
  <1> DEFINE w == IF Len(s) = cap THEN Tail(s) ELSE s
             k == IF Len(s) = cap THEN 1 ELSE 0
             r == Append(w, e)
  <1>1. /\ w \in Seq(Event) /\ k \in Nat /\ k <= Len(s) /\ Len(w) = Len(s) - k
        /\ \A i \in 1..(Len(s) - k) : w[i] = s[i + k]
        /\ Range(w) \subseteq Range(s)
        /\ Len(s) = cap => k = 1
        /\ Len(s) # cap => k = 0
    <2>1. CASE Len(s) = cap
      <3>1. s # <<>>
        BY <2>1
      <3> QED BY <2>1, <3>1, TailFacts
    <2>2. CASE Len(s) # cap
      BY <2>2
    <2> QED BY <2>1, <2>2
  <1> HIDE DEF w, k
  <1>2. /\ r \in Seq(Event) /\ Len(r) = Len(w) + 1 /\ r[Len(w) + 1] = e
        /\ \A i \in 1..Len(w) : r[i] = w[i]
        /\ Range(r) \subseteq Range(w) \cup {e}
    BY <1>1, AppendFacts
  <1>3. DOMAIN r = 1..Len(r) /\ DOMAIN s = 1..Len(s) /\ Len(s) \in Nat
    BY <1>2
  <1> HIDE DEF r
  <1>4. Len(r) = Len(s) - k + 1 /\ Len(r) <= cap /\ r # <<>> /\ (Len(s) # cap => Len(r) = Len(s) + 1)
    <2>1. Len(r) = Len(s) - k + 1
      BY <1>1, <1>2
    <2>2. r # <<>>
      BY <1>1, <1>2, <1>3
    <2>3. Len(r) <= cap /\ (Len(s) # cap => Len(r) = Len(s) + 1)
      BY <1>1, <1>3, <2>1
    <2> QED BY <2>1, <2>2, <2>3
  <1>5. ASSUME NEW t, NEW last \in Nat, NEW m \in Nat, Stretch(s, t, last), m = last + 1,
               e = [turn |-> t, n |-> m, seq |-> m]
        PROVE  Stretch(r, t, m)
    <2>1. \A i \in 1..(Len(s) - k) : r[i] = s[i + k]
      BY <1>1, <1>2
    <2>2. r[Len(r)] = [turn |-> t, n |-> m, seq |-> m]
      BY <1>2, <1>5
    <2> QED BY <1>1, <1>3, <1>4, <1>5, <2>1, <2>2, StretchGrows
  <1>6. Range(r) \subseteq Range(s) \cup {e}
    BY <1>1, <1>2
  <1> QED BY <1>2, <1>4, <1>5, <1>6 DEF r, w

\* The same as an operator, for the steps that need no more of it.
Pushed(s, cap, e) == Append(IF Len(s) = cap THEN Tail(s) ELSE s, e)

\* A buffer with the next event of its stretch.
LEMMA PushStretch ==
  ASSUME NEW cap \in Nat \ {0}, NEW s \in Seq(Event), Len(s) <= cap, NEW e \in Event,
         NEW t, NEW last \in Nat, Stretch(s, t, last),
         e.turn = t, e.n = last + 1, e.seq = last + 1
  PROVE  /\ Stretch(Pushed(s, cap, e), t, last + 1) /\ Pushed(s, cap, e) # <<>>
         /\ Len(s) # cap => Len(Pushed(s, cap, e)) = Len(s) + 1
  <1>1. PICK m \in Nat : m = last + 1
    OBVIOUS
  <1>2. e = [turn |-> t, n |-> m, seq |-> m]
    BY <1>1 DEF Event
  <1>3. PICK r : r = Append(IF Len(s) = cap THEN Tail(s) ELSE s, e)
    OBVIOUS
  <1>4. \A u : \A l, k \in Nat : Stretch(s, u, l) /\ k = l + 1 /\ e = [turn |-> u, n |-> k, seq |-> k]
                             => Stretch(r, u, k)
    BY <1>3, PushFacts
  <1>5. r # <<>> /\ (Len(s) # cap => Len(r) = Len(s) + 1)
    BY <1>3, PushFacts
  <1>6. Stretch(r, t, m)
    BY <1>1, <1>2, <1>4
  <1> QED BY <1>1, <1>3, <1>5, <1>6 DEF Pushed

\* The tail of a stretch is a stretch.
LEMMA TailStretch ==
  ASSUME NEW s \in Seq(Event), s # <<>>, NEW t, NEW last \in Nat, Stretch(s, t, last)
  PROVE  /\ Stretch(Tail(s), t, last) /\ Len(Tail(s)) = Len(s) - 1 /\ Len(s) \in Nat
         /\ Head(s) = [turn |-> t, n |-> last - Len(s) + 1, seq |-> last - Len(s) + 1]
  <1>1. /\ Tail(s) \in Seq(Event) /\ Len(s) \in Nat \ {0} /\ Len(Tail(s)) = Len(s) - 1
        /\ \A i \in 1..(Len(s) - 1) : Tail(s)[i] = s[i + 1]
        /\ Head(s) = s[1]
    BY TailFacts
  <1>2. ASSUME NEW i \in 1..(Len(s) - 1)
        PROVE  Tail(s)[i] = [turn |-> t, n |-> last - (Len(s) - 1) + i, seq |-> last - (Len(s) - 1) + i]
    <2>1. i + 1 \in 1..Len(s) /\ last - Len(s) + (i + 1) = last - (Len(s) - 1) + i
      BY <1>1
    <2>2. s[i + 1] = [turn |-> t, n |-> last - Len(s) + (i + 1), seq |-> last - Len(s) + (i + 1)]
      <3>1. DOMAIN s = 1..Len(s)
        OBVIOUS
      <3> QED BY <2>1, <3>1 DEF Stretch
    <2> QED BY <1>1, <2>1, <2>2
  <1>3. Len(Tail(s)) <= last /\ DOMAIN Tail(s) = 1..(Len(s) - 1) /\ 1 \in DOMAIN s
    BY <1>1 DEF Stretch
  <1> QED BY <1>1, <1>2, <1>3 DEF Stretch


\* The j-th of a set of indices exists: the count of those up to m grows by at
\* most one with m.
LEMMA NthExists ==
  ASSUME NEW len \in Nat, NEW kept \in SUBSET (1..len), NEW j \in 1..Cardinality(kept)
  PROVE  \E i \in kept : Cardinality({k \in kept : k <= i}) = j
  <1> DEFINE Upto(m) == {k \in kept : k <= m}
             G == {m \in Nat : Cardinality(Upto(m)) >= j}
  <1>0. \A k \in kept : k \in Int /\ 1 <= k /\ k <= len
    OBVIOUS
  <1>1. IsFiniteSet(kept) /\ Cardinality(kept) \in Nat
    <2>1. IsFiniteSet(1..len)
      BY FS_Interval
    <2> QED BY <2>1, FS_Subset, FS_CardinalityType
  <1>2. \A m \in Nat : IsFiniteSet(Upto(m)) /\ Cardinality(Upto(m)) \in Nat
    <2>1. \A m \in Nat : Upto(m) \in SUBSET kept
      OBVIOUS
    <2> HIDE DEF Upto
    <2> QED BY <1>1, <2>1, FS_Subset, FS_CardinalityType
  <1>3. len \in G
    <2>1. Upto(len) = kept
      BY <1>0
    <2> QED BY <1>1, <2>1
  <1>4. PICK m \in G : \A l \in G : ~(<<l, m>> \in OpToRel(<, Nat))
    <2>1. G \subseteq Nat /\ G # {}
      BY <1>3
    <2> HIDE DEF G
    <2> QED BY <2>1, WFMin, NatLessThanWellFounded
  <1>5. m \in Nat /\ Cardinality(Upto(m)) >= j /\ \A l \in G : ~(l < m)
    BY <1>4 DEF OpToRel
  <1>6. m # 0
    <2>1. Upto(0) = {}
      <3>1. \A k \in kept : ~(k <= 0)
        BY <1>0
      <3> QED BY <3>1, Zenon
    <2>2. Cardinality(Upto(0)) = 0
      BY <2>1, FS_EmptySet
    <2> QED BY <1>5, <2>2
  <1>7. m - 1 \in Nat /\ ~(Cardinality(Upto(m - 1)) >= j)
    <2>1. m - 1 \in Nat /\ m - 1 < m
      BY <1>5, <1>6
    <2>2. m - 1 \notin G
      BY <1>5, <2>1
    <2> HIDE DEF Upto
    <2> QED BY <2>1, <2>2
  <1>8. m \in kept /\ Cardinality(Upto(m)) = Cardinality(Upto(m - 1)) + 1
    <2>1. CASE m \in kept
      <3>1. Upto(m) = Upto(m - 1) \cup {m} /\ m \notin Upto(m - 1)
        <4>1. \A k \in kept : (k <= m <=> k <= m - 1 \/ k = m) /\ ~(m <= m - 1)
          BY <1>0, <1>5
        <4> QED BY <2>1, <4>1, Zenon
      <3> HIDE DEF Upto
      <3> QED BY <1>2, <1>7, <2>1, <3>1, FS_AddElement
    <2>2. CASE m \notin kept
      <3>1. Upto(m) = Upto(m - 1)
        <4>1. \A k \in kept : k <= m <=> k <= m - 1
          BY <1>0, <1>5, <2>2
        <4> QED BY <4>1, Zenon
      <3> QED BY <1>5, <1>7, <3>1
    <2> QED BY <2>1, <2>2
  <1>9. Cardinality(Upto(m)) = j
    <2> HIDE DEF Upto
    <2> QED BY <1>2, <1>5, <1>7, <1>8
  <1> QED BY <1>8, <1>9

\* What is kept of the ring is a sequence of events of the ring.
LEMMA FilterFacts ==
  ASSUME NEW ring \in Seq(Event), NEW kept \in SUBSET DOMAIN ring
  PROVE  /\ Filter(ring, kept) \in Seq(Event)
         /\ Range(Filter(ring, kept)) \subseteq Range(ring)
         /\ Len(Filter(ring, kept)) = Cardinality(kept)
         /\ Cardinality(kept) \in Nat
  <1> DEFINE nth(j) == CHOOSE i \in kept : Cardinality({k \in kept : k <= i}) = j
  <1>1. DOMAIN ring = 1..Len(ring) /\ Len(ring) \in Nat /\ \A i \in DOMAIN ring : ring[i] \in Event
    OBVIOUS
  <1>2. Cardinality(kept) \in Nat
    <2>1. IsFiniteSet(1..Len(ring))
      BY <1>1, FS_Interval
    <2> QED BY <1>1, <2>1, FS_Subset, FS_CardinalityType
  <1>3. ASSUME NEW j \in 1..Cardinality(kept) PROVE nth(j) \in kept
    BY <1>1, NthExists
  <1> HIDE DEF nth
  <1>4. Filter(ring, kept) = [j \in 1..Cardinality(kept) |-> ring[nth(j)]]
    BY DEF Filter, nth
  <1>5. \A j \in 1..Cardinality(kept) : ring[nth(j)] \in Event /\ ring[nth(j)] \in Range(ring)
    BY <1>1, <1>3 DEF Range
  <1>6. Filter(ring, kept) \in Seq(Event) /\ Len(Filter(ring, kept)) = Cardinality(kept)
    BY <1>2, <1>4, <1>5
  <1>7. Range(Filter(ring, kept)) \subseteq Range(ring)
    BY <1>4, <1>5 DEF Range
  <1> QED BY <1>2, <1>6, <1>7

\* The end of the ring from index a on.
LEMMA FilterEnd ==
  ASSUME NEW ring \in Seq(Event), NEW a \in 1..Len(ring)
  PROVE  LET kept == a..Len(ring) IN
         /\ Cardinality(kept) = Len(ring) - a + 1
         /\ \A j \in 1..(Len(ring) - a + 1) : Filter(ring, kept)[j] = ring[a + j - 1]
  <1> DEFINE kept == a..Len(ring)
             nth(j) == CHOOSE i \in kept : Cardinality({k \in kept : k <= i}) = j
  <1>1. Len(ring) \in Nat /\ a \in Nat /\ DOMAIN ring = 1..Len(ring)
    OBVIOUS
  <1>2. Cardinality(kept) = Len(ring) - a + 1
    BY <1>1, FS_Interval
  <1>3. \A i \in kept : Cardinality({k \in kept : k <= i}) = i - a + 1
    <2>1. ASSUME NEW i \in kept PROVE {k \in kept : k <= i} = a..i /\ i \in Int /\ a <= i
      BY <1>1
    <2>2. \A i \in kept : Cardinality(a..i) = i - a + 1
      BY <1>1, FS_Interval
    <2> QED BY <2>1, <2>2
  <1>4. ASSUME NEW j \in 1..(Len(ring) - a + 1) PROVE nth(j) = a + j - 1
    <2>1. a + j - 1 \in kept /\ (a + j - 1) - a + 1 = j
      BY <1>1
    <2>2. \A i \in kept : i - a + 1 = j => i = a + j - 1
      BY <1>1
    <2>3. \A i \in kept : Cardinality({k \in kept : k <= i}) = j <=> i = a + j - 1
      BY <1>3, <2>1, <2>2
    <2> QED BY <2>1, <2>3
  <1>5. Filter(ring, kept) = [j \in 1..Cardinality(kept) |-> ring[nth(j)]]
    BY DEF Filter
  <1> HIDE DEF nth, kept
  <1>6. \A j \in 1..(Len(ring) - a + 1) : Filter(ring, kept)[j] = ring[a + j - 1]
    BY <1>2, <1>4, <1>5
  <1> QED BY <1>2, <1>6 DEF kept


\* The replay of an undisturbed ring starts at the resume point.
LEMMA ReplayStretch ==
  ASSUME NEW ring \in Seq(Event), NEW t, NEW sent \in Nat, NEW since \in Nat \ {0},
         Stretch(ring, t, sent), ring # <<>>, ~Evicted(ring, since), since <= sent
  PROVE  /\ Since(ring, since) \in Seq(Event) /\ Stretch(Since(ring, since), t, sent)
         /\ Len(Since(ring, since)) = sent - since + 1 /\ Since(ring, since) # <<>>
  <1>1. Len(ring) \in Nat \ {0} /\ DOMAIN ring = 1..Len(ring) /\ Len(ring) <= sent
    BY TailFacts DEF Stretch
  <1>2. \A i \in 1..Len(ring) :
          /\ ring[i] = [turn |-> t, n |-> sent - Len(ring) + i, seq |-> sent - Len(ring) + i]
          /\ ring[i].seq = sent - Len(ring) + i
    BY <1>1 DEF Stretch
  <1>3. Head(ring) = ring[1] /\ 1 \in 1..Len(ring)
    BY <1>1
  <1>4. sent - Len(ring) + 1 <= since
    BY <1>1, <1>2, <1>3 DEF Evicted
  <1>5. PICK a \in 1..Len(ring) : a = since - (sent - Len(ring))
    BY <1>1, <1>4
  <1>6. {i \in DOMAIN ring : ring[i].seq >= since} = a..Len(ring)
    <2>1. \A i \in 1..Len(ring) : ring[i].seq >= since <=> i >= a
      BY <1>1, <1>2, <1>5
    <2> QED BY <1>1, <1>5, <2>1
  <1>7. PICK back : back = Since(ring, since)
    OBVIOUS
  <1>8. back = Filter(ring, a..Len(ring)) /\ a..Len(ring) \in SUBSET DOMAIN ring
    BY <1>1, <1>5, <1>6, <1>7 DEF Since
  <1>9. /\ back \in Seq(Event) /\ Len(back) = Len(ring) - a + 1
        /\ \A j \in 1..(Len(ring) - a + 1) : back[j] = ring[a + j - 1]
    BY <1>8, FilterFacts, FilterEnd
  <1>10. Len(back) = sent - since + 1 /\ Len(back) <= sent /\ Len(back) > 0 /\ DOMAIN back = 1..Len(back)
    BY <1>1, <1>5, <1>9
  <1>11. ASSUME NEW j \in DOMAIN back
         PROVE  back[j] = [turn |-> t, n |-> sent - Len(back) + j, seq |-> sent - Len(back) + j]
    <2>1. a + j - 1 \in 1..Len(ring) /\ sent - Len(ring) + (a + j - 1) = sent - Len(back) + j
          /\ j \in 1..(Len(ring) - a + 1)
      <3>1. j \in 1..(Len(ring) - a + 1) /\ j \in Nat /\ Len(ring) \in Nat /\ a \in Nat /\ 1 <= a
        BY <1>1, <1>5, <1>9, <1>10
      <3>2. a + j - 1 \in 1..Len(ring)
        BY <3>1
      <3>3. sent - Len(ring) + (a + j - 1) = sent - Len(back) + j
        BY <1>9, <3>1
      <3> QED BY <3>1, <3>2, <3>3
    <2>2. back[j] = ring[a + j - 1]
      BY <1>9, <2>1
    <2>3. ring[a + j - 1] = [turn |-> t, n |-> sent - Len(ring) + (a + j - 1),
                             seq |-> sent - Len(ring) + (a + j - 1)]
      BY <1>2, <2>1
    <2> QED BY <2>1, <2>2, <2>3
  <1>12. Stretch(back, t, sent)
    BY <1>10, <1>11 DEF Stretch
  <1>13. back # <<>>
    BY <1>10
  <1> QED BY <1>7, <1>9, <1>10, <1>12, <1>13

----------------------------------------------------------------------------
(* The order of what is shown.                                             *)

\* The records of the state, field by field.
LEMMA HubFields ==
  ASSUME HubTypeOK
  PROVE  /\ hub.open \in BOOLEAN /\ hub.seq \in Nat /\ hub.ring \in Seq(Event)
         /\ conn.live \in BOOLEAN /\ conn.back \in Seq(Event) /\ conn.floor \in Nat
         /\ conn.queue \in Seq(Event) /\ conn.pc \in {"off", "replay", "open"}
         /\ client.streaming \in BOOLEAN /\ client.asking \in BOOLEAN /\ client.disturbed \in BOOLEAN
         /\ client.lastSeq \in Nat /\ client.shown \in Seq(Event)
         /\ \A t \in Turn : /\ turn[t].pc \in {"idle", "run", "ended"} /\ turn[t].sent \in 0..Length
                            /\ turn[t].seq \in Nat /\ turn[t].torn \in BOOLEAN
  BY DEF HubTypeOK, Entry, Connection, Client, TurnState

\* The elements of a sequence of events are events.
LEMMA EventFields ==
  ASSUME HubTypeOK, NEW e \in Events
  PROVE  e \in Event /\ e.turn \in Turn /\ e.n \in 1..Length /\ e.seq \in Nat
  <1>1. \A s \in Seq(Event) : Range(s) \subseteq Event
    BY DEF Range
  <1>2. e \in Event
    BY <1>1, HubFields DEF Events
  <1> QED BY <1>2 DEF Event

\* A step that publishes nothing and takes no seq keeps the events in order.
LEMMA NothingPublished ==
  ASSUME HubInv, HubTypeOK', Events' \subseteq Events,
         \A t \in Turn :
           /\ turn'[t].sent = turn[t].sent /\ turn'[t].seq = turn[t].seq
           /\ ~turn'[t].torn => ~turn[t].torn
           /\ turn'[t].pc = "idle" => turn[t].pc = "idle"
           /\ turn[t].pc = "run" /\ turn'[t].pc # "run" => turn[t].seq = 0
           /\ turn'[t].pc = "run" /\ ~turn'[t].torn =>
                \/ turn[t].pc = "idle"
                \/ turn[t].pc = "run" /\ (hub.open => hub'.open /\ hub'.seq >= hub.seq)
  PROVE  Turns' /\ OneCounter' /\ SeqsInOrder'
  <1> USE DEF HubInv
  <1>0. /\ hub.seq \in Nat /\ hub'.seq \in Nat
        /\ \A t \in Turn : /\ turn[t].pc \in {"idle", "run", "ended"} /\ turn[t].sent \in 0..Length
                           /\ turn[t].seq \in Nat
    BY HubFields DEF HubTypeOK, Entry
  <1>1. \A e \in Events' : e \in Events /\ e.turn \in Turn /\ e.n \in 1..Length /\ e.seq \in Nat
    BY EventFields
  <1>a. \A t \in Turn : /\ turn[t].pc = "idle" => turn[t].sent = 0 /\ turn[t].seq = 0
                        /\ turn[t].seq # 0 => turn[t].pc = "run" /\ turn[t].sent < Length
    BY DEF Turns
  <1>2. Turns'
    <2>1. ASSUME NEW t \in Turn
          PROVE  /\ turn'[t].pc = "idle" => turn'[t].sent = 0 /\ turn'[t].seq = 0
                 /\ turn'[t].seq # 0 => turn'[t].pc = "run" /\ turn'[t].sent < Length
      BY <1>a
    <2>2. \A e \in Events' : e.n <= turn'[e.turn].sent
      BY <1>1 DEF Turns
    <2> QED BY <2>1, <2>2 DEF Turns
  <1>3. ASSUME NEW t \in Running', ~turn'[t].torn
        PROVE  /\ turn'[t].sent > 0 \/ turn'[t].seq # 0 => hub'.open
               /\ turn'[t].seq <= hub'.seq
               /\ \A e \in Events' : e.turn = t =>
                    e.seq <= hub'.seq /\ (turn'[t].seq # 0 => e.seq < turn'[t].seq)
    <2>1. t \in Turn /\ turn'[t].pc = "run"
      BY <1>3 DEF Running
    <2>2. CASE turn[t].pc = "idle" \/ ~hub.open
      <3>1. turn[t].sent = 0 /\ turn[t].seq = 0
        <4>1. CASE turn[t].pc = "idle"
          BY <1>a, <2>1, <4>1
        <4>2. CASE turn[t].pc # "idle"
          <5>1. t \in Running /\ ~turn[t].torn /\ ~hub.open
            BY <1>3, <2>1, <2>2, <4>2 DEF Running
          <5> QED BY <1>0, <2>1, <5>1 DEF OneCounter
        <4> QED BY <4>1, <4>2
      <3>2. \A e \in Events' : e.turn # t
        BY <1>1, <2>1, <3>1 DEF Turns
      <3> QED BY <1>0, <2>1, <3>1, <3>2
    <2>3. CASE turn[t].pc # "idle" /\ hub.open
      <3>1. t \in Running /\ ~turn[t].torn /\ hub'.open /\ hub'.seq >= hub.seq
        BY <1>3, <2>1, <2>3 DEF Running
      <3>2. /\ turn[t].seq <= hub.seq
            /\ \A e \in Events : e.turn = t =>
                 e.seq <= hub.seq /\ (turn[t].seq # 0 => e.seq < turn[t].seq)
        BY <3>1 DEF OneCounter
      <3> QED BY <1>0, <1>1, <2>1, <3>1, <3>2
    <2> QED BY <2>2, <2>3
  <1>4. OneCounter'
    BY <1>3 DEF OneCounter
  <1>5. SeqsInOrder'
    BY <1>1 DEF SeqsInOrder
  <1> QED BY <1>2, <1>4, <1>5

\* The screen that stays as it is, or starts anew, is in order.
LEMMA SameShown ==
  ASSUME HubInv, \/ client'.shown = client.shown /\ client'.lastSeq = client.lastSeq
                 \/ client'.shown = <<>>
  PROVE  ShownInOrder'
  BY DEF HubInv, ShownInOrder


\* The part of the invariant that is about the order of events.
Ordered == HubTypeOK /\ Turns /\ OneCounter /\ SeqsInOrder /\ ShownInOrder

\* Starting a turn.
LEMMA SpawnFacts ==
  ASSUME HubTypeOK, NEW t \in Turn, Spawn(t)
  PROVE  /\ turn' \in [Turn -> TurnState]
         /\ \A u \in Turn : /\ turn'[u].sent = turn[u].sent /\ turn'[u].seq = turn[u].seq
                            /\ turn'[u].torn = turn[u].torn
                            /\ u # t => turn'[u] = turn[u]
         /\ turn'[t].pc = "run"
  <1>1. PICK s : s = turn[t]
    OBVIOUS
  <1>2. s \in TurnState /\ turn \in [Turn -> TurnState]
    BY <1>1 DEF HubTypeOK
  <1> DEFINE n == [s EXCEPT !.pc = "run"]
  <1>3. n \in TurnState /\ n.pc = "run" /\ n.sent = s.sent /\ n.seq = s.seq /\ n.torn = s.torn
    BY <1>2 DEF TurnState
  <1>4. turn' = [turn EXCEPT ![t] = n]
    BY <1>1 DEF Spawn
  <1> HIDE DEF n
  <1>5. n \in TurnState
    BY <1>3
  <1>6. turn' \in [Turn -> TurnState] /\ turn'[t] = n /\ \A u \in Turn : u # t => turn'[u] = turn[u]
    BY <1>2, <1>4, <1>5
  <1> QED BY <1>1, <1>3, <1>6

\* The entry that is found or made.
LEMMA PresentFacts ==
  ASSUME HubTypeOK, NEW seq \in Nat
  PROVE  /\ Present(seq) \in Entry /\ Len(Present(seq).ring) <= RingCap
         /\ Present(seq).open /\ Range(Present(seq).ring) \subseteq Range(hub.ring)
         /\ hub.open => Present(seq) = hub
         /\ ~hub.open => Present(seq).seq = seq /\ Present(seq).ring = <<>>
  <1>1. <<>> \in Seq(Event) /\ Range(<<>>) = {} /\ RingCap \in Nat
    BY HubAssumption DEF Range
  <1>2. CASE hub.open
    BY <1>2 DEF Present, HubTypeOK
  <1>3. CASE ~hub.open
    BY <1>1, <1>3 DEF Present, HubTypeOK, Entry
  <1> QED BY <1>2, <1>3

\* The connection that is closed.
LEMMA OffFacts ==
  /\ Off \in Connection /\ Off.back = <<>> /\ Off.queue = <<>> /\ Off.pc = "off" /\ ~Off.live
  /\ Off.floor = 0 /\ Range(<<>>) = {} /\ Len(<<>>) = 0 /\ BufferCap \in Nat \ {0} /\ RingCap \in Nat \ {0}
  /\ Length \in Nat \ {0}
  <1>1. <<>> \in Seq(Event) /\ Range(<<>>) = {} /\ Len(<<>>) = 0
    BY DEF Range
  <1>2. BufferCap \in Nat \ {0} /\ RingCap \in Nat \ {0} /\ Length \in Nat \ {0}
    BY HubAssumption
  <1> QED BY <1>1, <1>2 DEF Off, Connection

\* Opening a connection and starting a turn keep the events in order.
LEMMA ConnectOrdered ==
  ASSUME HubInv, NEW t \in Turn, ConnectFresh(t) \/ ConnectRefused(t) \/ AskElsewhere(t)
  PROVE  Ordered'
  <1>1. /\ HubTypeOK /\ turn[t].pc = "idle" /\ Spawn(t) /\ drops' = drops
        /\ hub' = hub \/ hub' = Present(0)
        /\ conn' = conn \/ conn' = [Off EXCEPT !.pc = "open", !.live = TRUE]
        /\ client' \in {WithTurn, [WithTurn EXCEPT !.disturbed = TRUE], [client EXCEPT !.disturbed = TRUE]}
    BY DEF HubInv, ConnectFresh, ConnectRefused, AskElsewhere
  <1>2. client' \in Client /\ client'.shown = client.shown /\ client'.lastSeq = client.lastSeq
    BY <1>1 DEF HubTypeOK, Client, WithTurn
  <1>3. /\ conn' \in Connection /\ Len(conn'.queue) <= BufferCap
        /\ Range(conn'.back) \subseteq Range(conn.back) /\ Range(conn'.queue) \subseteq Range(conn.queue)
    <2>1. CASE conn' = conn
      BY <1>1, <2>1 DEF HubTypeOK
    <2>2. CASE conn' = [Off EXCEPT !.pc = "open", !.live = TRUE]
      <3>1. conn' \in Connection /\ conn'.back = <<>> /\ conn'.queue = <<>>
        BY <2>2, OffFacts DEF Connection
      <3> QED BY <3>1, OffFacts
    <2> QED BY <1>1, <2>1, <2>2
  <1>4. /\ hub' \in Entry /\ Len(hub'.ring) <= RingCap /\ Range(hub'.ring) \subseteq Range(hub.ring)
        /\ hub.open => hub'.open /\ hub'.seq >= hub.seq
    BY <1>1, PresentFacts, HubFields DEF HubTypeOK
  <1>5. HubTypeOK'
    BY <1>1, <1>2, <1>3, <1>4, SpawnFacts DEF HubTypeOK
  <1>6. Events' \subseteq Events
    BY <1>2, <1>3, <1>4 DEF Events
  <1>7. Turns' /\ OneCounter' /\ SeqsInOrder'
    <2>1. \A u \in Turn :
           /\ turn'[u].sent = turn[u].sent /\ turn'[u].seq = turn[u].seq
           /\ turn'[u].torn = turn[u].torn
           /\ u # t => turn'[u] = turn[u]
      BY <1>1, SpawnFacts
    <2>2. turn'[t].pc = "run"
      BY <1>1, SpawnFacts
    <2>3. \A u \in Turn :
           /\ ~turn'[u].torn => ~turn[u].torn
           /\ turn'[u].pc = "idle" => turn[u].pc = "idle"
           /\ turn[u].pc = "run" /\ turn'[u].pc # "run" => turn[u].seq = 0
           /\ turn'[u].pc = "run" /\ ~turn'[u].torn =>
                \/ turn[u].pc = "idle"
                \/ turn[u].pc = "run" /\ (hub.open => hub'.open /\ hub'.seq >= hub.seq)
      BY <1>1, <1>4, <2>1, <2>2
    <2> QED BY <1>5, <1>6, <2>1, <2>3, NothingPublished
  <1> QED BY <1>2, <1>5, <1>7, SameShown DEF Ordered

\* A removed entry and the turns it was removed under.
LEMMA RemoveFacts ==
  ASSUME HubTypeOK, Remove
  PROVE  /\ hub' \in Entry /\ hub'.ring = <<>> /\ Len(hub'.ring) <= RingCap /\ ~hub'.open /\ hub'.seq = 0
         /\ conn' \in Connection /\ conn'.back = conn.back /\ conn'.queue = conn.queue
         /\ conn'.pc = conn.pc /\ conn'.floor = conn.floor /\ ~conn'.live
         /\ Len(conn'.queue) <= BufferCap
  <1>1. <<>> \in Seq(Event) /\ Len(<<>>) <= RingCap
    BY HubAssumption
  <1>2. /\ hub' \in Entry /\ hub'.ring = <<>> /\ ~hub'.open /\ hub'.seq = 0
    BY <1>1 DEF Remove, Entry
  <1>3. /\ conn' \in Connection /\ conn'.back = conn.back /\ conn'.queue = conn.queue
        /\ conn'.pc = conn.pc /\ conn'.floor = conn.floor /\ ~conn'.live
    BY DEF Remove, HubTypeOK, Connection
  <1> QED BY <1>1, <1>2, <1>3 DEF HubTypeOK

\* A turn under which the entry is removed.
LEMMA TornFacts ==
  ASSUME HubTypeOK, NEW u \in Turn
  PROVE  /\ Torn(u) \in TurnState /\ Torn(u).pc = turn[u].pc /\ Torn(u).sent = turn[u].sent
         /\ Torn(u).seq = turn[u].seq /\ Torn(u).torn = (turn[u].torn \/ turn[u].pc = "run")
  <1>1. turn[u] \in TurnState /\ (u \in Running <=> turn[u].pc = "run")
    BY DEF HubTypeOK, Running
  <1> QED BY <1>1 DEF Torn, TurnState

\* Removing the entry keeps the events in order: a turn that goes on is torn.
LEMMA RemoveOrdered ==
  ASSUME HubInv, Remove, drops' \in 0..MaxDrops, client' \in Client, client'.shown = client.shown,
         client'.lastSeq = client.lastSeq, turn' \in [Turn -> TurnState],
         \A u \in Turn : /\ turn'[u].sent = turn[u].sent /\ turn'[u].seq = turn[u].seq
                         /\ ~turn'[u].torn => ~turn[u].torn
                         /\ turn'[u].pc = "idle" => turn[u].pc = "idle"
                         /\ turn[u].pc = "run" /\ turn'[u].pc # "run" => turn[u].seq = 0
                         /\ turn'[u].pc = "run" => turn'[u].torn
  PROVE  Ordered'
  <1>1. HubTypeOK'
    BY RemoveFacts DEF HubInv, HubTypeOK
  <1>2. Events' \subseteq Events
    BY RemoveFacts, OffFacts DEF Events, HubInv
  <1>3. Turns' /\ OneCounter' /\ SeqsInOrder'
    BY <1>1, <1>2, NothingPublished
  <1> QED BY <1>1, <1>3, SameShown DEF Ordered

\* A turn that ends keeps the events in order.
LEMMA CloseOrdered ==
  ASSUME HubInv, NEW t \in Turn, Close(t)
  PROVE  Ordered'
  <1>1. HubTypeOK /\ turn[t] \in TurnState /\ turn[t].seq = 0 /\ turn[t].pc = "run"
    BY DEF HubInv, HubTypeOK, Close
  <1> DEFINE n == [turn[t] EXCEPT !.pc = "ended"]
  <1>2. n \in TurnState /\ n.pc = "ended" /\ n.sent = turn[t].sent /\ n.seq = 0 /\ n.torn = turn[t].torn
    BY <1>1 DEF TurnState
  <1> HIDE DEF n
  <1>3. turn' = [u \in Turn |-> IF u = t THEN n ELSE Torn(u)]
    BY DEF Close, n
  <1>4. turn' \in [Turn -> TurnState]
    BY <1>1, <1>2, <1>3, TornFacts
  <1>5. \A u \in Turn : turn'[u] = IF u = t THEN n ELSE Torn(u)
    BY <1>3
  <1>6. \A u \in Turn : /\ turn'[u].sent = turn[u].sent /\ turn'[u].seq = turn[u].seq
                        /\ ~turn'[u].torn => ~turn[u].torn
                        /\ turn'[u].pc = "idle" => turn[u].pc = "idle"
                        /\ turn[u].pc = "run" /\ turn'[u].pc # "run" => turn[u].seq = 0
                        /\ turn'[u].pc = "run" => turn'[u].torn
    <2>1. ASSUME NEW u \in Turn, u # t
          PROVE  /\ turn'[u].sent = turn[u].sent /\ turn'[u].seq = turn[u].seq
                 /\ turn'[u].pc = turn[u].pc /\ turn'[u].torn = (turn[u].torn \/ turn[u].pc = "run")
      BY <1>1, <1>5, <2>1, TornFacts
    <2>2. /\ turn'[t].pc = "ended" /\ turn'[t].sent = turn[t].sent /\ turn'[t].seq = 0
          /\ turn'[t].torn = turn[t].torn
      BY <1>2, <1>5
    <2> QED BY <1>1, <2>1, <2>2
  <1>7. client' \in Client /\ client'.shown = client.shown /\ client'.lastSeq = client.lastSeq
    BY <1>1 DEF HubTypeOK, Client, Close
  <1>8. Remove /\ drops' \in 0..MaxDrops
    BY <1>1 DEF Close, HubTypeOK
  <1> QED BY <1>4, <1>6, <1>7, <1>8, RemoveOrdered

\* The registry that reaps the entry keeps the events in order.
LEMMA ReapOrdered ==
  ASSUME HubInv, Reap
  PROVE  Ordered'
  <1>1. HubTypeOK /\ turn' = [u \in Turn |-> Torn(u)]
    BY DEF HubInv, Reap
  <1>2. turn' \in [Turn -> TurnState]
    BY <1>1, TornFacts
  <1>3. \A u \in Turn : /\ turn'[u].sent = turn[u].sent /\ turn'[u].seq = turn[u].seq
                        /\ turn'[u].pc = turn[u].pc
                        /\ turn'[u].torn = (turn[u].torn \/ turn[u].pc = "run")
    BY <1>1, TornFacts
  <1>4. client' \in Client /\ client'.shown = client.shown /\ client'.lastSeq = client.lastSeq
    BY <1>1 DEF HubTypeOK, Client, Reap
  <1>5. Remove /\ drops' \in 0..MaxDrops
    BY <1>1, HubAssumption DEF Reap, HubTypeOK
  <1> QED BY <1>2, <1>3, <1>4, <1>5, RemoveOrdered


\* A step of the connection or the screen alone.
LEMMA ReaderOrdered ==
  ASSUME HubInv, turn' = turn, hub' = hub \/ hub' = Present(0), drops' \in 0..MaxDrops,
         conn' \in Connection, Len(conn'.queue) <= BufferCap, client' \in Client,
         Range(conn'.back) \cup Range(conn'.queue) \cup Range(client'.shown) \subseteq Events, ShownInOrder'
  PROVE  Ordered'
  <1>1. HubTypeOK
    BY DEF HubInv
  <1>2. /\ hub' \in Entry /\ Len(hub'.ring) <= RingCap /\ Range(hub'.ring) \subseteq Range(hub.ring)
        /\ hub.open => hub'.open /\ hub'.seq >= hub.seq
    BY <1>1, PresentFacts, HubFields DEF HubTypeOK
  <1>3. HubTypeOK'
    BY <1>1, <1>2 DEF HubTypeOK
  <1>4. Events' \subseteq Events
    BY <1>2 DEF Events
  <1>5. \A t \in Turn : turn[t].pc \in {"idle", "run", "ended"}
    BY <1>1, HubFields
  <1>6. Turns' /\ OneCounter' /\ SeqsInOrder'
    BY <1>2, <1>3, <1>4, <1>5, NothingPublished
  <1> QED BY <1>3, <1>6 DEF Ordered

\* Resuming, asking, and the end of a connection keep the events in order.
LEMMA ConnectionOrdered ==
  ASSUME HubInv, Resume \/ Ask \/ Finish \/ Drop
  PROVE  Ordered'
  <1>1. HubTypeOK /\ turn' = turn /\ (hub' = hub \/ hub' = Present(0)) /\ drops' \in 0..MaxDrops
    BY HubAssumption DEF HubInv, Resume, Ask, Finish, Drop, HubTypeOK
  <1>2. conn' \in {Off, [Off EXCEPT !.pc = "replay", !.live = TRUE], [Off EXCEPT !.pc = "replay"]}
    BY DEF Resume, Ask, Finish, Drop
  <1>3. conn' \in Connection /\ conn'.back = <<>> /\ conn'.queue = <<>>
    <2>1. PICK o : o = Off
      OBVIOUS
    <2>2. o \in Connection /\ o.back = <<>> /\ o.queue = <<>>
      BY <2>1, OffFacts
    <2>3. CASE conn' = o
      BY <2>2, <2>3
    <2>4. CASE conn' = [o EXCEPT !.pc = "replay", !.live = TRUE]
      BY <2>2, <2>4 DEF Connection
    <2>5. CASE conn' = [o EXCEPT !.pc = "replay"]
      BY <2>2, <2>5 DEF Connection
    <2> QED BY <1>2, <2>1, <2>3, <2>4, <2>5
  <1>4. /\ client' \in Client
        /\ \/ client'.shown = client.shown /\ client'.lastSeq = client.lastSeq
           \/ client'.shown = <<>>
    <2>1. <<>> \in Seq(Event)
      OBVIOUS
    <2>2. CASE Resume
      BY <1>1, <2>2 DEF HubTypeOK, Resume
    <2>3. CASE Ask
      BY <1>1, <2>1, <2>3 DEF HubTypeOK, Client, Ask
    <2>4. CASE Finish
      BY <1>1, <2>4 DEF HubTypeOK, Finish
    <2>5. CASE Drop
      <3>1. client.disturbed \/ (client.streaming /\ ~conn.live) \in BOOLEAN
        BY <1>1, HubFields
      <3> QED BY <1>1, <2>5, <3>1 DEF HubTypeOK, Client, Drop
    <2> QED BY <2>2, <2>3, <2>4, <2>5
  <1>5. Range(client'.shown) \subseteq Range(client.shown)
    BY <1>4, OffFacts
  <1>6. Range(conn'.back) \cup Range(conn'.queue) \cup Range(client'.shown) \subseteq Events
    BY <1>3, <1>5, OffFacts DEF Events
  <1>7. Len(conn'.queue) <= BufferCap
    BY <1>3, OffFacts
  <1>8. ShownInOrder'
    BY <1>4, SameShown
  <1> QED BY <1>1, <1>3, <1>4, <1>6, <1>7, <1>8, ReaderOrdered

\* A backfill that is not empty has a largest seq.
LEMMA LastOf ==
  ASSUME NEW s \in Seq(Event), s # <<>>
  PROVE  \E m \in {s[i].seq : i \in DOMAIN s} : \A i \in DOMAIN s : s[i].seq <= m
  <1> DEFINE Top(k) == \E j \in 1..k : \A i \in 1..k : s[i].seq <= s[j].seq
             G == {k \in Nat : k \in 1..Len(s) /\ ~Top(k)}
  <1>1. DOMAIN s = 1..Len(s) /\ Len(s) \in Nat \ {0} /\ \A i \in 1..Len(s) : s[i].seq \in Nat
    BY TailFacts, EventsOf
  <1>2. Top(1)
    BY <1>1
  <1>3. ASSUME NEW k \in 1..Len(s), k # 1, Top(k - 1) PROVE Top(k)
    <2>1. PICK j \in 1..(k - 1) : \A i \in 1..(k - 1) : s[i].seq <= s[j].seq
      BY <1>3
    <2>2. /\ k \in 1..k /\ j \in 1..k /\ \A i \in 1..k : i \in 1..(k - 1) \/ i = k
          /\ \A i \in 1..k : s[i].seq \in Nat
      BY <1>1, <1>3
    <2>3. CASE s[k].seq <= s[j].seq
      BY <2>1, <2>2, <2>3
    <2>4. CASE ~(s[k].seq <= s[j].seq)
      <3>1. \A i \in 1..k : s[i].seq <= s[k].seq
        <4>1. ASSUME NEW i \in 1..(k - 1) PROVE s[i].seq <= s[k].seq
          <5>1. s[i].seq <= s[j].seq /\ s[i].seq \in Nat /\ s[j].seq \in Nat /\ s[k].seq \in Nat
            BY <1>1, <1>3, <2>1, <2>2
          <5> QED BY <2>4, <5>1
        <4>2. s[k].seq <= s[k].seq
          BY <2>2
        <4> QED BY <2>2, <4>1, <4>2
      <3> QED BY <2>2, <3>1
    <2> QED BY <2>3, <2>4
  <1>4. G = {}
    <2> SUFFICES ASSUME G # {} PROVE FALSE
      OBVIOUS
    <2>1. PICK k \in G : \A l \in G : ~(<<l, k>> \in OpToRel(<, Nat))
      <3>1. G \subseteq Nat
        OBVIOUS
      <3> HIDE DEF G
      <3> QED BY <3>1, WFMin, NatLessThanWellFounded
    <2> HIDE DEF Top
    <2>2. k \in 1..Len(s) /\ ~Top(k) /\ \A l \in G : ~(l < k)
      BY <2>1 DEF OpToRel
    <2>3. k # 1 /\ k - 1 \in 1..Len(s) /\ k - 1 \in Nat
      BY <1>1, <1>2, <2>2
    <2>4. k - 1 \notin G
      BY <2>2, <2>3
    <2>5. Top(k - 1)
      BY <2>3, <2>4
    <2> QED BY <1>3, <2>2, <2>3, <2>5
  <1>5. Top(Len(s))
    <2> HIDE DEF Top
    <2> QED BY <1>1, <1>4
  <1> QED BY <1>1, <1>5

\* What a resume replays are events of the ring.
LEMMA ReplayOrdered ==
  ASSUME HubInv, Replay
  PROVE  Ordered'
  <1> DEFINE since == client.lastSeq
             gone == hub.open /\ Evicted(hub.ring, since)
             back == IF ~hub.open \/ gone THEN <<>> ELSE Since(hub.ring, since)
             last == IF back = <<>> THEN 0 ELSE CHOOSE m \in {back[i].seq : i \in DOMAIN back} :
                                                  \A i \in DOMAIN back : back[i].seq <= m
  <1>1. /\ HubTypeOK /\ turn' = turn /\ hub' = hub /\ drops' = drops
        /\ conn' = [conn EXCEPT !.pc = "open", !.back = back, !.floor = last]
        /\ client' = [client EXCEPT !.disturbed = @ \/ gone]
    BY DEF HubInv, Replay
  <1>2. back \in Seq(Event) /\ Range(back) \subseteq Range(hub.ring)
    <2>1. CASE back = <<>>
      <3>1. <<>> \in Seq(Event)
        OBVIOUS
      <3> HIDE DEF back
      <3> QED BY <2>1, <3>1, OffFacts
    <2>2. CASE back = Since(hub.ring, since)
      <3>1. Since(hub.ring, since) \in Seq(Event) /\ Range(Since(hub.ring, since)) \subseteq Range(hub.ring)
        BY <1>1, HubFields, FilterFacts DEF Since
      <3> HIDE DEF back
      <3> QED BY <2>2, <3>1
    <2>3. back = <<>> \/ back = Since(hub.ring, since)
      OBVIOUS
    <2> QED BY <2>1, <2>2, <2>3
  <1> HIDE DEF back
  <1>3. last \in Nat
    <2>1. CASE back = <<>>
      BY <2>1
    <2>2. CASE back # <<>>
      <3>1. \E m \in {back[i].seq : i \in DOMAIN back} : \A i \in DOMAIN back : back[i].seq <= m
        BY <1>2, <2>2, LastOf
      <3>2. \A i \in DOMAIN back : back[i].seq \in Nat
        BY <1>2, EventsOf
      <3> QED BY <2>2, <3>1, <3>2
    <2> QED BY <2>1, <2>2
  <1> HIDE DEF last, gone
  <1>4. gone \in BOOLEAN
    BY <1>1, HubFields DEF gone, Evicted
  <1>5. conn' \in Connection /\ conn'.back = back /\ conn'.queue = conn.queue
    BY <1>1, <1>2, <1>3 DEF HubTypeOK, Connection
  <1>6. client' \in Client /\ client'.shown = client.shown /\ client'.lastSeq = client.lastSeq
    BY <1>1, <1>4 DEF HubTypeOK, Client
  <1>7. Range(conn'.back) \cup Range(conn'.queue) \cup Range(client'.shown) \subseteq Events
    BY <1>2, <1>5, <1>6 DEF Events
  <1>8. Len(conn'.queue) <= BufferCap /\ drops' \in 0..MaxDrops
    BY <1>1, <1>5 DEF HubTypeOK
  <1>9. ShownInOrder'
    BY <1>6, SameShown
  <1> QED BY <1>1, <1>5, <1>6, <1>7, <1>8, <1>9, ReaderOrdered

\* The screen shows an event only after those with smaller seqs.
LEMMA ShowsFacts ==
  ASSUME HubInv, NEW e \in Event, client' = Shows(e)
  PROVE  /\ client' \in Client /\ ShownInOrder'
         /\ Range(client'.shown) \subseteq Range(client.shown) \cup {e}
         /\ client'.disturbed = client.disturbed /\ client'.asking = client.asking
         /\ ~New(e) => client' = client
         /\ New(e) => /\ client'.lastSeq = e.seq
                      /\ client'.shown = IF client.streaming THEN Append(client.shown, e) ELSE client.shown
                      /\ client'.streaming = (client.streaming /\ e.n # Length)
  <1>1. HubTypeOK /\ e.seq \in Nat /\ client.shown \in Seq(Event) /\ client.lastSeq \in Nat
    BY HubFields DEF HubInv, Event
  <1>2. CASE ~New(e)
    BY <1>1, <1>2, SameShown DEF Shows, HubTypeOK
  <1>3. CASE New(e) /\ client.streaming
    <2> DEFINE s == Append(client.shown, e)
    <2>1. /\ s \in Seq(Event) /\ Len(s) = Len(client.shown) + 1
          /\ \A i \in 1..Len(client.shown) : s[i] = client.shown[i]
          /\ s[Len(client.shown) + 1] = e
          /\ Range(s) \subseteq Range(client.shown) \cup {e}
      BY <1>1, AppendFacts
    <2> HIDE DEF s
    <2>2. /\ client' \in Client /\ client'.lastSeq = e.seq /\ client'.shown = s
          /\ client'.streaming = (client.streaming /\ e.n # Length)
          /\ client'.disturbed = client.disturbed /\ client'.asking = client.asking
      BY <1>1, <1>3, <2>1 DEF Shows, HubTypeOK, Client, s
    <2>3. /\ \A i \in 1..Len(client.shown) : client.shown[i].seq <= client.lastSeq /\ client.shown[i].seq \in Nat
          /\ \A i, j \in 1..Len(client.shown) : i < j => client.shown[i].seq < client.shown[j].seq
      BY <1>1, EventsOf DEF HubInv, ShownInOrder
    <2>4. Len(client.shown) \in Nat /\ DOMAIN s = 1..(Len(client.shown) + 1) /\ client.lastSeq < e.seq
      BY <1>1, <1>3, <2>1 DEF New
    <2>5. \A i \in DOMAIN s : /\ s[i].seq <= e.seq
                              /\ \A j \in DOMAIN s : i < j => s[i].seq < s[j].seq
      <3>1. \A i \in 1..Len(client.shown) : s[i].seq < e.seq /\ s[i].seq \in Nat
        <4>1. ASSUME NEW i \in 1..Len(client.shown) PROVE s[i].seq < e.seq /\ s[i].seq \in Nat
          <5>1. s[i].seq \in Nat /\ s[i].seq <= client.lastSeq
            BY <2>1, <2>3
          <5> QED BY <1>1, <2>4, <5>1
        <4> QED BY <4>1
      <3>2. \A i, j \in 1..Len(client.shown) : i < j => s[i].seq < s[j].seq
        BY <2>1, <2>3
      <3>3. \A i \in DOMAIN s : i \in 1..Len(client.shown) \/ i = Len(client.shown) + 1
        BY <2>4
      <3>4. ASSUME NEW i \in DOMAIN s, NEW j \in DOMAIN s, i < j PROVE s[i].seq < s[j].seq
        <4>1. i \in 1..Len(client.shown)
          BY <2>4, <3>4
        <4> QED BY <2>1, <3>1, <3>2, <3>3, <3>4, <4>1
      <3>5. ASSUME NEW i \in DOMAIN s PROVE s[i].seq <= e.seq
        BY <1>1, <2>1, <3>1, <3>3
      <3> QED BY <3>4, <3>5
    <2>6. ShownInOrder'
      BY <2>2, <2>5 DEF ShownInOrder
    <2> QED BY <1>3, <2>1, <2>2, <2>6 DEF s
  <1>4. CASE New(e) /\ ~client.streaming
    <2>1. /\ client' \in Client /\ client'.lastSeq = e.seq /\ client'.shown = client.shown
          /\ client'.streaming = (client.streaming /\ e.n # Length)
          /\ client'.disturbed = client.disturbed /\ client'.asking = client.asking
      BY <1>1, <1>4 DEF Shows, HubTypeOK, Client
    <2>2. \A i \in DOMAIN client.shown : client.shown[i].seq \in Nat
      BY <1>1, EventsOf
    <2>3. ShownInOrder'
      BY <1>1, <1>4, <2>1, <2>2 DEF HubInv, ShownInOrder, New
    <2> QED BY <1>4, <2>1, <2>3
  <1> QED BY <1>2, <1>3, <1>4

\* What the screen reads keeps the events in order.
LEMMA ReadOrdered ==
  ASSUME HubInv, ReadBack \/ ReadLive
  PROVE  Ordered'
  <1>1. /\ HubTypeOK /\ turn' = turn /\ hub' = hub /\ drops' \in 0..MaxDrops
        /\ conn.back \in Seq(Event) /\ conn.queue \in Seq(Event)
    BY HubFields DEF HubInv, ReadBack, ReadLive, HubTypeOK
  <1>2. CASE ReadBack
    <2>1. conn.back # <<>> /\ conn' = [conn EXCEPT !.back = Tail(@)] /\ client' = Shows(Head(conn.back))
      BY <1>2 DEF ReadBack
    <2>2. /\ Tail(conn.back) \in Seq(Event) /\ Range(Tail(conn.back)) \subseteq Range(conn.back)
          /\ Head(conn.back) \in Event /\ Head(conn.back) \in Range(conn.back)
      BY <1>1, <2>1, TailFacts
    <2>3. /\ conn' \in Connection /\ conn'.back = Tail(conn.back) /\ conn'.queue = conn.queue
          /\ Len(conn'.queue) <= BufferCap
      BY <1>1, <2>1, <2>2 DEF HubTypeOK, Connection
    <2>4. client' \in Client /\ ShownInOrder' /\ Range(client'.shown) \subseteq Range(client.shown) \cup {Head(conn.back)}
      BY <2>1, <2>2, ShowsFacts
    <2>5. Range(conn'.back) \cup Range(conn'.queue) \cup Range(client'.shown) \subseteq Events
      BY <2>2, <2>3, <2>4 DEF Events
    <2> QED BY <1>1, <2>3, <2>4, <2>5, ReaderOrdered
  <1>3. CASE ReadLive
    <2>1. /\ conn.queue # <<>> /\ conn' = [conn EXCEPT !.queue = Tail(@)]
          /\ client' = client \/ client' = Shows(Head(conn.queue))
      BY <1>3 DEF ReadLive
    <2>2. /\ Tail(conn.queue) \in Seq(Event) /\ Range(Tail(conn.queue)) \subseteq Range(conn.queue)
          /\ Head(conn.queue) \in Event /\ Head(conn.queue) \in Range(conn.queue)
          /\ Len(Tail(conn.queue)) = Len(conn.queue) - 1 /\ Len(conn.queue) \in Nat
      BY <1>1, <2>1, TailFacts
    <2>3. /\ conn' \in Connection /\ conn'.back = conn.back /\ conn'.queue = Tail(conn.queue)
      BY <1>1, <2>1, <2>2 DEF HubTypeOK, Connection
    <2>4. Len(conn'.queue) <= BufferCap
      BY <1>1, <2>2, <2>3, OffFacts DEF HubTypeOK
    <2>5. client' \in Client /\ ShownInOrder' /\ Range(client'.shown) \subseteq Range(client.shown) \cup {Head(conn.queue)}
      <3>1. CASE client' = client
        BY <1>1, <3>1, SameShown DEF HubTypeOK
      <3>2. CASE client' = Shows(Head(conn.queue))
        BY <2>2, <3>2, ShowsFacts
      <3> QED BY <2>1, <3>1, <3>2
    <2>6. Range(conn'.back) \cup Range(conn'.queue) \cup Range(client'.shown) \subseteq Events
      BY <2>2, <2>3, <2>5 DEF Events
    <2> QED BY <1>1, <2>3, <2>4, <2>5, <2>6, ReaderOrdered
  <1> QED BY <1>2, <1>3


\* A turn that runs over one entry and whose entry is closed has sent nothing.
LEMMA Unstarted ==
  ASSUME HubInv, NEW t \in Turn, turn[t].pc = "run", ~turn[t].torn, ~hub.open
  PROVE  turn[t].sent = 0 /\ turn[t].seq = 0 /\ \A e \in Events : e.turn # t
  <1>1. turn[t].sent \in 0..Length /\ Length \in Nat
    BY HubFields, HubAssumption DEF HubInv
  <1>2. turn[t].sent = 0 /\ turn[t].seq = 0
    BY <1>1 DEF HubInv, OneCounter, Running
  <1>3. \A e \in Events : e.n <= turn[e.turn].sent /\ e.n \in 1..Length
    BY EventFields DEF HubInv, Turns
  <1> QED BY <1>1, <1>2, <1>3

\* What taking a seq changes.
LEMMA NextSeqFacts ==
  ASSUME HubInv, NEW t \in Turn, NextSeq(t)
  PROVE  /\ HubTypeOK' /\ hub'.open /\ hub'.ring = Present(0).ring
         /\ hub'.seq = (IF hub.open THEN hub.seq ELSE 0) + 1
         /\ turn'[t].pc = "run" /\ turn'[t].sent = turn[t].sent /\ turn'[t].seq = hub'.seq
         /\ turn'[t].torn = turn[t].torn /\ turn[t].sent < Length
         /\ \A u \in Turn : u # t => turn'[u] = turn[u]
  <1>1. HubTypeOK /\ turn[t].pc = "run" /\ turn[t].sent < Length
    BY DEF HubInv, NextSeq
  <1>2. PICK h : h = Present(0)
    OBVIOUS
  <1>3. /\ h \in Entry /\ Len(h.ring) <= RingCap /\ h.open /\ h.seq = IF hub.open THEN hub.seq ELSE 0
    BY <1>1, <1>2, PresentFacts
  <1>4. /\ hub' \in Entry /\ hub'.ring = h.ring /\ hub'.open /\ hub'.seq = h.seq + 1
    BY <1>2, <1>3 DEF NextSeq, Entry
  <1>5. PICK s : s = turn[t]
    OBVIOUS
  <1>6. s \in TurnState /\ turn \in [Turn -> TurnState]
    BY <1>1, <1>5 DEF HubTypeOK
  <1> DEFINE n == [s EXCEPT !.seq = hub'.seq]
  <1>7. n \in TurnState /\ n.pc = s.pc /\ n.sent = s.sent /\ n.seq = hub'.seq /\ n.torn = s.torn
    BY <1>4, <1>6 DEF TurnState, Entry
  <1>8. turn' = [turn EXCEPT ![t] = n]
    BY <1>5 DEF NextSeq
  <1> HIDE DEF n
  <1>9. n \in TurnState
    BY <1>7
  <1>10. turn' \in [Turn -> TurnState] /\ turn'[t] = n /\ \A u \in Turn : u # t => turn'[u] = turn[u]
    BY <1>6, <1>8, <1>9
  <1>11. HubTypeOK'
    BY <1>1, <1>3, <1>4, <1>10 DEF HubTypeOK, NextSeq
  <1> QED BY <1>1, <1>2, <1>3, <1>4, <1>5, <1>7, <1>10, <1>11

\* A turn that takes a seq takes one larger than those of its events.
LEMMA NextSeqOrdered ==
  ASSUME HubInv, NEW t \in Turn, NextSeq(t)
  PROVE  Ordered'
  <1>1. /\ HubTypeOK /\ HubTypeOK' /\ hub'.open /\ hub'.seq = (IF hub.open THEN hub.seq ELSE 0) + 1
        /\ turn[t].pc = "run" /\ turn'[t].pc = "run" /\ turn'[t].sent = turn[t].sent
        /\ turn'[t].seq = hub'.seq
        /\ turn'[t].torn = turn[t].torn /\ turn[t].sent < Length
        /\ \A u \in Turn : u # t => turn'[u] = turn[u]
        /\ conn' = conn /\ client' = client
    BY NextSeqFacts DEF HubInv, NextSeq
  <1>2. /\ \A u \in Turn : /\ turn'[u].pc = turn[u].pc /\ turn'[u].sent = turn[u].sent
                           /\ turn'[u].torn = turn[u].torn
        /\ hub.seq \in Nat /\ hub'.seq \in Nat \ {0}
        /\ \A u \in Turn : turn[u].seq \in Nat
    <2>1. hub.seq \in Nat /\ \A u \in Turn : turn[u].seq \in Nat
      BY <1>1, HubFields
    <2>2. \A u \in Turn : /\ turn'[u].pc = turn[u].pc /\ turn'[u].sent = turn[u].sent
                          /\ turn'[u].torn = turn[u].torn
      BY <1>1
    <2>3. hub'.seq \in Nat \ {0}
      BY <1>1, <2>1
    <2> QED BY <2>1, <2>2, <2>3
  <1>3. Events' \subseteq Events
    <2>1. Range(hub'.ring) \subseteq Range(hub.ring)
      BY <1>1, NextSeqFacts, PresentFacts
    <2> QED BY <1>1, <2>1 DEF Events
  <1>4. \A e \in Events' : e \in Events /\ e.turn \in Turn /\ e.n \in 1..Length /\ e.seq \in Nat
    BY <1>1, <1>3, EventFields
  <1>5. Turns'
    <2>1. ASSUME NEW u \in Turn
          PROVE  /\ turn'[u].pc = "idle" => turn'[u].sent = 0 /\ turn'[u].seq = 0
                 /\ turn'[u].seq # 0 => turn'[u].pc = "run" /\ turn'[u].sent < Length
      BY <1>1 DEF HubInv, Turns
    <2>2. \A e \in Events' : e.n <= turn'[e.turn].sent
      BY <1>2, <1>4 DEF HubInv, Turns
    <2> QED BY <2>1, <2>2 DEF Turns
  <1>6. ASSUME NEW u \in Turn, turn[u].pc = "run", ~turn[u].torn
        PROVE  /\ turn'[u].seq <= hub'.seq
               /\ \A e \in Events' : e.turn = u =>
                    e.seq < hub'.seq /\ (turn'[u].seq # 0 => e.seq < turn'[u].seq)
    <2>1. CASE ~hub.open
      BY <1>1, <1>2, <1>4, <1>6, <2>1, Unstarted
    <2>2. CASE hub.open
      <3>1. /\ turn[u].seq <= hub.seq
            /\ \A e \in Events : e.turn = u =>
                 e.seq <= hub.seq /\ (turn[u].seq # 0 => e.seq < turn[u].seq)
        BY <1>6 DEF HubInv, OneCounter, Running
      <3>2. hub'.seq = hub.seq + 1
        BY <1>1, <2>2
      <3>3. \A e \in Events' : e.turn = u => e.seq < hub'.seq
        BY <1>2, <1>4, <3>1, <3>2
      <3>4. CASE u = t
        BY <1>1, <1>2, <3>3, <3>4
      <3>5. CASE u # t
        <4>1. turn'[u].seq = turn[u].seq
          BY <1>1, <3>5
        <4> QED BY <1>2, <1>4, <3>1, <3>2, <3>3, <4>1
      <3> QED BY <3>4, <3>5
    <2> QED BY <2>1, <2>2
  <1>7. OneCounter'
    <2>1. \A e \in Events' : e.seq < hub'.seq => e.seq <= hub'.seq
      BY <1>2, <1>4
    <2>2. \A u \in Running' : u \in Turn /\ turn[u].pc = "run" /\ turn'[u].torn = turn[u].torn
      BY <1>2 DEF Running
    <2> QED BY <1>1, <1>6, <2>1, <2>2 DEF OneCounter
  <1>8. SeqsInOrder'
    BY <1>2, <1>4 DEF HubInv, SeqsInOrder
  <1> QED BY <1>1, <1>5, <1>7, <1>8, SameShown DEF Ordered

\* What publishing an event changes.
LEMMA PublishFacts ==
  ASSUME HubInv, NEW t \in Turn, Publish(t), NEW e,
         e = [turn |-> t, n |-> turn[t].sent + 1, seq |-> turn[t].seq]
  PROVE  /\ HubTypeOK' /\ e \in Event
         /\ turn[t].pc = "run" /\ turn[t].seq # 0 /\ turn[t].sent < Length
         /\ hub'.open /\ hub'.seq = IF hub.open THEN hub.seq ELSE e.seq
         /\ hub'.ring = RingPush(Present(e.seq).ring, e)
         /\ conn'.pc = conn.pc /\ conn'.live = conn.live /\ conn'.back = conn.back
         /\ conn'.floor = conn.floor
         /\ conn'.queue = IF conn.live THEN Append(IF Len(conn.queue) = BufferCap THEN Tail(conn.queue)
                                                   ELSE conn.queue, e)
                          ELSE conn.queue
         /\ turn'[t].pc = "run" /\ turn'[t].sent = turn[t].sent + 1 /\ turn'[t].seq = 0
         /\ turn'[t].torn = turn[t].torn
         /\ \A u \in Turn : u # t => turn'[u] = turn[u]
         /\ client'.shown = client.shown /\ client'.lastSeq = client.lastSeq
         /\ client'.streaming = client.streaming /\ client'.asking = client.asking
         /\ client'.disturbed = (client.disturbed \/ Lags)
  <1>1. /\ HubTypeOK /\ turn[t].pc = "run" /\ turn[t].seq # 0 /\ turn[t].seq \in Nat
        /\ turn[t].sent \in 0..Length
    BY HubFields DEF HubInv, Publish
  <1>2. turn[t].sent < Length
    BY <1>1 DEF HubInv, Turns
  <1>3. e \in Event /\ e.seq = turn[t].seq /\ e.seq \in Nat
    BY <1>1, <1>2, HubAssumption DEF Event
  <1>4. PICK h : h = Present(e.seq)
    OBVIOUS
  <1>5. /\ h \in Entry /\ Len(h.ring) <= RingCap /\ h.open /\ h.seq = IF hub.open THEN hub.seq ELSE e.seq
    BY <1>1, <1>3, <1>4, PresentFacts
  <1>6. PICK r : r = RingPush(h.ring, e)
    OBVIOUS
  <1>7. r \in Seq(Event) /\ Len(r) <= RingCap
    BY <1>3, <1>5, <1>6, PushFacts, OffFacts DEF RingPush, Entry
  <1>8. hub' = [h EXCEPT !.ring = r]
    BY <1>4, <1>6 DEF Publish
  <1>9. hub' \in Entry /\ hub'.open /\ hub'.seq = h.seq /\ hub'.ring = r
    BY <1>5, <1>7, <1>8 DEF Entry
  <1>10. PICK q : q = Append(IF Len(conn.queue) = BufferCap THEN Tail(conn.queue) ELSE conn.queue, e)
    OBVIOUS
  <1>11. q \in Seq(Event) /\ Len(q) <= BufferCap
    BY <1>1, <1>3, <1>10, PushFacts, OffFacts, HubFields DEF HubTypeOK
  <1>12. conn' = IF ~conn.live THEN conn ELSE [conn EXCEPT !.queue = q]
    BY <1>10 DEF Publish, Received
  <1>13. /\ conn' \in Connection /\ conn'.pc = conn.pc /\ conn'.live = conn.live /\ conn'.back = conn.back
         /\ conn'.floor = conn.floor /\ conn'.queue = IF conn.live THEN q ELSE conn.queue
         /\ Len(conn'.queue) <= BufferCap
    <2>1. CASE conn.live
      BY <1>1, <1>11, <1>12, <2>1 DEF HubTypeOK, Connection
    <2>2. CASE ~conn.live
      BY <1>1, <1>12, <2>2 DEF HubTypeOK
    <2> QED BY <2>1, <2>2
  <1>14. PICK s : s = turn[t]
    OBVIOUS
  <1>15. s \in TurnState /\ turn \in [Turn -> TurnState]
    BY <1>1, <1>14 DEF HubTypeOK
  <1> DEFINE n == [s EXCEPT !.sent = @ + 1, !.seq = 0]
  <1>16. n \in TurnState /\ n.pc = s.pc /\ n.sent = s.sent + 1 /\ n.seq = 0 /\ n.torn = s.torn
    <2>1. s.sent + 1 \in 0..Length
      BY <1>1, <1>2, <1>14, HubAssumption
    <2> QED BY <1>15, <2>1 DEF TurnState
  <1>17. turn' = [turn EXCEPT ![t] = n]
    BY <1>14 DEF Publish
  <1> HIDE DEF n
  <1>18. n \in TurnState
    BY <1>16
  <1>19. turn' \in [Turn -> TurnState] /\ turn'[t] = n /\ \A u \in Turn : u # t => turn'[u] = turn[u]
    BY <1>15, <1>17, <1>18
  <1>20. Lags \in BOOLEAN
    BY <1>1, HubFields DEF Lags
  <1>21. client' = [client EXCEPT !.disturbed = @ \/ Lags] /\ drops' = drops
    BY DEF Publish
  <1>22. /\ client' \in Client /\ client'.shown = client.shown /\ client'.lastSeq = client.lastSeq
         /\ client'.streaming = client.streaming /\ client'.asking = client.asking
         /\ client'.disturbed = (client.disturbed \/ Lags)
    BY <1>1, <1>20, <1>21 DEF HubTypeOK, Client
  <1>23. HubTypeOK'
    BY <1>1, <1>7, <1>9, <1>13, <1>19, <1>21, <1>22 DEF HubTypeOK
  <1>24. hub'.ring = RingPush(Present(e.seq).ring, e)
    BY <1>4, <1>6, <1>9
  <1> QED BY <1>1, <1>2, <1>3, <1>5, <1>9, <1>10, <1>13, <1>14, <1>16, <1>19, <1>22, <1>23, <1>24

\* An event that is published has a larger seq than its turn's earlier ones.
LEMMA PublishOrdered ==
  ASSUME HubInv, NEW t \in Turn, Publish(t)
  PROVE  Ordered'
  <1>1. PICK e : e = [turn |-> t, n |-> turn[t].sent + 1, seq |-> turn[t].seq]
    OBVIOUS
  <1>2. /\ HubTypeOK' /\ e \in Event
        /\ turn[t].pc = "run" /\ turn[t].seq # 0 /\ turn[t].sent < Length
        /\ hub'.open /\ hub'.seq = IF hub.open THEN hub.seq ELSE e.seq
        /\ hub'.ring = RingPush(Present(e.seq).ring, e)
        /\ conn'.back = conn.back
        /\ conn'.queue = IF conn.live THEN Append(IF Len(conn.queue) = BufferCap THEN Tail(conn.queue)
                                                  ELSE conn.queue, e)
                         ELSE conn.queue
        /\ turn'[t].pc = "run" /\ turn'[t].sent = turn[t].sent + 1 /\ turn'[t].seq = 0
        /\ turn'[t].torn = turn[t].torn
        /\ \A u \in Turn : u # t => turn'[u] = turn[u]
        /\ client'.shown = client.shown /\ client'.lastSeq = client.lastSeq
    BY <1>1, PublishFacts
  <1>3. /\ HubTypeOK /\ hub.seq \in Nat /\ hub'.seq \in Nat /\ Length \in Nat
        /\ \A u \in Turn : /\ turn[u].seq \in Nat /\ turn[u].sent \in 0..Length
                           /\ turn'[u].pc = turn[u].pc /\ turn'[u].torn = turn[u].torn
        /\ e.turn = t /\ e.n = turn[t].sent + 1 /\ e.seq = turn[t].seq
    BY <1>1, <1>2, HubFields, HubAssumption DEF HubInv, HubTypeOK, Entry
  <1>4. Events' \subseteq Events \cup {e}
    <2>1. Range(hub'.ring) \subseteq Range(hub.ring) \cup {e}
      <3>1. PICK h : h = Present(e.seq).ring
        OBVIOUS
      <3>2. h \in Seq(Event) /\ Len(h) <= RingCap /\ Range(h) \subseteq Range(hub.ring)
        BY <1>3, <3>1, PresentFacts DEF Entry
      <3>3. Range(RingPush(h, e)) \subseteq Range(h) \cup {e}
        BY <1>2, <3>2, PushFacts, OffFacts DEF RingPush
      <3> QED BY <1>2, <3>1, <3>2, <3>3
    <2>2. Range(conn'.queue) \subseteq Range(conn.queue) \cup {e}
      <3>1. conn.queue \in Seq(Event) /\ Len(conn.queue) <= BufferCap
        BY <1>3, HubFields DEF HubTypeOK
      <3>2. Range(Append(IF Len(conn.queue) = BufferCap THEN Tail(conn.queue) ELSE conn.queue, e))
              \subseteq Range(conn.queue) \cup {e}
        BY <1>2, <3>1, PushFacts, OffFacts
      <3> QED BY <1>2, <3>2
    <2> QED BY <1>2, <2>1, <2>2 DEF Events
  <1>5. \A f \in Events : /\ f.turn \in Turn /\ f.n \in 1..Length /\ f.seq \in Nat
                          /\ f.n <= turn[f.turn].sent
    BY <1>3, EventFields DEF HubInv, Turns
  <1>6. ~turn[t].torn => /\ hub.open /\ turn[t].seq <= hub.seq
                         /\ \A f \in Events : f.turn = t => f.seq < e.seq
    BY <1>2, <1>3 DEF HubInv, OneCounter, Running
  <1>7. Turns'
    <2>1. ASSUME NEW u \in Turn
          PROVE  /\ turn'[u].pc = "idle" => turn'[u].sent = 0 /\ turn'[u].seq = 0
                 /\ turn'[u].seq # 0 => turn'[u].pc = "run" /\ turn'[u].sent < Length
      BY <1>2 DEF HubInv, Turns
    <2>2. \A u \in Turn : turn[u].sent <= turn'[u].sent /\ turn'[u].sent \in Nat
      BY <1>2, <1>3
    <2>3. ASSUME NEW f \in Events' PROVE f.n <= turn'[f.turn].sent
      <3>1. CASE f = e
        BY <1>2, <1>3, <3>1
      <3>2. CASE f # e
        <4>1. f \in Events
          BY <1>4, <2>3, <3>2
        <4> QED BY <1>3, <1>5, <2>2, <4>1
      <3> QED BY <3>1, <3>2
    <2> QED BY <2>1, <2>3 DEF Turns
  <1>8. ASSUME NEW u \in Turn, turn[u].pc = "run", ~turn[u].torn
        PROVE  /\ turn'[u].seq <= hub'.seq
               /\ \A f \in Events' : f.turn = u =>
                    f.seq <= hub'.seq /\ (turn'[u].seq # 0 => f.seq < turn'[u].seq)
    <2>1. CASE u = t
      <3>1. hub.open /\ hub'.seq = hub.seq /\ e.seq <= hub.seq
        BY <1>2, <1>3, <1>6, <1>8, <2>1
      <3>2. \A f \in Events : f.turn = u => f.seq <= hub.seq
        BY <1>8 DEF HubInv, OneCounter, Running
      <3> QED BY <1>2, <1>3, <1>4, <2>1, <3>1, <3>2
    <2>2. CASE u # t /\ ~hub.open
      <3>1. turn'[u].seq = 0 /\ \A f \in Events : f.turn # u
        BY <1>2, <1>8, <2>2, Unstarted
      <3> QED BY <1>3, <1>4, <2>2, <3>1
    <2>3. CASE u # t /\ hub.open
      <3>1. /\ turn'[u].seq = turn[u].seq /\ hub'.seq = hub.seq
            /\ \A f \in Events' : f.turn = u => f \in Events
        BY <1>2, <1>3, <1>4, <2>3
      <3>2. /\ turn[u].seq <= hub.seq
            /\ \A f \in Events : f.turn = u =>
                 f.seq <= hub.seq /\ (turn[u].seq # 0 => f.seq < turn[u].seq)
        BY <1>8 DEF HubInv, OneCounter, Running
      <3> QED BY <3>1, <3>2
    <2> QED BY <2>1, <2>2, <2>3
  <1>9. OneCounter'
    <2>1. \A u \in Running' : u \in Turn /\ turn[u].pc = "run" /\ turn'[u].torn = turn[u].torn
      BY <1>3 DEF Running
    <2> QED BY <1>2, <1>8, <2>1 DEF OneCounter
  <1>10. SeqsInOrder'
    <2>1. ASSUME NEW f \in Events', NEW g \in Events', f.turn = g.turn, ~turn'[f.turn].torn
          PROVE  (f.n < g.n => f.seq < g.seq) /\ (f.n = g.n => f.seq = g.seq)
      <3>1. CASE f = e /\ g = e
        BY <1>3, <3>1
      <3>2. CASE f = e /\ g # e
        <4>1. g \in Events /\ ~turn[t].torn /\ g.turn = t
          BY <1>3, <1>4, <2>1, <3>2
        <4>2. g.n < f.n /\ g.n \in Nat /\ f.n \in Nat
          BY <1>3, <1>5, <3>2, <4>1
        <4> QED BY <4>2
      <3>3. CASE f # e /\ g = e
        <4>1. f \in Events /\ ~turn[t].torn /\ f.turn = t
          BY <1>3, <1>4, <2>1, <3>3
        <4>2. f.n < g.n /\ f.n \in Nat /\ g.n \in Nat
          BY <1>3, <1>5, <3>3, <4>1
        <4> QED BY <1>6, <3>3, <4>1, <4>2
      <3>4. CASE f # e /\ g # e
        <4>1. f \in Events /\ g \in Events
          BY <1>4, <2>1, <3>4
        <4>2. ~turn[f.turn].torn
          BY <1>3, <1>5, <2>1, <4>1
        <4> QED BY <2>1, <4>1, <4>2 DEF HubInv, SeqsInOrder
      <3> QED BY <3>1, <3>2, <3>3, <3>4
    <2> QED BY <2>1 DEF SeqsInOrder
  <1> QED BY <1>2, <1>7, <1>9, <1>10, SameShown DEF Ordered


----------------------------------------------------------------------------
(* The stream of an undisturbed thread.                                    *)

\* The turns and the entry of an undisturbed thread.
Tidy ==
    /\ \A t, u \in Running : t = u
    /\ Running = {} => hub.seq = 0 /\ hub.ring = <<>>
    /\ \A t \in Running : Alone(t)

\* What the screen shows has no gap.
Gapless ==
    \A i \in DOMAIN client.shown :
      client.shown[i].n = i /\ client.shown[i].turn = client.shown[1].turn

Awaiting == client.streaming /\ conn = Off /\ client.lastSeq = 0 /\ client.shown = <<>>

\* Undisturbed, in parts.
LEMMA UndisturbedParts ==
  Undisturbed <=> /\ Tidy /\ Gapless /\ (client.asking => Awaiting)
                  /\ client.streaming /\ ~client.asking => \E t \in Turn : Follows(t)
  BY DEF Undisturbed, Tidy, Gapless, Awaiting

\* The same after a step.
LEMMA UndisturbedParts2 ==
  ASSUME Tidy', Gapless', client'.asking => Awaiting',
         client'.streaming /\ ~client'.asking => \E t \in Turn : Follows(t)'
  PROVE  Undisturbed'
  BY DEF Undisturbed, Tidy, Gapless, Awaiting

\* Taking a seq leaves an undisturbed thread so.
LEMMA NextSeqUndisturbed ==
  ASSUME HubInv, Undisturbed, NEW t \in Turn, NextSeq(t)
  PROVE  Undisturbed'
  <1>1. /\ HubTypeOK /\ HubTypeOK' /\ hub'.open /\ hub'.ring = Present(0).ring
        /\ hub'.seq = (IF hub.open THEN hub.seq ELSE 0) + 1
        /\ turn'[t].pc = "run" /\ turn'[t].sent = turn[t].sent /\ turn'[t].seq = hub'.seq
        /\ \A u \in Turn : u # t => turn'[u] = turn[u]
        /\ conn' = conn /\ client' = client /\ turn[t].pc = "run" /\ turn[t].seq = 0
    BY NextSeqFacts DEF HubInv, NextSeq
  <1>2. \A u \in Turn : turn'[u].pc = turn[u].pc /\ turn'[u].sent = turn[u].sent
    BY <1>1
  <1>3. Running' = Running /\ t \in Running
    BY <1>1, <1>2 DEF Running
  <1>4. Alone(t)'
    <2>1. Alone(t) /\ turn[t].sent \in Nat /\ hub.seq \in Nat
      BY <1>1, <1>3, HubFields, HubAssumption DEF Undisturbed
    <2>2. hub'.seq = turn[t].sent + 1
      BY <1>1, <2>1 DEF Alone
    <2>3. Stretch(hub'.ring, t, turn[t].sent) /\ (turn[t].sent # 0 => hub'.ring # <<>>)
      <3>1. CASE hub.open
        BY <1>1, <2>1, <3>1, PresentFacts DEF Alone
      <3>2. CASE ~hub.open
        <4>1. hub'.ring = <<>> /\ turn[t].sent = 0
          BY <1>1, <2>1, <3>2, PresentFacts DEF Alone
        <4> QED BY <4>1 DEF Stretch
      <3> QED BY <3>1, <3>2
    <2> QED BY <1>1, <2>1, <2>2, <2>3 DEF Alone
  <1>5. Tidy'
    <2>1. \A u \in Running : u = t
      BY <1>3 DEF Undisturbed
    <2> QED BY <1>3, <1>4, <2>1 DEF Tidy
  <1>6. Gapless' /\ (client'.asking => Awaiting')
    BY <1>1 DEF Undisturbed, Gapless, Awaiting
  <1>7. ASSUME NEW f \in Turn, Follows(f) PROVE Follows(f)'
    BY <1>1, <1>2, <1>7 DEF Follows
  <1>8. client'.streaming /\ ~client'.asking => \E u \in Turn : Follows(u)'
    BY <1>1, <1>7 DEF Undisturbed
  <1> QED BY <1>5, <1>6, <1>8, UndisturbedParts2

\* An event that is published is the next one in ring and queue.
LEMMA PublishUndisturbed ==
  ASSUME HubInv, Undisturbed, NEW t \in Turn, Publish(t), ~client'.disturbed
  PROVE  Undisturbed'
  <1>1. PICK e : e = [turn |-> t, n |-> turn[t].sent + 1, seq |-> turn[t].seq]
    OBVIOUS
  <1>2. /\ HubTypeOK' /\ e \in Event
        /\ turn[t].pc = "run" /\ turn[t].seq # 0 /\ turn[t].sent < Length
        /\ hub'.open /\ hub'.seq = IF hub.open THEN hub.seq ELSE e.seq
        /\ hub'.ring = RingPush(Present(e.seq).ring, e)
        /\ conn'.pc = conn.pc /\ conn'.live = conn.live /\ conn'.back = conn.back
        /\ conn'.floor = conn.floor
        /\ conn'.queue = IF conn.live THEN Append(IF Len(conn.queue) = BufferCap THEN Tail(conn.queue)
                                                  ELSE conn.queue, e)
                         ELSE conn.queue
        /\ turn'[t].pc = "run" /\ turn'[t].sent = turn[t].sent + 1 /\ turn'[t].seq = 0
        /\ \A u \in Turn : u # t => turn'[u] = turn[u]
        /\ client'.shown = client.shown /\ client'.lastSeq = client.lastSeq
        /\ client'.streaming = client.streaming /\ client'.asking = client.asking
        /\ client'.disturbed = (client.disturbed \/ Lags)
    BY <1>1, PublishFacts
  <1>3. /\ HubTypeOK /\ turn[t].sent \in Nat /\ turn[t].seq \in Nat /\ hub.seq \in Nat
        /\ hub.ring \in Seq(Event) /\ Len(hub.ring) <= RingCap
        /\ conn.queue \in Seq(Event) /\ Len(conn.queue) <= BufferCap /\ Len(conn.queue) \in Nat
        /\ e.seq = turn[t].seq /\ ~Lags /\ client.lastSeq \in Nat /\ conn.floor \in Nat
    <2>1. HubTypeOK /\ ~Lags /\ e.seq = turn[t].seq
      BY <1>1, <1>2 DEF HubInv
    <2>2. /\ turn[t].sent \in Nat /\ turn[t].seq \in Nat /\ hub.seq \in Nat
          /\ hub.ring \in Seq(Event) /\ conn.queue \in Seq(Event)
          /\ client.lastSeq \in Nat /\ conn.floor \in Nat
      BY <2>1, HubFields, HubAssumption
    <2>3. Len(conn.queue) \in Nat
      BY <2>2
    <2> QED BY <2>1, <2>2, <2>3 DEF HubTypeOK
  <1>4. Running' = Running /\ t \in Running /\ \A u \in Running : u = t
    BY <1>2 DEF Running, Undisturbed
  <1>5. PICK m \in Nat : m = turn[t].sent + 1
    BY <1>3
  <1>6. Alone(t) /\ hub.open /\ turn[t].seq = m /\ hub.seq = m
    BY <1>2, <1>3, <1>4, <1>5 DEF Undisturbed, Alone
  <1>7. e.turn = t /\ e.n = m /\ e.seq = m
    BY <1>1, <1>5, <1>6
  <1>8. Alone(t)'
    <2>1. hub'.ring = RingPush(hub.ring, e) /\ hub'.seq = m
      BY <1>2, <1>3, <1>6, PresentFacts
    <2>2. Stretch(hub.ring, t, turn[t].sent)
      BY <1>6 DEF Alone
    <2>3. Stretch(RingPush(hub.ring, e), t, m) /\ RingPush(hub.ring, e) # <<>>
      <3>1. RingPush(hub.ring, e) = Pushed(hub.ring, RingCap, e)
        BY DEF RingPush, Pushed
      <3>2. /\ RingCap \in Nat \ {0} /\ hub.ring \in Seq(Event) /\ Len(hub.ring) <= RingCap /\ e \in Event
            /\ turn[t].sent \in Nat
        BY <1>2, <1>3, OffFacts
      <3>3. e.n = turn[t].sent + 1 /\ e.seq = turn[t].sent + 1 /\ e.turn = t
        BY <1>5, <1>7
      <3>4. /\ Stretch(Pushed(hub.ring, RingCap, e), t, turn[t].sent + 1)
            /\ Pushed(hub.ring, RingCap, e) # <<>>
        BY <2>2, <3>2, <3>3, PushStretch
      <3> QED BY <1>5, <3>1, <3>4
    <2>4. Stretch(hub'.ring, t, m) /\ hub'.ring # <<>>
      BY <2>1, <2>3
    <2> QED BY <1>2, <1>5, <2>1, <2>4 DEF Alone
  <1>9. Tidy'
    BY <1>4, <1>8 DEF Tidy
  <1>10. Gapless' /\ (client'.asking => Awaiting')
    <2>1. ~conn.live => conn' = conn
      BY DEF Publish, Received
    <2> QED BY <1>2, <2>1, OffFacts DEF Undisturbed, Gapless, Awaiting
  <1>11. ASSUME NEW f \in Turn, Follows(f) PROVE Follows(f)'
    <2>1. CASE f # t
      <3>1. turn[f].pc = "ended" /\ ~conn.live
        <4>1. f \notin Running
          BY <1>4, <2>1
        <4> QED BY <1>11, <4>1 DEF Follows, Running
      <3>2. turn'[f] = turn[f] /\ conn'.queue = conn.queue
        BY <1>2, <2>1, <3>1
      <3>3. /\ conn'.pc = conn.pc /\ conn'.live = conn.live /\ conn'.back = conn.back
            /\ conn'.floor = conn.floor
            /\ client'.lastSeq = client.lastSeq /\ client'.shown = client.shown
        BY <1>2
      <3> QED BY <1>11, <3>2, <3>3 DEF Follows
    <2>2. CASE f = t /\ conn.pc # "off"
      <3>1. conn.live /\ Stretch(conn.queue, t, turn[t].sent)
        BY <1>2, <1>11, <2>2 DEF Follows
      <3>2. Len(conn.queue) # BufferCap
        BY <1>3, <3>1 DEF Lags
      <3>3. Stretch(conn'.queue, t, m) /\ Len(conn'.queue) = Len(conn.queue) + 1
        <4>1. PICK q : q = Pushed(conn.queue, BufferCap, e)
          OBVIOUS
        <4>2. Stretch(q, t, m) /\ Len(q) = Len(conn.queue) + 1
          <5>1. /\ BufferCap \in Nat \ {0} /\ conn.queue \in Seq(Event) /\ Len(conn.queue) <= BufferCap
                /\ e \in Event /\ turn[t].sent \in Nat
            BY <1>2, <1>3, OffFacts
          <5>2. /\ Stretch(Pushed(conn.queue, BufferCap, e), t, turn[t].sent + 1)
                /\ Len(Pushed(conn.queue, BufferCap, e)) = Len(conn.queue) + 1
            <6>1. Stretch(conn.queue, t, turn[t].sent) /\ e.n = turn[t].sent + 1 /\ e.seq = turn[t].sent + 1
                  /\ e.turn = t
              BY <1>5, <1>7, <3>1
            <6>2. /\ Stretch(Pushed(conn.queue, BufferCap, e), t, turn[t].sent + 1)
                  /\ Len(conn.queue) # BufferCap
                       => Len(Pushed(conn.queue, BufferCap, e)) = Len(conn.queue) + 1
              BY <5>1, <6>1, PushStretch
            <6> QED BY <3>2, <6>2
          <5> QED BY <1>5, <4>1, <5>2
        <4>3. conn'.queue = q
          BY <1>2, <3>1, <4>1 DEF Pushed
        <4> QED BY <4>2, <4>3
      <3>4. turn'[t].sent = m /\ m - Len(conn'.queue) = turn[t].sent - Len(conn.queue) /\ turn[t].sent <= m
        <4>1. turn'[t].sent = m /\ turn[t].sent <= m
          BY <1>2, <1>3, <1>5
        <4>2. m - Len(conn'.queue) = turn[t].sent - Len(conn.queue)
          <5>1. Len(conn'.queue) = Len(conn.queue) + 1 /\ Len(conn.queue) \in Nat /\ turn[t].sent \in Nat
            BY <1>3, <3>3
          <5> QED BY <1>5, <5>1
        <4> QED BY <4>1, <4>2
      <3>5. /\ client'.lastSeq = Len(client'.shown) /\ client'.lastSeq <= m /\ client'.lastSeq < Length
            /\ \A i \in DOMAIN client'.shown : client'.shown[i].turn = t
            /\ conn'.pc = "replay" => client'.lastSeq > 0
        BY <1>2, <1>3, <1>11, <2>2, <3>4 DEF Follows
      <3>6. conn'.pc = "open" =>
              /\ Stretch(conn'.back, t, conn'.floor) /\ conn'.floor <= m
              /\ conn'.floor - Len(conn'.back) <= client'.lastSeq
              /\ \/ m - Len(conn'.queue) <= client'.lastSeq
                 \/ m - Len(conn'.queue) <= conn'.floor
        <4>1. conn.pc = "open" =>
                /\ Stretch(conn.back, t, conn.floor) /\ conn.floor <= turn[t].sent
                /\ conn.floor - Len(conn.back) <= client.lastSeq
                /\ \/ turn[t].sent - Len(conn.queue) <= client.lastSeq
                   \/ turn[t].sent - Len(conn.queue) <= conn.floor
          BY <1>11, <2>2 DEF Follows
        <4>2. conn.floor <= turn[t].sent => conn.floor <= m
          BY <1>3, <1>5
        <4> QED BY <1>2, <3>4, <4>1, <4>2
      <3> QED BY <1>2, <2>2, <3>1, <3>3, <3>4, <3>5, <3>6 DEF Follows
    <2>3. CASE f = t /\ conn.pc = "off"
      <3>1. client.lastSeq <= turn'[t].sent
        BY <1>2, <1>3, <1>11, <2>3 DEF Follows
      <3> QED BY <1>2, <1>11, <2>3, <3>1 DEF Follows
    <2> QED BY <2>1, <2>2, <2>3
  <1>12. client'.streaming /\ ~client'.asking => \E u \in Turn : Follows(u)'
    BY <1>2, <1>11 DEF Undisturbed
  <1> QED BY <1>9, <1>10, <1>12, UndisturbedParts2


\* The end of the only turn, while the client listens.
LEMMA CloseUndisturbed ==
  ASSUME HubInv, Undisturbed, NEW t \in Turn, Close(t), ~client'.disturbed
  PROVE  Undisturbed'
  <1>1. /\ HubTypeOK /\ turn[t].pc = "run" /\ turn[t].sent = Length /\ turn[t] \in TurnState /\ Remove
        /\ client' = [client EXCEPT !.disturbed = @ \/ ~(conn.pc = "open" /\ conn.live)]
    BY DEF HubInv, HubTypeOK, Close
  <1>2. /\ conn.pc = "open" /\ conn.live
        /\ client'.shown = client.shown /\ client'.lastSeq = client.lastSeq
        /\ client'.streaming = client.streaming /\ client'.asking = client.asking
    BY <1>1 DEF HubTypeOK, Client
  <1>3. /\ hub'.ring = <<>> /\ hub'.seq = 0
        /\ conn'.back = conn.back /\ conn'.queue = conn.queue
        /\ conn'.pc = conn.pc /\ conn'.floor = conn.floor /\ ~conn'.live
    BY <1>1, RemoveFacts
  <1>4. \A u \in Running : u = t
    BY <1>1 DEF Undisturbed, Running
  <1>5. turn'[t].pc = "ended" /\ turn'[t].sent = Length
    <2>1. turn'[t] = [turn[t] EXCEPT !.pc = "ended"]
      BY DEF Close
    <2> QED BY <1>1, <2>1 DEF TurnState
  <1>6. Running' = {}
    <2>1. ASSUME NEW u \in Turn, u # t PROVE turn'[u].pc # "run"
      <3>1. turn'[u] = Torn(u) /\ turn[u].pc # "run"
        BY <1>4, <2>1 DEF Close, Running
      <3> QED BY <1>1, <3>1, TornFacts
    <2> QED BY <1>5, <2>1 DEF Running
  <1>7. Tidy'
    BY <1>3, <1>6 DEF Tidy
  <1>8. Gapless' /\ ~client'.asking
    BY <1>2, OffFacts DEF Undisturbed, Gapless
  <1>9. ASSUME NEW f \in Turn, Follows(f) PROVE Follows(f)'
    <2>1. f = t
      BY <1>2, <1>4, <1>9 DEF Follows, Running
    <2> QED BY <1>1, <1>2, <1>3, <1>5, <1>9, <2>1 DEF Follows
  <1>10. client'.streaming /\ ~client'.asking => \E u \in Turn : Follows(u)'
    BY <1>2, <1>9 DEF Undisturbed
  <1> QED BY <1>7, <1>8, <1>10, UndisturbedParts2

\* An entry is reaped only between turns.
LEMMA ReapUndisturbed ==
  ASSUME HubInv, Undisturbed, Reap, ~client'.disturbed
  PROVE  Undisturbed'
  <1>1. /\ HubTypeOK /\ Remove /\ turn' = [u \in Turn |-> Torn(u)] /\ ~conn.live
        /\ client' = [client EXCEPT !.disturbed = @ \/ Running # {}]
    BY DEF HubInv, Reap
  <1>2. /\ Running = {}
        /\ client'.shown = client.shown /\ client'.lastSeq = client.lastSeq
        /\ client'.streaming = client.streaming /\ client'.asking = client.asking
    BY <1>1 DEF HubTypeOK, Client
  <1>3. /\ hub'.ring = <<>> /\ hub'.seq = 0
        /\ conn'.back = conn.back /\ conn'.queue = conn.queue
        /\ conn'.pc = conn.pc /\ conn'.floor = conn.floor /\ ~conn'.live
    BY <1>1, RemoveFacts
  <1>4. \A u \in Turn : turn'[u].pc = turn[u].pc /\ turn'[u].sent = turn[u].sent
    BY <1>1, TornFacts
  <1>5. Running' = {}
    BY <1>2, <1>4 DEF Running
  <1>6. Tidy'
    BY <1>3, <1>5 DEF Tidy
  <1>7. conn = Off => conn' = Off
    <2>1. PICK o : o = Off
      OBVIOUS
    <2>2. o \in Connection /\ o.live = FALSE
      BY <2>1, OffFacts DEF Off
    <2>3. [o EXCEPT !.live = FALSE] = o
      BY <2>2 DEF Connection
    <2> QED BY <1>1, <2>1, <2>3 DEF Remove
  <1>8. Gapless' /\ (client'.asking => Awaiting')
    BY <1>2, <1>7 DEF Undisturbed, Gapless, Awaiting
  <1>9. ASSUME NEW f \in Turn, Follows(f) PROVE Follows(f)'
    BY <1>1, <1>2, <1>3, <1>4, <1>9 DEF Follows
  <1>10. client'.streaming /\ ~client'.asking => \E u \in Turn : Follows(u)'
    BY <1>2, <1>9 DEF Undisturbed
  <1> QED BY <1>6, <1>8, <1>10, UndisturbedParts2

\* The first connection of a question, when no turn of the thread runs.
LEMMA ConnectUndisturbed ==
  ASSUME HubInv, Undisturbed, NEW t \in Turn, ConnectFresh(t), ~client'.disturbed
  PROVE  Undisturbed'
  <1>1. /\ HubTypeOK /\ turn[t].pc = "idle" /\ Spawn(t) /\ hub' = Present(0)
        /\ conn' = [Off EXCEPT !.pc = "open", !.live = TRUE] /\ conn.pc = "off" /\ client.lastSeq = 0
        /\ client' = WithTurn /\ (client.asking \/ client.streaming)
        /\ turn[t].sent = 0 /\ turn[t].seq = 0
    BY DEF HubInv, ConnectFresh, Turns
  <1>2. /\ Running = {} /\ ~client'.asking
        /\ client'.shown = client.shown /\ client'.lastSeq = client.lastSeq
        /\ client'.streaming = client.streaming
    BY <1>1 DEF WithTurn, HubTypeOK, Client
  <1>3. client.asking
    <2> SUFFICES ASSUME ~client.asking PROVE FALSE
      OBVIOUS
    <2>1. PICK f \in Turn : Follows(f)
      BY <1>1 DEF Undisturbed
    <2> QED BY <1>1, <1>2, <2>1 DEF Follows, Running
  <1>4. client'.shown = <<>> /\ client'.streaming
    BY <1>2, <1>3 DEF Undisturbed
  <1>5. /\ conn'.pc = "open" /\ conn'.live /\ conn'.back = <<>> /\ conn'.queue = <<>> /\ conn'.floor = 0
    BY <1>1 DEF Off
  <1>6. hub'.open /\ hub'.seq = 0 /\ hub'.ring = <<>>
    <2>1. hub.seq = 0 /\ hub.ring = <<>>
      BY <1>2 DEF Undisturbed
    <2> QED BY <1>1, <2>1, PresentFacts
  <1>7. /\ turn'[t].pc = "run" /\ turn'[t].sent = 0 /\ turn'[t].seq = 0
        /\ \A u \in Turn : u # t => turn'[u] = turn[u]
    BY <1>1, SpawnFacts
  <1>8. Running' = {t}
    <2>1. \A u \in Turn : u # t => turn'[u].pc # "run"
      BY <1>2, <1>7 DEF Running
    <2> QED BY <1>7, <2>1 DEF Running
  <1>9. Stretch(<<>>, t, 0)
    BY DEF Stretch
  <1>10. Tidy'
    BY <1>6, <1>7, <1>8, <1>9 DEF Tidy, Alone
  <1>11. Gapless'
    BY <1>4 DEF Gapless
  <1>12. Follows(t)'
    BY <1>1, <1>2, <1>4, <1>5, <1>7, <1>9, OffFacts DEF Follows
  <1> QED BY <1>2, <1>10, <1>11, <1>12, UndisturbedParts2

\* The turns and the entry when no turn moves.
LEMMA SameTidy ==
  ASSUME HubInv, Undisturbed, turn' = turn, hub' = hub \/ hub' = Present(0)
  PROVE  Tidy'
  <1>1. HubTypeOK /\ Running' = Running
    BY DEF HubInv, Running
  <1>2. CASE hub' = hub
    BY <1>1, <1>2 DEF Undisturbed, Tidy, Alone
  <1>3. CASE hub' = Present(0) /\ hub.open
    BY <1>1, <1>3, PresentFacts DEF Undisturbed, Tidy, Alone
  <1>4. CASE hub' = Present(0) /\ ~hub.open
    <2>1. hub'.open /\ hub'.seq = 0 /\ hub'.ring = <<>>
      BY <1>1, <1>4, PresentFacts
    <2>2. ASSUME NEW t \in Running PROVE Alone(t)'
      <3>1. turn[t].sent = 0 /\ turn[t].seq = 0
        BY <1>4, <2>2 DEF Undisturbed, Alone
      <3>2. Stretch(<<>>, t, 0)
        BY DEF Stretch
      <3> QED BY <2>1, <3>1, <3>2 DEF Alone
    <2> QED BY <1>1, <2>1, <2>2 DEF Undisturbed, Tidy
  <1> QED BY <1>2, <1>3, <1>4

\* A client that comes back to its turn finds the entry.
LEMMA ResumeUndisturbed ==
  ASSUME HubInv, Undisturbed, Resume
  PROVE  Undisturbed'
  <1>1. /\ HubTypeOK /\ turn' = turn /\ (hub' = hub \/ hub' = Present(0)) /\ client' = client
        /\ conn.pc = "off" /\ client.lastSeq > 0 /\ client.lastSeq \in Nat
        /\ hub.open => conn' = [Off EXCEPT !.pc = "replay", !.live = TRUE]
    BY HubFields DEF HubInv, Resume
  <1>2. Tidy'
    BY <1>1, SameTidy
  <1>3. Gapless' /\ ~client'.asking
    BY <1>1 DEF Undisturbed, Gapless
  <1>4. ASSUME NEW f \in Turn, Follows(f) PROVE Follows(f)'
    <2>1. f \in Running /\ client.lastSeq <= turn[f].sent /\ turn[f].sent \in Nat /\ turn[f].pc = "run"
      BY <1>1, <1>4, HubFields, HubAssumption DEF Follows, Running
    <2>2. hub.open
      BY <1>1, <2>1 DEF Undisturbed, Alone
    <2>3. /\ conn'.pc = "replay" /\ conn'.live /\ conn'.queue = <<>>
      BY <1>1, <2>2 DEF Off
    <2>4. Stretch(<<>>, f, turn[f].sent)
      BY <2>1 DEF Stretch
    <2> QED BY <1>1, <1>4, <2>1, <2>3, <2>4 DEF Follows
  <1>5. client'.streaming /\ ~client'.asking => \E u \in Turn : Follows(u)'
    BY <1>1, <1>4 DEF Undisturbed
  <1> QED BY <1>2, <1>3, <1>5, UndisturbedParts2

\* A replay that is not too late starts where the client stopped.
LEMMA ReplayUndisturbed ==
  ASSUME HubInv, Undisturbed, Replay, ~client'.disturbed
  PROVE  Undisturbed'
  <1> DEFINE since == client.lastSeq
             gone == hub.open /\ Evicted(hub.ring, since)
             back == IF ~hub.open \/ gone THEN <<>> ELSE Since(hub.ring, since)
             last == IF back = <<>> THEN 0 ELSE CHOOSE m \in {back[i].seq : i \in DOMAIN back} :
                                                  \A i \in DOMAIN back : back[i].seq <= m
  <1>1. /\ HubTypeOK /\ turn' = turn /\ hub' = hub /\ conn.pc = "replay"
        /\ conn' = [conn EXCEPT !.pc = "open", !.back = back, !.floor = last]
        /\ client' = [client EXCEPT !.disturbed = @ \/ gone]
    BY DEF HubInv, Replay
  <1> HIDE DEF back, last
  <1>2. /\ ~gone
        /\ client'.shown = client.shown /\ client'.lastSeq = client.lastSeq
        /\ client'.streaming = client.streaming /\ client'.asking = client.asking
    BY <1>1 DEF HubTypeOK, Client
  <1>3. /\ conn'.pc = "open" /\ conn'.back = back /\ conn'.floor = last
        /\ conn'.queue = conn.queue /\ conn'.live = conn.live
    BY <1>1 DEF HubTypeOK, Connection
  <1>4. Tidy'
    BY <1>1, SameTidy
  <1>5. Gapless' /\ ~client'.asking
    BY <1>1, <1>2, OffFacts DEF Undisturbed, Gapless
  <1>6. ASSUME NEW f \in Turn, Follows(f) PROVE Follows(f)'
    <2>1. /\ turn[f].pc = "run" /\ conn.live /\ since <= turn[f].sent /\ since > 0
          /\ Stretch(conn.queue, f, turn[f].sent)
      BY <1>1, <1>6 DEF Follows
    <2>2. PICK sent \in Nat : sent = turn[f].sent
      BY <1>1, HubFields, HubAssumption
    <2>3. since \in Nat \ {0} /\ since <= sent /\ hub.ring \in Seq(Event)
      BY <1>1, <2>1, <2>2, HubFields
    <2>4. Alone(f)
      BY <2>1 DEF Undisturbed, Running
    <2>5. hub.open /\ hub.ring # <<>> /\ Stretch(hub.ring, f, sent)
      BY <2>1, <2>2, <2>3, <2>4 DEF Alone
    <2>6. ~Evicted(hub.ring, since) /\ back = Since(hub.ring, since)
      BY <1>2, <2>5 DEF back
    <2>7. back \in Seq(Event) /\ Stretch(back, f, sent) /\ Len(back) = sent - since + 1 /\ back # <<>>
      BY <2>3, <2>5, <2>6, ReplayStretch
    <2>8. last = sent
      <3>1. Len(back) \in DOMAIN back /\ Len(back) \in Nat \ {0}
        BY <2>7, TailFacts
      <3>2. \A i \in DOMAIN back : back[i].seq = sent - Len(back) + i /\ back[i].seq <= sent
        BY <2>2, <2>7, <3>1 DEF Stretch
      <3>3. back[Len(back)].seq = sent
        BY <2>2, <3>1, <3>2
      <3>4. ASSUME NEW m \in {back[i].seq : i \in DOMAIN back}
            PROVE  (\A i \in DOMAIN back : back[i].seq <= m) <=> m = sent
        <4>1. PICK i \in DOMAIN back : m = back[i].seq
          OBVIOUS
        <4>2. i \in Nat /\ Len(back) \in Nat
          BY <2>7, <3>1, <4>1
        <4>3. m \in Int /\ m <= sent
          BY <2>2, <3>2, <4>1, <4>2
        <4>4. (\A l \in DOMAIN back : back[l].seq <= m) => m = sent
          BY <2>2, <3>1, <3>3, <4>3
        <4> QED BY <3>2, <4>4
      <3> QED BY <2>7, <3>1, <3>3, <3>4 DEF last
    <2>9. /\ sent - Len(back) <= since /\ conn'.floor = sent /\ Len(conn.queue) \in Nat
          /\ sent - Len(conn.queue) <= sent
      <3>1. Len(conn.queue) \in Nat
        BY <1>1, HubFields
      <3>2. sent - Len(back) <= since
        <4>1. Len(back) = sent - since + 1
          BY <2>7
        <4> QED BY <2>2, <2>3, <4>1
      <3>3. sent - Len(conn.queue) <= sent
        BY <2>2, <3>1
      <3> QED BY <1>3, <2>8, <3>1, <3>2, <3>3
    <2>10. /\ Stretch(conn'.back, f, conn'.floor) /\ conn'.floor <= sent
           /\ conn'.floor - Len(conn'.back) <= client'.lastSeq
           /\ sent - Len(conn'.queue) <= conn'.floor
      BY <1>2, <1>3, <2>2, <2>7, <2>9
    <2> QED BY <1>1, <1>2, <1>3, <1>6, <2>1, <2>2, <2>10 DEF Follows
  <1>7. client'.streaming /\ ~client'.asking => \E u \in Turn : Follows(u)'
    BY <1>2, <1>6 DEF Undisturbed
  <1> QED BY <1>4, <1>5, <1>7, UndisturbedParts2

\* A new question starts with an empty screen.
LEMMA AskUndisturbed ==
  ASSUME HubInv, Undisturbed, Ask
  PROVE  Undisturbed'
  <1>1. /\ HubTypeOK /\ turn' = turn /\ hub' = hub /\ conn' = Off
        /\ client'.asking /\ client'.streaming /\ client'.lastSeq = 0 /\ client'.shown = <<>>
    BY DEF HubInv, HubTypeOK, Client, Ask
  <1>2. Tidy'
    BY <1>1, SameTidy
  <1>3. Gapless' /\ Awaiting'
    BY <1>1 DEF Gapless, Awaiting
  <1> QED BY <1>1, <1>2, <1>3, UndisturbedParts2


\* The next event of a turn on the screen, or an event that is there already.
LEMMA ShowsNext ==
  ASSUME HubInv, Undisturbed, NEW f \in Turn, Follows(f), client.streaming,
         NEW e \in Event, e.turn = f, NEW k \in Nat, e.n = k, e.seq = k,
         k <= client.lastSeq + 1, k <= turn[f].sent, client' = Shows(e)
  PROVE  /\ Gapless' /\ client'.asking = client.asking /\ client'.lastSeq >= k
         /\ client'.lastSeq \in Nat /\ client'.lastSeq >= client.lastSeq
         /\ client'.streaming =>
              /\ client'.lastSeq = Len(client'.shown) /\ client'.lastSeq <= turn[f].sent
              /\ client'.lastSeq < Length
              /\ \A i \in DOMAIN client'.shown : client'.shown[i].turn = f
  <1>1. /\ client'.asking = client.asking
        /\ ~New(e) => client' = client
        /\ New(e) => /\ client'.lastSeq = e.seq
                     /\ client'.shown = IF client.streaming THEN Append(client.shown, e) ELSE client.shown
                     /\ client'.streaming = (client.streaming /\ e.n # Length)
    BY ShowsFacts
  <1>2. /\ client.lastSeq \in Nat /\ client.shown \in Seq(Event) /\ client.lastSeq = Len(client.shown)
        /\ client.lastSeq <= turn[f].sent /\ client.lastSeq < Length /\ turn[f].sent \in 0..Length
        /\ \A i \in DOMAIN client.shown : client.shown[i].turn = f
        /\ Length \in Nat
    BY HubFields, HubAssumption DEF Follows, HubInv
  <1>3. CASE ~New(e)
    <2>1. client' = client /\ k <= client.lastSeq
      BY <1>1, <1>2, <1>3 DEF New
    <2>2. Gapless'
      BY <2>1 DEF Undisturbed, Gapless
    <2> QED BY <1>1, <1>2, <2>1, <2>2
  <1>4. CASE New(e)
    <2>1. k = client.lastSeq + 1 /\ k = Len(client.shown) + 1
      BY <1>2, <1>4 DEF New
    <2>2. PICK s : s = Append(client.shown, e)
      OBVIOUS
    <2>3. client'.lastSeq = k /\ client'.shown = s /\ client'.streaming = (k # Length)
      BY <1>1, <1>4, <2>2
    <2>4. /\ Len(s) = k /\ DOMAIN s = 1..k /\ s[k] = e
          /\ \A i \in 1..(k - 1) : s[i] = client.shown[i] /\ i \in DOMAIN client.shown
      BY <1>2, <2>1, <2>2, AppendFacts
    <2>5. \A i \in 1..k : i \in 1..(k - 1) \/ i = k
      OBVIOUS
    <2>6. \A i \in DOMAIN s : s[i].n = i /\ s[i].turn = f
      <3>1. \A i \in 1..(k - 1) : s[i].n = i /\ s[i].turn = f
        BY <1>2, <2>4 DEF Undisturbed
      <3> QED BY <2>4, <2>5, <3>1
    <2>7. 1 \in DOMAIN s
      BY <2>1, <2>4, <1>2
    <2>8. Gapless'
      BY <2>3, <2>6, <2>7 DEF Gapless
    <2>9. k # Length => k < Length
      BY <1>2
    <2>10. client'.lastSeq >= k /\ client'.lastSeq \in Nat /\ client'.lastSeq >= client.lastSeq
      BY <1>2, <2>1, <2>3
    <2>11. client'.lastSeq = Len(client'.shown) /\ client'.lastSeq <= turn[f].sent
      BY <2>3, <2>4
    <2>12. client'.streaming => client'.lastSeq < Length
      BY <2>3, <2>9
    <2>13. \A i \in DOMAIN client'.shown : client'.shown[i].turn = f
      BY <2>3, <2>6
    <2> QED BY <1>1, <2>8, <2>10, <2>11, <2>12, <2>13
  <1> QED BY <1>3, <1>4

\* A screen whose question is answered stays as it is.
LEMMA ShowsNoMore ==
  ASSUME HubInv, Undisturbed, ~client.streaming, NEW e \in Event, client' = Shows(e)
  PROVE  Gapless' /\ client'.asking = client.asking /\ ~client'.streaming
  <1>1. /\ client'.asking = client.asking
        /\ ~New(e) => client' = client
        /\ New(e) => /\ client'.shown = IF client.streaming THEN Append(client.shown, e) ELSE client.shown
                     /\ client'.streaming = (client.streaming /\ e.n # Length)
    BY ShowsFacts
  <1>2. client'.shown = client.shown /\ ~client'.streaming
    BY <1>1
  <1> QED BY <1>1, <1>2 DEF Undisturbed, Gapless

\* Reading the backfill.
LEMMA ReadBackUndisturbed ==
  ASSUME HubInv, Undisturbed, ReadBack
  PROVE  Undisturbed'
  <1>1. /\ HubTypeOK /\ turn' = turn /\ hub' = hub /\ conn.pc = "open" /\ conn.back # <<>>
        /\ conn' = [conn EXCEPT !.back = Tail(@)] /\ client' = Shows(Head(conn.back))
        /\ conn.back \in Seq(Event)
    BY HubFields DEF HubInv, ReadBack
  <1>2. /\ conn'.back = Tail(conn.back) /\ conn'.queue = conn.queue
        /\ conn'.pc = conn.pc /\ conn'.live = conn.live /\ conn'.floor = conn.floor
    BY <1>1 DEF HubTypeOK, Connection
  <1>3. Tidy' /\ ~client.asking
    BY <1>1, SameTidy, OffFacts DEF Undisturbed
  <1>4. Head(conn.back) \in Event
    BY <1>1, TailFacts
  <1>5. CASE ~client.streaming
    BY <1>1, <1>3, <1>4, <1>5, ShowsNoMore, UndisturbedParts2
  <1>6. CASE client.streaming
    <2>1. PICK f \in Turn : Follows(f)
      BY <1>3, <1>6 DEF Undisturbed
    <2>2. PICK e : e = Head(conn.back)
      OBVIOUS
    <2>3. /\ Stretch(conn.back, f, conn.floor) /\ conn.floor <= turn[f].sent
          /\ conn.floor - Len(conn.back) <= client.lastSeq
          /\ \/ turn[f].sent - Len(conn.queue) <= client.lastSeq
             \/ turn[f].sent - Len(conn.queue) <= conn.floor
          /\ conn.floor \in Nat /\ client.lastSeq \in Nat /\ turn[f].sent \in Nat
      BY <1>1, <2>1, HubFields, HubAssumption DEF Follows
    <2>4. /\ Stretch(Tail(conn.back), f, conn.floor) /\ Len(Tail(conn.back)) = Len(conn.back) - 1
          /\ Len(conn.back) \in Nat
          /\ e = [turn |-> f, n |-> conn.floor - Len(conn.back) + 1, seq |-> conn.floor - Len(conn.back) + 1]
      BY <1>1, <2>2, <2>3, TailStretch
    <2>5. PICK k \in Nat : k = conn.floor - Len(conn.back) + 1
      <3>1. Len(conn.back) <= conn.floor
        BY <2>3 DEF Stretch
      <3> QED BY <2>3, <2>4, <3>1
    <2>6. e \in Event /\ e.turn = f /\ e.n = k /\ e.seq = k
      BY <1>4, <2>2, <2>4, <2>5
    <2>7. k <= client.lastSeq + 1 /\ k <= turn[f].sent
      <3>1. Len(conn.back) \in Nat \ {0}
        BY <1>1, TailFacts
      <3> QED BY <2>3, <2>5, <3>1
    <2>8. /\ Gapless' /\ client'.asking = client.asking /\ client'.lastSeq >= k
          /\ client'.lastSeq \in Nat /\ client'.lastSeq >= client.lastSeq
          /\ client'.streaming =>
               /\ client'.lastSeq = Len(client'.shown) /\ client'.lastSeq <= turn[f].sent
               /\ client'.lastSeq < Length
               /\ \A i \in DOMAIN client'.shown : client'.shown[i].turn = f
      BY <1>1, <1>6, <2>1, <2>2, <2>6, <2>7, ShowsNext
    <2>9. ASSUME client'.streaming PROVE Follows(f)'
      <3>1. conn'.floor - Len(conn'.back) <= client'.lastSeq
        <4>1. conn.floor - (Len(conn.back) - 1) = k
          BY <2>3, <2>4, <2>5
        <4> QED BY <1>2, <2>4, <2>8, <4>1
      <3>2. \/ turn[f].sent - Len(conn'.queue) <= client'.lastSeq
            \/ turn[f].sent - Len(conn'.queue) <= conn'.floor
        <4>1. Len(conn.queue) \in Nat
          BY <1>1, HubFields
        <4> QED BY <1>2, <2>3, <2>8, <4>1
      <3> QED BY <1>1, <1>2, <2>1, <2>3, <2>4, <2>8, <2>9, <3>1, <3>2 DEF Follows
    <2> QED BY <1>3, <2>8, <2>9, UndisturbedParts2
  <1> QED BY <1>5, <1>6

\* Reading the channel.
LEMMA ReadLiveUndisturbed ==
  ASSUME HubInv, Undisturbed, ReadLive
  PROVE  Undisturbed'
  <1>1. PICK e : e = Head(conn.queue)
    OBVIOUS
  <1>2. /\ HubTypeOK /\ turn' = turn /\ hub' = hub /\ conn.pc = "open" /\ conn.back = <<>>
        /\ conn.queue # <<>> /\ conn' = [conn EXCEPT !.queue = Tail(@)]
        /\ client' = IF e.seq <= conn.floor THEN client ELSE Shows(e)
        /\ conn.queue \in Seq(Event)
    BY <1>1, HubFields DEF HubInv, ReadLive
  <1>3. /\ conn'.back = conn.back /\ conn'.queue = Tail(conn.queue)
        /\ conn'.pc = conn.pc /\ conn'.live = conn.live /\ conn'.floor = conn.floor
    BY <1>2 DEF HubTypeOK, Connection
  <1>4. Tidy' /\ ~client.asking
    BY <1>2, SameTidy, OffFacts DEF Undisturbed
  <1>5. e \in Event
    BY <1>1, <1>2, TailFacts
  <1>6. CASE ~client.streaming
    <2>1. CASE client' = client
      <3>1. Gapless'
        BY <2>1 DEF Undisturbed, Gapless
      <3> QED BY <1>4, <1>6, <2>1, <3>1, UndisturbedParts2
    <2>2. CASE client' = Shows(e)
      BY <1>4, <1>5, <1>6, <2>2, ShowsNoMore, UndisturbedParts2
    <2> QED BY <1>2, <2>1, <2>2
  <1>7. CASE client.streaming
    <2>1. PICK f \in Turn : Follows(f)
      BY <1>4, <1>7 DEF Undisturbed
    <2>2. PICK sent \in Nat : sent = turn[f].sent
      BY <1>2, HubFields, HubAssumption
    <2>3. /\ Stretch(conn.queue, f, sent) /\ Stretch(conn.back, f, conn.floor) /\ conn.floor <= sent
          /\ conn.floor - Len(conn.back) <= client.lastSeq
          /\ \/ sent - Len(conn.queue) <= client.lastSeq
             \/ sent - Len(conn.queue) <= conn.floor
          /\ conn.floor \in Nat /\ client.lastSeq \in Nat
      BY <1>2, <2>1, <2>2, HubFields DEF Follows
    <2>4. conn.floor <= client.lastSeq
      <3>1. Len(conn.back) = 0
        BY <1>2
      <3> QED BY <2>3, <3>1
    <2>5. /\ Stretch(Tail(conn.queue), f, sent) /\ Len(Tail(conn.queue)) = Len(conn.queue) - 1
          /\ Len(conn.queue) \in Nat
          /\ e = [turn |-> f, n |-> sent - Len(conn.queue) + 1, seq |-> sent - Len(conn.queue) + 1]
      BY <1>1, <1>2, <2>2, <2>3, TailStretch
    <2>6. PICK k \in Nat : k = sent - Len(conn.queue) + 1
      <3>1. Len(conn.queue) <= sent
        BY <2>3 DEF Stretch
      <3> QED BY <2>2, <2>5, <3>1
    <2>7. e.turn = f /\ e.n = k /\ e.seq = k
      BY <2>5, <2>6
    <2>8. k <= client.lastSeq + 1 /\ k <= turn[f].sent /\ sent - (Len(conn.queue) - 1) = k
      <3>1. Len(conn.queue) \in Nat \ {0}
        BY <1>2, TailFacts
      <3>2. sent - Len(conn.queue) <= client.lastSeq
        BY <2>2, <2>3, <2>4, <2>5
      <3>3. k <= client.lastSeq + 1
        <4>1. PICK q \in Nat : q = Len(conn.queue)
          BY <3>1
        <4>2. PICK l \in Nat : l = client.lastSeq
          BY <2>3
        <4>3. k = sent - q + 1 /\ sent - q <= l
          BY <2>6, <3>2, <4>1, <4>2
        <4>4. k <= l + 1
          BY <4>3
        <4> QED BY <4>2, <4>4
      <3>4. k <= sent /\ sent - (Len(conn.queue) - 1) = k
        BY <2>2, <2>6, <3>1
      <3> QED BY <2>2, <3>3, <3>4
    <2>9. ASSUME client'.streaming, client'.lastSeq \in Nat, client'.lastSeq >= client.lastSeq,
                 k <= client'.lastSeq \/ k <= conn.floor,
                 client'.lastSeq = Len(client'.shown), client'.lastSeq <= sent, client'.lastSeq < Length,
                 \A i \in DOMAIN client'.shown : client'.shown[i].turn = f
          PROVE  Follows(f)'
      <3>1. conn'.floor - Len(conn'.back) <= client'.lastSeq
        <4>1. Len(conn.back) = 0
          BY <1>2
        <4> QED BY <1>3, <2>3, <2>4, <2>9, <4>1
      <3>2. sent - Len(conn'.queue) = k
        BY <1>3, <2>5, <2>8
      <3> QED BY <1>2, <1>3, <2>1, <2>2, <2>3, <2>5, <2>9, <3>1, <3>2 DEF Follows
    <2>10. CASE e.seq <= conn.floor
      <3>1. client' = client /\ k <= conn.floor
        BY <1>2, <2>7, <2>10
      <3>2. Gapless'
        BY <3>1 DEF Undisturbed, Gapless
      <3>3. Follows(f)'
        <4>1. /\ client.lastSeq = Len(client.shown) /\ client.lastSeq <= sent /\ client.lastSeq < Length
              /\ \A i \in DOMAIN client.shown : client.shown[i].turn = f
          BY <2>1, <2>2 DEF Follows
        <4>2. client.lastSeq >= client.lastSeq
          BY <2>3
        <4> QED BY <1>7, <2>3, <2>9, <3>1, <4>1, <4>2
      <3> QED BY <1>4, <3>1, <3>2, <3>3, UndisturbedParts2
    <2>11. CASE ~(e.seq <= conn.floor)
      <3>1. client' = Shows(e)
        BY <1>2, <2>11
      <3>2. /\ Gapless' /\ client'.asking = client.asking /\ client'.lastSeq >= k
            /\ client'.lastSeq \in Nat /\ client'.lastSeq >= client.lastSeq
            /\ client'.streaming =>
                 /\ client'.lastSeq = Len(client'.shown) /\ client'.lastSeq <= turn[f].sent
                 /\ client'.lastSeq < Length
                 /\ \A i \in DOMAIN client'.shown : client'.shown[i].turn = f
        BY <1>5, <1>7, <2>1, <2>7, <2>8, <3>1, ShowsNext
      <3>3. client'.streaming => Follows(f)'
        BY <2>2, <2>9, <3>2
      <3> QED BY <1>4, <3>2, <3>3, UndisturbedParts2
    <2> QED BY <2>10, <2>11
  <1> QED BY <1>6, <1>7

\* A response ends only after the last event, and a lost connection leaves the turn.
LEMMA EndUndisturbed ==
  ASSUME HubInv, Undisturbed, Finish \/ Drop, ~client'.disturbed
  PROVE  Undisturbed'
  <1>1. /\ HubTypeOK /\ turn' = turn /\ hub' = hub /\ conn' = Off /\ conn.pc # "off"
        /\ client'.shown = client.shown /\ client'.lastSeq = client.lastSeq
        /\ client'.streaming = client.streaming /\ client'.asking = client.asking
    BY DEF HubInv, HubTypeOK, Client, Finish, Drop
  <1>2. Tidy'
    BY <1>1, SameTidy
  <1>3. Gapless' /\ ~client'.asking
    BY <1>1, OffFacts DEF Undisturbed, Gapless
  <1>4. ASSUME NEW f \in Turn, Follows(f), client.streaming PROVE Follows(f)'
    <2>1. conn.live
      <3>1. CASE Drop
        BY <1>4, <3>1 DEF Drop, HubInv, HubTypeOK, Client
      <3>2. CASE Finish
        <4> SUFFICES ASSUME ~conn.live PROVE FALSE
          OBVIOUS
        <4>1. /\ conn.back = <<>> /\ conn.queue = <<>> /\ conn.pc = "open" /\ turn[f].sent = Length
          BY <1>4, <3>2 DEF Finish, Follows
        <4>2. /\ conn.floor - 0 <= client.lastSeq /\ client.lastSeq < Length
              /\ Length - 0 <= client.lastSeq \/ Length - 0 <= conn.floor
              /\ conn.floor \in Nat /\ client.lastSeq \in Nat /\ Length \in Nat
          <5>1. Len(conn.back) = 0 /\ Len(conn.queue) = 0
            BY <4>1
          <5> QED BY <1>1, <1>4, <4>1, <5>1, HubFields, HubAssumption DEF Follows
        <4> QED BY <4>2
      <3> QED BY <3>1, <3>2
    <2>2. turn[f].pc = "run"
      BY <1>4, <2>1 DEF Follows
    <2> QED BY <1>1, <1>4, <2>2, OffFacts DEF Follows
  <1>5. client'.streaming /\ ~client'.asking => \E u \in Turn : Follows(u)'
    BY <1>1, <1>4 DEF Undisturbed
  <1> QED BY <1>2, <1>3, <1>5, UndisturbedParts2

----------------------------------------------------------------------------

\* The empty thread satisfies the inductive invariant.
LEMMA InitHubInv == HubInit => HubInv
  <1> SUFFICES ASSUME HubInit PROVE HubInv
    OBVIOUS
  <1>1. <<>> \in Seq(Event) /\ Len(<<>>) = 0 /\ Range(<<>>) = {} /\ 0 \in 0..Length /\ 0 \in 0..MaxDrops
    BY OffFacts, HubAssumption
  <1>2. /\ hub.ring = <<>> /\ hub.seq = 0 /\ conn.back = <<>> /\ conn.queue = <<>> /\ client.shown = <<>>
        /\ ~client.streaming /\ ~client.asking
        /\ \A t \in Turn : turn[t].pc = "idle" /\ turn[t].sent = 0 /\ turn[t].seq = 0
    BY OffFacts DEF HubInit
  <1>3. HubTypeOK
    BY <1>1, OffFacts DEF HubInit, HubTypeOK, Entry, TurnState, Client
  <1>4. Events = {} /\ Running = {}
    BY <1>1, <1>2 DEF Events, Running
  <1>5. Turns /\ OneCounter /\ SeqsInOrder
    BY <1>2, <1>4 DEF Turns, OneCounter, SeqsInOrder
  <1>6. ShownInOrder
    BY <1>2 DEF ShownInOrder
  <1>7. Undisturbed
    BY <1>2, <1>4 DEF Undisturbed
  <1> QED BY <1>3, <1>5, <1>6, <1>7 DEF HubInv

\* Every step preserves the inductive invariant.
LEMMA NextHubInv == HubInv /\ [HubNext]_hubVars => HubInv'
  <1> SUFFICES ASSUME HubInv, [HubNext]_hubVars PROVE HubInv'
    OBVIOUS
  <1>1. CASE UNCHANGED hubVars
    BY <1>1 DEF hubVars, HubInv, HubTypeOK, Turns, OneCounter, SeqsInOrder, ShownInOrder, Undisturbed,
                Events, Running, Alone, Follows
  <1>2. ASSUME Ordered', ~client'.disturbed => ~client.disturbed,
               Undisturbed /\ ~client'.disturbed => Undisturbed'
        PROVE  HubInv'
    BY <1>2 DEF HubInv, Ordered
  <1>3. HubTypeOK /\ client \in Client
    BY DEF HubInv, HubTypeOK
  <1>4. ASSUME NEW t \in Turn, TurnStep(t) PROVE HubInv'
    <2>1. CASE NextSeq(t)
      BY <1>2, <2>1, NextSeqOrdered, NextSeqUndisturbed DEF NextSeq
    <2>2. CASE Publish(t)
      <3>1. ~client'.disturbed => ~client.disturbed
        BY <1>3, <2>2 DEF Publish, Client
      <3> QED BY <1>2, <2>2, <3>1, PublishOrdered, PublishUndisturbed
    <2>3. CASE Close(t)
      <3>1. ~client'.disturbed => ~client.disturbed
        BY <1>3, <2>3 DEF Close, Client
      <3> QED BY <1>2, <2>3, <3>1, CloseOrdered, CloseUndisturbed
    <2> QED BY <1>4, <2>1, <2>2, <2>3 DEF TurnStep
  <1>5. ASSUME NEW t \in Turn, ConnectRefused(t) \/ AskElsewhere(t) PROVE HubInv'
    <2>1. client'.disturbed
      BY <1>3, <1>5 DEF ConnectRefused, AskElsewhere, WithTurn, Client
    <2> QED BY <1>2, <1>5, <2>1, ConnectOrdered
  <1>6. ASSUME NEW t \in Turn, ConnectFresh(t) PROVE HubInv'
    <2>1. ~client'.disturbed => ~client.disturbed
      BY <1>3, <1>6 DEF ConnectFresh, WithTurn, Client
    <2> QED BY <1>2, <1>6, <2>1, ConnectOrdered, ConnectUndisturbed
  <1>7. CASE Resume
    BY <1>2, <1>7, ConnectionOrdered, ResumeUndisturbed DEF Resume
  <1>8. CASE Replay
    <2>1. ~client'.disturbed => ~client.disturbed
      BY <1>3, <1>8 DEF Replay, Client
    <2> QED BY <1>2, <1>8, <2>1, ReplayOrdered, ReplayUndisturbed
  <1>9. CASE ReadBack
    <2>1. client'.disturbed = client.disturbed
      BY <1>3, <1>9, HubFields, TailFacts, ShowsFacts DEF ReadBack
    <2> QED BY <1>2, <1>9, <2>1, ReadOrdered, ReadBackUndisturbed
  <1>10. CASE ReadLive
    <2>1. client'.disturbed = client.disturbed
      BY <1>3, <1>10, HubFields, TailFacts, ShowsFacts DEF ReadLive
    <2> QED BY <1>2, <1>10, <2>1, ReadOrdered, ReadLiveUndisturbed
  <1>11. CASE Finish \/ Drop
    <2>1. ~client'.disturbed => ~client.disturbed
      BY <1>3, <1>11 DEF Finish, Drop, Client
    <2> QED BY <1>2, <1>11, <2>1, ConnectionOrdered, EndUndisturbed
  <1>12. CASE Ask
    <2>1. client'.disturbed = client.disturbed
      BY <1>3, <1>12 DEF Ask, Client
    <2> QED BY <1>2, <1>12, <2>1, ConnectionOrdered, AskUndisturbed
  <1>13. CASE Reap
    <2>1. ~client'.disturbed => ~client.disturbed
      BY <1>3, <1>13 DEF Reap, Client
    <2> QED BY <1>2, <1>13, <2>1, ReapOrdered, ReapUndisturbed
  <1> QED BY <1>1, <1>4, <1>5, <1>6, <1>7, <1>8, <1>9, <1>10, <1>11, <1>12, <1>13 DEF HubNext, ClientStep

\* The inductive invariant holds of a thread's stream for every number of turns and
\* events and every size of the ring and of the channel.
THEOREM HubInvariance == HubSpec => []HubInv
  BY InitHubInv, NextHubInv, PTL DEF HubSpec

\* The screen shows each event of a turn once and in order, unless the entry was
\* removed while the turn ran (hub.rs, replay.rs, sse_client.dart).
THEOREM ShownOnce == HubSpec => []OnceInOrder
  <1>1. HubInv => OnceInOrder
    <2> SUFFICES ASSUME HubInv, NEW i \in DOMAIN client.shown, NEW j \in DOMAIN client.shown, i < j,
                        client.shown[i].turn = client.shown[j].turn,
                        ~turn[client.shown[i].turn].torn
                 PROVE  client.shown[i].n < client.shown[j].n
      BY DEF OnceInOrder
    <2>1. client.shown[i] \in Events /\ client.shown[j] \in Events
      BY DEF Events, Range
    <2>2. client.shown[i].seq < client.shown[j].seq
      BY DEF HubInv, ShownInOrder
    <2>3. PICK e \in Events, f \in Events : e = client.shown[i] /\ f = client.shown[j]
      BY <2>1
    <2>4. /\ f.n < e.n => f.seq < e.seq
          /\ f.n = e.n => f.seq = e.seq
      BY <2>3 DEF HubInv, SeqsInOrder
    <2>5. e.n \in Nat /\ f.n \in Nat /\ e.seq \in Nat /\ f.seq \in Nat
      BY EventFields, HubAssumption DEF HubInv
    <2> QED BY <2>2, <2>3, <2>4, <2>5
  <1> QED BY <1>1, HubInvariance, PTL

\* What the screen shows of an undisturbed question is its turn's answer from the
\* first event on, without a gap (replay_since, sse_with_backfill, SseClient).
THEOREM ShownWithoutGap == HubSpec => []NoSilentGap
  <1>1. HubInv => NoSilentGap
    BY DEF HubInv, Undisturbed, NoSilentGap
  <1> QED BY <1>1, HubInvariance, PTL
=============================================================================
