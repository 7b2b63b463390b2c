------------------------ MODULE TranscriptionProofs ------------------------
(***************************************************************************)
(* Proofs about CredentialDispatch and Transcription, for any number of    *)
(* keys, turns, voice requests, answers and clock ticks: a recorded        *)
(* verdict stays, a key rests as long as its rejection asked, and a clip   *)
(* goes to a vendor the tenant chose, never under a condemned key.         *)
(*                                                                         *)
(* The type of the chain a turn works along (ProviderRoutes!Chain) is left *)
(* to TLC: the proofs only need that a turn does not change chain and link *)
(* between loading a pool and writing it back.                             *)
(***************************************************************************)
EXTENDS Transcription, SequenceTheorems, WellFoundedInduction, TLAPS

Pool == UNION {[S -> Entry] : S \in SUBSET Cred}

\* A turn, its place in the chain left open.
Turn(s) == s \in [
    pc : Busy \cup {"idle", "answered"},
    chain : {s.chain}, idx : {s.idx}, attempts : {s.attempts},
    pool : Pool, cred : Cred \cup {NoCred}, now0 : 0..MaxNow,
    then : {"retry", "advance", "answered", "idle"}, condemned : BOOLEAN,
    rest : [Cred -> 0..(MaxNow + MaxCooldown)] ]

\* The entry keeps its key from being used before t.
Holds(e, t) == e.status = "dead" \/ (e.status = "exhausted" /\ e.until >= t)

\* An iteration works on keys of one provider, one of them selected; only a
\* turn about to write back a terminal verdict has condemned a key.
InIteration(s, t) ==
    /\ s.pc \in {"decrypt", "sent", "persist"} =>
        /\ s.cred \in DOMAIN s.pool /\ s.now0 <= t
        /\ \A c \in DOMAIN s.pool : ProviderOf[c] = s.chain[s.idx][1]
    /\ s.condemned => s.pc = "persist" /\ s.then = "idle" /\ s.pool[s.cred].status = "dead"

\* A write-back that will make a stored key dead has a verdict to show for it.
PoolJudged(s, keys, known) ==
    \A c \in keys \cap DOMAIN s.pool :
        s.pool[c].status = "dead" => known[c] # "none" \/ (s.condemned /\ c = s.cred)

\* A rest that is not over is in the pool that will be written back, and in
\* the row once it has been.
RestKept(s, keys, rows, t) ==
    /\ \A c \in DOMAIN s.pool : s.rest[c] <= t \/ Holds(s.pool[c], s.rest[c])
    /\ \A c \in keys : \/ s.rest[c] <= t \/ Holds(rows[c], s.rest[c])
                       \/ s.pc = "persist" /\ c = s.cred

\* KeyRests, for one turn.
Rested(s) == s.pc \in {"decrypt", "sent"} => s.now0 >= s.rest[s.cred]

\* What a turn must satisfy, given the table, the clock and the verdicts.
Fits(s, keys, rows, t, known) ==
    /\ Turn(s) /\ Rested(s) /\ InIteration(s, t)
    /\ PoolJudged(s, keys, known) /\ RestKept(s, keys, rows, t)

Types ==
    /\ scope \in Scopes
    /\ added \in Seq(Cred) /\ IsInjective(added)
    /\ row \in [Cred -> Entry]
    /\ now \in 0..MaxNow
    /\ verdict \in [Cred -> Verdict]
    /\ call = [k \in Call |-> call[k]]

TurnsFit == \A k \in Call : Fits(call[k], Keys, row, now, verdict)

Inv == Types /\ VerdictKept /\ TurnsFit
-----------------------------------------------------------------------------
(* Facts about the parts.                                                  *)

LEMMA Bounds == MaxNow \in Nat /\ MaxCooldown \in Nat
  BY DispatchAssumption

LEMMA KeysAreCreds == Types => Keys \subseteq Cred
  BY DEF Types, Keys, Range

LEMMA EmptyPool == <<>> \in Pool /\ DOMAIN <<>> = {}
  <1>1. <<>> \in [{} -> Entry] /\ DOMAIN <<>> = {}
    OBVIOUS
  <1> QED BY <1>1 DEF Pool

LEMMA Entries == Fresh \in Entry /\ [status |-> "dead", until |-> 0] \in Entry
  BY Bounds DEF Fresh, Entry

LEMMA PoolIs ==
  ASSUME NEW p \in Pool
  PROVE  /\ DOMAIN p \subseteq Cred
         /\ \A c \in DOMAIN p : p[c] \in Entry
         /\ p = [c \in DOMAIN p |-> p[c]]
  BY DEF Pool

LEMMA PoolSet ==
  ASSUME NEW p \in Pool, NEW c \in DOMAIN p, NEW e \in Entry
  PROVE  /\ [p EXCEPT ![c] = e] \in Pool
         /\ DOMAIN [p EXCEPT ![c] = e] = DOMAIN p
         /\ [p EXCEPT ![c] = e][c] = e
         /\ \A x \in DOMAIN p \ {c} : [p EXCEPT ![c] = e][x] = p[x]
  <1>1. PICK S \in SUBSET Cred : p \in [S -> Entry]
    BY DEF Pool
  <1>2. [p EXCEPT ![c] = e] \in [S -> Entry]
    BY <1>1
  <1>3. [p EXCEPT ![c] = e] \in Pool
    BY <1>2 DEF Pool
  <1> QED BY <1>1, <1>3

LEMMA IdleFits ==
  ASSUME NEW keys \in SUBSET Cred, NEW rows, NEW t \in 0..MaxNow, NEW known
  PROVE  /\ Fits(Idle, keys, rows, t, known)
         /\ Idle.pc = "idle" /\ ~Idle.condemned /\ DOMAIN Idle.pool = {}
  <1>1. /\ Idle.pc = "idle" /\ Idle.condemned = FALSE /\ Idle.pool = <<>>
        /\ \A c \in Cred : Idle.rest[c] = 0
    BY DEF Idle
  <1>2. Turn(Idle)
    BY EmptyPool, Bounds DEF Turn, Idle, Busy
  <1>3. RestKept(Idle, keys, rows, t)
    <2> HIDE DEF Idle
    <2> QED BY <1>1, EmptyPool DEF RestKept
  <1>4. Rested(Idle) /\ InIteration(Idle, t)
    <2> HIDE DEF Idle
    <2> QED BY <1>1 DEF Rested, InIteration
  <1>5. PoolJudged(Idle, keys, known)
    <2> HIDE DEF Idle
    <2> QED BY <1>1, EmptyPool DEF PoolJudged
  <1> QED BY <1>1, <1>2, <1>3, <1>4, <1>5, EmptyPool DEF Fits

\* A turn that holds no pool, between two iterations.
LEMMA Freed ==
  ASSUME NEW keys \in SUBSET Cred, NEW rows, NEW t \in 0..MaxNow, NEW known,
         NEW n, Turn(n), n.pc \in {"load", "answered"}, n.pool = <<>>, ~n.condemned,
         \A c \in keys : n.rest[c] <= t \/ Holds(rows[c], n.rest[c])
  PROVE  Fits(n, keys, rows, t, known)
  BY EmptyPool DEF Fits, Rested, InIteration, PoolJudged, RestKept

\* A turn ends, or goes on with another iteration or call: it drops its pool
\* and keeps what it knows of the keys.
Onward(s, n) ==
    \/ n = Idle
    \/ /\ Turn(n) /\ n.pc \in {"load", "answered"} /\ n.pool = <<>>
       /\ n.condemned = s.condemned /\ n.rest = s.rest

LEMMA AdvancedIsOnward == ASSUME NEW s, Turn(s) PROVE Onward(s, Advanced(s))
  <1>0. PICK e \in Pool : e = <<>>
    BY EmptyPool
  <1> PICK i : i = s.idx + 1
    OBVIOUS
  <1> DEFINE n == [s EXCEPT !.pc = "load", !.idx = i, !.pool = e, !.cred = NoCred, !.now0 = 0]
  <1>1. /\ n.pc = "load" /\ n.pool = e /\ n.condemned = s.condemned /\ n.rest = s.rest
        /\ Turn(n)
    <2>1. e \in Pool /\ 0 \in 0..MaxNow
      BY <1>0, Bounds
    <2> QED BY <2>1 DEF Turn, Busy
  <1>2. Onward(s, n)
    <2> HIDE DEF n
    <2> QED BY <1>0, <1>1 DEF Onward
  <1> QED BY <1>0, <1>2 DEF Advanced, Onward

LEMMA LandedIsOnward ==
  ASSUME NEW s, Turn(s), NEW where \in {"load", "answered", "idle"}
  PROVE  Onward(s, Landed(s, where))
  <1>0. PICK e \in Pool : e = <<>>
    BY EmptyPool
  <1> DEFINE n == [s EXCEPT !.pc = where, !.pool = e, !.cred = NoCred, !.now0 = 0,
                            !.then = "idle"]
  <1>1. CASE where # "idle"
    <2>1. /\ n.pc \in {"load", "answered"} /\ n.pool = e
          /\ n.condemned = s.condemned /\ n.rest = s.rest /\ Turn(n)
      <3>1. e \in Pool /\ 0 \in 0..MaxNow
        BY <1>0, Bounds
      <3> QED BY <1>1, <3>1 DEF Turn, Busy
    <2>2. Onward(s, n)
      <3> HIDE DEF n
      <3> QED BY <1>0, <2>1 DEF Onward
    <2> QED BY <1>0, <1>1, <2>2 DEF Landed
  <1> QED BY <1>1 DEF Landed, Onward

\* After the write-back.
LEMMA ContinuedIsOnward == ASSUME NEW s, Turn(s) PROVE Onward(s, Continued(s))
  <1>1. CASE s.then = "advance"
    <2> DEFINE n == [s EXCEPT !.then = "idle"]
    <2>1. Turn(n) /\ n.condemned = s.condemned /\ n.rest = s.rest
      BY DEF Turn
    <2>2. Onward(s, Advanced(n))
      <3> HIDE DEF n
      <3> QED BY <2>1, AdvancedIsOnward DEF Onward
    <2> QED BY <1>1, <2>2 DEF Continued
  <1>2. CASE s.then = "retry"
    BY <1>2, LandedIsOnward DEF Continued
  <1>3. CASE s.then \in {"answered", "idle"}
    BY <1>3, LandedIsOnward DEF Continued
  <1> QED BY <1>1, <1>2, <1>3 DEF Turn

\* It may go on when its rests are all in the rows.
LEMMA OnwardFits ==
  ASSUME NEW keys \in SUBSET Cred, NEW rows, NEW t \in 0..MaxNow, NEW known,
         NEW s, NEW n, Onward(s, n), n = Idle \/ ~s.condemned,
         \A c \in keys : s.rest[c] <= t \/ Holds(rows[c], s.rest[c])
  PROVE  Fits(n, keys, rows, t, known)
  BY Freed, IdleFits DEF Onward
-----------------------------------------------------------------------------
(* The steps of a turn that write no row.                                  *)

\* Such a step is right when the turn fits afterwards.
LEMMA TurnStep ==
  ASSUME Inv, NEW k \in Call, NEW n, Update(k, n), UNCHANGED <<table, now, verdict>>,
         Fits(n, Keys, row, now, verdict)
  PROVE  Inv'
  <1>1. Types'
    BY DEF Inv, Types, Update, table
  <1>2. VerdictKept'
    BY DEF Inv, VerdictKept, Keys, table
  <1>3. ASSUME NEW j \in Call PROVE Fits(call'[j], Keys, row, now, verdict)
    BY DEF Inv, Types, TurnsFit, Update
  <1>4. Keys' = Keys /\ row' = row /\ now' = now /\ verdict' = verdict
    BY DEF Keys, table
  <1>5. TurnsFit'
    <2> SUFFICES ASSUME NEW j \in Call
                 PROVE  Fits(call'[j], Keys', row', now', verdict')
      BY DEF TurnsFit
    <2> QED BY <1>3, <1>4
  <1> QED BY <1>1, <1>2, <1>5 DEF Inv

\* What Inv says of the turn k.
LEMMA TurnOf ==
  ASSUME Inv, NEW k \in Call
  PROVE  /\ Keys \in SUBSET Cred /\ row \in [Cred -> Entry] /\ now \in 0..MaxNow
         /\ Fits(call[k], Keys, row, now, verdict)
         /\ Turn(call[k])
         /\ call[k].condemned => call[k].pc = "persist"
         /\ call[k].pc # "persist" =>
              \A c \in Keys : call[k].rest[c] <= now \/ Holds(row[c], call[k].rest[c])
  BY KeysAreCreds DEF Inv, Types, TurnsFit, Fits, InIteration, RestKept

LEMMA BeginStep ==
  ASSUME Inv, NEW k \in Call, NEW links, Begin(k, links)
  PROVE  Inv'
  <1> DEFINE n == [Idle EXCEPT !.pc = "load", !.chain = links]
  <1>0. /\ Turn(Idle) /\ Idle.pool = <<>> /\ Idle.condemned = FALSE
        /\ \A c \in Cred : Idle.rest[c] = 0
    BY TurnOf, IdleFits DEF Fits, Idle
  <1>1. /\ Turn(n) /\ n.pc = "load" /\ n.pool = <<>> /\ n.condemned = FALSE
        /\ \A c \in Cred : n.rest[c] = 0
    BY <1>0 DEF Turn, Busy
  <1>2. Update(k, n) /\ UNCHANGED <<table, now, verdict>>
    BY DEF Begin
  <1> HIDE DEF n
  <1>3. Fits(n, Keys, row, now, verdict)
    BY <1>1, TurnOf, Freed
  <1> QED BY <1>2, <1>3, TurnStep

LEMMA EndSteps ==
  ASSUME Inv, NEW k \in Call, GiveUp(k) \/ Leave(k)
  PROVE  Inv'
  <1>1. Update(k, Idle) /\ UNCHANGED <<table, now, verdict>>
    BY DEF GiveUp, Leave
  <1> QED BY <1>1, TurnOf, IdleFits, TurnStep

LEMMA AgainStep ==
  ASSUME Inv, NEW k \in Call, Again(k)
  PROVE  Inv'
  <1> DEFINE s == call[k]
             n == [s EXCEPT !.pc = "load", !.attempts = 0]
  <1>1. /\ Turn(n) /\ n.pc = "load" /\ n.pool = s.pool /\ n.condemned = s.condemned
        /\ n.rest = s.rest /\ s.pc = "answered"
    BY TurnOf DEF Again, Turn, Busy
  <1>2. Update(k, n) /\ UNCHANGED <<table, now, verdict>>
    BY DEF Again
  <1>3. Fits(s, Keys, row, now, verdict)
    BY TurnOf
  <1> HIDE DEF n, s
  <1>4. Fits(n, Keys, row, now, verdict)
    BY <1>1, <1>3 DEF Fits, Rested, InIteration, PoolJudged, RestKept
  <1> QED BY <1>2, <1>4, TurnStep

\* attempts plays no part in what a turn must satisfy.
LEMMA CountedIs ==
  ASSUME NEW s, Turn(s)
  PROVE  /\ Turn(Counted(s)) /\ Counted(s).pc = s.pc /\ Counted(s).condemned = s.condemned
         /\ Counted(s).rest = s.rest /\ Counted(s).chain = s.chain /\ Counted(s).idx = s.idx
  <1> PICK i : i = s.attempts + 1
    OBVIOUS
  <1> DEFINE n == [s EXCEPT !.attempts = i]
  <1>1. /\ Turn(n) /\ n.pc = s.pc /\ n.condemned = s.condemned
        /\ n.rest = s.rest /\ n.chain = s.chain /\ n.idx = s.idx
    BY DEF Turn
  <1> QED BY <1>1 DEF Counted

LEMMA AdvanceSteps ==
  ASSUME Inv, NEW k \in Call, call[k].pc # "persist",
         \/ Update(k, Advanced(call[k])) \/ Update(k, Advanced(Counted(call[k]))),
         UNCHANGED <<table, now, verdict>>
  PROVE  Inv'
  <1>1. Fits(Advanced(call[k]), Keys, row, now, verdict)
    BY TurnOf, AdvancedIsOnward, OnwardFits
  <1>2. Fits(Advanced(Counted(call[k])), Keys, row, now, verdict)
    <2>1. Onward(Counted(call[k]), Advanced(Counted(call[k])))
      BY TurnOf, CountedIs, AdvancedIsOnward
    <2> QED BY <2>1, TurnOf, CountedIs, OnwardFits
  <1> QED BY <1>1, <1>2, TurnStep

LEMMA LoadStep ==
  ASSUME Inv, NEW k \in Call, Load(k)
  PROVE  Inv'
  <1> DEFINE p == [c \in PoolRows(k) |-> row[c]]
  <1>0. call[k].pc = "load" /\ UNCHANGED <<table, now, verdict>>
    BY DEF Load
  <1>1. CASE Update(k, Advanced(Counted(call[k])))
    BY <1>0, <1>1, AdvanceSteps
  <1>2. ASSUME NEW c \in Selectable(p, now),
               Update(k, [Counted(call[k]) EXCEPT !.pc = "decrypt", !.pool = p,
                                                  !.cred = c, !.now0 = now])
        PROVE  Inv'
    <2>1. /\ p \in Pool /\ DOMAIN p = PoolRows(k) /\ PoolRows(k) \subseteq Keys
          /\ \A x \in PoolRows(k) : p[x] = row[x] /\ ProviderOf[x] = call[k].chain[call[k].idx][1]
      <3>1. PoolRows(k) \in SUBSET Cred /\ PoolRows(k) \subseteq Keys
        BY TurnOf DEF PoolRows
      <3>2. p \in [PoolRows(k) -> Entry]
        BY <3>1, TurnOf
      <3> QED BY <3>1, <3>2 DEF Pool, PoolRows, Here
    <2>2. c \in PoolRows(k) /\ Eligible(row[c], now)
      BY <2>1 DEF Selectable
    <2> PICK s : s = Counted(call[k])
      OBVIOUS
    <2> PICK q : q = p
      OBVIOUS
    <2> DEFINE n == [s EXCEPT !.pc = "decrypt", !.pool = q, !.cred = c, !.now0 = now]
    <2>3. /\ Turn(s) /\ s.condemned = FALSE /\ s.rest = call[k].rest
          /\ s.chain = call[k].chain /\ s.idx = call[k].idx
      BY <1>0, TurnOf, CountedIs DEF Turn
    <2>4. q \in Pool /\ c \in Cred /\ now \in 0..MaxNow
      BY <2>1, <2>2, TurnOf
    <2> HIDE DEF p
    <2>5. /\ Turn(n) /\ n.pc = "decrypt" /\ n.pool = q /\ n.cred = c /\ n.now0 = now
          /\ n.condemned = FALSE /\ n.rest = s.rest /\ n.chain = s.chain /\ n.idx = s.idx
      BY <2>3, <2>4 DEF Turn, Busy
    <2>6. Update(k, n)
      BY <1>2
    <2> HIDE DEF n
    <2>7. \A x \in Keys : s.rest[x] <= now \/ Holds(row[x], s.rest[x])
      BY <1>0, <2>3, TurnOf
    <2>8. Rested(n)
      <3>1. row[c] \in Entry /\ s.rest[c] \in Int /\ now \in Int
        BY <2>3, <2>4, TurnOf, Bounds DEF Turn
      <3>2. now >= s.rest[c]
        BY <2>1, <2>2, <2>7, <3>1, Bounds DEF Holds, Eligible, Entry
      <3> QED BY <2>5, <3>2 DEF Rested
    <2>9. InIteration(n, now)
      BY <2>1, <2>2, <2>3, <2>4, <2>5 DEF InIteration
    <2>10. PoolJudged(n, Keys, verdict)
      BY <2>1, <2>5 DEF PoolJudged, Inv, VerdictKept
    <2>11. RestKept(n, Keys, row, now)
      BY <2>1, <2>5, <2>7 DEF RestKept
    <2> QED BY <1>0, <2>5, <2>6, <2>8, <2>9, <2>10, <2>11, TurnStep DEF Fits
  <1> QED BY <1>1, <1>2 DEF Load

LEMMA PassingSteps ==
  ASSUME Inv, NEW k \in Call,
         \/ LoadFails(k) \/ Decrypt(k) \/ TransportError(k) \/ \E a \in scope.answers : Fallback(k, a)
  PROVE  Inv'
  <1>0. UNCHANGED <<table, now, verdict>> /\ call[k].pc # "persist"
    BY DEF LoadFails, Decrypt, TransportError, Fallback
  <1>1. CASE Update(k, Advanced(call[k])) \/ Update(k, Advanced(Counted(call[k])))
    BY <1>0, <1>1, AdvanceSteps
  <1>2. CASE Update(k, To(k, "sent")) /\ call[k].pc = "decrypt"
    <2> DEFINE s == call[k]
               n == [s EXCEPT !.pc = "sent"]
    <2>1. Fits(s, Keys, row, now, verdict) /\ s.pc = "decrypt" /\ Update(k, n)
      BY <1>2, TurnOf DEF To
    <2>2. Turn(s)
      BY TurnOf
    <2> HIDE DEF s
    <2>3. /\ Turn(n) /\ n.pc = "sent" /\ n.pool = s.pool /\ n.cred = s.cred /\ n.now0 = s.now0
          /\ n.condemned = s.condemned /\ n.rest = s.rest /\ n.chain = s.chain /\ n.idx = s.idx
          /\ n.then = s.then
      BY <2>2 DEF Turn, Busy
    <2> HIDE DEF n
    <2>4. Fits(n, Keys, row, now, verdict)
      BY <2>1, <2>3 DEF Fits, Rested, InIteration, PoolJudged, RestKept
    <2> QED BY <1>0, <2>1, <2>4, TurnStep
  <1> QED BY <1>1, <1>2 DEF LoadFails, Decrypt, TransportError, Fallback

\* A turn that marks its key in the pool and goes on to write the pool back.
LEMMA MarkedFits ==
  ASSUME Inv, NEW k \in Call, call[k].pc = "sent", NEW e \in Entry,
         NEW n, Turn(n), n.pc = "persist", n.pool = [call[k].pool EXCEPT ![call[k].cred] = e],
         n.cred = call[k].cred, n.now0 = call[k].now0, n.chain = call[k].chain, n.idx = call[k].idx,
         n.condemned <=> e.status = "dead", n.condemned => n.then = "idle",
         \A x \in Cred \ {call[k].cred} : n.rest[x] = call[k].rest[x],
         n.rest[call[k].cred] <= now \/ Holds(e, n.rest[call[k].cred])
  PROVE  Fits(n, Keys, row, now, verdict)
  <1> PICK s : s = call[k]
    OBVIOUS
  <1>1. /\ s.pool \in Pool /\ s.cred \in DOMAIN s.pool /\ s.now0 <= now /\ ~s.condemned
        /\ \A x \in DOMAIN s.pool : ProviderOf[x] = s.chain[s.idx][1]
        /\ PoolJudged(s, Keys, verdict) /\ RestKept(s, Keys, row, now) /\ Keys \subseteq Cred
    BY TurnOf DEF Fits, Turn, InIteration
  <1>2. /\ DOMAIN n.pool = DOMAIN s.pool /\ n.pool[s.cred] = e
        /\ \A x \in DOMAIN s.pool \ {s.cred} : n.pool[x] = s.pool[x]
        /\ DOMAIN s.pool \subseteq Cred
    BY <1>1, PoolSet, PoolIs
  <1>3. InIteration(n, now)
    BY <1>1, <1>2 DEF InIteration
  <1>4. PoolJudged(n, Keys, verdict)
    BY <1>1, <1>2 DEF PoolJudged
  <1>5. RestKept(n, Keys, row, now)
    BY <1>1, <1>2 DEF RestKept
  <1> QED BY <1>3, <1>4, <1>5 DEF Fits, Rested

\* The marked pool is a pool again.
LEMMA PoolMarked ==
  ASSUME Inv, NEW k \in Call, call[k].pc = "sent", NEW e \in Entry
  PROVE  /\ [call[k].pool EXCEPT ![call[k].cred] = e] \in Pool
         /\ call[k].cred \in DOMAIN call[k].pool /\ call[k].cred \in Cred
  BY TurnOf, PoolSet, PoolIs DEF Fits, Turn, InIteration

LEMMA SuccessStep ==
  ASSUME Inv, NEW k \in Call, Success(k)
  PROVE  Inv'
  <1>0. PICK end \in {"answered", "idle"} :
          Update(k, IF call[k].pool[call[k].cred].status = "exhausted"
                    THEN [call[k] EXCEPT !.pc = "persist", !.then = end,
                                         !.pool[call[k].cred] = Fresh]
                    ELSE Landed(call[k], end))
    BY DEF Success
  <1>1. call[k].pc = "sent" /\ UNCHANGED <<table, now, verdict>>
    BY DEF Success
  <1>2. CASE Update(k, Landed(call[k], end))
    <2>1. Fits(Landed(call[k], end), Keys, row, now, verdict)
      BY <1>1, TurnOf, LandedIsOnward, OnwardFits
    <2> QED BY <1>1, <1>2, <2>1, TurnStep
  <1>3. CASE Update(k, [call[k] EXCEPT !.pc = "persist", !.then = end,
                                       !.pool[call[k].cred] = Fresh])
    <2> PICK s, p : s = call[k] /\ p = [s.pool EXCEPT ![s.cred] = Fresh]
      OBVIOUS
    <2> DEFINE n == [s EXCEPT !.pc = "persist", !.then = end, !.pool = p]
    <2>1. p \in Pool /\ Turn(s) /\ s.condemned = FALSE /\ Fresh \in Entry /\ Fresh.status = "ok"
      <3>1. s.condemned \in BOOLEAN /\ ~s.condemned
        BY <1>1, TurnOf DEF Turn
      <3> QED BY <1>1, <3>1, TurnOf, PoolMarked, Entries DEF Fresh
    <2>2. Update(k, n)
      BY <1>3
    <2>3. s.cred \in Cred /\ s.rest[s.cred] <= now
      <3>1. s.rest[s.cred] \in Int /\ s.now0 \in Int /\ now \in Int /\ s.cred \in Cred
        BY <1>1, TurnOf, PoolMarked, Entries, Bounds DEF Turn
      <3> QED BY <1>1, <3>1, TurnOf DEF Fits, Rested, InIteration
    <2>4. /\ Turn(n) /\ n.pc = "persist" /\ n.pool = p /\ n.cred = s.cred /\ n.now0 = s.now0
          /\ n.condemned = FALSE /\ n.rest = s.rest /\ n.chain = s.chain /\ n.idx = s.idx
      BY <2>1 DEF Turn, Busy
    <2> HIDE DEF n
    <2>5. Fits(n, Keys, row, now, verdict)
      BY <1>1, <2>1, <2>3, <2>4, MarkedFits
    <2> QED BY <1>1, <2>2, <2>5, TurnStep
  <1> QED BY <1>0, <1>2, <1>3

\* mark_exhausted_and_rotate: the end of a cooldown is in the range of the
\* column.
LEMMA CooldownEndIs ==
  ASSUME NEW a \in AnswerType, NEW t \in 0..MaxNow
  PROVE  CooldownEnd(a, t) \in 0..(MaxNow + MaxCooldown)
  <1>1. TtlFor(a.status) \in Nat
    BY DispatchAssumption DEF TtlFor
  <1>2. Wanted(a, t) \in Nat
    <2>1. CASE a.hint = NoHint
      BY <1>1, <2>1, Bounds DEF Wanted
    <2>2. CASE a.hint # NoHint
      <3>1. a.hint \in Nat
        BY <2>2 DEF AnswerType
      <3> QED BY <2>2, <3>1, Bounds DEF Wanted
    <2> QED BY <2>1, <2>2
  <1> HIDE DEF Wanted
  <1> QED BY <1>2, Bounds DEF CooldownEnd

LEMMA RotateStep ==
  ASSUME Inv, NEW k \in Call, NEW a \in scope.answers, Rotate(k, a)
  PROVE  Inv'
  <1>s. PICK s : s = call[k]
    OBVIOUS
  <1>u. PICK u : u = CooldownEnd(a, s.now0)
    OBVIOUS
  <1>e. PICK e : e = [status |-> "exhausted", until |-> u]
    OBVIOUS
  <1>p. PICK p : p = [s.pool EXCEPT ![s.cred] = e]
    OBVIOUS
  <1>t. PICK th : th = IF Selectable(p, s.now0) # {} THEN "retry" ELSE "advance"
    OBVIOUS
  <1>r. PICK r : r = [s.rest EXCEPT ![s.cred] = u]
    OBVIOUS
  <1> DEFINE n == [s EXCEPT !.pc = "persist", !.pool = p, !.then = th, !.rest = r]
  <1>1. /\ s.pc = "sent" /\ UNCHANGED <<table, now, verdict>> /\ Update(k, n)
    BY <1>s, <1>u, <1>e, <1>p, <1>t, <1>r DEF Rotate
  <1>2. Turn(s) /\ s.condemned = FALSE
    BY <1>s, <1>1, TurnOf DEF Turn
  <1>3. u \in 0..(MaxNow + MaxCooldown)
    <2>1. a \in AnswerType
      BY DispatchAssumption DEF Inv, Types
    <2>2. s.now0 \in 0..MaxNow
      BY <1>2 DEF Turn
    <2> QED BY <1>u, <2>1, <2>2, CooldownEndIs
  <1>4. e \in Entry /\ e.status = "exhausted" /\ e.until = u
    BY <1>e, <1>3 DEF Entry
  <1>5. p \in Pool /\ s.cred \in Cred
    BY <1>s, <1>p, <1>1, <1>4, PoolMarked
  <1>6. /\ r \in [Cred -> 0..(MaxNow + MaxCooldown)] /\ r[s.cred] = u
        /\ \A x \in Cred \ {s.cred} : r[x] = s.rest[x]
    BY <1>r, <1>2, <1>3, <1>5 DEF Turn
  <1>7. th \in {"retry", "advance"}
    BY <1>t
  <1>8. /\ Turn(n) /\ n.pc = "persist" /\ n.pool = p /\ n.cred = s.cred /\ n.now0 = s.now0
        /\ n.condemned = FALSE /\ n.rest = r /\ n.chain = s.chain /\ n.idx = s.idx
    <2>1. Turn(s) /\ p \in Pool /\ th \in {"retry", "advance"}
          /\ r \in [Cred -> 0..(MaxNow + MaxCooldown)] /\ s.condemned = FALSE
      BY <1>2, <1>5, <1>6, <1>7
    <2>2. Turn(n) /\ n.pc = "persist" /\ n.pool = p /\ n.cred = s.cred
      BY <2>1 DEF Turn, Busy
    <2>3. /\ n.now0 = s.now0 /\ n.condemned = FALSE /\ n.rest = r
          /\ n.chain = s.chain /\ n.idx = s.idx
      BY <2>1 DEF Turn
    <2> QED BY <2>2, <2>3
  <1>9. Holds(e, r[s.cred])
    BY <1>3, <1>4, <1>6, Bounds DEF Holds
  <1> HIDE DEF n
  <1>10. Fits(n, Keys, row, now, verdict)
    BY <1>s, <1>p, <1>1, <1>4, <1>6, <1>8, <1>9, MarkedFits
  <1> QED BY <1>s, <1>1, <1>8, <1>10, TurnStep

LEMMA AbortStep ==
  ASSUME Inv, NEW k \in Call, NEW a \in scope.answers, Abort(k, a)
  PROVE  Inv'
  <1>0. call[k].pc = "sent" /\ UNCHANGED <<table, now, verdict>>
    BY DEF Abort
  <1>1. CASE Update(k, Idle)
    BY <1>0, <1>1, TurnOf, IdleFits, TurnStep
  <1>2. CASE Terminal(a)
    <2> PICK s : s = call[k]
      OBVIOUS
    <2> PICK e : e = [status |-> "dead", until |-> 0]
      OBVIOUS
    <2> PICK p : p = [s.pool EXCEPT ![s.cred] = e]
      OBVIOUS
    <2> DEFINE n == [s EXCEPT !.pc = "persist", !.then = "idle", !.condemned = TRUE, !.pool = p]
    <2>1. Update(k, n)
      BY <1>2 DEF Abort, Terminal
    <2>2. Turn(s) /\ RestKept(s, Keys, row, now)
      BY TurnOf DEF Fits
    <2>3. e \in Entry /\ e.status = "dead"
      BY Entries
    <2>4. p \in Pool
      BY <1>0, <2>3, PoolMarked
    <2>5. /\ Turn(n) /\ n.pc = "persist" /\ n.pool = p /\ n.cred = s.cred /\ n.now0 = s.now0
          /\ n.condemned = TRUE /\ n.then = "idle" /\ n.rest = s.rest
          /\ n.chain = s.chain /\ n.idx = s.idx
      BY <2>2, <2>4 DEF Turn, Busy
    <2> HIDE DEF n
    <2>6. Holds(e, n.rest[s.cred])
      BY <2>3 DEF Holds
    <2>7. Fits(n, Keys, row, now, verdict)
      BY <1>0, <2>3, <2>5, <2>6, MarkedFits
    <2> QED BY <1>0, <2>1, <2>7, TurnStep
  <1> QED BY <1>1, <1>2 DEF Abort

LEMMA PersistFailsStep ==
  ASSUME Inv, NEW k \in Call, PersistFails(k)
  PROVE  Inv'
  <1> PICK s : s = call[k]
    OBVIOUS
  <1>0. s.pc = "persist" /\ UNCHANGED <<table, now, verdict>>
    BY DEF PersistFails
  <1>1. CASE Update(k, Idle)
    BY <1>0, <1>1, TurnOf, IdleFits, TurnStep
  <1>2. CASE Continued(s) # Idle /\ Update(k, [Continued(s) EXCEPT !.rest[s.cred] = 0])
    <2>1. /\ Turn(s) /\ s.cred \in DOMAIN s.pool /\ RestKept(s, Keys, row, now)
          /\ s.condemned => s.then = "idle"
      BY <1>0, TurnOf DEF Fits, InIteration
    <2>2. s.cred \in Cred
      BY <2>1, PoolIs DEF Turn
    <2> PICK o : o = Continued(s)
      OBVIOUS
    <2>3. /\ Turn(o) /\ o.pc \in {"load", "answered"} /\ o.pool = <<>>
          /\ o.condemned = s.condemned /\ o.rest = s.rest
      BY <1>2, <2>1, ContinuedIsOnward DEF Onward
    <2> PICK r : r = [s.rest EXCEPT ![s.cred] = 0]
      OBVIOUS
    <2> DEFINE n == [o EXCEPT !.rest = r]
    <2>4. /\ r \in [Cred -> 0..(MaxNow + MaxCooldown)] /\ r[s.cred] = 0
          /\ \A x \in Cred \ {s.cred} : r[x] = s.rest[x]
      BY <2>1, <2>2, Bounds DEF Turn
    <2>5. Turn(n) /\ n.pc = o.pc /\ n.pool = o.pool /\ n.condemned = o.condemned /\ n.rest = r
      BY <2>3, <2>4 DEF Turn
    <2>6. Update(k, n)
      BY <1>2, <2>3
    <2> HIDE DEF n
    <2>7. \A c \in Keys : n.rest[c] <= now \/ Holds(row[c], n.rest[c])
      BY <2>1, <2>4, <2>5, TurnOf DEF RestKept
    <2>8. ~n.condemned
      BY <1>2, <2>1, <2>3, <2>5 DEF Continued, Landed
    <2>9. Fits(n, Keys, row, now, verdict)
      BY <2>3, <2>5, <2>7, <2>8, TurnOf, Freed
    <2> QED BY <1>0, <2>6, <2>9, TurnStep
  <1> QED BY <1>1, <1>2 DEF PersistFails
-----------------------------------------------------------------------------
(* The steps that write rows.                                              *)

\* A turn whose rests at the keys S are forgotten.
Forgot(s, n, S) == n = [s EXCEPT !.rest = [c \in Cred |-> IF c \in S THEN 0 ELSE s.rest[c]]]

LEMMA Forgetting ==
  ASSUME NEW S, NEW s, Turn(s), NEW n, Forgot(s, n, S)
  PROVE  /\ Turn(n) /\ n.pc = s.pc /\ n.chain = s.chain /\ n.idx = s.idx /\ n.pool = s.pool
         /\ n.cred = s.cred /\ n.now0 = s.now0 /\ n.then = s.then /\ n.condemned = s.condemned
         /\ \A c \in Cred : n.rest[c] = IF c \in S THEN 0 ELSE s.rest[c]
  <1> PICK r : r = [c \in Cred |-> IF c \in S THEN 0 ELSE s.rest[c]]
    OBVIOUS
  <1>1. /\ r \in [Cred -> 0..(MaxNow + MaxCooldown)]
        /\ \A c \in Cred : r[c] = IF c \in S THEN 0 ELSE s.rest[c]
    BY Bounds DEF Turn
  <1>2. n = [s EXCEPT !.rest = r]
    BY DEF Forgot
  <1> QED BY <1>1, <1>2 DEF Turn

\* It fits a table that differs only there, as long as no verdict is lost on
\* the keys that its pool may make dead.
SameBut(S, keys, rows, keys2, rows2) ==
    \A c \in keys2 : c \in S \/ (c \in keys /\ rows2[c] = rows[c])

StillJudged(s, keys, known, keys2, known2) ==
    \A c \in keys2 \cap DOMAIN s.pool :
        s.pool[c].status = "dead" => known2[c] # "none" \/ (c \in keys /\ known[c] = "none")

LEMMA ForgottenFits ==
  ASSUME NEW keys \in SUBSET Cred, NEW rows, NEW t \in 0..MaxNow, NEW known,
         NEW s, Fits(s, keys, rows, t, known), NEW S, NEW n, Forgot(s, n, S),
         NEW keys2 \in SUBSET Cred, NEW rows2, NEW known2,
         SameBut(S, keys, rows, keys2, rows2), StillJudged(s, keys, known, keys2, known2)
  PROVE  Fits(n, keys2, rows2, t, known2)
  <1> USE DEF Fits, SameBut, StillJudged
  <1>1. /\ Turn(n) /\ n.pc = s.pc /\ n.chain = s.chain /\ n.idx = s.idx /\ n.pool = s.pool
        /\ n.cred = s.cred /\ n.now0 = s.now0 /\ n.then = s.then /\ n.condemned = s.condemned
        /\ \A c \in Cred : n.rest[c] = IF c \in S THEN 0 ELSE s.rest[c]
    BY Forgetting
  <1>2. DOMAIN s.pool \subseteq Cred
    BY PoolIs DEF Turn
  <1>3. InIteration(n, t)
    BY <1>1 DEF InIteration
  <1>4. Rested(n)
    <2> SUFFICES ASSUME n.pc \in {"decrypt", "sent"} PROVE n.now0 >= n.rest[n.cred]
      BY DEF Rested
    <2>1. s.cred \in Cred /\ s.now0 \in Nat /\ s.now0 >= s.rest[s.cred]
      BY <1>1, <1>2, Bounds DEF Rested, InIteration, Turn
    <2> QED BY <1>1, <2>1
  <1>5. PoolJudged(n, keys2, known2)
    BY <1>1 DEF PoolJudged
  <1>6. RestKept(n, keys2, rows2, t)
    <2>1. \A c \in DOMAIN n.pool : n.rest[c] <= t \/ Holds(n.pool[c], n.rest[c])
      BY <1>1, <1>2, Bounds DEF RestKept
    <2>2. ASSUME NEW c \in keys2
          PROVE  \/ n.rest[c] <= t \/ Holds(rows2[c], n.rest[c])
                 \/ n.pc = "persist" /\ c = n.cred
      BY <1>1, Bounds DEF RestKept
    <2> QED BY <2>1, <2>2 DEF RestKept
  <1> QED BY <1>1, <1>3, <1>4, <1>5, <1>6

\* persist_transitions keeps a dead entry and an open cooldown.
LEMMA RowAfterIs ==
  ASSUME NEW r \in Entry, NEW e \in Entry, now \in 0..MaxNow
  PROVE  /\ RowAfter(r, e) \in Entry
         /\ e.status = "dead" => RowAfter(r, e).status = "dead"
         /\ e.status = "exhausted" => RowAfter(r, e).status = "exhausted"
         /\ e.status = "ok" => RowAfter(r, e) \in {r, Fresh} /\ (r.status = "dead" => RowAfter(r, e) = r)
         /\ \A t \in Nat : Holds(e, t) => t <= now \/ Holds(RowAfter(r, e), t)
  <1>1. e.status \in {"ok", "exhausted", "dead"} /\ e.until \in 0..(MaxNow + MaxCooldown)
    BY DEF Entry
  <1>2. CASE e.status = "dead"
    BY <1>2 DEF RowAfter, Holds
  <1>3. CASE e.status = "ok"
    BY <1>3, Entries DEF RowAfter, Holds
  <1>4. CASE e.status = "exhausted"
    <2> PICK u : u = now + (IF e.until > now THEN e.until - now ELSE 0)
      OBVIOUS
    <2>1. u \in 0..(MaxNow + MaxCooldown) /\ (e.until > now => u = e.until)
      BY <1>1, Bounds
    <2>2. RowAfter(r, e) = [status |-> "exhausted", until |-> u]
      BY <1>4 DEF RowAfter, Cooling
    <2>3. RowAfter(r, e) \in Entry /\ RowAfter(r, e).status = "exhausted" /\ RowAfter(r, e).until = u
      BY <2>1, <2>2 DEF Entry
    <2> QED BY <1>1, <1>4, <2>1, <2>3, Bounds DEF Holds
  <1> QED BY <1>1, <1>2, <1>3, <1>4

LEMMA PersistStep ==
  ASSUME Inv, NEW k \in Call, Persist(k)
  PROVE  Inv'
  <1> PICK s : s = call[k]
    OBVIOUS
  <1> PICK hit : hit = {c \in PoolRows(k) : c \in DOMAIN s.pool}
    OBVIOUS
  <1> PICK S : S = {c \in hit : row'[c] # row[c]}
    OBVIOUS
  <1>1. /\ s.pc = "persist" /\ UNCHANGED <<scope, added, picks, now>>
        /\ row' = [c \in Cred |-> IF c \in hit THEN RowAfter(row[c], s.pool[c]) ELSE row[c]]
        /\ call' = [Forget(S) EXCEPT ![k] = Continued(s)]
        /\ verdict' = [c \in Cred |->
             IF c \in hit /\ c = s.cred /\ s.condemned THEN "terminal"
             ELSE IF c \in hit /\ row[c].status = "dead" /\ s.pool[c].status = "exhausted"
             THEN "lifted" ELSE verdict[c]]
    BY DEF Persist
  <1>2. /\ Keys \subseteq Cred /\ row \in [Cred -> Entry] /\ now \in 0..MaxNow
        /\ verdict \in [Cred -> Verdict] /\ Keys' = Keys
    BY <1>1, TurnOf DEF Inv, Types, Keys
  <1>3. /\ Turn(s) /\ s.cred \in DOMAIN s.pool
        /\ \A c \in DOMAIN s.pool : ProviderOf[c] = s.chain[s.idx][1]
        /\ s.condemned => s.then = "idle" /\ s.pool[s.cred].status = "dead"
        /\ PoolJudged(s, Keys, verdict) /\ RestKept(s, Keys, row, now)
    BY <1>1, TurnOf DEF Fits, InIteration
  <1>4. hit = Keys \cap DOMAIN s.pool
    BY <1>3 DEF PoolRows, Here
  <1>5. /\ \A c \in Cred : row[c] \in Entry
        /\ \A c \in hit : s.pool[c] \in Entry
    BY <1>2, <1>3, <1>4, PoolIs DEF Turn
  <1>6. \A c \in Cred \ hit : row'[c] = row[c]
    BY <1>1
  <1>7. \A c \in hit : /\ row'[c] = RowAfter(row[c], s.pool[c])
                       /\ s.pool[c].status \in {"ok", "exhausted", "dead"}
    BY <1>1, <1>2, <1>4, <1>5 DEF Entry
  <1>8. Types'
    <2>1. row' \in [Cred -> Entry]
      BY <1>1, <1>2, <1>5, RowAfterIs
    <2>2. verdict' \in [Cred -> Verdict]
      BY <1>1, <1>2 DEF Verdict
    <2>3. call' = [j \in Call |-> call'[j]]
      BY <1>1 DEF Forget
    <2> QED BY <1>1, <2>1, <2>2, <2>3 DEF Inv, Types
  <1>9. VerdictKept'
    <2>1. ASSUME NEW c \in Cred, verdict'[c] = "terminal" PROVE row'[c].status = "dead"
      <3>1. CASE c \in hit /\ c = s.cred /\ s.condemned
        BY <1>2, <1>3, <1>5, <1>7, <3>1, RowAfterIs
      <3>2. CASE ~(c \in hit /\ c = s.cred /\ s.condemned)
        <4>1. verdict[c] = "terminal" /\ ~(c \in hit /\ row[c].status = "dead" /\ s.pool[c].status = "exhausted")
          BY <1>1, <2>1, <3>2
        <4>2. row[c].status = "dead"
          BY <4>1 DEF Inv, VerdictKept
        <4> QED BY <1>2, <1>5, <1>6, <1>7, <4>1, <4>2, RowAfterIs
      <3> QED BY <3>1, <3>2
    <2>2. ASSUME NEW c \in Keys, row'[c].status = "dead" PROVE verdict'[c] # "none"
      <3>1. verdict[c] # "none" => verdict'[c] # "none"
        BY <1>1, <1>2
      <3>2. row[c].status = "dead" => verdict[c] # "none"
        BY DEF Inv, VerdictKept
      <3>3. CASE c \in hit /\ s.pool[c].status = "dead"
        BY <1>1, <1>2, <1>3, <1>4, <3>1, <3>3 DEF PoolJudged
      <3>4. CASE c \in hit /\ s.pool[c].status = "exhausted"
        BY <1>2, <1>5, <1>7, <2>2, <3>4, RowAfterIs
      <3>5. CASE c \in hit /\ s.pool[c].status = "ok"
        <4>1. row'[c] = row[c]
          BY <1>2, <1>5, <1>7, <2>2, <3>5, RowAfterIs DEF Fresh
        <4> QED BY <3>1, <3>2, <4>1, <2>2
      <3>6. CASE c \notin hit
        BY <1>2, <1>6, <2>2, <3>1, <3>2, <3>6
      <3> QED BY <1>7, <3>3, <3>4, <3>5, <3>6
    <2> QED BY <1>2, <2>1, <2>2 DEF VerdictKept
  <1>10. \A c \in Keys : s.rest[c] <= now \/ Holds(row'[c], s.rest[c])
    <2> SUFFICES ASSUME NEW c \in Keys PROVE s.rest[c] <= now \/ Holds(row'[c], s.rest[c])
      OBVIOUS
    <2>1. s.rest[c] \in Nat
      BY <1>2, <1>3, Bounds DEF Turn
    <2>2. CASE c \in hit
      BY <1>2, <1>3, <1>4, <1>5, <1>7, <2>1, <2>2, RowAfterIs DEF RestKept
    <2>3. CASE c \notin hit
      BY <1>2, <1>3, <1>4, <1>6, <2>3 DEF RestKept
    <2> QED BY <2>2, <2>3
  <1>11. Fits(Continued(s), Keys, row', now, verdict')
    <2>1. Continued(s) = Idle \/ ~s.condemned
      BY <1>3 DEF Continued, Landed
    <2> QED BY <1>2, <1>3, <1>10, <2>1, ContinuedIsOnward, OnwardFits
  <1>12. ASSUME NEW j \in Call, j # k PROVE Fits(call'[j], Keys, row', now, verdict')
    <2>1. Forgot(call[j], call'[j], S)
      BY <1>1, <1>12 DEF Forget, Forgot
    <2>2. Fits(call[j], Keys, row, now, verdict)
      BY TurnOf
    <2>3. SameBut(S, Keys, row, Keys, row')
      BY <1>2, <1>6 DEF SameBut
    <2>4. StillJudged(call[j], Keys, verdict, Keys, verdict')
      BY <1>1, <1>2 DEF StillJudged
    <2> QED BY <1>2, <2>1, <2>2, <2>3, <2>4, ForgottenFits
  <1>13. call'[k] = Continued(s)
    BY <1>1 DEF Forget
  <1>14. TurnsFit'
    <2> SUFFICES ASSUME NEW j \in Call PROVE Fits(call'[j], Keys', row', now', verdict')
      BY DEF TurnsFit
    <2> QED BY <1>1, <1>2, <1>11, <1>12, <1>13
  <1> QED BY <1>8, <1>9, <1>14 DEF Inv

\* put_key and delete_key keep the slots distinct.
LEMMA AppendIs ==
  ASSUME NEW q \in Seq(Cred), IsInjective(q), NEW c \in Cred, c \notin Range(q)
  PROVE  /\ Append(q, c) \in Seq(Cred) /\ IsInjective(Append(q, c))
         /\ Range(Append(q, c)) = Range(q) \cup {c}
  <1> PICK r : r = Append(q, c)
    OBVIOUS
  <1>1. /\ r \in Seq(Cred) /\ DOMAIN r = 1..(Len(q) + 1) /\ r[Len(q) + 1] = c
        /\ DOMAIN q = 1..Len(q) /\ Len(q) \in Nat
        /\ \A i \in 1..Len(q) : r[i] = q[i]
    OBVIOUS
  <1>2. IsInjective(r)
    BY <1>1 DEF IsInjective, Range
  <1>3. Range(r) = Range(q) \cup {c}
    <2>1. ASSUME NEW x \in Range(r) PROVE x \in Range(q) \cup {c}
      BY <1>1, <2>1 DEF Range
    <2>2. c \in Range(r)
      BY <1>1 DEF Range
    <2>3. ASSUME NEW x \in Range(q) PROVE x \in Range(r)
      BY <1>1, <2>3 DEF Range
    <2> QED BY <2>1, <2>2, <2>3
  <1> QED BY <1>1, <1>2, <1>3

LEMMA RemoveIs ==
  ASSUME NEW q \in Seq(Cred), IsInjective(q), NEW i \in DOMAIN q
  PROVE  /\ RemoveAt(q, i) \in Seq(Cred) /\ IsInjective(RemoveAt(q, i))
         /\ Range(RemoveAt(q, i)) = Range(q) \ {q[i]}
  <1>1. PICK N \in Nat : N = Len(q)
    OBVIOUS
  <1>2. DOMAIN q = 1..N /\ i \in 1..N /\ \A j \in 1..N : q[j] \in Cred
    BY <1>1
  <1>3. PICK a : a = SubSeq(q, 1, i - 1)
    OBVIOUS
  <1>4. PICK b : b = SubSeq(q, i + 1, N)
    OBVIOUS
  <1>5. PICK r : r = RemoveAt(q, i)
    OBVIOUS
  <1>6. a \in Seq(Cred) /\ Len(a) = i - 1 /\ \A j \in 1..(i - 1) : a[j] = q[j]
    <2>1. /\ \A j \in 1..(i - 1) : q[j] \in Cred
          /\ 1 \in Int /\ i - 1 \in Int /\ i - 1 - 1 + 1 = i - 1
          /\ \A j \in 1..(i - 1) : 1 + j - 1 = j
          /\ (IF 1 <= i - 1 THEN i - 1 - 1 + 1 ELSE 0) = i - 1
      BY <1>2
    <2>2. /\ a \in Seq(Cred) /\ Len(a) = IF 1 <= i - 1 THEN i - 1 - 1 + 1 ELSE 0
          /\ \A j \in 1..(i - 1 - 1 + 1) : a[j] = q[1 + j - 1]
      BY <1>3, <2>1, SubSeqProperties
    <2> QED BY <2>1, <2>2, Zenon
  <1>7. b \in Seq(Cred) /\ Len(b) = N - i /\ \A j \in 1..(N - i) : b[j] = q[i + j]
    <2>1. /\ \A j \in (i + 1)..N : q[j] \in Cred
          /\ i + 1 \in Int /\ N \in Int /\ N - (i + 1) + 1 = N - i
          /\ \A j \in 1..(N - i) : i + 1 + j - 1 = i + j
          /\ (IF i + 1 <= N THEN N - (i + 1) + 1 ELSE 0) = N - i
      BY <1>2
    <2>2. /\ b \in Seq(Cred) /\ Len(b) = IF i + 1 <= N THEN N - (i + 1) + 1 ELSE 0
          /\ \A j \in 1..(N - (i + 1) + 1) : b[j] = q[i + 1 + j - 1]
      BY <1>4, <2>1, SubSeqProperties, SMTT(30)
    <2> QED BY <2>1, <2>2, Zenon
  <1>8. /\ r \in Seq(Cred) /\ DOMAIN r = 1..(N - 1)
        /\ \A j \in 1..(N - 1) : r[j] = IF j < i THEN q[j] ELSE q[j + 1]
    <2>1. r = a \o b
      BY <1>1, <1>3, <1>4, <1>5 DEF RemoveAt
    <2>2. /\ r \in Seq(Cred) /\ Len(r) = (i - 1) + (N - i)
          /\ \A j \in 1..((i - 1) + (N - i)) : r[j] = IF j <= i - 1 THEN a[j] ELSE b[j - (i - 1)]
      <3>1. /\ r \in Seq(Cred) /\ Len(r) = Len(a) + Len(b)
            /\ \A j \in 1..(Len(a) + Len(b)) : r[j] = IF j <= Len(a) THEN a[j] ELSE b[j - Len(a)]
        BY <1>6, <1>7, <2>1, ConcatProperties, Zenon
      <3> QED BY <1>6, <1>7, <3>1, Zenon
    <2>3. (i - 1) + (N - i) = N - 1
      BY <1>2
    <2>4. DOMAIN r = 1..(N - 1)
      BY <2>2, <2>3
    <2>5. ASSUME NEW j \in 1..(N - 1) PROVE r[j] = IF j < i THEN q[j] ELSE q[j + 1]
      <3>1. r[j] = IF j <= i - 1 THEN a[j] ELSE b[j - (i - 1)]
        BY <2>2, <2>3
      <3>2. CASE j < i
        BY <1>2, <1>6, <3>1, <3>2
      <3>3. CASE ~(j < i)
        <4>1. j - (i - 1) \in 1..(N - i) /\ i + (j - (i - 1)) = j + 1 /\ ~(j <= i - 1)
          BY <1>2, <3>3
        <4> QED BY <1>7, <3>1, <3>3, <4>1
      <3> QED BY <3>2, <3>3
    <2> QED BY <2>2, <2>4, <2>5
  <1>9. IsInjective(r)
    <2> SUFFICES ASSUME NEW j \in 1..(N - 1), NEW l \in 1..(N - 1), r[j] = r[l] PROVE j = l
      BY <1>8 DEF IsInjective
    <2> PICK j2 : j2 = IF j < i THEN j ELSE j + 1
      OBVIOUS
    <2> PICK l2 : l2 = IF l < i THEN l ELSE l + 1
      OBVIOUS
    <2>1. j2 \in 1..N /\ l2 \in 1..N /\ (j2 = l2 => j = l)
      BY <1>2
    <2>2. q[j2] = q[l2]
      BY <1>8
    <2> QED BY <1>2, <2>1, <2>2 DEF IsInjective
  <1>10. Range(r) = Range(q) \ {q[i]}
    <2>1. ASSUME NEW x \in Range(r) PROVE x \in Range(q) \ {q[i]}
      <3>1. PICK j \in 1..(N - 1) : x = r[j]
        BY <1>8, <2>1 DEF Range
      <3>2. PICK l \in 1..N : x = q[l] /\ l # i
        BY <1>2, <1>8, <3>1
      <3> QED BY <1>2, <3>2 DEF Range, IsInjective
    <2>2. ASSUME NEW x \in Range(q) \ {q[i]} PROVE x \in Range(r)
      <3>1. PICK l \in 1..N : x = q[l] /\ l # i
        BY <1>2, <2>2 DEF Range
      <3>2. CASE l < i
        <4>1. l \in DOMAIN r /\ r[l] = x
          BY <1>2, <1>8, <3>1, <3>2
        <4> QED BY <4>1 DEF Range
      <3>3. CASE l > i
        <4>1. l - 1 \in DOMAIN r /\ r[l - 1] = x
          BY <1>2, <1>8, <3>1, <3>3
        <4> QED BY <4>1 DEF Range
      <3> QED BY <1>2, <3>1, <3>2, <3>3
    <2> QED BY <2>1, <2>2
  <1> QED BY <1>5, <1>8, <1>9, <1>10

LEMMA PutKeyStep ==
  ASSUME Inv, NEW c \in Cred, PutKey(c)
  PROVE  Inv'
  <1>1. /\ added' = IF c \in Keys THEN added ELSE Append(added, c)
        /\ row' = [row EXCEPT ![c] = Fresh] /\ call' = Forget({c})
        /\ UNCHANGED <<scope, picks, now>>
        /\ verdict' = [verdict EXCEPT ![c] =
             IF \E k \in Call : c \in DOMAIN call[k].pool THEN "raced" ELSE "none"]
    BY DEF PutKey
  <1>2. /\ Keys \subseteq Cred /\ row \in [Cred -> Entry] /\ now \in 0..MaxNow
        /\ verdict \in [Cred -> Verdict] /\ added \in Seq(Cred) /\ IsInjective(added)
    BY KeysAreCreds DEF Inv, Types
  <1>3. Keys' = Keys \cup {c} /\ added' \in Seq(Cred) /\ IsInjective(added')
    BY <1>1, <1>2, AppendIs DEF Keys
  <1>4. /\ row' \in [Cred -> Entry] /\ row'[c] = Fresh
        /\ \A x \in Cred \ {c} : row'[x] = row[x]
    BY <1>1, <1>2, Entries
  <1>5. /\ verdict' \in [Cred -> Verdict] /\ verdict'[c] # "terminal"
        /\ \A x \in Cred \ {c} : verdict'[x] = verdict[x]
        /\ (\E k \in Call : c \in DOMAIN call[k].pool) => verdict'[c] = "raced"
    BY <1>1, <1>2 DEF Verdict
  <1>6. Types'
    <2>1. call' = [k \in Call |-> call'[k]]
      BY <1>1 DEF Forget
    <2> QED BY <1>1, <1>2, <1>3, <1>4, <1>5, <2>1 DEF Inv, Types
  <1>7. VerdictKept'
    <2>1. Fresh.status = "ok"
      BY DEF Fresh
    <2>2. \A x \in Cred : verdict'[x] = "terminal" => row'[x].status = "dead"
      BY <1>4, <1>5 DEF Inv, VerdictKept
    <2>3. \A x \in Keys' : row'[x].status = "dead" => verdict'[x] # "none"
      BY <1>2, <1>3, <1>4, <1>5, <2>1 DEF Inv, VerdictKept
    <2> QED BY <2>2, <2>3 DEF VerdictKept
  <1>8. ASSUME NEW k \in Call PROVE Fits(call'[k], Keys', row', now, verdict')
    <2>1. Forgot(call[k], call'[k], {c})
      BY <1>1 DEF Forget, Forgot
    <2>2. Fits(call[k], Keys, row, now, verdict)
      BY TurnOf
    <2>3. SameBut({c}, Keys, row, Keys', row')
      BY <1>2, <1>3, <1>4 DEF SameBut
    <2>4. StillJudged(call[k], Keys, verdict, Keys', verdict')
      BY <1>2, <1>3, <1>5 DEF StillJudged
    <2> QED BY <1>2, <1>3, <2>1, <2>2, <2>3, <2>4, ForgottenFits
  <1>9. TurnsFit'
    <2> SUFFICES ASSUME NEW k \in Call PROVE Fits(call'[k], Keys', row', now', verdict')
      BY DEF TurnsFit
    <2> QED BY <1>1, <1>8
  <1> QED BY <1>6, <1>7, <1>9 DEF Inv

\* A turn still fits when time passes, keys go and rows are healed.
LEMMA LaterFits ==
  ASSUME NEW keys \in SUBSET Cred, NEW rows, NEW t \in 0..MaxNow, NEW known,
         NEW s, Fits(s, keys, rows, t, known),
         rows \in [Cred -> Entry], NEW keys2 \in SUBSET keys, NEW rows2,
         NEW t2 \in 0..MaxNow, t <= t2, NEW known2,
         \A c \in keys2 : known2[c] = known[c],
         \A c \in keys2 : \/ rows2[c] = rows[c]
                          \/ rows[c].status # "dead" /\ rows[c].until <= t2
  PROVE  Fits(s, keys2, rows2, t2, known2)
  <1> USE DEF Fits
  <1>1. /\ DOMAIN s.pool \subseteq Cred /\ s.now0 \in Nat /\ t \in Nat /\ t2 \in Nat
        /\ \A c \in Cred : s.rest[c] \in Nat
    BY PoolIs, Bounds DEF Turn
  <1>2. InIteration(s, t2)
    BY <1>1 DEF InIteration
  <1>3. PoolJudged(s, keys2, known2)
    BY DEF PoolJudged
  <1>4. RestKept(s, keys2, rows2, t2)
    <2>1. \A c \in DOMAIN s.pool : s.rest[c] <= t2 \/ Holds(s.pool[c], s.rest[c])
      BY <1>1 DEF RestKept
    <2>2. ASSUME NEW c \in keys2
          PROVE  \/ s.rest[c] <= t2 \/ Holds(rows2[c], s.rest[c])
                 \/ s.pc = "persist" /\ c = s.cred
      <3>1. rows[c].until \in Nat /\ rows[c].status \in {"ok", "exhausted", "dead"}
        BY Bounds DEF Entry
      <3> QED BY <1>1, <3>1 DEF RestKept, Holds
    <2> QED BY <2>1, <2>2 DEF RestKept
  <1> QED BY <1>2, <1>3, <1>4

LEMMA DeleteKeyStep ==
  ASSUME Inv, NEW c \in Cred, DeleteKey(c)
  PROVE  Inv'
  <1>1. /\ row' = [row EXCEPT ![c] = Fresh] /\ verdict' = [verdict EXCEPT ![c] = "none"]
        /\ UNCHANGED <<scope, picks, now, call>>
    BY DEF DeleteKey
  <1>2. /\ Keys \subseteq Cred /\ row \in [Cred -> Entry] /\ now \in 0..MaxNow
        /\ verdict \in [Cred -> Verdict] /\ added \in Seq(Cred) /\ IsInjective(added)
    BY KeysAreCreds DEF Inv, Types
  <1>3. added' \in Seq(Cred) /\ IsInjective(added') /\ Keys' = Keys \ {c}
    <2>1. PICK i \in DOMAIN added : added[i] = c /\ added' = RemoveAt(added, i)
      BY DEF DeleteKey
    <2> QED BY <1>2, <2>1, RemoveIs DEF Keys
  <1>4. /\ row' \in [Cred -> Entry] /\ verdict' \in [Cred -> Verdict] /\ verdict'[c] = "none"
        /\ \A x \in Cred \ {c} : row'[x] = row[x] /\ verdict'[x] = verdict[x]
    BY <1>1, <1>2, Entries DEF Verdict
  <1>5. Types'
    BY <1>1, <1>3, <1>4 DEF Inv, Types
  <1>6. VerdictKept'
    <2>1. \A x \in Cred : verdict'[x] = "terminal" => row'[x].status = "dead"
      BY <1>4 DEF Inv, VerdictKept
    <2>2. \A x \in Keys' : row'[x].status = "dead" => verdict'[x] # "none"
      BY <1>2, <1>3, <1>4 DEF Inv, VerdictKept
    <2> QED BY <2>1, <2>2 DEF VerdictKept
  <1>7. ASSUME NEW k \in Call PROVE Fits(call'[k], Keys', row', now', verdict')
    <2>1. Fits(call[k], Keys, row, now, verdict) /\ Keys' \in SUBSET Keys
      BY <1>3, TurnOf
    <2>2. \A x \in Keys' : row'[x] = row[x] /\ verdict'[x] = verdict[x]
      BY <1>2, <1>3, <1>4
    <2>3. now <= now
      BY <1>2, Bounds
    <2>4. Fits(call[k], Keys', row', now, verdict')
      BY <1>2, <2>1, <2>2, <2>3, LaterFits
    <2> QED BY <1>1, <2>4
  <1> QED BY <1>5, <1>6, <1>7 DEF Inv, TurnsFit

LEMMA ListKeysStep ==
  ASSUME Inv, ListKeys
  PROVE  Inv'
  <1>1. /\ row' = [c \in Cred |-> IF c \in Keys /\ Elapsed(c) THEN Fresh ELSE row[c]]
        /\ UNCHANGED <<scope, added, picks, now, call, verdict>>
    BY DEF ListKeys
  <1>2. /\ Keys \subseteq Cred /\ row \in [Cred -> Entry] /\ now \in 0..MaxNow /\ Keys' = Keys
    BY <1>1, KeysAreCreds DEF Inv, Types, Keys
  <1>3. /\ row' \in [Cred -> Entry]
        /\ \A c \in Cred : \/ row'[c] = row[c]
                           \/ row'[c] = Fresh /\ row[c].status = "exhausted" /\ row[c].until <= now
    BY <1>1, <1>2, Entries DEF Elapsed
  <1>4. Types'
    BY <1>1, <1>3 DEF Inv, Types
  <1>5. VerdictKept'
    BY <1>1, <1>2, <1>3 DEF Inv, VerdictKept, Fresh
  <1>6. ASSUME NEW k \in Call PROVE Fits(call'[k], Keys', row', now', verdict')
    <2>1. Fits(call[k], Keys, row, now, verdict) /\ Keys \in SUBSET Keys
      BY TurnOf
    <2>2. \A x \in Keys : row'[x] = row[x] \/ (row[x].status # "dead" /\ row[x].until <= now)
      BY <1>2, <1>3
    <2>3. now <= now
      BY <1>2, Bounds
    <2>4. Fits(call[k], Keys, row', now, verdict)
      BY <1>2, <2>1, <2>2, <2>3, LaterFits
    <2> QED BY <1>1, <1>2, <2>4
  <1> QED BY <1>4, <1>5, <1>6 DEF Inv, TurnsFit

LEMMA TickStep ==
  ASSUME Inv, Tick
  PROVE  Inv'
  <1>1. now' = now + 1 /\ now < scope.ticks /\ UNCHANGED <<scope, added, row, picks, call, verdict>>
    BY DEF Tick, table
  <1>2. /\ Keys \subseteq Cred /\ row \in [Cred -> Entry] /\ now \in 0..MaxNow /\ Keys' = Keys
        /\ scope.ticks \in 0..MaxNow
    BY <1>1, KeysAreCreds, DispatchAssumption DEF Inv, Types, Keys
  <1>3. now' \in 0..MaxNow /\ now <= now'
    BY <1>1, <1>2, Bounds
  <1>4. Types' /\ VerdictKept'
    BY <1>1, <1>2, <1>3 DEF Inv, Types, VerdictKept
  <1>5. ASSUME NEW k \in Call PROVE Fits(call'[k], Keys', row', now', verdict')
    <2>1. Fits(call[k], Keys, row, now, verdict) /\ Keys \in SUBSET Keys
      BY TurnOf
    <2>2. Fits(call[k], Keys, row, now', verdict)
      BY <1>2, <1>3, <2>1, LaterFits
    <2> QED BY <1>1, <1>2, <2>2
  <1> QED BY <1>4, <1>5 DEF Inv, TurnsFit

\* A step that touches neither keys, rows, clock, turns nor verdicts.
LEMMA QuietStep ==
  ASSUME Inv, UNCHANGED <<scope, added, row, now, call, verdict>>
  PROVE  Inv'
  <1>1. Types' /\ VerdictKept' /\ Keys' = Keys
    BY DEF Inv, Types, VerdictKept, Keys
  <1>2. TurnsFit'
    <2> SUFFICES ASSUME NEW k \in Call PROVE Fits(call'[k], Keys', row', now', verdict')
      BY DEF TurnsFit
    <2> QED BY <1>1, TurnOf
  <1> QED BY <1>1, <1>2 DEF Inv
-----------------------------------------------------------------------------
(* The invariant of the dispatcher.                                        *)

LEMMA InitInv == Init => Inv
  <1> SUFFICES ASSUME Init PROVE Inv
    OBVIOUS
  <1>1. Types
    BY DispatchAssumption, Bounds, Entries DEF Init, Types, Verdict
  <1>2. VerdictKept
    BY <1>1, KeysAreCreds DEF Init, VerdictKept, Fresh
  <1>3. TurnsFit
    <2> SUFFICES ASSUME NEW k \in Call PROVE Fits(call[k], Keys, row, now, verdict)
      BY DEF TurnsFit
    <2>1. call[k] = Idle /\ Keys \in SUBSET Cred /\ now \in 0..MaxNow
      BY <1>1, KeysAreCreds DEF Init, Types
    <2> QED BY <2>1, IdleFits
  <1> QED BY <1>1, <1>2, <1>3 DEF Inv

LEMMA NextInv == ASSUME Inv, Next PROVE Inv'
  <1>0. scope.tasks \subseteq Call /\ Range(scope.keys) \subseteq Cred
    BY DispatchAssumption DEF Inv, Types, Range
  <1>1. CASE Tick
    BY <1>1, TickStep
  <1>2. CASE ListKeys
    BY <1>2, ListKeysStep
  <1>3. ASSUME NEW c \in Range(scope.keys), PutKey(c) \/ DeleteKey(c) PROVE Inv'
    BY <1>0, <1>3, PutKeyStep, DeleteKeyStep
  <1>4. ASSUME NEW link \in scope.picks, SetActive(link[1], link[2]) PROVE Inv'
    BY <1>4, QuietStep DEF SetActive
  <1>5. ASSUME NEW k \in scope.tasks,
               Start(k) \/ \E link \in scope.picks : StartAt(k, link)
        PROVE  Inv'
    <2>1. \E links : Begin(k, links)
      BY <1>5 DEF Start, StartAt
    <2> QED BY <1>0, <2>1, BeginStep
  <1>6. ASSUME NEW k \in scope.tasks, Again(k) \/ Leave(k) PROVE Inv'
    BY <1>0, <1>6, AgainStep, EndSteps
  <1>7. ASSUME NEW k \in scope.tasks, OwnStep(k) \/ ProviderStep(k) PROVE Inv'
    <2>0. k \in Call
      BY <1>0
    <2>1. CASE GiveUp(k)
      BY <2>0, <2>1, EndSteps
    <2>2. CASE Load(k)
      BY <2>0, <2>2, LoadStep
    <2>3. CASE \/ LoadFails(k) \/ Decrypt(k) \/ TransportError(k)
               \/ \E a \in scope.answers : Fallback(k, a)
      BY <2>0, <2>3, PassingSteps
    <2>4. CASE Success(k)
      BY <2>0, <2>4, SuccessStep
    <2>5. CASE Persist(k)
      BY <2>0, <2>5, PersistStep
    <2>6. CASE PersistFails(k)
      BY <2>0, <2>6, PersistFailsStep
    <2>7. ASSUME NEW a \in scope.answers, Rotate(k, a) \/ Abort(k, a) PROVE Inv'
      BY <2>0, <2>7, RotateStep, AbortStep
    <2> QED BY <1>7, <2>1, <2>2, <2>3, <2>4, <2>5, <2>6, <2>7 DEF OwnStep, ProviderStep
  <1> QED BY <1>1, <1>2, <1>3, <1>4, <1>5, <1>6, <1>7 DEF Next
-----------------------------------------------------------------------------
(* Voice requests.                                                         *)

Vendor == DOMAIN SttVendors \cup {AutoVendor}

\* Of any keys one comes first: the priorities are bounded below.
LEMMA FirstExists ==
  ASSUME NEW S \in SUBSET Cred, S # {}
  PROVE  \E c \in S : \A d \in S : Priority[c] <= Priority[d]
  <1>0. PICK low \in Int : low = LeastInt
    BY SMT DEF LeastInt
  <1> DEFINE Rank(c) == Priority[c] - low
             Ranks == {Rank(c) : c \in S}
             Less == {ss \in Nat \X Nat : ss[1] < ss[2]}
  <1>1. \A c \in Cred : Priority[c] \in Int /\ Priority[c] >= low
    BY <1>0, DispatchAssumption, VoiceAssumption
  <1>2. \A c \in S : Rank(c) \in Nat
    BY <1>1
  <1>3. Ranks \in SUBSET Nat /\ Ranks # {}
    BY <1>2
  <1>4. IsWellFoundedOn(Less, Nat)
    BY NatLessThanWellFounded, Zenon DEF OpToRel
  <1>5. PICK n \in Ranks : \A m \in Ranks : ~ (<<m, n>> \in Less)
    <2> HIDE DEF Ranks, Less
    <2> QED BY <1>3, <1>4, WFMin
  <1>6. PICK c \in S : n = Rank(c)
    OBVIOUS
  <1>7. ASSUME NEW d \in S PROVE Priority[c] <= Priority[d]
    <2>1. Rank(d) \in Ranks /\ Rank(d) \in Nat /\ n \in Nat
      BY <1>2, <1>6
    <2>2. ~(Rank(d) < n)
      BY <1>5, <2>1
    <2> QED BY <1>1, <1>6, <2>1, <2>2
  <1> QED BY <1>7

\* What configured_providers offers transcribes.
LEMMA FirstVendorIs ==
  ASSUME NEW keys \in SUBSET Cred
  PROVE  FirstVendor(keys) \in Vendor
  <1> DEFINE of == {c \in keys : ProviderOf[c] \in DOMAIN SttVendors}
  <1>1. of # {} => \E c \in of : \A d \in of : Priority[c] <= Priority[d]
    BY FirstExists
  <1>2. of # {} => (CHOOSE c \in of : \A d \in of : Priority[c] <= Priority[d]) \in of
    BY <1>1
  <1> QED BY <1>2 DEF FirstVendor, Vendor

\* The vendor a request works with was chosen while it ran.
Chosen(s) ==
    /\ s.vendor \in DOMAIN SttVendors
    /\ s.vendor \in s.settings \/ (AutoVendor \in s.settings /\ s.vendor \in s.derived)

\* What a request is sent for once it is sent.
SentRight(s) ==
    /\ ProviderOf[s.request.key] = s.vendor /\ s.request.key \notin s.dead
    /\ \A q \in DOMAIN SttVendors \ {s.vendor} : s.request.model # SttVendors[q].model

\* What a request must satisfy of itself.
Clean(s) ==
    /\ s \in ClipState
    /\ s.pc = "derive" => AutoVendor \in s.settings
    /\ s.pc \in {"open", "sent"} => Chosen(s)
    /\ s.pc = "sent" => SentRight(s)

\* And of the setting, the keys and the rows: its histories hold the present.
Current(s, set, der, keys, rows) ==
    s.pc # "idle" => /\ set \in s.settings /\ der \in s.derived
                     /\ \A c \in s.dead : c \in keys /\ rows[c].status = "dead"

ClipInv ==
    /\ setting \in Vendor /\ clip = [v \in Voice |-> clip[v]]
    /\ \A v \in Voice : Clean(clip[v]) /\ Current(clip[v], setting, Derived, Keys, row)

LEMMA NoClipIs == Clean(NoClip) /\ NoClip.pc = "idle"
  BY DEF NoClip, Clean, ClipState

\* What held since is added to the histories of every request that runs.
LEMMA SeenIs ==
  ASSUME NEW s, Clean(s), setting' \in Vendor, Derived' \in Vendor
  PROVE  Clean(Seen(s)) /\ Current(Seen(s), setting', Derived', Keys', row')
  <1>1. CASE s.pc = "idle"
    BY <1>1 DEF Seen, Current
  <1>2. CASE s.pc # "idle"
    <2> PICK A : A = s.settings \cup {setting'}
      OBVIOUS
    <2> PICK B : B = s.derived \cup {Derived'}
      OBVIOUS
    <2> PICK D : D = {c \in s.dead : c \in Keys' /\ row'[c].status = "dead"}
      OBVIOUS
    <2> DEFINE n == [s EXCEPT !.settings = A, !.derived = B, !.dead = D]
    <2>1. Seen(s) = n
      BY <1>2 DEF Seen
    <2>2. s \in ClipState
      BY DEF Clean
    <2>3. A \subseteq Provider \cup {AutoVendor} /\ B \subseteq Provider \cup {AutoVendor} /\ D \subseteq Cred
      BY <2>2, VoiceAssumption DEF ClipState, Vendor
    <2>4. /\ n \in ClipState /\ n.pc = s.pc /\ n.vendor = s.vendor /\ n.request = s.request
          /\ n.settings = A /\ n.derived = B /\ n.dead = D
      BY <2>2, <2>3 DEF ClipState
    <2> HIDE DEF n
    <2>5. Clean(n)
      BY <2>4 DEF Clean, Chosen, SentRight
    <2>6. Current(n, setting', Derived', Keys', row')
      BY <2>4 DEF Current
    <2> QED BY <2>1, <2>5, <2>6
  <1> QED BY <1>1, <1>2

\* So a step is right when the requests are clean afterwards.
LEMMA ClipsStep ==
  ASSUME Types', setting' \in Vendor, NEW new, Clips(new), \A v \in Voice : Clean(new[v])
  PROVE  ClipInv'
  <1>1. Derived' \in Vendor
    <2>1. StatusKeys' \in SUBSET Cred
      BY DEF StatusKeys, Types, Keys, Range
    <2> QED BY <2>1, FirstVendorIs DEF Derived
  <1>2. clip' = [v \in Voice |-> Seen(new[v])]
    BY DEF Clips
  <1>3. ASSUME NEW v \in Voice
        PROVE  Clean(clip'[v]) /\ Current(clip'[v], setting', Derived', Keys', row')
    BY <1>1, <1>2, SeenIs
  <1> QED BY <1>2, <1>3 DEF ClipInv

LEMMA ClipStep ==
  ASSUME Inv, ClipInv, NEW v \in Voice, NEW new, Clean(new), Clip(v, new)
  PROVE  Inv' /\ ClipInv'
  <1>1. Inv'
    BY QuietStep DEF Clip, vars
  <1>2. \A w \in Voice : Clean([clip EXCEPT ![v] = new][w])
    BY DEF ClipInv
  <1>3. setting' \in Vendor /\ Clips([clip EXCEPT ![v] = new])
    BY DEF ClipInv, Clip
  <1> QED BY <1>1, <1>2, <1>3, ClipsStep DEF Inv

LEMMA TranscribeStep ==
  ASSUME Inv, ClipInv, NEW v \in Voice, NEW m \in Asked, Transcribe(v, m)
  PROVE  Inv' /\ ClipInv'
  <1> PICK D : D = {c \in Keys : row[c].status = "dead"}
    OBVIOUS
  <1> DEFINE n == [NoClip EXCEPT !.pc = "checked", !.model = m, !.dead = D]
  <1>1. D \subseteq Cred
    BY KeysAreCreds DEF Inv
  <1>2. NoClip \in ClipState
    BY NoClipIs DEF Clean
  <1>3. n \in ClipState /\ n.pc = "checked"
    BY <1>1, <1>2 DEF ClipState
  <1>4. Clip(v, n)
    BY DEF Transcribe
  <1> HIDE DEF n
  <1> QED BY <1>3, <1>4, ClipStep DEF Clean

\* A request whose vendor is chosen goes on to open a key of it.
LEMMA ChosenStep ==
  ASSUME Inv, ClipInv, NEW v \in Voice, NEW p \in DOMAIN SttVendors,
         p \in clip[v].settings \/ (AutoVendor \in clip[v].settings /\ p \in clip[v].derived),
         Clip(v, [clip[v] EXCEPT !.pc = "open", !.vendor = p])
  PROVE  Inv' /\ ClipInv'
  <1> PICK s : s = clip[v]
    OBVIOUS
  <1> DEFINE n == [s EXCEPT !.pc = "open", !.vendor = p]
  <1>1. s \in ClipState /\ p \in Provider
    BY VoiceAssumption DEF ClipInv, Clean
  <1>2. /\ n \in ClipState /\ n.pc = "open" /\ n.vendor = p
        /\ n.settings = s.settings /\ n.derived = s.derived
    BY <1>1 DEF ClipState
  <1>3. Clip(v, n)
    OBVIOUS
  <1> HIDE DEF n
  <1>4. Clean(n)
    BY <1>2 DEF Clean, Chosen
  <1> QED BY <1>3, <1>4, ClipStep

LEMMA ReadSettingStep ==
  ASSUME Inv, ClipInv, NEW v \in Voice, ReadSetting(v)
  PROVE  Inv' /\ ClipInv'
  <1>0. clip[v].pc = "checked" /\ setting \in Vendor /\ setting \in clip[v].settings
    BY DEF ReadSetting, ClipInv, Current
  <1>1. CASE setting = AutoVendor
    <2> PICK s : s = clip[v]
      OBVIOUS
    <2> DEFINE n == [s EXCEPT !.pc = "derive"]
    <2>1. s \in ClipState
      BY DEF ClipInv, Clean
    <2>2. n \in ClipState /\ n.pc = "derive" /\ n.settings = s.settings
      BY <2>1 DEF ClipState
    <2>3. Clip(v, n)
      BY <1>1 DEF ReadSetting
    <2> HIDE DEF n
    <2>4. Clean(n)
      BY <1>0, <1>1, <2>2 DEF Clean
    <2> QED BY <2>3, <2>4, ClipStep
  <1>2. CASE setting # AutoVendor
    <2>1. setting \in DOMAIN SttVendors /\ Clip(v, [clip[v] EXCEPT !.pc = "open", !.vendor = setting])
      BY <1>0, <1>2 DEF ReadSetting, Vendor
    <2> QED BY <1>0, <2>1, ChosenStep
  <1> QED BY <1>1, <1>2

LEMMA EndingSteps ==
  ASSUME Inv, ClipInv, NEW v \in Voice, ReadFails(v) \/ Reply(v) \/ Clip(v, NoClip)
  PROVE  Inv' /\ ClipInv'
  <1>1. Clip(v, NoClip)
    BY DEF ReadFails, Unread, Reply
  <1> QED BY <1>1, NoClipIs, ClipStep

LEMMA DeriveStep ==
  ASSUME Inv, ClipInv, NEW v \in Voice, Derive(v)
  PROVE  Inv' /\ ClipInv'
  <1>0. /\ clip[v].pc = "derive" /\ AutoVendor \in clip[v].settings
        /\ Derived \in clip[v].derived
    BY DEF Derive, ClipInv, Clean, Current
  <1>1. CASE Derived = AutoVendor
    BY <1>1, EndingSteps DEF Derive
  <1>2. CASE Derived # AutoVendor
    <2>1. Derived \in Vendor
      <3>1. StatusKeys \in SUBSET Cred
        BY KeysAreCreds DEF StatusKeys, Inv
      <3> QED BY <3>1, FirstVendorIs DEF Derived
    <2>2. Derived \in DOMAIN SttVendors /\ Clip(v, [clip[v] EXCEPT !.pc = "open", !.vendor = Derived])
      BY <1>2, <2>1 DEF Derive, Vendor
    <2> QED BY <1>0, <2>2, ChosenStep
  <1> QED BY <1>1, <1>2

\* resolve_model never names another vendor's default.
LEMMA ModelForIs ==
  ASSUME NEW p \in DOMAIN SttVendors, NEW m \in Asked \cup {NoModel}
  PROVE  /\ ModelFor(p, m) \in Asked \cup Range([q \in DOMAIN SttVendors |-> SttVendors[q].model])
         /\ \A q \in DOMAIN SttVendors \ {p} : ModelFor(p, m) # SttVendors[q].model
  <1>1. SttVendors[p].model \in Range([q \in DOMAIN SttVendors |-> SttVendors[q].model])
    BY DEF Range
  <1>2. \A q \in DOMAIN SttVendors \ {p} : SttVendors[p].model # SttVendors[q].model
    BY VoiceAssumption
  <1> QED BY <1>1, <1>2 DEF ModelFor

LEMMA OpenKeyStep ==
  ASSUME Inv, ClipInv, NEW v \in Voice, OpenKey(v)
  PROVE  Inv' /\ ClipInv'
  <1> PICK s : s = clip[v]
    OBVIOUS
  <1>0. /\ s.pc = "open" /\ Clean(s) /\ s \in ClipState /\ Chosen(s)
        /\ \A c \in s.dead : row[c].status = "dead"
    BY DEF OpenKey, ClipInv, Clean, Current
  <1>1. CASE Clip(v, NoClip)
    BY <1>1, EndingSteps
  <1>2. ASSUME NEW c \in Openable(s.vendor),
               Clip(v, [s EXCEPT !.pc = "sent", !.request = Request(s.vendor, c, s.model)])
        PROVE  Inv' /\ ClipInv'
    <2>1. c \in StatusKeys /\ ProviderOf[c] = s.vendor
      BY DEF Openable
    <2>2. c \in Cred /\ c \notin s.dead
      BY <1>0, <2>1, KeysAreCreds DEF StatusKeys, Inv
    <2> PICK m : m = ModelFor(s.vendor, s.model)
      OBVIOUS
    <2>3. /\ m \in Asked \cup Range([q \in DOMAIN SttVendors |-> SttVendors[q].model])
          /\ \A q \in DOMAIN SttVendors \ {s.vendor} : m # SttVendors[q].model
      <3>1. s.vendor \in DOMAIN SttVendors /\ s.model \in Asked \cup {NoModel}
        BY <1>0 DEF Chosen, ClipState
      <3> QED BY <3>1, ModelForIs
    <2> PICK r : r = Request(s.vendor, c, s.model)
      OBVIOUS
    <2>4. PICK i : r = [key |-> c, model |-> m, instructed |-> i]
      BY DEF Request, Multipart, ChatAudio
    <2>5. r \in [key : Cred, model : Asked \cup Range([q \in DOMAIN SttVendors |-> SttVendors[q].model]),
                 instructed : BOOLEAN] /\ r.key = c /\ r.model = m
      <3>1. r.instructed \in BOOLEAN
        BY DEF Request, Multipart, ChatAudio
      <3> QED BY <2>2, <2>3, <2>4, <3>1
    <2> DEFINE n == [s EXCEPT !.pc = "sent", !.request = r]
    <2>6. /\ n \in ClipState /\ n.pc = "sent" /\ n.request = r /\ n.vendor = s.vendor
          /\ n.settings = s.settings /\ n.derived = s.derived /\ n.dead = s.dead
      BY <1>0, <2>5 DEF ClipState
    <2>7. Clip(v, n)
      BY <1>2
    <2> HIDE DEF n
    <2>8. Clean(n)
      BY <1>0, <2>1, <2>2, <2>3, <2>5, <2>6 DEF Clean, Chosen, SentRight
    <2> QED BY <2>7, <2>8, ClipStep
  <1> QED BY <1>1, <1>2 DEF OpenKey

LEMMA SetSttProviderStep ==
  ASSUME Inv, ClipInv, NEW p \in Vendor, SetSttProvider(p)
  PROVE  Inv' /\ ClipInv'
  <1>1. Inv' /\ setting' \in Vendor /\ Clips(clip)
    BY QuietStep DEF SetSttProvider, vars
  <1>2. \A v \in Voice : Clean(clip[v])
    BY DEF ClipInv
  <1> QED BY <1>1, <1>2, ClipsStep DEF Inv
-----------------------------------------------------------------------------
(* The theorems.                                                           *)

VoiceProofInv == Inv /\ ClipInv

LEMMA VoiceInitInv == VoiceInit => VoiceProofInv
  <1> SUFFICES ASSUME VoiceInit PROVE VoiceProofInv
    OBVIOUS
  <1>1. Inv
    BY InitInv DEF VoiceInit
  <1>2. ASSUME NEW v \in Voice PROVE clip[v] = NoClip
    BY DEF VoiceInit
  <1>3. ClipInv
    BY <1>2, NoClipIs DEF VoiceInit, ClipInv, Vendor, Current
  <1> QED BY <1>1, <1>3 DEF VoiceProofInv

LEMMA VoiceNextInv == VoiceProofInv /\ [VoiceNext]_allVars => VoiceProofInv'
  <1> SUFFICES ASSUME Inv, ClipInv, [VoiceNext]_allVars PROVE Inv' /\ ClipInv'
    BY DEF VoiceProofInv
  <1>0. scope.voices \subseteq Voice
    BY VoiceAssumption DEF Inv, Types
  <1>1. CASE UNCHANGED allVars
    <2>1. UNCHANGED <<vars, setting, clip>>
      BY <1>1 DEF allVars, voiceVars
    <2>2. Inv' /\ Derived' = Derived /\ Keys' = Keys
      BY <2>1, QuietStep DEF vars, Derived, StatusKeys, Keys
    <2> QED BY <2>1, <2>2 DEF ClipInv, vars
  <1>2. CASE Next /\ UNCHANGED setting /\ Clips(clip)
    <2>1. Inv' /\ setting' \in Vendor
      BY <1>2, NextInv DEF ClipInv
    <2>2. \A v \in Voice : Clean(clip[v])
      BY DEF ClipInv
    <2> QED BY <1>2, <2>1, <2>2, ClipsStep DEF Inv
  <1>3. ASSUME NEW v \in scope.voices,
               \/ ReadSetting(v) \/ ReadFails(v) \/ Derive(v) \/ OpenKey(v) \/ Reply(v)
               \/ \E m \in Asked : Transcribe(v, m)
        PROVE  Inv' /\ ClipInv'
    BY <1>0, <1>3, ReadSettingStep, EndingSteps, DeriveStep, OpenKeyStep, TranscribeStep
  <1>4. ASSUME NEW p \in Vendor, SetSttProvider(p) PROVE Inv' /\ ClipInv'
    BY <1>4, SetSttProviderStep
  <1> QED BY <1>1, <1>2, <1>3, <1>4 DEF VoiceNext, VoiceStep, Vendor

\* The invariant of the dispatcher and the voice route together: at every
\* moment the rows agree with the verdicts, every turn fits the table, and
\* every request's histories hold what it was given.
THEOREM VoiceInvariant == VoiceSpec => []VoiceProofInv
  BY VoiceInitInv, VoiceNextInv, PTL DEF VoiceSpec

\* A key recorded as dead stays dead unless an older pool put its cooldown
\* over it or it was saved anew, and no stored key is dead without a terminal
\* verdict on it (persist_transitions, put_key, delete_key, list_keys).
THEOREM VerdictsStay == VoiceSpec => []VerdictKept
  <1>1. VoiceProofInv => VerdictKept
    BY DEF VoiceProofInv, Inv
  <1> QED BY <1>1, VoiceInvariant, PTL

\* A turn does not use a key again before the cooldown its own rejection
\* asked for is over, as long as its record stands (select, Rotate).
THEOREM KeysAlwaysRest == VoiceSpec => []KeyRests
  <1>1. VoiceProofInv => KeyRests
    BY DEF VoiceProofInv, Inv, TurnsFit, Fits, Rested, KeyRests
  <1> QED BY <1>1, VoiceInvariant, PTL

\* A clip is sent to a vendor the tenant chose while the request ran, under a
\* model of that vendor and never under a key condemned before the request
\* (resolve_vendor, open_key, resolve_model).
THEOREM ClipsGoWhereChosen == VoiceSpec => []VoiceWhereChosen
  <1>1. VoiceProofInv => VoiceWhereChosen
    BY DEF VoiceProofInv, ClipInv, Clean, Chosen, SentRight, VoiceWhereChosen
  <1> QED BY <1>1, VoiceInvariant, PTL
=============================================================================
