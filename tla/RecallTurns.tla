---------------------------- MODULE RecallTurns ----------------------------
(***************************************************************************)
(* The turns of one tenant: what an agentic turn does around and inside    *)
(* run_turn (router/src/turn.rs), how it is admitted and billed            *)
(* (store/src/cost_repo.rs, app-server/src/recall.rs), and the WebSocket   *)
(* session that starts and cancels turns (app-server/src/wire/ws.rs,       *)
(* dispatch.rs, engine.rs).                                                *)
(*                                                                         *)
(* A turn is "sse" (run_recall_stream), "ws" (RecallTurnStarter) or        *)
(* "digest" (a digest or dream call: CostGuard, then the same drive()).    *)
(* They differ in the order of the same steps, see Path.  A provider call  *)
(* is its usage: the tokens the budget counts and their exact price.       *)
(***************************************************************************)
EXTENDS Integers, Sequences, FiniteSets

CONSTANTS
    Turn,           \* slots for turns in flight at once
    Mixes,          \* bound of the model: what kind of turn each slot runs
    Watched,        \* the slots whose end is checked
    Usage,          \* what a call may report: [tokens, price]
    MaxPrice,       \* price of the dearest call
    Unit,           \* price of one micro
    Budget,         \* QCUE_TURN_TOKEN_BUDGET
    MaxRounds,      \* QCUE_TURN_MAX_ROUNDS
    Cap,            \* tenants.daily_cost_cap_micros
    Permits,        \* MAX_CONCURRENT_RECALL_TURNS
    InflightCap,    \* WS_INFLIGHT_CAP
    MaxDays,        \* bound of the model: midnights and restarts
    NoTurn

ASSUME TurnsAssumption ==
    /\ IsFiniteSet(Turn) /\ NoTurn \notin Turn /\ Watched \subseteq Turn
    /\ Mixes \subseteq [Turn -> {"sse", "ws", "digest"}]
    /\ MaxPrice \in Nat /\ Usage \subseteq [tokens : Nat, price : 0..MaxPrice]
    /\ {Unit, Cap, Permits, InflightCap} \subseteq Nat \ {0}
    /\ {Budget, MaxRounds, MaxDays} \subseteq Nat

VARIABLES
    kind,       \* what each slot runs
    turn,       \* the turn in each slot, see TurnState
    rows,       \* cost_micros of today's tenant rows in cost_ledger
    billed,     \* history: what the turns accrued today add up to
    ws,         \* the tenant's WebSocket session, see Session
    days        \* midnights and restarts so far

vars == <<kind, turn, rows, billed, ws, days>>

SsePath == <<"check", "permit", "build", "ask", "run", "accrue", "answer", "say">>
WsPath == <<"build", "ask", "check", "permit", "run", "accrue", "answer", "say", "drain">>
DigestPath == <<"check", "run", "accrue">>
Path == [sse |-> SsePath, ws |-> WsPath, digest |-> DigestPath]
Pcs == {"check", "permit", "build", "ask", "run", "accrue", "insert", "answer", "say", "drain"}

TurnState == [
    pc : Pcs \cup {"idle"},
    round : 0..(MaxRounds + 1), tokens : Nat, price : Nat,     \* calls, total_usage
    permit : BOOLEAN,           \* holds one of recall_concurrency
    cancelled : BOOLEAN,        \* its CancellationToken
    attached : BOOLEAN,         \* its session still listens
    superseded : BOOLEAN ]      \* history: a later turn took current_cancel
Idle == [pc |-> "idle", round |-> 0, tokens |-> 0, price |-> 0, permit |-> FALSE,
         cancelled |-> FALSE, attached |-> FALSE, superseded |-> FALSE]

\* room is FALSE while the client reads nothing and the channels are full.
Session == [up : BOOLEAN, initialized : BOOLEAN, inflight : 0..InflightCap,
            current : Turn \cup {NoTurn}, dones : 0..InflightCap, room : BOOLEAN]
Down == [up |-> FALSE, initialized |-> FALSE, inflight |-> 0,
         current |-> NoTurn, dones |-> 0, room |-> TRUE]

TypeOK ==
    /\ kind \in Mixes
    /\ turn \in [Turn -> TurnState]
    /\ rows \in Seq(Nat) /\ billed \in Nat
    /\ ws \in Session /\ days \in 0..MaxDays

Init ==
    /\ kind \in Mixes
    /\ turn = [t \in Turn |-> Idle]
    /\ rows = <<>> /\ billed = 0
    /\ ws = Down /\ days = 0

----------------------------------------------------------------------------
(* The steps of a turn.                                                    *)

\* The stage of a path after another.
Following(p, at) ==
    LET i == CHOOSE j \in DOMAIN p : p[j] = at
    IN  IF i < Len(p) THEN p[i + 1] ELSE "idle"

After(t) == Following(Path[kind[t]], IF turn[t].pc = "insert" THEN "accrue" ELSE turn[t].pc)

\* A turn that ends tells its session, if that still listens, by `done`.
Ended(t) ==
    /\ turn' = [turn EXCEPT ![t] = Idle]
    /\ ws' = IF turn[t].attached THEN [ws EXCEPT !.dones = @ + 1] ELSE ws

\* Continue at where, or end.
Become(t, new) ==
    IF new.pc = "idle" THEN Ended(t)
    ELSE turn' = [turn EXCEPT ![t] = new] /\ UNCHANGED ws
GoTo(t, where) == Become(t, [turn[t] EXCEPT !.pc = where])

\* Variant: a refused turn starts over.
Retries(t) == GoTo(t, "check")

\* A refusal or an error: the SSE driver publishes it and closes the stream,
\* the WebSocket turn sends it, the digest returns it to the job.
Refused(t) == GoTo(t, IF kind[t] = "ws" THEN "say" ELSE "idle")

\* A turn of the SSE driver or of a job; a WebSocket starts its own, below.
Begin(t) ==
    /\ kind[t] # "ws" /\ turn[t].pc = "idle"
    /\ GoTo(t, "check")
    /\ UNCHANGED <<kind, rows, billed, days>>

\* sum(cost_micros), from the sums of the first n rows.
Sums(s) == LET sum[n \in 0..Len(s)] == IF n = 0 THEN 0 ELSE sum[n - 1] + s[n] IN sum
Total(s) == Sums(s)[Len(s)]

\* Variant: a tenant exactly at its cap passes.
PassesAtCap == Total(rows) <= Cap

\* check_ceiling; the user's row is never accrued, so its cap never binds.
UnderCeiling == Total(rows) < Cap

Check(t) ==
    /\ turn[t].pc = "check"
    /\ \/ UnderCeiling /\ GoTo(t, After(t))
       \/ Refused(t)                    \* over the cap, or the read failed
    /\ UNCHANGED <<kind, rows, billed, days>>

\* try_acquire.
Held == {t \in Turn : turn[t].permit}
Permit(t) ==
    /\ turn[t].pc = "permit"
    /\ IF Cardinality(Held) < Permits
       THEN Become(t, [turn[t] EXCEPT !.pc = After(t), !.permit = TRUE])
       ELSE Refused(t)
    /\ UNCHANGED <<kind, rows, billed, days>>

\* build_recall_request reads the wiki index and the stored history.
Build(t) ==
    /\ turn[t].pc = "build"
    /\ GoTo(t, After(t))
    /\ UNCHANGED <<kind, rows, billed, days>>

\* The question and the conversation's header are stored (best effort).
Ask(t) ==
    /\ turn[t].pc = "ask"
    /\ GoTo(t, After(t))
    /\ UNCHANGED <<kind, rows, billed, days>>

\* Budget::exhausted.
Exhausted(s) == s.tokens >= Budget \/ s.round >= MaxRounds

\* Whether the loop goes round again after a call: it asked for tools and was
\* not the finalizing call, which offers none.
Continues(s, tools) == tools /\ ~Exhausted(s)

\* total_usage and tick_round after a call.
Counts(s, u) == [s EXCEPT !.tokens = @ + u.tokens, !.price = @ + u.price, !.round = @ + 1]

\* One pass of run_turn's loop.
Round(t) ==
    /\ turn[t].pc = "run"
    /\ \E u \in Usage, tools \in BOOLEAN :
         Become(t, [Counts(turn[t], u) EXCEPT
                      !.pc = IF Continues(turn[t], tools) THEN "run" ELSE "accrue"])
    /\ UNCHANGED <<kind, rows, billed, days>>

\* The dispatcher gave up: the usage of the rounds before is not billed.
ProviderFails(t) ==
    /\ turn[t].pc = "run"
    /\ Refused(t)
    /\ UNCHANGED <<kind, rows, billed, days>>

\* tokio::select!: a cancelled turn is dropped wherever drive() awaits, its
\* usage with it, unless it gets to its end first.
Interrupted(t) ==
    /\ turn[t].cancelled /\ turn[t].pc \in {"run", "accrue", "insert"}
    /\ GoTo(t, "say")
    /\ UNCHANGED <<kind, rows, billed, days>>

\* cost_micros rounds the price of the whole turn.
Micros(price) == (price + Unit \div 2) \div Unit

\* Variant: the UPDATE sets the cost.
Overwritten(cost) == [i \in DOMAIN rows |-> cost]

\* The UPDATE of accrue_tenant reaches every tenant row of the day.
Updated(cost) == [i \in DOMAIN rows |-> rows[i] + cost]

\* accrue_turn_cost: nothing for an empty turn; UPDATE, and when it met no
\* row an INSERT, which is a statement of its own.
Accrue(t) ==
    LET cost == Micros(turn[t].price)
        empty == turn[t].tokens = 0 /\ turn[t].price = 0 IN
    /\ turn[t].pc = "accrue"
    /\ IF empty \/ rows # <<>>
       THEN /\ rows' = IF empty THEN rows ELSE Updated(cost)
            /\ billed' = billed + cost
            /\ GoTo(t, After(t))
       ELSE GoTo(t, "insert") /\ UNCHANGED <<rows, billed>>
    /\ UNCHANGED <<kind, days>>

Insert(t) ==
    LET cost == Micros(turn[t].price) IN
    /\ turn[t].pc = "insert"
    /\ rows' = Append(rows, cost)
    /\ billed' = billed + cost
    /\ GoTo(t, After(t))
    /\ UNCHANGED <<kind, days>>

\* A ledger error is logged and dropped.
AccrueFails(t) ==
    /\ turn[t].pc \in {"accrue", "insert"}
    /\ GoTo(t, After(t))
    /\ UNCHANGED <<kind, rows, billed, days>>

\* insert_assistant (best effort).
Answer(t) ==
    /\ turn[t].pc = "answer"
    /\ GoTo(t, After(t))
    /\ UNCHANGED <<kind, rows, billed, days>>

Flows(t) == ws.room \/ ~turn[t].attached

\* The last events.  The hub never blocks; the channel of a WebSocket turn
\* may be full of the events of its rounds, and then the turn waits here with
\* its permit.
Say(t) ==
    /\ turn[t].pc = "say"
    /\ kind[t] = "ws" /\ turn[t].round > 0 => Flows(t)
    /\ Become(t, [turn[t] EXCEPT !.pc = After(t), !.permit = FALSE])
    /\ UNCHANGED <<kind, rows, billed, days>>

\* The task that copies a turn's events to the session copies the last one.
Drain(t) ==
    /\ turn[t].pc = "drain" /\ Flows(t)
    /\ GoTo(t, After(t))
    /\ UNCHANGED <<kind, rows, billed, days>>

----------------------------------------------------------------------------
(* The WebSocket session.                                                  *)

Connect ==
    /\ ~ws.up
    /\ ws' = [Down EXCEPT !.up = TRUE]
    /\ UNCHANGED <<kind, turn, rows, billed, days>>

Initialize ==
    /\ ws.up /\ ~ws.initialized /\ ws.room
    /\ ws' = [ws EXCEPT !.initialized = TRUE]
    /\ UNCHANGED <<kind, turn, rows, billed, days>>

\* A frame is read when no `done` is waiting (the select is biased) and the
\* answer to the frame before it could be sent.
Accepts == ws.up /\ ws.initialized /\ ws.room /\ ws.dones = 0 /\ ws.inflight < InflightCap

\* turn/start and turn/steer.
TurnStart(t) ==
    /\ Accepts /\ kind[t] = "ws" /\ turn[t].pc = "idle"
    /\ turn' = [u \in Turn |->
         IF u = t THEN [Idle EXCEPT !.pc = "build", !.attached = TRUE]
         ELSE IF u = ws.current /\ turn[u].attached THEN [turn[u] EXCEPT !.superseded = TRUE]
         ELSE turn[u]]
    /\ ws' = [ws EXCEPT !.inflight = @ + 1, !.current = t]
    /\ UNCHANGED <<kind, rows, billed, days>>

\* current_cancel.take() and cancel(); a token of a turn that has ended is inert.
Cancelled ==
    [u \in Turn |-> IF u = ws.current /\ turn[u].attached
                    THEN [turn[u] EXCEPT !.cancelled = TRUE] ELSE turn[u]]

\* Variant: the slot of the interrupt itself is not given back.
KeepsSlot == [ws EXCEPT !.current = NoTurn, !.inflight = @ + 1]

\* turn/interrupt takes a slot and gives it back at once.
InterruptDone == [ws EXCEPT !.current = NoTurn]
Interrupt ==
    /\ Accepts
    /\ turn' = Cancelled /\ ws' = InterruptDone
    /\ UNCHANGED <<kind, rows, billed, days>>

\* complete_one.
Done ==
    /\ ws.up /\ ws.dones > 0
    /\ ws' = [ws EXCEPT !.dones = @ - 1, !.inflight = IF @ > 0 THEN @ - 1 ELSE 0]
    /\ UNCHANGED <<kind, turn, rows, billed, days>>

\* Variant: a session that ends cancels nothing.
LeavesTurns == turn

\* The session ends: the current turn is cancelled, the others run on.
TurnsAtEnd == Cancelled
Disconnect ==
    /\ ws.up
    /\ turn' = [u \in Turn |-> [TurnsAtEnd[u] EXCEPT !.attached = FALSE]]
    /\ ws' = Down
    /\ UNCHANGED <<kind, rows, billed, days>>

\* The client stops reading until the channels are full, or reads again.
Stall == ws.up /\ ws' = [ws EXCEPT !.room = ~@] /\ UNCHANGED <<kind, turn, rows, billed, days>>

----------------------------------------------------------------------------
(* The world.                                                              *)

\* current_date moves on: today's rows are other rows.
Midnight ==
    /\ days < MaxDays /\ days' = days + 1
    /\ rows' = <<>> /\ billed' = 0
    /\ UNCHANGED <<kind, turn, ws>>

\* The process dies: turns, permits and sessions are gone, the ledger stays.
Restart ==
    /\ days < MaxDays /\ days' = days + 1
    /\ turn' = [t \in Turn |-> Idle] /\ ws' = Down
    /\ UNCHANGED <<kind, rows, billed>>

\* The calls RouterWikiLlm::drive makes: each waits for a provider.
Drive(t) == Round(t) \/ ProviderFails(t)

\* The steps that wait for nobody but the client of the session.
OwnStep(t) ==
    \/ Check(t) \/ Permit(t) \/ Build(t) \/ Ask(t) \/ Accrue(t) \/ Insert(t) \/ AccrueFails(t)
    \/ Interrupted(t) \/ Answer(t) \/ Say(t) \/ Drain(t)

TurnStep(t) == OwnStep(t) \/ Drive(t)

Next ==
    \/ \E t \in Turn : Begin(t) \/ TurnStep(t) \/ TurnStart(t)
    \/ Connect \/ Initialize \/ Interrupt \/ Done \/ Disconnect \/ Stall
    \/ Midnight \/ Restart

Spec == Init /\ [][Next]_vars

\* No request to a provider has a timeout for its answer: a round is not fair.
FairSpec == Spec /\ \A t \in Watched : WF_vars(OwnStep(t))

----------------------------------------------------------------------------
(* Properties.                                                             *)

MaxTurnMicros == Micros((MaxRounds + 1) * MaxPrice)

\* The daily ceiling holds up to the turns in flight: the check comes first
\* and the accrual last, so each slot may add one whole turn, and no more.
SpendBounded == billed <= (Cap - 1) + Cardinality(Turn) * MaxTurnMicros

\* The ledger never under-reports what was accrued, and is exact unless two
\* first accruals of a day both inserted a row.
LedgerExact == Total(rows) >= billed /\ (Len(rows) <= 1 => Total(rows) = billed)

\* The session's inflight count is its turns that run and the ends it has not
\* read yet: no slot leaks, and none is given back twice.
SlotsMatchTurns ==
    ws.up => ws.inflight = ws.dones + Cardinality({t \in Turn : turn[t].attached})

\* A turn that outlives its session was cancelled, or a later turn/start or
\* turn/steer of that session had taken the place of its token.
OnlySupersededOutlive ==
    \A t \in Turn : kind[t] = "ws" /\ turn[t].pc # "idle" /\ ~turn[t].attached =>
        turn[t].cancelled \/ turn[t].superseded

\* Every turn ends and returns its permit, unless the client of its session
\* stopped reading, or one call of the turn is never answered and nobody cancels
\* the turn: it never goes on for ever by itself.
Hangs(t, n) == turn[t].pc = "run" /\ turn[t].round = n /\ ~turn[t].cancelled
TurnEnds == \A t \in Watched :
    \/ []<>(turn[t].pc = "idle" \/ (turn[t].attached /\ ~ws.room))
    \/ \E n \in 0..MaxRounds : <>[]Hangs(t, n)

----------------------------------------------------------------------------
(* The inductive invariant behind the four invariants above.               *)

Stages(k) == {Path[k][j] : j \in DOMAIN Path[k]} \cup {"insert"}

\* A slot that runs is at a stage of its kind, with a price its calls explain;
\* only a turn of the session is listened to and can be cancelled.
Fits(k, s) ==
    /\ s \in TurnState
    /\ IF s.pc = "idle" THEN s = Idle ELSE s.pc \in Stages(k)
    /\ s.pc \in {"check", "permit", "build", "ask"} => s.round = 0
    /\ s.pc = "run" => s.round <= MaxRounds
    /\ s.price <= s.round * MaxPrice
    /\ s.attached \/ s.cancelled => k = "ws"
SlotsFit == \A t \in Turn : Fits(kind[t], turn[t])

\* A session that is down has no turns; one that is up counts them all.
SlotsCounted ==
    /\ ws.up => ws.inflight = ws.dones + Cardinality({t \in Turn : turn[t].attached})
    /\ ~ws.up => ws = Down /\ \A t \in Turn : ~turn[t].attached

\* The session can still cancel a turn it listens to, or has, or has let go of
\* its token.
TokensKept == \A t \in Turn : kind[t] = "ws" /\ turn[t].pc # "idle" =>
    \/ turn[t].attached /\ t = ws.current
    \/ turn[t].cancelled
    \/ turn[t].superseded

\* Turns that passed the ceiling and may still be billed.
Committed == {t \in Turn :
    \/ turn[t].pc \in {"permit", "run", "accrue", "insert"}
    \/ kind[t] = "sse" /\ turn[t].pc \in {"build", "ask"}}

\* Each committed turn has room for one whole turn below the bound.
Reserved ==
    billed + Cardinality(Committed) * MaxTurnMicros
        <= (Cap - 1) + Cardinality(Turn) * MaxTurnMicros

RecallInv ==
    /\ kind \in Mixes /\ ws \in Session /\ days \in 0..MaxDays
    /\ rows \in Seq(Nat) /\ billed \in Nat
    /\ turn \in [Turn -> TurnState]
    /\ SlotsFit /\ SlotsCounted /\ TokensKept /\ LedgerExact /\ Reserved
=============================================================================
