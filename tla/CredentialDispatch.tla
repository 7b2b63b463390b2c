------------------------- MODULE CredentialDispatch -------------------------
(***************************************************************************)
(* Provider calls of one tenant: HttpDispatch::complete (router crate) over *)
(* the credentials in the table provider_credentials (DbVaultResolver), the *)
(* key vault's requests and the model picker.                              *)
(*                                                                         *)
(* Several calls run at once.  Each iteration of a call reloads the pool,  *)
(* picks a key, decrypts it in a second transaction, sends, and writes the *)
(* WHOLE in-memory pool back; nothing is locked in between, so the pool a  *)
(* call writes back may be older than the rows it lands on.                *)
(*                                                                         *)
(* A credential is a (provider, key_hint) slot: the table is unique on it, *)
(* and key_hint is the last three characters of the key.                   *)
(***************************************************************************)
EXTENDS ProviderRoutes, FiniteSets

CONSTANTS
    Cred,           \* (provider, key_hint) slots
    ProviderOf,     \* the provider of a slot
    Priority,       \* the priority column of a slot
    Scopes,         \* bounds of the model: what one behaviour uses, see scope
    Call,           \* concurrent turns
    Watched,        \* the turns whose return is checked (they are interchangeable)
    Answer,         \* answers a provider may give: [status, signals, hint]
    TtlAuth, Ttl,   \* ttl_for_status: 401 and everything else
    MaxCooldown,    \* MAX_COOLDOWN_MS
    MaxAttempts,    \* max_attempts of complete()
    MaxNow,         \* bound of the model: clock ticks
    NoModel, NoCred

ASSUME DispatchAssumption ==
    /\ ProviderOf \in [Cred -> Provider] /\ Priority \in [Cred -> Int]
    /\ NoCred \notin Cred /\ NoModel \notin Model
    /\ TtlAuth \in Nat /\ Ttl \in Nat /\ MaxCooldown \in Nat
    /\ MaxAttempts \in Nat \ {0} /\ MaxNow \in Nat
    /\ Answer \subseteq AnswerType /\ Watched \subseteq Call
    /\ \A s \in Scopes : /\ s.keys \in Seq(Cred) /\ IsInjective(s.keys)
                         /\ s.tasks \subseteq Call /\ s.answers \subseteq Answer
                         /\ s.picks \subseteq Link /\ s.ticks \in 0..MaxNow

VARIABLES
    scope,      \* the tenant's keys (a sequence, oldest first), its turns, what its
                \* providers answer, what it may pick, and how far the clock runs
    added,      \* the filled slots in the order of created_at
    row,        \* [status, until] of each slot's row (cooldown_until)
    picks,      \* session_kv model:<provider>
    now,        \* the clock
    call,       \* the turn of each task, see CallState
    verdict     \* history: what is known of the key in each slot, see Verdict

table == <<scope, added, row, picks>>
vars  == <<scope, added, row, picks, now, call, verdict>>

Entry == [status : {"ok", "exhausted", "dead"}, until : 0..(MaxNow + MaxCooldown)]
Fresh == [status |-> "ok", until |-> 0]
Keys == Range(added)

\* "terminal": a terminal auth answer on it was recorded; "lifted": it was,
\* and a write-back of an older pool put a cooldown over it; "raced": the key
\* was saved while a call still held the slot's older entry.
Verdict == {"none", "terminal", "lifted", "raced"}

\* complete() and the FallbackChain it works on.  The last two
\* fields are history: the answer was a terminal auth error, and until when
\* this turn's own rejection of a key, as recorded, asks the key to rest; 0
\* once the record was lost or rewritten by someone else.
Busy == {"load", "decrypt", "sent", "persist"}
CallState == [
    pc : Busy \cup {"idle", "answered"},
    chain : Seq(Link), idx : Nat,
    attempts : 0..MaxAttempts,              \* iterations of this complete()
    pool : UNION {[S -> Entry] : S \in SUBSET Cred},
    cred : Cred \cup {NoCred},              \* the slot select() chose
    now0 : 0..MaxNow,                       \* now_ms of the iteration
    then : {"retry", "advance", "answered", "idle"},    \* after the write-back
    condemned : BOOLEAN,
    rest : [Cred -> 0..(MaxNow + MaxCooldown)] ]
Idle == [pc |-> "idle", chain |-> <<>>, idx |-> 1, attempts |-> 0, pool |-> <<>>,
         cred |-> NoCred, now0 |-> 0, then |-> "idle",
         condemned |-> FALSE, rest |-> [c \in Cred |-> 0]]

TypeOK ==
    /\ scope \in Scopes
    /\ Keys \subseteq Cred /\ Len(added) = Cardinality(Keys)
    /\ row \in [Cred -> Entry]
    /\ picks \in [Provider -> Model \cup {NoModel}]
    /\ now \in 0..MaxNow
    /\ \A k \in Call : call[k] \in CallState
    /\ \A k \in Call : call[k].pc \in Busy => call[k].idx \in DOMAIN call[k].chain
    /\ verdict \in [Cred -> Verdict]

Init ==
    /\ scope \in Scopes /\ added = scope.keys
    /\ row = [c \in Cred |-> Fresh]
    /\ picks = [p \in Provider |-> NoModel]
    /\ now = 0
    /\ call = [k \in Call |-> Idle]
    /\ verdict = [c \in Cred |-> "none"]

Tick == now < scope.ticks /\ now' = now + 1 /\ UNCHANGED <<table, call, verdict>>

----------------------------------------------------------------------------
(* The vault and the model picker.                                         *)

\* The rows of S change under every turn that recorded a rejection there.
Forget(S) == [k \in Call |-> [call[k] EXCEPT
                 !.rest = [c \in Cred |-> IF c \in S THEN 0 ELSE @[c]]]]

\* put_key: an upsert on (provider, key_hint); created_at is that of the
\* first insert, status and cooldown start over.
PutKey(c) ==
    /\ added' = IF c \in Keys THEN added ELSE Append(added, c)
    /\ row' = [row EXCEPT ![c] = Fresh]
    /\ call' = Forget({c})
    /\ verdict' = [verdict EXCEPT ![c] =
                     IF \E k \in Call : c \in DOMAIN call[k].pool THEN "raced" ELSE "none"]
    /\ UNCHANGED <<scope, picks, now>>

\* list_keys heals every row whose cooldown has passed before it reads.
Elapsed(c) == row[c].status = "exhausted" /\ row[c].until <= now
ListKeys ==
    /\ row' = [c \in Cred |-> IF c \in Keys /\ Elapsed(c) THEN Fresh ELSE row[c]]
    /\ UNCHANGED <<scope, added, picks, now, call, verdict>>

DeleteKey(c) ==
    /\ \E i \in DOMAIN added : added[i] = c /\ added' = RemoveAt(added, i)
    /\ row' = [row EXCEPT ![c] = Fresh]
    /\ verdict' = [verdict EXCEPT ![c] = "none"]
    /\ UNCHANGED <<scope, picks, now, call>>

SetActive(p, x) ==
    /\ x \in Routable[p]
    /\ picks' = [picks EXCEPT ![p] = x]
    /\ UNCHANGED <<scope, added, row, now, call, verdict>>

----------------------------------------------------------------------------
(* A turn: build_harness_for and the calls it makes.                       *)

\* GROUP BY provider ORDER BY MAX(created_at) DESC.
NewestOf(p) == CHOOSE i \in DOMAIN added :
    /\ ProviderOf[added[i]] = p
    /\ \A j \in DOMAIN added : ProviderOf[added[j]] = p => j <= i
Keyed == SetToSortSeq({ProviderOf[c] : c \in Keys}, LAMBDA p, q : NewestOf(p) > NewestOf(q))

Update(k, new) == call' = [call EXCEPT ![k] = new]
To(k, where) == [call[k] EXCEPT !.pc = where]

Begin(k, links) ==
    /\ call[k].pc = "idle"
    /\ Update(k, [Idle EXCEPT !.pc = "load", !.chain = links])
    /\ UNCHANGED <<table, now, verdict>>

\* build_harness_for: the tenant's own route.
Start(k) == LET r == TenantRoute(Keyed, picks) IN Begin(k, Chain(r.root, r.others))

\* build_harness_for_route: the picker of the recall screen names the root.
StartAt(k, link) ==
    /\ link[1] \in Range(Keyed) /\ link[2] \in Routable[link[1]]
    /\ Begin(k, Chain(link, TenantRoute(Keyed, picks).others))

\* advance_chain, or the error that ends the turn.
Advanced(s) == IF s.idx < Len(s.chain)
               THEN [s EXCEPT !.pc = "load", !.idx = @ + 1, !.pool = <<>>, !.cred = NoCred, !.now0 = 0]
               ELSE Idle

Here(k) == call[k].chain[call[k].idx][1]
PoolRows(k) == {c \in Keys : ProviderOf[c] = Here(k)}
Eligible(e, t) == e.status = "ok" \/ (e.status = "exhausted" /\ t >= e.until)

\* CredentialPool::select under FillFirst: ties in priority keep the order
\* the rows came in, which the query leaves open.
Selectable(p, t) ==
    LET fit == {c \in DOMAIN p : Eligible(p[c], t)} IN
    {c \in fit : \A d \in fit : Priority[c] <= Priority[d]}

\* Variant: an iteration is not counted.
CountNothing(s) == s

\* attempts += 1 at the top of the loop.
Counted(s) == [s EXCEPT !.attempts = @ + 1]

\* The cap: a chain that cannot settle gives up with the last error.
GiveUp(k) ==
    /\ call[k].pc = "load" /\ call[k].attempts >= MaxAttempts
    /\ Update(k, Idle)
    /\ UNCHANGED <<table, now, verdict>>

\* pool_for and select: one transaction, then the clock is read.
Load(k) ==
    LET p == [c \in PoolRows(k) |-> row[c]] IN
    /\ call[k].pc = "load" /\ call[k].attempts < MaxAttempts
    /\ \/ \E c \in Selectable(p, now) :
            Update(k, [Counted(call[k]) EXCEPT !.pc = "decrypt", !.pool = p, !.cred = c, !.now0 = now])
       \/ /\ Selectable(p, now) = {}    \* no row, or none eligible
          /\ Update(k, Advanced(Counted(call[k])))
    /\ UNCHANGED <<table, now, verdict>>

\* A database error in pool_for reads like a provider without keys.
LoadFails(k) ==
    /\ call[k].pc = "load" /\ call[k].attempts < MaxAttempts
    /\ Update(k, Advanced(Counted(call[k])))
    /\ UNCHANGED <<table, now, verdict>>

\* decrypt reads the row again: it may be gone by now.
Opens(c) == c \in Keys

Decrypt(k) ==
    /\ call[k].pc = "decrypt"
    /\ Update(k, IF Opens(call[k].cred) THEN To(k, "sent") ELSE Advanced(call[k]))
    /\ UNCHANGED <<table, now, verdict>>

\* send() failed: no status, straight to the next link.
TransportError(k) ==
    /\ call[k].pc = "sent"
    /\ Update(k, Advanced(call[k]))
    /\ UNCHANGED <<table, now, verdict>>

\* The iteration is over: the pool and the selection are dropped.
Landed(s, where) ==
    IF where = "idle" THEN Idle
    ELSE [s EXCEPT !.pc = where, !.pool = <<>>, !.cred = NoCred, !.now0 = 0, !.then = "idle"]

\* A 2xx answer: mark_ok, and a write-back only when that healed the key.
\* The body may fail to decode, which ends the turn.
Success(k) ==
    /\ call[k].pc = "sent"
    /\ \E end \in {"answered", "idle"} :
         Update(k, IF call[k].pool[call[k].cred].status = "exhausted"
                   THEN [call[k] EXCEPT !.pc = "persist", !.then = end, !.pool[call[k].cred] = Fresh]
                   ELSE Landed(call[k], end))
    /\ UNCHANGED <<table, now, verdict>>

TtlFor(status) == IF status = 401 THEN TtlAuth ELSE Ttl
Wanted(a, t) == t + (IF a.hint = NoHint THEN TtlFor(a.status) ELSE a.hint)

\* The end of the cooldown in mark_exhausted_and_rotate.
CooldownEnd(a, t) == IF Wanted(a, t) < t + MaxCooldown THEN Wanted(a, t) ELSE t + MaxCooldown

\* Rotate: penalise the key, see whether the pool has another, write back.
Rotate(k, a) ==
    LET s == call[k]
        until == CooldownEnd(a, s.now0)
        p == [s.pool EXCEPT ![s.cred] = [status |-> "exhausted", until |-> until]] IN
    /\ s.pc = "sent" /\ ActionFor(Reason(a)) = "Rotate"
    /\ Update(k, [s EXCEPT !.pc = "persist", !.pool = p,
                           !.then = IF Selectable(p, s.now0) # {} THEN "retry" ELSE "advance",
                           !.rest[s.cred] = until])
    /\ UNCHANGED <<table, now, verdict>>

Fallback(k, a) ==
    /\ call[k].pc = "sent" /\ ActionFor(Reason(a)) \in {"Fallback", "Compress"}
    /\ Update(k, Advanced(call[k]))
    /\ UNCHANGED <<table, now, verdict>>

\* Only a terminal auth answer makes the key dead.
Terminal(a) == Reason(a) = "AuthPermanent"

Abort(k, a) ==
    /\ call[k].pc = "sent" /\ ActionFor(Reason(a)) = "Abort"
    /\ Update(k, IF Terminal(a)
                 THEN [call[k] EXCEPT !.pc = "persist", !.then = "idle",
                                      !.condemned = Reason(a) = "AuthPermanent",
                                      !.pool[call[k].cred] = [status |-> "dead", until |-> 0]]
                 ELSE Idle)
    /\ UNCHANGED <<table, now, verdict>>

Cooling(until) == [status |-> "exhausted", until |-> now + (IF until > now THEN until - now ELSE 0)]

\* Variant: the healing write is not limited to exhausted rows.
HealsAll(r, e) ==
    CASE e.status = "dead" -> e
      [] e.status = "exhausted" -> Cooling(e.until)
      [] e.status = "ok" -> Fresh

\* Variant: a cooldown stays in memory.
CoolsInMemory(r, e) ==
    CASE e.status = "dead" -> e
      [] e.status = "exhausted" -> r
      [] e.status = "ok" -> IF r.status = "exhausted" THEN Fresh ELSE r

\* persist_transitions for one row r and its pool entry e.
RowAfter(r, e) ==
    CASE e.status = "dead" -> e
      [] e.status = "exhausted" -> Cooling(e.until)     \* whatever the row says
      [] e.status = "ok" -> IF r.status = "exhausted" THEN Fresh ELSE r

\* After the write-back: the same link again, the next one, or the end.
Continued(s) ==
    CASE s.then = "retry" -> Landed(s, "load")
      [] s.then = "advance" -> Advanced([s EXCEPT !.then = "idle"])
      [] OTHER -> Landed(s, s.then)

Persist(k) ==
    LET s == call[k]
        hit == {c \in PoolRows(k) : c \in DOMAIN s.pool}
        after == [c \in Cred |-> IF c \in hit THEN RowAfter(row[c], s.pool[c]) ELSE row[c]] IN
    /\ s.pc = "persist"
    /\ row' = after
    /\ call' = [Forget({c \in hit : after[c] # row[c]}) EXCEPT ![k] = Continued(s)]
    /\ verdict' = [c \in Cred |->
           IF c \in hit /\ c = s.cred /\ s.condemned THEN "terminal"
           ELSE IF c \in hit /\ row[c].status = "dead" /\ s.pool[c].status = "exhausted"
           THEN "lifted" ELSE verdict[c]]
    /\ UNCHANGED <<scope, added, picks, now>>

\* The write-back is best effort: an error changes nothing and is dropped.
PersistFails(k) ==
    /\ call[k].pc = "persist"
    /\ Update(k, IF Continued(call[k]) = Idle THEN Idle
                 ELSE [Continued(call[k]) EXCEPT !.rest[call[k].cred] = 0])
    /\ UNCHANGED <<table, now, verdict>>

\* The turn loop calls complete() again, on the chain where it stands.
Again(k) ==
    /\ call[k].pc = "answered"
    /\ Update(k, [call[k] EXCEPT !.pc = "load", !.attempts = 0])
    /\ UNCHANGED <<table, now, verdict>>

\* The turn ends; or its task is dropped, or the process dies, and what it
\* had not written is lost.
Leave(k) ==
    /\ call[k].pc # "idle"
    /\ Update(k, Idle)
    /\ UNCHANGED <<table, now, verdict>>

\* What complete() does by itself, and what it waits for the provider to do.
OwnStep(k) == GiveUp(k) \/ Load(k) \/ LoadFails(k) \/ Decrypt(k) \/ Persist(k) \/ PersistFails(k)
ProviderStep(k) ==
    \/ TransportError(k) \/ Success(k)
    \/ \E a \in scope.answers : Rotate(k, a) \/ Fallback(k, a) \/ Abort(k, a)

Next ==
    \/ Tick \/ ListKeys
    \/ \E c \in Range(scope.keys) : PutKey(c) \/ DeleteKey(c)
    \/ \E link \in scope.picks : SetActive(link[1], link[2])
    \/ \E k \in scope.tasks :
         \/ Start(k) \/ OwnStep(k) \/ ProviderStep(k) \/ Again(k) \/ Leave(k)
         \/ \E link \in scope.picks : StartAt(k, link)

Spec == Init /\ [][Next]_vars

\* The client has a timeout for the connection and none for the answer, so a
\* request may wait for ever: only the steps of the code itself are fair.
FairSpec == Spec /\ \A k \in Watched : WF_vars(OwnStep(k))

----------------------------------------------------------------------------
(* Properties.                                                             *)

\* Verdict and record agree: a key recorded as dead is still dead, unless a
\* call whose pool is older put its cooldown over it (the exhausted write of
\* persist_transitions has no status condition) or it was saved anew; and no
\* key is dead without a terminal verdict on the key that is stored, unless it
\* was saved while a call was still using the key it replaced.
VerdictKept ==
    /\ \A c \in Cred : verdict[c] = "terminal" => row[c].status = "dead"
    /\ \A c \in Keys : row[c].status = "dead" => verdict[c] # "none"

\* A turn never uses a key again before the cooldown its own rejection asked
\* for is over, unless the record was lost or another actor rewrote the row.
KeyRests ==
    \A k \in Call : call[k].pc \in {"decrypt", "sent"} =>
        call[k].now0 >= call[k].rest[call[k].cred]

\* complete() returns, even when every key keeps answering "retry at once", or
\* it waits for ever for the answer to one request: it never goes round for ever.
CallReturns == \A k \in Watched : []<>(call[k].pc \notin Busy) \/ <>[](call[k].pc = "sent")
=============================================================================
