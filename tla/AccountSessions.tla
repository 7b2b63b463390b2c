-------------------------- MODULE AccountSessions --------------------------
(***************************************************************************)
(* The account behind one email address and its sessions: sign-up, login,  *)
(* magic links, federated sign-in, refresh, logout and deletion            *)
(* (qcue-rs/app-server/src/auth, account, tenancy), called by the auth     *)
(* repository of the devices (qcue_app/lib/features/auth).                 *)
(*                                                                         *)
(* A handler is a sequence of transactions on the narrow auth pool; the    *)
(* steps of concurrent handlers interleave.  An access token and a refresh *)
(* token are always issued, stored and replaced as a pair, and each has a  *)
(* row in `sessions`.  The tokens here are ones the server minted, so that *)
(* their signature, issuer and audience pass.                              *)
(***************************************************************************)
EXTENDS Naturals, FiniteSets, Sequences

CONSTANTS
    Device,         \* app installations of the one user
    Slots,          \* bound of the model: handlers that run at the same time
    MaxAccount,     \* bound of the model: accounts ever created
    MaxPair,        \* bound of the model: token pairs ever issued
    MaxLost,        \* bound of the model: connections and statements that fail
    Mixes           \* the sets of request kinds to explore together

Req == 1..Slots
Account == 1..MaxAccount
Pair == 1..MaxPair
SignIn == {"signup", "login", "social", "oidc", "magic"}
Kind == SignIn \cup {"refresh", "logout", "delete", "capture"}
Kinds == Kind \cup {"none", "ingest"}

ASSUME AccountAssumption ==
    /\ Device # {} /\ Slots \in Nat \ {0} /\ MaxAccount \in Nat \ {0} /\ MaxPair \in Nat
    /\ MaxLost \in Nat
    /\ Mixes \subseteq SUBSET Kinds

VARIABLES
    mix,        \* the kinds of request of this behaviour
    user,       \* the users row of the address, and how to sign in to it
    next,       \* the next account id
    pairs,      \* sessions: the two rows of each token pair
    link,       \* the outstanding magic link: the account it signs in to
    req,        \* the handlers
    dev,        \* the devices
    disk,       \* accounts with files under the object store
    late,       \* history: the purge failed, was cut off or met a late capture
    lost,       \* history: connections and statements that failed
    job         \* the job row of the account that a worker holds claimed

accountVars == <<mix, user, next, pairs, link, req, dev, disk, late, lost, job>>

NoUser == [acc |-> 0, pw |-> FALSE, linked |-> FALSE]
NoPair == [acc |-> 0, access |-> "none", refresh |-> "none"]
Free == [kind |-> "none", pc |-> "none", dev |-> CHOOSE d \in Device : TRUE,
         acc |-> 0, old |-> 0, new |-> 0, waits |-> FALSE]

PCs == {"none", "vouch", "identity", "lookup", "rehash", "create", "attach", "link", "consume", "live", "revoke",
        "revokeall", "access", "refresh", "audit", "delete", "cascade", "purge",
        "append", "insert", "ok", "refused", "failed"}

\* The rows of a pair, a handler, and the auth repository of a device.
Rows == [acc : 0..MaxAccount, access : {"none", "live", "dead"}, refresh : {"none", "live", "dead"}]
Handler == [kind : Kinds, pc : PCs, dev : Device, acc : 0..MaxAccount,
            old : 0..MaxPair, new : 0..MaxPair, waits : BOOLEAN]
Repository == [held : 0..MaxPair, in : BOOLEAN, excused : BOOLEAN, raced : BOOLEAN]

AccountTypeOK ==
    /\ mix \in Mixes
    /\ user \in [acc : 0..MaxAccount, pw : BOOLEAN, linked : BOOLEAN]
    /\ next \in 1..(MaxAccount + 1)
    /\ pairs \in [Pair -> Rows]
    /\ link \in 0..MaxAccount
    /\ req \in [Req -> Handler]
    /\ dev \in [Device -> Repository]
    /\ disk \subseteq Account /\ late \subseteq Account
    /\ lost \in 0..MaxLost /\ job \in {"none", "claimed", "written"}

Out == [held |-> 0, in |-> FALSE, excused |-> FALSE, raced |-> FALSE]

\* Nobody has signed up, or an account with a password waits for a login.
AccountInit ==
    /\ mix \in Mixes
    /\ \/ user = NoUser /\ next = 1
       \/ user = [acc |-> 1, pw |-> TRUE, linked |-> FALSE] /\ next = 2
    /\ pairs = [p \in Pair |-> NoPair]
    /\ link = 0
    /\ req = [r \in Req |-> Free]
    /\ dev = [d \in Device |-> Out]
    /\ disk = {} /\ late = {} /\ lost = 0 /\ job = "none"

----------------------------------------------------------------------------
(* Sending: what the app may have in flight.                               *)

Waits(d, kinds) == \E r \in Req : req[r].waits /\ req[r].dev = d /\ req[r].kind \in kinds

\* Sign-in screens show while no tokens are held; refresh() is single-flight,
\* but a user can sign out while it runs.
MaySend(d, k) ==
    IF k \in SignIn THEN dev[d].held = 0 /\ ~Waits(d, Kind)
    ELSE /\ dev[d].held # 0 /\ ~Waits(d, SignIn \cup {k})
         /\ k \in {"logout", "delete"} => ~Waits(d, {"logout", "delete"})

FirstStep(k) == CASE k \in {"signup", "login"} -> "lookup"
                  [] k \in {"social", "oidc"} -> "vouch"
                  [] k = "magic" -> "consume"
                  [] k = "logout" -> "revokeall"
                  [] OTHER -> "live"

\* Enough of the bound is left for every pair that may still be issued, and
\* (below) for the account that may follow a deleted one.
Room == Cardinality({p \in Pair : pairs[p].acc = 0}) >
        Cardinality({r \in Req : req[r].kind \in SignIn \cup {"refresh"} /\ req[r].new = 0})

Send(r, d, k) ==
    /\ k \in mix /\ MaySend(d, k)
    /\ k \in SignIn \cup {"refresh"} => Room
    /\ k = "delete" => next \in Account
    /\ req[r].kind = "none" /\ \A q \in 1..(r - 1) : req[q].kind # "none"
    /\ req' = [req EXCEPT ![r] = [kind |-> k, pc |-> FirstStep(k), dev |-> d,
                 acc |-> IF k \in SignIn THEN 0 ELSE pairs[dev[d].held].acc,
                 old |-> dev[d].held, new |-> 0, waits |-> TRUE]]
    /\ UNCHANGED <<mix, user, next, pairs, link, dev, disk, late, lost, job>>

\* POST /v1/auth/magic/request: an unknown address gets no token (0).
IssuedFor == user.acc

MagicRequest ==
    /\ "magic" \in mix /\ IssuedFor # 0
    /\ link' = IssuedFor
    /\ UNCHANGED <<mix, user, next, pairs, req, dev, disk, late, lost, job>>

MagicExpires ==
    /\ link # 0 /\ link' = 0
    /\ UNCHANGED <<mix, user, next, pairs, req, dev, disk, late, lost, job>>

----------------------------------------------------------------------------
(* Handlers.                                                               *)

At(r, pc) == req[r].pc = pc
Goto(r, pc) == req' = [req EXCEPT ![r].pc = pc]
GotoAs(r, pc, a) == req' = [req EXCEPT ![r].pc = pc, ![r].acc = a]

\* Variants: the audit row is written after the DELETE; files go first.
AuditLast == <<"revokeall", "delete", "audit", "cascade", "purge", "ok">>
PurgeFirst == <<"revokeall", "audit", "purge", "delete", "cascade", "ok">>

\* delete_account: the commit comes with the end of the cascade.
DeleteOrder == <<"revokeall", "audit", "delete", "cascade", "purge", "ok">>
Place(pc) == CHOOSE i \in DOMAIN DeleteOrder : DeleteOrder[i] = pc
NextDelete(pc) == DeleteOrder[Place(pc) + 1]

\* The tenants row is locked between the DELETE and its commit: statements
\* that check a foreign key against it wait.
Deleting == \E r \in Req :
    \E i \in (Place("delete") + 1)..Place("cascade") : At(r, DeleteOrder[i])
Exists(a) == user.acc = a

\* The provider vouches for the address, or a key, a claim or the provider
\* itself is missing.
Vouch(r, kind, to) ==
    /\ At(r, "vouch") /\ req[r].kind = kind
    /\ Goto(r, to) \/ Goto(r, "refused")
    /\ UNCHANGED <<mix, user, next, pairs, link, dev, disk, late, lost, job>>

VerifyIdToken(r) == Vouch(r, "social", "identity")
UserInfo(r) == Vouch(r, "oidc", "lookup")

\* link_or_create_user, 1: a known (provider, subject).
Identity(r) ==
    /\ At(r, "identity")
    /\ IF user.linked THEN GotoAs(r, "access", user.acc) ELSE Goto(r, "lookup")
    /\ UNCHANGED <<mix, user, next, pairs, link, dev, disk, late, lost, job>>

\* What follows the row of the address, as the handlers read it outside any
\* transaction.  An oidc sign-in to an account without a password has nothing
\* to change; a login may replace a hash of older parameters first.
SignupTo == {IF user.acc # 0 THEN "refused" ELSE "create"}
LoginTo == IF user.pw THEN {"rehash", "access"} ELSE {"refused"}
FederatedTo(k) == {IF user.acc = 0 THEN "create"
                   ELSE IF user.pw THEN "link"
                   ELSE IF k = "social" THEN "attach" ELSE "access"}

Lookup(r) ==
    LET k == req[r].kind
    IN  /\ At(r, "lookup")
        /\ \E to \in CASE k = "signup" -> SignupTo [] k = "login" -> LoginTo
                       [] OTHER -> FederatedTo(k) : GotoAs(r, to, user.acc)
        /\ UNCHANGED <<mix, user, next, pairs, link, dev, disk, late, lost, job>>

\* The new hash is written even where the password was dropped meanwhile.
Rehash(r) ==
    /\ At(r, "rehash") /\ ~Deleting
    /\ user' = [user EXCEPT !.pw = @ \/ Exists(req[r].acc)]
    /\ Goto(r, "access")
    /\ UNCHANGED <<mix, next, pairs, link, dev, disk, late, lost, job>>

\* A federated user has no password; social sign-ins record the identity.
NewUser(k) == [acc |-> next, pw |-> k = "signup", linked |-> k = "social"]

\* Tenant and user in one transaction; users.email is unique, so the later
\* of two creations fails.
Create(r) ==
    /\ At(r, "create") /\ ~Deleting
    /\ \/ /\ user.acc = 0 /\ next \in Account
          /\ user' = NewUser(req[r].kind)
          /\ next' = next + 1
          /\ GotoAs(r, "access", next)
       \/ /\ user.acc # 0 /\ Goto(r, "failed")
          /\ UNCHANGED <<user, next>>
    /\ UNCHANGED <<mix, pairs, link, dev, disk, late, lost, job>>

\* Link the identity; a password seen by the lookup is dropped, and then all
\* sessions with it.  The new identity needs the account's rows.
Link(r) ==
    LET had == At(r, "link")
        social == req[r].kind = "social"
    IN  /\ req[r].pc \in {"attach", "link"} /\ ~Deleting
        /\ \/ /\ Exists(req[r].acc)
              /\ user' = [user EXCEPT !.pw = @ /\ ~had, !.linked = @ \/ social]
              /\ Goto(r, IF had THEN "revokeall" ELSE "access")
           \/ /\ ~Exists(req[r].acc) /\ UNCHANGED user
              /\ Goto(r, IF social THEN "failed" ELSE "revokeall")
        /\ UNCHANGED <<mix, next, pairs, link, dev, disk, late, lost, job>>

\* consume: GETDEL, or remove under the map's lock.
Consume(r) ==
    /\ At(r, "consume")
    /\ GotoAs(r, IF link # 0 THEN "access" ELSE "refused", link)
    /\ link' = 0
    /\ UNCHANGED <<mix, user, next, pairs, dev, disk, late, lost, job>>

Dead(p) == [p EXCEPT !.access = "dead", !.refresh = "dead"]
RevokedAll(a) == [p \in Pair |-> IF pairs[p].acc = a THEN Dead(pairs[p]) ELSE pairs[p]]

\* Every device whose tokens somebody else's request has revoked.
Excuse(hit) == dev' = [d \in Device |->
    IF dev[d].held \in hit THEN [dev[d] EXCEPT !.excused = TRUE] ELSE dev[d]]
OfAccount(a) == {p \in Pair : pairs[p].acc = a}

\* A token is accepted while its row is live.  The row may have passed its
\* expires_at: from then on it counts as dead.
SessionIsLive(r) ==
    LET p == req[r].old
    IN  /\ At(r, "live") /\ req[r].kind = "refresh"
        /\ \/ pairs[p].refresh = "live" /\ Goto(r, "revoke") /\ UNCHANGED <<pairs, dev>>
           \/ pairs[p].refresh = "dead" /\ Goto(r, "refused") /\ UNCHANGED <<pairs, dev>>
           \/ /\ pairs[p].refresh = "live" /\ Goto(r, "refused")
              /\ pairs' = [pairs EXCEPT ![p] = Dead(@)]
              /\ Excuse({p})
        /\ UNCHANGED <<mix, user, next, link, disk, late, lost, job>>

\* The TenantCtx extractor asks the same of the access token.
Extract(r) ==
    LET p == req[r].old
        to == IF req[r].kind = "delete" THEN DeleteOrder[1] ELSE "append"
    IN  /\ At(r, "live") /\ req[r].kind # "refresh"
        /\ \/ pairs[p].access = "live" /\ Goto(r, to) /\ UNCHANGED pairs
           \/ pairs[p].access = "dead" /\ Goto(r, "refused") /\ UNCHANGED pairs
           \/ /\ pairs[p].access = "live" /\ Goto(r, "refused")
              /\ pairs' = [pairs EXCEPT ![p].access = "dead"]
        /\ UNCHANGED <<mix, user, next, link, dev, disk, late, lost, job>>

\* Variant: a rotation revokes every session of the user.
RotatedAll(r) == RevokedAll(req[r].acc)

\* revoke_session: only the refresh row presented.
Rotated(r) == [pairs EXCEPT ![req[r].old].refresh = "dead"]

Revoke(r) ==
    /\ At(r, "revoke")
    /\ pairs' = Rotated(r)
    /\ Goto(r, "access")
    /\ UNCHANGED <<mix, user, next, link, dev, disk, late, lost, job>>

AfterRevoke(k) == CASE k = "delete" -> NextDelete("revokeall")
                    [] k = "logout" -> "ok"
                    [] OTHER -> "access"

RevokeAll(r) ==
    /\ At(r, "revokeall")
    /\ pairs' = RevokedAll(req[r].acc)
    /\ Excuse(OfAccount(req[r].acc))
    /\ Goto(r, AfterRevoke(req[r].kind))
    /\ UNCHANGED <<mix, user, next, link, disk, late, lost, job>>

\* insert_session: the row of a token; its foreign keys need the account.
Insert(r, which, pc) ==
    LET new == IF which = "access" THEN CHOOSE p \in Pair : pairs[p].acc = 0 ELSE req[r].new
    IN  /\ At(r, which) /\ ~Deleting
        /\ \/ /\ Exists(req[r].acc)
              /\ pairs' = [pairs EXCEPT ![new] = IF which = "access"
                    THEN [acc |-> req[r].acc, access |-> "live", refresh |-> "none"]
                    ELSE [@ EXCEPT !.refresh = "live"]]
              /\ req' = [req EXCEPT ![r].pc = pc, ![r].new = new]
           \/ ~Exists(req[r].acc) /\ Goto(r, "failed") /\ UNCHANGED pairs
        /\ UNCHANGED <<mix, user, next, link, dev, disk, late, lost, job>>

\* issue_pair: two rows, two transactions.
InsertAccess(r) == (\E p \in Pair : pairs[p].acc = 0) /\ Insert(r, "access", "refresh")
InsertRefresh(r) == Insert(r, "refresh", "ok")

\* The audit row references the tenant too.
Audit(r) ==
    /\ At(r, "audit") /\ ~Deleting
    /\ Goto(r, NextDelete("audit"))
    /\ UNCHANGED <<mix, user, next, pairs, link, dev, disk, late, lost, job>>

\* DELETE FROM tenants takes the row; a second deletion waits, and then finds
\* nothing.
Delete(r) ==
    /\ At(r, "delete") /\ ~Deleting
    /\ Goto(r, NextDelete("delete"))
    /\ UNCHANGED <<mix, user, next, pairs, link, dev, disk, late, lost, job>>

\* The cascade deletes the rows of every table, and waits for a row that a
\* worker has claimed; then the request commits.
Cascade(r) ==
    /\ At(r, "cascade") /\ job = "none"
    /\ IF Exists(req[r].acc)
       THEN /\ user' = NoUser
            /\ pairs' = RevokedAll(req[r].acc)
       ELSE UNCHANGED <<user, pairs>>
    /\ Excuse(OfAccount(req[r].acc))
    /\ Goto(r, NextDelete("cascade"))
    /\ UNCHANGED <<mix, next, link, disk, late, lost, job>>

\* remove_dir_all; a failure is logged only.
Purge(r) ==
    LET a == req[r].acc
    IN  /\ At(r, "purge")
        /\ \/ disk' = disk \ {a}
              /\ late' = late \cup {b \in {a} : \E q \in Req : At(q, "append") /\ req[q].acc = a}
           \/ disk' = disk /\ late' = late \cup {a}
        /\ Goto(r, NextDelete("purge"))
        /\ UNCHANGED <<mix, user, next, pairs, link, dev, lost, job>>

\* create_capture: the log line first, the row (with its foreign key) after.
AppendLog(r) ==
    /\ At(r, "append")
    /\ disk' = disk \cup {req[r].acc}
    /\ Goto(r, "insert")
    /\ UNCHANGED <<mix, user, next, pairs, link, dev, late, lost, job>>

InsertIdea(r) ==
    /\ At(r, "insert") /\ ~Deleting
    /\ Goto(r, IF Exists(req[r].acc) THEN "ok" ELSE "failed")
    /\ UNCHANGED <<mix, user, next, pairs, link, dev, disk, late, lost, job>>

----------------------------------------------------------------------------
(* Answers, and what the device does with them.                            *)

Signed(p) == [held |-> p, in |-> TRUE, excused |-> pairs[p].refresh # "live", raced |-> FALSE]

\* Tokens are cleared after a logout, whatever came of it.
SignedOut(d) == [Out EXCEPT !.raced = Waits(d, {"refresh"})]

Ok(r) ==
    LET d == req[r].dev
    IN  /\ At(r, "ok")
        /\ req' = [req EXCEPT ![r] = Free]
        /\ dev' = IF ~req[r].waits \/ req[r].kind = "capture" THEN dev
                  ELSE [dev EXCEPT ![d] =
                    CASE req[r].kind \in SignIn -> Signed(req[r].new)
                      [] req[r].kind = "refresh" ->
                            [@ EXCEPT !.held = req[r].new,
                                      !.excused = pairs[req[r].new].refresh # "live"]
                      [] OTHER -> SignedOut(d)]
        /\ UNCHANGED <<mix, user, next, pairs, link, disk, late, lost, job>>

\* A refused refresh (401) clears the tokens, whichever they are by now, and a
\* logout does whatever the answer; other refusals and failures (500) leave
\* the device as it is.
Refused(r) ==
    LET d == req[r].dev
    IN  /\ req[r].pc \in {"refused", "failed"}
        /\ req' = [req EXCEPT ![r] = Free]
        /\ dev' = CASE req[r].waits /\ req[r].kind = "refresh" /\ At(r, "refused") ->
                          [dev EXCEPT ![d].held = 0]
                    [] req[r].waits /\ req[r].kind = "logout" -> [dev EXCEPT ![d] = SignedOut(d)]
                    [] OTHER -> dev
        /\ UNCHANGED <<mix, user, next, pairs, link, disk, late, lost, job>>

\* The statements whose error a handler passes on.  The audit row and the new
\* hash are best effort, and so is the purge.
Statements == {"identity", "lookup", "create", "attach", "link", "live", "revoke", "revokeall",
               "access", "refresh", "delete", "cascade", "insert"}

\* A database error: the open transaction is rolled back, the committed ones
\* stay, and the answer is 500.  A refresh that fails after its revoke leaves
\* its device with the revoked token.
StatementFails(r) ==
    /\ req[r].pc \in Statements /\ lost < MaxLost
    /\ lost' = lost + 1
    /\ Goto(r, "failed")
    /\ Excuse(IF req[r].kind = "refresh" /\ req[r].pc \in {"access", "refresh"} THEN {req[r].old} ELSE {})
    /\ UNCHANGED <<mix, user, next, pairs, link, disk, late, job>>

\* The connection fails: the device stops waiting, the handler may go on.
GiveUp(r) ==
    LET d == req[r].dev
    IN  /\ req[r].waits /\ lost < MaxLost
        /\ lost' = lost + 1
        /\ req' = [req EXCEPT ![r].waits = FALSE]
        /\ dev' = CASE req[r].kind = "logout" -> [dev EXCEPT ![d] = SignedOut(d)]
                    [] req[r].kind = "refresh" -> [dev EXCEPT ![d].excused = TRUE]
                    [] OTHER -> dev
        /\ UNCHANGED <<mix, user, next, pairs, link, disk, late, job>>

\* The server drops the future of a closed connection: what is committed
\* stays, an open transaction is rolled back.
Drop(r) ==
    /\ req[r].kind # "none" /\ ~req[r].waits
    /\ req' = [req EXCEPT ![r] = Free]
    /\ late' = late \cup {a \in {req[r].acc} : At(r, "purge")}
    /\ UNCHANGED <<mix, user, next, pairs, link, dev, disk, lost, job>>

\* run_once: a worker claims a job of the account and keeps the row locked in
\* its transaction, while the handler writes wiki rows on other connections.
JobStep(from, to) ==
    /\ job = from /\ job' = to
    /\ UNCHANGED <<mix, user, next, pairs, link, req, dev, disk, late, lost>>

ClaimJob == "ingest" \in mix /\ user.acc # 0 /\ JobStep("none", "claimed")
WriteWiki == ~Deleting /\ JobStep("claimed", "written")
FinishJob == JobStep("written", "none")

Handle(r) ==
    \/ VerifyIdToken(r) \/ UserInfo(r) \/ Identity(r) \/ Lookup(r) \/ Rehash(r) \/ Create(r)
    \/ Link(r) \/ Consume(r) \/ SessionIsLive(r) \/ Extract(r)
    \/ Revoke(r) \/ RevokeAll(r) \/ InsertAccess(r) \/ InsertRefresh(r)
    \/ Audit(r) \/ Delete(r) \/ Cascade(r) \/ Purge(r) \/ AppendLog(r) \/ InsertIdea(r)
    \/ Ok(r) \/ Refused(r)

AccountNext ==
    \/ \E r \in Req : Handle(r) \/ StatementFails(r) \/ GiveUp(r) \/ Drop(r)
    \/ \E r \in Req, d \in Device, k \in Kind : Send(r, d, k)
    \/ MagicRequest \/ MagicExpires \/ ClaimJob \/ WriteWiki \/ FinishJob

AccountSpec == AccountInit /\ [][AccountNext]_accountVars

\* Handlers and workers get on unless a lock stops them.
AccountFairness == WF_accountVars(WriteWiki) /\ WF_accountVars(FinishJob) /\ \A r \in Req : WF_accountVars(Handle(r))

AccountFairSpec == AccountSpec /\ AccountFairness

----------------------------------------------------------------------------
(* Properties.                                                             *)

\* The tokens of a device match what its user did.  After a sign-in it keeps a
\* refresh token the server accepts, or is about to receive the next: rotations
\* on one device never sign another out.  Excused: a logout, a deletion or a
\* linked identity revoked all sessions, the token expired, or a refresh was
\* cut off or failed between its revoke and its new pair.  After a logout it holds none until the next sign-in, unless a
\* refresh was in flight when they were cleared.
TokensMatchSession == \A d \in Device :
    IF dev[d].in
    THEN \/ dev[d].excused
         \/ /\ dev[d].held # 0
            /\ \/ pairs[dev[d].held].refresh = "live"
               \/ \E r \in Req : req[r].waits /\ req[r].kind = "refresh" /\ req[r].old = dev[d].held
    ELSE dev[d].held = 0 \/ dev[d].raced

\* Once a deletion is through, nothing of the account is on disk, unless the
\* purge failed, its request was dropped after the commit, or a capture was
\* between its check and its write.
Erased == \A a \in disk :
    Exists(a) \/ a \in late \/ \E r \in Req : req[r].acc = a /\ At(r, "purge")

\* Every request ends: no handler waits for a lock whose holder waits for it.
RequestEnds == \A r \in Req : (req[r].kind # "none") ~> (req[r].kind = "none")

----------------------------------------------------------------------------
(* The inductive invariant.                                                *)

Carriers == {"refresh", "logout", "delete", "capture"}     \* requests that carry tokens
Issuing == SignIn \cup {"refresh"}                        \* requests that are answered with a pair
Unsure == {"none", "vouch", "identity", "lookup", "create", "consume", "live", "ok", "refused", "failed"}

\* Which kind of request may be at which step, where it knows its account,
\* and when it has a new pair.
Staged(n) ==
    /\ n.kind = "none" => n = Free
    /\ n.kind # "ingest"
    /\ n.pc \in {"vouch", "identity", "lookup", "rehash", "create", "attach", "link", "consume"}
         => n.kind \in SignIn
    /\ n.pc = "live" => n.kind \in Carriers \ {"logout"}
    /\ n.pc = "revoke" => n.kind = "refresh"
    /\ n.pc = "revokeall" => n.kind \in SignIn \cup {"logout", "delete"}
    /\ n.pc \in {"access", "refresh"} => n.kind \in Issuing
    /\ n.pc \in {"audit", "delete", "cascade", "purge"} => n.kind = "delete"
    /\ n.pc \in {"append", "insert"} => n.kind = "capture"
    /\ n.pc \notin Unsure => n.acc # 0
    /\ n.new # 0 => n.pc \in {"refresh", "ok", "failed"}
    /\ n.pc = "refresh" \/ (n.pc = "ok" /\ n.kind \in Issuing) => n.new # 0

\* The pairs of a request are pairs of its account.
Tokened(n, prs) ==
    /\ n.kind \in Carriers => n.old # 0 /\ n.acc # 0 /\ prs[n.old].acc = n.acc
    /\ n.new # 0 => n.acc # 0 /\ prs[n.new].acc = n.acc

Requests == \A r \in Req : Staged(req[r]) /\ Tokened(req[r], pairs)

\* Only tokens of the account that exists are live.
LiveRows ==
    /\ user.acc = 0 => ~user.pw /\ ~user.linked
    /\ \A p \in Pair : "live" \in {pairs[p].access, pairs[p].refresh} =>
         pairs[p].acc = user.acc /\ user.acc # 0

\* A pair is in one place: on one device, with its refreshes, or on its way.
OnePlace ==
    /\ \A d \in Device : dev[d].held # 0 => pairs[dev[d].held].acc # 0
    /\ \A d, e \in Device : dev[d].held = dev[e].held /\ dev[d].held # 0 => d = e
    /\ \A r \in Req, d \in Device :
         /\ req[r].kind = "refresh" /\ req[r].old = dev[d].held => req[r].dev = d
         /\ req[r].new # 0 => req[r].new # dev[d].held
    /\ \A r, q \in Req : req[r].new # 0 =>
         /\ req[q].new = req[r].new => q = r
         /\ req[q].kind = "refresh" => req[q].old # req[r].new

Refreshing(r) == req[r].waits /\ req[r].kind = "refresh"

\* One refresh at a time, and no sign-in beside another request; a refresh is
\* for the tokens the device has, or it was signed out meanwhile.
OneFlight ==
    \A r \in Req :
      /\ \A q \in Req : req[q].dev = req[r].dev /\ req[q].waits =>
           /\ Refreshing(r) /\ Refreshing(q) => q = r
           /\ req[r].waits /\ req[r].kind \in SignIn => q = r
      /\ Refreshing(r) => LET d == dev[req[r].dev] IN
                          IF d.in THEN d.held = req[r].old ELSE d.raced

\* The device waits for the pair that replaces the one it holds.
Rotating(r, d) ==
    /\ Refreshing(r) /\ req[r].dev = d /\ req[r].old = dev[d].held
    /\ req[r].pc \in {"access", "refresh", "ok"}

\* TokensMatchSession, and what the account and the requests owe to it.
Sessions ==
    /\ \A d \in Device :
         IF dev[d].in
         THEN ~dev[d].excused =>
                /\ dev[d].held # 0 /\ Exists(pairs[dev[d].held].acc)
                /\ pairs[dev[d].held].refresh = "live" \/ \E r \in Req : Rotating(r, d)
         ELSE dev[d].held = 0 \/ dev[d].raced
    /\ \A r \in Req : req[r].kind = "refresh" /\ ~req[r].waits =>
         \A d \in Device : dev[d].held = req[r].old => dev[d].excused \/ ~dev[d].in
    /\ \A r \in Req : Refreshing(r) /\ At(r, "refused") =>
         dev[req[r].dev].excused \/ ~dev[req[r].dev].in

\* Erased, and what a capture that passed its check may still write.
Accounted(a) == Exists(a) \/ a \in late \/ \E r \in Req : req[r].acc = a /\ At(r, "purge")
OnDisk ==
    /\ \A a \in disk : Accounted(a)
    /\ \A r \in Req : At(r, "append") => Accounted(req[r].acc)

AccountInv == AccountTypeOK /\ Requests /\ LiveRows /\ OnePlace /\ OneFlight /\ Sessions /\ OnDisk

============================================================================
