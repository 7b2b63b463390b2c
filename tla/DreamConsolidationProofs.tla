----------------------- MODULE DreamConsolidationProofs -----------------------
(***************************************************************************)
(* Proofs about DreamConsolidation for every set of debounce keys, every   *)
(* threshold, lease length and number of crashes: the lease keeps dreams   *)
(* of a tenant apart, and the clock it is mixed up with loses no capture.  *)
(*                                                                         *)
(* And about the transcript of a turn, a dream's or another's: calls and   *)
(* results are paired in it, and a recall turn runs the tools it offers.   *)
(***************************************************************************)
EXTENDS DreamConsolidation, TurnTranscript, FiniteSetTheorems, TLAPS

\* The saturating counters stay in their ranges.
LEMMA Saturation ==
  ASSUME NEW top \in Nat, NEW n \in 0..top
  PROVE  Up(n, top) \in 0..top /\ Down(n) \in 0..top
  BY DEF Up, Down

\* The rows that acquire, release and rollback write are rows.
LEMMA RowUpdate ==
  ASSUME NEW w \in Row, NEW c \in Instants, NEW a \in Ages, NEW h \in BOOLEAN, NEW l \in 0..LeaseTicks
  PROVE  /\ [w EXCEPT !.clock = c, !.age = a, !.held = h, !.left = l] \in Row
         /\ [w EXCEPT !.held = h, !.left = l] \in Row
  BY DEF Row

\* Before the first dream nobody holds the lease and nothing is owed.
LEMMA InitDreamInv == Init => DreamInv
  <1> SUFFICES ASSUME Init PROVE DreamInv
    OBVIOUS
  <1> USE DreamAssumption DEF Init, Instants, Ages
  <1>1. row \in Row /\ row.clock = 0
    <2>1. row.present \in BOOLEAN
      BY Zenon
    <2>2. row = [present |-> row.present, clock |-> 0, age |-> MinHours, held |-> FALSE, left |-> 0]
      BY Zenon
    <2>3. MinHours \in Ages /\ 0 \in Instants /\ 0 \in 0..LeaseTicks
      OBVIOUS
    <2> QED BY <2>1, <2>2, <2>3, Zenon DEF Row
  <1>2. Asleep \in Handler
    BY DEF Handler, Asleep
  <1>3. dream \in [Ref -> Handler]
    BY <1>2
  <1>4. TypeOK
    <2>1. job \in [Ref -> {"none", "pending", "running"}]
      OBVIOUS
    <2>2. claims \in Instants /\ crashes \in 0..MaxCrash
      OBVIOUS
    <2>3. optin \in BOOLEAN /\ overran \in BOOLEAN
      BY Zenon
    <2>4. idea \in [Idea -> [state : {"absent", "active", "removed"}, at : Instants]]
      OBVIOUS
    <2> QED BY <1>1, <1>3, <2>1, <2>2, <2>3, <2>4 DEF TypeOK
  <1>5. \A r \in Ref : dream[r].pc = "none" /\ dream[r].seen = {}
    BY DEF Asleep
  <1>6. (\A r \in Ref : ~Inside(r)) /\ Active = {}
    BY <1>5 DEF Inside, InsidePC, Active
  <1>7. LeaseCovers /\ OneSound /\ Accounted
    BY <1>6 DEF LeaseCovers, OneSound, Accounted, Sound
  <1>8. ClocksInOrder /\ HistoryArrived
    BY <1>1, <1>5 DEF ClocksInOrder, HistoryArrived, InsidePC
  <1> QED BY <1>4, <1>7, <1>8 DEF DreamInv

\* What the account of the history says of one dream.
SameClaim(d, e) ==
    /\ d.pc \in InsidePC <=> e.pc \in InsidePC
    /\ d.pc \in {"claim"} \cup InsidePC <=> e.pc \in {"claim"} \cup InsidePC
    /\ d.read = e.read /\ d.mine = e.mine /\ d.seen = e.seen /\ d.astray = e.astray

\* What a step that keeps the clocks of the dreams past the lock, and takes
\* nothing out of the account, preserves.
LEMMA FrameAccount ==
  ASSUME ClocksInOrder, OneSound, Accounted, HistoryArrived,
         row'.clock = row.clock, claims' = claims, UNCHANGED <<account, idea>>,
         \A s \in Ref : SameClaim(dream'[s], dream[s])
  PROVE  ClocksInOrder' /\ OneSound' /\ Accounted' /\ HistoryArrived'
  <1>1. \A s \in Ref : (Inside(s)' <=> Inside(s)) /\ (Sound(s)' <=> Sound(s))
    BY DEF SameClaim, Inside, Sound
  <1>2. Active' = Active
    BY DEF Active
  <1>3. Pending' = Pending
    BY <1>1 DEF Pending, SameClaim
  <1>4. ClocksInOrder' /\ HistoryArrived'
    BY DEF ClocksInOrder, HistoryArrived, SameClaim, account
  <1>5. OneSound'
    BY <1>1 DEF OneSound, SameClaim
  <1>6. Accounted'
    BY <1>1, <1>2, <1>3 DEF Accounted, SameClaim, account
  <1> QED BY <1>4, <1>5, <1>6

\* The lease of dreams that stay on their side of the lock is not touched.
LEMMA FrameLease ==
  ASSUME LeaseCovers, row' = row, overran' = overran,
         \A s \in Ref : Inside(s)' => Inside(s)
  PROVE  LeaseCovers'
  BY DEF LeaseCovers

\* A capture that is not stamped before the clock is owed, and no dream has
\* seen it; one that is removed is not spoken of any more.
LEMMA CaptureDreamInv ==
  ASSUME DreamInv, NEW i \in Idea, Deactivate(i) \/ \E at \in Instants : Capture(i, at)
  PROVE  DreamInv'
  <1> USE DEF DreamInv
  <1>1. /\ row' = row /\ dream' = dream /\ claims' = claims /\ job' = job
        /\ dreamt' = dreamt /\ unsure' = unsure /\ optin' = optin
        /\ overran' = overran /\ crashes' = crashes
    BY DEF Capture, Deactivate, account
  <1>2. PICK at \in Instants : Deactivate(i) \/ Capture(i, at)
    BY DreamAssumption DEF Instants
  <1>3. TypeOK'
    BY <1>1, <1>2 DEF TypeOK, Capture, Deactivate, account
  <1>4. \A r \in Ref : (Inside(r)' <=> Inside(r)) /\ (Sound(r)' <=> Sound(r))
    BY <1>1 DEF Inside, Sound
  <1>5. LeaseCovers' /\ OneSound' /\ ClocksInOrder' /\ Pending' = Pending
    BY <1>1, <1>4 DEF LeaseCovers, OneSound, ClocksInOrder, Pending
  <1>6. /\ late \subseteq late' /\ idea'[i].state # "absent"
        /\ \A j \in Idea \ {i} : idea'[j] = idea[j]
    BY <1>2 DEF Capture, Deactivate, account, TypeOK
  <1>7. HistoryArrived'
    BY <1>1, <1>6 DEF HistoryArrived
  <1>8. ASSUME NEW j \in Active' \ (late' \cup unsure'), j # i
        PROVE  j \in Active \ (late \cup unsure) /\ idea'[j] = idea[j]
    BY <1>1, <1>6, <1>8 DEF Active
  <1>9. ASSUME i \in Active' \ (late' \cup unsure')
        PROVE  /\ idea'[i].at \in Nat /\ idea'[i].at >= row.clock
               /\ i \notin dreamt \cup Pending /\ \A r \in Ref : i \notin dream[r].seen
    <2>1. ~Deactivate(i)
      BY <1>9 DEF Deactivate, Active, TypeOK
    <2>2. /\ idea[i].state = "absent" /\ idea'[i].at = at
          /\ ~(at < row.clock)
      BY <1>2, <1>9, <2>1 DEF Capture, TypeOK
    <2>3. at \in Nat /\ row.clock \in Nat
      BY DreamAssumption DEF TypeOK, Row, Instants
    <2> QED BY <2>2, <2>3 DEF HistoryArrived, Pending
  <1>10. ASSUME NEW r \in Ref, Sound(r)
         PROVE  /\ dream[r].read \in Nat /\ dream[r].read < row.clock /\ row.clock \in Nat
    <2>1. dream[r].pc \in {"claim"} \cup InsidePC /\ row.clock = dream[r].mine
      BY <1>10 DEF Sound, Inside, OneSound
    <2>2. dream[r].read \in Nat /\ dream[r].mine \in Nat
      BY DreamAssumption DEF TypeOK, Handler, Instants
    <2> QED BY <2>1, <2>2 DEF ClocksInOrder
  <1>11. Accounted'
    <2> SUFFICES ASSUME NEW j \in Active' \ (late' \cup unsure')
                 PROVE  /\ \A r \in Ref : Sound(r) =>
                              /\ j \in dream[r].seen <=> idea'[j].at < row.clock
                              /\ j \in dreamt \cup Pending <=> idea'[j].at < dream[r].read
                        /\ (\A r \in Ref : ~Sound(r)) =>
                              (j \in dreamt \cup Pending <=> idea'[j].at < row.clock)
      BY <1>1, <1>4, <1>5 DEF Accounted
    <2>1. CASE j # i
      BY <1>8, <2>1 DEF Accounted
    <2>2. CASE j = i
      <3>1. ~(idea'[i].at < row.clock)
        BY <1>9, <2>2, DreamAssumption DEF TypeOK, Row, Instants
      <3>2. \A r \in Ref : Sound(r) => ~(idea'[i].at < dream[r].read)
        BY <1>9, <1>10, <2>2
      <3> QED BY <1>9, <2>2, <3>1, <3>2
    <2> QED BY <2>1, <2>2
  <1> QED BY <1>3, <1>5, <1>7, <1>11

\* A tick shortens the lease; one that ends it under a dream is an overrun.
LEMMA TickDreamInv == DreamInv /\ Tick => DreamInv'
  <1> SUFFICES ASSUME DreamInv, Tick PROVE DreamInv'
    OBVIOUS
  <1> USE DreamAssumption DEF DreamInv, Tick, InsidePC, Inside, Ages
  <1>0. /\ \A n \in Ages : Up(n, MinHours) \in Ages
        /\ \A n \in 0..LeaseTicks : Down(n) \in 0..LeaseTicks
    BY Saturation
  <1>1. row' \in Row /\ row'.clock = row.clock
    BY <1>0 DEF TypeOK, Row
  <1>2. ASSUME NEW r \in Ref
        PROVE  dream'[r] \in Handler /\ SameClaim(dream'[r], dream[r])
    <2>1. dream[r] \in Handler /\ dream'[r] = Aged(dream[r])
      BY DEF TypeOK
    <2>2. CASE dream'[r] = dream[r]
      BY <2>1, <2>2 DEF SameClaim
    <2>3. CASE dream'[r] = [dream[r] EXCEPT !.age = Up(@, MinHours)]
      BY <1>0, <2>1, <2>3 DEF Handler, SameClaim
    <2> QED BY <2>1, <2>2, <2>3 DEF Aged
  <1>3. dream' \in [Ref -> Handler]
    BY <1>2
  <1>4. TypeOK'
    BY <1>1, <1>3 DEF TypeOK, account
  <1>5. LeaseCovers'
    BY <1>2 DEF LeaseCovers, TypeOK, Row, Down, SameClaim
  <1>6. ClocksInOrder' /\ OneSound' /\ Accounted' /\ HistoryArrived'
    BY <1>1, <1>2, FrameAccount
  <1> QED BY <1>4, <1>5, <1>6

\* Writing one handler's state keeps the types.
LEMMA StepType ==
  ASSUME TypeOK, NEW r \in Ref, NEW d \in Handler,
         dream' = [dream EXCEPT ![r] = d]
  PROVE  /\ dream' \in [Ref -> Handler] /\ dream'[r] = d
         /\ \A s \in Ref \ {r} : dream'[s] = dream[s]
  BY DEF TypeOK

\* A handler that is not running, or has only read the clock, is one.
LEMMA HandlerStates ==
  ASSUME NEW c \in Instants, NEW p \in {"none", "gates", "count", "lock"}
  PROVE  /\ Asleep \in Handler /\ Asleep.seen = {}
         /\ [Asleep EXCEPT !.pc = p] \in Handler /\ [Asleep EXCEPT !.pc = p].pc = p
         /\ [Asleep EXCEPT !.pc = p].seen = {}
         /\ [Asleep EXCEPT !.pc = "count", !.read = c] \in Handler
         /\ [Asleep EXCEPT !.pc = "count", !.read = c].pc = "count"
         /\ [Asleep EXCEPT !.pc = "count", !.read = c].seen = {}
  <1> DEFINE e == [Asleep EXCEPT !.pc = p]
             f == [Asleep EXCEPT !.pc = "count", !.read = c]
  <1>1. 0 \in Ages /\ 0 \in Instants
    BY DreamAssumption DEF Ages, Instants
  <1>2. Asleep \in Handler /\ Asleep.seen = {}
    BY <1>1 DEF Asleep, Handler
  <1>5. e \in Handler /\ e.pc = p /\ e.seen = {}
    BY <1>2 DEF Handler
  <1>6. f \in Handler /\ f.pc = "count" /\ f.seen = {}
    BY <1>2 DEF Handler
  <1> QED BY <1>2, <1>5, <1>6 DEF e, f

\* A handler outside the lock has a say in nothing.
LEMMA OutsideAccount ==
  ASSUME ClocksInOrder, OneSound, Accounted, HistoryArrived, LeaseCovers,
         NEW r \in Ref, ~Inside(r), ~Inside(r)',
         dream'[r].seen = {},
         dream'[r].pc = "claim" => dream'[r].read < dream'[r].mine /\ dream'[r].mine <= claims',
         \A s \in Ref \ {r} : dream'[s] = dream[s],
         row' = row, claims \in Nat, row.clock \in Nat,
         \A s \in Ref : dream[s].mine \in Nat,
         claims' = claims \/ claims' = claims + 1,
         UNCHANGED <<account, idea, overran>>
  PROVE  ClocksInOrder' /\ OneSound' /\ Accounted' /\ HistoryArrived' /\ LeaseCovers'
  <1>1. \A s \in Ref : (Inside(s)' <=> Inside(s)) /\ (Sound(s)' <=> Sound(s))
    BY DEF Inside, Sound
  <1>2. Active' = Active
    BY DEF Active
  <1>3. \A s \in Ref : Inside(s) => dream'[s] = dream[s]
    OBVIOUS
  <1>4. Pending' = Pending
    BY <1>1, <1>3 DEF Pending
  <1>5. ClocksInOrder'
    <2>1. row'.clock <= claims'
      BY DEF ClocksInOrder
    <2>2. ASSUME NEW s \in Ref, dream'[s].pc \in {"claim"} \cup InsidePC
          PROVE  dream'[s].read < dream'[s].mine /\ dream'[s].mine <= claims'
      <3>1. CASE s = r
        BY <2>2, <3>1 DEF Inside
      <3>2. CASE s # r
        BY <2>2, <3>2 DEF ClocksInOrder
      <3> QED BY <3>1, <3>2
    <2> QED BY <2>1, <2>2 DEF ClocksInOrder
  <1>6. HistoryArrived'
    BY DEF HistoryArrived, account
  <1>7. OneSound' /\ LeaseCovers'
    BY <1>1, <1>3 DEF OneSound, LeaseCovers, Sound
  <1>8. Accounted'
    <2>1. \A s \in Ref : Sound(s) => dream'[s] = dream[s]
      BY <1>3 DEF Sound
    <2> QED BY <1>1, <1>2, <1>4, <2>1 DEF Accounted, account
  <1> QED BY <1>5, <1>6, <1>7, <1>8

\* Steps outside the lock: enqueueing, claiming the job, the gates, reading
\* the clock for a rollback, and finding the lease taken.
LEMMA OutsideDreamInv ==
  ASSUME DreamInv, NEW r \in Ref,
         \/ SetDream
         \/ Enqueue(r)
         \/ Claim(r)
         \/ CheapGates(r)
         \/ SessionGate(r)
         \/ ReadPrior(r)
         \/ TryAcquire(r) /\ ~LeaseFree
  PROVE  DreamInv'
  <1>0. TypeOK /\ ClocksInOrder /\ OneSound /\ Accounted /\ HistoryArrived /\ LeaseCovers
    BY DEF DreamInv
  <1>a. /\ claims \in Nat /\ row.clock \in Instants /\ row.clock \in Nat /\ row.age \in Ages
        /\ claims \in Instants /\ \A s \in Ref : dream[s].mine \in Nat
    BY <1>0, DreamAssumption DEF TypeOK, Row, Handler, Instants
  <1>b. Asleep \in Handler /\ Asleep.pc = "none" /\ Asleep.seen = {}
    BY <1>a, HandlerStates DEF Asleep
  <1>1. CASE SetDream \/ Enqueue(r)
    <2>1. /\ row' = row /\ claims' = claims /\ dream' = dream /\ UNCHANGED <<account, idea>>
          /\ overran' = overran
      BY <1>1 DEF SetDream, Enqueue, world
    <2>2. TypeOK'
      BY <1>0, <1>1 DEF SetDream, Enqueue, world, TypeOK, account
    <2>3. ClocksInOrder' /\ OneSound' /\ Accounted' /\ HistoryArrived'
      BY <1>0, <2>1, FrameAccount DEF SameClaim
    <2>4. LeaseCovers'
      BY <1>0, <2>1 DEF LeaseCovers, Inside
    <2> QED BY <2>2, <2>3, <2>4 DEF DreamInv
  <1>2. ASSUME NEW from \in {"none", "gates", "count", "lock", "claim"}, NEW d \in Handler,
               d.pc \notin InsidePC, d.seen = {}, Step(r, from, d),
               d.pc = "claim" => d.read < d.mine /\ d.mine <= claims',
               job' \in [Ref -> {"none", "pending", "running"}],
               claims' \in Instants, claims' = claims \/ claims' = claims + 1,
               UNCHANGED <<row, account, world>>
        PROVE  DreamInv'
    <2>1. /\ dream' \in [Ref -> Handler] /\ dream'[r] = d
          /\ \A s \in Ref \ {r} : dream'[s] = dream[s]
      BY <1>0, <1>2, StepType DEF Step
    <2>2. ~Inside(r) /\ ~Inside(r)'
      BY <1>2, <2>1 DEF Step, Inside, InsidePC
    <2>3. TypeOK'
      BY <1>0, <1>2, <2>1 DEF TypeOK, world, account
    <2>4. row' = row /\ UNCHANGED <<account, idea, overran>>
      BY <1>2 DEF world
    <2>5. ClocksInOrder' /\ OneSound' /\ Accounted' /\ HistoryArrived' /\ LeaseCovers'
      BY <1>0, <1>a, <1>2, <2>1, <2>2, <2>4, OutsideAccount
    <2> QED BY <2>3, <2>5 DEF DreamInv
  <1>3. \A j \in {"none", "running"} : [job EXCEPT ![r] = j] \in [Ref -> {"none", "pending", "running"}]
    BY <1>0 DEF TypeOK
  <1>4. ASSUME NEW from \in {"gates", "count", "claim"}, Stopped(r, from),
               UNCHANGED <<row, claims, account, world>>
        PROVE  DreamInv'
    BY <1>b, <1>a, <1>2, <1>3, <1>4 DEF Stopped, InsidePC
  <1>5. CASE Claim(r)
    <2> DEFINE d == [Asleep EXCEPT !.pc = "gates"]
    <2>1. d \in Handler /\ d.pc = "gates" /\ d.seen = {}
      BY <1>a, HandlerStates
    <2>2. Step(r, "none", d) /\ job' = [job EXCEPT ![r] = "running"] /\ UNCHANGED <<row, claims, account, world>>
      BY <1>5 DEF Claim
    <2> HIDE DEF d
    <2> QED BY <1>a, <1>2, <1>3, <2>1, <2>2 DEF InsidePC
  <1>6. CASE CheapGates(r)
    <2> DEFINE d == [Asleep EXCEPT !.pc = "count", !.read = row.clock]
    <2>1. d \in Handler /\ d.pc = "count" /\ d.seen = {}
      BY <1>a, HandlerStates
    <2>2. /\ (Step(r, "gates", d) /\ job' = job) \/ Stopped(r, "gates")
          /\ UNCHANGED <<row, claims, account, world>>
      BY <1>6 DEF CheapGates
    <2> HIDE DEF d
    <2> QED BY <1>0, <1>a, <1>2, <1>4, <2>1, <2>2 DEF InsidePC, TypeOK
  <1>7. CASE SessionGate(r)
    <2> DEFINE d == [Asleep EXCEPT !.pc = "lock"]
    <2>1. d \in Handler /\ d.pc = "lock" /\ d.seen = {}
      BY <1>a, HandlerStates
    <2>2. /\ (Step(r, "count", d) /\ job' = job) \/ Stopped(r, "count")
          /\ UNCHANGED <<row, claims, account, world>>
      BY <1>7 DEF SessionGate
    <2> HIDE DEF d
    <2> QED BY <1>0, <1>a, <1>2, <1>4, <2>1, <2>2 DEF InsidePC, TypeOK
  <1>8. CASE ReadPrior(r)
    <2> DEFINE d == [Asleep EXCEPT !.pc = "claim", !.age = row.age,
                                   !.read = row.clock, !.mine = claims + 1]
    <2>1. Step(r, "lock", d) /\ claims' = claims + 1 /\ claims < MaxClaims /\ UNCHANGED <<row, job, account, world>>
      BY <1>8 DEF ReadPrior
    <2>2. claims + 1 \in Instants /\ row.clock < claims + 1
      BY <1>0, <1>a, <2>1, DreamAssumption DEF Instants, ClocksInOrder
    <2>3. d \in Handler /\ d.pc = "claim" /\ d.seen = {} /\ d.read = row.clock /\ d.mine = claims + 1
      BY <1>a, <1>b, <2>2 DEF Handler, Asleep
    <2> HIDE DEF d
    <2> QED BY <1>0, <1>a, <1>2, <2>1, <2>2, <2>3 DEF InsidePC, TypeOK
  <1>9. CASE TryAcquire(r) /\ ~LeaseFree
    <2>1. Stopped(r, "claim") /\ UNCHANGED <<row, claims, account, world>>
      BY <1>9 DEF TryAcquire, account
    <2> QED BY <1>4, <2>1
  <1> QED BY <1>1, <1>5, <1>6, <1>7, <1>8, <1>9

\* Taking the lease.  Unless a dream overran nobody was past the lock; if
\* somebody was, he is astray from now on, and what he has seen is pending.
LEMMA TryAcquireDreamInv ==
  ASSUME DreamInv, NEW r \in Ref, TryAcquire(r), LeaseFree
  PROVE  DreamInv'
  <1> USE DreamAssumption
  <1>0. TypeOK /\ ClocksInOrder /\ OneSound /\ Accounted /\ HistoryArrived /\ LeaseCovers
    BY DEF DreamInv
  <1> DEFINE mine == dream[r].mine
             d == [dream[r] EXCEPT !.pc = "budget", !.seen = Active \ Since(mine),
                                   !.astray = (dream[r].read # row.clock)]
  <1>1. /\ dream[r].pc = "claim"
        /\ dream' = [Contested(r) EXCEPT ![r] = [@ EXCEPT !.pc = "budget", !.seen = Active \ Since(mine),
                                                   !.astray = (dream[r].read # row.clock)]]
        /\ row' = [row EXCEPT !.clock = mine, !.age = 0, !.held = TRUE, !.left = LeaseTicks]
        /\ unsure' = IF mine < row.clock THEN unsure \cup Active ELSE unsure
        /\ UNCHANGED <<job, claims, dreamt, late, idea, optin, overran, crashes>>
    BY DEF TryAcquire, world
  <1>2. /\ dream[r] \in Handler /\ mine \in Instants /\ mine \in Nat /\ dream[r].read \in Nat
        /\ dream[r].read < mine /\ mine <= claims /\ claims \in Nat
        /\ row \in Row /\ row.clock \in Nat /\ row.present
        /\ 0 \in Ages /\ LeaseTicks \in 0..LeaseTicks /\ LeaseTicks > 0
        /\ \A i \in Idea : idea[i].at \in Nat
    BY <1>0, <1>1 DEF TypeOK, Handler, Row, Instants, Ages, ClocksInOrder, LeaseFree
  <1>3. ~Inside(r)
    BY <1>1 DEF Inside, InsidePC
  <1>4. dream'[r] = d
    <2>1. Contested(r)[r] = dream[r] /\ DOMAIN Contested(r) = Ref
      BY DEF Contested
    <2> QED BY <1>1, <2>1
  <1>5. \A s \in Ref \ {r} : dream'[s] = IF Inside(s) THEN [dream[s] EXCEPT !.astray = TRUE] ELSE dream[s]
    BY <1>1 DEF Contested
  <1>6. Active' = Active /\ Active \subseteq Idea
    BY <1>1 DEF Active
  <1>7. /\ d \in Handler /\ d.pc = "budget" /\ d.mine = mine /\ d.read = dream[r].read
        /\ d.seen = Active \ Since(mine) /\ (d.astray <=> dream[r].read # row.clock)
    <2>1. Active \ Since(mine) \in SUBSET Idea /\ (dream[r].read # row.clock) \in BOOLEAN
      BY <1>6
    <2> QED BY <1>2, <2>1 DEF Handler, InsidePC
  <1> HIDE DEF d
  <1>8. ASSUME NEW s \in Ref \ {r}
        PROVE  /\ dream'[s] \in Handler /\ dream'[s].pc = dream[s].pc
               /\ dream'[s].read = dream[s].read /\ dream'[s].mine = dream[s].mine
               /\ dream'[s].seen = dream[s].seen
               /\ Inside(s) => dream'[s].astray
    <2>1. dream[s] \in Handler
      BY <1>0 DEF TypeOK
    <2>2. CASE Inside(s)
      BY <1>5, <2>1, <2>2 DEF Handler
    <2>3. CASE ~Inside(s)
      BY <1>5, <2>1, <2>3
    <2> QED BY <2>2, <2>3
  <1>9. dream' \in [Ref -> Handler]
    <2>1. DOMAIN dream' = Ref /\ dream' = [s \in Ref |-> dream'[s]]
      BY <1>1 DEF Contested
    <2> QED BY <1>4, <1>7, <1>8, <2>1
  <1>10. /\ row' \in Row /\ row'.clock = mine /\ row'.present /\ row'.held /\ row'.left = LeaseTicks
    <2>1. row' \in Row
      BY <1>1, <1>2, RowUpdate
    <2> QED BY <1>1, <1>2, <2>1 DEF Row
  <1>11. TypeOK'
    BY <1>0, <1>1, <1>6, <1>9, <1>10 DEF TypeOK
  <1>12. /\ Inside(r)' /\ (\A s \in Ref \ {r} : Inside(s)' <=> Inside(s))
         /\ Sound(r)' <=> dream[r].read = row.clock
         /\ \A s \in Ref \ {r} : ~Sound(s)'
    BY <1>4, <1>7, <1>8 DEF Inside, InsidePC, Sound
  <1>13. LeaseCovers'
    <2>1. ~overran => \A s \in Ref : ~Inside(s)
      BY <1>0, <1>2 DEF LeaseCovers, LeaseFree, TypeOK, Row
    <2> QED BY <1>1, <1>2, <1>10, <1>12, <2>1 DEF LeaseCovers
  <1>14. ClocksInOrder'
    <2>1. row'.clock <= claims'
      BY <1>1, <1>2, <1>10
    <2>2. ASSUME NEW s \in Ref, dream'[s].pc \in {"claim"} \cup InsidePC
          PROVE  dream'[s].read < dream'[s].mine /\ dream'[s].mine <= claims'
      <3>1. CASE s = r
        BY <1>1, <1>2, <1>4, <1>7, <3>1
      <3>2. CASE s # r
        BY <1>0, <1>1, <1>8, <2>2, <3>2 DEF ClocksInOrder
      <3> QED BY <3>1, <3>2
    <2> QED BY <2>1, <2>2 DEF ClocksInOrder
  <1>15. HistoryArrived'
    <2>1. ASSUME NEW i \in Idea, idea'[i].state = "absent"
          PROVE  i \notin dreamt' /\ \A s \in Ref : i \notin dream'[s].seen
      <3>1. idea[i].state = "absent" /\ i \notin Active
        BY <1>1, <2>1 DEF Active
      <3>2. ASSUME NEW s \in Ref PROVE i \notin dream'[s].seen
        <4>1. CASE s = r
          BY <1>4, <1>7, <3>1, <4>1
        <4>2. CASE s # r
          BY <1>0, <1>8, <3>1, <4>2 DEF HistoryArrived
        <4> QED BY <4>1, <4>2
      <3> QED BY <1>0, <1>1, <3>1, <3>2 DEF HistoryArrived
    <2> QED BY <2>1 DEF HistoryArrived
  <1>16. OneSound'
    BY <1>4, <1>7, <1>10, <1>12 DEF OneSound
  <1>17. Accounted'
    <2> SUFFICES ASSUME NEW i \in Active \ (late' \cup unsure')
                 PROVE  /\ \A s \in Ref : Sound(s)' =>
                              /\ i \in dream'[s].seen <=> idea'[i].at < row'.clock
                              /\ i \in dreamt' \cup Pending' <=> idea'[i].at < dream'[s].read
                        /\ (\A s \in Ref : ~Sound(s)') =>
                              (i \in dreamt' \cup Pending' <=> idea'[i].at < row'.clock)
      BY <1>6 DEF Accounted
    <2>1. i \in Active \ (late \cup unsure) /\ row.clock <= mine /\ i \in Idea /\ idea[i].at \in Nat
      BY <1>1, <1>2, <1>6
    <2>2. idea'[i] = idea[i] /\ row'.clock = mine /\ dreamt' = dreamt
      BY <1>1, <1>10
    <2>3. i \in d.seen <=> idea[i].at < mine
      BY <1>2, <1>7, <2>1 DEF Since
    <2>4. i \in Pending' <=> \/ \E s \in Ref \ {r} : Inside(s) /\ i \in dream[s].seen
                             \/ dream[r].read # row.clock /\ i \in d.seen
      BY <1>4, <1>7, <1>8, <1>12 DEF Pending
    <2>5. (\E s \in Ref \ {r} : Inside(s) /\ i \in dream[s].seen)
             <=> i \in Pending \/ \E s \in Ref : Sound(s) /\ i \in dream[s].seen
      BY <1>3 DEF Pending, Sound
    <2>6. i \in dreamt \cup Pending \/ (\E s \in Ref : Sound(s) /\ i \in dream[s].seen)
             <=> idea[i].at < row.clock
      <3>1. CASE \A s \in Ref : ~Sound(s)
        BY <1>0, <2>1, <3>1 DEF Accounted
      <3>2. ASSUME NEW s \in Ref, Sound(s)
            PROVE  i \in dreamt \cup Pending \/ (\E q \in Ref : Sound(q) /\ i \in dream[q].seen)
                      <=> idea[i].at < row.clock
        <4>1. /\ i \in dream[s].seen <=> idea[i].at < row.clock
              /\ i \in dreamt \cup Pending <=> idea[i].at < dream[s].read
          BY <1>0, <2>1, <3>2 DEF Accounted
        <4>2. row.clock = dream[s].mine /\ \A q \in Ref : Sound(q) => q = s
          BY <1>0, <3>2 DEF OneSound
        <4>3. dream[s].read \in Nat /\ dream[s].mine \in Nat /\ dream[s].read < dream[s].mine
          BY <1>0, <3>2 DEF TypeOK, Handler, Instants, ClocksInOrder, Sound, Inside
        <4>4. i \in dreamt \cup Pending => idea[i].at < row.clock
          BY <2>1, <4>1, <4>2, <4>3
        <4> QED BY <3>2, <4>1, <4>2, <4>4
      <3> QED BY <3>1, <3>2
    <2>7. CASE dream[r].read = row.clock
      <3>1. i \in dreamt' \cup Pending' <=> idea[i].at < row.clock
        BY <2>2, <2>4, <2>5, <2>6, <2>7
      <3> QED BY <1>4, <1>7, <1>12, <2>2, <2>3, <2>7, <3>1
    <2>8. CASE dream[r].read # row.clock
      <3>1. i \in dreamt' \cup Pending' <=> idea[i].at < row.clock \/ idea[i].at < mine
        BY <2>2, <2>3, <2>4, <2>5, <2>6, <2>8
      <3>2. idea[i].at < row.clock => idea[i].at < mine
        BY <1>2, <2>1
      <3> QED BY <1>12, <2>2, <2>8, <3>1, <3>2
    <2> QED BY <2>7, <2>8
  <1> QED BY <1>11, <1>13, <1>14, <1>15, <1>16, <1>17 DEF DreamInv

\* The agent's own steps stay past the lock.
LEMMA AgentDreamInv ==
  ASSUME DreamInv, NEW r \in Ref, Budget(r) \/ Model(r)
  PROVE  DreamInv'
  <1>0. TypeOK /\ ClocksInOrder /\ OneSound /\ Accounted /\ HistoryArrived /\ LeaseCovers
    BY DEF DreamInv
  <1>1. PICK p \in {"model", "release", "rollback"} :
           dream' = [dream EXCEPT ![r] = [dream[r] EXCEPT !.pc = p]]
    BY DEF Budget, Model, Step
  <1>2. dream[r] \in Handler /\ [dream[r] EXCEPT !.pc = p] \in Handler
    BY <1>0 DEF TypeOK, Handler, InsidePC
  <1>3. /\ dream' \in [Ref -> Handler] /\ dream'[r] = [dream[r] EXCEPT !.pc = p]
        /\ \A s \in Ref \ {r} : dream'[s] = dream[s]
    BY <1>0, <1>1, <1>2, StepType
  <1>4. dream[r].pc \in InsidePC /\ p \in InsidePC
    BY DEF Budget, Model, Step, InsidePC
  <1>5. SameClaim(dream'[r], dream[r])
    BY <1>2, <1>3, <1>4 DEF SameClaim, Handler
  <1>6. \A s \in Ref : SameClaim(dream'[s], dream[s])
    BY <1>3, <1>5 DEF SameClaim
  <1>7. /\ row' = row /\ claims' = claims /\ job' = job
        /\ UNCHANGED <<account, idea, optin, overran, crashes>>
    BY DEF Budget, Model, world
  <1>8. TypeOK'
    BY <1>0, <1>3, <1>7 DEF TypeOK, account
  <1>9. ClocksInOrder' /\ OneSound' /\ Accounted' /\ HistoryArrived'
    BY <1>0, <1>6, <1>7, FrameAccount
  <1>10. LeaseCovers'
    BY <1>0, <1>6, <1>7, FrameLease DEF SameClaim, Inside
  <1> QED BY <1>8, <1>9, <1>10 DEF DreamInv

\* Leaving the lock by release, by rollback or by a death: what the dream
\* had seen is dreamt, is owed again, or is taken out of the account.
LEMMA LeaveDreamInv ==
  ASSUME DreamInv, NEW r \in Ref, Release(r) \/ Rollback(r) \/ Crash(r)
  PROVE  DreamInv'
  <1> USE DreamAssumption
  <1>0. TypeOK /\ ClocksInOrder /\ OneSound /\ Accounted /\ HistoryArrived /\ LeaseCovers
    BY DEF DreamInv
  <1>a. Asleep \in Handler /\ Asleep.pc = "none" /\ Asleep.seen = {}
    <2>1. 0 \in Instants
      BY DEF Instants
    <2> QED BY <2>1, HandlerStates DEF Asleep
  <1>1. /\ UNCHANGED <<claims, late, idea, optin, overran>>
        /\ Active' = Active /\ Active \subseteq Idea
    BY DEF Release, Rollback, Crash, world, Active
  <1>2. /\ dream'[r] = Asleep /\ DOMAIN dream' = Ref /\ dream' = [s \in Ref |-> dream'[s]]
        /\ \A s \in Ref \ {r} : dream'[s] = dream[s] \/ dream'[s] = [dream[s] EXCEPT !.astray = TRUE]
        /\ \A s \in Ref \ {r} : dream'[s] # dream[s] => Rollback(r) /\ dream[r].astray
        /\ (Rollback(r) /\ dream[r].astray) =>
              \A s \in Ref \ {r} : Inside(s) => dream'[s] = [dream[s] EXCEPT !.astray = TRUE]
    <2>1. DOMAIN dream = Ref /\ DOMAIN Contested(r) = Ref
      BY <1>0 DEF TypeOK, Contested
    <2>2. CASE Release(r) \/ Crash(r)
      <3>1. dream' = [dream EXCEPT ![r] = Asleep]
        BY <2>2 DEF Release, Crash, Step
      <3>2. ~Rollback(r) \/ ~dream[r].astray \/ dream' = [Contested(r) EXCEPT ![r] = Asleep]
        BY DEF Rollback
      <3> QED BY <1>0, <2>1, <3>1, <3>2 DEF TypeOK, Contested
    <2>3. CASE Rollback(r) /\ dream[r].astray
      <3>1. dream' = [Contested(r) EXCEPT ![r] = Asleep]
        BY <2>3 DEF Rollback
      <3> QED BY <2>1, <2>3, <3>1 DEF Contested
    <2>4. CASE Rollback(r) /\ ~dream[r].astray
      <3>1. dream' = [dream EXCEPT ![r] = Asleep]
        BY <2>4 DEF Rollback
      <3> QED BY <1>0, <2>1, <2>4, <3>1 DEF TypeOK
    <2> QED BY <2>2, <2>3, <2>4
  <1>3. ASSUME NEW s \in Ref \ {r}
        PROVE  /\ dream'[s] \in Handler /\ dream'[s].pc = dream[s].pc
               /\ dream'[s].read = dream[s].read /\ dream'[s].mine = dream[s].mine
               /\ dream'[s].seen = dream[s].seen
               /\ Sound(s)' => Sound(s)
               /\ (Rollback(r) /\ dream[r].astray) => ~Sound(s)'
               /\ ~(Rollback(r) /\ dream[r].astray) => dream'[s] = dream[s]
    <2>1. dream[s] \in Handler
      BY <1>0 DEF TypeOK
    <2>2. CASE dream'[s] = dream[s]
      <3>1. ASSUME Rollback(r), dream[r].astray, Sound(s)' PROVE FALSE
        <4>1. Inside(s)
          BY <2>2, <3>1 DEF Sound, Inside
        <4>2. dream'[s].astray
          BY <1>2, <2>1, <3>1, <4>1 DEF Handler
        <4> QED BY <3>1, <4>2 DEF Sound
      <3> QED BY <2>1, <2>2, <3>1 DEF Sound, Inside
    <2>3. CASE dream'[s] = [dream[s] EXCEPT !.astray = TRUE]
      BY <1>2, <2>1, <2>3 DEF Handler, Sound, Inside
    <2> QED BY <1>2, <2>2, <2>3
  <1>4. dream' \in [Ref -> Handler]
    BY <1>2, <1>3, <1>a
  <1>5. ~Inside(r)' /\ ~Sound(r)' /\ \A s \in Ref \ {r} : Inside(s)' <=> Inside(s)
    BY <1>2, <1>3, <1>a DEF Inside, InsidePC, Sound
  <1>6. /\ row \in Row /\ dream[r] \in Handler
        /\ dream[r].read \in Instants /\ dream[r].age \in Ages /\ 0 \in 0..LeaseTicks
        /\ row.clock \in Nat /\ dream[r].read \in Nat /\ dream[r].mine \in Nat /\ claims \in Nat
    BY <1>0 DEF TypeOK, Row, Handler, Instants
  <1>7. row' \in Row /\ (row'.clock = row.clock \/ (Rollback(r) /\ row'.clock = dream[r].read))
    <2>1. CASE Release(r)
      <3>1. row' = [row EXCEPT !.held = FALSE, !.left = 0]
        BY <2>1 DEF Release
      <3>2. row' \in Row
        BY <1>6, <3>1, RowUpdate
      <3> QED BY <1>6, <3>1, <3>2 DEF Row
    <2>2. CASE Rollback(r)
      <3>1. row' = [row EXCEPT !.clock = dream[r].read, !.age = dream[r].age, !.held = FALSE, !.left = 0]
        BY <2>2 DEF Rollback, Rewound
      <3>2. row' \in Row
        BY <1>6, <3>1, RowUpdate
      <3> QED BY <1>6, <2>2, <3>1, <3>2 DEF Row
    <2>3. CASE Crash(r)
      BY <1>6, <2>3 DEF Crash
    <2> QED BY <2>1, <2>2, <2>3
  <1>8. /\ dreamt' \subseteq Idea /\ unsure' \subseteq Idea /\ unsure \subseteq unsure'
        /\ dreamt \subseteq dreamt' /\ dreamt' \subseteq dreamt \cup dream[r].seen
    <2>1. dream[r].seen \subseteq Idea /\ dreamt \subseteq Idea /\ unsure \subseteq Idea
      BY <1>0, <1>6 DEF TypeOK, Handler
    <2> QED BY <1>1, <2>1 DEF Release, Rollback, Crash
  <1>9. TypeOK'
    <2>1. job' \in [Ref -> {"none", "pending", "running"}] /\ crashes' \in 0..MaxCrash
      BY <1>0 DEF TypeOK, Release, Rollback, Crash, world
    <2> QED BY <1>0, <1>1, <1>4, <1>7, <1>8, <2>1 DEF TypeOK
  <1>10. LeaseCovers'
    <2>1. CASE Inside(r)
      BY <1>0, <1>1, <1>5, <2>1 DEF LeaseCovers
    <2>2. CASE ~Inside(r)
      <3>1. row' = row
        BY <2>2 DEF Release, Rollback, Crash, Step, Inside, InsidePC
      <3> QED BY <1>0, <1>1, <1>5, <3>1 DEF LeaseCovers
    <2> QED BY <2>1, <2>2
  <1>11. Rollback(r) => dream[r].read < dream[r].mine /\ dream[r].mine <= claims /\ Inside(r)
    BY <1>0 DEF ClocksInOrder, Rollback, Inside, InsidePC
  <1>12. ClocksInOrder'
    <2>1. row'.clock <= claims'
      BY <1>0, <1>1, <1>6, <1>7, <1>11 DEF ClocksInOrder
    <2>2. ASSUME NEW s \in Ref, dream'[s].pc \in {"claim"} \cup InsidePC
          PROVE  dream'[s].read < dream'[s].mine /\ dream'[s].mine <= claims'
      <3>1. s # r
        BY <1>2, <1>a, <2>2 DEF InsidePC
      <3> QED BY <1>0, <1>1, <1>3, <2>2, <3>1 DEF ClocksInOrder
    <2> QED BY <2>1, <2>2 DEF ClocksInOrder
  <1>13. HistoryArrived'
    <2>1. ASSUME NEW i \in Idea, idea'[i].state = "absent"
          PROVE  i \notin dreamt' /\ \A s \in Ref : i \notin dream'[s].seen
      <3>1. i \notin dreamt /\ \A s \in Ref : i \notin dream[s].seen
        BY <1>0, <1>1, <2>1 DEF HistoryArrived
      <3> QED BY <1>2, <1>3, <1>8, <1>a, <3>1
    <2> QED BY <2>1 DEF HistoryArrived
  <1>14. ASSUME NEW s \in Ref, Sound(s)'
         PROVE  s # r /\ Sound(s) /\ dream'[s] = dream[s] /\ row'.clock = row.clock
    <2>1. s # r /\ Sound(s) /\ ~(Rollback(r) /\ dream[r].astray)
      BY <1>3, <1>5, <1>14
    <2>2. ~Rollback(r)
      BY <1>0, <1>11, <2>1 DEF OneSound, Sound
    <2> QED BY <1>3, <1>7, <2>1, <2>2
  <1>15. OneSound'
    BY <1>0, <1>14 DEF OneSound
  <1>16. Accounted'
    <2> SUFFICES ASSUME NEW i \in Active \ (late' \cup unsure')
                 PROVE  /\ \A s \in Ref : Sound(s)' =>
                              /\ i \in dream'[s].seen <=> idea'[i].at < row'.clock
                              /\ i \in dreamt' \cup Pending' <=> idea'[i].at < dream'[s].read
                        /\ (\A s \in Ref : ~Sound(s)') =>
                              (i \in dreamt' \cup Pending' <=> idea'[i].at < row'.clock)
      BY <1>1 DEF Accounted
    <2>1. i \in Active \ (late \cup unsure) /\ idea'[i] = idea[i] /\ idea[i].at \in Nat
      BY <1>0, <1>1, <1>8 DEF TypeOK, Instants
    <2>2. ~(Rollback(r) /\ dream[r].astray)
      BY DEF Rollback
    <2>3. \A s \in Ref \ {r} : dream'[s] = dream[s]
      BY <1>3, <2>2
    <2>4. Crash(r) => i \notin dream[r].seen
      BY DEF Crash
    <2>5. i \in Pending' <=> \E s \in Ref \ {r} : Inside(s) /\ dream[s].astray /\ i \in dream[s].seen
      BY <1>5, <2>3 DEF Pending
    <2>6. i \in Pending <=> \/ \E s \in Ref \ {r} : Inside(s) /\ dream[s].astray /\ i \in dream[s].seen
                            \/ Inside(r) /\ dream[r].astray /\ i \in dream[r].seen
      BY DEF Pending
    <2>7. \A s \in Ref \ {r} : Sound(s)' <=> Sound(s)
      BY <2>3 DEF Sound, Inside
    <2>8. CASE ~Sound(r)
      <3>1. ~Rollback(r)
        BY <1>11, <2>2, <2>8 DEF Sound
      <3>2. row'.clock = row.clock
        BY <1>7, <3>1
      <3>3. Release(r) => Inside(r) /\ dream[r].astray /\ dreamt' = dreamt \cup dream[r].seen
        BY <2>8 DEF Release, Step, Sound, Inside, InsidePC
      <3>4. Crash(r) /\ ~Release(r) => dreamt' = dreamt
        BY DEF Crash
      <3>5. i \in dreamt' \cup Pending' <=> i \in dreamt \cup Pending
        BY <2>4, <2>5, <2>6, <3>1, <3>3, <3>4
      <3> QED BY <1>0, <1>5, <2>1, <2>3, <2>7, <2>8, <3>2, <3>5 DEF Accounted
    <2>9. CASE Sound(r)
      <3>1. /\ \A s \in Ref : ~Sound(s)'
            /\ Inside(r) /\ ~dream[r].astray /\ row.clock = dream[r].mine
            /\ dream[r].read < dream[r].mine
        BY <1>0, <1>5, <2>7, <2>9 DEF OneSound, Sound, ClocksInOrder, Inside
      <3>2. i \in Pending' <=> i \in Pending
        BY <2>5, <2>6, <3>1
      <3>3. /\ i \in dream[r].seen <=> idea[i].at < row.clock
            /\ i \in dreamt \cup Pending <=> idea[i].at < dream[r].read
        BY <1>0, <2>1, <2>9 DEF Accounted
      <3>4. i \in dreamt \cup Pending => idea[i].at < row.clock
        BY <1>6, <2>1, <3>1, <3>3
      <3>5. CASE Release(r)
        <4>1. dreamt' = dreamt \cup dream[r].seen /\ ~Rollback(r)
          BY <3>5 DEF Release, Step, Rollback
        <4> QED BY <1>7, <2>1, <3>1, <3>2, <3>3, <3>4, <4>1
      <3>6. CASE Rollback(r)
        <4>1. dreamt' = dreamt /\ row'.clock = dream[r].read
          BY <1>6, <3>6 DEF Rollback, Rewound, Row
        <4> QED BY <2>1, <3>1, <3>2, <3>3, <4>1
      <3>7. CASE Crash(r)
        <4>1. dreamt' = dreamt /\ row' = row
          BY <3>7 DEF Crash
        <4> QED BY <2>1, <2>4, <3>1, <3>2, <3>3, <3>4, <3>7, <4>1
      <3> QED BY <3>5, <3>6, <3>7
    <2> QED BY <2>8, <2>9
  <1> QED BY <1>9, <1>10, <1>12, <1>13, <1>15, <1>16 DEF DreamInv

\* Every step keeps the inductive invariant.
LEMMA NextDreamInv == DreamInv /\ [Next]_vars => DreamInv'
  <1> SUFFICES ASSUME DreamInv, [Next]_vars PROVE DreamInv'
    OBVIOUS
  <1>1. CASE UNCHANGED vars
    <2>1. /\ row' = row /\ claims' = claims /\ dream' = dream /\ job' = job
          /\ UNCHANGED <<account, idea, optin, overran, crashes>>
      BY <1>1 DEF vars, world
    <2>2. TypeOK' /\ LeaseCovers'
      BY <2>1 DEF DreamInv, TypeOK, LeaseCovers, Inside, account
    <2>3. ClocksInOrder' /\ OneSound' /\ Accounted' /\ HistoryArrived'
      BY <2>1, FrameAccount DEF DreamInv, SameClaim
    <2> QED BY <2>2, <2>3 DEF DreamInv
  <1>2. ASSUME NEW i \in Idea, Deactivate(i) \/ \E at \in Instants : Capture(i, at)
        PROVE  DreamInv'
    BY <1>2, CaptureDreamInv
  <1>3. CASE Tick
    BY <1>3, TickDreamInv
  <1>4. CASE SetDream \/ CronTick
    BY <1>4, DreamAssumption, OutsideDreamInv DEF CronTick
  <1>5. ASSUME NEW r \in Ref, RunManual(r) \/ Claim(r) \/ DreamStep(r) \/ Crash(r)
        PROVE  DreamInv'
    BY <1>5, OutsideDreamInv, TryAcquireDreamInv, AgentDreamInv, LeaveDreamInv
    DEF RunManual, DreamStep
  <1> QED BY <1>1, <1>2, <1>3, <1>4, <1>5 DEF Next

\* The row's lease covers every dream past the lock, and every capture is
\* dreamt, owed, or in the hands of such a dream, in every reachable state.
THEOREM DreamInvariant == Spec => []DreamInv
  BY InitDreamInv, NextDreamInv, PTL DEF Spec

\* Two dreams of a tenant are never both past try_acquire, however many
\* debounce keys enqueue them, unless one of them outlived its lease.
THEOREM OneDreamAtATime == Spec => []OneDream
  <1>1. DreamInv => OneDream
    <2> SUFFICES ASSUME DreamInv, ~overran
                 PROVE  Cardinality({r \in Ref : Inside(r)}) <= 1
      BY DEF OneDream
    <2>1. CASE {r \in Ref : Inside(r)} = {}
      BY <2>1, FS_EmptySet
    <2>2. CASE {r \in Ref : Inside(r)} # {}
      <3>1. PICK r \in Ref : Inside(r)
        BY <2>2
      <3>2. {s \in Ref : Inside(s)} = {r}
        BY <3>1 DEF DreamInv, LeaseCovers
      <3> QED BY <3>2, FS_Singleton
    <2> QED BY <2>1, <2>2
  <1> QED BY <1>1, DreamInvariant, PTL

\* Outside a dream the session gate counts a capture exactly if no dream that
\* succeeded had claimed over it, whatever failed, crashed, overran or was
\* retried meanwhile.  Left out are the captures that arrived stamped before
\* the clock, those a dream that died past the lock had claimed over, and
\* those there when a clock was rewound that another dream had moved.
THEOREM NoCaptureForgotten == Spec => []NoneForgotten
  <1>1. DreamInv => NoneForgotten
    <2> SUFFICES ASSUME DreamInv, \A r \in Ref : ~Inside(r),
                        NEW i \in Active \ (late \cup unsure)
                 PROVE  i \in Since(row.clock) <=> i \notin dreamt
      BY DEF NoneForgotten
    <2>1. (\A r \in Ref : ~Sound(r)) /\ i \notin Pending
      BY DEF Sound, Pending
    <2>2. i \in dreamt <=> idea[i].at < row.clock
      BY <2>1 DEF DreamInv, Accounted
    <2>3. idea[i].at \in Nat /\ row.clock \in Nat
      BY DreamAssumption DEF DreamInv, TypeOK, Row, Instants, Active
    <2> QED BY <2>2, <2>3 DEF Since
  <1> QED BY <1>1, DreamInvariant, PTL

----------------------------------------------------------------------------
(* The transcript of a turn.                                               *)

\* A function on an initial segment of the positive numbers is a sequence.
LEMMA FunctionIsSequence ==
  ASSUME NEW S, NEW n \in Nat, NEW f \in [1..n -> S]
  PROVE  f \in Seq(S) /\ Len(f) = n /\ DOMAIN f = 1..n
  OBVIOUS

\* What a sequence holds.
LEMMA ElementOf ==
  ASSUME NEW S, NEW s \in Seq(S), NEW i \in DOMAIN s
  PROVE  s[i] \in S
  OBVIOUS

\* A message without calls: the system prompt, a question, the last instruction.
LEMMA PlainMessage ==
  ASSUME NEW role \in {"system", "user", "assistant", "tool"}, NEW text \in Seq(Nat)
  PROVE  /\ Message(role, text) \in Messages
         /\ Message(role, text).role = role /\ Message(role, text).calls = <<>>
         /\ Message(role, text).tool = None /\ Message(role, text).text = text
         /\ Message(role, text).of = NoId /\ Message(role, text).data = NoData
         /\ Message(role, text).ran = None
  <1>1. <<>> \in Seq([id : Id, tool : STRING, valid : BOOLEAN]) /\ <<>> \in Seq(Nat)
    OBVIOUS
  <1>2. NoId \in Id
    BY DEF Id
  <1> QED BY <1>1, <1>2 DEF Message, Messages, NoData

\* What read back from a wire is an assistant message whose calls have the
\* provider's ids, told apart by the round and their place.
LEMMA ReadMessage ==
  ASSUME TranscriptTypeOK, pc = "sent", NEW r \in Reply
  PROVE  /\ Normalized(r, round + 1) \in Messages
         /\ Normalized(r, round + 1).role = "assistant" /\ Normalized(r, round + 1).tool = None
         /\ DOMAIN Normalized(r, round + 1).calls = DOMAIN r.calls
         /\ \A k \in DOMAIN r.calls :
              Normalized(r, round + 1).calls[k].id \in {NoId, <<round + 1, k>>}
  <1> DEFINE n == round + 1
             calls == [i \in DOMAIN r.calls |->
                         [id |-> IF r.calls[i].named THEN <<n, i>> ELSE NoId,
                          tool |-> r.calls[i].tool, valid |-> r.calls[i].valid]]
             text == IF r.text THEN Fresh ELSE <<>>
             plain == Message("assistant", text)
  <1>1. n \in Nat /\ body.wire \in Wire
    <2>1. round \in Nat
      BY TranscriptAssumption DEF TranscriptTypeOK
    <2>2. Head(chain) \in Wire
      BY DEF TranscriptTypeOK
    <2> QED BY <2>1, <2>2 DEF TranscriptTypeOK
  <1>2. r.calls \in Seq(ToolCall) /\ r.text \in BOOLEAN /\ r.reasoned \in BOOLEAN
    BY TranscriptAssumption
  <1>3. calls \in Seq([id : Id, tool : STRING, valid : BOOLEAN])
    <2>1. DOMAIN r.calls = 1..Len(r.calls) /\ Len(r.calls) \in Nat
      BY <1>2
    <2>2. \A i \in DOMAIN r.calls : calls[i] \in [id : Id, tool : STRING, valid : BOOLEAN]
      <3>1. ASSUME NEW i \in DOMAIN r.calls
            PROVE  calls[i] \in [id : Id, tool : STRING, valid : BOOLEAN]
        <4>1. r.calls[i] \in ToolCall
          BY <1>2
        <4>2. <<n, i>> \in Id /\ NoId \in Id
          BY <1>1, <2>1 DEF Id
        <4> QED BY <4>1, <4>2 DEF ToolCall
      <3> QED BY <3>1
    <2>3. calls \in [1..Len(r.calls) -> [id : Id, tool : STRING, valid : BOOLEAN]]
      BY <2>1, <2>2
    <2> HIDE DEF calls
    <2> QED BY <2>1, <2>3, FunctionIsSequence
  <1>4. text \in Seq(Nat)
    <2>1. Len(msgs) + 1 \in Nat
      BY DEF TranscriptTypeOK
    <2>2. Fresh \in Seq(Nat) /\ <<>> \in Seq(Nat)
      BY <2>1 DEF Fresh
    <2> QED BY <2>2
  <1>5. plain \in Messages /\ plain.role = "assistant" /\ plain.tool = None
    BY <1>4, PlainMessage
  <1>6. Read(r, n) = [plain EXCEPT !.calls = calls]
    BY DEF Read
  <1> HIDE DEF plain
  <1>7. Read(r, n) \in Messages /\ Read(r, n).role = "assistant" /\ Read(r, n).tool = None
        /\ Read(r, n).calls = calls
    BY <1>3, <1>5, <1>6 DEF Messages
  <1>8. ASSUME NEW key \in {"none", "reasoning_content", "anthropic_content_blocks",
                            "responses_reasoning_items"}
        PROVE  LET m == [Read(r, n) EXCEPT !.data = Kept(r, n, key)] IN
               m \in Messages /\ m.role = "assistant" /\ m.tool = None /\ m.calls = calls
    <2>1. Kept(r, n, key) \in [key : {"none", "reasoning_content", "anthropic_content_blocks",
                                     "responses_reasoning_items"}, items : Seq(Nat)]
      <3>1. <<n>> \in Seq(Nat) /\ <<>> \in Seq(Nat)
        BY <1>1
      <3> QED BY <1>2, <3>1 DEF Kept, NoData
    <2> HIDE DEF calls
    <2> QED BY <1>7, <2>1 DEF Messages
  <1>9. LET m == Normalized(r, n) IN
        m \in Messages /\ m.role = "assistant" /\ m.tool = None /\ m.calls = calls
    <2> HIDE DEF calls, n
    <2>1. Normalized(r, n) \in {[Read(r, n) EXCEPT !.data = Kept(r, n, key)] :
             key \in {"none", "reasoning_content", "anthropic_content_blocks", "responses_reasoning_items"}}
      BY <1>1 DEF Normalized, FromChat, FromAnthropic, FromResponses, Wire
    <2> QED BY <1>8, <2>1
  <1>10. \A k \in DOMAIN r.calls : calls[k].id \in {NoId, <<n, k>>}
    OBVIOUS
  <1> QED BY <1>9, <1>10

\* A tool message names its call and its tool, and the executor of a recall
\* turn ran what the turn was offered.
LEMMA ResultMessage ==
  ASSUME TranscriptTypeOK, NEW c \in [id : Id, tool : STRING, valid : BOOLEAN],
         NEW works \in BOOLEAN, NEW n \in Nat
  PROVE  LET m == ToolMessage(c, works, n) IN
         /\ m \in Messages /\ m.role = "tool" /\ m.calls = <<>>
         /\ m.of = c.id /\ m.tool = c.tool
         /\ Executes /\ m.tool \in Advertised => m.ran \in {"ok", "error"}
  <1> DEFINE ran == IF Executes THEN Executed(c, works) ELSE "stub"
             plain == Message("tool", <<n>>)
  <1>1. plain \in Messages /\ plain.role = "tool" /\ plain.calls = <<>>
    <2>1. <<n>> \in Seq(Nat)
      OBVIOUS
    <2> QED BY <2>1, PlainMessage
  <1>2. ran \in {None, "ok", "error", "disabled", "unknown", "stub"}
    BY DEF Executed, Searched, PageRead, Surfed, WebTools
  <1>3. Executes /\ c.tool \in Advertised => ran \in {"ok", "error"}
    BY DEF Executes, Executed, Searched, PageRead, Surfed, WebTools, ReadTools, Advertised, Policy
  <1>4. ToolMessage(c, works, n) = [plain EXCEPT !.of = c.id, !.tool = c.tool, !.ran = ran]
    BY DEF ToolMessage
  <1> HIDE DEF plain, ran
  <1> QED BY <1>1, <1>2, <1>3, <1>4 DEF Messages

\* What messages appended to the transcript leave alone.
LEMMA Longer ==
  ASSUME TranscriptTypeOK, NEW new \in Seq(Messages), msgs' = msgs \o new
  PROVE  /\ msgs' \in Seq(Messages) \ {<<>>} /\ Len(msgs) \in Nat \ {0}
         /\ Len(msgs') = Len(msgs) + Len(new)
         /\ DOMAIN msgs = 1..Len(msgs) /\ DOMAIN msgs' = 1..Len(msgs) + Len(new)
         /\ \A i \in DOMAIN msgs : i \in DOMAIN msgs' /\ msgs'[i] = msgs[i]
         /\ \A i \in DOMAIN new : msgs'[Len(msgs) + i] = new[i]
         /\ \A i \in DOMAIN msgs' : i \in DOMAIN msgs \/ i - Len(msgs) \in DOMAIN new
  <1>1. msgs \in Seq(Messages) /\ msgs # <<>>
    BY DEF TranscriptTypeOK
  <1>2. Len(msgs) \in Nat \ {0} /\ DOMAIN msgs = 1..Len(msgs)
        /\ Len(new) \in Nat /\ DOMAIN new = 1..Len(new)
    BY <1>1
  <1>3. msgs' \in Seq(Messages) /\ Len(msgs') = Len(msgs) + Len(new)
    BY <1>1
  <1>4. msgs' # <<>> /\ DOMAIN msgs' = 1..Len(msgs) + Len(new)
    BY <1>2, <1>3
  <1>5. /\ \A i \in DOMAIN msgs : msgs'[i] = msgs[i]
        /\ \A i \in DOMAIN new : msgs'[Len(msgs) + i] = new[i]
    BY <1>1, <1>2
  <1>6. \A i \in DOMAIN msgs : i \in DOMAIN msgs'
    BY <1>2, <1>4
  <1>7. \A i \in DOMAIN msgs' : i \in DOMAIN msgs \/ i - Len(msgs) \in DOMAIN new
    BY <1>2, <1>4
  <1> QED BY <1>2, <1>3, <1>4, <1>5, <1>6, <1>7

\* What was paired stays so, whatever is appended.
LEMMA OldPairs ==
  ASSUME TranscriptInv, NEW new \in Seq(Messages), msgs' = msgs \o new
  PROVE  /\ \A i \in DOMAIN msgs : \A k \in DOMAIN msgs[i].calls :
              i # Len(msgs) \/ pc \notin {"tools", "done"} =>
                i + k <= Len(msgs') /\ msgs'[i + k].role = "tool" /\ Answers(i + k, k)'
         /\ \A j \in DOMAIN msgs : msgs[j].role = "tool" => \E k \in 1..j - 1 : Answers(j, k)'
         /\ \A i \in DOMAIN msgs : \A k \in DOMAIN msgs[i].calls : k \in Nat \ {0}
  <1>1. /\ Len(msgs) \in Nat \ {0} /\ Len(new) \in Nat /\ Len(msgs') = Len(msgs) + Len(new)
        /\ DOMAIN msgs = 1..Len(msgs)
        /\ \A i \in DOMAIN msgs : msgs'[i] = msgs[i]
    BY Longer DEF TranscriptInv
  <1>2. ASSUME NEW j \in DOMAIN msgs, NEW k \in 1..j - 1, Answers(j, k)
        PROVE  Answers(j, k)'
    <2>1. j - k \in DOMAIN msgs
      BY <1>1
    <2> QED BY <1>1, <1>2, <2>1 DEF Answers
  <1>3. ASSUME NEW i \in DOMAIN msgs, NEW k \in DOMAIN msgs[i].calls
        PROVE  k \in Nat \ {0}
    <2>1. msgs[i] \in Messages
      BY DEF TranscriptInv, TranscriptTypeOK
    <2>2. msgs[i].calls \in Seq([id : Id, tool : STRING, valid : BOOLEAN])
      BY <2>1 DEF Messages
    <2> QED BY <2>2
  <1>4. ASSUME NEW i \in DOMAIN msgs, NEW k \in DOMAIN msgs[i].calls,
               i # Len(msgs) \/ pc \notin {"tools", "done"}
        PROVE  i + k <= Len(msgs') /\ msgs'[i + k].role = "tool" /\ Answers(i + k, k)'
    <2>1. i + k <= Len(msgs) /\ msgs[i + k].role = "tool" /\ Answers(i + k, k)
      BY <1>4 DEF TranscriptInv, CallsPaired
    <2>2. k \in Nat \ {0}
      BY <1>3
    <2>3. i + k \in DOMAIN msgs /\ k \in 1..(i + k) - 1 /\ i + k <= Len(msgs')
      BY <1>1, <2>1, <2>2
    <2> QED BY <1>1, <1>2, <2>1, <2>3
  <1>5. ASSUME NEW j \in DOMAIN msgs, msgs[j].role = "tool"
        PROVE  \E k \in 1..j - 1 : Answers(j, k)'
    <2>1. PICK k \in 1..j - 1 : Answers(j, k)
      BY <1>5 DEF TranscriptInv, CallsPaired
    <2> QED BY <1>2, <2>1
  <1> QED BY <1>3, <1>4, <1>5

\* The parts of the next state's pairing, put together.
LEMMA PairedParts ==
  ASSUME \A i \in DOMAIN msgs' : \A k \in DOMAIN msgs'[i].calls :
           \/ i = Len(msgs') /\ pc' \in {"tools", "done"}
           \/ i + k <= Len(msgs') /\ msgs'[i + k].role = "tool" /\ Answers(i + k, k)',
         \A j \in DOMAIN msgs' : msgs'[j].role = "tool" => \E k \in 1..j - 1 : Answers(j, k)',
         \A i, j \in DOMAIN msgs' : \A k \in DOMAIN msgs'[i].calls, l \in DOMAIN msgs'[j].calls :
           msgs'[i].calls[k].id = msgs'[j].calls[l].id /\ msgs'[i].calls[k].id # NoId => i = j /\ k = l
  PROVE  CallsPaired'
  BY DEF CallsPaired

\* The seam of a turn is fixed, and what is no tool is never offered.
LEMMA SeamFixed ==
  ASSUME seam' = seam
  PROVE  Executes' = Executes /\ Advertised' = Advertised /\ (Executes => None \notin Advertised)
  <1>1. Executes' = Executes /\ Advertised' = Advertised
    BY DEF Executes, Advertised, Policy
  <1>2. Executes => None \notin Advertised
    BY TranscriptAssumption DEF Executes, Advertised, Policy
  <1> QED BY <1>1, <1>2

\* A message that is no result, appended while no call waits: a question, or
\* the model's answer, whose calls then wait.
LEMMA OneAppended ==
  ASSUME TranscriptInv, pc \in {"ask", "sent"}, NEW m \in Messages, m.role # "tool", m.tool = None,
         msgs' = Append(msgs, m), seam' = seam, round' \in Nat, round <= round',
         m.calls # <<>> => pc' \in {"tools", "done"} /\ round' = round + 1,
         \A k \in DOMAIN m.calls : m.calls[k].id \in {NoId, <<round', k>>}
  PROVE  CallsPaired' /\ IdsByRound' /\ Outcomes' /\ msgs' \in Seq(Messages) \ {<<>>}
  <1> DEFINE new == <<m>>
  <1>1. new \in Seq(Messages) /\ Len(new) = 1 /\ DOMAIN new = {1} /\ new[1] = m
    OBVIOUS
  <1>2. msgs' = msgs \o new
    BY DEF TranscriptInv, TranscriptTypeOK
  <1> HIDE DEF new
  <1>3. /\ msgs' \in Seq(Messages) \ {<<>>} /\ Len(msgs) \in Nat \ {0}
        /\ Len(msgs') = Len(msgs) + 1
        /\ DOMAIN msgs = 1..Len(msgs) /\ DOMAIN msgs' = 1..Len(msgs) + 1
        /\ \A i \in DOMAIN msgs : i \in DOMAIN msgs' /\ msgs'[i] = msgs[i]
        /\ msgs'[Len(msgs) + 1] = m
    BY <1>1, <1>2, Longer DEF TranscriptInv
  <1>4. \A i \in DOMAIN msgs' : i \in DOMAIN msgs \/ i = Len(msgs')
    BY <1>3
  <1>5. m.calls = <<>> => DOMAIN m.calls = {}
    OBVIOUS
  <1>6. round \in Nat
    BY TranscriptAssumption DEF TranscriptInv, TranscriptTypeOK
  <1>7. ASSUME NEW i \in DOMAIN msgs', NEW k \in DOMAIN msgs'[i].calls
        PROVE  \/ i = Len(msgs') /\ pc' \in {"tools", "done"}
               \/ i + k <= Len(msgs') /\ msgs'[i + k].role = "tool" /\ Answers(i + k, k)'
    <2>1. CASE i \in DOMAIN msgs
      BY <1>2, <1>1, <1>3, <2>1, OldPairs
    <2>2. CASE i = Len(msgs')
      BY <1>3, <1>5, <2>2
    <2> QED BY <1>4, <2>1, <2>2
  <1>8. ASSUME NEW j \in DOMAIN msgs', msgs'[j].role = "tool"
        PROVE  \E k \in 1..j - 1 : Answers(j, k)'
    <2>1. j \in DOMAIN msgs /\ msgs[j].role = "tool"
      BY <1>3, <1>4, <1>8
    <2> QED BY <1>1, <1>2, <2>1, OldPairs
  <1>9. ASSUME NEW i \in DOMAIN msgs, NEW k \in DOMAIN msgs[i].calls, msgs[i].calls[k].id # NoId
        PROVE  \E n \in 1..round : msgs[i].calls[k].id = <<n, k>>
    BY <1>9 DEF TranscriptInv, IdsByRound
  <1>10. IdsByRound'
    <2>1. ASSUME NEW i \in DOMAIN msgs', NEW k \in DOMAIN msgs'[i].calls, msgs'[i].calls[k].id # NoId
          PROVE  \E n \in 1..round' : msgs'[i].calls[k].id = <<n, k>>
      <3>1. CASE i \in DOMAIN msgs
        <4>1. PICK n \in 1..round : msgs[i].calls[k].id = <<n, k>>
          BY <1>3, <1>9, <2>1, <3>1
        <4>2. n \in 1..round'
          BY <1>6
        <4> QED BY <1>3, <3>1, <4>1, <4>2
      <3>2. CASE i = Len(msgs')
        <4>1. k \in DOMAIN m.calls /\ round' \in 1..round'
          BY <1>3, <1>5, <1>6, <2>1, <3>2
        <4> QED BY <1>3, <2>1, <3>2, <4>1
      <3> QED BY <1>4, <3>1, <3>2
    <2> QED BY <2>1 DEF IdsByRound
  <1>11. ASSUME NEW i \in DOMAIN msgs', NEW j \in DOMAIN msgs',
                NEW k \in DOMAIN msgs'[i].calls, NEW l \in DOMAIN msgs'[j].calls,
                msgs'[i].calls[k].id = msgs'[j].calls[l].id, msgs'[i].calls[k].id # NoId
         PROVE  i = j /\ k = l
    <2>1. CASE i \in DOMAIN msgs /\ j \in DOMAIN msgs
      BY <1>3, <1>11, <2>1 DEF TranscriptInv, CallsPaired
    <2>2. CASE i = Len(msgs') /\ j = Len(msgs')
      BY <1>3, <1>11, <2>2
    <2>3. ASSUME NEW a \in DOMAIN msgs, NEW b \in DOMAIN msgs[a].calls, NEW c \in DOMAIN m.calls,
                 msgs[a].calls[b].id = m.calls[c].id, m.calls[c].id # NoId
          PROVE  FALSE
      <3>1. PICK n \in 1..round : msgs[a].calls[b].id = <<n, b>>
        BY <1>9, <2>3
      <3>2. m.calls[c].id = <<round', c>> /\ round' = round + 1
        BY <1>5, <2>3
      <3>3. <<n, b>> = <<round', c>>
        BY <2>3, <3>1, <3>2
      <3>4. n = round'
        BY <3>3
      <3> QED BY <1>6, <3>1, <3>2, <3>4
    <2>4. CASE i \in DOMAIN msgs /\ j = Len(msgs')
      BY <1>3, <1>11, <2>3, <2>4
    <2>5. CASE i = Len(msgs') /\ j \in DOMAIN msgs
      BY <1>3, <1>11, <2>3, <2>5
    <2> QED BY <1>4, <2>1, <2>2, <2>4, <2>5
  <1>12. CallsPaired'
    <2>1. \A i, j \in DOMAIN msgs' : \A k \in DOMAIN msgs'[i].calls, l \in DOMAIN msgs'[j].calls :
            msgs'[i].calls[k].id = msgs'[j].calls[l].id /\ msgs'[i].calls[k].id # NoId => i = j /\ k = l
      BY <1>11
    <2> QED BY <1>7, <1>8, <2>1, PairedParts
  <1>13. Outcomes'
    BY <1>3, <1>4, SeamFixed DEF Outcomes, TranscriptInv
  <1> QED BY <1>3, <1>10, <1>12, <1>13

\* The results of the waiting calls, appended in the calls' order.
LEMMA ResultsAppended ==
  ASSUME TranscriptInv, Tools
  PROVE  CallsPaired' /\ IdsByRound' /\ Outcomes' /\ msgs' \in Seq(Messages) \ {<<>>}
  <1> DEFINE calls == Last(msgs).calls
  <1>1. /\ msgs \in Seq(Messages) /\ msgs # <<>> /\ Len(msgs) \in Nat \ {0}
        /\ DOMAIN msgs = 1..Len(msgs) /\ Last(msgs) = msgs[Len(msgs)]
    BY DEF TranscriptInv, TranscriptTypeOK, Last
  <1>2. calls \in Seq([id : Id, tool : STRING, valid : BOOLEAN])
    <2>1. Last(msgs) \in Messages
      BY <1>1
    <2> QED BY <2>1 DEF Messages
  <1>3. PICK works \in [DOMAIN calls -> BOOLEAN] :
          msgs' = msgs \o [i \in DOMAIN calls |-> ToolMessage(calls[i], works[i], Len(msgs) + i)]
    BY DEF Tools
  <1> DEFINE new == [i \in DOMAIN calls |-> ToolMessage(calls[i], works[i], Len(msgs) + i)]
  <1>4. DOMAIN calls = 1..Len(calls) /\ Len(calls) \in Nat
    BY <1>2
  <1> HIDE DEF calls
  <1>5. ASSUME NEW i \in DOMAIN calls
        PROVE  /\ new[i] \in Messages /\ new[i].role = "tool" /\ new[i].calls = <<>>
               /\ new[i].of = calls[i].id /\ new[i].tool = calls[i].tool
               /\ Executes /\ new[i].tool \in Advertised => new[i].ran \in {"ok", "error"}
    <2>1. calls[i] \in [id : Id, tool : STRING, valid : BOOLEAN]
      BY <1>2, ElementOf
    <2>2. works[i] \in BOOLEAN
      BY <1>3
    <2>3. Len(msgs) + i \in Nat
      BY <1>1, <1>4
    <2>4. new[i] = ToolMessage(calls[i], works[i], Len(msgs) + i)
      OBVIOUS
    <2> HIDE DEF new
    <2> QED BY <2>1, <2>2, <2>3, <2>4, ResultMessage DEF TranscriptInv
  <1>6. new \in Seq(Messages) /\ Len(new) = Len(calls) /\ DOMAIN new = DOMAIN calls
    <2>1. new \in [1..Len(calls) -> Messages]
      BY <1>4, <1>5
    <2> HIDE DEF new
    <2> QED BY <1>4, <2>1, FunctionIsSequence
  <1>7. msgs' = msgs \o new
    BY <1>3
  <1> HIDE DEF new
  <1>8. /\ msgs' \in Seq(Messages) \ {<<>>} /\ Len(msgs') = Len(msgs) + Len(calls)
        /\ DOMAIN msgs' = 1..Len(msgs) + Len(calls)
        /\ \A i \in DOMAIN msgs : i \in DOMAIN msgs' /\ msgs'[i] = msgs[i]
        /\ \A i \in DOMAIN calls : msgs'[Len(msgs) + i] = new[i]
    BY <1>6, <1>7, Longer DEF TranscriptInv
  <1>9. ASSUME NEW i \in DOMAIN msgs', i \notin DOMAIN msgs
        PROVE  \E k \in DOMAIN calls : i = Len(msgs) + k /\ msgs'[i] = new[k]
    <2>1. i - Len(msgs) \in DOMAIN calls /\ i = Len(msgs) + (i - Len(msgs))
      BY <1>1, <1>4, <1>8, <1>9
    <2> QED BY <1>8, <2>1
  <1>10. ASSUME NEW k \in DOMAIN calls, NEW j \in Nat, j = Len(msgs) + k
         PROVE  /\ j \in DOMAIN msgs' /\ k \in 1..j - 1
                /\ msgs'[j].role = "tool" /\ Answers(j, k)'
    <2>1. j \in DOMAIN msgs' /\ k \in 1..j - 1 /\ j - k = Len(msgs) /\ Len(msgs) \in DOMAIN msgs
      BY <1>1, <1>4, <1>8, <1>10
    <2>2. msgs'[Len(msgs)] = Last(msgs) /\ msgs'[Len(msgs)].calls = calls
      BY <1>1, <1>8, <2>1 DEF calls
    <2>3. msgs'[j].of = calls[k].id /\ msgs'[j].tool = calls[k].tool /\ msgs'[j].role = "tool"
      BY <1>5, <1>8, <1>10
    <2>4. msgs'[j - k].calls = calls
      BY <2>1, <2>2
    <2> QED BY <2>1, <2>3, <2>4 DEF Answers
  <1>11. \A i \in DOMAIN msgs' : \A k \in DOMAIN msgs'[i].calls : i \in DOMAIN msgs /\ msgs'[i] = msgs[i]
    <2>1. \A k \in DOMAIN calls : DOMAIN new[k].calls = {}
      BY <1>5
    <2> QED BY <1>8, <1>9, <2>1
  <1>12. ASSUME NEW i \in DOMAIN msgs', NEW k \in DOMAIN msgs'[i].calls
         PROVE  i + k <= Len(msgs') /\ msgs'[i + k].role = "tool" /\ Answers(i + k, k)'
    <2>1. i \in DOMAIN msgs /\ k \in DOMAIN msgs[i].calls
      BY <1>11
    <2>2. CASE i # Len(msgs)
      BY <1>6, <1>7, <2>1, <2>2, OldPairs
    <2>3. CASE i = Len(msgs)
      <3>1. k \in DOMAIN calls
        BY <1>1, <2>1, <2>3 DEF calls
      <3>2. i + k <= Len(msgs') /\ i + k \in Nat
        BY <1>1, <1>4, <1>8, <2>3, <3>1
      <3> QED BY <1>10, <2>3, <3>1, <3>2
    <2> QED BY <2>2, <2>3
  <1>13. ASSUME NEW j \in DOMAIN msgs', msgs'[j].role = "tool"
         PROVE  \E k \in 1..j - 1 : Answers(j, k)'
    <2>1. CASE j \in DOMAIN msgs
      BY <1>6, <1>7, <1>8, <1>13, <2>1, OldPairs
    <2>2. CASE j \notin DOMAIN msgs
      <3>1. PICK k \in DOMAIN calls : j = Len(msgs) + k
        BY <1>9, <2>2
      <3>2. j \in Nat
        BY <1>8
      <3> QED BY <1>10, <3>1, <3>2
    <2> QED BY <2>1, <2>2
  <1>14. CallsPaired'
    <2>1. \A i, j \in DOMAIN msgs' : \A k \in DOMAIN msgs'[i].calls, l \in DOMAIN msgs'[j].calls :
            msgs'[i].calls[k].id = msgs'[j].calls[l].id /\ msgs'[i].calls[k].id # NoId => i = j /\ k = l
      BY <1>11 DEF CallsPaired, TranscriptInv
    <2> QED BY <1>12, <1>13, <2>1, PairedParts
  <1>15. IdsByRound'
    <2>1. round' = round
      BY DEF Tools
    <2> QED BY <1>11, <2>1 DEF IdsByRound, TranscriptInv
  <1>16. Outcomes'
    <2>1. seam' = seam
      BY DEF Tools
    <2>2. ASSUME NEW i \in DOMAIN msgs'
          PROVE  /\ msgs'[i].role # "tool" => msgs'[i].tool = None
                 /\ Executes /\ msgs'[i].tool \in Advertised => msgs'[i].ran \in {"ok", "error"}
      <3>1. CASE i \in DOMAIN msgs
        BY <1>8, <3>1 DEF Outcomes, TranscriptInv
      <3>2. CASE i \notin DOMAIN msgs
        BY <1>5, <1>9, <3>2
      <3> QED BY <3>1, <3>2
    <2> QED BY <2>1, <2>2, SeamFixed DEF Outcomes
  <1> QED BY <1>8, <1>14, <1>15, <1>16

\* The opening holds no calls and no results.
LEMMA InitTranscriptInv == TranscriptInit => TranscriptInv
  <1> SUFFICES ASSUME TranscriptInit PROVE TranscriptInv
    OBVIOUS
  <1>1. PICK prior \in Priors : msgs = Opening(prior)
    BY DEF TranscriptInit
  <1> DEFINE roles == <<"system">> \o prior \o <<"user">>
  <1>2. roles \in Seq({"system", "user", "assistant", "tool"}) /\ roles # <<>>
    <2>1. prior \in Seq({"system", "user", "assistant", "tool"})
      <3>1. prior \in Seq({"user", "assistant"})
        BY TranscriptAssumption
      <3> QED BY <3>1
    <2>2. <<"system">> \in Seq({"system", "user", "assistant", "tool"})
          /\ <<"user">> \in Seq({"system", "user", "assistant", "tool"})
      OBVIOUS
    <2>3. roles \in Seq({"system", "user", "assistant", "tool"}) /\ Len(roles) = Len(prior) + 2
      BY <2>1, <2>2
    <2> QED BY <2>1, <2>3
  <1>3. msgs = [i \in DOMAIN roles |-> Message(roles[i], <<i>>)]
    BY <1>1 DEF Opening
  <1> HIDE DEF roles
  <1>4. Len(roles) \in Nat \ {0} /\ DOMAIN roles = 1..Len(roles)
    BY <1>2
  <1>5. ASSUME NEW i \in DOMAIN msgs
        PROVE  /\ msgs[i] \in Messages /\ msgs[i].calls = <<>> /\ msgs[i].role # "tool"
               /\ msgs[i].tool = None
    <2>1. i \in DOMAIN roles /\ msgs[i] = Message(roles[i], <<i>>)
      BY <1>3
    <2>2. <<i>> \in Seq(Nat)
      BY <1>4, <2>1
    <2>3. roles[i] \in {"system", "user", "assistant"}
      <3>1. prior \in Seq({"user", "assistant"})
        BY TranscriptAssumption
      <3>2. i \in 1..Len(prior) + 2 /\ Len(prior) \in Nat
        BY <1>4, <2>1, <3>1 DEF roles
      <3>3. i = 1 => roles[i] = "system"
        BY <3>1, <3>2 DEF roles
      <3>4. i \in 2..Len(prior) + 1 => roles[i] = prior[i - 1] /\ i - 1 \in DOMAIN prior
        BY <3>1, <3>2 DEF roles
      <3>5. i = Len(prior) + 2 => roles[i] = "user"
        BY <3>1, <3>2 DEF roles
      <3>6. i - 1 \in DOMAIN prior => prior[i - 1] \in {"user", "assistant"}
        BY <3>1, ElementOf
      <3>7. i = 1 \/ i \in 2..Len(prior) + 1 \/ i = Len(prior) + 2
        BY <3>2
      <3> QED BY <3>3, <3>4, <3>5, <3>6, <3>7
    <2>4. PICK role \in {"system", "user", "assistant", "tool"} : role = roles[i] /\ role # "tool"
      BY <2>3
    <2>5. PICK text \in Seq(Nat) : text = <<i>>
      BY <2>2
    <2>6. /\ Message(role, text) \in Messages /\ Message(role, text).role = role
          /\ Message(role, text).calls = <<>> /\ Message(role, text).tool = None
      BY PlainMessage
    <2>7. msgs[i] = Message(role, text)
      BY <2>1, <2>4, <2>5
    <2> QED BY <2>4, <2>6, <2>7
  <1>6. msgs \in Seq(Messages) \ {<<>>}
    <2>1. msgs \in [1..Len(roles) -> Messages]
      BY <1>3, <1>4, <1>5
    <2>2. msgs \in Seq(Messages) /\ Len(msgs) = Len(roles)
      BY <1>4, <2>1, FunctionIsSequence
    <2> QED BY <1>4, <2>2
  <1>7. TranscriptTypeOK
    <2>1. chain \in Seq(Wire) \ {<<>>} /\ MaxRounds \in Nat
      BY TranscriptAssumption DEF TranscriptInit
    <2>2. round \in 0..MaxRounds + 1 /\ round <= MaxRounds
      BY <2>1 DEF TranscriptInit
    <2> QED BY <1>6, <2>1, <2>2 DEF TranscriptInit, TranscriptTypeOK
  <1>8. CallsPaired /\ IdsByRound
    <2>1. \A i \in DOMAIN msgs : DOMAIN msgs[i].calls = {}
      BY <1>5
    <2> QED BY <1>5, <2>1 DEF CallsPaired, IdsByRound
  <1>9. Outcomes
    <2>1. Executes => None \notin Advertised
      BY TranscriptAssumption DEF Executes, Advertised, Policy
    <2> QED BY <1>5, <2>1 DEF Outcomes
  <1> QED BY <1>7, <1>8, <1>9 DEF TranscriptInv

\* A step that leaves the transcript alone keeps its pairing, unless a call
\* waits and the turn goes on.
LEMMA TranscriptKept ==
  ASSUME TranscriptInv, msgs' = msgs, seam' = seam, round' = round,
         pc \in {"tools", "done"} => pc' \in {"tools", "done"}
  PROVE  CallsPaired' /\ IdsByRound' /\ Outcomes'
  <1>1. CallsPaired'
    BY DEF TranscriptInv, CallsPaired, Answers
  <1>2. IdsByRound'
    BY DEF TranscriptInv, IdsByRound
  <1>3. Outcomes'
    BY SeamFixed DEF TranscriptInv, Outcomes
  <1> QED BY <1>1, <1>2, <1>3

\* What a request is made of.
LEMMA BodyFields ==
  ASSUME NEW wire, NEW ms, NEW final
  PROVE  /\ Body(wire, ms, final).wire = wire /\ Body(wire, ms, final).final = final
         /\ Body(wire, ms, final).tools \subseteq Advertised
  BY DEF Body

\* The request of a round, the last instruction included.
LEMMA AskInv == ASSUME TranscriptInv, Ask PROVE TranscriptInv'
  <1> USE TranscriptAssumption
  <1>1. /\ TranscriptTypeOK /\ pc = "ask" /\ pc' = "sent" /\ round' = round /\ seam' = seam
        /\ chain' = chain /\ spent' = spent /\ result' = result /\ thought' = thought
        /\ body' = Body(Head(chain), msgs', Exhausted)
        /\ msgs' = IF Exhausted THEN Append(msgs, Nudge) ELSE msgs
    BY DEF Ask, TranscriptInv
  <1>2. round \in Nat /\ Len(msgs) + 1 \in Nat
    BY <1>1 DEF TranscriptTypeOK
  <1>3. CallsPaired' /\ IdsByRound' /\ Outcomes' /\ msgs' \in Seq(Messages) \ {<<>>}
    <2>1. CASE Exhausted
      <3>1. Fresh \in Seq(Nat)
        BY <1>2 DEF Fresh
      <3>2. Nudge \in Messages /\ Nudge.role = "user" /\ Nudge.tool = None /\ Nudge.calls = <<>>
        BY <3>1, PlainMessage DEF Nudge
      <3>3. DOMAIN Nudge.calls = {}
        BY <3>2
      <3>4. msgs' = Append(msgs, Nudge)
        BY <1>1, <2>1
      <3> HIDE DEF Nudge
      <3> QED BY <1>1, <1>2, <3>2, <3>3, <3>4, OneAppended
    <2>2. CASE ~Exhausted
      <3>1. msgs' = msgs
        BY <1>1, <2>2
      <3> QED BY <1>1, <3>1, TranscriptKept DEF TranscriptTypeOK
    <2> QED BY <2>1, <2>2
  <1>4. body'.wire = Head(chain) /\ body'.tools \subseteq Advertised /\ body'.final = Exhausted
    BY <1>1, BodyFields
  <1>5. Exhausted \in BOOLEAN /\ (~Exhausted => round < MaxRounds)
    BY <1>1, <1>2 DEF Exhausted, TranscriptTypeOK
  <1>6. TranscriptTypeOK'
    BY <1>1, <1>3, <1>4, <1>5, SeamFixed DEF TranscriptTypeOK
  <1> QED BY <1>3, <1>6 DEF TranscriptInv

\* The next link of the chain takes over.
LEMMA FallbackInv == ASSUME TranscriptInv, Fallback PROVE TranscriptInv'
  <1>1. /\ TranscriptTypeOK /\ pc = "sent" /\ pc' = pc /\ round' = round /\ seam' = seam /\ msgs' = msgs
        /\ chain' = Tail(chain) /\ spent' = spent /\ result' = result /\ thought' = thought
        /\ body' = Body(Head(chain'), msgs, body.final) /\ Len(chain) > 1
    BY DEF Fallback, TranscriptInv
  <1>2. CallsPaired' /\ IdsByRound' /\ Outcomes'
    BY <1>1, TranscriptKept
  <1>3. chain' \in Seq(Wire) \ {<<>>}
    <2>1. chain \in Seq(Wire) /\ chain # <<>>
      BY <1>1 DEF TranscriptTypeOK
    <2>2. Tail(chain) \in Seq(Wire) /\ Len(Tail(chain)) = Len(chain) - 1
      BY <2>1
    <2>3. Len(chain) \in Nat /\ Len(Tail(chain)) # 0
      BY <1>1, <2>1, <2>2
    <2> QED BY <1>1, <2>2, <2>3
  <1>4. body'.wire = Head(chain') /\ body'.tools \subseteq Advertised /\ body'.final = body.final
    BY <1>1, BodyFields
  <1>5. TranscriptTypeOK'
    BY <1>1, <1>3, <1>4, SeamFixed DEF TranscriptTypeOK
  <1> QED BY <1>2, <1>5 DEF TranscriptInv

\* The turn is given up, no call waiting.
LEMMA AbandonInv == ASSUME TranscriptInv, Abandon PROVE TranscriptInv'
  <1>1. /\ TranscriptTypeOK /\ pc \in {"ask", "sent"} /\ pc' = "done" /\ round' = round /\ seam' = seam
        /\ msgs' = msgs /\ chain' = chain /\ spent' = spent /\ result' = "abandoned" /\ thought' = thought
    BY DEF Abandon, End, TranscriptInv
  <1>2. CallsPaired' /\ IdsByRound' /\ Outcomes'
    BY <1>1, TranscriptKept
  <1>3. TranscriptTypeOK'
    BY <1>1 DEF TranscriptTypeOK
  <1> QED BY <1>2, <1>3 DEF TranscriptInv

\* An answer, whose calls have ids of a round of their own.
LEMMA AnswerInv == ASSUME TranscriptInv, NEW r \in Reply, Answer(r) PROVE TranscriptInv'
  <1> USE TranscriptAssumption
  <1> DEFINE m == Normalized(r, round + 1)
  <1>1. /\ TranscriptTypeOK /\ pc = "sent" /\ pc' \in {"tools", "done"}
        /\ round' = round + 1 /\ seam' = seam /\ chain' = chain
        /\ msgs' = Append(msgs, m) /\ spent' \in {spent, TRUE}
        /\ thought' \subseteq thought \cup {<<round + 1, body.wire>>}
        /\ result' \in {result, "answered"}
        /\ pc' = "tools" => ~body.final /\ r.calls # <<>>
    BY DEF Answer, End, TranscriptInv
  <1>2. /\ m \in Messages /\ m.role = "assistant" /\ m.tool = None
        /\ \A k \in DOMAIN m.calls : m.calls[k].id \in {NoId, <<round', k>>}
    BY <1>1, ReadMessage
  <1>3. round \in Nat /\ round <= MaxRounds /\ (~body.final => round < MaxRounds) /\ body.wire \in Wire
    <2>1. Head(chain) \in Wire
      BY <1>1 DEF TranscriptTypeOK
    <2> QED BY <1>1, <2>1 DEF TranscriptTypeOK
  <1> HIDE DEF m
  <1>4. CallsPaired' /\ IdsByRound' /\ Outcomes' /\ msgs' \in Seq(Messages) \ {<<>>}
    <2>1. round' \in Nat /\ round <= round'
      BY <1>1, <1>3
    <2> QED BY <1>1, <1>2, <1>3, <2>1, OneAppended
  <1>5. thought' \subseteq (1..MaxRounds + 1) \X Wire
    <2>1. round + 1 \in 1..MaxRounds + 1
      BY <1>3
    <2> QED BY <1>1, <1>3, <2>1 DEF TranscriptTypeOK
  <1>6. round' \in 0..MaxRounds + 1 /\ (pc' # "done" => round' <= MaxRounds)
    BY <1>1, <1>3
  <1>7. TranscriptTypeOK'
    BY <1>1, <1>4, <1>5, <1>6 DEF TranscriptTypeOK
  <1> QED BY <1>4, <1>7 DEF TranscriptInv

\* The waiting calls are answered.
LEMMA ToolsInv == ASSUME TranscriptInv, Tools PROVE TranscriptInv'
  <1>1. CallsPaired' /\ IdsByRound' /\ Outcomes' /\ msgs' \in Seq(Messages) \ {<<>>}
    BY ResultsAppended
  <1>2. /\ TranscriptTypeOK /\ pc = "tools" /\ pc' = "ask" /\ round' = round /\ seam' = seam
        /\ chain' = chain /\ spent' = spent /\ result' = result /\ thought' = thought
    BY DEF Tools, TranscriptInv
  <1>3. TranscriptTypeOK'
    BY <1>1, <1>2 DEF TranscriptTypeOK
  <1> QED BY <1>1, <1>3 DEF TranscriptInv

\* The transcript of a turn, whatever the models answer, the chain does and the
\* tools return, pairs calls and results.
THEOREM TranscriptInvariance == TranscriptSpec => []TranscriptInv
  <1>1. ASSUME TranscriptInv, [TranscriptNext]_transcriptVars PROVE TranscriptInv'
    <2>1. CASE UNCHANGED transcriptVars
      <3>1. CallsPaired' /\ IdsByRound' /\ Outcomes'
        BY <1>1, <2>1, TranscriptKept DEF transcriptVars
      <3>2. TranscriptTypeOK'
        BY <1>1, <2>1, SeamFixed DEF transcriptVars, TranscriptInv, TranscriptTypeOK
      <3> QED BY <3>1, <3>2 DEF TranscriptInv
    <2> QED BY <1>1, <2>1, AskInv, FallbackInv, AbandonInv, AnswerInv, ToolsInv DEF TranscriptNext
  <1> QED BY <1>1, InitTranscriptInv, PTL DEF TranscriptSpec

\* Every call is answered in its place and no two share an id, in every
\* transcript a request is made from.
THEOREM TranscriptPairs == TranscriptSpec => []CallsPaired
  <1>1. TranscriptInv => CallsPaired
    BY DEF TranscriptInv
  <1> QED BY <1>1, TranscriptInvariance, PTL

\* What a recall turn is offered, its executor runs.
THEOREM OfferedToolsRun == TranscriptSpec => []AdvertisedToolsRun
  <1>1. TranscriptInv => AdvertisedToolsRun
    BY DEF TranscriptInv, Outcomes, AdvertisedToolsRun, Executes
  <1> QED BY <1>1, TranscriptInvariance, PTL
=============================================================================
