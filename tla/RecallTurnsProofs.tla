--------------------------- MODULE RecallTurnsProofs ---------------------------
(***************************************************************************)
(* Proofs about RecallTurns for every number of turns, every mix of them,  *)
(* every price list, cap, budget and number of midnights and restarts: the *)
(* ledger and the daily ceiling, the slots of the session and what         *)
(* outlives it.  Sums over the ledger's rows are proved by induction on    *)
(* the number of rows, with the least counterexample as the step.          *)
(***************************************************************************)
EXTENDS RecallTurns, FiniteSetTheorems, WellFoundedInduction, TLAPS

----------------------------------------------------------------------------
(* Sums of the ledger's rows.                                              *)

\* f holds the sums of the first 0, .., n elements of s.
IsSums(s, n, f) == f = [k \in 0..n |-> IF k = 0 THEN 0 ELSE f[k - 1] + s[k]]

\* Induction on the natural numbers, for sets.
LEMMA Induction ==
  ASSUME NEW G \in SUBSET Nat, 0 \in G, \A n \in G : n + 1 \in G
  PROVE  G = Nat
  <1> SUFFICES ASSUME Nat \ G # {} PROVE FALSE
    OBVIOUS
  <1>1. PICK n \in Nat \ G : \A m \in Nat \ G : ~(<<m, n>> \in OpToRel(<, Nat))
    BY WFMin, NatLessThanWellFounded
  <1>2. \A m \in Nat \ G : ~(m < n)
    BY <1>1 DEF OpToRel
  <1>3. n # 0 /\ n - 1 \in Nat
    OBVIOUS
  <1>4. n - 1 \in G
    BY <1>2, <1>3
  <1> QED BY <1>4

\* The sums exist: the recursion that defines them has a solution.
LEMMA SumsExist ==
  ASSUME NEW s \in Seq(Nat), NEW n \in Nat
  PROVE  \E f : IsSums(s, n, f)
  <1> DEFINE G == {k \in Nat : \E f : IsSums(s, k, f)}
  <1>1. 0 \in G
    <2>1. IsSums(s, 0, [k \in 0..0 |-> 0])
      BY DEF IsSums
    <2> QED BY <2>1
  <1>2. ASSUME NEW k \in G PROVE k + 1 \in G
    <2>1. PICK f : IsSums(s, k, f)
      OBVIOUS
    <2> DEFINE g == [j \in 0..(k + 1) |-> IF j <= k THEN f[j] ELSE f[k] + s[k + 1]]
    <2>2. ASSUME NEW j \in 0..(k + 1)
          PROVE  g[j] = IF j = 0 THEN 0 ELSE g[j - 1] + s[j]
      BY <2>1 DEF IsSums
    <2>3. IsSums(s, k + 1, g)
      BY <2>2 DEF IsSums
    <2> QED BY <2>3
  <1> HIDE DEF G
  <1>3. G = Nat
    <2>1. G \in SUBSET Nat
      BY DEF G
    <2> QED BY <1>1, <1>2, <2>1, Induction
  <1> QED BY <1>3 DEF G

\* What the recursion of Sums says of it.
LEMMA SumsSteps ==
  ASSUME NEW s \in Seq(Nat)
  PROVE  /\ Sums(s)[0] = 0
         /\ \A n \in 1..Len(s) : Sums(s)[n] = Sums(s)[n - 1] + s[n]
  <1>1. \E f : IsSums(s, Len(s), f)
    BY SumsExist
  <1>2. IsSums(s, Len(s), Sums(s))
    BY <1>1 DEF IsSums, Sums
  <1>3. ASSUME NEW f, IsSums(s, Len(s), f)
        PROVE  f[0] = 0 /\ \A n \in 1..Len(s) : f[n] = f[n - 1] + s[n]
    <2>1. Len(s) \in Nat
      OBVIOUS
    <2>2. \A n \in 0..Len(s) : f[n] = IF n = 0 THEN 0 ELSE f[n - 1] + s[n]
      BY <1>3, <2>1 DEF IsSums
    <2> QED BY <2>1, <2>2
  <1> QED BY <1>2, <1>3

\* The same, from a sum to the next.
LEMMA NextSum ==
  ASSUME NEW s \in Seq(Nat), NEW n \in Nat, n < Len(s)
  PROVE  Sums(s)[n + 1] = Sums(s)[n] + s[n + 1] /\ s[n + 1] \in Nat
  <1>1. n + 1 \in 1..Len(s) /\ (n + 1) - 1 = n
    OBVIOUS
  <1> QED BY <1>1, SumsSteps

\* The sums of costs are costs.
LEMMA SumsNat ==
  ASSUME NEW s \in Seq(Nat), NEW n \in 0..Len(s)
  PROVE  Sums(s)[n] \in Nat
  <1> DEFINE G == {k \in Nat : k <= Len(s) => Sums(s)[k] \in Nat}
  <1>1. 0 \in G
    BY SumsSteps
  <1>2. ASSUME NEW k \in G PROVE k + 1 \in G
    <2>1. SUFFICES ASSUME k + 1 <= Len(s) PROVE Sums(s)[k + 1] \in Nat
      OBVIOUS
    <2>2. k \in Nat /\ k < Len(s) /\ Sums(s)[k] \in Nat
      BY <2>1
    <2>3. Sums(s)[k + 1] = Sums(s)[k] + s[k + 1] /\ s[k + 1] \in Nat
      BY <2>2, NextSum
    <2> QED BY <2>2, <2>3
  <1> HIDE DEF G
  <1>3. G = Nat
    <2>1. G \in SUBSET Nat
      BY DEF G
    <2> QED BY <1>1, <1>2, <2>1, Induction
  <1> QED BY <1>3 DEF G

\* A row more: the sums of the rows before it are what they were.
LEMMA SumsPrefix ==
  ASSUME NEW s \in Seq(Nat), NEW u \in Seq(Nat), Len(u) = Len(s) + 1,
         \A i \in 1..Len(s) : u[i] = s[i],
         NEW n \in 0..Len(s)
  PROVE  Sums(u)[n] = Sums(s)[n]
  <1> DEFINE G == {k \in Nat : k <= Len(s) => Sums(u)[k] = Sums(s)[k]}
  <1>1. 0 \in G
    BY SumsSteps
  <1>2. ASSUME NEW k \in G PROVE k + 1 \in G
    <2>1. SUFFICES ASSUME k + 1 <= Len(s) PROVE Sums(u)[k + 1] = Sums(s)[k + 1]
      OBVIOUS
    <2>2. k \in Nat /\ k < Len(s) /\ k < Len(u) /\ Sums(u)[k] = Sums(s)[k] /\ u[k + 1] = s[k + 1]
      BY <2>1
    <2>3. Sums(s)[k + 1] = Sums(s)[k] + s[k + 1]
      BY <2>2, NextSum
    <2>4. Sums(u)[k + 1] = Sums(u)[k] + u[k + 1]
      BY <2>2, NextSum
    <2> QED BY <2>2, <2>3, <2>4
  <1> HIDE DEF G
  <1>3. G = Nat
    <2>1. G \in SUBSET Nat
      BY DEF G
    <2> QED BY <1>1, <1>2, <2>1, Induction
  <1> QED BY <1>3 DEF G

\* Adding c to every row adds c at least once to every sum but the empty one.
LEMMA SumsRaised ==
  ASSUME NEW s \in Seq(Nat), NEW c \in Nat, NEW u \in Seq(Nat), Len(u) = Len(s),
         \A i \in 1..Len(s) : u[i] = s[i] + c,
         NEW n \in 1..Len(s)
  PROVE  Sums(u)[n] >= Sums(s)[n] + c
  <1> DEFINE G == {k \in Nat : k + 1 <= Len(s) => Sums(u)[k + 1] >= Sums(s)[k + 1] + c}
  <1>1. 0 \in G
    <2> SUFFICES ASSUME 1 <= Len(s) PROVE Sums(u)[1] >= Sums(s)[1] + c
      OBVIOUS
    <2>1. Sums(u)[1] = u[1] /\ Sums(s)[1] = s[1]
      <3>1. Sums(u)[1] = Sums(u)[0] + u[1] /\ Sums(s)[1] = Sums(s)[0] + s[1]
        BY SumsSteps
      <3>2. Sums(u)[0] = 0 /\ Sums(s)[0] = 0
        BY SumsSteps
      <3> QED BY <3>1, <3>2
    <2> QED BY <2>1
  <1>2. ASSUME NEW k \in G PROVE k + 1 \in G
    <2> DEFINE m == k + 1
    <2>1. SUFFICES ASSUME m + 1 <= Len(s)
                   PROVE  Sums(u)[m + 1] >= Sums(s)[m + 1] + c
      OBVIOUS
    <2>2. m \in Nat /\ Sums(u)[m] >= Sums(s)[m] + c
      BY <2>1
    <2> HIDE DEF m
    <2>3. m < Len(s) /\ m < Len(u) /\ u[m + 1] = s[m + 1] + c
      BY <2>1, <2>2
    <2>4. /\ Sums(s)[m + 1] = Sums(s)[m] + s[m + 1] /\ s[m + 1] \in Nat
          /\ Sums(u)[m + 1] = Sums(u)[m] + u[m + 1]
      BY <2>2, <2>3, NextSum
    <2>5. Sums(s)[m] \in Nat /\ Sums(u)[m] \in Nat
      <3>1. m \in 0..Len(s) /\ m \in 0..Len(u)
        BY <2>2, <2>3
      <3> QED BY <3>1, SumsNat
    <2>6. \A a, b, x \in Nat : b >= a + c => b + (x + c) >= (a + x) + c
      OBVIOUS
    <2>7. Sums(u)[m] + (s[m + 1] + c) >= (Sums(s)[m] + s[m + 1]) + c
      BY <2>2, <2>4, <2>5, <2>6
    <2> QED BY <2>3, <2>4, <2>7
  <1> HIDE DEF G
  <1>3. G = Nat
    <2>1. G \in SUBSET Nat
      BY DEF G
    <2> QED BY <1>1, <1>2, <2>1, Induction
  <1>4. n - 1 \in G
    BY <1>3
  <1> QED BY <1>4 DEF G

\* A day without rows has cost nothing.
LEMMA TotalEmpty == Total(<<>>) = 0
  <1>1. <<>> \in Seq(Nat) /\ Len(<<>>) = 0
    OBVIOUS
  <1> QED BY <1>1, SumsSteps DEF Total

\* What the total of a ledger is, and what an INSERT and an UPDATE make of it.
LEMMA Totals ==
  ASSUME NEW s \in Seq(Nat), NEW c \in Nat
  PROVE  /\ Total(s) \in Nat
         /\ Len(s) = 1 => Total(s) = s[1]
         /\ Total(Append(s, c)) = Total(s) + c
         /\ \A u \in Seq(Nat) :
               /\ Len(u) = Len(s) /\ Len(s) > 0
               /\ \A i \in 1..Len(s) : u[i] = s[i] + c
               => Total(u) >= Total(s) + c
  <1>1. Total(s) \in Nat
    BY SumsNat DEF Total
  <1>3. Len(s) = 1 => Total(s) = s[1]
    BY SumsSteps DEF Total
  <1>4. Total(Append(s, c)) = Total(s) + c
    <2> DEFINE u == Append(s, c)
    <2>1. /\ u \in Seq(Nat) /\ Len(u) = Len(s) + 1 /\ u[Len(s) + 1] = c
          /\ \A i \in 1..Len(s) : u[i] = s[i]
          /\ Len(s) \in Nat /\ Len(s) < Len(u) /\ Len(s) \in 0..Len(s)
      OBVIOUS
    <2> HIDE DEF u
    <2>2. Sums(u)[Len(s) + 1] = Sums(u)[Len(s)] + u[Len(s) + 1]
      BY <2>1, NextSum
    <2>3. Sums(u)[Len(s)] = Sums(s)[Len(s)]
      BY <2>1, SumsPrefix
    <2>4. Total(u) = Total(s) + c
      BY <2>1, <2>2, <2>3 DEF Total
    <2> QED BY <2>4 DEF u
  <1>5. ASSUME NEW u \in Seq(Nat), Len(u) = Len(s), Len(s) > 0,
               \A i \in 1..Len(s) : u[i] = s[i] + c
        PROVE  Total(u) >= Total(s) + c
    <2>1. Len(s) \in 1..Len(s)
      BY <1>5
    <2>2. Sums(u)[Len(s)] >= Sums(s)[Len(s)] + c
      BY <1>5, <2>1, SumsRaised
    <2> QED BY <1>5, <2>2 DEF Total
  <1> QED BY <1>1, <1>3, <1>4, <1>5

----------------------------------------------------------------------------
(* Prices and paths.                                                       *)

\* Rounding is monotone, and charges nothing for nothing.
LEMMA Rounding ==
  /\ Micros(0) = 0
  /\ \A p \in Nat : Micros(p) \in Nat
  /\ \A p, q \in Nat : p <= q => Micros(p) <= Micros(q)
  <1> DEFINE h == Unit \div 2
  <1>1. Unit \in Nat /\ Unit > 0 /\ h \in Nat /\ h < Unit
    BY TurnsAssumption
  <1> HIDE DEF h
  <1>2. h \div Unit = 0
    BY <1>1
  <1>3. \A x \in Nat : x \div Unit \in Nat
    BY <1>1
  <1>4. \A x, y \in Nat : x <= y => x \div Unit <= y \div Unit
    BY <1>1
  <1> QED BY <1>1, <1>2, <1>3, <1>4 DEF Micros, h

\* Where each stage of each kind of turn leads.
LEMMA AfterTable ==
  ASSUME NEW t
  PROVE  /\ kind[t] = "sse" =>
             /\ turn[t].pc = "check" => After(t) = "permit"
             /\ turn[t].pc = "permit" => After(t) = "build"
             /\ turn[t].pc = "build" => After(t) = "ask"
             /\ turn[t].pc = "ask" => After(t) = "run"
             /\ turn[t].pc \in {"accrue", "insert"} => After(t) = "answer"
             /\ turn[t].pc = "answer" => After(t) = "say"
             /\ turn[t].pc = "say" => After(t) = "idle"
         /\ kind[t] = "ws" =>
             /\ turn[t].pc = "build" => After(t) = "ask"
             /\ turn[t].pc = "ask" => After(t) = "check"
             /\ turn[t].pc = "check" => After(t) = "permit"
             /\ turn[t].pc = "permit" => After(t) = "run"
             /\ turn[t].pc \in {"accrue", "insert"} => After(t) = "answer"
             /\ turn[t].pc = "answer" => After(t) = "say"
             /\ turn[t].pc = "say" => After(t) = "drain"
             /\ turn[t].pc = "drain" => After(t) = "idle"
         /\ kind[t] = "digest" =>
             /\ turn[t].pc = "check" => After(t) = "run"
             /\ turn[t].pc \in {"accrue", "insert"} => After(t) = "idle"
  <1>1. \A n \in 1..8 : Following(SsePath, SsePath[n]) = IF n < 8 THEN SsePath[n + 1] ELSE "idle"
    <2> TAKE n \in 1..8
    <2>1. DOMAIN SsePath = 1..8 /\ Len(SsePath) = 8
      BY DEF SsePath
    <2>2. \A j \in 1..8 : SsePath[j] = SsePath[n] => j = n
      BY DEF SsePath
    <2>3. (CHOOSE j \in DOMAIN SsePath : SsePath[j] = SsePath[n]) = n
      BY <2>1, <2>2
    <2> QED BY <2>1, <2>3 DEF Following
  <1>2. \A n \in 1..9 : Following(WsPath, WsPath[n]) = IF n < 9 THEN WsPath[n + 1] ELSE "idle"
    <2> TAKE n \in 1..9
    <2>1. DOMAIN WsPath = 1..9 /\ Len(WsPath) = 9
      BY DEF WsPath
    <2>2. \A j \in 1..9 : WsPath[j] = WsPath[n] => j = n
      BY DEF WsPath
    <2>3. (CHOOSE j \in DOMAIN WsPath : WsPath[j] = WsPath[n]) = n
      BY <2>1, <2>2
    <2> QED BY <2>1, <2>3 DEF Following
  <1>3. \A n \in 1..3 : Following(DigestPath, DigestPath[n]) = IF n < 3 THEN DigestPath[n + 1] ELSE "idle"
    <2> TAKE n \in 1..3
    <2>1. DOMAIN DigestPath = 1..3 /\ Len(DigestPath) = 3
      BY DEF DigestPath
    <2>2. \A j \in 1..3 : DigestPath[j] = DigestPath[n] => j = n
      BY DEF DigestPath
    <2>3. (CHOOSE j \in DOMAIN DigestPath : DigestPath[j] = DigestPath[n]) = n
      BY <2>1, <2>2
    <2> QED BY <2>1, <2>3 DEF Following
  <1>4. /\ Following(SsePath, "check") = "permit"
        /\ Following(SsePath, "permit") = "build"
        /\ Following(SsePath, "build") = "ask"
        /\ Following(SsePath, "ask") = "run"
        /\ Following(SsePath, "accrue") = "answer"
        /\ Following(SsePath, "answer") = "say"
        /\ Following(SsePath, "say") = "idle"
    BY <1>1 DEF SsePath
  <1>5. /\ Following(WsPath, "build") = "ask"
        /\ Following(WsPath, "ask") = "check"
        /\ Following(WsPath, "check") = "permit"
        /\ Following(WsPath, "permit") = "run"
        /\ Following(WsPath, "accrue") = "answer"
        /\ Following(WsPath, "answer") = "say"
        /\ Following(WsPath, "say") = "drain"
        /\ Following(WsPath, "drain") = "idle"
    BY <1>2 DEF WsPath
  <1>6. /\ Following(DigestPath, "check") = "run"
        /\ Following(DigestPath, "accrue") = "idle"
    BY <1>3 DEF DigestPath
  <1>7. /\ kind[t] = "sse" => Path[kind[t]] = SsePath
        /\ kind[t] = "ws" => Path[kind[t]] = WsPath
        /\ kind[t] = "digest" => Path[kind[t]] = DigestPath
    BY DEF Path
  <1> QED BY <1>4, <1>5, <1>6, <1>7 DEF After

\* The stages of each kind, spelled out.
LEMMA StagesOf ==
  /\ Stages("sse") = {"check", "permit", "build", "ask", "run", "accrue", "insert", "answer", "say"}
  /\ Stages("ws") = {"check", "permit", "build", "ask", "run", "accrue", "insert", "answer", "say", "drain"}
  /\ Stages("digest") = {"check", "run", "accrue", "insert"}
  <1>1. /\ Path["sse"] = SsePath /\ Path["ws"] = WsPath /\ Path["digest"] = DigestPath
        /\ DOMAIN SsePath = 1..8 /\ DOMAIN WsPath = 1..9 /\ DOMAIN DigestPath = 1..3
    BY DEF Path, SsePath, WsPath, DigestPath
  <1>2. 1..8 = {1, 2, 3, 4, 5, 6, 7, 8} /\ 1..9 = {1, 2, 3, 4, 5, 6, 7, 8, 9} /\ 1..3 = {1, 2, 3}
    OBVIOUS
  <1>3. Stages("sse") = {"check", "permit", "build", "ask", "run", "accrue", "insert", "answer", "say"}
    BY <1>1, <1>2 DEF Stages, SsePath
  <1>4. Stages("ws") = {"check", "permit", "build", "ask", "run", "accrue", "insert", "answer", "say", "drain"}
    BY <1>1, <1>2 DEF Stages, WsPath
  <1>5. Stages("digest") = {"check", "run", "accrue", "insert"}
    BY <1>1, <1>2 DEF Stages, DigestPath
  <1> QED BY <1>3, <1>4, <1>5

----------------------------------------------------------------------------
(* Reservations.                                                           *)

\* The dearest turn has a price.
LEMMA MaxTurnNat == MaxTurnMicros \in Nat
  <1>1. (MaxRounds + 1) * MaxPrice \in Nat
    BY TurnsAssumption
  <1> QED BY <1>1, Rounding DEF MaxTurnMicros

\* No step makes room for more turns than there are slots.
LEMMA ReservedAfresh ==
  ASSUME NEW C \in SUBSET Turn, NEW b \in Nat, b <= Cap - 1
  PROVE  b + Cardinality(C) * MaxTurnMicros <= (Cap - 1) + Cardinality(Turn) * MaxTurnMicros
  <1>1. /\ Cardinality(C) \in Nat /\ Cardinality(Turn) \in Nat
        /\ Cardinality(C) <= Cardinality(Turn)
    BY TurnsAssumption, FS_Subset, FS_CardinalityType
  <1>2. \A k, n, m \in Nat : k <= n => k * m <= n * m /\ k * m \in Nat /\ n * m \in Nat
    OBVIOUS
  <1>3. /\ Cardinality(C) * MaxTurnMicros <= Cardinality(Turn) * MaxTurnMicros
        /\ Cardinality(C) * MaxTurnMicros \in Nat /\ Cardinality(Turn) * MaxTurnMicros \in Nat
    BY <1>1, <1>2, MaxTurnNat
  <1>4. Cap \in Nat \ {0}
    BY TurnsAssumption
  <1>5. \A x, y \in Nat : x <= y => b + x <= (Cap - 1) + y
    BY <1>4
  <1> QED BY <1>3, <1>5

\* Turns that leave without being billed free what was reserved for them.
LEMMA ReservedLess ==
  ASSUME Reserved, Committed \in SUBSET Turn, Committed' \subseteq Committed, billed \in Nat, billed' = billed
  PROVE  Reserved'
  <1>1. /\ Cardinality(Committed') \in Nat /\ Cardinality(Committed) \in Nat
        /\ Cardinality(Committed') <= Cardinality(Committed) /\ Cardinality(Turn) \in Nat
    BY TurnsAssumption, FS_Subset, FS_CardinalityType
  <1>2. \A k, n, m \in Nat : k <= n => k * m <= n * m /\ k * m \in Nat /\ n * m \in Nat
    OBVIOUS
  <1>3. /\ Cardinality(Committed') * MaxTurnMicros <= Cardinality(Committed) * MaxTurnMicros
        /\ Cardinality(Committed') * MaxTurnMicros \in Nat
        /\ Cardinality(Committed) * MaxTurnMicros \in Nat
        /\ Cardinality(Turn) * MaxTurnMicros \in Nat
    BY <1>1, <1>2, MaxTurnNat
  <1>4. Cap \in Nat
    BY TurnsAssumption
  <1>5. \A x, y, z \in Nat : x <= y /\ billed + y <= (Cap - 1) + z => billed + x <= (Cap - 1) + z
    BY <1>4
  <1> QED BY <1>3, <1>5 DEF Reserved, MaxTurnMicros, Micros

\* A turn that is billed uses what was reserved for it, or less.
LEMMA ReservedUsed ==
  ASSUME Reserved, Committed \in SUBSET Turn, NEW t \in Committed, Committed' \subseteq Committed \ {t},
         billed \in Nat, NEW c \in Nat, c <= MaxTurnMicros, billed' = billed + c
  PROVE  Reserved'
  <1>1. /\ Cardinality(Committed') \in Nat /\ Cardinality(Committed) \in Nat
        /\ Cardinality(Committed') <= Cardinality(Committed) - 1 /\ Cardinality(Turn) \in Nat
    <2>1. IsFiniteSet(Committed) /\ IsFiniteSet(Turn)
      BY TurnsAssumption, FS_Subset
    <2>2. IsFiniteSet(Committed \ {t}) /\ Cardinality(Committed \ {t}) = Cardinality(Committed) - 1
      BY <2>1, FS_RemoveElement
    <2>3. IsFiniteSet(Committed') /\ Cardinality(Committed') <= Cardinality(Committed \ {t})
      BY <2>2, FS_Subset
    <2> QED BY <2>1, <2>2, <2>3, FS_CardinalityType
  <1>2. \A k, n, m \in Nat : k <= n - 1 =>
            k * m + m <= n * m /\ k * m \in Nat /\ n * m \in Nat
    <2> TAKE k, n, m \in Nat
    <2> HAVE k <= n - 1
    <2>1. k * m + m = (k + 1) * m /\ k * m \in Nat /\ n * m \in Nat
      OBVIOUS
    <2>2. (k + 1) * m <= n * m
      OBVIOUS
    <2> QED BY <2>1, <2>2
  <1>3. /\ Cardinality(Committed') * MaxTurnMicros + MaxTurnMicros
             <= Cardinality(Committed) * MaxTurnMicros
        /\ Cardinality(Committed') * MaxTurnMicros \in Nat
        /\ Cardinality(Committed) * MaxTurnMicros \in Nat
        /\ Cardinality(Turn) * MaxTurnMicros \in Nat
    BY <1>1, <1>2, MaxTurnNat
  <1>4. Cap \in Nat
    BY TurnsAssumption
  <1>5. \A x, y, z, m \in Nat : x + m <= y /\ c <= m /\ billed + y <= (Cap - 1) + z
                               => (billed + c) + x <= (Cap - 1) + z
    BY <1>4
  <1>6. (billed + c) + Cardinality(Committed') * MaxTurnMicros
           <= (Cap - 1) + Cardinality(Turn) * MaxTurnMicros
    BY <1>3, <1>5, MaxTurnNat DEF Reserved
  <1> QED BY <1>6 DEF Reserved, MaxTurnMicros, Micros

----------------------------------------------------------------------------
(* Slots, sessions and tokens.                                             *)

Attached == {t \in Turn : turn[t].attached}
Flags(s) == <<s.attached, s.cancelled, s.superseded>>

\* The part of the invariant that is about the slots and the session.
SlotsInv == turn \in [Turn -> TurnState] /\ ws \in Session /\ SlotsFit /\ SlotsCounted /\ TokensKept

\* An idle slot is a slot.
LEMMA IdleState == Idle \in TurnState /\ \A k : Fits(k, Idle)
  <1>1. Idle \in TurnState
    BY TurnsAssumption DEF Idle, TurnState, Pcs
  <1>2. Idle.price <= Idle.round * MaxPrice
    BY TurnsAssumption DEF Idle
  <1> QED BY <1>1, <1>2, TurnsAssumption DEF Fits, Idle

\* A turn that goes on keeps its place in the session.
LEMMA GoesOn ==
  ASSUME SlotsInv, NEW t \in Turn, NEW new, Fits(kind[t], new), Flags(new) = Flags(turn[t]),
         turn[t].pc = "idle" => kind[t] # "ws",
         turn' = [turn EXCEPT ![t] = new], UNCHANGED <<kind, ws>>
  PROVE  SlotsInv'
  <1>1. /\ turn' \in [Turn -> TurnState] /\ turn'[t] = new
        /\ \A u \in Turn \ {t} : turn'[u] = turn[u]
    BY DEF SlotsInv, Fits
  <1>2. SlotsFit'
    BY <1>1 DEF SlotsInv, SlotsFit, Fits, Stages
  <1>3. \A u \in Turn : /\ turn'[u].attached = turn[u].attached
                         /\ turn'[u].cancelled = turn[u].cancelled
                         /\ turn'[u].superseded = turn[u].superseded
    BY <1>1 DEF Flags
  <1>4. {u \in Turn : turn'[u].attached} = {u \in Turn : turn[u].attached}
    BY <1>3
  <1>5. SlotsCounted'
    BY <1>3, <1>4 DEF SlotsInv, SlotsCounted
  <1>6. TokensKept'
    BY <1>1, <1>3 DEF SlotsInv, TokensKept
  <1> QED BY <1>1, <1>2, <1>5, <1>6 DEF SlotsInv

\* A turn that ends hands its slot over as a `done`.
LEMMA Ends ==
  ASSUME SlotsInv, NEW t \in Turn, Ended(t), UNCHANGED kind
  PROVE  SlotsInv'
  <1>1. /\ turn' \in [Turn -> TurnState] /\ turn'[t] = Idle
        /\ \A u \in Turn \ {t} : turn'[u] = turn[u]
    BY IdleState DEF SlotsInv, Ended
  <1>2. SlotsFit'
    <2>1. \A u \in Turn : Fits(kind[u], turn'[u])
      BY <1>1, IdleState DEF SlotsInv, SlotsFit
    <2> QED BY <2>1 DEF SlotsFit, Fits, Stages
  <1>3. ~Idle.attached /\ Idle.pc = "idle"
    BY DEF Idle
  <1>4. CASE ~turn[t].attached
    <2>1. ws' = ws
      BY <1>4 DEF Ended
    <2>2. {u \in Turn : turn'[u].attached} = {u \in Turn : turn[u].attached}
      BY <1>1, <1>3, <1>4
    <2>3. SlotsCounted'
      BY <1>1, <1>3, <2>1, <2>2 DEF SlotsInv, SlotsCounted
    <2>4. TokensKept'
      BY <1>1, <1>3, <2>1 DEF SlotsInv, TokensKept
    <2> QED BY <1>1, <1>2, <2>1, <2>3, <2>4 DEF SlotsInv
  <1>5. CASE turn[t].attached
    <2>1. ws \in Session /\ ws.up /\ ws' = [ws EXCEPT !.dones = @ + 1]
      BY <1>5 DEF Ended, SlotsInv, SlotsCounted
    <2>2. Attached' = Attached \ {t} /\ t \in Attached
      BY <1>1, <1>3, <1>5 DEF Attached
    <2>3. /\ Cardinality(Attached) \in Nat /\ Cardinality(Attached') \in Nat
          /\ Cardinality(Attached') = Cardinality(Attached) - 1
      <3>1. IsFiniteSet(Attached)
        BY TurnsAssumption, FS_Subset DEF Attached
      <3> QED BY <2>2, <3>1, FS_RemoveElement, FS_CardinalityType
    <2>4. /\ ws.inflight = ws.dones + Cardinality(Attached)
          /\ ws.inflight \in 0..InflightCap /\ ws.dones \in 0..InflightCap
      BY <2>1 DEF SlotsInv, SlotsCounted, Attached, Session
    <2>5. ws.dones + 1 \in 0..InflightCap
      BY <2>3, <2>4, TurnsAssumption
    <2>6. /\ ws' \in Session /\ ws'.up /\ ws'.inflight = ws.inflight
          /\ ws'.dones = ws.dones + 1 /\ ws'.current = ws.current
      BY <2>1, <2>5 DEF Session
    <2>7. SlotsCounted'
      BY <2>3, <2>4, <2>6 DEF SlotsCounted, Attached
    <2>8. TokensKept'
      BY <1>1, <1>3, <2>6 DEF SlotsInv, TokensKept
    <2> QED BY <1>1, <1>2, <2>6, <2>7, <2>8 DEF SlotsInv
  <1> QED BY <1>4, <1>5

\* A step of a turn, whether it goes on or ends.
LEMMA Becomes ==
  ASSUME SlotsInv, NEW t \in Turn, NEW new, Become(t, new), UNCHANGED kind,
         new.pc # "idle" => Fits(kind[t], new), Flags(new) = Flags(turn[t]),
         turn[t].pc = "idle" => kind[t] # "ws"
  PROVE  /\ SlotsInv'
         /\ turn'[t].pc = new.pc /\ \A u \in Turn \ {t} : turn'[u] = turn[u]
  <1>1. CASE new.pc = "idle"
    <2>1. Ended(t)
      BY <1>1 DEF Become
    <2> QED BY <1>1, <2>1, Ends DEF Ended, SlotsInv, Idle
  <1>2. CASE new.pc # "idle"
    <2>1. turn' = [turn EXCEPT ![t] = new] /\ UNCHANGED <<kind, ws>>
      BY <1>2 DEF Become
    <2> QED BY <1>2, <2>1, GoesOn DEF SlotsInv
  <1> QED BY <1>1, <1>2

\* Moving to another stage keeps a turn fit, if the stage is one of its kind.
LEMMA FitsStage ==
  ASSUME NEW k, NEW s, Fits(k, s), NEW where \in Stages(k) \cap Pcs,
         where \in {"check", "permit", "build", "ask"} => s.round = 0,
         where = "run" => s.round <= MaxRounds
  PROVE  LET new == [s EXCEPT !.pc = where] IN
           Fits(k, new) /\ Flags(new) = Flags(s) /\ new.pc = where
  <1> DEFINE new == [s EXCEPT !.pc = where]
  <1>1. s \in TurnState
    BY DEF Fits
  <1>2. /\ new \in TurnState /\ new.pc = where /\ new.round = s.round /\ new.price = s.price
        /\ new.attached = s.attached /\ new.cancelled = s.cancelled /\ new.superseded = s.superseded
    BY <1>1 DEF TurnState
  <1>3. where # "idle"
    BY DEF Pcs
  <1> HIDE DEF new
  <1>4. Fits(k, new) /\ Flags(new) = Flags(s)
    BY <1>2, <1>3 DEF Fits, Flags
  <1> QED BY <1>2, <1>4 DEF new

\* GoTo, to a stage of the turn's kind or to its end.
LEMMA GoesTo ==
  ASSUME SlotsInv, NEW t \in Turn, NEW where, where # "idle" => where \in Stages(kind[t]) \cap Pcs,
         where \in {"check", "permit", "build", "ask"} => turn[t].round = 0,
         where = "run" => turn[t].round <= MaxRounds,
         turn[t].pc = "idle" => kind[t] # "ws",
         GoTo(t, where), UNCHANGED kind
  PROVE  /\ SlotsInv'
         /\ turn'[t].pc = where /\ \A u \in Turn \ {t} : turn'[u] = turn[u]
  <1> DEFINE new == [turn[t] EXCEPT !.pc = where]
  <1>1. Fits(kind[t], turn[t]) /\ turn[t] \in TurnState
    BY DEF SlotsInv, SlotsFit
  <1>2. new.pc = where /\ Flags(new) = Flags(turn[t])
    BY <1>1 DEF TurnState, Flags
  <1>3. new.pc # "idle" => Fits(kind[t], new)
    BY <1>1, <1>2, FitsStage
  <1>4. Become(t, new)
    BY DEF GoTo
  <1> HIDE DEF new
  <1> QED BY <1>2, <1>3, <1>4, Becomes

\* Whether a stage of a turn of kind k comes after the ceiling and before the
\* bill.
Commits(k, pc) == pc \in {"permit", "run", "accrue", "insert"} \/ (k = "sse" /\ pc \in {"build", "ask"})

\* A step of one turn that is not billed by it.
LEMMA Unbilled ==
  ASSUME RecallInv, NEW t \in Turn, SlotsInv',
         \A u \in Turn \ {t} : turn'[u] = turn[u],
         UNCHANGED <<kind, rows, billed, days>>,
         Commits(kind[t], turn'[t].pc) => Commits(kind[t], turn[t].pc) \/ billed <= Cap - 1
  PROVE  RecallInv'
  <1>1. LedgerExact'
    BY DEF RecallInv, LedgerExact, Total, Sums
  <1>2. Reserved'
    <2>1. CASE billed <= Cap - 1
      <3>1. Committed' \in SUBSET Turn
        BY DEF Committed
      <3>2. billed + Cardinality(Committed') * MaxTurnMicros
               <= (Cap - 1) + Cardinality(Turn) * MaxTurnMicros
        BY <2>1, <3>1, ReservedAfresh DEF RecallInv
      <3> QED BY <3>2 DEF Reserved, MaxTurnMicros, Micros
    <2>2. CASE ~(billed <= Cap - 1)
      <3>1. Committed \in SUBSET Turn /\ Committed' \subseteq Committed
        BY <2>2 DEF Committed, Commits
      <3> QED BY <3>1, ReservedLess DEF RecallInv
    <2> QED BY <2>1, <2>2
  <1> QED BY <1>1, <1>2 DEF RecallInv, SlotsInv

\* The steps that only go to another stage.
LEMMA StageSteps ==
  ASSUME RecallInv, NEW t \in Turn,
         \/ Begin(t)
         \/ Check(t)
         \/ Build(t)
         \/ Ask(t)
         \/ ProviderFails(t)
         \/ Interrupted(t)
         \/ AccrueFails(t)
         \/ Answer(t)
         \/ Drain(t)
  PROVE  RecallInv'
  <1>0. SlotsInv /\ kind[t] \in {"sse", "ws", "digest"} /\ Fits(kind[t], turn[t])
    BY TurnsAssumption DEF RecallInv, SlotsInv, SlotsFit
  <1>1. ASSUME NEW where, where # "idle" => where \in Stages(kind[t]) \cap Pcs,
               where \in {"check", "permit", "build", "ask"} => turn[t].round = 0,
               where = "run" => turn[t].round <= MaxRounds,
               turn[t].pc = "idle" => kind[t] # "ws",
               GoTo(t, where), UNCHANGED <<kind, rows, billed, days>>,
               Commits(kind[t], where) => Commits(kind[t], turn[t].pc) \/ billed <= Cap - 1
        PROVE  RecallInv'
    BY <1>0, <1>1, GoesTo, Unbilled
  <1>2. /\ kind[t] = "sse" => Stages(kind[t]) = {"check", "permit", "build", "ask", "run", "accrue", "insert", "answer", "say"}
        /\ kind[t] = "ws" => Stages(kind[t]) = {"check", "permit", "build", "ask", "run", "accrue", "insert", "answer", "say", "drain"}
        /\ kind[t] = "digest" => Stages(kind[t]) = {"check", "run", "accrue", "insert"}
    BY StagesOf
  <1>3. /\ turn[t].pc = "idle" => turn[t].round = 0
        /\ turn[t].pc # "idle" => turn[t].pc \in Stages(kind[t])
        /\ turn[t].pc \in {"check", "permit", "build", "ask"} => turn[t].round = 0
        /\ turn[t].cancelled => kind[t] = "ws"
    BY <1>0 DEF Fits, Idle
  <1>4. ASSUME Refused(t), turn[t].pc \in {"check", "run"}, UNCHANGED <<kind, rows, billed, days>>
        PROVE  RecallInv'
    <2> DEFINE where == IF kind[t] = "ws" THEN "say" ELSE "idle"
    <2>1. GoTo(t, where)
      BY <1>4 DEF Refused
    <2>2. where # "idle" => where \in Stages(kind[t]) \cap Pcs
      BY <1>2 DEF Pcs
    <2>3. where \notin {"check", "permit", "build", "ask", "run"} /\ ~Commits(kind[t], where)
      BY DEF Commits
    <2> HIDE DEF where
    <2> QED BY <1>1, <1>4, <2>1, <2>2, <2>3
  <1>5. CASE Begin(t)
    BY <1>0, <1>1, <1>2, <1>3, <1>5 DEF Begin, Pcs, Commits
  <1>6. CASE Check(t)
    <2>1. CASE UnderCeiling /\ GoTo(t, After(t))
      <3>1. billed <= Cap - 1
        <4>1. Total(rows) \in Nat /\ Total(rows) < Cap /\ Total(rows) >= billed /\ billed \in Nat /\ Cap \in Nat
          BY <2>1, Totals, TurnsAssumption DEF RecallInv, LedgerExact, UnderCeiling
        <4> QED BY <4>1
      <3>2. /\ turn[t].pc = "check" /\ turn[t].round = 0
            /\ After(t) \in {"permit", "run"} /\ After(t) \in Stages(kind[t])
        BY <1>0, <1>2, <1>3, <1>6, AfterTable DEF Check
      <3>3. turn[t].round <= MaxRounds
        BY <3>2, TurnsAssumption
      <3> QED BY <1>1, <1>6, <2>1, <3>1, <3>2, <3>3 DEF Check, Pcs
    <2>2. CASE Refused(t)
      BY <1>4, <1>6, <2>2 DEF Check
    <2> QED BY <1>6, <2>1, <2>2 DEF Check
  <1>7. CASE Build(t)
    <2>1. turn[t].pc = "build" /\ After(t) = "ask" /\ "ask" \in Stages(kind[t])
      BY <1>0, <1>2, <1>3, <1>7, AfterTable DEF Build
    <2> QED BY <1>1, <1>3, <1>7, <2>1 DEF Build, Pcs, Commits
  <1>8. CASE Ask(t)
    <2>1. /\ turn[t].pc = "ask" /\ After(t) \in Stages(kind[t])
          /\ \/ kind[t] = "sse" /\ After(t) = "run"
             \/ kind[t] = "ws" /\ After(t) = "check"
      BY <1>0, <1>2, <1>3, <1>8, AfterTable DEF Ask
    <2>2. turn[t].round = 0 /\ turn[t].round <= MaxRounds
      BY <1>3, <2>1, TurnsAssumption
    <2> QED BY <1>1, <1>8, <2>1, <2>2 DEF Ask, Pcs, Commits
  <1>9. CASE ProviderFails(t)
    BY <1>4, <1>9 DEF ProviderFails
  <1>10. CASE Interrupted(t)
    <2>1. kind[t] = "ws" /\ turn[t].pc # "idle" /\ "say" \in Stages(kind[t])
      BY <1>2, <1>3, <1>10 DEF Interrupted
    <2> QED BY <1>1, <1>10, <2>1 DEF Interrupted, Pcs, Commits
  <1>11. CASE AccrueFails(t)
    <2>1. /\ turn[t].pc \in {"accrue", "insert"} /\ After(t) \in {"answer", "idle"}
          /\ After(t) # "idle" => After(t) \in Stages(kind[t])
      BY <1>0, <1>2, <1>11, AfterTable DEF AccrueFails
    <2> QED BY <1>1, <1>11, <2>1 DEF AccrueFails, Pcs, Commits
  <1>12. CASE Answer(t)
    <2>1. turn[t].pc = "answer" /\ After(t) = "say" /\ "say" \in Stages(kind[t])
      BY <1>0, <1>2, <1>3, <1>12, AfterTable DEF Answer
    <2> QED BY <1>1, <1>12, <2>1 DEF Answer, Pcs, Commits
  <1>13. CASE Drain(t)
    <2>1. turn[t].pc = "drain" /\ After(t) = "idle"
      BY <1>0, <1>2, <1>3, <1>13, AfterTable DEF Drain
    <2> QED BY <1>1, <1>13, <2>1 DEF Drain, Commits
  <1> QED BY <1>5, <1>6, <1>7, <1>8, <1>9, <1>10, <1>11, <1>12, <1>13

\* Permit and Say also take and return the permit.
LEMMA PermitSteps ==
  ASSUME RecallInv, NEW t \in Turn, Permit(t) \/ Say(t)
  PROVE  RecallInv'
  <1>0. SlotsInv /\ kind[t] \in {"sse", "ws", "digest"} /\ Fits(kind[t], turn[t])
    BY TurnsAssumption DEF RecallInv, SlotsInv, SlotsFit
  <1>1. /\ turn[t] \in TurnState /\ turn[t].pc \in {"permit", "say"}
        /\ UNCHANGED <<kind, rows, billed, days>>
        /\ turn[t].pc = "permit" => turn[t].round = 0
        /\ turn[t].pc \in Stages(kind[t])
    BY <1>0 DEF Permit, Say, Fits
  <1>2. /\ kind[t] = "sse" => Stages(kind[t]) = {"check", "permit", "build", "ask", "run", "accrue", "insert", "answer", "say"}
        /\ kind[t] = "ws" => Stages(kind[t]) = {"check", "permit", "build", "ask", "run", "accrue", "insert", "answer", "say", "drain"}
        /\ kind[t] = "digest" => Stages(kind[t]) = {"check", "run", "accrue", "insert"}
    BY StagesOf
  <1>3. ASSUME Refused(t), turn[t].pc = "permit"
        PROVE  RecallInv'
    <2> DEFINE where == IF kind[t] = "ws" THEN "say" ELSE "idle"
    <2>1. GoTo(t, where)
      BY <1>3 DEF Refused
    <2>2. where # "idle" => where \in Stages(kind[t]) \cap Pcs
      BY <1>2 DEF Pcs
    <2>3. where \notin {"check", "permit", "build", "ask", "run"} /\ ~Commits(kind[t], where)
      BY DEF Commits
    <2> HIDE DEF where
    <2> QED BY <1>0, <1>1, <1>3, <2>1, <2>2, <2>3, GoesTo, Unbilled
  <1>4. ASSUME NEW p \in BOOLEAN, Become(t, [turn[t] EXCEPT !.pc = After(t), !.permit = p])
        PROVE  RecallInv'
    <2> DEFINE new == [turn[t] EXCEPT !.pc = After(t), !.permit = p]
               mid == [turn[t] EXCEPT !.permit = p]
    <2>1. /\ After(t) # "idle" => After(t) \in Stages(kind[t]) \cap Pcs
          /\ turn[t].pc = "permit" => After(t) \in {"build", "run"}
          /\ turn[t].pc = "say" => After(t) \in {"idle", "drain"}
      BY <1>0, <1>1, <1>2, AfterTable DEF Pcs
    <2>2. /\ new.pc = After(t) /\ new.round = turn[t].round /\ new.price = turn[t].price
          /\ new.attached = turn[t].attached /\ new.cancelled = turn[t].cancelled
          /\ new.superseded = turn[t].superseded
          /\ After(t) # "idle" => new \in TurnState
      BY <1>1, <2>1 DEF TurnState
    <2> HIDE DEF new
    <2>3. new.pc # "idle" => Fits(kind[t], new)
      BY <1>0, <1>1, <2>1, <2>2, TurnsAssumption DEF Fits
    <2>4. Flags(new) = Flags(turn[t])
      BY <2>2 DEF Flags
    <2>5. Become(t, new)
      BY <1>4 DEF new
    <2>6. /\ SlotsInv'
          /\ turn'[t].pc = new.pc /\ \A u \in Turn \ {t} : turn'[u] = turn[u]
      BY <1>0, <1>1, <2>3, <2>4, <2>5, Becomes
    <2>7. Commits(kind[t], turn'[t].pc) => Commits(kind[t], turn[t].pc)
      BY <1>1, <2>1, <2>2, <2>6 DEF Commits
    <2> QED BY <1>1, <2>6, <2>7, Unbilled
  <1>5. CASE Permit(t)
    BY <1>3, <1>4, <1>5 DEF Permit
  <1>6. CASE Say(t)
    BY <1>4, <1>6 DEF Say
  <1> QED BY <1>5, <1>6

\* A call of the provider: its usage is added, and the loop's bound holds.
LEMMA RoundStep ==
  ASSUME RecallInv, NEW t \in Turn, Round(t)
  PROVE  RecallInv'
  <1>0. SlotsInv /\ kind[t] \in {"sse", "ws", "digest"} /\ Fits(kind[t], turn[t])
    BY TurnsAssumption DEF RecallInv, SlotsInv, SlotsFit
  <1>1. /\ turn[t] \in TurnState /\ turn[t].pc = "run"
        /\ UNCHANGED <<kind, rows, billed, days>>
        /\ turn[t].round <= MaxRounds /\ turn[t].price <= turn[t].round * MaxPrice
    BY <1>0 DEF Round, Fits
  <1>2. PICK u \in Usage, tools \in BOOLEAN :
           Become(t, [Counts(turn[t], u) EXCEPT
                        !.pc = IF Continues(turn[t], tools) THEN "run" ELSE "accrue"])
    BY DEF Round
  <1> DEFINE where == IF Continues(turn[t], tools) THEN "run" ELSE "accrue"
             new == [Counts(turn[t], u) EXCEPT !.pc = where]
  <1>3. /\ where \in {"run", "accrue"}
        /\ where = "run" => turn[t].round < MaxRounds
        /\ where \in Stages(kind[t])
    <2>1. turn[t].round \in Nat /\ MaxRounds \in Nat
      BY <1>1, TurnsAssumption DEF TurnState
    <2> QED BY <1>0, <2>1, StagesOf DEF Continues, Exhausted
  <1> HIDE DEF where
  <1>4. u.tokens \in Nat /\ u.price \in 0..MaxPrice /\ MaxRounds \in Nat /\ MaxPrice \in Nat
    BY TurnsAssumption
  <1>5. /\ new.pc = where /\ new.round = turn[t].round + 1 /\ new.price = turn[t].price + u.price
        /\ new.attached = turn[t].attached /\ new.cancelled = turn[t].cancelled
        /\ new.superseded = turn[t].superseded
        /\ new \in TurnState
    <2> DEFINE mid == Counts(turn[t], u)
    <2>1. turn[t].round + 1 \in 0..(MaxRounds + 1) /\ turn[t].tokens + u.tokens \in Nat /\ turn[t].price + u.price \in Nat
      BY <1>1, <1>4 DEF TurnState
    <2>2. /\ mid \in TurnState
          /\ mid.round = turn[t].round + 1 /\ mid.price = turn[t].price + u.price
          /\ mid.attached = turn[t].attached /\ mid.cancelled = turn[t].cancelled
          /\ mid.superseded = turn[t].superseded
      BY <1>1, <2>1 DEF TurnState, Counts
    <2> HIDE DEF mid
    <2>3. where \in Pcs \cup {"idle"}
      BY <1>3 DEF Pcs
    <2>4. LET n == [mid EXCEPT !.pc = where] IN
            /\ n.pc = where /\ n.round = mid.round /\ n.price = mid.price
            /\ n.attached = mid.attached /\ n.cancelled = mid.cancelled
            /\ n.superseded = mid.superseded
            /\ n \in TurnState
      BY <2>2, <2>3 DEF TurnState
    <2> QED BY <2>2, <2>4 DEF mid
  <1>6. Become(t, new)
    BY <1>2 DEF where
  <1> HIDE DEF new
  <1>7. new.price <= new.round * MaxPrice
    <2>1. \A r, p, q, m \in Nat : p <= r * m /\ q <= m => p + q <= (r + 1) * m
      OBVIOUS
    <2>2. turn[t].round \in Nat /\ turn[t].price \in Nat
      BY <1>1 DEF TurnState
    <2> QED BY <1>1, <1>4, <1>5, <2>1, <2>2
  <1>8. Fits(kind[t], new)
    <2>1. turn[t].round \in Nat
      BY <1>1 DEF TurnState
    <2> QED BY <1>0, <1>3, <1>4, <1>5, <1>7, <2>1 DEF Fits
  <1>9. Flags(new) = Flags(turn[t])
    BY <1>5 DEF Flags
  <1>10. /\ SlotsInv'
         /\ turn'[t].pc = new.pc /\ \A v \in Turn \ {t} : turn'[v] = turn[v]
    BY <1>0, <1>1, <1>6, <1>8, <1>9, Becomes
  <1>11. Commits(kind[t], turn[t].pc)
    BY <1>1 DEF Commits
  <1> QED BY <1>1, <1>10, <1>11, Unbilled

\* The bill: rows and history move together, and the reservation is used.
LEMMA BillSteps ==
  ASSUME RecallInv, NEW t \in Turn, Accrue(t) \/ Insert(t)
  PROVE  RecallInv'
  <1> DEFINE cost == Micros(turn[t].price)
  <1>0. SlotsInv /\ kind[t] \in {"sse", "ws", "digest"} /\ Fits(kind[t], turn[t])
    BY TurnsAssumption DEF RecallInv, SlotsInv, SlotsFit
  <1>1. /\ turn[t] \in TurnState /\ turn[t].pc \in {"accrue", "insert"}
        /\ UNCHANGED <<kind, days>> /\ rows \in Seq(Nat) /\ billed \in Nat
    BY <1>0 DEF Accrue, Insert, Fits, RecallInv
  <1>2. cost \in Nat /\ cost <= MaxTurnMicros
    <2>1. /\ turn[t].price \in Nat /\ turn[t].round \in 0..(MaxRounds + 1)
          /\ turn[t].price <= turn[t].round * MaxPrice
      BY <1>0, <1>1 DEF Fits, TurnState
    <2>2. \A r, n, m \in Nat : r <= n => r * m <= n * m /\ r * m \in Nat /\ n * m \in Nat
      OBVIOUS
    <2>3. MaxRounds + 1 \in Nat /\ MaxPrice \in Nat
      BY TurnsAssumption
    <2>4. turn[t].price <= (MaxRounds + 1) * MaxPrice /\ (MaxRounds + 1) * MaxPrice \in Nat
      BY <2>1, <2>2, <2>3
    <2> QED BY <2>1, <2>4, Rounding DEF MaxTurnMicros
  <1>3. /\ After(t) \in {"answer", "idle"}
        /\ After(t) # "idle" => After(t) \in Stages(kind[t]) \cap Pcs
    BY <1>0, <1>1, AfterTable, StagesOf DEF Pcs
  <1> HIDE DEF cost
  <1>4. ASSUME GoTo(t, After(t)), billed' = billed + cost, rows' \in Seq(Nat), LedgerExact'
        PROVE  RecallInv'
    <2>1. /\ SlotsInv'
          /\ turn'[t].pc = After(t) /\ \A u \in Turn \ {t} : turn'[u] = turn[u]
      BY <1>0, <1>1, <1>3, <1>4, GoesTo
    <2>2. Committed \in SUBSET Turn /\ t \in Committed /\ Committed' \subseteq Committed \ {t}
      BY <1>1, <1>3, <2>1 DEF Committed
    <2>3. Reserved'
      BY <1>1, <1>2, <1>4, <2>2, ReservedUsed DEF RecallInv
    <2> QED BY <1>1, <1>2, <1>4, <2>1, <2>3 DEF RecallInv, SlotsInv
  <1>5. CASE Insert(t)
    <2>1. /\ rows' = Append(rows, cost) /\ billed' = billed + cost /\ GoTo(t, After(t))
      BY <1>5 DEF Insert, cost
    <2>2. rows' \in Seq(Nat) /\ Len(rows') = Len(rows) + 1 /\ Len(rows) \in Nat
      BY <1>1, <1>2, <2>1
    <2>3. Total(rows') = Total(rows) + cost /\ Total(rows) \in Nat
      BY <1>1, <1>2, <2>1, Totals
    <2>4. Total(rows) >= billed /\ (Len(rows) <= 1 => Total(rows) = billed)
      BY DEF RecallInv, LedgerExact
    <2>5. Total(rows') >= billed' /\ (Len(rows') <= 1 => Total(rows') = billed')
      BY <1>1, <1>2, <2>1, <2>2, <2>3, <2>4
    <2>6. LedgerExact'
      BY <2>5 DEF LedgerExact, Total, Sums
    <2> QED BY <1>4, <2>1, <2>2, <2>6
  <1>6. CASE Accrue(t) /\ turn[t].tokens = 0 /\ turn[t].price = 0
    <2>1. /\ rows' = rows /\ billed' = billed + cost /\ GoTo(t, After(t))
      BY <1>6 DEF Accrue, cost
    <2>2. cost = 0 /\ billed' = billed
      BY <1>1, <1>6, <2>1, Rounding DEF cost
    <2>3. LedgerExact'
      BY <2>1, <2>2 DEF RecallInv, LedgerExact, Total, Sums
    <2> QED BY <1>1, <1>4, <2>1, <2>3
  <1>7. CASE Accrue(t) /\ ~(turn[t].tokens = 0 /\ turn[t].price = 0) /\ rows # <<>>
    <2>1. /\ rows' = Updated(cost) /\ billed' = billed + cost /\ GoTo(t, After(t))
      BY <1>7 DEF Accrue, cost
    <2>2. /\ rows' \in Seq(Nat) /\ Len(rows') = Len(rows) /\ Len(rows) \in Nat /\ Len(rows) > 0
          /\ \A i \in 1..Len(rows) : rows'[i] = rows[i] + cost
      <3>1. DOMAIN rows = 1..Len(rows) /\ Len(rows) \in Nat /\ Len(rows) > 0
        BY <1>1, <1>7
      <3>2. \A i \in 1..Len(rows) : rows[i] + cost \in Nat
        BY <1>1, <1>2
      <3>3. rows' = [i \in 1..Len(rows) |-> rows[i] + cost]
        BY <2>1, <3>1 DEF Updated
      <3> QED BY <3>1, <3>2, <3>3
    <2>3. Total(rows') >= Total(rows) + cost /\ Total(rows) \in Nat /\ Total(rows') \in Nat
      BY <1>1, <1>2, <2>2, Totals
    <2>4. Total(rows) >= billed /\ (Len(rows) <= 1 => Total(rows) = billed)
      BY DEF RecallInv, LedgerExact
    <2>5. Len(rows) = 1 => Total(rows) = rows[1] /\ Total(rows') = rows'[1] /\ rows'[1] = rows[1] + cost
      BY <1>1, <1>2, <2>2, Totals
    <2>6. Total(rows') >= billed'
      BY <1>1, <1>2, <2>1, <2>3, <2>4
    <2>7. Len(rows') <= 1 => Total(rows') = billed'
      BY <1>1, <1>2, <2>1, <2>2, <2>4, <2>5
    <2>8. LedgerExact'
      BY <2>6, <2>7 DEF LedgerExact, Total, Sums
    <2> QED BY <1>4, <2>1, <2>2, <2>8
  <1>8. CASE Accrue(t) /\ ~(turn[t].tokens = 0 /\ turn[t].price = 0) /\ rows = <<>>
    <2>1. GoTo(t, "insert") /\ UNCHANGED <<kind, rows, billed, days>>
      BY <1>8 DEF Accrue
    <2>2. "insert" \in Stages(kind[t]) \cap Pcs /\ Commits(kind[t], turn[t].pc)
      BY <1>0, <1>1, StagesOf DEF Commits, Pcs
    <2>3. /\ SlotsInv'
          /\ turn'[t].pc = "insert" /\ \A u \in Turn \ {t} : turn'[u] = turn[u]
      BY <1>0, <1>1, <2>1, <2>2, GoesTo
    <2> QED BY <2>1, <2>2, <2>3, Unbilled
  <1> QED BY <1>5, <1>6, <1>7, <1>8

\* A step of the session commits nobody to anything.
LEMMA SessionFrame ==
  ASSUME RecallInv, SlotsInv', UNCHANGED <<kind, rows, billed, days>>,
         \A u \in Turn : Commits(kind[u], turn'[u].pc) => Commits(kind[u], turn[u].pc)
  PROVE  RecallInv'
  <1>1. LedgerExact'
    BY DEF RecallInv, LedgerExact, Total, Sums
  <1>2. Committed \in SUBSET Turn /\ Committed' \subseteq Committed
    BY DEF Committed, Commits
  <1>3. Reserved'
    BY <1>2, ReservedLess DEF RecallInv
  <1> QED BY <1>1, <1>3 DEF RecallInv, SlotsInv

\* A new session has no turns yet.
LEMMA DownSession == Down \in Session /\ [Down EXCEPT !.up = TRUE] \in Session
  <1>1. Down \in Session
    <2>1. 0 \in 0..InflightCap /\ NoTurn \in Turn \cup {NoTurn}
      BY TurnsAssumption
    <2> QED BY <2>1 DEF Down, Session
  <1>2. [Down EXCEPT !.up = TRUE] \in Session
    BY <1>1 DEF Session
  <1> QED BY <1>1, <1>2

\* The steps of the session that touch no turn.
LEMMA QuietSteps ==
  ASSUME RecallInv, Connect \/ Initialize \/ Done \/ Stall
  PROVE  RecallInv'
  <1>0. SlotsInv /\ ws \in Session
    BY DEF RecallInv, SlotsInv
  <1>1. UNCHANGED <<kind, turn, rows, billed, days>>
    BY DEF Connect, Initialize, Done, Stall
  <1>2. Cardinality(Attached) \in Nat
    BY TurnsAssumption, FS_Subset, FS_CardinalityType DEF Attached
  <1>3. ws' \in Session /\ SlotsCounted' /\ TokensKept'
    <2>1. CASE Connect
      <3>1. ~ws.up /\ ws' = [Down EXCEPT !.up = TRUE] /\ Attached = {} /\ ws = Down
        BY <1>0, <2>1 DEF Connect, SlotsInv, SlotsCounted, Attached
      <3>2. Cardinality(Attached) = 0
        BY <3>1, FS_EmptySet
      <3>3. ws'.up /\ ws'.inflight = 0 /\ ws'.dones = 0 /\ ws'.current = Down.current
        BY <3>1 DEF Down
      <3>4. SlotsCounted'
        BY <1>1, <3>2, <3>3 DEF SlotsCounted, Attached
      <3>5. TokensKept'
        BY <1>0, <1>1, <3>1, <3>3 DEF SlotsInv, TokensKept
      <3> QED BY <3>1, <3>4, <3>5, DownSession
    <2>2. CASE Initialize \/ Stall
      <3>1. /\ ws' \in Session /\ ws.up /\ ws'.up /\ ws'.inflight = ws.inflight
            /\ ws'.dones = ws.dones /\ ws'.current = ws.current
        BY <1>0, <2>2 DEF Initialize, Stall, Session
      <3> QED BY <1>0, <1>1, <3>1 DEF SlotsInv, SlotsCounted, TokensKept
    <2>3. CASE Done
      <3>1. /\ ws.up /\ ws.dones \in 1..InflightCap /\ ws.inflight \in 0..InflightCap
            /\ ws.inflight = ws.dones + Cardinality(Attached)
        BY <1>0, <2>3, TurnsAssumption DEF Done, SlotsInv, SlotsCounted, Attached, Session
      <3>2. ws.inflight > 0 /\ ws.inflight - 1 \in 0..InflightCap /\ ws.dones - 1 \in 0..InflightCap
        BY <1>2, <3>1, TurnsAssumption
      <3>3. ws' = [ws EXCEPT !.dones = ws.dones - 1, !.inflight = ws.inflight - 1]
        BY <2>3, <3>2 DEF Done
      <3>4. /\ ws' \in Session /\ ws'.up /\ ws'.inflight = ws.inflight - 1
            /\ ws'.dones = ws.dones - 1 /\ ws'.current = ws.current
        BY <1>0, <3>1, <3>2, <3>3 DEF Session
      <3>5. SlotsCounted'
        BY <1>1, <1>2, <3>1, <3>4 DEF SlotsCounted, Attached
      <3>6. TokensKept'
        BY <1>0, <1>1, <3>4 DEF SlotsInv, TokensKept
      <3> QED BY <3>4, <3>5, <3>6
    <2> QED BY <2>1, <2>2, <2>3
  <1>4. SlotsInv'
    BY <1>0, <1>1, <1>3 DEF SlotsInv, SlotsFit, Fits, Stages
  <1> QED BY <1>1, <1>4, SessionFrame

\* turn/start takes a slot, and the token of the turn before it.
LEMMA TurnStartStep ==
  ASSUME RecallInv, NEW t \in Turn, TurnStart(t)
  PROVE  RecallInv'
  <1>0. /\ SlotsInv /\ ws \in Session /\ turn \in [Turn -> TurnState] /\ turn[t] = Idle
        /\ kind[t] = "ws" /\ ws.up /\ ws.dones = 0 /\ ws.inflight < InflightCap
        /\ UNCHANGED <<kind, rows, billed, days>>
    BY DEF RecallInv, SlotsInv, SlotsFit, Fits, TurnStart, Accepts
  <1> DEFINE new == [Idle EXCEPT !.pc = "build", !.attached = TRUE]
  <1>1. /\ new \in TurnState /\ new.pc = "build" /\ new.attached /\ new.round = 0 /\ new.price = 0
        /\ ~new.cancelled
    <2>1. /\ Idle \in TurnState /\ Idle.round = 0 /\ Idle.price = 0 /\ ~Idle.cancelled
          /\ "build" \in Pcs \cup {"idle"}
      BY IdleState DEF Idle, Pcs
    <2> QED BY <2>1 DEF TurnState
  <1>2. turn'[t] = new
    BY DEF TurnStart
  <1> HIDE DEF new
  <1>3. Fits("ws", new)
    <2>1. "build" \in Stages("ws")
      BY StagesOf
    <2>2. new.price <= new.round * MaxPrice
      BY <1>1, TurnsAssumption
    <2> QED BY <1>1, <2>1, <2>2 DEF Fits
  <1>4. ASSUME NEW u \in Turn \ {t}
        PROVE  /\ Fits(kind[u], turn'[u]) /\ turn'[u].pc = turn[u].pc
               /\ turn'[u].attached = turn[u].attached /\ turn'[u].cancelled = turn[u].cancelled
               /\ turn[u].superseded => turn'[u].superseded
               /\ u = ws.current /\ turn[u].attached => turn'[u].superseded
    <2>1. turn[u] \in TurnState /\ Fits(kind[u], turn[u])
      BY <1>0 DEF SlotsInv, SlotsFit
    <2>2. CASE u = ws.current /\ turn[u].attached
      <3> DEFINE v == [turn[u] EXCEPT !.superseded = TRUE]
      <3>1. turn'[u] = v
        BY <2>2 DEF TurnStart
      <3>2. /\ v \in TurnState /\ v.pc = turn[u].pc /\ v.round = turn[u].round
            /\ v.price = turn[u].price /\ v.attached = turn[u].attached
            /\ v.cancelled = turn[u].cancelled /\ v.superseded
        BY <2>1 DEF TurnState
      <3>3. turn[u].pc # "idle"
        BY <2>1, <2>2 DEF Fits, Idle
      <3> HIDE DEF v
      <3>4. Fits(kind[u], v)
        BY <2>1, <3>2, <3>3 DEF Fits
      <3> QED BY <3>1, <3>2, <3>4
    <2>3. CASE ~(u = ws.current /\ turn[u].attached)
      <3>1. turn'[u] = turn[u]
        BY <2>3 DEF TurnStart
      <3> QED BY <2>1, <2>3, <3>1
    <2> QED BY <2>2, <2>3
  <1>5. turn' \in [Turn -> TurnState] /\ SlotsFit'
    <2>1. \A u \in Turn : Fits(kind[u], turn'[u])
      BY <1>0, <1>2, <1>3, <1>4
    <2>2. turn' = [u \in Turn |-> turn'[u]]
      BY DEF TurnStart
    <2>3. \A u \in Turn : turn'[u] \in TurnState
      BY <2>1 DEF Fits
    <2>4. turn' \in [Turn -> TurnState]
      BY <2>2, <2>3
    <2> QED BY <1>0, <2>1, <2>4 DEF SlotsFit, Fits, Stages
  <1>6. /\ ws' \in Session /\ ws'.up /\ ws'.inflight = ws.inflight + 1 /\ ws'.dones = 0 /\ ws'.current = t
    <2>1. ws' = [ws EXCEPT !.inflight = ws.inflight + 1, !.current = t]
      BY DEF TurnStart
    <2>2. ws.inflight + 1 \in 0..InflightCap
      BY <1>0, TurnsAssumption DEF Session
    <2> QED BY <1>0, <2>1, <2>2 DEF Session
  <1>7. Attached' = Attached \cup {t} /\ t \notin Attached
    BY <1>0, <1>1, <1>2, <1>4 DEF Attached, Idle
  <1>8. SlotsCounted'
    <2>1. IsFiniteSet(Attached)
      BY TurnsAssumption, FS_Subset DEF Attached
    <2>2. Cardinality(Attached') = Cardinality(Attached) + 1 /\ Cardinality(Attached) \in Nat
      BY <1>7, <2>1, FS_AddElement, FS_CardinalityType
    <2>3. ws.inflight = ws.dones + Cardinality(Attached)
      BY <1>0 DEF SlotsInv, SlotsCounted, Attached
    <2> QED BY <1>0, <1>6, <2>2, <2>3 DEF SlotsCounted, Attached
  <1>9. TokensKept'
    BY <1>0, <1>1, <1>2, <1>4, <1>6 DEF SlotsInv, TokensKept
  <1>10. SlotsInv'
    BY <1>5, <1>6, <1>8, <1>9 DEF SlotsInv
  <1>11. \A u \in Turn : Commits(kind[u], turn'[u].pc) => Commits(kind[u], turn[u].pc)
    BY <1>0, <1>1, <1>2, <1>4 DEF Commits
  <1> QED BY <1>0, <1>10, <1>11, SessionFrame

\* Cancelling the current turn changes nothing else about the turns.
LEMMA CancelledTurns ==
  ASSUME RecallInv, NEW u \in Turn
  PROVE  /\ Fits(kind[u], Cancelled[u]) /\ Cancelled[u].pc = turn[u].pc
         /\ Cancelled[u].attached = turn[u].attached
         /\ Cancelled[u].superseded = turn[u].superseded
         /\ turn[u].cancelled => Cancelled[u].cancelled
         /\ u = ws.current /\ turn[u].attached => Cancelled[u].cancelled
  <1>1. turn[u] \in TurnState /\ Fits(kind[u], turn[u])
    BY DEF RecallInv, SlotsFit
  <1>2. CASE u = ws.current /\ turn[u].attached
    <2> DEFINE v == [turn[u] EXCEPT !.cancelled = TRUE]
    <2>1. Cancelled[u] = v
      BY <1>2 DEF Cancelled
    <2>2. /\ v \in TurnState /\ v.pc = turn[u].pc /\ v.round = turn[u].round
          /\ v.price = turn[u].price /\ v.attached = turn[u].attached
          /\ v.cancelled /\ v.superseded = turn[u].superseded
      BY <1>1 DEF TurnState
    <2>3. turn[u].pc # "idle" /\ kind[u] = "ws"
      BY <1>1, <1>2 DEF Fits, Idle
    <2> HIDE DEF v
    <2>4. Fits(kind[u], v)
      BY <1>1, <2>2, <2>3 DEF Fits
    <2> QED BY <2>1, <2>2, <2>4
  <1>3. CASE ~(u = ws.current /\ turn[u].attached)
    <2>1. Cancelled[u] = turn[u]
      BY <1>3 DEF Cancelled
    <2> QED BY <1>1, <1>3, <2>1
  <1> QED BY <1>2, <1>3

\* turn/interrupt gives its own slot back and cancels the current turn.
LEMMA InterruptStep ==
  ASSUME RecallInv, Interrupt
  PROVE  RecallInv'
  <1>0. /\ SlotsInv /\ ws \in Session /\ ws.up
        /\ turn' = Cancelled /\ UNCHANGED <<kind, rows, billed, days>>
    BY DEF RecallInv, SlotsInv, Interrupt, Accepts
  <1>1. turn' \in [Turn -> TurnState] /\ SlotsFit'
    <2>1. \A u \in Turn : Fits(kind[u], turn'[u])
      BY <1>0, CancelledTurns
    <2>2. turn' = [u \in Turn |-> turn'[u]]
      BY <1>0 DEF Cancelled
    <2>3. \A u \in Turn : turn'[u] \in TurnState
      BY <2>1 DEF Fits
    <2>4. turn' \in [Turn -> TurnState]
      BY <2>2, <2>3
    <2> QED BY <1>0, <2>1, <2>4 DEF SlotsFit, Fits, Stages
  <1>2. /\ ws' \in Session /\ ws'.up /\ ws'.inflight = ws.inflight /\ ws'.dones = ws.dones
        /\ ws'.current = NoTurn
    BY <1>0 DEF Interrupt, InterruptDone, Session
  <1>3. Attached' = Attached
    BY <1>0, CancelledTurns DEF Attached
  <1>4. SlotsCounted'
    BY <1>0, <1>2, <1>3 DEF SlotsInv, SlotsCounted, Attached
  <1>5. TokensKept'
    BY <1>0, CancelledTurns DEF SlotsInv, TokensKept
  <1>6. \A u \in Turn : Commits(kind[u], turn'[u].pc) => Commits(kind[u], turn[u].pc)
    BY <1>0, CancelledTurns
  <1>7. SlotsInv'
    BY <1>1, <1>2, <1>4, <1>5 DEF SlotsInv
  <1> QED BY <1>0, <1>6, <1>7, SessionFrame

\* The session ends: the current turn is cancelled and nobody listens.
LEMMA DisconnectStep ==
  ASSUME RecallInv, Disconnect
  PROVE  RecallInv'
  <1>0. /\ SlotsInv /\ ws' = Down /\ UNCHANGED <<kind, rows, billed, days>>
        /\ turn' = [u \in Turn |-> [Cancelled[u] EXCEPT !.attached = FALSE]]
    BY DEF RecallInv, SlotsInv, Disconnect, TurnsAtEnd
  <1>1. ASSUME NEW u \in Turn
        PROVE  /\ Fits(kind[u], turn'[u]) /\ turn'[u].pc = turn[u].pc /\ ~turn'[u].attached
               /\ turn'[u].superseded = turn[u].superseded
               /\ turn[u].cancelled => turn'[u].cancelled
               /\ u = ws.current /\ turn[u].attached => turn'[u].cancelled
    <2> DEFINE c == Cancelled[u]
               v == [c EXCEPT !.attached = FALSE]
    <2>1. /\ Fits(kind[u], c) /\ c.pc = turn[u].pc /\ c.superseded = turn[u].superseded
          /\ turn[u].cancelled => c.cancelled
          /\ u = ws.current /\ turn[u].attached => c.cancelled
      BY CancelledTurns
    <2>2. turn'[u] = v
      BY <1>0
    <2> HIDE DEF c
    <2>3. c \in TurnState
      BY <2>1 DEF Fits
    <2>4. /\ v \in TurnState /\ v.pc = c.pc /\ v.round = c.round /\ v.price = c.price
          /\ ~v.attached /\ v.cancelled = c.cancelled /\ v.superseded = c.superseded
      BY <2>3 DEF TurnState
    <2>5. c.pc = "idle" => v = Idle
      <3> SUFFICES ASSUME c.pc = "idle" PROVE v = Idle
        OBVIOUS
      <3>1. c = Idle
        BY <2>1 DEF Fits
      <3>2. Idle.attached = FALSE
        BY DEF Idle
      <3> QED BY <2>3, <3>1, <3>2 DEF TurnState
    <2> HIDE DEF v
    <2>6. Fits(kind[u], v)
      BY <2>1, <2>4, <2>5 DEF Fits
    <2> QED BY <2>1, <2>2, <2>4, <2>6
  <1>2. turn' \in [Turn -> TurnState] /\ SlotsFit'
    <2>1. \A u \in Turn : turn'[u] \in TurnState
      BY <1>1 DEF Fits
    <2>2. turn' = [u \in Turn |-> turn'[u]]
      BY <1>0
    <2>3. turn' \in [Turn -> TurnState]
      BY <2>1, <2>2
    <2> QED BY <1>0, <1>1, <2>3 DEF SlotsFit, Fits, Stages
  <1>3. ws' \in Session /\ ~ws'.up
    BY <1>0, DownSession DEF Down
  <1>4. SlotsCounted'
    BY <1>0, <1>1, <1>3 DEF SlotsCounted, Down
  <1>5. TokensKept'
    BY <1>0, <1>1 DEF SlotsInv, TokensKept
  <1>6. \A u \in Turn : Commits(kind[u], turn'[u].pc) => Commits(kind[u], turn[u].pc)
    BY <1>1
  <1>7. SlotsInv'
    BY <1>2, <1>3, <1>4, <1>5 DEF SlotsInv
  <1> QED BY <1>0, <1>6, <1>7, SessionFrame

\* Slots that are all idle, under a session that is down, are in order.
LEMMA AllIdle ==
  ASSUME turn = [t \in Turn |-> Idle], ws = Down
  PROVE  SlotsInv
  <1>1. turn \in [Turn -> TurnState] /\ SlotsFit
    BY IdleState DEF SlotsFit
  <1>2. SlotsCounted /\ TokensKept
    BY DEF SlotsCounted, TokensKept, Down, Idle
  <1> QED BY <1>1, <1>2, DownSession DEF SlotsInv

\* Nothing is spent, and nobody runs, at first.
LEMMA InitRecallInv == Init => RecallInv
  <1> SUFFICES ASSUME Init PROVE RecallInv
    OBVIOUS
  <1>1. SlotsInv
    BY AllIdle DEF Init
  <1>2. kind \in Mixes /\ days \in 0..MaxDays /\ rows = <<>> /\ rows \in Seq(Nat) /\ billed = 0
    BY TurnsAssumption DEF Init
  <1>3. LedgerExact
    BY <1>2, TotalEmpty DEF LedgerExact
  <1>4. Reserved
    <2>1. Committed \in SUBSET Turn
      BY DEF Committed
    <2> QED BY <1>2, <2>1, ReservedAfresh, TurnsAssumption DEF Reserved
  <1> QED BY <1>1, <1>2, <1>3, <1>4 DEF RecallInv, SlotsInv

\* A new day starts from nothing, whoever is in flight.
LEMMA MidnightStep ==
  ASSUME RecallInv, Midnight
  PROVE  RecallInv'
  <1>1. /\ UNCHANGED <<kind, turn, ws>> /\ rows' = <<>> /\ billed' = 0 /\ days' \in 0..MaxDays
        /\ rows' \in Seq(Nat)
    BY TurnsAssumption DEF Midnight, RecallInv
  <1>2. LedgerExact'
    <2>1. Total(rows') = 0
      BY <1>1, TotalEmpty
    <2>2. Total(rows') >= billed' /\ (Len(rows') <= 1 => Total(rows') = billed')
      BY <1>1, <2>1
    <2> QED BY <2>2 DEF LedgerExact, Total, Sums
  <1>3. Reserved'
    <2>1. Committed' \in SUBSET Turn
      BY DEF Committed
    <2>2. 0 + Cardinality(Committed') * MaxTurnMicros
             <= (Cap - 1) + Cardinality(Turn) * MaxTurnMicros
      BY <2>1, ReservedAfresh, TurnsAssumption
    <2> QED BY <1>1, <2>2 DEF Reserved, MaxTurnMicros, Micros
  <1>4. SlotsInv'
    BY <1>1 DEF RecallInv, SlotsInv, SlotsFit, Fits, Stages, SlotsCounted, TokensKept
  <1> QED BY <1>1, <1>2, <1>3, <1>4 DEF RecallInv, SlotsInv

\* After a restart nobody runs; what was billed stays billed.
LEMMA RestartStep ==
  ASSUME RecallInv, Restart
  PROVE  RecallInv'
  <1>1. /\ UNCHANGED <<kind, rows, billed>> /\ days' \in 0..MaxDays
        /\ turn' = [t \in Turn |-> Idle] /\ ws' = Down
    BY TurnsAssumption DEF Restart, RecallInv
  <1>2. turn' \in [Turn -> TurnState] /\ SlotsFit'
    BY <1>1, IdleState DEF SlotsFit, Fits, Stages
  <1>3. SlotsCounted' /\ TokensKept'
    BY <1>1 DEF SlotsCounted, TokensKept, Down, Idle
  <1>4. LedgerExact'
    BY <1>1 DEF RecallInv, LedgerExact, Total, Sums
  <1>5. Committed \in SUBSET Turn /\ Committed' \subseteq Committed
    BY <1>1 DEF Committed, Idle
  <1>6. Reserved'
    BY <1>1, <1>5, ReservedLess DEF RecallInv
  <1> QED BY <1>1, <1>2, <1>3, <1>4, <1>6, DownSession DEF RecallInv

\* Every step keeps the inductive invariant.
LEMMA NextRecallInv == RecallInv /\ [Next]_vars => RecallInv'
  <1> SUFFICES ASSUME RecallInv, [Next]_vars PROVE RecallInv'
    OBVIOUS
  <1>1. CASE UNCHANGED vars
    <2>1. UNCHANGED <<kind, rows, billed, days, turn, ws>>
      BY <1>1 DEF vars
    <2>2. SlotsInv'
      BY <2>1 DEF RecallInv, SlotsInv, SlotsFit, Fits, Stages, SlotsCounted, TokensKept
    <2> QED BY <2>1, <2>2, SessionFrame
  <1>2. ASSUME NEW t \in Turn, Begin(t) \/ TurnStep(t) \/ TurnStart(t)
        PROVE  RecallInv'
    BY <1>2, StageSteps, PermitSteps, RoundStep, BillSteps, TurnStartStep DEF TurnStep, OwnStep, Drive
  <1>3. CASE Connect \/ Initialize \/ Interrupt \/ Done \/ Disconnect \/ Stall
    BY <1>3, QuietSteps, InterruptStep, DisconnectStep
  <1>4. CASE Midnight \/ Restart
    BY <1>4, MidnightStep, RestartStep
  <1> QED BY <1>1, <1>2, <1>3, <1>4 DEF Next

----------------------------------------------------------------------------

\* The inductive invariant holds in every reachable state.
THEOREM RecallInvariant == Spec => []RecallInv
  BY InitRecallInv, NextRecallInv, PTL DEF Spec

\* However turns interleave with checks, bills, cancellations, midnights and
\* restarts, a day's bill exceeds the cap by at most one whole turn per slot.
THEOREM SpendIsBounded == Spec => []SpendBounded
  <1>1. RecallInv => SpendBounded
    <2> SUFFICES ASSUME RecallInv PROVE SpendBounded
      OBVIOUS
    <2>1. Cardinality(Committed) \in Nat /\ Cardinality(Turn) \in Nat
      BY TurnsAssumption, FS_Subset, FS_CardinalityType DEF Committed
    <2>2. \A k, m \in Nat : k * m \in Nat
      OBVIOUS
    <2>3. /\ Cardinality(Committed) * MaxTurnMicros \in Nat
          /\ Cardinality(Turn) * MaxTurnMicros \in Nat
      BY <2>1, <2>2, MaxTurnNat
    <2>4. billed \in Nat /\ Cap \in Nat
      BY TurnsAssumption DEF RecallInv
    <2> QED BY <2>3, <2>4 DEF RecallInv, Reserved, SpendBounded
  <1> QED BY <1>1, RecallInvariant, PTL

\* The sum of the day's rows covers what was billed, and is exactly that
\* unless two first accruals of the day both inserted a row.
THEOREM LedgerIsExact == Spec => []LedgerExact
  <1>1. RecallInv => LedgerExact
    BY DEF RecallInv
  <1> QED BY <1>1, RecallInvariant, PTL

\* The session's inflight count is its running turns and its unread ends.
THEOREM SlotsAlwaysMatch == Spec => []SlotsMatchTurns
  <1>1. RecallInv => SlotsMatchTurns
    BY DEF RecallInv, SlotsCounted, SlotsMatchTurns
  <1> QED BY <1>1, RecallInvariant, PTL

\* Only a cancelled or superseded turn outlives its session.
THEOREM OutlivingTurns == Spec => []OnlySupersededOutlive
  <1>1. RecallInv => OnlySupersededOutlive
    BY DEF RecallInv, TokensKept, OnlySupersededOutlive
  <1> QED BY <1>1, RecallInvariant, PTL
================================================================================
