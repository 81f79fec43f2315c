-------------------------- MODULE RiskRules_proofs --------------------------
(***************************************************************************)
(* Proofs about RiskRules, for any limits, signals and outcomes: type      *)
(* correctness, that a pair's cooldown is kept however late its close was  *)
(* booked, that what is staked fits the account, and of the two circuit    *)
(* breakers, that the loss streak is counted as documented and halts the   *)
(* entries, and that a day's loss is bounded.                              *)
(***************************************************************************)
EXTENDS RiskRules, IntegerLemmas

\* What the assumption says of each constant.
LEMMA ConstantTypes ==
    /\ MaxOpenPositions \in Nat /\ MaxTotalExposure \in Nat /\ MaxDailyLoss \in Nat
    /\ ConsecutiveLossLimit \in Nat /\ ClusterWindow \in Nat /\ Cooldown \in Nat
    /\ MinConfidence \in Nat /\ MinConfidenceScale \in Nat /\ RiskPerTrade \in Nat
    /\ MaxPosition \in Nat /\ MaxStopLoss \in Nat /\ Capital \in Nat /\ MaxPositions \in Nat
    /\ MinStopLoss \in 1 .. MaxStopLoss /\ MaxTime \in Nat \ {0} /\ DayLength \in Nat \ {0}
    /\ Drifts \subseteq Int
  BY ConstantsAssumption

LEMMA SignalTypes ==
  ASSUME NEW sig \in Signals
  PROVE  /\ sig.pair \in Pairs /\ sig.confidence \in 0 .. 1000 /\ sig.stop \in Nat
  BY ConstantsAssumption

LEMMA OutcomeTypes ==
  ASSUME NEW outcome \in Outcomes
  PROVE  outcome.result \in Int /\ outcome.known \in BOOLEAN
  BY ConstantsAssumption

USE ConstantTypes

-----------------------------------------------------------------------------
(* Money.                                                                  *)

LEMMA RowsFinite ==
  ASSUME positions \in Seq(Position), NEW S \in SUBSET Rows
  PROVE  IsFiniteSet(S) /\ \A p \in S : positions[p] \in Position
<1>1. Len(positions) \in Nat /\ Rows = 1..Len(positions)
  BY DEF Rows
<1>2. IsFiniteSet(Rows)
  <2>1. IsFiniteSet(1..Len(positions))
    BY <1>1, FS_Interval
  <2> QED
    BY <1>1, <2>1
<1>3. \A p \in Rows : positions[p] \in Position
  BY <1>1
<1> QED
  BY <1>2, <1>3, FS_Subset

\* The columns of a table that are added up.
Results(tab) == [p \in DOMAIN tab |-> tab[p].result]
Staked(tab) == [p \in DOMAIN tab |-> tab[p].stake]

LEMMA ResultsAreSum ==
  ASSUME positions \in Seq(Position), NEW S \in SUBSET Rows
  PROVE  ResultsOf(S) = Sum(Results(positions), S)
<1> DEFINE pick(s) == CHOOSE x \in s : TRUE
           F == Results(positions)
           Is(g) == g = [s \in SUBSET S |-> IF s = {} THEN 0
                                            ELSE positions[pick(s)].result + g[s \ {pick(s)}]]
<1>1. ResultsOf(S) = (CHOOSE g : Is(g))[S]
  BY DEF ResultsOf, MapThenSumSet, MapThenFoldSet
<1>2. \A s \in SUBSET S : s # {} => pick(s) \in S
  OBVIOUS
<1>3. \A g : Adds(F, S, g) <=> g = [s \in SUBSET S |-> IF s = {} THEN 0 ELSE F[pick(s)] + g[s \ {pick(s)}]]
  BY DEF Adds
<1> HIDE DEF pick
<1>4. \A s \in SUBSET S : s # {} => F[pick(s)] = positions[pick(s)].result
  BY <1>2 DEF Results, Rows
<1> HIDE DEF F
<1>5. \A g : [s \in SUBSET S |-> IF s = {} THEN 0 ELSE F[pick(s)] + g[s \ {pick(s)}]]
             = [s \in SUBSET S |-> IF s = {} THEN 0 ELSE positions[pick(s)].result + g[s \ {pick(s)}]]
  BY <1>4
<1>6. \A g : Adds(F, S, g) <=> Is(g)
  BY <1>3, <1>5
<1> HIDE DEF Is
<1>7. (CHOOSE g : Adds(F, S, g)) = (CHOOSE g : Is(g))
  BY <1>6
<1> QED
  BY <1>1, <1>7 DEF Sum, F

LEMMA StakesAreSum ==
  ASSUME positions \in Seq(Position), NEW S \in SUBSET Rows
  PROVE  Stakes(S) = Sum(Staked(positions), S)
<1> DEFINE pick(s) == CHOOSE x \in s : TRUE
           F == Staked(positions)
           Is(g) == g = [s \in SUBSET S |-> IF s = {} THEN 0
                                            ELSE positions[pick(s)].stake + g[s \ {pick(s)}]]
<1>1. Stakes(S) = (CHOOSE g : Is(g))[S]
  BY DEF Stakes, MapThenSumSet, MapThenFoldSet
<1>2. \A s \in SUBSET S : s # {} => pick(s) \in S
  OBVIOUS
<1>3. \A g : Adds(F, S, g) <=> g = [s \in SUBSET S |-> IF s = {} THEN 0 ELSE F[pick(s)] + g[s \ {pick(s)}]]
  BY DEF Adds
<1> HIDE DEF pick
<1>4. \A s \in SUBSET S : s # {} => F[pick(s)] = positions[pick(s)].stake
  BY <1>2 DEF Staked, Rows
<1> HIDE DEF F
<1>5. \A g : [s \in SUBSET S |-> IF s = {} THEN 0 ELSE F[pick(s)] + g[s \ {pick(s)}]]
             = [s \in SUBSET S |-> IF s = {} THEN 0 ELSE positions[pick(s)].stake + g[s \ {pick(s)}]]
  BY <1>4
<1>6. \A g : Adds(F, S, g) <=> Is(g)
  BY <1>3, <1>5
<1> HIDE DEF Is
<1>7. (CHOOSE g : Adds(F, S, g)) = (CHOOSE g : Is(g))
  BY <1>6
<1> QED
  BY <1>1, <1>7 DEF Sum, F

LEMMA StakesInteger ==
  ASSUME positions \in Seq(Position), NEW S \in SUBSET Rows
  PROVE  Stakes(S) \in Int
<1>1. IsFiniteSet(S) /\ \A p \in S : positions[p] \in Position /\ p \in DOMAIN positions
  BY RowsFinite DEF Rows
<1>2. \A p \in S : Staked(positions)[p] \in Int
  BY <1>1 DEF Staked, Position
<1> QED
  BY <1>1, <1>2, StakesAreSum, SumInteger

LEMMA ResultsInteger ==
  ASSUME positions \in Seq(Position), NEW S \in SUBSET Rows
  PROVE  ResultsOf(S) \in Int
<1>1. IsFiniteSet(S) /\ \A p \in S : positions[p] \in Position /\ p \in DOMAIN positions
  BY RowsFinite DEF Rows
<1>2. \A p \in S : Results(positions)[p] \in Int
  BY <1>1 DEF Results, Position
<1> QED
  BY <1>1, <1>2, ResultsAreSum, SumInteger

\* The account is a pair of integers whatever the table holds.
LEMMA AccountInteger ==
  ASSUME positions \in Seq(Position), NEW drift \in Drifts
  PROVE  /\ FreeBalance \in Int /\ Equity(drift) \in Int /\ TotalExposure \in Int
<1>1. /\ Live \in SUBSET Rows /\ OpenRows \in SUBSET Rows /\ Rows \ Live \in SUBSET Rows
  BY DEF Live, OpenRows
<1>2. ResultsOf(Rows \ Live) \in Int /\ Stakes(Live) \in Int /\ Stakes(OpenRows) \in Int
  BY <1>1, StakesInteger, ResultsInteger
<1>3. Capital \in Int /\ drift \in Int
  OBVIOUS
<1>4. FreeBalance \in Int /\ TotalExposure \in Int
  BY <1>2, <1>3 DEF FreeBalance, TotalExposure
<1>5. Equity(drift) \in Int
  BY <1>2, <1>3, <1>4 DEF Equity
<1> QED
  BY <1>4, <1>5

LEMMA StopBounds ==
  ASSUME NEW sig \in Signals
  PROVE  StopDistance(sig) \in MinStopLoss .. MaxStopLoss /\ StopDistance(sig) \in Nat \ {0}
<1>1. sig.stop \in Int /\ MaxStopLoss \in Int /\ MinStopLoss \in Int /\ MinStopLoss <= MaxStopLoss
  BY SignalTypes
<1>2. Min({sig.stop, MaxStopLoss}) = IF sig.stop <= MaxStopLoss THEN sig.stop ELSE MaxStopLoss
  BY <1>1, PairClamps
<1> DEFINE m == Min({sig.stop, MaxStopLoss})
<1>a. m \in Int /\ m <= MaxStopLoss
  BY <1>1, <1>2
<1> HIDE DEF m
<1>3. Max({MinStopLoss, m}) = IF MinStopLoss >= m THEN MinStopLoss ELSE m
  BY <1>1, <1>a, PairClamps
<1>4. StopDistance(sig) = Max({MinStopLoss, m})
  BY DEF StopDistance, m
<1> QED
  BY <1>1, <1>a, <1>3, <1>4

\* A confidence never scales a position up, unless the scale at the lowest
\* confidence is itself above one.
LEMMA ScaleBounds ==
  ASSUME NEW c \in 0 .. 1000
  PROVE  /\ ConfidenceScale(c) \in Nat
         /\ MinConfidenceScale <= 1000 => ConfidenceScale(c) <= 1000
<1>1. CASE MinConfidence >= 1000
  BY <1>1 DEF ConfidenceScale
<1>2. CASE ~(MinConfidence >= 1000)
  <2> DEFINE n == 1000 - MinConfidence
             a == 1000 - MinConfidenceScale
             above == Max({0, Min({c - MinConfidence, 1000 - MinConfidence})})
  <2>1. n \in Nat \ {0} /\ a \in Int /\ c - MinConfidence \in Int /\ 0 \in Int
    BY <1>2
  <2>a. PICK x \in Int, y \in Int : x = c - MinConfidence /\ y = n
    BY <2>1
  <2>2. PICK m \in Int : m = Min({x, y}) /\ m <= y
    BY PairClamps
  <2>b. \A z \in Int : Max({z, m}) = IF z >= m THEN z ELSE m
    BY PairClamps
  <2>3. Max({0, m}) = IF 0 >= m THEN 0 ELSE m
    BY <2>1, <2>b
  <2>4. above \in 0 .. n
    <3>1. above = Max({0, m})
      BY <2>a, <2>2
    <3> QED
      BY <3>1, <2>a, <2>1, <2>2, <2>3
  <2>5. ConfidenceScale(c) = MinConfidenceScale + (a * above) \div n
    BY <1>2 DEF ConfidenceScale
  <2> HIDE DEF n, above, a
  <2>6. PICK k \in Nat : k = above /\ k <= n
    BY <2>1, <2>4
  <2>7. a * k \in Int /\ n - k \in Nat
    BY <2>1, <2>6
  <2>8. CASE a >= 0
    <3>1. 0 * n <= a * k /\ a * k <= a * n
      <4>1. a * k >= 0 /\ a * (n - k) >= 0
        BY <2>1, <2>6, <2>7, <2>8
      <4>2. a * (n - k) = a * n - a * k
        BY <2>1, <2>6
      <4> QED
        BY <4>1, <4>2, <2>1, <2>6
    <3>2. (a * k) \div n \in Int /\ 0 <= (a * k) \div n /\ (a * k) \div n <= a
      BY <2>1, <2>7, <3>1, DivisionBetween
    <3> QED
      BY <2>5, <2>6, <2>8, <3>2 DEF a
  <2>9. CASE a < 0
    <3>1. a * n <= a * k /\ a * k <= 0 * n
      <4>1. a * k <= 0 /\ a * (n - k) <= 0
        BY <2>1, <2>6, <2>7, <2>9
      <4>2. a * (n - k) = a * n - a * k
        BY <2>1, <2>6
      <4> QED
        BY <4>1, <4>2, <2>1, <2>6
    <3>2. (a * k) \div n \in Int /\ a <= (a * k) \div n
      BY <2>1, <2>7, <3>1, DivisionBetween
    <3> QED
      BY <2>5, <2>6, <2>9, <3>2 DEF a
  <2> QED
    BY <2>1, <2>8, <2>9
<1> QED
  BY <1>1, <1>2

\* What a position may be is bounded three times: by the risk budget over the
\* stop distance, by the cap per position, by the money; the confidence scales
\* the least of them.
LEMMA SizeBounds ==
  ASSUME NEW sig \in Signals, NEW acct, acct.equity \in Int, acct.free \in Int
  PROVE  /\ Size(sig, acct) \in Nat
         /\ MinConfidenceScale <= 1000 /\ acct.equity >= 0 =>
              /\ Size(sig, acct) * 1000 <= MaxPosition * acct.equity
              /\ Size(sig, acct) * StopDistance(sig) <= RiskPerTrade * acct.equity
<1> DEFINE d == StopDistance(sig)
           byRisk == (acct.equity * RiskPerTrade) \div d
           byCap == (acct.equity * MaxPosition) \div 1000
           scale == ConfidenceScale(sig.confidence)
<1>1. PICK stop \in Nat \ {0} : stop = d
  BY StopBounds
<1>2. PICK x \in Int, y \in Int : x = acct.equity * RiskPerTrade /\ y = acct.equity * MaxPosition
  OBVIOUS
<1>3. /\ byRisk \in Int /\ stop * byRisk <= x
      /\ byCap \in Int /\ 1000 * byCap <= y
  <2>1. x \div stop \in Int /\ stop * (x \div stop) <= x
    BY <1>1, <1>2, Division
  <2>2. 1000 \in Nat \ {0}
    OBVIOUS
  <2>3. y \div 1000 \in Int /\ 1000 * (y \div 1000) <= y
    BY <1>2, <2>2, Division
  <2> QED
    BY <1>1, <1>2, <2>1, <2>3
<1>4. PICK risk \in Int, cap \in Int : risk = byRisk /\ cap = byCap
  BY <1>3
<1>a. PICK free \in Int : free = acct.free
  OBVIOUS
<1>5. PICK whole \in Int : /\ whole = Min({risk, cap, free})
                           /\ whole <= risk /\ whole <= cap
  BY LeastOfThree
<1>6. PICK m \in Nat : /\ m = Max({whole, 0})
                       /\ m = IF whole >= 0 THEN whole ELSE 0
  <2>1. 0 \in Int
    OBVIOUS
  <2>a. \A z \in Int : Max({whole, z}) = IF whole >= z THEN whole ELSE z
    BY PairClamps
  <2>2. Max({whole, 0}) = IF whole >= 0 THEN whole ELSE 0
    BY <2>1, <2>a
  <2> QED
    BY <2>2
<1>7. PICK k \in Nat : /\ k = scale
                       /\ MinConfidenceScale <= 1000 => k <= 1000
  <2>1. sig.confidence \in 0 .. 1000
    BY SignalTypes
  <2> QED
    BY <2>1, ScaleBounds, SMTT(30)
<1>8. Size(sig, acct) = (m * k) \div 1000
  <2>1. Size(sig, acct) = (Max({Min({byRisk, byCap, acct.free}), 0}) * scale) \div 1000
    BY DEF Size
  <2> HIDE DEF byRisk, byCap, scale
  <2> QED
    BY <2>1, <1>4, <1>a, <1>5, <1>6, <1>7
<1>9. 1000 \in Nat \ {0} /\ m * k \in Nat
  BY <1>6, <1>7
<1>10. (m * k) \div 1000 \in Nat
  <2>1. PICK p \in Nat : p = m * k
    BY <1>9
  <2>2. p \div 1000 \in Int /\ p < 1000 * (p \div 1000) + 1000
    BY <1>9, <2>1, Division
  <2>3. PICK q \in Int : q = p \div 1000
    BY <2>2
  <2> QED
    BY <2>1, <2>2, <2>3
<1>11. ASSUME MinConfidenceScale <= 1000, acct.equity >= 0
       PROVE  /\ Size(sig, acct) * 1000 <= MaxPosition * acct.equity
              /\ Size(sig, acct) * StopDistance(sig) <= RiskPerTrade * acct.equity
  <2>1. k <= 1000
    BY <1>7, <1>11
  <2>2. (m * k) \div 1000 <= m
    <3>1. 0 * 1000 <= m * k /\ m * k <= m * 1000
      <4>1. m * (1000 - k) >= 0
        BY <2>1
      <4>2. m * (1000 - k) = m * 1000 - m * k
        OBVIOUS
      <4> QED
        BY <4>1, <4>2, <1>9
    <3>2. PICK p \in Int, zero \in Int, n \in Nat \ {0} : p = m * k /\ zero = 0 /\ n = 1000
      BY <1>9
    <3>3. zero * n <= p /\ p <= m * n
      BY <3>1, <3>2
    <3>4. p \div n <= m
      <4>1. PICK hi \in Int : hi = m
        OBVIOUS
      <4>2. zero * n <= p /\ p <= hi * n
        BY <3>3, <4>1
      <4>3. p \div n <= hi
        BY <4>2, DivisionBetween
      <4> QED
        BY <4>1, <4>3
    <3> QED
      BY <3>2, <3>4
  <2>3. PICK size \in Nat : size = (m * k) \div 1000 /\ size <= m
    BY <1>10, <2>2
  <2>4. x >= 0 /\ y >= 0
    BY <1>2, <1>11
  <2>5. CASE whole >= 0
    <3>1. size <= risk /\ size <= cap
      BY <1>5, <1>6, <2>3, <2>5
    <3>2. size * 1000 <= y
      BY <1>3, <1>4, <3>1
    <3>3. stop * size <= stop * risk
      <4>1. stop * (risk - size) >= 0
        BY <3>1
      <4>2. stop * (risk - size) = stop * risk - stop * size
        OBVIOUS
      <4> QED
        BY <4>1, <4>2
    <3>4. stop * size <= x
      BY <1>3, <1>4, <3>3
    <3> QED
      BY <1>1, <1>2, <1>8, <2>3, <3>2, <3>4
  <2>6. CASE ~(whole >= 0)
    <3>1. size = 0
      BY <1>6, <2>3, <2>6
    <3> QED
      BY <1>1, <1>2, <1>8, <2>3, <2>4, <3>1
  <2> QED
    BY <2>5, <2>6
<1> QED
  BY <1>8, <1>10, <1>11

\* An approved signal violates no rule.
LEMMA ApprovedViolatesNone ==
  ASSUME NEW sig, NEW acct, Verdict(sig, acct) = "APPROVED", NEW i \in DOMAIN RulesInOrder
  PROVE  ~Violated(RulesInOrder[i], sig, acct)
<1> DEFINE bad(n) == Violated(RulesInOrder[n], sig, acct)
           Bad == {n \in DOMAIN RulesInOrder : bad(n)}
<1>1. DOMAIN RulesInOrder = 1..11 /\ \A n \in 1..11 : RulesInOrder[n] # "APPROVED"
  BY DEF RulesInOrder
<1>2. ASSUME bad(i) PROVE FALSE
  <2>1. Bad \in SUBSET Nat /\ Bad # {}
    BY <1>1, <1>2
  <2> HIDE DEF Bad
  <2>2. PICK n \in Bad : \A m \in Bad : n <= m
    BY <2>1, LeastNatural
  <2> USE DEF Bad
  <2>3. n \in DOMAIN RulesInOrder /\ bad(n) /\ \A m \in 1 .. n - 1 : ~bad(m)
    BY <1>1, <2>2
  <2> DEFINE first == CHOOSE k \in DOMAIN RulesInOrder : bad(k) /\ \A m \in 1 .. k - 1 : ~bad(m)
  <2>4. first \in DOMAIN RulesInOrder
    BY <2>3
  <2>5. Verdict(sig, acct) = RulesInOrder[first]
    BY <1>2 DEF Verdict
  <2> QED
    BY <1>1, <2>4, <2>5
<1> QED
  BY <1>2

-----------------------------------------------------------------------------
(* The invariant.  That a pair is not entered too early is not inductive   *)
(* by itself: a close may be booked after the pair was entered again,      *)
(* unless an entry waits for every earlier row of its pair to be booked.   *)

\* What a row says at time t.
RowOK(r, t) ==
    /\ r.opened <= t
    /\ IF r.status = "open" THEN r.closed = 0 ELSE r.closed \in r.opened .. t

\* What two rows say of each other.
InTurn(r, s) ==
    r.pair = s.pair => r.status = "booked" /\ s.opened - r.closed >= Cooldown

RiskInv ==
    /\ now \in 1 .. MaxTime
    /\ positions \in Seq(Position)
    /\ switch \in {"off", "operator"} \cup Trips
    /\ resetAt \in 0 .. now
    /\ \A p \in Rows : RowOK(positions[p], now)
    /\ \A p, q \in Rows : p < q => InTurn(positions[p], positions[q])

THEOREM RiskInit == Init => RiskInv
  BY DEF Init, RiskInv, Rows

\* An open or closed row changes; the later rows of its pair do not exist.
LEMMA RowKeeps ==
  ASSUME RiskInv, NEW p \in Rows, NEW r \in Position,
         positions[p].status # "booked", RowOK(r, now),
         r.pair = positions[p].pair, r.opened = positions[p].opened,
         positions' = [positions EXCEPT ![p] = r],
         UNCHANGED <<now, switch, resetAt>>
  PROVE  RiskInv'
<1> USE DEF RiskInv, Rows
<1>1. /\ Rows' = Rows /\ positions' \in Seq(Position) /\ positions'[p] = r
      /\ \A q \in Rows : q # p => positions'[q] = positions[q]
  BY SMTT(30)
<1>2. \A q \in Rows : RowOK(positions'[q], now)
  BY <1>1
<1>3. ASSUME NEW a \in Rows, NEW b \in Rows, a < b
      PROVE  InTurn(positions'[a], positions'[b])
  <2>1. InTurn(positions[a], positions[b])
    BY <1>3
  <2>2. a # b
    BY <1>3, SMTT(30)
  <2>3. CASE a = p
    BY <1>1, <2>1, <2>2, <2>3 DEF InTurn
  <2>4. CASE b = p
    BY <1>1, <2>1, <2>2, <2>4 DEF InTurn
  <2>5. CASE a # p /\ b # p
    BY <1>1, <2>1, <2>5
  <2> QED
    BY <2>3, <2>4, <2>5
<1> QED
  BY <1>1, <1>2, <1>3

\* Rule 7 holds a pair back until its rows are booked, rule 11 until the
\* newest of them is old enough.
LEMMA EntryInTurn ==
  ASSUME RiskInv, NEW sig \in Signals, NEW drift, NEW streak,
         Verdict(sig, Account(drift, streak)) = "APPROVED",
         NEW p \in Rows, positions[p].pair = sig.pair
  PROVE  positions[p].status = "booked" /\ now - positions[p].closed >= Cooldown
<1> DEFINE acct == Account(drift, streak)
<1>1. /\ DOMAIN RulesInOrder = 1..11 /\ RulesInOrder[6] = "MAX_POSITIONS_REACHED"
      /\ RulesInOrder[10] = "COOLDOWN_ACTIVE"
  BY DEF RulesInOrder
<1>2. /\ ~Violated("MAX_POSITIONS_REACHED", sig, acct)
      /\ ~Violated("COOLDOWN_ACTIVE", sig, acct)
  <2>1. 6 \in DOMAIN RulesInOrder /\ 10 \in DOMAIN RulesInOrder
    BY <1>1
  <2>2. ~Violated(RulesInOrder[6], sig, acct) /\ ~Violated(RulesInOrder[10], sig, acct)
    BY <2>1, ApprovedViolatesNone
  <2> QED
    BY <1>1, <2>2
<1>3. sig.pair \notin OpenSymbols
  <2>1. acct.symbols = OpenSymbols
    BY DEF Account
  <2>2. ~max_open_positions(sig, acct)
    BY <1>2 DEF Violated
  <2> QED
    BY <2>1, <2>2 DEF max_open_positions
<1>4. p \in Booked /\ positions[p].status = "booked"
  BY <1>3 DEF OpenSymbols, OpenRows, Booked
<1>5. positions[p].closed <= LastClosed(sig.pair) /\ LastClosed(sig.pair) \in Int
  <2> DEFINE times == {positions[b].closed : b \in {b \in Booked : positions[b].pair = sig.pair}}
  <2>4. \A b \in Rows : positions[b].closed \in 0 .. MaxTime
    <3>1. \A b \in Rows : positions[b] \in Position
      BY DEF RiskInv, Rows
    <3> QED
      BY <3>1 DEF Position
  <2>5. times \subseteq 0 .. MaxTime
    BY <2>4 DEF Booked
  <2>6. IsFiniteSet(0 .. MaxTime)
    <3>1. 0 \in Int /\ MaxTime \in Int
      OBVIOUS
    <3> QED
      BY <3>1, FS_Interval, Zenon
  <2>a. times \in SUBSET Int /\ positions[p].closed \in times
    BY <1>4, <2>5
  <2>7. IsFiniteSet(times) /\ times \in SUBSET Int /\ positions[p].closed \in times
    BY <2>a, <2>5, <2>6, FS_Subset
  <2> HIDE DEF times
  <2>8. Max(times) \in times /\ \A y \in times : y <= Max(times)
    BY <2>7, GreatestInteger
  <2>9. LastClosed(sig.pair) = Max(times)
    BY <2>7 DEF LastClosed, times
  <2> QED
    BY <2>a, <2>7, <2>8, <2>9
<1>6. now - LastClosed(sig.pair) >= Cooldown
  <2>1. acct.lastClosed[sig.pair] = LastClosed(sig.pair)
    BY SignalTypes DEF Account
  <2>2. ~cooldown(sig, acct)
    BY <1>2 DEF Violated
  <2> QED
    BY <1>5, <2>1, <2>2 DEF cooldown, RiskInv
<1>7. positions[p].closed \in Int /\ now \in Int
  <2>1. positions[p] \in Position /\ now \in 1 .. MaxTime
    BY DEF RiskInv, Rows
  <2> QED
    BY <2>1 DEF Position
<1> QED
  BY <1>4, <1>5, <1>6, <1>7

LEMMA EntryKeeps ==
  ASSUME RiskInv, EntrySignal
  PROVE  RiskInv'
<1>1. PICK drift \in Drifts, streak \in {TimesOf(Certain), TimesOf(Possible)} :
        /\ BalanceValid(drift)
        /\ \E sig \in Signals : EvaluateEntry(sig, Account(drift, streak))
  BY DEF EntrySignal
<1> DEFINE acct == Account(drift, streak)
<1>2. PICK sig \in Signals : EvaluateEntry(sig, acct)
  BY <1>1
<1> DEFINE e == Entry(sig, acct)
<1>n. PICK n \in Nat : n = Len(positions)
  BY DEF RiskInv
<1>3. CASE /\ Verdict(sig, acct) = "APPROVED"
           /\ positions' = Append(positions, e)
           /\ UNCHANGED <<now, switch, resetAt>>
  <2>1. acct.equity \in Int /\ acct.free \in Int
    BY AccountInteger DEF RiskInv, Account
  <2>2. Size(sig, acct) \in Nat /\ StopDistance(sig) \in Nat
    BY <2>1, SizeBounds, StopBounds
  <2>3. PICK size \in Nat, risk \in Nat : size = Size(sig, acct) /\ risk = size * StopDistance(sig)
    BY <2>2
  <2>4. e = [pair |-> sig.pair, stake |-> size, risk |-> risk, opened |-> now, closed |-> 0,
             result |-> 0, known |-> FALSE, status |-> "open"]
    BY <2>3 DEF Entry
  <2>5. sig.pair \in Pairs /\ now \in 1 .. MaxTime
    BY SignalTypes DEF RiskInv
  <2>6. e \in Position /\ e.pair = sig.pair /\ e.opened = now /\ e.status = "open" /\ RowOK(e, now)
    BY <2>4, <2>5 DEF Position, Statuses, RowOK
  <2> HIDE DEF e
  <2>7. /\ Rows = 1..n /\ Rows' = 1..(n + 1) /\ positions' \in Seq(Position)
        /\ positions'[n + 1] = e /\ \A q \in 1..n : positions'[q] = positions[q]
    BY <1>n, <1>3, <2>6 DEF RiskInv, Rows
  <2>a. \A q \in 1..(n + 1) : q \in 1..n \/ q = n + 1
    OBVIOUS
  <2>8. \A q \in Rows' : RowOK(positions'[q], now)
    BY <2>6, <2>7, <2>a DEF RiskInv
  <2>9. ASSUME NEW a \in Rows', NEW b \in Rows', a < b
        PROVE  InTurn(positions'[a], positions'[b])
    <3>1. a \in Rows /\ (b \in Rows \/ b = n + 1)
      <4>1. a \in 1..(n + 1) /\ b \in 1..(n + 1)
        BY <2>7
      <4> QED
        BY <2>7, <2>9, <4>1
    <3>2. CASE b \in Rows
      BY <2>7, <2>9, <3>1, <3>2 DEF RiskInv
    <3>3. CASE b = n + 1
      <4>1. positions[a].pair = sig.pair =>
               positions[a].status = "booked" /\ now - positions[a].closed >= Cooldown
        BY <1>3, <3>1, EntryInTurn
      <4> QED
        BY <2>6, <2>7, <3>1, <3>3, <4>1 DEF InTurn
    <3> QED
      BY <3>1, <3>2, <3>3
  <2> QED
    BY <1>3, <2>7, <2>8, <2>9 DEF RiskInv
<1>4. CASE /\ Verdict(sig, acct) \in Trips
           /\ switch' = Verdict(sig, acct)
           /\ UNCHANGED <<now, positions, resetAt>>
  BY <1>4 DEF RiskInv, Rows
<1> QED
  BY <1>2, <1>3, <1>4 DEF EvaluateEntry

LEMMA EndsKeeps ==
  ASSUME RiskInv, NEW p \in Rows, NEW outcome \in Outcomes, Ends(p, outcome)
  PROVE  RiskInv'
<1> DEFINE r == [positions[p] EXCEPT !.status = "closed", !.closed = now,
                                     !.result = outcome.result, !.known = outcome.known]
<1>1. /\ positions[p] \in Position /\ positions[p].opened <= now /\ now \in 1 .. MaxTime
      /\ outcome.result \in Int /\ outcome.known \in BOOLEAN
  BY OutcomeTypes DEF RiskInv, Rows, RowOK
<1>2. positions' = [positions EXCEPT ![p] = r]
  BY DEF Ends
<1>3. /\ r \in Position /\ r.pair = positions[p].pair /\ r.opened = positions[p].opened
      /\ r.status = "closed" /\ r.closed = now
  <2>1. PICK at \in 0 .. MaxTime : at = now
    BY <1>1
  <2>2. PICK row \in Position : row = positions[p]
    BY <1>1
  <2>3. PICK result \in Int, known \in BOOLEAN : result = outcome.result /\ known = outcome.known
    BY <1>1
  <2>4. r = [row EXCEPT !.status = "closed", !.closed = at, !.result = result, !.known = known]
    BY <2>1, <2>2, <2>3
  <2> HIDE DEF r
  <2>5. /\ r \in Position /\ r.pair = row.pair /\ r.opened = row.opened
        /\ r.status = "closed" /\ r.closed = at
    BY <2>4 DEF Position, Statuses
  <2> QED
    BY <2>1, <2>2, <2>5
<1>4. RowOK(r, now)
  BY <1>1, <1>3 DEF RowOK, Position
<1>5. positions[p].status # "booked" /\ UNCHANGED <<now, switch, resetAt>>
  BY DEF Ends
<1> HIDE DEF r
<1> QED
  BY <1>2, <1>3, <1>4, <1>5, RowKeeps

LEMMA BookKeeps ==
  ASSUME RiskInv, NEW p \in Rows, Book(p)
  PROVE  RiskInv'
<1>1. /\ positions[p] \in Position /\ RowOK(positions[p], now) /\ now \in 1 .. MaxTime
      /\ positions[p].status = "closed"
  BY SMTT(30) DEF RiskInv, Rows, Book
<1>2. PICK at \in {positions[p].closed, now} :
        positions' = [positions EXCEPT ![p].status = "booked", ![p].closed = at,
                                       ![p].stake = 0, ![p].risk = 0]
  BY DEF Book
<1> DEFINE r == [positions[p] EXCEPT !.status = "booked", !.closed = at, !.stake = 0, !.risk = 0]
<1>3. positions' = [positions EXCEPT ![p] = r]
  BY <1>2
<1>4. positions[p].opened \in 1 .. MaxTime /\ at \in positions[p].opened .. now /\ at \in 0 .. MaxTime
  BY <1>1, <1>2 DEF RowOK, Position
<1>5. /\ r \in Position /\ r.pair = positions[p].pair /\ r.opened = positions[p].opened
      /\ r.status = "booked" /\ r.closed = at
  <2>1. PICK row \in Position : row = positions[p]
    BY <1>1
  <2>2. r = [row EXCEPT !.status = "booked", !.closed = at, !.stake = 0, !.risk = 0]
    BY <2>1
  <2> HIDE DEF r
  <2>3. /\ r \in Position /\ r.pair = row.pair /\ r.opened = row.opened
        /\ r.status = "booked" /\ r.closed = at
    BY <1>4, <2>2 DEF Position, Statuses
  <2> QED
    BY <2>1, <2>3
<1>6. RowOK(r, now)
  BY <1>1, <1>4, <1>5 DEF RowOK
<1>7. positions[p].status # "booked" /\ UNCHANGED <<now, switch, resetAt>>
  BY <1>1 DEF Book
<1> HIDE DEF r
<1> QED
  BY <1>3, <1>5, <1>6, <1>7, RowKeeps

LEMMA TickKeeps ==
  ASSUME RiskInv, Tick
  PROVE  RiskInv'
<1>1. now' = now + 1 /\ now' \in 1 .. MaxTime /\ UNCHANGED <<positions, switch, resetAt>>
  BY DEF RiskInv, Tick
<1>2. ASSUME NEW p \in Rows
      PROVE  RowOK(positions[p], now')
  <2>1. positions[p] \in Position /\ RowOK(positions[p], now)
    BY DEF RiskInv, Rows
  <2> QED
    BY <1>1, <2>1 DEF RowOK, Position, RiskInv
<1> QED
  BY <1>1, <1>2 DEF RiskInv, Rows

THEOREM RiskStep == RiskInv /\ [Next]_vars => RiskInv'
<1> SUFFICES ASSUME RiskInv, [Next]_vars
             PROVE  RiskInv'
  OBVIOUS
<1>1. CASE EntrySignal
  BY <1>1, EntryKeeps
<1>2. ASSUME NEW sig \in Signals, NEW outcome \in Outcomes, EvaluateExit(sig, outcome)
      PROVE  RiskInv'
  BY <1>2, EndsKeeps DEF EvaluateExit, Live
<1>3. ASSUME NEW p \in Rows, NEW outcome \in Outcomes, SafetyExit(p, outcome)
      PROVE  RiskInv'
  BY <1>3, EndsKeeps DEF SafetyExit
<1>4. ASSUME NEW p \in Rows, Book(p)
      PROVE  RiskInv'
  BY <1>4, BookKeeps
<1>5. CASE Enable
  BY <1>5 DEF Enable, RiskInv, Rows
<1>6. CASE Disable
  BY <1>6 DEF Disable, RiskInv, Rows
<1>7. CASE Tick
  BY <1>7, TickKeeps
<1>8. CASE UNCHANGED vars
  BY <1>8 DEF vars, RiskInv, Rows
<1> QED
  BY <1>1, <1>2, <1>3, <1>4, <1>5, <1>6, <1>7, <1>8 DEF Next

THEOREM SpecRiskInv == Spec => []RiskInv
<1> QED
  BY RiskInit, RiskStep, PTL DEF Spec

-----------------------------------------------------------------------------
(* The properties.                                                         *)

\* Type correctness, and a row has a close time unless its trade is open.
THEOREM SpecTypeOK == Spec => []TypeOK
<1>1. RiskInv => TypeOK
  BY DEF RiskInv, TypeOK, RowOK, Live
<1> QED
  BY <1>1, SpecRiskInv, PTL

\* No pair is entered before its cooldown has passed, however late its close
\* was booked (rules/max_open_positions.py, rules/cooldown.py).
THEOREM SpecCooldownKept == Spec => []CooldownKept
<1>1. RiskInv => CooldownKept
  BY DEF RiskInv, CooldownKept, InTurn
<1> QED
  BY <1>1, SpecRiskInv, PTL

\* What an entry stakes fits the account, for every scale of the lowest
\* confidence that is no more than one: RiskConfig does not say so, and above
\* one a position may exceed its cap (sizing.py, _confidence_scale).
THEOREM SpecEntryWithinBounds ==
  ASSUME MinConfidenceScale <= 1000
  PROVE  Spec => EntryWithinBounds
<1> DEFINE Within ==
      Entered =>
          LET new == positions'[Len(positions')]
          IN  /\ new.stake <= FreeBalance
              /\ \E drift \in Drifts :
                   /\ new.stake * 1000 <= MaxPosition * Equity(drift)
                   /\ new.risk <= RiskPerTrade * Equity(drift)
                   /\ (TotalExposure + new.stake) * 1000 <= MaxTotalExposure * Equity(drift)
<1>1. RiskInv /\ [Next]_vars => [Within]_vars
  <2> SUFFICES ASSUME RiskInv, Next, Entered
               PROVE  Within
    BY DEF vars
  <2>1. EntrySignal
    <3>1. positions \in Seq(Position) /\ Len(positions) \in Nat /\ Len(positions') # Len(positions)
      BY DEF RiskInv, Entered
    <3>2. \A p \in Rows, outcome \in Outcomes : ~Ends(p, outcome)
      BY <3>1, SMTT(30) DEF Ends, Rows
    <3>3. \A p \in Rows : ~Book(p)
      BY <3>1, SMTT(30) DEF Book, Rows
    <3>4. ~Enable /\ ~Disable /\ ~Tick
      BY <3>1 DEF Enable, Disable, Tick
    <3> QED
      BY <3>2, <3>3, <3>4 DEF Next, EvaluateExit, SafetyExit, Live
  <2>2. PICK drift \in Drifts, streak \in {TimesOf(Certain), TimesOf(Possible)} :
          /\ BalanceValid(drift)
          /\ \E sig \in Signals : EvaluateEntry(sig, Account(drift, streak))
    BY <2>1 DEF EntrySignal
  <2> DEFINE acct == Account(drift, streak)
  <2>3. PICK sig \in Signals : EvaluateEntry(sig, acct)
    BY <2>2
  <2>4. Verdict(sig, acct) = "APPROVED" /\ positions' = Append(positions, Entry(sig, acct))
    BY <2>3 DEF EvaluateEntry, Entered
  <2>5. /\ acct.equity = Equity(drift) /\ acct.free = FreeBalance /\ acct.exposure = TotalExposure
        /\ Equity(drift) \in Int /\ FreeBalance \in Int /\ TotalExposure \in Int
    BY AccountInteger DEF RiskInv, Account
  <2>6. FreeBalance >= 0 /\ Equity(drift) >= FreeBalance
    BY <2>2 DEF BalanceValid
  <2> DEFINE size == Size(sig, acct)
  <2>7. /\ size \in Nat /\ size * 1000 <= MaxPosition * acct.equity
        /\ size * StopDistance(sig) <= RiskPerTrade * acct.equity
    BY <2>5, <2>6, SizeBounds
  <2>8. /\ ~Violated("MAX_EXPOSURE_REACHED", sig, acct)
        /\ ~Violated("INSUFFICIENT_BALANCE", sig, acct)
    <3>1. /\ RulesInOrder[7] = "MAX_EXPOSURE_REACHED" /\ RulesInOrder[11] = "INSUFFICIENT_BALANCE"
          /\ 7 \in DOMAIN RulesInOrder /\ 11 \in DOMAIN RulesInOrder
      BY DEF RulesInOrder
    <3>2. ~Violated(RulesInOrder[7], sig, acct) /\ ~Violated(RulesInOrder[11], sig, acct)
      BY <2>4, <3>1, ApprovedViolatesNone
    <3> QED
      BY <3>1, <3>2
  <2>9. ~max_total_exposure(acct, size) /\ ~insufficient_balance(acct, size)
    BY <2>8 DEF Violated
  <2> HIDE DEF acct, size
  <2>10. /\ size <= FreeBalance
         /\ (TotalExposure + size) * 1000 <= MaxTotalExposure * Equity(drift)
    BY <2>5, <2>7, <2>9 DEF max_total_exposure, insufficient_balance
  <2>11. /\ positions'[Len(positions')].stake = size
         /\ positions'[Len(positions')].risk = size * StopDistance(sig)
    BY <2>4 DEF Entry, size, RiskInv
  <2> QED
    BY <2>5, <2>7, <2>10, <2>11
<1> QED
  BY <1>1, SpecRiskInv, PTL DEF Spec, EntryWithinBounds

-----------------------------------------------------------------------------
(* Loss events.                                                            *)

\* The walk and the definition of "n loss events" agree.
LEMMA EventsAreApart ==
  ASSUME NEW last \in Nat, NEW times \in SUBSET (0 .. last), NEW n \in Nat
  PROVE  LossEvents(times) \in Int /\ (LossEvents(times) >= n <=> Apart(times, n))
<1> DEFINE Is(f) == f = [t \in Nat |-> IF {u \in times : u >= t} = {} THEN 0
                           ELSE 1 + f[Min({u \in times : u >= t}) + ClusterWindow + 1]]
           walk == CHOOSE f : Is(f)
<1>1. LossEvents(times) = walk[0]
  BY DEF LossEvents
<1>2. \A f : Walks(ClusterWindow, times, f) <=> Is(f)
  BY DEF Walks, Counted, From
<1> HIDE DEF Is
<1>3. Is(walk)
  BY <1>2, WalkExists
<1>4. Walks(ClusterWindow, times, walk)
  BY <1>2, <1>3
<1> HIDE DEF walk
<1>5. PICK zero \in Nat : zero = 0
  OBVIOUS
<1>6. Exact(ClusterWindow, times, zero, walk[zero])
  BY <1>4, WalkCounts
<1>7. From(times, zero) = times
  <2>1. times \in SUBSET Nat
    <3>1. 0 .. last \subseteq Nat
      OBVIOUS
    <3> QED
      BY <3>1
  <2> QED
    BY <1>5, <2>1, AllFromZero
<1>8. ASSUME NEW T \in SUBSET times PROVE Spread(ClusterWindow, T) <=> \A t, u \in T : u < t => t - u > ClusterWindow
  BY DEF Spread
<1>9. PICK events \in Nat : events = LossEvents(times) /\ Exact(ClusterWindow, times, zero, events)
  BY <1>1, <1>5, <1>6 DEF Exact
<1>10. ASSUME Apart(times, n) PROVE events >= n
  <2>1. PICK T \in SUBSET times : Cardinality(T) = n /\ Spread(ClusterWindow, T)
    BY <1>10 DEF Apart, Spread
  <2> QED
    BY <2>1, <1>7, <1>9 DEF Exact
<1>11. ASSUME events >= n PROVE Apart(times, n)
  <2>1. PICK T \in SUBSET times : Cardinality(T) = events /\ Spread(ClusterWindow, T)
    BY <1>7, <1>9 DEF Exact
  <2>2. IsFiniteSet(T)
    <3>1. IsFiniteSet(0 .. last)
      BY FS_Interval
    <3> QED
      BY <3>1, FS_Subset
  <2>3. PICK U \in SUBSET T : Cardinality(U) = n
    BY <1>11, <2>1, <2>2, SubsetOfSize
  <2>4. Spread(ClusterWindow, U)
    BY <2>1 DEF Spread
  <2> QED
    BY <2>3, <2>4 DEF Apart, Spread
<1> QED
  BY <1>9, <1>10, <1>11

\* A rejection names a rule that is violated.
LEMMA VerdictViolates ==
  ASSUME NEW sig, NEW acct, Verdict(sig, acct) # "APPROVED"
  PROVE  Violated(Verdict(sig, acct), sig, acct)
<1> DEFINE bad(n) == Violated(RulesInOrder[n], sig, acct)
           Bad == {n \in DOMAIN RulesInOrder : bad(n)}
           first == CHOOSE k \in DOMAIN RulesInOrder : bad(k) /\ \A m \in 1 .. k - 1 : ~bad(m)
<1>1. DOMAIN RulesInOrder = 1..11
  BY DEF RulesInOrder
<1>2. \E k \in DOMAIN RulesInOrder : bad(k)
  BY DEF Verdict
<1>3. Verdict(sig, acct) = RulesInOrder[first]
  BY <1>2 DEF Verdict
<1>4. Bad \in SUBSET Nat /\ Bad # {}
  BY <1>1, <1>2
<1> HIDE DEF Bad
<1>5. PICK n \in Bad : \A m \in Bad : n <= m
  BY <1>4, LeastNatural
<1> USE DEF Bad
<1>6. n \in DOMAIN RulesInOrder /\ bad(n) /\ \A m \in 1 .. n - 1 : ~bad(m)
  BY <1>1, <1>5
<1>7. first \in DOMAIN RulesInOrder /\ bad(first)
  BY <1>6
<1> QED
  BY <1>3, <1>7

\* The times of a streak are instants, and those of the certain losses are
\* among those of the possible ones.
LEMMA StreakTimes ==
  ASSUME RiskInv
  PROVE  /\ TimesOf(Possible) \in SUBSET (0 .. MaxTime)
         /\ TimesOf(Certain) \subseteq TimesOf(Possible)
<1>1. \A p \in Rows : positions[p] \in Position
  BY RowsFinite DEF RiskInv
<1>2. \A p \in Rows : positions[p].closed \in 0 .. MaxTime
  BY <1>1 DEF Position
<1>3. Certain \subseteq Possible
  <2> SUFFICES ASSUME NEW p \in Certain PROVE p \in Possible
    OBVIOUS
  <2>1. p \in AfterReset /\ IsLoss(p) /\ p \in Rows
    BY DEF Certain, AfterReset, Booked
  <2>2. \A q \in AfterReset : q \in Rows /\ (IsLoss(q) \/ positions[q].closed < positions[p].closed)
    BY DEF Certain, AfterReset, Booked
  <2>3. \A q \in AfterReset : IsLoss(q) \/ positions[q].closed <= positions[p].closed
    BY <1>2, <2>1, <2>2
  <2> QED
    BY <2>1, <2>3 DEF Possible
<1>4. Possible \subseteq Rows
  BY DEF Possible, AfterReset, Booked
<1> QED
  BY <1>2, <1>3, <1>4 DEF TimesOf

\* More times hold no fewer events.
LEMMA ApartGrows ==
  ASSUME NEW S, NEW T, S \subseteq T, NEW n, Apart(S, n)
  PROVE  Apart(T, n)
  BY DEF Apart

\* The loss breaker stops entries exactly when it is documented to
\* (_count_consecutive_losses, rules/consecutive_losses.py): the walk over
\* clusters counts the most loss events that no window joins, and no close time
\* shared with a win makes an entry slip through or a trip unfounded.
THEOREM SpecStreakHalts == Spec => StreakHalts
<1> DEFINE Limit == ConsecutiveLossLimit
           Paused == switch' = "CONSECUTIVE_LOSS_PAUSE" /\ switch # switch'
           Halts == /\ Entered => ~Apart(TimesOf(Certain), Limit)
                    /\ Paused => Apart(TimesOf(Possible), Limit)
<1>1. ASSUME RiskInv, [Next]_vars PROVE [Halts]_vars
  <2> SUFFICES ASSUME Next, Entered \/ Paused
               PROVE  Halts
    <3> HIDE DEF Paused
    <3> QED
      BY <1>1
  <2>1. EntrySignal
    <3>1. positions \in Seq(Position) /\ Len(positions) \in Nat
      BY <1>1 DEF RiskInv
    <3>2. \A p \in Rows, outcome \in Outcomes : ~Ends(p, outcome)
      BY <3>1 DEF Ends, Rows, Entered
    <3>3. \A p \in Rows : ~Book(p)
      BY <3>1 DEF Book, Rows, Entered
    <3>4. ~Enable /\ ~Disable /\ ~Tick
      BY <3>1 DEF Enable, Disable, Tick, Entered
    <3> QED
      BY <3>2, <3>3, <3>4 DEF Next, EvaluateExit, SafetyExit, Live
  <2>2. PICK drift \in Drifts, streak \in {TimesOf(Certain), TimesOf(Possible)} :
          \E sig \in Signals : EvaluateEntry(sig, Account(drift, streak))
    BY <2>1 DEF EntrySignal
  <2>3. PICK acct : acct = Account(drift, streak)
    OBVIOUS
  <2>4. PICK sig \in Signals : EvaluateEntry(sig, acct)
    BY <2>2, <2>3
  <2>5. acct.losses = LossEvents(streak)
    BY <2>3 DEF Account
  <2>6. LossEvents(streak) \in Int /\ (LossEvents(streak) >= Limit <=> Apart(streak, Limit))
    <3>1. PICK times \in SUBSET (0 .. MaxTime) : times = streak
      BY <1>1, <2>2, StreakTimes
    <3>2. LossEvents(times) \in Int /\ (LossEvents(times) >= Limit <=> Apart(times, Limit))
      BY EventsAreApart
    <3> QED
      BY <3>1, <3>2
  <2>7. consecutive_losses(acct) <=> Apart(streak, Limit)
    BY <2>5, <2>6 DEF consecutive_losses
  <2>8. Apart(TimesOf(Certain), Limit) => Apart(streak, Limit)
    BY <1>1, <2>2, StreakTimes, ApartGrows
  <2>9. Apart(streak, Limit) => Apart(TimesOf(Possible), Limit)
    BY <1>1, <2>2, StreakTimes, ApartGrows
  <2>10. CASE Entered
    <3>1. Verdict(sig, acct) = "APPROVED" /\ switch' = switch
      BY <2>4, <2>10 DEF EvaluateEntry, Entered
    <3>2. RulesInOrder[9] = "CONSECUTIVE_LOSS_PAUSE" /\ 9 \in DOMAIN RulesInOrder
      BY DEF RulesInOrder
    <3>3. ~Violated(RulesInOrder[9], sig, acct)
      BY <3>1, <3>2, ApprovedViolatesNone
    <3>4. ~consecutive_losses(acct)
      BY <3>2, <3>3 DEF Violated
    <3> QED
      BY <3>1, <3>4, <2>7, <2>8
  <2>11. CASE Paused
    <3>1. Verdict(sig, acct) = "CONSECUTIVE_LOSS_PAUSE" /\ positions' = positions
      BY <2>4, <2>11 DEF EvaluateEntry
    <3>2. Violated("CONSECUTIVE_LOSS_PAUSE", sig, acct)
      BY <3>1, VerdictViolates
    <3>3. consecutive_losses(acct)
      BY <3>2 DEF Violated
    <3>4. ~Entered
      BY <3>1, <1>1 DEF Entered, RiskInv
    <3> QED
      BY <3>3, <3>4, <2>7, <2>9
  <2> QED
    BY <2>10, <2>11
<1> QED
  BY <1>1, SpecRiskInv, PTL DEF Spec, StreakHalts

-----------------------------------------------------------------------------
(* What a day may lose.  The bound is not inductive by itself: it has to   *)
(* foresee what the positions now open may still lose on that day.         *)

BookedOn(tab, d) ==
    {p \in DOMAIN tab : tab[p].status = "booked" /\ tab[p].known /\ Day(tab[p].closed) = d}
Earned(tab, d) == Sum(Results(tab), BookedOn(tab, d))
Unbooked(tab) == {p \in DOMAIN tab : tab[p].status # "booked"}
AtRisk(tab, d) == {p \in Unbooked(tab) : tab[p].stake > 0 /\ Day(tab[p].opened) <= d}

Worst == Min({o.result : o \in Outcomes})
Best == Max({o.result : o \in Outcomes})
Peak(n) == Capital + n * Best + Max(Drifts)

DayOK(tab, d) ==
    (Earned(tab, d) + Cardinality(AtRisk(tab, d)) * Worst) * 1000
      > -(MaxDailyLoss * Peak(Len(tab))) + 1000 * MaxOpenPositions * Worst

\* A trade loses no more than it staked.
ResultOK(r) ==
    /\ r.status # "open" => Worst <= r.result /\ r.result <= Best
    /\ r.status = "closed" => r.result + r.stake >= 0

\* There is money, a limit, an outcome on either side of zero and an end to them.
DayLossScope ==
    /\ Capital > 0 /\ MaxDailyLoss > 0
    /\ IsFiniteSet(Outcomes) /\ IsFiniteSet(Drifts)
    /\ (\E o \in Outcomes : o.result <= 0) /\ (\E o \in Outcomes : o.result >= 0)
    /\ \E drift \in Drifts : drift >= 0

LEMMA ScopeBounds ==
  ASSUME DayLossScope
  PROVE  /\ Worst \in Int /\ Worst <= 0 /\ Best \in Int /\ Best >= 0
         /\ \A o \in Outcomes : Worst <= o.result /\ o.result <= Best
         /\ Max(Drifts) \in Int /\ Max(Drifts) >= 0 /\ \A drift \in Drifts : drift <= Max(Drifts)
<1> DEFINE T == {o.result : o \in Outcomes}
           f == [o \in Outcomes |-> o.result]
<1>1. T \in SUBSET Int /\ \A o \in Outcomes : o.result \in T
  BY OutcomeTypes
<1>2. IsFiniteSet(T)
  <2>1. f \in Surjection(Outcomes, T)
    BY DEF Surjection
  <2> QED
    BY <2>1, FS_Surjection DEF DayLossScope
<1>3. PICK low \in Outcomes, high \in Outcomes : low.result <= 0 /\ high.result >= 0
  BY DEF DayLossScope
<1>4. Worst = Min(T) /\ Best = Max(T) /\ T # {}
  BY <1>3 DEF Worst, Best
<1> HIDE DEF T
<1>5. Worst \in T /\ Best \in T /\ \A y \in T : Worst <= y /\ y <= Best
  BY <1>1, <1>2, <1>4, LeastInteger, GreatestInteger
<1>6. Worst \in Int /\ Best \in Int
  BY <1>1, <1>5
<1>7. \A o \in Outcomes : o.result \in Int /\ Worst <= o.result /\ o.result <= Best
  BY <1>1, <1>5
<1>8. Worst <= 0 /\ Best >= 0
  BY <1>3, <1>6, <1>7
<1>9. PICK drift \in Drifts : drift >= 0
  BY DEF DayLossScope
<1>10. Max(Drifts) \in Drifts /\ \A y \in Drifts : y <= Max(Drifts)
  <2>1. Drifts \in SUBSET Int /\ IsFiniteSet(Drifts) /\ Drifts # {}
    BY <1>9 DEF DayLossScope
  <2> QED
    BY <2>1, GreatestInteger
<1>11. Max(Drifts) \in Int /\ Max(Drifts) >= 0
  <2>1. PICK top \in Int : top = Max(Drifts) /\ \A y \in Drifts : y <= top
    BY <1>10
  <2>2. drift \in Int /\ drift <= top
    BY <2>1
  <2> QED
    BY <1>9, <2>1, <2>2
<1> QED
  BY <1>6, <1>7, <1>8, <1>10, <1>11

LEMMA PeakGrows ==
  ASSUME DayLossScope, NEW m \in Nat, NEW n \in Nat, m <= n
  PROVE  /\ Peak(m) \in Nat /\ Peak(m) > 0 /\ Peak(n) \in Nat
         /\ MaxDailyLoss * Peak(m) \in Nat /\ MaxDailyLoss * Peak(m) > 0
         /\ MaxDailyLoss * Peak(n) \in Nat
         /\ MaxDailyLoss * Peak(m) <= MaxDailyLoss * Peak(n)
<1>1. PICK best \in Nat, top \in Nat : best = Best /\ top = Max(Drifts)
  BY ScopeBounds
<1>2. Capital \in Nat /\ Capital > 0 /\ MaxDailyLoss \in Nat /\ MaxDailyLoss > 0
  BY DEF DayLossScope
<1>3. PICK d \in Nat : n = m + d
  <2>1. n - m \in Nat /\ n = m + (n - m)
    OBVIOUS
  <2> QED
    BY <2>1
<1>4. m * best \in Nat /\ d * best \in Nat /\ n * best = m * best + d * best
  BY <1>3
<1>5. PICK x \in Nat, y \in Nat : x = m * best /\ y = d * best /\ n * best = x + y
  BY <1>4
<1>6. PICK a \in Nat : a = Capital + x + top /\ a > 0
  BY <1>2
<1>7. Peak(m) = a /\ Peak(n) = a + y
  BY <1>1, <1>5, <1>6, <1>2 DEF Peak
<1>8. /\ MaxDailyLoss * a \in Nat /\ MaxDailyLoss * y \in Nat
      /\ MaxDailyLoss * (a + y) = MaxDailyLoss * a + MaxDailyLoss * y
  BY <1>2
<1>9. MaxDailyLoss * a > 0
  BY <1>2, <1>6
<1> QED
  BY <1>6, <1>7, <1>8, <1>9

LEMMA TableFinite ==
  ASSUME NEW tab \in Seq(Position), NEW d
  PROVE  /\ Len(tab) \in Nat /\ DOMAIN tab = 1 .. Len(tab) /\ IsFiniteSet(DOMAIN tab)
         /\ \A p \in DOMAIN tab : tab[p] \in Position /\ Results(tab)[p] \in Int
                                  /\ Results(tab)[p] = tab[p].result
         /\ BookedOn(tab, d) \in SUBSET DOMAIN tab /\ IsFiniteSet(BookedOn(tab, d))
         /\ IsFiniteSet(Unbooked(tab)) /\ Cardinality(Unbooked(tab)) \in Nat
         /\ IsFiniteSet(AtRisk(tab, d)) /\ Cardinality(AtRisk(tab, d)) \in Nat
         /\ Cardinality(AtRisk(tab, d)) <= Cardinality(Unbooked(tab))
         /\ Earned(tab, d) \in Int
<1>1. Len(tab) \in Nat /\ DOMAIN tab = 1 .. Len(tab)
  OBVIOUS
<1>2. IsFiniteSet(DOMAIN tab)
  <2>1. IsFiniteSet(1 .. Len(tab))
    BY <1>1, FS_Interval
  <2> QED
    BY <1>1, <2>1
<1>3. \A p \in DOMAIN tab : tab[p] \in Position
  BY <1>1
<1>4. \A p \in DOMAIN tab : Results(tab)[p] \in Int /\ Results(tab)[p] = tab[p].result
  BY <1>3 DEF Results, Position
<1>5. BookedOn(tab, d) \in SUBSET DOMAIN tab /\ Unbooked(tab) \in SUBSET DOMAIN tab
      /\ AtRisk(tab, d) \in SUBSET Unbooked(tab)
  BY DEF BookedOn, Unbooked, AtRisk
<1>6. IsFiniteSet(BookedOn(tab, d)) /\ IsFiniteSet(Unbooked(tab))
  BY <1>2, <1>5, FS_Subset
<1>7. IsFiniteSet(AtRisk(tab, d)) /\ Cardinality(AtRisk(tab, d)) <= Cardinality(Unbooked(tab))
  BY <1>5, <1>6, FS_Subset
<1>8. Cardinality(AtRisk(tab, d)) \in Nat /\ Cardinality(Unbooked(tab)) \in Nat
  BY <1>6, <1>7, FS_CardinalityType
<1>9. Earned(tab, d) \in Int
  BY <1>4, <1>5, <1>6, SumInteger DEF Earned
<1> QED
  BY <1>1, <1>2, <1>3, <1>4, <1>5, <1>6, <1>7, <1>8, <1>9

\* As long as the limit is not reached, what is open may lose.
LEMMA UnderLimit ==
  ASSUME DayLossScope, NEW tab \in Seq(Position), NEW d,
         Cardinality(Unbooked(tab)) <= MaxOpenPositions,
         Earned(tab, d) * 1000 > -(MaxDailyLoss * Peak(Len(tab)))
  PROVE  DayOK(tab, d)
<1>1. PICK worst \in Int : worst = Worst /\ worst <= 0
  BY ScopeBounds
<1>2. PICK k \in Nat : k = Cardinality(AtRisk(tab, d)) /\ k <= MaxOpenPositions
  BY TableFinite
<1>3. PICK e \in Int : e = Earned(tab, d)
  BY TableFinite
<1>4. PICK l \in Nat : l = MaxDailyLoss * Peak(Len(tab))
  <2>1. Len(tab) \in Nat /\ Len(tab) <= Len(tab)
    BY TableFinite
  <2> QED
    BY <2>1, PeakGrows
<1>5. k * worst \in Int /\ MaxOpenPositions * worst \in Int /\ k * worst >= MaxOpenPositions * worst
  <2>1. (MaxOpenPositions - k) * worst <= 0
    BY <1>1, <1>2
  <2>2. (MaxOpenPositions - k) * worst = MaxOpenPositions * worst - k * worst
    BY <1>1, <1>2
  <2>3. k * worst \in Int /\ MaxOpenPositions * worst \in Int
    BY <1>1, <1>2
  <2> QED
    BY <2>1, <2>2, <2>3
<1>6. PICK x \in Int, y \in Int : x = k * worst /\ y = MaxOpenPositions * worst /\ x >= y
  BY <1>5
<1>7. 1000 * MaxOpenPositions * worst = 1000 * y
  BY <1>6
<1>8. e * 1000 > -l
  BY <1>3, <1>4
<1>9. (e + x) * 1000 > -l + 1000 * y
  BY <1>6, <1>8
<1> QED
  BY <1>1, <1>2, <1>3, <1>4, <1>6, <1>7, <1>9 DEF DayOK

\* What a day earned and what it may lose has not fallen: the bound still holds.
LEMMA NoWorse ==
  ASSUME DayLossScope, NEW tab \in Seq(Position), NEW new \in Seq(Position), NEW d,
         DayOK(tab, d), Len(tab) <= Len(new),
         Earned(tab, d) + Cardinality(AtRisk(tab, d)) * Worst
           <= Earned(new, d) + Cardinality(AtRisk(new, d)) * Worst
  PROVE  DayOK(new, d)
<1>1. PICK worst \in Int : worst = Worst
  BY ScopeBounds
<1>2. PICK k \in Nat, j \in Nat : k = Cardinality(AtRisk(tab, d)) /\ j = Cardinality(AtRisk(new, d))
  BY TableFinite
<1>3. PICK e \in Int, f \in Int : e = Earned(tab, d) /\ f = Earned(new, d)
  BY TableFinite
<1>4. PICK l \in Nat, m \in Nat : /\ l = MaxDailyLoss * Peak(Len(tab)) /\ l <= m
                                  /\ m = MaxDailyLoss * Peak(Len(new))
  <2>1. Len(tab) \in Nat /\ Len(new) \in Nat
    BY TableFinite
  <2> QED
    BY <2>1, PeakGrows
<1>5. PICK x \in Int, y \in Int, w \in Int :
        x = e + k * worst /\ y = f + j * worst /\ w = 1000 * MaxOpenPositions * worst
  BY <1>1, <1>2, <1>3
<1>6. x <= y
  BY <1>1, <1>2, <1>3, <1>5
<1>7. x * 1000 > -l + w
  BY <1>1, <1>2, <1>3, <1>4, <1>5 DEF DayOK
<1>8. y * 1000 > -m + w
  BY <1>4, <1>6, <1>7
<1> QED
  BY <1>1, <1>2, <1>3, <1>4, <1>5, <1>8 DEF DayOK

LEMMA PositionTypes ==
  ASSUME NEW r \in Position
  PROVE  /\ r.stake \in Nat /\ r.risk \in Nat /\ r.opened \in Nat /\ r.closed \in Nat
         /\ r.result \in Int /\ r.known \in BOOLEAN /\ r.pair \in Pairs
  BY DEF Position

LEMMA TableChanges ==
  ASSUME NEW S, NEW tab \in Seq(S), NEW r \in S
  PROVE  /\ Append(tab, r) \in Seq(S)
         /\ \A p \in DOMAIN tab : [tab EXCEPT ![p] = r] \in Seq(S)
  BY SMTT(30)

LEMMA DaysPass ==
  ASSUME NEW t \in Nat, NEW u \in Nat, t <= u
  PROVE  Day(t) \in Nat /\ Day(u) \in Nat /\ Day(t) <= Day(u)
<1>1. PICK n \in Nat \ {0} : n = DayLength
  OBVIOUS
<1>2. /\ t \div n \in Int /\ n * (t \div n) <= t /\ t < n * (t \div n) + n
      /\ u \div n \in Int /\ n * (u \div n) <= u /\ u < n * (u \div n) + n
  BY Division
<1>3. PICK a \in Int, b \in Int : a = t \div n /\ b = u \div n
  BY <1>2
<1>4. n * a <= t /\ t < n * a + n /\ n * b <= u /\ u < n * b + n
  BY <1>2, <1>3
<1>5. ASSUME a > b PROVE FALSE
  <2>1. n * (a - b - 1) >= 0
    BY <1>5
  <2>2. n * (a - b - 1) = n * a - n * b - n
    OBVIOUS
  <2>3. n * a \in Int /\ n * b \in Int
    OBVIOUS
  <2> QED
    BY <1>4, <2>1, <2>2, <2>3
<1>6. \A z \in Int : n * z + n > 0 => z >= 0
  <2> TAKE z \in Int
  <2> HAVE n * z + n > 0
  <2>1. CASE z >= 0
    BY <2>1
  <2>2. CASE z < 0
    <3>1. n * (z + 1) <= 0 /\ n * (z + 1) = n * z + n
      BY <2>2
    <3> QED
      BY <3>1
  <2> QED
    BY <2>1, <2>2
<1>7. a >= 0 /\ b >= 0
  <2>1. n * a \in Int /\ n * b \in Int
    OBVIOUS
  <2>2. n * a + n > 0 /\ n * b + n > 0
    BY <1>4, <2>1
  <2> QED
    BY <1>6, <2>2
<1> QED
  BY <1>1, <1>3, <1>5, <1>7 DEF Day

\* An entry without money at stake, or on a later day, changes nothing for day d.
LEMMA EntryDay ==
  ASSUME DayLossScope, NEW tab \in Seq(Position), NEW r \in Position, r.status = "open",
         NEW d \in Nat, DayOK(tab, d), r.stake = 0 \/ d < Day(r.opened)
  PROVE  DayOK(Append(tab, r), d)
<1>1. PICK new \in Seq(Position) : new = Append(tab, r)
  BY TableChanges
<1>2. /\ Len(tab) \in Nat /\ Len(new) = Len(tab) + 1
      /\ DOMAIN tab = 1 .. Len(tab) /\ DOMAIN new = 1 .. Len(tab) + 1
      /\ new[Len(tab) + 1] = r /\ \A p \in DOMAIN tab : new[p] = tab[p]
  BY <1>1, TableFinite
<1>3. BookedOn(new, d) = BookedOn(tab, d)
  <2>1. Len(tab) + 1 \notin BookedOn(new, d)
    BY <1>2 DEF BookedOn
  <2> QED
    BY <1>2, <2>1 DEF BookedOn
<1>4. AtRisk(new, d) = AtRisk(tab, d)
  <2>1. Len(tab) + 1 \notin AtRisk(new, d)
    <3>1. r.stake \in Nat /\ Day(r.opened) \in Nat
      <4>1. r.stake \in Nat /\ r.opened \in Nat
        BY PositionTypes
      <4>2. r.opened <= r.opened
        BY <4>1
      <4> QED
        BY <4>1, <4>2, DaysPass
    <3> QED
      BY <1>2, <3>1 DEF AtRisk
  <2>2. \A p \in DOMAIN new : p = Len(tab) + 1 \/ p \in DOMAIN tab
    BY <1>2
  <2>3. \A p \in DOMAIN tab : p \in DOMAIN new
    BY <1>2
  <2>4. \A p \in DOMAIN tab : p \in AtRisk(new, d) <=> p \in AtRisk(tab, d)
    BY <1>2, <2>3 DEF AtRisk, Unbooked
  <2>5. AtRisk(new, d) \subseteq DOMAIN new /\ AtRisk(tab, d) \subseteq DOMAIN tab
    BY DEF AtRisk, Unbooked
  <2> QED
    BY <2>1, <2>2, <2>4, <2>5
<1>5. Earned(new, d) = Earned(tab, d)
  <2>1. \A p \in BookedOn(tab, d) : Results(new)[p] = Results(tab)[p]
    BY <1>2, TableFinite DEF BookedOn, Results
  <2>2. IsFiniteSet(BookedOn(tab, d))
    BY TableFinite
  <2> QED
    BY <1>3, <2>1, <2>2, SumSame DEF Earned
<1>6. Earned(tab, d) + Cardinality(AtRisk(tab, d)) * Worst
        <= Earned(new, d) + Cardinality(AtRisk(new, d)) * Worst
  <2>1. Earned(tab, d) \in Int /\ Cardinality(AtRisk(tab, d)) \in Nat /\ Worst \in Int
    BY TableFinite, ScopeBounds
  <2>2. PICK x \in Int : x = Earned(tab, d) + Cardinality(AtRisk(tab, d)) * Worst
    BY <2>1
  <2> QED
    BY <1>4, <1>5, <2>2
<1>7. DayOK(new, d)
  BY <1>2, <1>6, NoWorse
<1> QED
  BY <1>1, <1>7

\* An open trade ends: its row stays OPEN and keeps its stake.
LEMMA EndDay ==
  ASSUME DayLossScope, NEW tab \in Seq(Position), NEW p \in DOMAIN tab, NEW r \in Position,
         tab[p].status = "open", r.status = "closed",
         r.stake = tab[p].stake, r.opened = tab[p].opened, NEW d \in Nat, DayOK(tab, d)
  PROVE  DayOK([tab EXCEPT ![p] = r], d)
<1>1. PICK new \in Seq(Position) : new = [tab EXCEPT ![p] = r]
  BY TableChanges
<1>2. /\ Len(new) = Len(tab) /\ DOMAIN new = DOMAIN tab /\ Len(tab) \in Nat
      /\ new[p] = r /\ \A q \in DOMAIN tab : q # p => new[q] = tab[q]
  BY <1>1, TableFinite, SMTT(30)
<1>3. BookedOn(new, d) = BookedOn(tab, d) /\ p \notin BookedOn(tab, d)
  <2>1. p \notin BookedOn(new, d) /\ p \notin BookedOn(tab, d)
    BY <1>2 DEF BookedOn
  <2> QED
    BY <1>2, <2>1 DEF BookedOn
<1>4. AtRisk(new, d) = AtRisk(tab, d)
  <2>1. \A q \in DOMAIN tab : q \in AtRisk(new, d) <=> q \in AtRisk(tab, d)
    BY <1>2 DEF AtRisk, Unbooked
  <2> QED
    BY <1>2, <2>1 DEF AtRisk, Unbooked
<1>5. Earned(new, d) = Earned(tab, d)
  <2>1. \A q \in BookedOn(tab, d) : Results(new)[q] = Results(tab)[q]
    BY <1>2, <1>3, TableFinite DEF BookedOn, Results
  <2>2. IsFiniteSet(BookedOn(tab, d))
    BY TableFinite
  <2> QED
    BY <1>3, <2>1, <2>2, SumSame DEF Earned
<1>6. Earned(tab, d) + Cardinality(AtRisk(tab, d)) * Worst
        <= Earned(new, d) + Cardinality(AtRisk(new, d)) * Worst
  <2>1. Earned(tab, d) \in Int /\ Cardinality(AtRisk(tab, d)) \in Nat /\ Worst \in Int
    BY TableFinite, ScopeBounds
  <2>2. PICK x \in Int : x = Earned(tab, d) + Cardinality(AtRisk(tab, d)) * Worst
    BY <2>1
  <2> QED
    BY <1>4, <1>5, <2>2
<1>7. DayOK(new, d)
  BY <1>2, <1>6, NoWorse
<1> QED
  BY <1>1, <1>7

\* A booked trade counts with its result on its day, and is at risk no more.
LEMMA BookDay ==
  ASSUME DayLossScope, NEW tab \in Seq(Position), NEW p \in DOMAIN tab, NEW r \in Position,
         tab[p].status = "closed", ResultOK(tab[p]),
         r.status = "booked", r.result = tab[p].result, r.known = tab[p].known,
         r.opened = tab[p].opened, r.opened <= r.closed,
         NEW d \in Nat, DayOK(tab, d)
  PROVE  DayOK([tab EXCEPT ![p] = r], d)
<1>1. PICK new \in Seq(Position) : new = [tab EXCEPT ![p] = r]
  BY TableChanges
<1>2. /\ Len(new) = Len(tab) /\ DOMAIN new = DOMAIN tab /\ Len(tab) \in Nat
      /\ new[p] = r /\ \A q \in DOMAIN tab : q # p => new[q] = tab[q]
  BY <1>1, TableFinite, SMTT(30)
<1>3. PICK worst \in Int : worst = Worst /\ worst <= 0
  BY ScopeBounds
<1>4. PICK res \in Int : /\ res = tab[p].result /\ worst <= res
                         /\ tab[p].stake = 0 => res >= 0
  <2>1. tab[p] \in Position
    BY TableFinite
  <2>2. tab[p].result \in Int /\ tab[p].stake \in Nat
    BY <2>1 DEF Position
  <2>3. Worst <= tab[p].result /\ tab[p].result + tab[p].stake >= 0
    BY DEF ResultOK
  <2> QED
    BY <1>3, <2>2, <2>3
<1>5. PICK k \in Nat, j \in Nat : k = Cardinality(AtRisk(tab, d)) /\ j = Cardinality(AtRisk(new, d))
  BY TableFinite
<1>6. PICK e \in Int, f \in Int : e = Earned(tab, d) /\ f = Earned(new, d)
  BY TableFinite
<1>7. IF p \in AtRisk(tab, d) THEN j = k - 1 ELSE j = k
  <2>1. p \notin AtRisk(new, d)
    BY <1>2 DEF AtRisk, Unbooked
  <2>2. \A q \in DOMAIN tab : q # p => (q \in AtRisk(new, d) <=> q \in AtRisk(tab, d))
    BY <1>2 DEF AtRisk, Unbooked
  <2>3. AtRisk(new, d) = AtRisk(tab, d) \ {p}
    BY <1>2, <2>1, <2>2 DEF AtRisk, Unbooked
  <2>4. IsFiniteSet(AtRisk(tab, d))
    BY TableFinite
  <2> QED
    BY <1>5, <2>3, <2>4, FS_RemoveElement
<1>8. \A q \in BookedOn(tab, d) : Results(new)[q] = Results(tab)[q] /\ q # p
  BY <1>2, TableFinite DEF BookedOn, Results
<1>9. \A q \in DOMAIN tab : q # p => (q \in BookedOn(new, d) <=> q \in BookedOn(tab, d))
  BY <1>2 DEF BookedOn
<1>10. f = IF p \in BookedOn(new, d) THEN e + res ELSE e
  <2>1. BookedOn(new, d) \ {p} = BookedOn(tab, d)
    BY <1>2, <1>8, <1>9 DEF BookedOn
  <2>2. IsFiniteSet(BookedOn(tab, d)) /\ IsFiniteSet(BookedOn(new, d))
    BY TableFinite
  <2>3. Sum(Results(new), BookedOn(tab, d)) = e
    BY <1>6, <1>8, <2>2, SumSame DEF Earned
  <2>4. CASE p \in BookedOn(new, d)
    <3>1. \A q \in BookedOn(new, d) : Results(new)[q] \in Int
      BY TableFinite
    <3>2. Sum(Results(new), BookedOn(new, d))
            = Results(new)[p] + Sum(Results(new), BookedOn(new, d) \ {p})
      BY <2>2, <2>4, <3>1, SumRemove
    <3>3. Results(new)[p] = res
      BY <1>2, <1>4, TableFinite
    <3>4. Earned(new, d) = res + e
      BY <2>1, <2>3, <3>2, <3>3 DEF Earned
    <3> QED
      BY <1>6, <2>4, <3>4
  <2>5. CASE p \notin BookedOn(new, d)
    BY <1>6, <2>1, <2>3, <2>5 DEF Earned
  <2> QED
    BY <2>4, <2>5
<1>11. p \in BookedOn(new, d) => p \in AtRisk(tab, d) \/ res >= 0
  <2> SUFFICES ASSUME p \in BookedOn(new, d), tab[p].stake # 0
               PROVE  p \in AtRisk(tab, d)
    BY <1>4
  <2>1. Day(r.closed) = d
    BY <1>2 DEF BookedOn
  <2>2. r.opened \in Nat /\ r.closed \in Nat
    BY PositionTypes
  <2>3. Day(r.opened) <= d
    BY <2>1, <2>2, DaysPass
  <2>4. tab[p].stake > 0
    <3>1. tab[p] \in Position
      BY TableFinite
    <3>2. tab[p].stake \in Nat
      BY <3>1 DEF Position
    <3> QED
      BY <3>2
  <2> QED
    BY <2>3, <2>4 DEF AtRisk, Unbooked
<1>12. e + k * worst <= f + j * worst
  <2>1. (k - 1) * worst = k * worst - worst /\ k * worst \in Int
    OBVIOUS
  <2>2. PICK x \in Int : x = k * worst /\ (k - 1) * worst = x - worst
    BY <2>1
  <2>3. CASE p \in AtRisk(tab, d)
    <3>1. j * worst = x - worst
      BY <1>7, <2>2, <2>3
    <3>2. f >= e + worst
      BY <1>3, <1>4, <1>10
    <3> QED
      BY <3>1, <3>2, <2>2
  <2>4. CASE p \notin AtRisk(tab, d)
    <3>1. j * worst = x
      BY <1>7, <2>2, <2>4
    <3>2. f >= e
      BY <1>4, <1>10, <1>11, <2>4
    <3> QED
      BY <3>1, <3>2, <2>2
  <2> QED
    BY <2>3, <2>4
<1>13. Earned(tab, d) + Cardinality(AtRisk(tab, d)) * Worst
         <= Earned(new, d) + Cardinality(AtRisk(new, d)) * Worst
  BY <1>3, <1>5, <1>6, <1>12
<1>14. DayOK(new, d)
  BY <1>2, <1>13, NoWorse
<1> QED
  BY <1>1, <1>14

\* What the risk rules add up for a day is what the table says of it.
LEMMA DayIsEarned ==
  ASSUME positions \in Seq(Position), NEW d
  PROVE  PnlOn(d, Booked) = Earned(positions, d)
<1>1. {p \in Booked : positions[p].known /\ Day(positions[p].closed) = d} = BookedOn(positions, d)
  BY DEF Booked, OpenRows, Rows, BookedOn
<1>2. BookedOn(positions, d) \in SUBSET Rows
  BY DEF BookedOn, Rows
<1>3. ResultsOf(BookedOn(positions, d)) = Sum(Results(positions), BookedOn(positions, d))
  BY <1>2, ResultsAreSum
<1> QED
  BY <1>1, <1>3 DEF PnlOn, Earned

DayLossInv ==
    /\ \A p \in Rows : ResultOK(positions[p])
    /\ Cardinality(Unbooked(positions)) <= MaxOpenPositions
    /\ \A d \in 0 .. Day(now) : DayOK(positions, d)

\* The account is never worth more than its peak.
LEMMA EquityBelowPeak ==
  ASSUME DayLossScope, positions \in Seq(Position),
         \A p \in Rows : ResultOK(positions[p]), NEW drift \in Drifts
  PROVE  Equity(drift) \in Int /\ Equity(drift) <= Peak(Len(positions))
<1>1. PICK best \in Nat, top \in Nat : best = Best /\ top = Max(Drifts) /\ drift <= top
  BY ScopeBounds
<1>2. PICK n \in Nat : n = Len(positions)
  BY TableFinite
<1> DEFINE S == Rows \ Live
<1>3. S \in SUBSET Rows /\ IsFiniteSet(S)
  BY RowsFinite
<1>4. ResultsOf(S) = Sum(Results(positions), S)
  BY <1>3, ResultsAreSum
<1>5. \A p \in S : Results(positions)[p] \in Int /\ Results(positions)[p] <= best
  <2> TAKE p \in S
  <2>1. p \in Rows /\ positions[p].status # "open" /\ p \in DOMAIN positions
    BY DEF Live, Rows
  <2>2. Results(positions)[p] \in Int /\ Results(positions)[p] = positions[p].result
    BY <2>1, TableFinite
  <2>3. positions[p].result <= best
    BY <1>1, <2>1 DEF ResultOK
  <2> QED
    BY <2>2, <2>3
<1>6. Sum(Results(positions), S) <= Cardinality(S) * best /\ Sum(Results(positions), S) \in Int
  <2>1. PICK b \in Int : b = best
    OBVIOUS
  <2>2. \A p \in S : Results(positions)[p] \in Int /\ Results(positions)[p] <= b
    BY <1>5, <2>1
  <2>3. Sum(Results(positions), S) <= Cardinality(S) * b
    BY <1>3, <2>2, SumAtMost
  <2>4. Sum(Results(positions), S) \in Int
    BY <1>3, <1>5, SumInteger
  <2> QED
    BY <2>1, <2>3, <2>4
<1>7. PICK k \in Nat : k = Cardinality(S) /\ k <= n
  <2>1. IsFiniteSet(Rows) /\ Rows = 1 .. n
    BY <1>2, TableFinite DEF Rows
  <2>2. Cardinality(S) \in Nat /\ Cardinality(S) <= Cardinality(Rows)
    BY <1>3, <2>1, FS_Subset, FS_CardinalityType
  <2>3. Cardinality(1 .. n) = n
    <3>1. \A a, b \in Int : Cardinality(a .. b) = IF a > b THEN 0 ELSE b - a + 1
      BY FS_Interval
    <3>2. 1 \in Int /\ n \in Int
      OBVIOUS
    <3>3. Cardinality(1 .. n) = IF 1 > n THEN 0 ELSE n - 1 + 1
      BY <3>1, <3>2
    <3> QED
      BY <3>3
  <2> QED
    BY <2>1, <2>2, <2>3
<1>8. k * best <= n * best /\ k * best \in Nat /\ n * best \in Nat
  <2>1. (n - k) * best >= 0 /\ (n - k) * best = n * best - k * best
    BY <1>7
  <2> QED
    BY <2>1
<1>9. PICK res \in Int : res = ResultsOf(S) /\ res <= n * best
  BY <1>4, <1>6, <1>7, <1>8
<1>10. Equity(drift) = Capital + res + (IF Live = {} THEN 0 ELSE drift)
  <2>1. PICK st \in Int : st = Stakes(Live)
    <3>1. Live \in SUBSET Rows
      BY DEF Live
    <3> QED
      BY <3>1, StakesInteger
  <2>2. FreeBalance = Capital + res - st
    BY <1>9, <2>1 DEF FreeBalance
  <2>3. Capital \in Int
    OBVIOUS
  <2>4. PICK more \in Int : more = IF Live = {} THEN 0 ELSE drift
    <3>1. drift \in Int /\ 0 \in Int
      OBVIOUS
    <3> QED
      BY <3>1
  <2>5. Equity(drift) = (Capital + res - st) + st + more
    BY <2>1, <2>2, <2>4 DEF Equity
  <2> QED
    BY <2>3, <2>4, <2>5
<1>11. PICK x \in Nat : x = n * best
  BY <1>8
<1>12. Peak(Len(positions)) = Capital + x + top
  BY <1>1, <1>2, <1>11 DEF Peak
<1>13. drift \in Int
  OBVIOUS
<1> QED
  BY <1>1, <1>9, <1>10, <1>11, <1>12, <1>13

\* Rule 7 counts pairs: the rows that are not booked are of different ones.
LEMMA SlotsCounted ==
  ASSUME RiskInv
  PROVE  /\ IsFiniteSet(OpenSymbols) /\ Cardinality(OpenSymbols) \in Nat
         /\ Cardinality(Unbooked(positions)) <= Cardinality(OpenSymbols)
<1> DEFINE f == [p \in OpenRows |-> positions[p].pair]
<1>1. OpenRows = Unbooked(positions) /\ OpenRows \in SUBSET Rows
  BY DEF OpenRows, Rows, Unbooked
<1>2. IsFiniteSet(OpenRows) /\ positions \in Seq(Position)
  BY <1>1, RowsFinite DEF RiskInv
<1>3. f \in Surjection(OpenRows, OpenSymbols)
  BY DEF Surjection, OpenSymbols
<1>4. IsFiniteSet(OpenSymbols)
  BY <1>2, <1>3, FS_Surjection
<1>5. \A p, q \in OpenRows : p # q => positions[p].pair # positions[q].pair
  <2> SUFFICES ASSUME NEW p \in OpenRows, NEW q \in OpenRows, p < q
               PROVE  positions[p].pair # positions[q].pair
    <3>1. Rows = 1 .. Len(positions) /\ Len(positions) \in Nat
      BY <1>2 DEF Rows
    <3>2. \A p, q \in OpenRows : p # q => p < q \/ q < p
      BY <1>1, <3>1
    <3> QED
      BY <3>2
  <2>1. InTurn(positions[p], positions[q])
    BY <1>1 DEF RiskInv
  <2> QED
    BY <2>1 DEF InTurn, OpenRows
<1>6. f \in Injection(OpenRows, OpenSymbols)
  BY <1>5 DEF Injection, IsInjective, OpenSymbols
<1>7. Cardinality(OpenRows) <= Cardinality(OpenSymbols)
  BY <1>4, <1>6, FS_Injection
<1>8. Cardinality(OpenSymbols) \in Nat
  BY <1>4, FS_CardinalityType
<1> QED
  BY <1>1, <1>4, <1>7, <1>8

LEMMA DayInit == DayLossScope /\ Init => DayLossInv
<1> SUFFICES ASSUME DayLossScope, Init PROVE DayLossInv
  OBVIOUS
<1>0. positions \in Seq(Position)
  BY DEF Init
<1>1. positions = <<>> /\ Rows = {}
  BY DEF Init, Rows
<1>2. Cardinality(Unbooked(positions)) <= MaxOpenPositions
  BY <1>1, FS_EmptySet DEF Unbooked
<1>3. \A d : DayOK(positions, d)
  <2> TAKE d
  <2>1. BookedOn(positions, d) = {}
    BY <1>1 DEF BookedOn
  <2>2. Earned(positions, d) = 0
    BY <2>1, FS_EmptySet, SumPicks DEF Earned
  <2>3. Earned(positions, d) * 1000 > -(MaxDailyLoss * Peak(Len(positions)))
    <3>1. Len(positions) \in Nat /\ Len(positions) <= Len(positions)
      BY <1>0
    <3>2. PICK l \in Nat : l = MaxDailyLoss * Peak(Len(positions)) /\ l > 0
      BY <3>1, PeakGrows
    <3> QED
      BY <2>2, <3>2
  <2> QED
    BY <1>0, <1>2, <2>3, UnderLimit
<1> QED
  BY <1>1, <1>2, <1>3 DEF DayLossInv

\* Without money nothing is staked.
LEMMA NothingToStake ==
  ASSUME NEW sig \in Signals, NEW acct, acct.equity = 0, acct.free = 0
  PROVE  Size(sig, acct) = 0
<1>1. PICK stop \in Nat \ {0} : stop = StopDistance(sig)
  BY StopBounds
<1>2. PICK a \in Int, b \in Int, c \in Int :
        /\ a = (acct.equity * RiskPerTrade) \div stop /\ b = (acct.equity * MaxPosition) \div 1000
        /\ c = acct.free
  <2>1. acct.equity * RiskPerTrade = 0 /\ acct.equity * MaxPosition = 0 /\ 1000 \in Nat \ {0}
    OBVIOUS
  <2>2. \A n \in Nat \ {0} : 0 \div n \in Int
    BY Division
  <2> QED
    BY <1>1, <2>1, <2>2
<1>3. PICK whole \in Int : whole = Min({a, b, c}) /\ whole <= c
  BY LeastOfThree
<1>4. Max({whole, 0}) = 0
  <2>1. \A z \in Int : Max({whole, z}) = IF whole >= z THEN whole ELSE z
    BY PairClamps
  <2>2. whole <= 0
    BY <1>2, <1>3
  <2>3. Max({whole, 0}) = IF whole >= 0 THEN whole ELSE 0
    BY <2>1
  <2> QED
    BY <2>2, <2>3
<1>5. PICK k \in Nat : k = ConfidenceScale(sig.confidence)
  <2>1. sig.confidence \in 0 .. 1000
    BY SignalTypes
  <2> QED
    BY <2>1, ScaleBounds
<1>6. Size(sig, acct) = (Max({whole, 0}) * k) \div 1000
  <2> DEFINE byRisk == (acct.equity * RiskPerTrade) \div StopDistance(sig)
             byCap == (acct.equity * MaxPosition) \div 1000
  <2>1. Size(sig, acct) =
          (Max({Min({byRisk, byCap, acct.free}), 0}) * ConfidenceScale(sig.confidence)) \div 1000
    BY DEF Size
  <2>2. Min({byRisk, byCap, acct.free}) = whole
    BY <1>1, <1>2, <1>3
  <2> HIDE DEF byRisk, byCap
  <2> QED
    BY <1>5, <2>1, <2>2
<1>7. 0 * k = 0 /\ 0 \div 1000 = 0
  OBVIOUS
<1> QED
  BY <1>4, <1>6, <1>7

\* The day's limit is not reached when an entry is approved.
LEMMA EntryDays ==
  ASSUME DayLossScope, RiskInv, DayLossInv, EntrySignal
  PROVE  DayLossInv'
<1>1. /\ positions \in Seq(Position) /\ now \in Nat /\ now \in 1 .. MaxTime
      /\ Len(positions) \in Nat
  BY DEF RiskInv
<1>2. PICK drift \in Drifts, streak \in {TimesOf(Certain), TimesOf(Possible)} :
        /\ BalanceValid(drift)
        /\ \E sig \in Signals : EvaluateEntry(sig, Account(drift, streak))
  BY DEF EntrySignal
<1>3. PICK acct : acct = Account(drift, streak)
  OBVIOUS
<1>4. PICK sig \in Signals : EvaluateEntry(sig, acct)
  BY <1>2, <1>3
<1>5. CASE UNCHANGED positions
  <2>1. now' = now
    BY <1>4 DEF EvaluateEntry
  <2> QED
    BY <1>5, <2>1 DEF DayLossInv, Rows
<1>6. CASE positions' # positions
  <2>1. /\ Verdict(sig, acct) = "APPROVED" /\ now' = now
        /\ positions' = Append(positions, Entry(sig, acct))
    BY <1>4, <1>6 DEF EvaluateEntry
  <2>2. /\ acct.equity = Equity(drift) /\ acct.free = FreeBalance /\ acct.daily = DailyPnl
        /\ acct.symbols = OpenSymbols
    BY <1>3 DEF Account
  <2>3. FreeBalance \in Int /\ Equity(drift) \in Int /\ FreeBalance >= 0 /\ Equity(drift) >= FreeBalance
    BY <1>1, <1>2, AccountInteger DEF BalanceValid
  <2>4. PICK size \in Nat : size = Size(sig, acct)
    BY <2>2, <2>3, SizeBounds
  <2>5. PICK r \in Position : /\ r = Entry(sig, acct) /\ r.status = "open" /\ r.opened = now
                              /\ r.stake = size
    <3>1. StopDistance(sig) \in Nat /\ sig.pair \in Pairs
      BY StopBounds, SignalTypes
    <3>2. size * StopDistance(sig) \in Nat
      BY <3>1
    <3>3. Entry(sig, acct) = [pair |-> sig.pair, stake |-> size, risk |-> size * StopDistance(sig),
                              opened |-> now, closed |-> 0, result |-> 0, known |-> FALSE,
                              status |-> "open"]
      BY <2>4 DEF Entry
    <3>4. Entry(sig, acct) \in Position
      BY <3>1, <3>2, <3>3, <1>1 DEF Position, Statuses
    <3> QED
      BY <3>3, <3>4
  <2>6. positions' = Append(positions, r)
    BY <2>1, <2>5
  <2>7. PICK new \in Seq(Position) : /\ new = Append(positions, r) /\ Len(new) = Len(positions) + 1
                                     /\ DOMAIN new = 1 .. Len(positions) + 1 /\ new[Len(positions) + 1] = r
                                     /\ \A p \in Rows : p \in DOMAIN new /\ new[p] = positions[p]
    <3>1. Append(positions, r) \in Seq(Position)
      BY <1>1, TableChanges
    <3>2. /\ Len(Append(positions, r)) = Len(positions) + 1
          /\ DOMAIN Append(positions, r) = 1 .. Len(positions) + 1
          /\ Append(positions, r)[Len(positions) + 1] = r
          /\ Rows = 1 .. Len(positions)
          /\ \A p \in 1 .. Len(positions) : Append(positions, r)[p] = positions[p]
      BY <1>1 DEF Rows
    <3>3. \A p \in 1 .. Len(positions) : p \in 1 .. Len(positions) + 1
      BY <1>1
    <3> QED
      BY <3>1, <3>2, <3>3
  <2>8. \A p \in Rows' : ResultOK(positions'[p])
    <3>1. \A p \in DOMAIN new : p \in Rows \/ p = Len(positions) + 1
      BY <1>1, <2>7 DEF Rows
    <3>2. ResultOK(r)
      BY <2>5 DEF ResultOK
    <3>3. \A p \in DOMAIN new : ResultOK(new[p])
      BY <3>1, <3>2, <2>7 DEF DayLossInv
    <3> QED
      BY <3>3, <2>6, <2>7 DEF Rows
  <2>9. ~max_open_positions(sig, acct) /\ ~max_daily_loss(acct)
    <3>1. /\ RulesInOrder[6] = "MAX_POSITIONS_REACHED" /\ RulesInOrder[8] = "DAILY_LOSS_LIMIT_HIT"
          /\ 6 \in DOMAIN RulesInOrder /\ 8 \in DOMAIN RulesInOrder
      BY DEF RulesInOrder
    <3>2. ~Violated(RulesInOrder[6], sig, acct) /\ ~Violated(RulesInOrder[8], sig, acct)
      BY <2>1, <3>1, ApprovedViolatesNone
    <3>3. ~Violated("MAX_POSITIONS_REACHED", sig, acct) /\ ~Violated("DAILY_LOSS_LIMIT_HIT", sig, acct)
      BY <3>1, <3>2
    <3> QED
      BY <3>3 DEF Violated
  <2>10. Cardinality(Unbooked(new)) <= MaxOpenPositions
    <3>1. ~(Cardinality(OpenSymbols) >= MaxOpenPositions)
      BY <2>2, <2>9 DEF max_open_positions
    <3>2. Unbooked(new) = Unbooked(positions) \cup {Len(positions) + 1}
      <4>1. \A p \in DOMAIN new : p \in Rows \/ p = Len(positions) + 1
        BY <1>1, <2>7 DEF Rows
      <4>2. Len(positions) + 1 \in Unbooked(new)
        BY <1>1, <2>5, <2>7 DEF Unbooked
      <4>3. \A p \in Rows : p \in Unbooked(new) <=> p \in Unbooked(positions)
        BY <2>7 DEF Unbooked, Rows
      <4>4. Unbooked(positions) \subseteq Rows /\ Unbooked(new) \subseteq DOMAIN new
        BY DEF Unbooked, Rows
      <4> QED
        BY <4>1, <4>2, <4>3, <4>4
    <3>3. /\ IsFiniteSet(Unbooked(positions)) /\ Cardinality(Unbooked(positions)) \in Nat
          /\ Cardinality(Unbooked(positions)) <= Cardinality(OpenSymbols)
          /\ Cardinality(OpenSymbols) \in Nat
      BY <1>1, TableFinite, SlotsCounted
    <3>4. Cardinality(Unbooked(new)) <= Cardinality(Unbooked(positions)) + 1
      <4>1. PICK S : S = Unbooked(positions)
        OBVIOUS
      <4>2. PICK x : x = Len(positions) + 1
        OBVIOUS
      <4>3. IsFiniteSet(S)
        BY <3>3, <4>1
      <4>4. Cardinality(S \cup {x}) = IF x \in S THEN Cardinality(S) ELSE Cardinality(S) + 1
        BY <4>3, FS_AddElement
      <4>5. Unbooked(new) = S \cup {x}
        BY <3>2, <4>1, <4>2
      <4> QED
        BY <3>3, <4>1, <4>4, <4>5
    <3>5. Cardinality(Unbooked(new)) \in Nat
      BY <2>7, TableFinite
    <3> QED
      BY <3>1, <3>3, <3>4, <3>5
  <2>11. ASSUME NEW d \in 0 .. Day(now) PROVE DayOK(new, d)
    <3>1. DayOK(positions, d) /\ d \in Nat /\ Day(now) \in Nat
      <4>1. now <= now
        BY <1>1
      <4>2. Day(now) \in Nat
        BY <1>1, <4>1, DaysPass
      <4> QED
        BY <4>2 DEF DayLossInv
    <3>2. CASE r.stake = 0 \/ d < Day(r.opened)
      <4>1. DayOK(Append(positions, r), d)
        BY <1>1, <2>5, <3>1, <3>2, EntryDay
      <4> QED
        BY <4>1, <2>7
    <3>3. CASE ~(r.stake = 0 \/ d < Day(r.opened))
      <4>1. d = Day(now)
        BY <2>5, <3>1, <3>3
      <4>2. Equity(drift) > 0
        <5> SUFFICES ASSUME Equity(drift) = 0 PROVE FALSE
          BY <2>3
        <5>1. acct.equity = 0 /\ acct.equity \in Int /\ acct.free \in Int /\ acct.free = 0
          BY <2>2, <2>3
        <5>2. size = 0
          <6>1. Size(sig, acct) = 0
            BY <5>1, NothingToStake
          <6> QED
            BY <2>4, <6>1
        <5> QED
          BY <5>2, <2>5, <3>3
      <4>3. DailyPnl * 1000 > -MaxDailyLoss * Equity(drift)
        <5>1. ~(DailyPnl * 1000 <= -MaxDailyLoss * Equity(drift))
          BY <2>2, <2>9, <4>2 DEF max_daily_loss
        <5>2. DailyPnl \in Int
          BY <1>1, DayIsEarned, TableFinite DEF DailyPnl
        <5>3. PICK x \in Int : x = -MaxDailyLoss * Equity(drift)
          BY <2>3
        <5> QED
          BY <5>1, <5>2, <5>3
      <4>4. Earned(new, d) = DailyPnl
        <5>1. Earned(positions, d) = DailyPnl
          BY <1>1, <4>1, DayIsEarned DEF DailyPnl
        <5>2. BookedOn(new, d) = BookedOn(positions, d)
          <6>1. \A p \in DOMAIN new : p \in Rows \/ p = Len(positions) + 1
            BY <1>1, <2>7 DEF Rows
          <6>2. Len(positions) + 1 \notin BookedOn(new, d)
            BY <2>5, <2>7 DEF BookedOn
          <6>3. \A p \in Rows : p \in BookedOn(new, d) <=> p \in BookedOn(positions, d)
            BY <2>7 DEF BookedOn, Rows
          <6>4. BookedOn(positions, d) \subseteq Rows /\ BookedOn(new, d) \subseteq DOMAIN new
            BY DEF BookedOn, Rows
          <6> QED
            BY <6>1, <6>2, <6>3, <6>4
        <5>3. \A p \in BookedOn(positions, d) : Results(new)[p] = Results(positions)[p]
          BY <2>7 DEF BookedOn, Results, Rows
        <5>4. IsFiniteSet(BookedOn(positions, d))
          BY <1>1, TableFinite
        <5>5. Sum(Results(new), BookedOn(positions, d)) = Sum(Results(positions), BookedOn(positions, d))
          BY <5>3, <5>4, SumSame
        <5> QED
          BY <5>1, <5>2, <5>5 DEF Earned
      <4>5. Earned(new, d) * 1000 > -(MaxDailyLoss * Peak(Len(new)))
        <5>1. PICK eq \in Int, pe \in Int : eq = Equity(drift) /\ pe = Peak(Len(positions)) /\ eq <= pe
          <6>1. Equity(drift) \in Int /\ Equity(drift) <= Peak(Len(positions))
            BY <1>1, EquityBelowPeak DEF DayLossInv
          <6>2. Peak(Len(positions)) \in Nat
            <7>1. Len(positions) <= Len(positions)
              BY <1>1
            <7> QED
              BY <1>1, <7>1, PeakGrows
          <6> QED
            BY <6>1, <6>2
        <5>2. PICK l \in Int, m \in Int : l = MaxDailyLoss * pe /\ m = MaxDailyLoss * Peak(Len(new)) /\ l <= m
          <6>1. Len(new) \in Nat /\ Len(positions) <= Len(new)
            BY <1>1, <2>7
          <6> QED
            BY <1>1, <5>1, <6>1, PeakGrows
        <5>3. MaxDailyLoss * eq <= l /\ MaxDailyLoss * eq \in Int /\ -MaxDailyLoss * eq = -(MaxDailyLoss * eq)
          <6>1. MaxDailyLoss * (pe - eq) >= 0 /\ MaxDailyLoss * (pe - eq) = MaxDailyLoss * pe - MaxDailyLoss * eq
            BY <5>1
          <6>2. MaxDailyLoss * eq \in Int /\ -MaxDailyLoss * eq = -(MaxDailyLoss * eq)
            OBVIOUS
          <6> QED
            BY <5>2, <6>1, <6>2
        <5>4. PICK x \in Int : x = DailyPnl
          BY <1>1, DayIsEarned, TableFinite DEF DailyPnl
        <5>5. x * 1000 > -(MaxDailyLoss * eq)
          BY <4>3, <5>1, <5>3, <5>4
        <5>6. x * 1000 > -m
          BY <5>2, <5>3, <5>5
        <5>7. Earned(new, d) = x /\ MaxDailyLoss * Peak(Len(new)) = m
          BY <4>4, <5>2, <5>4
        <5> QED
          BY <5>6, <5>7
      <4>6. new \in Seq(Position)
        OBVIOUS
      <4> QED
        BY <2>10, <4>5, <4>6, UnderLimit, SMTT(30)
    <3> QED
      BY <3>2, <3>3
  <2> QED
    BY <2>1, <2>6, <2>7, <2>8, <2>10, <2>11 DEF DayLossInv, Rows
<1> QED
  BY <1>5, <1>6

LEMMA EndsDays ==
  ASSUME DayLossScope, RiskInv, DayLossInv,
         NEW p \in Rows, NEW outcome \in Outcomes, Ends(p, outcome)
  PROVE  DayLossInv'
<1>1. /\ positions \in Seq(Position) /\ now \in Nat /\ now \in 1 .. MaxTime
      /\ p \in DOMAIN positions /\ Rows = DOMAIN positions
  BY DEF RiskInv, Rows
<1>2. PICK at \in 0 .. MaxTime : at = now
  BY <1>1
<1>3. PICK row \in Position : row = positions[p]
  BY <1>1, TableFinite
<1>4. PICK result \in Int, known \in BOOLEAN :
        /\ result = outcome.result /\ known = outcome.known
        /\ Worst <= result /\ result <= Best /\ result + row.stake >= 0
  <2>1. outcome.result \in Int /\ outcome.known \in BOOLEAN
    BY OutcomeTypes
  <2>2. Worst <= outcome.result /\ outcome.result <= Best
    BY ScopeBounds
  <2>3. outcome.result + row.stake >= 0
    BY <1>3 DEF Ends
  <2> QED
    BY <2>1, <2>2, <2>3
<1>5. PICK r \in Position : /\ r = [row EXCEPT !.status = "closed", !.closed = at,
                                               !.result = result, !.known = known]
                            /\ r.status = "closed" /\ r.result = result
                            /\ r.stake = row.stake /\ r.opened = row.opened
  <2> DEFINE closed == [row EXCEPT !.status = "closed", !.closed = at,
                                   !.result = result, !.known = known]
  <2>1. /\ closed \in Position /\ closed.status = "closed" /\ closed.result = result
        /\ closed.stake = row.stake /\ closed.opened = row.opened
    BY DEF Position, Statuses
  <2> HIDE DEF closed
  <2>2. closed = [row EXCEPT !.status = "closed", !.closed = at, !.result = result, !.known = known]
    BY DEF closed
  <2> QED
    BY <2>1, <2>2
<1>6. positions' = [positions EXCEPT ![p] = r] /\ now' = now /\ row.status = "open"
  BY <1>2, <1>3, <1>4, <1>5 DEF Ends
<1>7. ResultOK(r)
  <2>1. r.result + r.stake >= 0 /\ Worst <= r.result /\ r.result <= Best
    BY <1>4, <1>5
  <2> QED
    BY <2>1 DEF ResultOK
<1>8. PICK new \in Seq(Position) : /\ new = [positions EXCEPT ![p] = r] /\ DOMAIN new = DOMAIN positions
                                   /\ new[p] = r
                                   /\ \A q \in DOMAIN positions : q # p => new[q] = positions[q]
  <2>1. [positions EXCEPT ![p] = r] \in Seq(Position)
    BY <1>1, TableChanges
  <2> QED
    BY <1>1, <2>1
<1>9. \A q \in DOMAIN new : ResultOK(new[q])
  BY <1>1, <1>7, <1>8 DEF DayLossInv
<1>10. Unbooked(new) = Unbooked(positions)
  <2>1. p \in Unbooked(new) /\ p \in Unbooked(positions)
    BY <1>1, <1>3, <1>5, <1>6, <1>8 DEF Unbooked
  <2>2. \A q \in DOMAIN positions : q # p => (q \in Unbooked(new) <=> q \in Unbooked(positions))
    BY <1>8 DEF Unbooked
  <2> QED
    BY <1>8, <2>1, <2>2 DEF Unbooked
<1>11. ASSUME NEW d \in 0 .. Day(now) PROVE DayOK(new, d)
  <2>1. DayOK(positions, d) /\ d \in Nat
    <3>1. now <= now
      BY <1>1
    <3>2. Day(now) \in Nat
      BY <1>1, <3>1, DaysPass
    <3> QED
      BY <3>2 DEF DayLossInv
  <2>2. DayOK([positions EXCEPT ![p] = r], d)
    BY <1>1, <1>3, <1>5, <1>6, <2>1, EndDay
  <2> QED
    BY <1>8, <2>2
<1> QED
  BY <1>6, <1>8, <1>9, <1>10, <1>11 DEF DayLossInv, Rows

LEMMA BookDays ==
  ASSUME DayLossScope, RiskInv, DayLossInv, NEW p \in Rows, Book(p)
  PROVE  DayLossInv'
<1>1. /\ positions \in Seq(Position) /\ now \in Nat /\ now \in 1 .. MaxTime
      /\ p \in DOMAIN positions /\ Rows = DOMAIN positions
  BY DEF RiskInv, Rows
<1>2. PICK row \in Position : row = positions[p]
  BY <1>1, TableFinite
<1>3. PICK at \in {row.closed, now} :
        positions' = [positions EXCEPT ![p].status = "booked", ![p].closed = at,
                                       ![p].stake = 0, ![p].risk = 0]
  BY <1>2 DEF Book
<1>4. row.status = "closed" /\ now' = now
  BY <1>2 DEF Book
<1>5. at \in 0 .. MaxTime /\ row.opened <= at /\ row.opened \in Nat
  <2>1. RowOK(row, now)
    BY <1>2 DEF RiskInv
  <2>2. row.opened \in Nat /\ row.closed \in Nat /\ row.closed \in 0 .. MaxTime
    BY DEF Position
  <2> QED
    BY <1>1, <1>3, <1>4, <2>1, <2>2, SMTT(30) DEF RowOK
<1>6. PICK r \in Position : /\ r = [row EXCEPT !.status = "booked", !.closed = at, !.stake = 0, !.risk = 0]
                            /\ r.status = "booked" /\ r.closed = at /\ r.result = row.result
                            /\ r.known = row.known /\ r.opened = row.opened
  <2> DEFINE booked == [row EXCEPT !.status = "booked", !.closed = at, !.stake = 0, !.risk = 0]
  <2>1. /\ booked \in Position /\ booked.status = "booked" /\ booked.closed = at
        /\ booked.result = row.result /\ booked.known = row.known /\ booked.opened = row.opened
    BY <1>5 DEF Position, Statuses
  <2>2. booked = [row EXCEPT !.status = "booked", !.closed = at, !.stake = 0, !.risk = 0]
    OBVIOUS
  <2> HIDE DEF booked
  <2> QED
    BY <2>1, <2>2
<1>7. positions' = [positions EXCEPT ![p] = r]
  BY <1>2, <1>3, <1>6
<1>8. ResultOK(row) /\ ResultOK(r)
  <2>1. ResultOK(row)
    BY <1>1, <1>2 DEF DayLossInv
  <2> QED
    BY <1>4, <1>6, <2>1 DEF ResultOK
<1>9. PICK new \in Seq(Position) : /\ new = [positions EXCEPT ![p] = r] /\ DOMAIN new = DOMAIN positions
                                   /\ new[p] = r
                                   /\ \A q \in DOMAIN positions : q # p => new[q] = positions[q]
  <2>1. [positions EXCEPT ![p] = r] \in Seq(Position)
    BY <1>1, TableChanges
  <2> QED
    BY <1>1, <2>1
<1>10. \A q \in DOMAIN new : ResultOK(new[q])
  BY <1>1, <1>8, <1>9 DEF DayLossInv
<1>11. Cardinality(Unbooked(new)) <= MaxOpenPositions
  <2>1. Unbooked(new) \subseteq Unbooked(positions)
    BY <1>6, <1>9 DEF Unbooked
  <2>2. /\ IsFiniteSet(Unbooked(positions)) /\ Cardinality(Unbooked(positions)) \in Nat
        /\ Cardinality(Unbooked(new)) \in Nat
    BY <1>1, TableFinite
  <2>3. Cardinality(Unbooked(new)) <= Cardinality(Unbooked(positions))
    BY <2>1, <2>2, FS_Subset
  <2> QED
    BY <2>2, <2>3 DEF DayLossInv
<1>12. ASSUME NEW d \in 0 .. Day(now) PROVE DayOK(new, d)
  <2>1. DayOK(positions, d) /\ d \in Nat
    <3>1. now <= now
      BY <1>1
    <3>2. Day(now) \in Nat
      BY <1>1, <3>1, DaysPass
    <3> QED
      BY <3>2 DEF DayLossInv
  <2>2. positions[p].status = "closed" /\ ResultOK(positions[p])
    BY <1>2, <1>4, <1>8
  <2>3. /\ r.result = positions[p].result /\ r.known = positions[p].known
        /\ r.opened = positions[p].opened /\ r.opened <= r.closed
    BY <1>2, <1>5, <1>6
  <2>4. DayOK([positions EXCEPT ![p] = r], d)
    BY <1>1, <1>6, <2>1, <2>2, <2>3, BookDay
  <2> QED
    BY <1>9, <2>4
<1> QED
  BY <1>4, <1>7, <1>9, <1>10, <1>11, <1>12 DEF DayLossInv, Rows

\* A day that has not come has nothing booked on it.
LEMMA TickDays ==
  ASSUME DayLossScope, RiskInv, DayLossInv, Tick
  PROVE  DayLossInv'
<1>1. /\ positions \in Seq(Position) /\ now \in Nat /\ Len(positions) \in Nat
      /\ now' = now + 1 /\ positions' = positions
  BY DEF RiskInv, Tick
<1>2. PICK today \in Nat : today = Day(now)
  <2>1. now <= now
    BY <1>1
  <2> QED
    BY <1>1, <2>1, DaysPass
<1>3. ASSUME NEW d \in 0 .. Day(now') PROVE DayOK(positions, d)
  <2>1. d \in Int /\ d >= 0
    <3>1. PICK next \in Nat : next = Day(now')
      <4>1. now' \in Nat /\ now' <= now'
        BY <1>1
      <4> QED
        BY <4>1, DaysPass
    <3> QED
      BY <3>1
  <2>2. CASE d <= today
    BY <1>2, <2>1, <2>2 DEF DayLossInv
  <2>3. CASE today < d
    <3>1. BookedOn(positions, d) = {}
      <4> SUFFICES ASSUME NEW p \in BookedOn(positions, d) PROVE FALSE
        OBVIOUS
      <4>1. p \in Rows /\ positions[p] \in Position /\ positions[p].status = "booked"
            /\ Day(positions[p].closed) = d
        BY <1>1, TableFinite DEF BookedOn, Rows
      <4>2. RowOK(positions[p], now)
        BY <4>1 DEF RiskInv
      <4>3. positions[p].closed \in Nat /\ positions[p].opened \in Nat
        BY <4>1, PositionTypes
      <4>4. positions[p].closed <= now
        BY <1>1, <4>1, <4>2, <4>3 DEF RowOK
      <4>5. Day(positions[p].closed) <= Day(now) /\ Day(positions[p].closed) \in Nat
        BY <1>1, <4>3, <4>4, DaysPass
      <4> QED
        BY <1>2, <2>3, <4>1, <4>5
    <3>2. Earned(positions, d) = 0
      BY <3>1, FS_EmptySet, SumPicks DEF Earned
    <3>3. Earned(positions, d) * 1000 > -(MaxDailyLoss * Peak(Len(positions)))
      <4>1. Len(positions) <= Len(positions)
        BY <1>1
      <4>2. PICK l \in Nat : l = MaxDailyLoss * Peak(Len(positions)) /\ l > 0
        BY <1>1, <4>1, PeakGrows
      <4> QED
        BY <3>2, <4>2
    <3>4. Cardinality(Unbooked(positions)) <= MaxOpenPositions
      BY DEF DayLossInv
    <3> QED
      BY <1>1, <3>3, <3>4, UnderLimit
  <2> QED
    BY <1>2, <2>1, <2>2, <2>3
<1> QED
  BY <1>1, <1>3 DEF DayLossInv, Rows

THEOREM DayStep == DayLossScope /\ RiskInv /\ DayLossInv /\ [Next]_vars => DayLossInv'
<1> SUFFICES ASSUME DayLossScope, RiskInv, DayLossInv, [Next]_vars
             PROVE  DayLossInv'
  OBVIOUS
<1>1. CASE EntrySignal
  BY <1>1, EntryDays
<1>2. ASSUME NEW sig \in Signals, NEW outcome \in Outcomes, EvaluateExit(sig, outcome)
      PROVE  DayLossInv'
  BY <1>2, EndsDays DEF EvaluateExit, Live
<1>3. ASSUME NEW p \in Rows, NEW outcome \in Outcomes, SafetyExit(p, outcome)
      PROVE  DayLossInv'
  BY <1>3, EndsDays DEF SafetyExit
<1>4. ASSUME NEW p \in Rows, Book(p)
      PROVE  DayLossInv'
  BY <1>4, BookDays
<1>5. CASE UNCHANGED <<now, positions>>
  BY <1>5 DEF DayLossInv, Rows
<1>6. CASE Tick
  BY <1>6, TickDays
<1>7. (Enable \/ Disable \/ UNCHANGED vars) => UNCHANGED <<now, positions>>
  BY DEF Enable, Disable, vars
<1> QED
  BY <1>1, <1>2, <1>3, <1>4, <1>5, <1>6, <1>7 DEF Next

LEMMA BoundFollows ==
  ASSUME DayLossScope, RiskInv, DayLossInv
  PROVE  DayLossBounded
<1>1. positions \in Seq(Position)
  BY DEF RiskInv
<1>2. ASSUME NEW d \in 0 .. Day(now)
      PROVE  PnlOn(d, Booked) * 1000
               > -(MaxDailyLoss * Peak(Len(positions))) + 1000 * MaxOpenPositions * Worst
  <2>1. DayOK(positions, d)
    BY DEF DayLossInv
  <2>2. PICK worst \in Int : worst = Worst /\ worst <= 0
    BY ScopeBounds
  <2>3. PICK k \in Nat, e \in Int : k = Cardinality(AtRisk(positions, d)) /\ e = Earned(positions, d)
    BY <1>1, TableFinite
  <2>4. PICK l \in Nat : l = MaxDailyLoss * Peak(Len(positions))
    <3>1. Len(positions) \in Nat /\ Len(positions) <= Len(positions)
      BY <1>1
    <3> QED
      BY <3>1, PeakGrows
  <2>5. PICK x \in Int, w \in Int : x = k * worst /\ w = 1000 * MaxOpenPositions * worst
    OBVIOUS
  <2>6. x <= 0
    BY <2>2, <2>5
  <2>7. (e + x) * 1000 > -l + w
    BY <2>1, <2>2, <2>3, <2>4, <2>5 DEF DayOK
  <2>8. e * 1000 > -l + w
    BY <2>6, <2>7
  <2>9. PnlOn(d, Booked) = e
    BY <1>1, <2>3, DayIsEarned
  <2> QED
    BY <2>2, <2>4, <2>5, <2>8, <2>9
<1> QED
  BY <1>2 DEF DayLossBounded, Peak, Worst, Best

\* The breaker lets nothing in once a day's limit is reached: what a day's
\* recorded result falls short of it by is what the open positions could still
\* lose (rules/max_daily_loss.py), for every account in the scope.
THEOREM SpecDayLossBounded ==
  ASSUME DayLossScope
  PROVE  Spec => []DayLossBounded
<1>1. Init => RiskInv /\ DayLossInv
  BY RiskInit, DayInit
<1>2. RiskInv /\ DayLossInv /\ [Next]_vars => (RiskInv /\ DayLossInv)'
  BY RiskStep, DayStep
<1>3. RiskInv /\ DayLossInv => DayLossBounded
  BY BoundFollows
<1> QED
  BY <1>1, <1>2, <1>3, PTL DEF Spec

=============================================================================
