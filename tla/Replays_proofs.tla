---------------------------- MODULE Replays_proofs ----------------------------
(***************************************************************************)
(* Proofs about the two offline tools, for any candles, bars, signals,     *)
(* limits and rates that their assumptions allow.                          *)
(***************************************************************************)
EXTENDS MCReplays, IntegerLemmas

Positive == Nat \ {0}

\* What the assumption says of each constant.
LEMMA BacktestConstants ==
    /\ Symbols \in Seq(Pairs) /\ IsInjective(Symbols) /\ Len(Symbols) \in Nat
    /\ FirstOpen \in Positive /\ StartingEquity \in Positive /\ MinStopLoss \in Positive
    /\ DayLength \in Positive /\ MaxCandles \in Nat /\ CandleMinutes \in Nat
    /\ MaxOpenPositions \in Nat /\ Cooldown \in Nat /\ MinConfidence \in Nat
    /\ MinConfidenceScale \in Nat /\ RiskPerTrade \in Nat /\ MaxPosition \in Nat
    /\ MaxTotalExposure \in Nat
    /\ Fee \in 0 .. 1000 /\ MaxStopLoss \in MinStopLoss .. 1000 /\ HardLossCut \in Nat
    /\ Options \subseteq [llm : BOOLEAN, ignoreSwitch : BOOLEAN, compounding : BOOLEAN]
  BY BacktestAssumption, RubricAssumption, SMTT(30) DEF Positive

LEMMA CandleTypes ==
  ASSUME NEW group \in Candles, NEW s \in Pairs
  PROVE  /\ group[s] \in [high : Nat, low : Nat, close : Nat, gap : Nat, shape : MarketType]
         /\ group[s].low <= 1000 /\ group[s].high >= 1000
<1>1. /\ group[s] \in [high : Nat, low : Nat, close : Nat, gap : Nat, shape : MarketType]
      /\ group[s].low <= Min({1000, group[s].close})
      /\ group[s].high >= Max({1000, group[s].close})
  <2>1. \A g \in Candles : \A pair \in Pairs :
          /\ g[pair] \in [high : Nat, low : Nat, close : Nat, gap : Nat, shape : MarketType]
          /\ g[pair].low <= Min({1000, g[pair].close})
          /\ g[pair].high >= Max({1000, g[pair].close})
    BY BacktestAssumption, ZenonT(30)
  <2> HIDE DEF MarketType
  <2> QED
    BY <2>1
<1>2. PICK x \in Int, y \in Int, lo \in Int, hi \in Int :
        x = 1000 /\ y = group[s].close /\ lo = group[s].low /\ hi = group[s].high
  BY <1>1
<1>3. Min({x, y}) <= x /\ Max({x, y}) >= x
  <2>1. Max({x, y}) = (IF x >= y THEN x ELSE y) /\ Min({x, y}) = (IF x <= y THEN x ELSE y)
    BY PairClamps
  <2> QED
    BY <2>1
<1>4. Min({x, y}) \in Int /\ Max({x, y}) \in Int
  <2>1. Max({x, y}) = (IF x >= y THEN x ELSE y) /\ Min({x, y}) = (IF x <= y THEN x ELSE y)
    BY PairClamps
  <2> QED
    BY <2>1
<1>5. lo <= Min({x, y}) /\ hi >= Max({x, y})
  BY <1>1, <1>2
<1>6. lo <= x /\ hi >= x
  BY <1>3, <1>4, <1>5
<1> QED
  BY <1>1, <1>2, <1>6

LEMMA PairsFinite ==
    /\ IsFiniteSet(Pairs)
    /\ \A i \in 1 .. Len(Symbols) : Symbols[i] \in Pairs
    /\ \A s \in Pairs : \E i \in 1 .. Len(Symbols) : Symbols[i] = s
<1>1. DOMAIN Symbols = 1 .. Len(Symbols) /\ Len(Symbols) \in Nat
  BY BacktestConstants
<1>2. IsFiniteSet(1 .. Len(Symbols))
  BY <1>1, FS_Interval
<1>3. \A i \in 1 .. Len(Symbols) : Symbols[i] \in Pairs
  BY <1>1 DEF Pairs, Range
<1>4. \A s \in Pairs : \E i \in 1 .. Len(Symbols) : Symbols[i] = s
  BY <1>1 DEF Pairs, Range
<1>5. Symbols \in [1 .. Len(Symbols) -> Pairs]
  BY <1>1, BacktestConstants
<1>6. Symbols \in Surjection(1 .. Len(Symbols), Pairs)
  BY <1>4, <1>5 DEF Surjection
<1> QED
  BY <1>2, <1>3, <1>4, <1>6, FS_Surjection

-----------------------------------------------------------------------------
(* Prices.                                                                 *)

\* A price is positive, and the greater the rate the higher the price.
LEMMA PriceOrder ==
  ASSUME NEW price \in Positive, NEW low \in Nat, NEW high \in Nat, low <= high
  PROVE  /\ PriceAt(price, low) \in Positive /\ PriceAt(price, high) \in Positive
         /\ PriceAt(price, low) <= PriceAt(price, high)
         /\ PriceAt(price, 1000) = price
<1> DEFINE least == CHOOSE x \in Int : x = 1
<1>1. least \in Int /\ least = 1
  OBVIOUS
<1> HIDE DEF least
<1>2. \A x \in Int : Max({least, x}) = IF least >= x THEN least ELSE x
  BY <1>1, PairClamps
<1>3. PICK n \in Positive : n = 1000
  BY DEF Positive
<1>4. PICK a \in Nat, b \in Nat, c \in Nat : a = price * low /\ b = price * high /\ c = price * n
  BY <1>3 DEF Positive
<1>5. a <= b
  <2>1. price * (high - low) >= 0
    BY DEF Positive
  <2>2. price * (high - low) = price * high - price * low
    BY DEF Positive
  <2> QED
    BY <2>1, <2>2, <1>4
<1>6. a \div n \in Int /\ b \div n \in Int /\ a \div n <= b \div n
  BY <1>3, <1>5, DivisionMonotone DEF Positive
<1>7. c \div n = price
  BY <1>3, <1>4 DEF Positive
<1>8. /\ PriceAt(price, low) = Max({least, a \div n})
      /\ PriceAt(price, high) = Max({least, b \div n})
      /\ PriceAt(price, 1000) = Max({least, c \div n})
  BY <1>1, <1>3, <1>4 DEF PriceAt
<1>9. PICK p \in Int, q \in Int : p = a \div n /\ q = b \div n /\ p <= q
  BY <1>6
<1>10. Max({least, p}) = (IF least >= p THEN least ELSE p) /\ Max({least, q}) = (IF least >= q THEN least ELSE q)
  BY <1>2
<1>11. Max({least, price}) = price
  <2>1. price \in Int /\ price >= 1
    BY DEF Positive
  <2>2. Max({least, price}) = IF least >= price THEN least ELSE price
    BY <2>1, <1>2
  <2> QED
    BY <2>1, <2>2, <1>1
<1> QED
  BY <1>1, <1>7, <1>8, <1>9, <1>10, <1>11 DEF Positive

\* A position that earns nothing is worth nothing, none is worth less.
LEMMA PnlCovered ==
  ASSUME NEW p, p.stake \in Nat, p.entry \in Positive, NEW price \in Positive
  PROVE  Pnl(p, price) \in Int /\ Pnl(p, price) + p.stake >= 0
<1>1. PICK stake \in Nat, entry \in Positive, kept \in Nat, paid \in Positive :
        stake = p.stake /\ entry = p.entry /\ kept = 1000 - Fee /\ paid = 1000 + Fee
  BY BacktestConstants DEF Positive
<1>2. PICK x \in Nat, y \in Positive : x = stake * price * kept /\ y = entry * paid
  <2>1. stake * price \in Nat
    BY DEF Positive
  <2>2. stake * price * kept \in Nat
    BY <2>1
  <2>3. entry * paid \in Positive
    BY DEF Positive
  <2> QED
    BY <2>2, <2>3
<1>3. x \div y \in Int /\ x < y * (x \div y) + y
  BY Division DEF Positive
<1>4. PICK q \in Int : q = x \div y
  BY <1>3
<1>5. q >= 0
  <2> SUFFICES ASSUME q < 0 PROVE FALSE
    OBVIOUS
  <2>1. y * (q + 1) <= 0
    BY DEF Positive
  <2>2. y * (q + 1) = y * q + y
    BY DEF Positive
  <2> QED
    BY <2>1, <2>2, <1>3, <1>4 DEF Positive
<1>6. Pnl(p, price) = q - stake
  BY <1>1, <1>2, <1>4 DEF Pnl
<1> QED
  BY <1>1, <1>5, <1>6

-----------------------------------------------------------------------------
(* What is staked, and what the trades made.                               *)

StakeIn(tab) == [s \in DOMAIN tab |-> tab[s].stake]
Staked(tab) == Sum(StakeIn(tab), DOMAIN tab)

LEMMA ExposureIsSum == Exposure = Staked(ledger.positions)
<1> DEFINE S == Open
           pick(s) == CHOOSE x \in s : TRUE
           F == StakeIn(ledger.positions)
           Is(g) == g = [s \in SUBSET S |-> IF s = {} THEN 0
                                            ELSE ledger.positions[pick(s)].stake + g[s \ {pick(s)}]]
<1>1. Exposure = (CHOOSE g : Is(g))[S]
  BY DEF Exposure, MapThenSumSet, MapThenFoldSet
<1>2. \A s \in SUBSET S : s # {} => pick(s) \in S
  OBVIOUS
<1>3. \A g : Adds(F, S, g) <=> g = [s \in SUBSET S |-> IF s = {} THEN 0 ELSE F[pick(s)] + g[s \ {pick(s)}]]
  BY DEF Adds
<1> HIDE DEF pick
<1>4. \A s \in SUBSET S : s # {} => F[pick(s)] = ledger.positions[pick(s)].stake
  BY <1>2 DEF StakeIn, Open
<1> HIDE DEF F, S
<1>5. \A g : [s \in SUBSET S |-> IF s = {} THEN 0 ELSE F[pick(s)] + g[s \ {pick(s)}]]
             = [s \in SUBSET S |-> IF s = {} THEN 0 ELSE ledger.positions[pick(s)].stake + g[s \ {pick(s)}]]
  BY <1>4
<1>6. \A g : Adds(F, S, g) <=> Is(g)
  BY <1>3, <1>5
<1> HIDE DEF Is
<1>7. (CHOOSE g : Adds(F, S, g)) = (CHOOSE g : Is(g))
  BY <1>6
<1>8. S = DOMAIN ledger.positions
  BY DEF S, Open
<1> QED
  BY <1>1, <1>7, <1>8 DEF Sum, Staked, F

ResultIn(trades0) == [i \in DOMAIN trades0 |-> trades0[i].result]

LEMMA SumOfIsSum ==
  ASSUME NEW f
  PROVE  SumOf(f) = Sum(f, DOMAIN f)
<1> DEFINE S == DOMAIN f
           Is(g) == g = [s \in SUBSET S |-> IF s = {} THEN 0
                                            ELSE f[CHOOSE x \in s : TRUE] + g[s \ {CHOOSE x \in s : TRUE}]]
<1>1. SumOf(f) = (CHOOSE g : Is(g))[S]
  BY DEF SumOf, MapThenSumSet, MapThenFoldSet
<1>2. \A g : Adds(f, S, g) <=> Is(g)
  BY DEF Adds
<1> HIDE DEF Is
<1>3. (CHOOSE g : Adds(f, S, g)) = (CHOOSE g : Is(g))
  BY <1>2
<1> QED
  BY <1>1, <1>3 DEF Sum

LEMMA TotalPnlIsSum ==
  ASSUME NEW list \in Seq(Trade)
  PROVE  TotalPnl(list, DOMAIN list) = Sum(ResultIn(list), 1 .. Len(list))
<1>1. TotalPnl(list, DOMAIN list) = SumOf(ResultIn(list))
  BY DEF TotalPnl, ResultIn
<1>2. DOMAIN ResultIn(list) = 1 .. Len(list)
  BY DEF ResultIn
<1> QED
  BY <1>1, <1>2, SumOfIsSum

LEMMA TotalPnlAppend ==
  ASSUME NEW list \in Seq(Trade), NEW t \in Trade
  PROVE  TotalPnl(Append(list, t), DOMAIN Append(list, t)) = TotalPnl(list, DOMAIN list) + t.result
<1> DEFINE more == Append(list, t)
<1>a. PICK n \in Nat : n = Len(list)
  OBVIOUS
<1>1. more \in Seq(Trade) /\ Len(more) = n + 1
  BY <1>a
<1>2. /\ 1 .. n + 1 = (1 .. n) \cup {n + 1} /\ n + 1 \notin 1 .. n
      /\ IsFiniteSet(1 .. n)
  <2>1. 1 .. n + 1 = (1 .. n) \cup {n + 1} /\ n + 1 \notin 1 .. n
    OBVIOUS
  <2> QED
    BY <2>1, FS_Interval
<1>3. \A i \in 1 .. n + 1 : ResultIn(more)[i] \in Int
  <2> TAKE i \in 1 .. n + 1
  <2>1. more[i] \in Trade /\ i \in DOMAIN more
    BY <1>1, <1>a
  <2> QED
    BY <2>1 DEF ResultIn, Trade
<1>4. \A i \in 1 .. n : ResultIn(more)[i] = ResultIn(list)[i]
  <2> TAKE i \in 1 .. n
  <2>1. more[i] = list[i] /\ i \in DOMAIN more /\ i \in DOMAIN list
    BY <1>1, <1>a
  <2> QED
    BY <2>1 DEF ResultIn
<1>5. ResultIn(more)[n + 1] = t.result
  <2>1. more[n + 1] = t /\ n + 1 \in DOMAIN more
    BY <1>1, <1>a
  <2> QED
    BY <2>1 DEF ResultIn
<1>6. /\ TotalPnl(more, DOMAIN more) = Sum(ResultIn(more), 1 .. n + 1)
      /\ TotalPnl(list, DOMAIN list) = Sum(ResultIn(list), 1 .. n)
  BY <1>1, <1>a, TotalPnlIsSum
<1> HIDE DEF more
<1>7. Sum(ResultIn(more), (1 .. n) \cup {n + 1}) = Sum(ResultIn(more), 1 .. n) + ResultIn(more)[n + 1]
  <2>1. PICK S, e : S = 1 .. n /\ e = n + 1
    OBVIOUS
  <2>2. IsFiniteSet(S) /\ e \notin S /\ \A x \in S \cup {e} : ResultIn(more)[x] \in Int
    BY <2>1, <1>2, <1>3
  <2>3. Sum(ResultIn(more), S \cup {e}) = Sum(ResultIn(more), S) + ResultIn(more)[e]
    BY <2>2, SumAdd
  <2> QED
    BY <2>1, <2>3
<1>8. Sum(ResultIn(more), 1 .. n) = Sum(ResultIn(list), 1 .. n)
  BY <1>2, <1>4, SumSame
<1>9. TotalPnl(more, DOMAIN more) = TotalPnl(list, DOMAIN list) + t.result
  BY <1>2, <1>5, <1>6, <1>7, <1>8
<1> QED
  BY <1>9 DEF more

\* The table of the open positions, with what its arithmetic needs.
Held == [opened : 1 .. MaxCandles, entry : Positive, stake : Nat, peak : Positive, stop : Nat, risk : Nat]
Tables == UNION {[S -> Held] : S \in SUBSET Pairs}

LEMMA TableTypes ==
  ASSUME NEW tab \in Tables
  PROVE  /\ DOMAIN tab \in SUBSET Pairs /\ IsFiniteSet(DOMAIN tab)
         /\ \A s \in DOMAIN tab : tab[s] \in Held /\ StakeIn(tab)[s] = tab[s].stake /\ tab[s].stake \in Nat
         /\ Staked(tab) \in Nat
<1>1. DOMAIN tab \in SUBSET Pairs /\ \A s \in DOMAIN tab : tab[s] \in Held
  BY DEF Tables
<1>2. IsFiniteSet(DOMAIN tab)
  BY <1>1, PairsFinite, FS_Subset
<1>3. \A s \in DOMAIN tab : StakeIn(tab)[s] = tab[s].stake /\ tab[s].stake \in Nat
  BY <1>1 DEF StakeIn, Held
<1>4. Staked(tab) \in Nat
  BY <1>2, <1>3, SumNatural DEF Staked
<1> QED
  BY <1>1, <1>2, <1>3, <1>4

LEMMA TableRemove ==
  ASSUME NEW tab \in Tables, NEW s \in DOMAIN tab
  PROVE  /\ Without(tab, s) \in Tables
         /\ DOMAIN Without(tab, s) = DOMAIN tab \ {s}
         /\ \A x \in DOMAIN tab \ {s} : Without(tab, s)[x] = tab[x]
         /\ Staked(Without(tab, s)) = Staked(tab) - tab[s].stake
<1> DEFINE less == Without(tab, s)
           S == DOMAIN tab \ {s}
<1>1. less = [x \in S |-> tab[x]] /\ S \in SUBSET Pairs /\ \A x \in S : tab[x] \in Held
  BY TableTypes DEF Without
<1>2. less \in Tables /\ DOMAIN less = S /\ \A x \in S : less[x] = tab[x]
  BY <1>1 DEF Tables
<1> HIDE DEF less
<1>3. \A x \in S : StakeIn(less)[x] = StakeIn(tab)[x]
  BY <1>2, TableTypes
<1>4. Sum(StakeIn(less), S) = Sum(StakeIn(tab), S)
  <2>1. IsFiniteSet(S)
    BY TableTypes, FS_Subset
  <2> HIDE DEF S
  <2> QED
    BY <2>1, <1>3, SumSame
<1>5. Sum(StakeIn(tab), DOMAIN tab) = StakeIn(tab)[s] + Sum(StakeIn(tab), S)
  <2>1. IsFiniteSet(DOMAIN tab) /\ \A x \in DOMAIN tab : StakeIn(tab)[x] \in Int
    BY TableTypes
  <2> QED
    BY <2>1, SumRemove
<1>6. PICK a \in Int, b \in Int : a = Staked(tab) /\ b = tab[s].stake
  BY TableTypes
<1>7. PICK c \in Int : c = Sum(StakeIn(tab), S)
  <2>1. Staked(less) \in Nat /\ Staked(less) = Sum(StakeIn(tab), S)
    BY <1>2, <1>4, TableTypes DEF Staked
  <2> QED
    BY <2>1
<1>8. a = b + c
  BY <1>5, <1>6, <1>7, TableTypes DEF Staked
<1>9. Staked(less) = c
  BY <1>2, <1>4, <1>7 DEF Staked
<1>10. Staked(less) = Staked(tab) - tab[s].stake
  BY <1>6, <1>8, <1>9
<1> QED
  BY <1>2, <1>10 DEF less

LEMMA TableAdd ==
  ASSUME NEW tab \in Tables, NEW s \in Pairs, s \notin DOMAIN tab, NEW p \in Held
  PROVE  /\ With(tab, s, p) \in Tables
         /\ DOMAIN With(tab, s, p) = DOMAIN tab \cup {s}
         /\ \A x \in DOMAIN tab : With(tab, s, p)[x] = tab[x]
         /\ With(tab, s, p)[s] = p
         /\ Staked(With(tab, s, p)) = Staked(tab) + p.stake
<1> DEFINE more == With(tab, s, p)
           S == DOMAIN tab
<1>1. /\ more = [x \in S \cup {s} |-> IF x = s THEN p ELSE tab[x]]
      /\ S \cup {s} \in SUBSET Pairs /\ \A x \in S : tab[x] \in Held
  BY TableTypes DEF With
<1>2. /\ more \in [S \cup {s} -> Held] /\ DOMAIN more = S \cup {s}
      /\ more[s] = p /\ \A x \in S : more[x] = tab[x]
  BY <1>1
<1>a. more \in Tables
  BY <1>1, <1>2 DEF Tables
<1> HIDE DEF more
<1>3. \A x \in S : StakeIn(more)[x] = StakeIn(tab)[x]
  BY <1>2, <1>a, TableTypes
<1>4. Sum(StakeIn(more), S) = Sum(StakeIn(tab), S)
  <2>1. IsFiniteSet(S)
    BY TableTypes
  <2> HIDE DEF S
  <2> QED
    BY <2>1, <1>3, SumSame
<1>5. Sum(StakeIn(more), S \cup {s}) = Sum(StakeIn(more), S) + StakeIn(more)[s]
  <2>1. IsFiniteSet(S) /\ \A x \in S \cup {s} : StakeIn(more)[x] \in Int
    <3>1. IsFiniteSet(S)
      BY TableTypes
    <3>2. \A x \in DOMAIN more : StakeIn(more)[x] \in Int
      BY <1>a, TableTypes
    <3> QED
      BY <3>1, <3>2, <1>2
  <2> QED
    BY <2>1, SumAdd
<1>6. StakeIn(more)[s] = p.stake
  BY <1>2, <1>a, TableTypes
<1>7. Staked(more) = Staked(tab) + p.stake
  BY <1>2, <1>4, <1>5, <1>6 DEF Staked
<1> QED
  BY <1>2, <1>a, <1>7 DEF more

LEMMA TableUpdate ==
  ASSUME NEW tab \in Tables, NEW s \in DOMAIN tab, NEW p \in Held, p.stake = tab[s].stake
  PROVE  /\ [tab EXCEPT ![s] = p] \in Tables
         /\ Staked([tab EXCEPT ![s] = p]) = Staked(tab)
<1> DEFINE S == DOMAIN tab
<1>1. PICK new : new = [tab EXCEPT ![s] = p]
  OBVIOUS
<1>2. /\ new \in [S -> Held] /\ DOMAIN new = S /\ S \in SUBSET Pairs
      /\ \A x \in S : new[x].stake = tab[x].stake
  BY <1>1, TableTypes DEF Tables
<1>3. new \in Tables
  BY <1>2 DEF Tables
<1>4. \A x \in S : StakeIn(new)[x] = StakeIn(tab)[x]
  BY <1>2, <1>3, TableTypes
<1>5. Sum(StakeIn(new), S) = Sum(StakeIn(tab), S)
  <2>1. IsFiniteSet(S)
    BY TableTypes
  <2> HIDE DEF S
  <2> QED
    BY <2>1, <1>4, SumSame
<1> QED
  BY <1>1, <1>2, <1>3, <1>5 DEF Staked

-----------------------------------------------------------------------------
(* What the rules of the risk engine give the ledger.                      *)

LEMMA EngineExtremes == \A S : Engine!Max(S) = Max(S) /\ Engine!Min(S) = Min(S)
  BY DEF Engine!Max, Engine!Min, Max, Min

LEMMA EngineCounts == \A S : Engine!Cardinality(S) = Cardinality(S)
  BY DEF Engine!Cardinality, Engine!IsFiniteSet, Cardinality, IsFiniteSet

LEMMA StopInRange ==
  ASSUME NEW sig, sig.stop \in Int
  PROVE  Engine!StopDistance(sig) \in MinStopLoss .. MaxStopLoss /\ Engine!StopDistance(sig) \in Nat
<1>1. PICK x \in Int, low \in Positive, high \in Nat :
        x = sig.stop /\ low = MinStopLoss /\ high = MaxStopLoss /\ low <= high
  BY BacktestConstants DEF Positive
<1>2. Max({low, Min({x, high})}) \in low .. high
  BY <1>1, Clamped DEF Positive
<1>3. Engine!StopDistance(sig) = Max({MinStopLoss, Min({sig.stop, MaxStopLoss})})
  <2>1. Engine!StopDistance(sig) = Engine!Max({MinStopLoss, Engine!Min({sig.stop, MaxStopLoss})})
    BY DEF Engine!StopDistance
  <2> QED
    BY <2>1, EngineExtremes
<1>4. Engine!StopDistance(sig) \in low .. high
  BY <1>1, <1>2, <1>3
<1> QED
  BY <1>1, <1>4 DEF Positive

LEMMA ScaleNatural ==
  ASSUME NEW sig, sig.confidence \in Int
  PROVE  Engine!ConfidenceScale(sig.confidence) \in Nat
<1>1. CASE MinConfidence >= 1000
  BY <1>1 DEF Engine!ConfidenceScale
<1>2. CASE ~(MinConfidence >= 1000)
  <2>1. PICK c \in Int, low \in Nat, first \in Nat :
          c = sig.confidence /\ low = MinConfidence /\ first = MinConfidenceScale /\ low < 1000
    BY <1>2, BacktestConstants
  <2>2. PICK k \in Nat :
          /\ k = Engine!Max({0, Engine!Min({sig.confidence - MinConfidence, 1000 - MinConfidence})})
          /\ k <= 1000 - low
    <3>1. PICK d \in Int, n \in Nat, zero \in Int :
            d = sig.confidence - MinConfidence /\ n = 1000 - low /\ zero = 0
      BY <2>1
    <3>2. Max({zero, Min({d, n})}) \in zero .. n
      BY <3>1, Clamped
    <3>3. Engine!Max({zero, Engine!Min({d, n})}) = Max({zero, Min({d, n})})
      BY EngineExtremes
    <3> QED
      BY <2>1, <3>1, <3>2, <3>3
  <2>3. first + ((1000 - first) * k) \div (1000 - low) \in Nat
    BY <2>1, <2>2, ScaleIsNatural
  <2>4. Engine!ConfidenceScale(sig.confidence)
          = MinConfidenceScale + ((1000 - MinConfidenceScale) * k) \div (1000 - MinConfidence)
    BY <1>2, <2>2 DEF Engine!ConfidenceScale
  <2>5. Engine!ConfidenceScale(sig.confidence) = first + ((1000 - first) * k) \div (1000 - low)
    BY ONLY <2>1, <2>4
  <2> QED
    BY ONLY <2>3, <2>5
<1> QED
  BY <1>1, <1>2

LEMMA SizeNatural ==
  ASSUME NEW sig, sig.stop \in Int, sig.confidence \in Int,
         NEW acct, acct.equity \in Int, acct.free \in Int
  PROVE  Engine!Size(sig, acct) \in Nat
<1> DEFINE whole == Min({(acct.equity * RiskPerTrade) \div Engine!StopDistance(sig),
                         (acct.equity * MaxPosition) \div 1000, acct.free})
<1>1. PICK k \in Nat : k = Engine!ConfidenceScale(sig.confidence)
  BY ScaleNatural
<1>2. whole \in Int
  <2>1. PICK d \in Positive, x \in Int, y \in Int, free \in Int, n \in Positive :
          /\ d = Engine!StopDistance(sig) /\ x = acct.equity * RiskPerTrade
          /\ y = acct.equity * MaxPosition /\ free = acct.free /\ n = 1000
    BY StopInRange, BacktestConstants DEF Positive
  <2>2. PICK a \in Int, b \in Int : a = x \div d /\ b = y \div n
    BY Division DEF Positive
  <2>3. Min({a, b, free}) \in Int
    BY LeastOfThree
  <2> QED
    BY <2>1, <2>2, <2>3
<1>3. PICK m \in Nat : m = Max({whole, 0})
  <2>1. PICK w \in Int, zero \in Int : w = whole /\ zero = 0
    BY <1>2
  <2>2. Max({w, zero}) = IF w >= zero THEN w ELSE zero
    BY PairClamps
  <2> QED
    BY <2>1, <2>2
<1>4. Engine!Size(sig, acct) = (m * k) \div 1000
  <2>1. Engine!Size(sig, acct)
          = (Engine!Max({Engine!Min({(acct.equity * RiskPerTrade) \div Engine!StopDistance(sig),
                                     (acct.equity * MaxPosition) \div 1000, acct.free}), 0})
               * Engine!ConfidenceScale(sig.confidence)) \div 1000
    BY DEF Engine!Size
  <2>2. Engine!Size(sig, acct) = (Max({whole, 0}) * Engine!ConfidenceScale(sig.confidence)) \div 1000
    BY <2>1, EngineExtremes, ZenonT(30)
  <2> HIDE DEF whole
  <2> QED
    BY <2>2, <1>1, <1>3
<1> HIDE DEF whole
<1>5. PICK p \in Nat, n \in Positive : p = m * k /\ n = 1000
  BY DEF Positive
<1>6. p \div n \in Nat
  <2>1. p \div n \in Int /\ p < n * (p \div n) + n
    BY Division DEF Positive
  <2>2. PICK q \in Int : q = p \div n
    BY <2>1
  <2> QED
    BY <1>5, <2>1, <2>2
<1> QED
  BY <1>4, <1>5, <1>6

\* What an approved entry is known to satisfy.
LEMMA ApprovedEntry ==
  ASSUME NEW sig, NEW acct, Engine!Verdict(sig, acct) = "APPROVED"
  PROVE  /\ ~Engine!max_open_positions(sig, acct)
         /\ ~Engine!insufficient_balance(acct, Engine!Size(sig, acct))
<1> DEFINE bad(n) == Engine!Violated(Engine!RulesInOrder[n], sig, acct)
<1>1. ~\E i \in DOMAIN Engine!RulesInOrder : bad(i)
  BY DEF Engine!Verdict, Engine!RulesInOrder
<1>2. /\ 6 \in DOMAIN Engine!RulesInOrder /\ Engine!RulesInOrder[6] = "MAX_POSITIONS_REACHED"
      /\ 11 \in DOMAIN Engine!RulesInOrder /\ Engine!RulesInOrder[11] = "INSUFFICIENT_BALANCE"
  BY DEF Engine!RulesInOrder
<1>3. /\ ~Engine!Violated("MAX_POSITIONS_REACHED", sig, acct)
      /\ ~Engine!Violated("INSUFFICIENT_BALANCE", sig, acct)
  BY <1>1, <1>2
<1>4. ~Engine!max_open_positions(sig, acct)
  BY <1>3 DEF Engine!Violated
<1>5. ~Engine!insufficient_balance(acct, Engine!Size(sig, acct))
  BY <1>3 DEF Engine!Violated
<1> QED
  BY <1>4, <1>5

-----------------------------------------------------------------------------
(* The backtest's invariant.                                               *)

Quote == [open : Positive, high : Positive, low : Positive, close : Positive, next : Positive,
          shape : MarketType \cup {NoValue}]
Ledgers == [positions : Tables, trades : Seq(Trade), streak : Nat, tripped : BOOLEAN,
            realized : Int, lastClosed : [Pairs -> Int]]

\* The candles hold their open; a shape is known once the first has closed.
CandlesOK(c, at) ==
    /\ c \in [Pairs -> Quote]
    /\ \A s \in Pairs : c[s].low <= c[s].open /\ c[s].open <= c[s].high
    /\ at > 0 => \A s \in Pairs : c[s].shape \in MarketType

StageOK(st, at) ==
    /\ st \in [name : {"next", "exits", "decisions"}, turn : 0 .. Len(Symbols)]
    /\ at \in 0 .. MaxCandles
    /\ st.name # "next" => at > 0

LedgerOK(l, o, at) ==
    /\ l \in Ledgers
    /\ Cardinality(DOMAIN l.positions) <= MaxOpenPositions
    /\ \A s \in DOMAIN l.positions : l.positions[s].opened <= at
    /\ \A i \in 1 .. Len(l.trades) : l.trades[i].opened < l.trades[i].closed
    /\ l.realized = TotalPnl(l.trades, DOMAIN l.trades)
    /\ l.streak <= Len(l.trades)
    /\ o.compounding => StartingEquity + l.realized >= Staked(l.positions)

\* A position whose symbol has yet to be decided was opened by an earlier candle.
TurnsOK(l, st, at) ==
    \A i \in 1 .. Len(Symbols) :
        /\ Symbols[i] \in DOMAIN l.positions
        /\ st.name = "exits" \/ (st.name = "decisions" /\ i > st.turn)
        => l.positions[Symbols[i]].opened < at

\* The return of a position at the close of a candle.
Return(p, k) == ((k.close - p.entry) * 1000) \div p.entry

\* A position whose symbol has been decided is not beyond the cut.
CutsOK(l, o, st, at, c) ==
    \A i \in 1 .. Len(Symbols) :
        /\ ~o.llm /\ Symbols[i] \in DOMAIN l.positions
        /\ l.positions[Symbols[i]].opened < at
        /\ st.name = "next" \/ (st.name = "decisions" /\ i <= st.turn)
        => Return(l.positions[Symbols[i]], c[Symbols[i]]) > -HardLossCut

BacktestInv ==
    /\ options \in Options
    /\ CandlesOK(candle, clock)
    /\ StageOK(stage, clock)
    /\ LedgerOK(ledger, options, clock)
    /\ TurnsOK(ledger, stage, clock)
    /\ CutsOK(ledger, options, stage, clock, candle)

THEOREM BacktestInit == Init => BacktestInv
<1> SUFFICES ASSUME Init PROVE BacktestInv
  OBVIOUS
<1>1. options \in Options /\ StageOK(stage, clock)
  BY BacktestConstants DEF Init, StageOK
<1>2. CandlesOK(candle, clock)
  <2>1. candle = [s \in Pairs |-> [open |-> FirstOpen, high |-> FirstOpen, low |-> FirstOpen,
                                   close |-> FirstOpen, next |-> FirstOpen, shape |-> NoValue]]
        /\ clock = 0
    BY DEF Init
  <2>2. FirstOpen \in Positive /\ FirstOpen <= FirstOpen
    BY BacktestConstants DEF Positive
  <2> QED
    BY <2>1, <2>2 DEF CandlesOK, Quote
<1>3. PICK first : first = [s \in Pairs |-> -Cooldown]
  OBVIOUS
<1>4. ledger = [positions |-> <<>>, trades |-> <<>>, streak |-> 0, tripped |-> FALSE,
                realized |-> 0, lastClosed |-> first]
  BY <1>3 DEF Init
<1>5. PICK none : none = <<>> /\ DOMAIN none = {} /\ none \in Tables /\ none \in Seq(Trade) /\ Len(none) = 0
  <2>1. <<>> \in [{} -> Held] /\ DOMAIN <<>> = {}
    OBVIOUS
  <2>2. <<>> \in Tables
    BY <2>1 DEF Tables
  <2>3. <<>> \in Seq(Trade) /\ Len(<<>>) = 0
    OBVIOUS
  <2> QED
    BY <2>1, <2>2, <2>3
<1>6. TotalPnl(none, DOMAIN none) = 0 /\ Staked(none) = 0
  <2>1. TotalPnl(none, DOMAIN none) = Sum(ResultIn(none), 1 .. 0)
    BY <1>5, TotalPnlIsSum
  <2>2. IsFiniteSet({}) /\ 1 .. 0 = {}
    BY FS_EmptySet
  <2>3. Sum(ResultIn(none), {}) = 0 /\ Sum(StakeIn(none), {}) = 0
    BY <2>2, SumPicks
  <2> QED
    BY <1>5, <2>1, <2>2, <2>3 DEF Staked
<1>7. first \in [Pairs -> Int]
  BY <1>3, BacktestConstants
<1>8. LedgerOK(ledger, options, clock)
  <2>1. ledger \in Ledgers
    BY <1>4, <1>5, <1>7 DEF Ledgers
  <2>2. /\ ledger.positions = none /\ ledger.trades = none /\ ledger.streak = 0 /\ ledger.realized = 0
    BY <1>4, <1>5
  <2>3. Cardinality({}) = 0
    BY FS_EmptySet
  <2>4. StartingEquity + 0 >= 0
    BY BacktestConstants DEF Positive
  <2> QED
    BY <2>1, <2>2, <2>3, <2>4, <1>5, <1>6, BacktestConstants DEF LedgerOK
<1>9. ledger.positions = none
  BY <1>4, <1>5
<1> QED
  BY <1>1, <1>2, <1>5, <1>8, <1>9 DEF BacktestInv, TurnsOK, CutsOK

\* What the ledger and the journal keep of a trade that ends.
Closes(t) ==
    /\ ledger'.trades = Append(ledger.trades, t)
    /\ t.closed = clock
    /\ ledger'.streak = IF t.result < 0 THEN ledger.streak + 1 ELSE 0
    /\ ledger'.lastClosed = [ledger.lastClosed EXCEPT ![t.pair] = clock]
    /\ t.pair \in Open /\ t.opened = ledger.positions[t.pair].opened
    /\ DOMAIN ledger'.positions = Open \ {t.pair}
    /\ \A x \in Open \ {t.pair} : ledger'.positions[x] = ledger.positions[x]
    /\ t.result = 0 => t.r \in {0, NoValue}
    /\ journal' = IF options.llm THEN journal ELSE Carried(t.pair, t.opened)

\* A close leaves a ledger in order and adds one trade to the list.
LEMMA CloseKeeps ==
  ASSUME LedgerOK(ledger, options, clock), clock \in 1 .. MaxCandles, candle \in [Pairs -> Quote],
         NEW s \in Open, ledger.positions[s].opened < clock,
         NEW price \in Positive, NEW reason \in Reasons, RecordClose(s, price, reason)
  PROVE  /\ LedgerOK(ledger', options, clock)
         /\ DOMAIN ledger'.positions = Open \ {s}
         /\ \A x \in Open \ {s} : ledger'.positions[x] = ledger.positions[x]
         /\ \E t \in Trade : /\ Closes(t) /\ t.pair = s /\ t.exit = price /\ t.reason = reason
                             /\ t.entry = ledger.positions[s].entry
<1> DEFINE p == Seen(ledger.positions[s], candle[s])
<1>1. PICK tab \in Tables, list \in Seq(Trade), n \in Nat, sum \in Int :
        /\ tab = ledger.positions /\ list = ledger.trades /\ n = ledger.streak /\ sum = ledger.realized
  BY DEF LedgerOK, Ledgers
<1>2. s \in DOMAIN tab /\ s \in Pairs /\ tab[s] \in Held
  BY <1>1, TableTypes DEF Open
<1>3. p.stake = tab[s].stake /\ p.entry = tab[s].entry /\ p.opened = tab[s].opened /\ p.risk = tab[s].risk
  BY <1>1, <1>2 DEF Seen, Held
<1>4. PICK pnl \in Int : pnl = Pnl(p, price) /\ pnl + tab[s].stake >= 0
  BY <1>2, <1>3, PnlCovered DEF Held
<1>5. PICK r \in Int \cup {NoValue} :
        r = IF p.risk > 0 THEN (1000 * 1000 * pnl) \div p.risk ELSE NoValue
  <2>1. PICK x \in Int, risk \in Nat : x = 1000 * 1000 * pnl /\ risk = p.risk
    BY <1>2, <1>3 DEF Held
  <2>2. CASE risk > 0
    <3>1. PICK q : q = x \div risk
      OBVIOUS
    <3>2. q \in Int
      BY <2>2, <3>1, Division
    <3>3. (IF p.risk > 0 THEN (1000 * 1000 * pnl) \div p.risk ELSE NoValue) = q
      BY ONLY <2>1, <2>2, <3>1
    <3> QED
      BY ONLY <3>2, <3>3
  <2>3. CASE ~(risk > 0)
    <3>1. (IF p.risk > 0 THEN (1000 * 1000 * pnl) \div p.risk ELSE NoValue) = NoValue
      BY ONLY <2>1, <2>3
    <3> QED
      BY ONLY <3>1
  <2> QED
    BY ONLY <2>2, <2>3
<1> DEFINE t == [pair |-> s, opened |-> p.opened, closed |-> clock, entry |-> p.entry,
                 exit |-> price, result |-> pnl, r |-> r, reason |-> reason]
<1>b. pnl = 0 => r \in {0, NoValue}
  <2> SUFFICES ASSUME pnl = 0, p.risk > 0 PROVE r = 0
    BY <1>5
  <2>1. PICK risk \in Nat : risk = p.risk /\ risk > 0
    BY <1>2, <1>3 DEF Held
  <2>2. (1000 * 1000 * pnl) \div risk = 0
    <3>1. 0 \div risk = 0 /\ 1000 * 1000 * pnl = 0
      BY <2>1
    <3> QED
      BY <3>1
  <2> QED
    BY <1>5, <2>1, <2>2
<1>6. t \in Trade /\ t.opened < t.closed /\ t.result = pnl
  <2>1. p.opened \in 1 .. MaxCandles /\ p.entry \in Nat /\ price \in Nat
    BY <1>2, <1>3 DEF Held, Positive
  <2>2. p.opened < clock
    BY <1>1, <1>3
  <2> HIDE DEF p
  <2> QED
    BY <2>1, <2>2, <1>2 DEF Trade
<1>7. PICK k \in Nat : /\ k = NextStreak(pnl, reason) /\ k <= n + 1
                      /\ k = IF pnl < 0 THEN n + 1 ELSE 0
  BY <1>1 DEF NextStreak
<1>8. PICK last \in [Pairs -> Int] : last = [ledger.lastClosed EXCEPT ![s] = clock]
  <2>1. PICK f \in [Pairs -> Int] : f = ledger.lastClosed
    BY DEF LedgerOK, Ledgers
  <2>2. clock \in Int
    OBVIOUS
  <2>3. [f EXCEPT ![s] = clock] \in [Pairs -> Int]
    BY <2>2
  <2> QED
    BY <2>1, <2>3
<1>9. ledger' = [ledger EXCEPT !.positions = Without(tab, s), !.trades = Append(list, t),
                               !.realized = sum + pnl, !.lastClosed = last, !.streak = k]
  BY <1>1, <1>4, <1>5, <1>7, <1>8 DEF RecordClose
<1>10. PICK new : new = t
  OBVIOUS
<1>11. /\ new \in Trade /\ new.opened < new.closed /\ new.result = pnl
       /\ new.pair = s /\ new.exit = price /\ new.reason = reason /\ new.entry = tab[s].entry
       /\ new.closed = clock /\ new.opened = tab[s].opened /\ new.r = r
  BY <1>3, <1>6, <1>10
<1>c. journal' = IF options.llm THEN journal ELSE Carried(new.pair, new.opened)
  <2>1. journal' = IF options.llm THEN journal ELSE Carried(s, p.opened)
    BY DEF RecordClose
  <2> QED
    BY <2>1, <1>3, <1>11
<1> HIDE DEF t, p
<1>12. /\ Without(tab, s) \in Tables /\ DOMAIN Without(tab, s) = DOMAIN tab \ {s}
       /\ \A x \in DOMAIN tab \ {s} : Without(tab, s)[x] = tab[x]
       /\ Staked(Without(tab, s)) = Staked(tab) - tab[s].stake
  BY <1>1, <1>2, TableRemove
<1>13. PICK less \in Tables : less = Without(tab, s)
  BY <1>12
<1>14. PICK more \in Seq(Trade) : more = Append(list, new)
  <2> HIDE DEF Trade
  <2>1. Append(list, new) \in Seq(Trade)
    BY <1>11
  <2> QED
    BY <2>1
<1>15. PICK l : l = ledger'
  OBVIOUS
<1>16. /\ l \in Ledgers /\ l.positions = less /\ l.trades = more /\ l.realized = sum + pnl /\ l.streak = k
       /\ l.lastClosed = last
  <2>1. l = [ledger EXCEPT !.positions = less, !.trades = more, !.realized = sum + pnl,
                           !.lastClosed = last, !.streak = k]
    BY <1>9, <1>10, <1>13, <1>14, <1>15
  <2>2. PICK old : old = ledger /\ old \in Ledgers
    BY DEF LedgerOK
  <2>3. sum + pnl \in Int
    OBVIOUS
  <2>4. PICK made \in Int : made = sum + pnl
    BY <2>3
  <2>5. l = [old EXCEPT !.positions = less, !.trades = more, !.realized = made,
                        !.lastClosed = last, !.streak = k]
    BY <2>1, <2>2, <2>4
  <2> HIDE DEF Tables, Trade
  <2>6. /\ l.positions = less /\ l.trades = more /\ l.realized = made /\ l.streak = k
        /\ l.lastClosed = last /\ l \in Ledgers
    BY ONLY <2>2, <2>5, less \in Tables, more \in Seq(Trade), made \in Int, last \in [Pairs -> Int],
            k \in Nat DEF Ledgers
  <2> QED
    BY <2>4, <2>6
<1>17. LedgerOK(l, options, clock)
  <2>1. Cardinality(DOMAIN less) <= MaxOpenPositions
    <3>1. IsFiniteSet(DOMAIN tab) /\ Cardinality(DOMAIN tab) <= MaxOpenPositions
      BY <1>1, TableTypes DEF LedgerOK
    <3>2. Cardinality(DOMAIN tab \ {s}) = Cardinality(DOMAIN tab) - 1 /\ Cardinality(DOMAIN tab) \in Nat
      BY <3>1, <1>2, FS_RemoveElement, FS_CardinalityType
    <3> QED
      BY <3>1, <3>2, <1>12, <1>13, BacktestConstants
  <2>2. \A x \in DOMAIN less : less[x].opened <= clock
    BY <1>1, <1>12, <1>13 DEF LedgerOK
  <2>3. \A i \in 1 .. Len(more) : more[i].opened < more[i].closed
    <3> TAKE i \in 1 .. Len(more)
    <3>1. CASE i = Len(list) + 1
      BY <3>1, <1>11, <1>14
    <3>2. CASE i # Len(list) + 1
      <4>1. i \in 1 .. Len(list) /\ more[i] = list[i]
        BY <3>2, <1>14
      <4> QED
        BY <4>1, <1>1 DEF LedgerOK
    <3> QED
      BY <3>1, <3>2
  <2>4. sum + pnl = TotalPnl(more, DOMAIN more)
    <3>1. TotalPnl(Append(list, new), DOMAIN Append(list, new)) = TotalPnl(list, DOMAIN list) + new.result
      BY <1>11, TotalPnlAppend
    <3>2. sum = TotalPnl(list, DOMAIN list)
      BY <1>1 DEF LedgerOK
    <3> QED
      BY <3>1, <3>2, <1>11, <1>14
  <2>5. k <= Len(more)
    <3>1. n <= Len(list) /\ Len(more) = Len(list) + 1 /\ Len(list) \in Nat
      BY <1>1, <1>14 DEF LedgerOK
    <3> QED
      BY <3>1, <1>7
  <2>6. options.compounding => StartingEquity + (sum + pnl) >= Staked(less)
    <3>1. PICK a \in Int, b \in Int, e \in Int : a = Staked(tab) /\ b = tab[s].stake /\ e = StartingEquity
      BY <1>2, TableTypes, BacktestConstants, SMTT(30) DEF Positive
    <3>2. options.compounding => e + sum >= a
      BY <3>1, <1>1 DEF LedgerOK
    <3>3. Staked(less) = a - b
      BY <3>1, <1>12, <1>13
    <3>4. e + (sum + pnl) >= a - b <=> StartingEquity + (sum + pnl) >= Staked(less)
      BY ONLY <3>1, <3>3
    <3>5. pnl + b >= 0
      BY <3>1, <1>4
    <3>6. options.compounding => e + (sum + pnl) >= a - b
      BY <3>2, <3>5
    <3> QED
      BY ONLY <3>4, <3>6
  <2> QED
    BY <2>1, <2>2, <2>3, <2>4, <2>5, <2>6, <1>16 DEF LedgerOK
<1>18. Open = DOMAIN tab
  BY <1>1 DEF Open
<1>19. DOMAIN l.positions = Open \ {s} /\ \A x \in Open \ {s} : l.positions[x] = ledger.positions[x]
  BY <1>1, <1>12, <1>13, <1>16, <1>18
<1>20. l.lastClosed = [ledger.lastClosed EXCEPT ![s] = clock]
  BY <1>8, <1>16
<1>21. l.trades = Append(ledger.trades, new) /\ new.entry = ledger.positions[s].entry
  BY <1>1, <1>11, <1>14, <1>16
<1>22. l.streak = IF new.result < 0 THEN ledger.streak + 1 ELSE 0
  BY <1>1, <1>7, <1>11, <1>16
<1>23. Closes(new)
  <2>1. new.opened = ledger.positions[new.pair].opened /\ new.pair \in Open
    BY <1>1, <1>11
  <2>2. new.result = 0 => new.r \in {0, NoValue}
    BY <1>b, <1>11
  <2>3. /\ DOMAIN ledger'.positions = Open \ {new.pair}
        /\ \A x \in Open \ {new.pair} : ledger'.positions[x] = ledger.positions[x]
    BY <1>11, <1>15, <1>19
  <2> QED
    BY <1>11, <1>c, <1>15, <1>20, <1>21, <1>22, <2>1, <2>2, <2>3 DEF Closes
<1> QED
  BY <1>11, <1>15, <1>17, <1>19, <1>21, <1>23

-----------------------------------------------------------------------------
(* Freqtrade's own exits.                                                  *)

LEMMA SeenHeld ==
  ASSUME NEW p \in Held, NEW k \in Quote
  PROVE  /\ Seen(p, k) \in Held
         /\ Seen(p, k).stake = p.stake /\ Seen(p, k).entry = p.entry
         /\ Seen(p, k).opened = p.opened
<1>1. PICK x \in Positive, y \in Positive : x = p.peak /\ y = k.high
  BY DEF Held, Quote
<1>2. PICK m \in Positive : m = Max({x, y})
  <2>1. Max({x, y}) = IF x >= y THEN x ELSE y
    BY PairClamps DEF Positive
  <2> QED
    BY <2>1
<1>3. Seen(p, k) = [p EXCEPT !.peak = m]
  BY <1>1, <1>2 DEF Seen
<1> QED
  BY <1>3 DEF Held

\* The rates that the exits compare with, of a price or of a peak.
LEMMA StopTypes ==
  ASSUME NEW p \in Held
  PROVE  /\ (p.entry * 920) \div 1000 \in Int /\ TrailingStop(p) \in Int /\ StaticStop(p) \in Int
         /\ (p.entry * 920) \div 1000 <= StaticStop(p) /\ (p.entry * 920) \div 1000 <= p.entry
         /\ Trails(p) => TrailingStop(p) >= p.entry
<1>1. PICK e \in Int, peak \in Int, stop \in Int, n \in Positive :
        e = p.entry /\ peak = p.peak /\ stop = p.stop /\ n = 1000 /\ e > 0
  BY DEF Held, Positive
<1>2. PICK x \in Int, y \in Int, z \in Int, w \in Int :
        x = e * 920 /\ y = peak * 985 /\ z = e * 1000 /\ w = e * n
  BY <1>1
<1>3. PICK a \in Int, b \in Int : a = x \div n /\ b = y \div n /\ a <= e /\ (z <= y => e <= b)
  <2>1. x <= z /\ z = w
    BY <1>1, <1>2
  <2>2. x \div n \in Int /\ z \div n \in Int /\ y \div n \in Int
    BY Division DEF Positive
  <2>3. x \div n <= z \div n
    BY <2>1, DivisionMonotone DEF Positive
  <2>4. z <= y => z \div n <= y \div n
    BY DivisionMonotone DEF Positive
  <2>5. z \div n = e
    BY <1>1, <1>2, <2>1 DEF Positive
  <2> QED
    BY <2>2, <2>3, <2>4, <2>5
<1>4. Max({stop, a}) \in Int /\ a <= Max({stop, a})
  <2>1. Max({stop, a}) = IF stop >= a THEN stop ELSE a
    BY PairClamps
  <2> QED
    BY <2>1
<1>5. (p.entry * 920) \div 1000 = a /\ TrailingStop(p) = b /\ StaticStop(p) = Max({stop, a})
  <2>1. (p.entry * 920) \div 1000 = a
    BY <1>1, <1>2, <1>3
  <2>2. TrailingStop(p) = b
    BY <1>1, <1>2, <1>3 DEF TrailingStop
  <2> QED
    BY <2>1, <2>2, <1>1 DEF StaticStop
<1>6. Trails(p) => z <= y
  <2>1. Trails(p) <=> (peak - e) * 1000 >= 20 * e
    BY <1>1 DEF Trails
  <2> QED
    BY <2>1, <1>1, <1>2
<1> QED
  BY <1>1, <1>3, <1>4, <1>5, <1>6

\* A stop is filled at a price of the candle, and below what it promises only
\* where the candle opened.
LEMMA StopFillReal ==
  ASSUME NEW p \in Held, NEW k \in Quote, k.low <= k.open, k.open <= k.high, k.low <= StopPrice(p)
  PROVE  /\ StopFill(p, k) \in Positive /\ StopFill(p, k) \in k.low .. k.high
         /\ StopFill(p, k) < (p.entry * 920) \div 1000 => StopFill(p, k) = k.open
         /\ TrailingHolds(p) /\ StopFill(p, k) < p.entry => StopFill(p, k) = k.open
<1>1. PICK static \in Int, trailing \in Int, floor \in Int, e \in Int :
        /\ static = StaticStop(p) /\ trailing = TrailingStop(p)
        /\ floor = (p.entry * 920) \div 1000 /\ e = p.entry
        /\ floor <= static /\ (Trails(p) => trailing >= e)
  BY StopTypes DEF Held, Positive
<1>2. PICK stop \in Int : /\ stop = StopPrice(p) /\ floor <= stop
                          /\ TrailingHolds(p) => stop >= e
  <2>1. CASE TrailingHolds(p)
    <3>1. StopPrice(p) = trailing /\ Trails(p) /\ trailing > static
      BY <2>1, <1>1 DEF StopPrice, TrailingHolds
    <3> QED
      BY <3>1, <1>1
  <2>2. CASE ~TrailingHolds(p)
    <3>1. StopPrice(p) = static
      BY <2>2, <1>1 DEF StopPrice
    <3> QED
      BY <2>2, <3>1, <1>1
  <2> QED
    BY <2>1, <2>2
<1>3. PICK open \in Positive, low \in Positive, high \in Positive :
        open = k.open /\ low = k.low /\ high = k.high
  BY DEF Quote
<1>4. StopFill(p, k) = IF open <= stop THEN open ELSE stop
  <2>1. Min({open, stop}) = IF open <= stop THEN open ELSE stop
    <3>1. open \in Int
      BY DEF Positive
    <3> QED
      BY <3>1, PairClamps
  <2>2. StopFill(p, k) = Min({open, stop})
    BY <1>2, <1>3 DEF StopFill
  <2> QED
    BY <2>1, <2>2
<1>5. low <= open /\ open <= high /\ low <= stop
  BY <1>2, <1>3
<1> QED
  BY <1>1, <1>2, <1>3, <1>4, <1>5 DEF Positive

LEMMA RoiIsNatural ==
  ASSUME NEW minutes \in Nat
  PROVE  RoiAfter(minutes) \in Nat
<1> DEFINE marks == {mark \in RoiMarks : mark <= minutes}
<1>1. IsFiniteSet(marks) /\ marks \in SUBSET Int /\ marks # {}
  <2>1. PICK a \in Int, b \in Int : a = 0 /\ b = 5760
    OBVIOUS
  <2>2. IsFiniteSet(a .. b)
    BY FS_Interval
  <2>3. PICK S : S = RoiMarks /\ S \in SUBSET (a .. b)
    <3>1. \A x \in RoiMarks : x \in Int /\ 0 <= x /\ x <= 5760
      BY DEF RoiMarks
    <3>2. ASSUME NEW x \in RoiMarks PROVE x \in a .. b
      <4>1. x \in Int /\ a <= x /\ x <= b
        BY <2>1, <3>1
      <4> QED
        BY <4>1
    <3>3. RoiMarks \in SUBSET (a .. b)
      BY <3>2
    <3> QED
      BY <3>3
  <2>4. PICK T \in SUBSET S : T = marks
    BY <2>3
  <2>5. IsFiniteSet(T)
    BY <2>2, <2>3, FS_Subset
  <2>6. 0 \in T
    BY <2>4 DEF RoiMarks
  <2>7. T \in SUBSET Int
    BY <2>3
  <2> QED
    BY <2>4, <2>5, <2>6, <2>7
<1>2. Max(marks) \in marks
  BY <1>1, GreatestInteger
<1>3. \A mark \in RoiMarks : Roi(mark) \in Nat
  BY DEF RoiMarks, Roi
<1> QED
  BY <1>2, <1>3 DEF RoiAfter

\* The return of the table is taken at a price of the candle, never at a loss.
LEMMA RoiFillReal ==
  ASSUME NEW p \in Held, p.opened <= clock, clock \in Nat,
         NEW k \in Quote, k.low <= k.open, k.open <= k.high, k.high >= RoiPrice(p)
  PROVE  /\ RoiFill(p, k) \in Positive /\ RoiFill(p, k) \in k.low .. k.high
         /\ RoiFill(p, k) >= p.entry /\ RoiFill(p, k) >= (p.entry * 920) \div 1000
<1>1. PICK e \in Int, floor \in Int :
        e = p.entry /\ e > 0 /\ floor = (p.entry * 920) \div 1000 /\ floor <= e
  BY StopTypes DEF Held, Positive
<1>2. PICK roi \in Nat : roi = RoiAfter((clock - p.opened) * CandleMinutes)
  <2>1. PICK age \in Nat : age = clock - p.opened
    BY DEF Held
  <2>2. age * CandleMinutes \in Nat
    BY BacktestConstants
  <2> QED
    BY <2>1, <2>2, RoiIsNatural
<1>3. PICK n \in Positive, x \in Int, y \in Int : n = 1000 /\ x = e * (1000 + roi) /\ y = e * n
  BY DEF Positive
<1>4. x >= y
  <2>1. e * roi >= 0
    BY <1>1
  <2>2. x = e * 1000 + e * roi
    BY <1>3
  <2> QED
    BY <2>1, <2>2, <1>3
<1>5. PICK roiPrice \in Int : roiPrice = RoiPrice(p) /\ roiPrice >= e
  <2>1. x \div n \in Int /\ y \div n \in Int /\ y \div n <= x \div n
    BY <1>4, DivisionMonotone DEF Positive
  <2>2. y \div n = e
    BY <1>3 DEF Positive
  <2>3. RoiPrice(p) = x \div n
    BY <1>1, <1>2, <1>3 DEF RoiPrice
  <2> QED
    BY <2>1, <2>2, <2>3
<1>6. PICK open \in Positive, low \in Positive, high \in Positive :
        open = k.open /\ low = k.low /\ high = k.high
  BY DEF Quote
<1>7. RoiFill(p, k) = IF open >= roiPrice THEN open ELSE roiPrice
  <2>1. Max({open, roiPrice}) = IF open >= roiPrice THEN open ELSE roiPrice
    BY PairClamps DEF Positive
  <2>2. RoiFill(p, k) = Max({open, roiPrice})
    BY <1>5, <1>6 DEF RoiFill
  <2> QED
    BY <2>1, <2>2
<1>8. low <= open /\ open <= high /\ high >= roiPrice
  BY <1>5, <1>6
<1> QED
  BY <1>1, <1>5, <1>6, <1>7, <1>8 DEF Positive

-----------------------------------------------------------------------------
(* One symbol's turn.                                                      *)

LEMMA TurnFacts ==
  ASSUME BacktestInv, NEW name \in {"exits", "decisions"}, Turn(name)
  PROVE  /\ stage.name = name /\ stage.turn \in Nat /\ stage.turn + 1 \in 1 .. Len(Symbols)
         /\ Current = Symbols[stage.turn + 1] /\ Current \in Pairs
         /\ \A i \in 1 .. Len(Symbols) : Symbols[i] = Current => i = stage.turn + 1
         /\ clock \in 1 .. MaxCandles /\ candle \in [Pairs -> Quote]
         /\ candle[Current].low <= candle[Current].open
         /\ candle[Current].open <= candle[Current].high
         /\ candle[Current].shape \in MarketType
         /\ Current \in Open => /\ ledger.positions[Current] \in Held
                                /\ ledger.positions[Current].opened < clock
<1>1. /\ stage.name = name /\ stage.turn \in 0 .. Len(Symbols) /\ stage.turn < Len(Symbols)
      /\ clock \in 0 .. MaxCandles /\ clock > 0
  BY DEF BacktestInv, StageOK, Turn
<1>2. stage.turn \in Nat /\ stage.turn + 1 \in 1 .. Len(Symbols) /\ Len(Symbols) \in Nat
  BY <1>1, BacktestConstants
<1>3. clock \in 1 .. MaxCandles
  BY <1>1, BacktestConstants
<1>4. PICK n \in 1 .. Len(Symbols) : n = stage.turn + 1
  BY <1>2
<1>5. Current = Symbols[n] /\ Current \in Pairs
  BY <1>4, PairsFinite DEF Current
<1>6. \A i \in 1 .. Len(Symbols) : Symbols[i] = Symbols[n] => i = n
  <2>1. DOMAIN Symbols = 1 .. Len(Symbols)
    BY BacktestConstants
  <2>2. \A i, j \in DOMAIN Symbols : Symbols[i] = Symbols[j] => i = j
    BY BacktestConstants DEF IsInjective
  <2> QED
    BY <2>1, <2>2
<1>7. /\ candle \in [Pairs -> Quote] /\ candle[Current].low <= candle[Current].open
      /\ candle[Current].open <= candle[Current].high /\ candle[Current].shape \in MarketType
  BY <1>1, <1>5 DEF BacktestInv, CandlesOK
<1>8. ASSUME Current \in Open
      PROVE  ledger.positions[Current] \in Held /\ ledger.positions[Current].opened < clock
  <2>1. ledger.positions \in Tables
    BY DEF BacktestInv, LedgerOK, Ledgers
  <2>2. ledger.positions[Current] \in Held
    BY <1>8, <2>1, TableTypes DEF Open
  <2>3. n > stage.turn
    BY <1>2, <1>4
  <2>4. ledger.positions[Symbols[n]].opened < clock
    BY <1>1, <1>5, <1>8, <2>3 DEF BacktestInv, TurnsOK, Open
  <2> QED
    BY <1>5, <2>2, <2>4
<1> QED
  BY <1>1, <1>2, <1>3, <1>4, <1>5, <1>6, <1>7, <1>8

\* A turn that leaves the ledger in order, the other symbols alone, and its own
\* symbol as the invariant asks, keeps the invariant.
LEMMA TurnKeeps ==
  ASSUME BacktestInv, NEW name \in {"exits", "decisions"}, Turn(name), NextTurn,
         UNCHANGED <<options, clock, candle>>,
         LedgerOK(ledger', options, clock),
         \A x \in DOMAIN ledger'.positions :
            x # Current => x \in Open /\ ledger'.positions[x] = ledger.positions[x],
         Current \in DOMAIN ledger'.positions =>
            IF name = "exits" THEN ledger'.positions[Current].opened < clock
            ELSE ~options.llm /\ ledger'.positions[Current].opened < clock
                   => Return(ledger'.positions[Current], candle[Current]) > -HardLossCut
  PROVE  BacktestInv'
<1>a. PICK l, st : l = ledger' /\ st = stage'
  OBVIOUS
<1>b. PICK n \in 1 .. Len(Symbols) : n = stage.turn + 1
  BY TurnFacts
<1>1. l = ledger' /\ st = stage' /\ n = stage.turn + 1
  BY <1>a, <1>b
<1>2. stage.name = name /\ stage.turn \in Nat /\ Len(Symbols) \in Nat
  BY TurnFacts, BacktestConstants
<1>3. st = [stage EXCEPT !.turn = stage.turn + 1] /\ StageOK(stage, clock)
  BY <1>1 DEF NextTurn, BacktestInv
<1>4. st.name = name /\ st.turn = n /\ StageOK(st, clock)
  BY <1>1, <1>2, <1>3 DEF StageOK
<1>5. TurnsOK(l, st, clock)
  <2> SUFFICES ASSUME NEW i \in 1 .. Len(Symbols), Symbols[i] \in DOMAIN l.positions,
                      st.name = "exits" \/ (st.name = "decisions" /\ i > st.turn)
               PROVE  l.positions[Symbols[i]].opened < clock
    BY DEF TurnsOK
  <2>1. CASE Symbols[i] = Current
    <3>1. i = n
      BY <2>1, <1>1, TurnFacts
    <3>2. name = "exits"
      BY <3>1, <1>4
    <3> QED
      BY <2>1, <3>2, <1>1
  <2>2. CASE Symbols[i] # Current
    <3>1. Symbols[i] \in Open /\ l.positions[Symbols[i]] = ledger.positions[Symbols[i]]
      BY <2>2, <1>1
    <3>2. stage.name = "exits" \/ (stage.name = "decisions" /\ i > stage.turn)
      BY <1>1, <1>2, <1>4
    <3>3. ledger.positions[Symbols[i]].opened < clock
      BY <3>1, <3>2 DEF BacktestInv, TurnsOK, Open
    <3> QED
      BY <3>1, <3>3
  <2> QED
    BY <2>1, <2>2
<1>6. CutsOK(l, options, st, clock, candle)
  <2> SUFFICES ASSUME NEW i \in 1 .. Len(Symbols), ~options.llm, Symbols[i] \in DOMAIN l.positions,
                      l.positions[Symbols[i]].opened < clock,
                      st.name = "next" \/ (st.name = "decisions" /\ i <= st.turn)
               PROVE  Return(l.positions[Symbols[i]], candle[Symbols[i]]) > -HardLossCut
    BY DEF CutsOK
  <2>1. name = "decisions" /\ i <= n
    BY <1>4
  <2>2. CASE Symbols[i] = Current
    BY <2>1, <2>2, <1>1
  <2>3. CASE Symbols[i] # Current
    <3>1. Symbols[i] \in Open /\ l.positions[Symbols[i]] = ledger.positions[Symbols[i]]
      BY <2>3, <1>1
    <3>2. i <= stage.turn
      <4>1. i # n
        BY <2>3, <1>1, TurnFacts
      <4> QED
        BY <4>1, <2>1, <1>1, <1>2
    <3>3. Return(ledger.positions[Symbols[i]], candle[Symbols[i]]) > -HardLossCut
      BY <3>1, <3>2, <2>1, <1>2 DEF BacktestInv, CutsOK, Open
    <3> QED
      BY <3>1, <3>3
  <2> QED
    BY <2>2, <2>3
<1>7. options' = options /\ clock' = clock /\ candle' = candle
  OBVIOUS
<1>8. LedgerOK(l, options, clock) /\ options \in Options /\ CandlesOK(candle, clock)
  BY <1>1 DEF BacktestInv
<1> QED
  BY <1>1, <1>4, <1>5, <1>6, <1>7, <1>8 DEF BacktestInv

LEMMA CloseTurnKeeps ==
  ASSUME BacktestInv, NEW name \in {"exits", "decisions"}, Turn(name), NextTurn,
         UNCHANGED <<options, clock, candle>>, Current \in Open,
         NEW price \in Positive, NEW reason \in Reasons, RecordClose(Current, price, reason)
  PROVE  BacktestInv' /\ \E t \in Trade : Closes(t)
<1>1. LedgerOK(ledger, options, clock)
  BY DEF BacktestInv
<1>2. /\ clock \in 1 .. MaxCandles /\ candle \in [Pairs -> Quote]
      /\ ledger.positions[Current].opened < clock
  BY TurnFacts
<1>3. /\ LedgerOK(ledger', options, clock)
      /\ DOMAIN ledger'.positions = Open \ {Current}
      /\ \A x \in Open \ {Current} : ledger'.positions[x] = ledger.positions[x]
      /\ \E t \in Trade : Closes(t)
  BY <1>1, <1>2, CloseKeeps
<1>4. BacktestInv'
  BY <1>3, TurnKeeps
<1> QED
  BY <1>3, <1>4

\* The exit of a stop and of the return table, each at its fill.
LEMMA StopExitTurn ==
  ASSUME BacktestInv, StopExit
  PROVE  /\ BacktestInv'
         /\ \E t \in Trade :
              /\ Closes(t) /\ t.pair = Current
              /\ t.exit \in candle[Current].low .. candle[Current].high
              /\ t.exit < (t.entry * 920) \div 1000 => t.exit = candle[Current].open
              /\ t.reason = "trailing_stop" /\ t.exit < t.entry => t.exit = candle[Current].open
              /\ t.reason # "minimal_roi"
<1> DEFINE k == candle[Current]
           p == Seen(ledger.positions[Current], k)
           reason == IF TrailingHolds(p) THEN "trailing_stop" ELSE "atr_stoploss"
<1>1. /\ Turn("exits") /\ NextTurn /\ UNCHANGED <<options, clock, candle>> /\ Current \in Open
      /\ k.low <= StopPrice(p) /\ RecordClose(Current, StopFill(p, k), reason)
  BY DEF StopExit
<1>2. /\ Current \in Pairs /\ k \in Quote /\ k.low <= k.open /\ k.open <= k.high
      /\ ledger.positions[Current] \in Held /\ ledger.positions[Current].opened < clock
      /\ clock \in 1 .. MaxCandles /\ candle \in [Pairs -> Quote]
  BY <1>1, TurnFacts
<1>3. p \in Held /\ p.entry = ledger.positions[Current].entry
  BY <1>2, SeenHeld
<1>4. reason \in Reasons /\ (reason = "trailing_stop" => TrailingHolds(p)) /\ reason # "minimal_roi"
  BY DEF Reasons
<1> HIDE DEF p, reason
<1>5. /\ StopFill(p, k) \in Positive /\ StopFill(p, k) \in k.low .. k.high
      /\ StopFill(p, k) < (p.entry * 920) \div 1000 => StopFill(p, k) = k.open
      /\ TrailingHolds(p) /\ StopFill(p, k) < p.entry => StopFill(p, k) = k.open
  BY <1>1, <1>2, <1>3, StopFillReal
<1>6. BacktestInv'
  BY <1>1, <1>4, <1>5, CloseTurnKeeps
<1>7. LedgerOK(ledger, options, clock)
  BY DEF BacktestInv
<1>8. PICK t \in Trade : /\ Closes(t) /\ t.pair = Current
                         /\ t.exit = StopFill(p, k) /\ t.reason = reason
                         /\ t.entry = ledger.positions[Current].entry
  BY <1>1, <1>2, <1>4, <1>5, <1>7, CloseKeeps
<1> QED
  BY <1>3, <1>4, <1>5, <1>6, <1>8

LEMMA RoiExitTurn ==
  ASSUME BacktestInv, RoiExit
  PROVE  /\ BacktestInv'
         /\ \E t \in Trade :
              /\ Closes(t) /\ t.pair = Current
              /\ t.exit \in candle[Current].low .. candle[Current].high
              /\ t.exit >= (t.entry * 920) \div 1000 /\ t.exit >= t.entry
              /\ (t.entry * 920) \div 1000 \in Int
<1> DEFINE k == candle[Current]
           p == Seen(ledger.positions[Current], k)
<1>1. /\ Turn("exits") /\ NextTurn /\ UNCHANGED <<options, clock, candle>> /\ Current \in Open
      /\ k.high >= RoiPrice(p) /\ RecordClose(Current, RoiFill(p, k), "minimal_roi")
  BY DEF RoiExit
<1>2. /\ Current \in Pairs /\ k \in Quote /\ k.low <= k.open /\ k.open <= k.high
      /\ ledger.positions[Current] \in Held /\ ledger.positions[Current].opened < clock
      /\ clock \in 1 .. MaxCandles /\ candle \in [Pairs -> Quote]
  BY <1>1, TurnFacts
<1>3. /\ p \in Held /\ p.entry = ledger.positions[Current].entry
      /\ p.opened = ledger.positions[Current].opened
  BY <1>2, SeenHeld
<1>4. PICK reason \in Reasons : reason = "minimal_roi"
  BY DEF Reasons
<1> HIDE DEF p
<1>a. p.opened <= clock /\ clock \in Nat
  BY <1>2, <1>3 DEF Held
<1>5. /\ RoiFill(p, k) \in Positive /\ RoiFill(p, k) \in k.low .. k.high
      /\ RoiFill(p, k) >= p.entry /\ RoiFill(p, k) >= (p.entry * 920) \div 1000
  BY <1>1, <1>2, <1>3, <1>a, RoiFillReal
<1>b. RecordClose(Current, RoiFill(p, k), reason)
  BY <1>1, <1>4
<1>6. BacktestInv'
  BY <1>1, <1>b, <1>5, CloseTurnKeeps
<1>7. LedgerOK(ledger, options, clock)
  BY DEF BacktestInv
<1>8. PICK t \in Trade : /\ Closes(t) /\ t.pair = Current
                         /\ t.exit = RoiFill(p, k) /\ t.reason = reason
                         /\ t.entry = ledger.positions[Current].entry
  BY <1>1, <1>2, <1>b, <1>5, <1>7, CloseKeeps
<1>9. (p.entry * 920) \div 1000 \in Int
  BY <1>3, StopTypes
<1> QED
  BY <1>3, <1>5, <1>6, <1>8, <1>9

\* A turn that neither closes nor opens a position.
Keeps ==
    /\ ledger'.trades = ledger.trades
    /\ DOMAIN ledger'.positions = Open
    /\ \A x \in Open : ledger'.positions[x].opened = ledger.positions[x].opened
    /\ journal' = journal

LEMMA StaysOpenTurn ==
  ASSUME BacktestInv, StaysOpen
  PROVE  BacktestInv' /\ ledger'.trades = ledger.trades /\ Keeps
<1> DEFINE p == Seen(ledger.positions[Current], candle[Current])
<1>1. /\ Turn("exits") /\ NextTurn /\ UNCHANGED <<options, clock, candle>> /\ Current \in Open
      /\ ledger' = [ledger EXCEPT !.positions[Current] = p]
  BY DEF StaysOpen
<1>2. /\ candle[Current] \in Quote /\ ledger.positions[Current] \in Held
      /\ ledger.positions[Current].opened < clock /\ clock \in 1 .. MaxCandles
  BY <1>1, TurnFacts
<1>3. /\ p \in Held /\ p.stake = ledger.positions[Current].stake
      /\ p.opened = ledger.positions[Current].opened
  BY <1>2, SeenHeld
<1> HIDE DEF p
<1>4. PICK old \in Ledgers, tab \in Tables : old = ledger /\ tab = old.positions
  BY DEF BacktestInv, LedgerOK, Ledgers
<1>5. Current \in DOMAIN tab /\ p.stake = tab[Current].stake
  BY <1>1, <1>3, <1>4 DEF Open
<1>6. PICK new \in Tables : new = [tab EXCEPT ![Current] = p] /\ Staked(new) = Staked(tab)
  BY <1>3, <1>5, TableUpdate
<1>7. PICK l : l = ledger' /\ l = [old EXCEPT !.positions = new]
  BY <1>1, <1>4, <1>6
<1>8. /\ l \in Ledgers /\ l.positions = new /\ l.trades = old.trades /\ l.streak = old.streak
      /\ l.realized = old.realized
  <2> HIDE DEF Tables, Trade
  <2> QED
    BY ONLY <1>4, <1>7, new \in Tables DEF Ledgers
<1>9. DOMAIN new = DOMAIN tab /\ new[Current] = p /\ \A x \in DOMAIN tab : x # Current => new[x] = tab[x]
  BY <1>5, <1>6
<1>10. LedgerOK(l, options, clock)
  <2>1. LedgerOK(old, options, clock)
    BY <1>4 DEF BacktestInv
  <2>2. \A x \in DOMAIN new : new[x].opened <= clock
    BY <2>1, <1>2, <1>3, <1>4, <1>9 DEF LedgerOK, Held
  <2> QED
    BY <2>1, <2>2, <1>4, <1>6, <1>8, <1>9 DEF LedgerOK
<1>11. \A x \in DOMAIN ledger'.positions :
         x # Current => x \in Open /\ ledger'.positions[x] = ledger.positions[x]
  BY <1>4, <1>7, <1>8, <1>9 DEF Open
<1>12. ledger'.positions[Current].opened < clock
  BY <1>2, <1>3, <1>7, <1>8, <1>9
<1>13. BacktestInv'
  <2>1. PICK name \in {"exits", "decisions"} : name = "exits"
    OBVIOUS
  <2>2. Turn(name) /\ LedgerOK(ledger', options, clock)
    BY <2>1, <1>1, <1>7, <1>10
  <2> QED
    BY <2>1, <2>2, <1>1, <1>11, <1>12, TurnKeeps
<1>14. Keeps
  <2>1. \A x \in Open : new[x].opened = ledger.positions[x].opened
    BY <1>3, <1>4, <1>5, <1>9 DEF Open
  <2>2. journal' = journal
    BY DEF StaysOpen
  <2> QED
    BY <2>1, <2>2, <1>4, <1>7, <1>8, <1>9 DEF Keeps, Open
<1> QED
  BY <1>4, <1>7, <1>8, <1>13, <1>14

LEMMA NotHeldTurn ==
  ASSUME BacktestInv, NotHeld
  PROVE  BacktestInv' /\ ledger'.trades = ledger.trades
<1>1. PICK name \in {"exits", "decisions"} : name = "exits"
  OBVIOUS
<1>2. /\ Turn(name) /\ NextTurn /\ UNCHANGED <<options, clock, candle>> /\ Current \notin Open
      /\ ledger' = ledger
  BY <1>1 DEF NotHeld
<1>3. LedgerOK(ledger', options, clock)
  BY <1>2 DEF BacktestInv
<1>4. DOMAIN ledger'.positions = Open /\ \A x \in Open : ledger'.positions[x] = ledger.positions[x]
  BY <1>2 DEF Open
<1>5. BacktestInv'
  BY <1>2, <1>3, <1>4, TurnKeeps
<1> QED
  BY <1>2, <1>5

-----------------------------------------------------------------------------
(* The run.                                                                *)

LEMMA ExitsDoneKeeps ==
  ASSUME BacktestInv, ExitsDone
  PROVE  BacktestInv'
<1>1. PICK st : st = [name |-> "decisions", turn |-> 0] /\ stage' = st
  BY DEF ExitsDone
<1>2. stage.name = "exits" /\ UNCHANGED <<options, clock, candle, ledger>>
  BY DEF ExitsDone
<1>3. StageOK(st, clock) /\ st.name = "decisions" /\ st.turn = 0
  BY <1>1, <1>2, BacktestConstants DEF BacktestInv, StageOK
<1>4. TurnsOK(ledger, st, clock)
  BY <1>2, <1>3 DEF BacktestInv, TurnsOK
<1>5. CutsOK(ledger, options, st, clock, candle)
  <2>1. \A i \in 1 .. Len(Symbols) : ~(i <= 0)
    OBVIOUS
  <2> QED
    BY <2>1, <1>3 DEF CutsOK
<1> QED
  BY <1>1, <1>2, <1>3, <1>4, <1>5 DEF BacktestInv

LEMMA DecisionsDoneKeeps ==
  ASSUME BacktestInv, DecisionsDone
  PROVE  BacktestInv'
<1>1. PICK st : st = [name |-> "next", turn |-> 0] /\ stage' = st
  BY DEF DecisionsDone
<1>2. /\ stage.name = "decisions" /\ stage.turn = Len(Symbols)
      /\ UNCHANGED <<options, clock, candle, ledger>>
  BY DEF DecisionsDone
<1>3. StageOK(st, clock) /\ st.name = "next"
  BY <1>1, <1>2, BacktestConstants DEF BacktestInv, StageOK
<1>4. TurnsOK(ledger, st, clock)
  BY <1>3 DEF TurnsOK
<1>5. CutsOK(ledger, options, st, clock, candle)
  <2>1. \A i \in 1 .. Len(Symbols) : i <= stage.turn
    BY <1>2
  <2> QED
    BY <2>1, <1>2 DEF BacktestInv, CutsOK
<1> QED
  BY <1>1, <1>2, <1>3, <1>4, <1>5 DEF BacktestInv

LEMMA NextCandlesKeeps ==
  ASSUME BacktestInv, NextCandles
  PROVE  BacktestInv'
<1>1. PICK k \in Candles :
        candle' = [s \in Pairs |->
            LET open == candle[s].next
                close == PriceAt(open, k[s].close)
            IN  [open |-> open, close |-> close, high |-> PriceAt(open, k[s].high),
                 low |-> PriceAt(open, k[s].low), next |-> PriceAt(close, k[s].gap),
                 shape |-> k[s].shape]]
  BY DEF NextCandles
<1>2. PICK st, at : /\ st = [name |-> "exits", turn |-> 0] /\ stage' = st
                    /\ at = clock + 1 /\ clock' = at
  BY DEF NextCandles
<1>3. clock \in Nat /\ clock < MaxCandles /\ ledger' = ledger /\ options' = options
  BY DEF BacktestInv, StageOK, NextCandles
<1>4. at \in 1 .. MaxCandles /\ at > clock /\ at \in Nat
  BY <1>2, <1>3, BacktestConstants
<1>5. StageOK(st, at) /\ st.name = "exits"
  BY <1>2, <1>4, BacktestConstants DEF StageOK
<1>6. PICK c : c = candle'
  OBVIOUS
<1>7. ASSUME NEW s \in Pairs
      PROVE  /\ c[s] \in Quote /\ c[s].low <= c[s].open /\ c[s].open <= c[s].high
             /\ c[s].shape \in MarketType
  <2>1. PICK open \in Positive : open = candle[s].next
    BY DEF BacktestInv, CandlesOK, Quote
  <2>2. PICK low \in Nat, high \in Nat, shut \in Nat, gap \in Nat, shape \in MarketType :
          /\ low = k[s].low /\ high = k[s].high /\ shut = k[s].close /\ gap = k[s].gap
          /\ shape = k[s].shape /\ low <= 1000 /\ high >= 1000
    <3> HIDE DEF MarketType
    <3> QED
      BY CandleTypes
  <2>3. PriceAt(open, low) \in Positive /\ PriceAt(open, low) <= open
    <3>1. PICK n \in Nat : n = 1000 /\ low <= n
      BY <2>2
    <3>2. PriceAt(open, low) \in Positive /\ PriceAt(open, low) <= PriceAt(open, n) /\ PriceAt(open, 1000) = open
      BY <3>1, PriceOrder
    <3> QED
      BY <3>1, <3>2
  <2>4. PriceAt(open, high) \in Positive /\ open <= PriceAt(open, high)
    <3>1. PICK n \in Nat : n = 1000 /\ n <= high
      BY <2>2
    <3>2. PriceAt(open, high) \in Positive /\ PriceAt(open, n) <= PriceAt(open, high) /\ PriceAt(open, 1000) = open
      BY <3>1, PriceOrder
    <3> QED
      BY <3>1, <3>2
  <2>5. PICK close \in Positive : close = PriceAt(open, shut)
    <3>1. shut <= shut
      OBVIOUS
    <3> QED
      BY <3>1, PriceOrder
  <2>6. PICK next \in Positive : next = PriceAt(close, gap)
    <3>1. gap <= gap
      OBVIOUS
    <3> QED
      BY <3>1, PriceOrder
  <2>7. c[s] = [open |-> open, close |-> close, high |-> PriceAt(open, high),
                low |-> PriceAt(open, low), next |-> next, shape |-> shape]
    BY <1>1, <1>6, <2>1, <2>2, <2>5, <2>6
  <2> HIDE DEF MarketType, Positive
  <2> QED
    BY <2>3, <2>4, <2>7 DEF Quote
<1>8. CandlesOK(c, at)
  <2>1. DOMAIN c = Pairs
    BY <1>1, <1>6
  <2>2. c = [s \in Pairs |-> c[s]]
    BY <1>1, <1>6
  <2> HIDE DEF Quote, MarketType
  <2>3. c \in [Pairs -> Quote]
    BY <2>2, <1>7
  <2> QED
    BY <2>3, <1>7 DEF CandlesOK
<1>9. ledger \in Ledgers /\ LedgerOK(ledger, options, clock)
  BY DEF BacktestInv, LedgerOK
<1>10. \A s \in DOMAIN ledger.positions :
         /\ ledger.positions[s].opened \in Int /\ ledger.positions[s].opened <= clock
  <2>1. ledger.positions \in Tables
    BY <1>9 DEF Ledgers
  <2>2. \A s \in DOMAIN ledger.positions : ledger.positions[s] \in Held
    BY <2>1, TableTypes
  <2> QED
    BY <2>2, <1>9 DEF LedgerOK, Held
<1>11. \A s \in DOMAIN ledger.positions : ledger.positions[s].opened < at
  BY <1>3, <1>4, <1>10
<1>12. LedgerOK(ledger, options, at)
  <2>1. \A s \in DOMAIN ledger.positions : ledger.positions[s].opened <= at
    BY <1>4, <1>10, <1>11
  <2> QED
    BY <1>9, <2>1 DEF LedgerOK
<1>13. TurnsOK(ledger, st, at)
  BY <1>11 DEF TurnsOK
<1>14. CutsOK(ledger, options, st, at, c)
  BY <1>5 DEF CutsOK
<1>15. options \in Options
  BY DEF BacktestInv
<1> QED
  BY <1>2, <1>3, <1>5, <1>6, <1>8, <1>12, <1>13, <1>14, <1>15 DEF BacktestInv

-----------------------------------------------------------------------------
(* Decisions.                                                              *)

\* A finite set is listed, each element once.
LEMMA ListIsExact ==
  ASSUME NEW S, IsFiniteSet(S)
  PROVE  /\ SetToSeq(S) \in Seq(S)
         /\ \A x \in S : \E i \in 1 .. Len(SetToSeq(S)) : SetToSeq(S)[i] = x
         /\ \A i, j \in 1 .. Len(SetToSeq(S)) : SetToSeq(S)[i] = SetToSeq(S)[j] => i = j
<1>1. PICK n \in Nat : n = Cardinality(S)
  BY FS_CardinalityType
<1>2. PICK f \in Bijection(1 .. n, S) : TRUE
  BY <1>1, FS_CardinalityType DEF ExistsBijection
<1>3. f \in [1 .. n -> S] /\ IsInjective(f)
  BY <1>2 DEF Bijection, Injection
<1>4. PICK list : list = SetToSeq(S)
  OBVIOUS
<1>5. list \in [1 .. n -> S] /\ IsInjective(list)
  <2>1. list = CHOOSE g \in [1 .. n -> S] : IsInjective(g)
    BY <1>1, <1>4 DEF SetToSeq
  <2> HIDE DEF IsInjective
  <2> QED
    BY <2>1, <1>3
<1>6. list \in Injection(1 .. n, S)
  BY <1>5 DEF Injection
<1>7. IsFiniteSet(1 .. n) /\ Cardinality(1 .. n) = n
  <2>1. PICK one \in Int : one = 1
    OBVIOUS
  <2>2. IsFiniteSet(one .. n) /\ Cardinality(one .. n) = IF one > n THEN 0 ELSE n - one + 1
    BY FS_Interval
  <2> QED
    BY <2>1, <2>2
<1>8. list \in Surjection(1 .. n, S)
  BY <1>1, <1>6, <1>7, FS_Injection
<1>9. list \in Seq(S) /\ Len(list) = n
  BY <1>5
<1>10. \A i, j \in 1 .. n : list[i] = list[j] => i = j
  BY <1>5 DEF IsInjective
<1> QED
  BY <1>4, <1>8, <1>9, <1>10 DEF Surjection

\* The rows of the positions table: n closed trades, then the m open positions,
\* each once.
TableOf(rows, n, m) ==
    /\ DOMAIN rows = 1 .. n + m
    /\ n = Len(ledger.trades)
    /\ \A i \in 1 .. n : /\ rows[i].pair = ledger.trades[i].pair
                         /\ rows[i].closed = ledger.trades[i].closed
                         /\ rows[i].result = ledger.trades[i].result
                         /\ rows[i].known = TRUE
                         /\ rows[i].status = "booked"
    /\ \A i \in n + 1 .. n + m : /\ rows[i].pair \in Open
                                 /\ rows[i].stake = ledger.positions[rows[i].pair].stake
                                 /\ rows[i].status = "open"
    /\ \A i, j \in n + 1 .. n + m : rows[i].pair = rows[j].pair => i = j
    /\ \A s \in Open : \E i \in n + 1 .. n + m : rows[i].pair = s

LEMMA JoinIs ==
  ASSUME NEW T, NEW a \in Seq(T), NEW b \in Seq(T)
  PROVE  /\ DOMAIN (a \o b) = 1 .. Len(a) + Len(b)
         /\ \A i \in 1 .. Len(a) : (a \o b)[i] = a[i]
         /\ \A i \in Len(a) + 1 .. Len(a) + Len(b) : (a \o b)[i] = b[i - Len(a)]
  OBVIOUS

LEMMA RowsAre ==
  ASSUME ledger.positions \in Tables, ledger.trades \in Seq(Trade)
  PROVE  \E n \in Nat, m \in Nat : TableOf(Rows, n, m)
<1> DEFINE closed == [i \in DOMAIN ledger.trades |->
                     [pair |-> ledger.trades[i].pair, stake |-> 0, risk |-> 0,
                      opened |-> ledger.trades[i].opened, closed |-> ledger.trades[i].closed,
                      result |-> ledger.trades[i].result, known |-> TRUE, status |-> "booked"]]
           open == [x \in Open |->
                     [pair |-> x, stake |-> ledger.positions[x].stake, risk |-> 0,
                      opened |-> ledger.positions[x].opened, closed |-> 0,
                      result |-> 0, known |-> FALSE, status |-> "open"]]
<1>1. Rows = closed \o SetToSeq(Range(open))
  BY DEF Rows
<1>2. \A s \in Open : /\ open[s].pair = s /\ open[s].status = "open"
                      /\ open[s].stake = ledger.positions[s].stake
  OBVIOUS
<1>a. DOMAIN open = Open
  OBVIOUS
<1>3. PICK n \in Nat : n = Len(ledger.trades) /\ DOMAIN closed = 1 .. n
  OBVIOUS
<1>b. \A i \in 1 .. n : /\ closed[i].pair = ledger.trades[i].pair
                        /\ closed[i].closed = ledger.trades[i].closed
                        /\ closed[i].result = ledger.trades[i].result
                        /\ closed[i].known = TRUE
                        /\ closed[i].status = "booked"
  BY <1>3
<1> HIDE DEF closed, open
<1>4. PICK S : S = Range(open)
  OBVIOUS
<1>5. IsFiniteSet(S) /\ \A s \in Open : open[s] \in S
  <2>1. IsFiniteSet(Open)
    BY TableTypes DEF Open
  <2>2. open \in Surjection(Open, S)
    <3>1. open \in [Open -> S]
      <4>1. \A x \in Open : open[x] \in S
        BY <1>a, <1>4 DEF Range
      <4> QED
        BY <4>1, <1>a DEF open
    <3>2. \A y \in S : \E x \in Open : open[x] = y
      BY <1>a, <1>4 DEF Range
    <3> QED
      BY <3>1, <3>2 DEF Surjection
  <2> QED
    BY <2>1, <2>2, <1>a, <1>4, FS_Surjection DEF Range
<1>c. \A y \in S : \E s \in Open : y = open[s]
  BY <1>a, <1>4 DEF Range
<1>6. PICK list : list = SetToSeq(S)
  OBVIOUS
<1>7. \A i, j \in 1 .. Len(list) : list[i] = list[j] => i = j
  BY <1>5, <1>6, ListIsExact
<1>d. \A y \in S : \E i \in 1 .. Len(list) : list[i] = y
  BY <1>5, <1>6, ListIsExact
<1>8. list \in Seq(S)
  BY <1>5, <1>6, ListIsExact
<1>e. PICK m \in Nat : m = Len(list) /\ \A i \in 1 .. m : list[i] \in S
  BY <1>8
<1>9. closed \in Seq({closed[j] : j \in 1 .. n}) /\ Len(closed) = n
  <2>1. closed = [j \in 1 .. n |-> closed[j]]
    BY <1>3 DEF closed
  <2>2. closed \in [1 .. n -> {closed[j] : j \in 1 .. n}]
    BY <2>1
  <2> QED
    BY <2>2
<1>10. PICK T : closed \in Seq(T) /\ list \in Seq(T)
  <2>1. PICK T : T = {closed[j] : j \in 1 .. n} \cup S
    OBVIOUS
  <2>2. closed \in Seq(T) /\ list \in Seq(T)
    BY <2>1, <1>8, <1>9
  <2> QED
    BY <2>2
<1>11. PICK rows : rows = closed \o list /\ rows = Rows
  BY <1>1, <1>4, <1>6
<1>f. /\ DOMAIN rows = 1 .. n + m /\ \A i \in 1 .. n : rows[i] = closed[i]
      /\ \A i \in n + 1 .. n + m : rows[i] = list[i - n]
  <2>1. /\ DOMAIN (closed \o list) = 1 .. Len(closed) + Len(list)
        /\ \A i \in 1 .. Len(closed) : (closed \o list)[i] = closed[i]
        /\ \A i \in Len(closed) + 1 .. Len(closed) + Len(list) :
              (closed \o list)[i] = list[i - Len(closed)]
    BY <1>10, JoinIs
  <2> QED
    BY ONLY <2>1, <1>9, <1>11, <1>e
<1>12. DOMAIN rows = 1 .. n + m /\ \A i \in 1 .. n : rows[i] = closed[i]
  BY <1>f
<1>13. \A i \in n + 1 .. n + m : rows[i] = list[i - n] /\ i - n \in 1 .. m
  <2>1. \A i \in n + 1 .. n + m : i - n \in 1 .. m
    OBVIOUS
  <2> QED
    BY <1>f, <2>1
<1>14. \A i \in n + 1 .. n + m : \E s \in Open : rows[i] = open[s]
  BY <1>13, <1>c, <1>e
<1>15. \A i, j \in n + 1 .. n + m : rows[i].pair = rows[j].pair => i = j
  <2> SUFFICES ASSUME NEW i \in n + 1 .. n + m, NEW j \in n + 1 .. n + m, rows[i].pair = rows[j].pair
               PROVE  i = j
    OBVIOUS
  <2>1. rows[i] = rows[j]
    BY <1>14, <1>2
  <2>2. i - n = j - n
    BY <2>1, <1>13, <1>7, <1>e
  <2> QED
    BY <2>2
<1>16. \A s \in Open : \E i \in n + 1 .. n + m : rows[i].pair = s
  <2> TAKE s \in Open
  <2>1. PICK i \in 1 .. m : list[i] = open[s]
    BY <1>5, <1>d, <1>e
  <2>2. PICK j \in n + 1 .. n + m : j = n + i /\ j - n = i
    OBVIOUS
  <2>3. rows[j] = open[s]
    BY <2>1, <2>2, <1>13
  <2> QED
    BY <2>3, <1>2
<1>17. \A i \in n + 1 .. n + m : /\ rows[i].pair \in Open
                                 /\ rows[i].stake = ledger.positions[rows[i].pair].stake
                                 /\ rows[i].status = "open"
  BY <1>14, <1>2
<1>18. \A i \in 1 .. n : /\ rows[i].pair = ledger.trades[i].pair
                         /\ rows[i].closed = ledger.trades[i].closed
                         /\ rows[i].result = ledger.trades[i].result
                         /\ rows[i].known = TRUE
                         /\ rows[i].status = "booked"
  BY <1>12, <1>b
<1>19. TableOf(rows, n, m)
  BY <1>3, <1>12, <1>15, <1>16, <1>17, <1>18 DEF TableOf
<1> QED
  BY <1>11, <1>19

\* The rules' sets of rows.
LEMMA RowSets ==
  ASSUME NEW n \in Nat, NEW m \in Nat, TableOf(Rows, n, m)
  PROVE  /\ Engine!OpenRows = n + 1 .. n + m
         /\ Engine!Booked = 1 .. n
<1>1. PICK rows : rows = Rows /\ TableOf(rows, n, m)
  OBVIOUS
<1>2. Engine!Rows = 1 .. n + m
  BY <1>1 DEF Engine!Rows, TableOf
<1>3. ASSUME NEW p \in 1 .. n + m PROVE rows[p].status # "booked" <=> p \in n + 1 .. n + m
  <2>1. CASE p \in 1 .. n
    <3>1. rows[p].status = "booked" /\ p \notin n + 1 .. n + m
      BY <1>1, <2>1 DEF TableOf
    <3> QED
      BY <3>1
  <2>2. CASE p \in n + 1 .. n + m
    BY <1>1, <2>2 DEF TableOf
  <2> QED
    BY <2>1, <2>2
<1>4. Engine!OpenRows = {p \in 1 .. n + m : rows[p].status # "booked"}
  BY <1>1, <1>2 DEF Engine!OpenRows
<1>5. Engine!OpenRows = n + 1 .. n + m
  BY <1>3, <1>4
<1>6. (1 .. n + m) \ (n + 1 .. n + m) = 1 .. n
  OBVIOUS
<1> QED
  BY <1>2, <1>5, <1>6 DEF Engine!Booked

LEMMA SymbolsMirrored ==
  ASSUME NEW n \in Nat, NEW m \in Nat, TableOf(Rows, n, m)
  PROVE  Engine!OpenSymbols = Open
<1>1. PICK rows : rows = Rows /\ TableOf(rows, n, m)
  OBVIOUS
<1>2. Engine!OpenSymbols = {rows[p].pair : p \in n + 1 .. n + m}
  BY <1>1, RowSets DEF Engine!OpenSymbols
<1> QED
  BY <1>1, <1>2 DEF TableOf

\* An answer that buys keeps the confidence it was given.
LEMMA BuyAnswer ==
  ASSUME NEW m, NEW answer \in Decisions(m), answer.action = "BUY"
  PROVE  answer.confidence \in Nat
<1>1. CASE ~options.llm
  BY <1>1 DEF Decisions
<1>2. CASE options.llm
  <2>1. answer \in AnalyzeAnswers(m)
    BY <1>2 DEF Decisions
  <2>2. answer # HOLD(0)
    BY DEF HOLD
  <2>3. PICK a \in Actions : answer = Normalised(m, [action |-> a, confidence |-> 700])
    BY <2>1, <2>2 DEF AnalyzeAnswers
  <2>4. PICK given : given = [action |-> a, confidence |-> 700]
    OBVIOUS
  <2>5. answer = Normalised(m, given) /\ given.confidence = 700
    BY <2>3, <2>4
  <2>6. CASE HardLoss(m)
    <3>1. answer.action = "SELL"
      BY <2>5, <2>6 DEF Normalised
    <3> QED
      BY <3>1
  <2>7. CASE ~HardLoss(m) /\ ConfirmedExit(m, given)
    <3>1. given.action = "SELL"
      BY <2>7 DEF ConfirmedExit
    <3>2. answer.action = "SELL"
      BY <2>5, <2>7, <3>1 DEF Normalised, ConfirmedEntry
    <3> QED
      BY <3>2
  <2>8. CASE ~HardLoss(m) /\ ~ConfirmedExit(m, given)
              /\ (given.action = "HOLD" \/ ConfirmedEntry(m, given))
    <3>1. answer.confidence = given.confidence
      BY <2>5, <2>8 DEF Normalised
    <3> QED
      BY <3>1, <2>5
  <2>9. CASE ~HardLoss(m) /\ ~ConfirmedExit(m, given)
              /\ ~(given.action = "HOLD" \/ ConfirmedEntry(m, given))
    <3>1. answer.action = "HOLD"
      BY <2>5, <2>9 DEF Normalised, HOLD
    <3> QED
      BY <3>1
  <2> QED
    BY <2>6, <2>7, <2>8, <2>9
<1> QED
  BY <1>1, <1>2

LEMMA AccountTypes ==
  ASSUME LedgerOK(ledger, options, clock)
  PROVE  /\ LedgerAccount.equity \in Int /\ LedgerAccount.free \in Int /\ LedgerAccount.symbols = Open
         /\ options.compounding =>
              LedgerAccount.free = StartingEquity + ledger.realized - Staked(ledger.positions)
<1>1. PICK tab \in Tables, sum \in Int, stakes \in Nat, start \in Int :
        /\ tab = ledger.positions /\ sum = ledger.realized /\ stakes = Staked(tab)
        /\ start = StartingEquity
  <2>1. ledger.positions \in Tables /\ ledger.realized \in Int
    BY DEF LedgerOK, Ledgers
  <2> QED
    BY <2>1, TableTypes, BacktestConstants DEF Positive
<1>2. PICK e \in Int : e = Equity /\ (options.compounding => e = start + sum)
  BY <1>1 DEF Equity
<1>3. PICK zero \in Int, d \in Int : zero = 0 /\ d = e - stakes
  OBVIOUS
<1>4. FreeBalance = IF d >= zero THEN d ELSE zero
  <2>1. FreeBalance = Max({d, zero})
    <3>1. Exposure = stakes
      BY <1>1, ExposureIsSum
    <3> QED
      BY <3>1, <1>2, <1>3 DEF FreeBalance
  <2>2. Max({d, zero}) = IF d >= zero THEN d ELSE zero
    BY PairClamps
  <2> QED
    BY <2>1, <2>2
<1>5. options.compounding => start + sum >= stakes
  BY <1>1 DEF LedgerOK
<1>6. LedgerAccount.equity = e /\ LedgerAccount.free = FreeBalance /\ LedgerAccount.symbols = Open
  BY <1>2 DEF LedgerAccount
<1>7. options.compounding => FreeBalance = start + sum - stakes
  BY <1>2, <1>3, <1>4, <1>5
<1> QED
  BY <1>1, <1>3, <1>4, <1>6, <1>7

LEMMA MarketTypes ==
  ASSUME NEW s \in Pairs, candle \in [Pairs -> Quote], candle[s].shape \in MarketType
  PROVE  /\ Market(s).price \in Positive
         /\ AtrRatio(Market(s), 2) \in Int
<1>1. PICK price \in Positive : price = candle[s].close
  BY DEF Quote
<1>2. PICK shape \in MarketType : shape = candle[s].shape
  OBVIOUS
<1>a. PICK pnl : pnl = IF s \in Open
                       THEN ((candle[s].close - ledger.positions[s].entry) * 1000) \div ledger.positions[s].entry
                       ELSE 0
  OBVIOUS
<1>3. Market(s) = [shape EXCEPT !.price = price, !.open = s \in Open, !.known = s \in Open, !.pnl = pnl]
  BY <1>1, <1>2, <1>a DEF Market
<1>4. PICK m : m = Market(s)
  OBVIOUS
<1>5. m.price = price /\ m.atr = shape.atr /\ shape.atr \in Nat
  BY <1>3, <1>4 DEF MarketType
<1>6. PICK n \in Int : n = 1000 * (2 * m.atr)
  BY <1>5
<1>7. n \div price \in Int
  BY Division DEF Positive
<1>8. AtrRatio(m, 2) = n \div price
  BY <1>5, <1>6 DEF AtrRatio, Ratio, Positive
<1> QED
  BY <1>4, <1>5, <1>7, <1>8

\* A share of n points for a clamped ratio is at most n points.
LEMMA ShareOfPoints ==
  ASSUME NEW n \in Nat, NEW d \in Nat \ {0}, NEW v \in 0 .. d
  PROVE  Rounded(n * v, d) \in 0 .. n
<1>1. PICK c \in Nat : c = n * v
  OBVIOUS
<1>2. c <= n * d
  <2>1. n * (d - v) >= 0 /\ n * (d - v) = n * d - n * v
    OBVIOUS
  <2> QED
    BY <2>1, <1>1
<1>3. PICK q \in Nat, r \in Nat : q = c \div d /\ r = c % d /\ r < d /\ c = d * q + r
  OBVIOUS
<1>4. q < n \/ (q = n /\ r = 0)
  <2>1. ASSUME q > n PROVE FALSE
    <3>1. d * (q - n - 1) >= 0 /\ d * (q - n - 1) = d * q - n * d - d
      BY <2>1
    <3> QED
      BY <3>1, <1>2, <1>3
  <2>2. ASSUME q = n PROVE r = 0
    <3>1. d * q = n * d
      BY <2>2
    <3> QED
      BY <3>1, <1>2, <1>3
  <2> QED
    BY <2>1, <2>2
<1>5. Rounded(c, d) \in {q, q + 1} /\ (r = 0 => Rounded(c, d) = q)
  BY <1>3 DEF Rounded
<1>6. Rounded(c, d) \in 0 .. n
  BY <1>3, <1>4, <1>5
<1> QED
  BY <1>1, <1>6

LEMMA RatioNatural ==
  ASSUME NEW n \in Nat, NEW d \in Nat
  PROVE  Ratio(n, d) \in Nat
<1>1. PICK x \in Nat : x = 1000 * n
  OBVIOUS
<1>2. CASE d = 0
  BY <1>2 DEF Ratio
<1>3. CASE d # 0
  <2>1. x \div d \in Nat
    BY <1>3
  <2> QED
    BY <1>1, <1>3, <2>1 DEF Ratio
<1> QED
  BY <1>2, <1>3

LEMMA MagnitudeNatural ==
  ASSUME NEW n \in Int
  PROVE  Magnitude(n) \in Nat
<1>1. PICK m \in Int : m = -n
  OBVIOUS
<1>2. Max({n, m}) = IF n >= m THEN n ELSE m
  BY PairClamps
<1> QED
  BY <1>1, <1>2 DEF Magnitude

\* The dimensions a trade is classified by.
Profile == [regime : Regimes, volatility : Volatilities, score : 0 .. 100]

\* What a mechanical entry is classified by; the score counts to 100.
LEMMA DimsProfiled ==
  ASSUME NEW m, m.price \in Nat, m.ema50 \in Nat, m.ema200 \in Nat, m.atr \in Nat, m.hist \in Int
  PROVE  Dims(m) \in Profile
<1>1. /\ m.price \in Nat /\ m.ema50 \in Nat /\ m.ema200 \in Nat /\ m.atr \in Nat /\ m.hist \in Int
  OBVIOUS
<1>2. EmaGap(m) \in Nat /\ HistogramRatio(m) \in Nat /\ AtrRatio(m, 2) \in Nat
  <2>1. m.ema50 - m.ema200 \in Int /\ 2 * m.atr \in Nat
    BY <1>1
  <2>2. Magnitude(m.ema50 - m.ema200) \in Nat /\ Magnitude(m.hist) \in Nat
    BY <1>1, <2>1, MagnitudeNatural
  <2> QED
    BY <1>1, <2>1, <2>2, RatioNatural DEF EmaGap, HistogramRatio, AtrRatio
<1>3. /\ Clamp(EmaGap(m), 0, 30) \in 0 .. 30 /\ Clamp(HistogramRatio(m), 0, 150) \in 0 .. 150
      /\ Clamp(AtrRatio(m, 2), 15, 80) \in 15 .. 80
  <2>1. ASSUME NEW low \in Int, NEW high \in Int, NEW x \in Int, low <= high
        PROVE  Clamp(x, low, high) \in low .. high
    BY <2>1, Clamped DEF Clamp
  <2>2. {EmaGap(m), HistogramRatio(m), AtrRatio(m, 2)} \subseteq Int
        /\ {0, 30, 150, 15, 80} \subseteq Int /\ 0 <= 30 /\ 0 <= 150 /\ 15 <= 80
    BY <1>2
  <2> QED
    BY <2>1, <2>2, Zenon
<1>4. ScoreTrend(m) \in 0 .. 25
  <2>1. Rounded(5 * Clamp(EmaGap(m), 0, 30), 30) \in 0 .. 5
    <3>1. 5 \in Nat /\ 30 \in Nat \ {0}
      OBVIOUS
    <3> QED
      BY <3>1, <1>3, ShareOfPoints, Zenon
  <2> QED
    BY <2>1 DEF ScoreTrend, Points
<1>5. ScoreMomentum(m) \in 0 .. 20
  <2>1. Rounded(8 * Clamp(HistogramRatio(m), 0, 150), 150) \in 0 .. 8
    <3>1. 8 \in Nat /\ 150 \in Nat \ {0}
      OBVIOUS
    <3> QED
      BY <3>1, <1>3, ShareOfPoints, Zenon
  <2> QED
    BY <2>1 DEF ScoreMomentum
<1>6. Regime(m) \in Regimes /\ Volatility(m) \in Volatilities
  <2>1. Regime(m) \in Regimes
    BY DEF Regime, Regimes
  <2>2. Volatility(m) \in Volatilities
    BY DEF Volatility, Volatilities
  <2> QED
    BY <2>1, <2>2
<1>7. ScoreRegime(m) \in 0 .. 20 /\ ScoreVolatility(m) \in 0 .. 5
  <2>1. ScoreRegime(m) \in 0 .. 20
    BY <1>6 DEF ScoreRegime, Regimes
  <2>2. ScoreVolatility(m) \in 0 .. 5
    BY <1>6 DEF ScoreVolatility, Volatilities
  <2> QED
    BY <2>1, <2>2
<1>8. ScoreRiskReward(m) \in 0 .. 15
  <2>1. PICK v \in 0 .. 65 : v = 80 - Clamp(AtrRatio(m, 2), 15, 80)
    BY <1>3
  <2>2. Rounded(10 * v, 65) \in 0 .. 10
    BY ShareOfPoints
  <2> QED
    BY <2>1, <2>2 DEF ScoreRiskReward
<1>9. Points(m.busy, 15) \in 0 .. 15
  BY DEF Points
<1>10. TradeScore(m) \in 0 .. 100
  BY <1>4, <1>5, <1>7, <1>8, <1>9 DEF TradeScore
<1> QED
  BY <1>6, <1>10 DEF Dims, Profile

\* The market a symbol is decided on.
LEMMA MarketNumbers ==
  ASSUME NEW s \in Pairs, candle \in [Pairs -> Quote], candle[s].shape \in MarketType,
         NEW m, m = Market(s)
  PROVE  /\ m.price \in Nat /\ m.ema50 \in Nat /\ m.ema200 \in Nat /\ m.atr \in Nat /\ m.hist \in Int
<1>1. PICK price \in Nat, shape \in MarketType : price = candle[s].close /\ shape = candle[s].shape
  BY DEF Quote, Positive
<1>2. PICK pnl : pnl = IF s \in Open
                       THEN ((candle[s].close - ledger.positions[s].entry) * 1000) \div ledger.positions[s].entry
                       ELSE 0
  OBVIOUS
<1>3. m = [shape EXCEPT !.price = price, !.open = s \in Open, !.known = s \in Open, !.pnl = pnl]
  BY <1>1, <1>2 DEF Market
<1> QED
  BY <1>3 DEF MarketType

\* What an approved entry opens: no more is staked than is free.
LEMMA EnterKeeps ==
  ASSUME BacktestInv, NEW s \in Pairs, s \notin Open, clock \in 1 .. MaxCandles,
         candle[s].shape \in MarketType,
         NEW sig, sig.pair = s, sig.stop \in Int, sig.confidence \in Int,
         Enter(s, Market(s), sig)
  PROVE  /\ LedgerOK(ledger', options, clock) /\ ledger'.trades = ledger.trades
         /\ DOMAIN ledger'.positions = Open \cup {s}
         /\ \A x \in Open : ledger'.positions[x] = ledger.positions[x]
         /\ ledger'.positions[s].opened = clock
<1>1. PICK old \in Ledgers, tab \in Tables :
        /\ old = ledger /\ tab = old.positions /\ LedgerOK(old, options, clock)
        /\ candle \in [Pairs -> Quote] /\ Open = DOMAIN tab
  BY DEF BacktestInv, LedgerOK, Ledgers, CandlesOK, Open
<1>2. /\ LedgerAccount.equity \in Int /\ LedgerAccount.free \in Int /\ LedgerAccount.symbols = Open
      /\ options.compounding => LedgerAccount.free = StartingEquity + old.realized - Staked(tab)
  BY <1>1, AccountTypes DEF BacktestInv
<1>3. PICK size \in Nat, free \in Int : size = Engine!Size(sig, LedgerAccount) /\ free = LedgerAccount.free
  BY <1>2, SizeNatural
<1>4. /\ ~Engine!max_open_positions(sig, LedgerAccount)
      /\ ~Engine!insufficient_balance(LedgerAccount, Engine!Size(sig, LedgerAccount))
  BY ApprovedEntry DEF Enter
<1>5. size <= free
  <2>1. ~(size > free)
    BY <1>3, <1>4 DEF Engine!insufficient_balance
  <2> QED
    BY <2>1
<1>6. ~(Cardinality(Open) >= MaxOpenPositions)
  <2>1. PICK acct : acct = LedgerAccount
    OBVIOUS
  <2>2. ~(Cardinality(acct.symbols) >= MaxOpenPositions)
    <3>1. ~Engine!max_open_positions(sig, acct)
      BY ONLY <2>1, <1>4
    <3>2. ~(Engine!Cardinality(acct.symbols) >= MaxOpenPositions)
      BY <3>1 DEF Engine!max_open_positions
    <3> QED
      BY ONLY <3>2, EngineCounts
  <2> QED
    BY ONLY <2>1, <2>2, <1>2
<1>7. PICK distance \in Nat : distance = Engine!StopDistance(sig) /\ distance <= 1000
  <2>1. Engine!StopDistance(sig) \in MinStopLoss .. MaxStopLoss /\ Engine!StopDistance(sig) \in Nat
    BY StopInRange
  <2> QED
    BY <2>1, BacktestConstants DEF Positive
<1>8. PICK fill \in Positive : fill = candle[s].next
  BY <1>1 DEF Quote
<1>9. PICK stop \in Nat : stop = (Market(s).price * (1000 - distance)) \div 1000
  <2>1. PICK price \in Nat, kept \in Nat, n \in Positive :
          price = Market(s).price /\ kept = 1000 - distance /\ n = 1000
    BY <1>1, <1>7, MarketTypes DEF Positive
  <2>2. PICK x \in Int, zero \in Int : x = price * kept /\ zero = 0 /\ x >= 0
    OBVIOUS
  <2>3. x \div n \in Int /\ zero \div n <= x \div n
    BY <2>2, DivisionMonotone DEF Positive
  <2>4. zero \div n = 0
    BY <2>1, <2>2
  <2> QED
    BY <2>1, <2>2, <2>3, <2>4
<1>10. PICK risk \in Nat : risk = size * distance
  OBVIOUS
<1>11. PICK p : p = NewPosition(sig, Market(s))
  OBVIOUS
<1>12. p = [opened |-> clock, entry |-> fill, stake |-> size, peak |-> fill, stop |-> stop, risk |-> risk]
  BY <1>3, <1>7, <1>8, <1>9, <1>10, <1>11 DEF NewPosition
<1>13. p \in Held /\ p.stake = size /\ p.opened = clock
  BY <1>12 DEF Held
<1>14. PICK new \in Tables : /\ new = With(tab, s, p) /\ DOMAIN new = DOMAIN tab \cup {s}
                             /\ \A x \in DOMAIN tab : new[x] = tab[x]
                             /\ new[s] = p /\ Staked(new) = Staked(tab) + size
  <2>1. s \notin DOMAIN tab
    BY <1>1
  <2>2. /\ With(tab, s, p) \in Tables
        /\ DOMAIN With(tab, s, p) = DOMAIN tab \cup {s}
        /\ \A x \in DOMAIN tab : With(tab, s, p)[x] = tab[x]
        /\ With(tab, s, p)[s] = p
        /\ Staked(With(tab, s, p)) = Staked(tab) + p.stake
    BY <2>1, <1>13, TableAdd, ZenonT(30)
  <2> QED
    BY <2>2, <1>13
<1>15. PICK l : l = ledger' /\ l = [old EXCEPT !.positions = new]
  BY <1>1, <1>11, <1>14 DEF Enter
<1>16. /\ l \in Ledgers /\ l.positions = new /\ l.trades = old.trades /\ l.streak = old.streak
       /\ l.realized = old.realized
  <2> HIDE DEF Tables, Trade
  <2> QED
    BY ONLY <1>1, <1>15, new \in Tables, old \in Ledgers DEF Ledgers
<1>17. LedgerOK(l, options, clock)
  <2>1. Cardinality(DOMAIN new) <= MaxOpenPositions
    <3>1. IsFiniteSet(DOMAIN tab)
      BY TableTypes
    <3>2. s \notin DOMAIN tab
      BY <1>1
    <3>3. Cardinality(DOMAIN tab \cup {s}) = Cardinality(DOMAIN tab) + 1 /\ Cardinality(DOMAIN tab) \in Nat
      BY <3>1, <3>2, FS_AddElement, FS_CardinalityType
    <3> QED
      BY <3>3, <1>1, <1>6, <1>14, BacktestConstants
  <2>2. \A x \in DOMAIN new : new[x].opened <= clock
    <3> TAKE x \in DOMAIN new
    <3>1. CASE x = s
      BY <3>1, <1>13, <1>14
    <3>2. CASE x # s
      BY <3>2, <1>1, <1>14 DEF LedgerOK
    <3> QED
      BY <3>1, <3>2
  <2>3. options.compounding => StartingEquity + old.realized >= Staked(new)
    <3>1. PICK a \in Int, e \in Int, sum \in Int :
            a = Staked(tab) /\ e = StartingEquity /\ sum = old.realized
      BY TableTypes, BacktestConstants DEF Positive, Ledgers
    <3>2. options.compounding => free = e + sum - a
      BY <3>1, <1>2, <1>3
    <3>3. options.compounding => e + sum >= a + size
      BY <3>2, <1>5
    <3> QED
      BY ONLY <3>1, <3>3, <1>14
  <2> QED
    BY <2>1, <2>2, <2>3, <1>1, <1>16 DEF LedgerOK
<1> QED
  BY <1>1, <1>13, <1>14, <1>15, <1>16, <1>17

LEMMA RefuseKeeps ==
  ASSUME BacktestInv, NEW sig, Refuse(sig)
  PROVE  /\ LedgerOK(ledger', options, clock) /\ ledger'.trades = ledger.trades
         /\ ledger'.positions = ledger.positions
<1>1. PICK old \in Ledgers : old = ledger /\ LedgerOK(old, options, clock)
  BY DEF BacktestInv, LedgerOK
<1>2. PICK trips \in BOOLEAN : trips <=> Engine!Verdict(sig, LedgerAccount) \in Engine!Trips
  <2>1. CASE Engine!Verdict(sig, LedgerAccount) \in Engine!Trips
    BY <2>1, TRUE \in BOOLEAN
  <2>2. CASE Engine!Verdict(sig, LedgerAccount) \notin Engine!Trips
    BY <2>2, FALSE \in BOOLEAN
  <2> QED
    BY <2>1, <2>2
<1>3. PICK tripped \in BOOLEAN : tripped = (old.tripped \/ trips)
  OBVIOUS
<1>4. PICK streak \in Nat :
        /\ streak = IF trips /\ options.ignoreSwitch THEN 0 ELSE old.streak
        /\ streak <= old.streak /\ old.streak \in Nat
  BY DEF Ledgers
<1>5. PICK l : l = ledger' /\ l = [old EXCEPT !.tripped = tripped, !.streak = streak]
  BY <1>1, <1>2, <1>3, <1>4 DEF Refuse
<1>6. /\ l \in Ledgers /\ l.positions = old.positions /\ l.trades = old.trades
      /\ l.realized = old.realized /\ l.streak = streak
  <2> HIDE DEF Tables, Trade
  <2> QED
    BY ONLY <1>5, old \in Ledgers, tripped \in BOOLEAN, streak \in Nat DEF Ledgers
<1>7. streak <= Len(l.trades)
  <2>1. PICK n \in Nat : n = Len(old.trades)
    BY DEF Ledgers
  <2>2. old.streak <= n
    BY <2>1, <1>1 DEF LedgerOK
  <2> QED
    BY <2>1, <2>2, <1>4, <1>6
<1>8. LedgerOK(l, options, clock)
  BY <1>1, <1>6, <1>7 DEF LedgerOK
<1> QED
  BY <1>1, <1>5, <1>6, <1>8

\* A turn that opens a position.
Opens(s) ==
    /\ s \in Pairs \ Open
    /\ ledger'.trades = ledger.trades
    /\ DOMAIN ledger'.positions = Open \cup {s}
    /\ \A x \in Open : ledger'.positions[x] = ledger.positions[x]
    /\ ledger'.positions[s].opened = clock
    /\ options.llm => journal' = journal
    /\ ~options.llm =>
          \E dims \in Profile : journal' = [journal EXCEPT !.entry = With(journal.entry, s, dims)]

LEMMA DecideEntryTurn ==
  ASSUME BacktestInv, DecideEntry
  PROVE  BacktestInv' /\ ledger'.trades = ledger.trades /\ (Opens(Current) \/ Keeps)
<1> DEFINE m == Market(Current)
<1>1. PICK name \in {"exits", "decisions"} : name = "decisions"
  OBVIOUS
<1>2. /\ Turn(name) /\ NextTurn /\ UNCHANGED <<options, clock, candle>> /\ Current \notin Open
  BY <1>1 DEF DecideEntry
<1>3. PICK answer \in Decisions(m) :
        /\ answer.action = "BUY"
        /\ Enter(Current, m, SignalView(Current, m, answer)) \/ Refuse(SignalView(Current, m, answer))
  BY DEF DecideEntry
<1>4. /\ Current \in Pairs /\ clock \in 1 .. MaxCandles /\ candle \in [Pairs -> Quote]
      /\ candle[Current].shape \in MarketType
  BY <1>2, TurnFacts
<1>5. PICK sig : sig = SignalView(Current, m, answer)
  OBVIOUS
<1>6. sig.pair = Current /\ sig.stop \in Int /\ sig.confidence \in Int
  <2>1. sig.pair = Current /\ sig.stop = AtrRatio(m, 2) /\ sig.confidence = answer.confidence
    BY <1>5 DEF SignalView
  <2>2. AtrRatio(m, 2) \in Int
    BY <1>4, MarketTypes
  <2>3. answer.confidence \in Nat
    BY <1>3, BuyAnswer
  <2> QED
    BY <2>1, <2>2, <2>3
<1>7. CASE Enter(Current, m, sig)
  <2>1. /\ LedgerOK(ledger', options, clock) /\ ledger'.trades = ledger.trades
        /\ DOMAIN ledger'.positions = Open \cup {Current}
        /\ \A x \in Open : ledger'.positions[x] = ledger.positions[x]
        /\ ledger'.positions[Current].opened = clock
    BY <1>2, <1>4, <1>6, <1>7, EnterKeeps
  <2>2. ~(ledger'.positions[Current].opened < clock)
    BY <2>1, <1>4
  <2>3. BacktestInv'
    BY <1>1, <1>2, <2>1, <2>2, TurnKeeps
  <2>4. Dims(m) \in Profile
    <3>1. PICK x : x = m
      OBVIOUS
    <3>2. /\ x.price \in Nat /\ x.ema50 \in Nat /\ x.ema200 \in Nat /\ x.atr \in Nat /\ x.hist \in Int
      BY <3>1, <1>4, MarketNumbers
    <3> QED
      BY <3>1, <3>2, DimsProfiled
  <2>5. journal' = IF options.llm THEN journal
                   ELSE [journal EXCEPT !.entry = With(journal.entry, Current, Dims(m))]
    BY <1>7 DEF Enter
  <2>6. Opens(Current)
    <3>1. PICK dims \in Profile : dims = Dims(m)
      BY <2>4
    <3>2. ~options.llm => journal' = [journal EXCEPT !.entry = With(journal.entry, Current, dims)]
      BY <2>5, <3>1
    <3> QED
      BY <2>1, <2>5, <3>2, <1>2, <1>4 DEF Opens
  <2> QED
    BY <2>1, <2>3, <2>6
<1>8. CASE Refuse(sig)
  <2>1. /\ LedgerOK(ledger', options, clock) /\ ledger'.trades = ledger.trades
        /\ ledger'.positions = ledger.positions
    BY <1>8, RefuseKeeps
  <2>2. \A x \in DOMAIN ledger'.positions :
          x # Current => x \in Open /\ ledger'.positions[x] = ledger.positions[x]
    BY <2>1 DEF Open
  <2>3. Current \notin DOMAIN ledger'.positions
    BY <2>1, <1>2 DEF Open
  <2>4. BacktestInv'
    BY <1>2, <2>1, <2>2, <2>3, TurnKeeps
  <2>5. journal' = journal
    BY <1>8 DEF Refuse
  <2>6. Keeps
    BY <2>1, <2>5 DEF Keeps, Open
  <2> QED
    BY <2>1, <2>4, <2>6
<1> QED
  BY <1>3, <1>5, <1>7, <1>8

LEMMA DecideExitTurn ==
  ASSUME BacktestInv, DecideExit
  PROVE  BacktestInv' /\ \E t \in Trade : Closes(t)
<1>1. PICK name \in {"exits", "decisions"} : name = "decisions"
  OBVIOUS
<1>2. PICK reason \in Reasons : reason = "llm_sell_signal"
  BY DEF Reasons
<1>a. PICK price : price = candle[Current].next
  OBVIOUS
<1>3. /\ Turn(name) /\ NextTurn /\ UNCHANGED <<options, clock, candle>> /\ Current \in Open
      /\ RecordClose(Current, price, reason)
  BY <1>1, <1>2, <1>a DEF DecideExit
<1>4. price \in Positive
  BY <1>a, <1>3, TurnFacts DEF Quote
<1> QED
  BY <1>3, <1>4, CloseTurnKeeps

\* The rubric sells a position beyond the cut, and the sale is approved whatever
\* the switch says.
LEMMA CutIsDecided ==
  ASSUME BacktestInv, Current \in Open, ~options.llm, NEW answer \in Decisions(Market(Current)),
         Current \in Pairs, ledger.positions[Current] \in Held, candle \in [Pairs -> Quote],
         candle[Current].shape \in MarketType,
         Return(ledger.positions[Current], candle[Current]) <= -HardLossCut
  PROVE  answer.action = "SELL" /\ ExitApproved(SignalView(Current, Market(Current), answer))
<1>1. PICK m : m = Market(Current)
  OBVIOUS
<1>2. PICK loss : loss = Return(ledger.positions[Current], candle[Current])
  OBVIOUS
<1>3. m.open = TRUE /\ m.known = TRUE /\ m.pnl = loss
  <2>1. PICK shape, price :
          /\ shape = candle[Current].shape /\ shape \in MarketType
          /\ price = candle[Current].close
    OBVIOUS
  <2>2. m = [shape EXCEPT !.price = price, !.open = TRUE, !.known = TRUE, !.pnl = loss]
    BY <1>1, <1>2, <2>1, ZenonT(30) DEF Market, Return
  <2> QED
    BY <2>2 DEF MarketType
<1>4. HardLoss(m)
  BY <1>2, <1>3 DEF HardLoss
<1>5. \A stub : Normalised(m, stub).action = "SELL"
  BY <1>4 DEF Normalised
<1>6. PICK raw : raw = Normalised(m, [action |-> IF m.open THEN "SELL" ELSE "BUY", confidence |-> 990]).action
  OBVIOUS
<1>7. raw = "SELL"
  BY <1>5, <1>6
<1>8. MechanicalDecision(m) = "SELL"
  <2>1. MechanicalDecision(m) = IF raw = "BUY" /\ Regime(m) \in Suppressed THEN "HOLD" ELSE raw
    BY <1>6 DEF MechanicalDecision
  <2> QED
    BY <1>7, <2>1
<1>9. answer = [action |-> "SELL", confidence |-> 990]
  BY <1>1, <1>8 DEF Decisions
<1>10. PICK sig : sig = SignalView(Current, Market(Current), answer)
  OBVIOUS
<1>11. sig.action = "SELL" /\ sig.pair = Current /\ sig.stale = FALSE /\ sig.duplicate = FALSE
  BY <1>9, <1>10 DEF SignalView
<1>12. Current \in Engine!OpenSymbols
  <2>1. ledger.positions \in Tables /\ ledger.trades \in Seq(Trade)
    BY DEF BacktestInv, LedgerOK, Ledgers
  <2>2. PICK some \in Nat, more \in Nat : TableOf(Rows, some, more)
    BY <2>1, RowsAre
  <2> QED
    BY <2>2, SymbolsMirrored
<1>13. ExitApproved(sig)
  BY <1>11, <1>12 DEF ExitApproved, Engine!ApprovedExit
<1> QED
  BY <1>9, <1>10, <1>13

LEMMA DecideNothingTurn ==
  ASSUME BacktestInv, DecideNothing
  PROVE  BacktestInv' /\ ledger'.trades = ledger.trades
<1>1. PICK name \in {"exits", "decisions"} : name = "decisions"
  OBVIOUS
<1>2. Turn(name) /\ NextTurn /\ UNCHANGED <<options, clock, candle>> /\ ledger' = ledger
  BY <1>1 DEF DecideNothing
<1>3. PICK answer \in Decisions(Market(Current)) :
        \/ answer.action = "HOLD"
        \/ answer.action = "BUY" /\ Current \in Open
        \/ answer.action = "SELL"
             /\ ~(Current \in Open /\ ExitApproved(SignalView(Current, Market(Current), answer)))
  BY DEF DecideNothing
<1>4. LedgerOK(ledger', options, clock)
  BY <1>2 DEF BacktestInv
<1>5. ASSUME Current \in Open, ~options.llm
      PROVE  Return(ledger.positions[Current], candle[Current]) > -HardLossCut
  <2>1. /\ Current \in Pairs /\ ledger.positions[Current] \in Held /\ candle \in [Pairs -> Quote]
        /\ candle[Current].shape \in MarketType
    BY <1>2, <1>5, TurnFacts
  <2>2. PICK loss \in Int : loss = Return(ledger.positions[Current], candle[Current])
    <3>1. PICK e \in Positive, x \in Int :
            /\ e = ledger.positions[Current].entry
            /\ x = (candle[Current].close - ledger.positions[Current].entry) * 1000
      BY <2>1 DEF Held, Quote, Positive
    <3>2. x \div e \in Int
      BY Division DEF Positive
    <3> QED
      BY <3>1, <3>2 DEF Return
  <2>3. ~(loss <= -HardLossCut)
    <3> SUFFICES ASSUME loss <= -HardLossCut PROVE FALSE
      OBVIOUS
    <3>1. answer.action = "SELL" /\ ExitApproved(SignalView(Current, Market(Current), answer))
      BY <1>5, <2>1, <2>2, CutIsDecided
    <3> QED
      BY <3>1, <1>3, <1>5
  <2> QED
    BY <2>2, <2>3, BacktestConstants
<1>6. \A x \in DOMAIN ledger'.positions : x \in Open /\ ledger'.positions[x] = ledger.positions[x]
  BY <1>2 DEF Open
<1>7. Current \in DOMAIN ledger'.positions /\ ~options.llm
        => Return(ledger'.positions[Current], candle[Current]) > -HardLossCut
  BY <1>2, <1>5 DEF Open
<1>8. BacktestInv'
  BY <1>1, <1>2, <1>4, <1>6, <1>7, TurnKeeps
<1> QED
  BY <1>2, <1>8

-----------------------------------------------------------------------------
(* The invariant, and what it says.                                        *)

LEMMA BacktestStep == BacktestInv /\ [Next]_vars => BacktestInv'
<1> SUFFICES ASSUME BacktestInv, [Next]_vars PROVE BacktestInv'
  OBVIOUS
<1>1. CASE NextCandles BY <1>1, NextCandlesKeeps
<1>2. CASE StopExit BY <1>2, StopExitTurn
<1>3. CASE RoiExit BY <1>3, RoiExitTurn
<1>4. CASE StaysOpen BY <1>4, StaysOpenTurn
<1>5. CASE NotHeld BY <1>5, NotHeldTurn
<1>6. CASE ExitsDone BY <1>6, ExitsDoneKeeps
<1>7. CASE DecideEntry BY <1>7, DecideEntryTurn
<1>8. CASE DecideExit BY <1>8, DecideExitTurn
<1>9. CASE DecideNothing BY <1>9, DecideNothingTurn
<1>10. CASE DecisionsDone BY <1>10, DecisionsDoneKeeps
<1>11. CASE UNCHANGED vars
  BY <1>11 DEF vars, BacktestInv
<1> QED
  BY <1>1, <1>2, <1>3, <1>4, <1>5, <1>6, <1>7, <1>8, <1>9, <1>10, <1>11 DEF Next

\* The session runs one tool; the other stands still.
LEMMA BacktestSession == ReplaysSpec => []BacktestInv
<1>1. ReplaysInit => BacktestInv
  BY BacktestInit DEF ReplaysInit
<1>2. BacktestInv /\ [ReplaysNext]_<<tool, vars, simVars>> => BacktestInv'
  <2> SUFFICES ASSUME BacktestInv, [ReplaysNext]_<<tool, vars, simVars>> PROVE BacktestInv'
    OBVIOUS
  <2>1. [Next]_vars
    BY DEF ReplaysNext
  <2> QED
    BY <2>1, BacktestStep
<1> QED
  BY <1>1, <1>2, PTL DEF ReplaysSpec

\* Decided by the rubric alone, no position outlives a candle that closes beyond
\* the hard loss cut, whatever the candles, limits and switches
\* (mechanical_decision, evaluate_exit).
THEOREM HardLossIsAlwaysCut == ReplaysSpec => []HardLossIsCut
<1>1. BacktestInv => HardLossIsCut
  <2> SUFFICES ASSUME BacktestInv, stage.name = "next", ~options.llm, NEW s \in Open,
                      ledger.positions[s].opened < clock
               PROVE  ((candle[s].close - ledger.positions[s].entry) * 1000)
                        \div ledger.positions[s].entry > -HardLossCut
    BY DEF HardLossIsCut
  <2>1. s \in Pairs
    <3>1. ledger.positions \in Tables
      BY DEF BacktestInv, LedgerOK, Ledgers
    <3> QED
      BY <3>1, TableTypes DEF Open
  <2>2. PICK i \in 1 .. Len(Symbols) : Symbols[i] = s
    BY <2>1, PairsFinite
  <2>3. Return(ledger.positions[s], candle[s]) > -HardLossCut
    BY <2>2 DEF BacktestInv, CutsOK, Open
  <2> QED
    BY <2>3 DEF Return
<1> QED
  BY <1>1, BacktestSession, PTL

\* An exit Freqtrade makes is filled at a price the candle traded at, and below
\* what the stop or the table promises only where the candle opened
\* (check_static_exit).
THEOREM ExitsAreAlwaysReal == ReplaysSpec => ExitsAreReal
<1> DEFINE t == ledger'.trades[Len(ledger'.trades)]
           k == candle[t.pair]
           Real == Len(ledger'.trades) > Len(ledger.trades) /\ stage.name = "exits" =>
                     /\ t.exit \in k.low .. k.high
                     /\ t.exit < (t.entry * 920) \div 1000 => t.exit = k.open
                     /\ t.reason = "trailing_stop" /\ t.exit < t.entry => t.exit = k.open
                     /\ t.reason = "minimal_roi" => t.exit >= t.entry
<1>1. ASSUME BacktestInv, Next, Len(ledger'.trades) > Len(ledger.trades), stage.name = "exits"
      PROVE  Real
  <2>1. PICK list \in Seq(Trade) : list = ledger.trades
    BY <1>1 DEF BacktestInv, LedgerOK, Ledgers
  <2>2. ~(Len(list) > Len(list))
    OBVIOUS
  <2>3. ledger'.trades # ledger.trades
    BY <1>1, <2>1, <2>2
  <2>4. StopExit \/ RoiExit
    <3>1. ~NextCandles /\ ~ExitsDone /\ ~DecisionsDone
      BY <2>3 DEF NextCandles, ExitsDone, DecisionsDone
    <3>2. ~StaysOpen /\ ~NotHeld /\ ~DecideNothing
      BY <1>1, <2>3, StaysOpenTurn, NotHeldTurn, DecideNothingTurn
    <3>3. ~DecideEntry /\ ~DecideExit
      BY <1>1 DEF DecideEntry, DecideExit, Turn
    <3> QED
      BY <1>1, <3>1, <3>2, <3>3 DEF Next
  <2>5. ASSUME NEW new \in Trade, Closes(new)
        PROVE  t = new
    <3>1. PICK more : more = Append(list, new)
      OBVIOUS
    <3>2. Len(more) = Len(list) + 1 /\ more[Len(list) + 1] = new
      BY <3>1
    <3>3. ledger'.trades = more
      BY <2>1, <2>5, <3>1 DEF Closes
    <3> QED
      BY <3>2, <3>3
  <2>6. CASE StopExit
    <3>1. PICK new \in Trade :
            /\ Closes(new) /\ new.pair = Current
            /\ new.exit \in candle[Current].low .. candle[Current].high
            /\ new.exit < (new.entry * 920) \div 1000 => new.exit = candle[Current].open
            /\ new.reason = "trailing_stop" /\ new.exit < new.entry => new.exit = candle[Current].open
            /\ new.reason # "minimal_roi"
      BY <1>1, <2>1, <2>6, StopExitTurn
    <3>2. t = new
      BY <2>5, <3>1
    <3> HIDE DEF t
    <3> QED
      BY <3>1, <3>2
  <2>7. CASE RoiExit
    <3>1. PICK new \in Trade :
            /\ Closes(new) /\ new.pair = Current
            /\ new.exit \in candle[Current].low .. candle[Current].high
            /\ new.exit >= (new.entry * 920) \div 1000 /\ new.exit >= new.entry
            /\ (new.entry * 920) \div 1000 \in Int
      BY <1>1, <2>1, <2>7, RoiExitTurn
    <3>2. t = new
      BY <2>5, <3>1
    <3>3. new.exit \in Nat /\ new.entry \in Nat
      BY DEF Trade
    <3>4. PICK floor \in Int : floor = (new.entry * 920) \div 1000
      BY <3>1
    <3>5. ~(new.exit < floor) /\ ~(new.exit < new.entry)
      BY <3>1, <3>3, <3>4
    <3> HIDE DEF t
    <3> QED
      BY <3>1, <3>2, <3>4, <3>5
  <2> QED
    BY <2>4, <2>6, <2>7
<1>2. BacktestInv /\ [ReplaysNext]_<<tool, vars, simVars>> => [Real]_vars
  <2> SUFFICES ASSUME BacktestInv, [ReplaysNext]_<<tool, vars, simVars>>, vars' # vars PROVE Real
    OBVIOUS
  <2>1. Next
    BY DEF ReplaysNext
  <2> HIDE DEF t, k
  <2>2. Len(ledger'.trades) > Len(ledger.trades) /\ stage.name = "exits" => Real
    BY <1>1, <2>1
  <2> QED
    BY <2>2
<1>3. ReplaysSpec => [][Real]_vars
  BY <1>2, BacktestSession, PTL DEF ReplaysSpec
<1> QED
  BY <1>3 DEF ExitsAreReal

-----------------------------------------------------------------------------
(* The account of the ledger, and that of the rules over the same trades.  *)

\* The stakes of the rows, and their results, as sums.
RowStakes(rows) == [p \in DOMAIN rows |-> rows[p].stake]

LEMMA StakesAreSum ==
  ASSUME NEW S, S \subseteq DOMAIN Rows
  PROVE  Engine!Stakes(S) = Sum(RowStakes(Rows), S)
<1> DEFINE pick(s) == CHOOSE x \in s : TRUE
           F == RowStakes(Rows)
           Is(g) == g = [s \in SUBSET S |-> IF s = {} THEN 0 ELSE Rows[pick(s)].stake + g[s \ {pick(s)}]]
<1>1. Engine!Stakes(S) = (CHOOSE g : Is(g))[S]
  BY DEF Engine!Stakes, Engine!MapThenSumSet, Engine!MapThenFoldSet
<1>2. \A s \in SUBSET S : s # {} => pick(s) \in S
  OBVIOUS
<1>3. \A g : Adds(F, S, g) <=> g = [s \in SUBSET S |-> IF s = {} THEN 0 ELSE F[pick(s)] + g[s \ {pick(s)}]]
  BY DEF Adds
<1> HIDE DEF pick
<1>4. \A s \in SUBSET S : s # {} => F[pick(s)] = Rows[pick(s)].stake
  BY <1>2 DEF RowStakes
<1> HIDE DEF F
<1>5. \A g : [s \in SUBSET S |-> IF s = {} THEN 0 ELSE F[pick(s)] + g[s \ {pick(s)}]]
             = [s \in SUBSET S |-> IF s = {} THEN 0 ELSE Rows[pick(s)].stake + g[s \ {pick(s)}]]
  BY <1>4
<1>6. \A g : Adds(F, S, g) <=> Is(g)
  BY <1>3, <1>5
<1> HIDE DEF Is
<1>7. (CHOOSE g : Adds(F, S, g)) = (CHOOSE g : Is(g))
  BY <1>6
<1> QED
  BY <1>1, <1>7 DEF Sum, F

\* The rows' stakes are those of the ledger's table, under the pairs' names.
LEMMA ExposureMirrored ==
  ASSUME ledger.positions \in Tables, NEW n \in Nat, NEW m \in Nat, TableOf(Rows, n, m)
  PROVE  Engine!TotalExposure = Exposure
<1>1. PICK rows : rows = Rows /\ TableOf(rows, n, m)
  OBVIOUS
<1>2. PICK S : S = n + 1 .. n + m /\ IsFiniteSet(S) /\ S \subseteq DOMAIN rows
  <2>1. IsFiniteSet(n + 1 .. n + m)
    <3>1. PICK low \in Int, high \in Int : low = n + 1 /\ high = n + m
      OBVIOUS
    <3>2. IsFiniteSet(low .. high)
      BY FS_Interval
    <3> QED
      BY <3>1, <3>2
  <2>2. n + 1 .. n + m \subseteq DOMAIN rows
    BY <1>1 DEF TableOf
  <2> QED
    BY <2>1, <2>2
<1>3. Engine!TotalExposure = Sum(RowStakes(rows), S)
  <2>1. Engine!TotalExposure = Engine!Stakes(S)
    BY <1>2, RowSets DEF Engine!TotalExposure
  <2>2. Engine!Stakes(S) = Sum(RowStakes(Rows), S)
    BY <1>1, <1>2, StakesAreSum
  <2> QED
    BY <2>1, <2>2, <1>1
<1>4. PICK b : b = [p \in S |-> rows[p].pair]
  OBVIOUS
<1>5. \A p \in S : b[p] \in Open /\ rows[p].stake = ledger.positions[b[p]].stake
  BY <1>1, <1>2, <1>4 DEF TableOf
<1>6. PICK F, G : F = RowStakes(rows) /\ G = StakeIn(ledger.positions)
  OBVIOUS
<1>7. \A p \in S : F[p] \in Int /\ F[p] = G[b[p]]
  <2> TAKE p \in S
  <2>1. F[p] = rows[p].stake
    BY <1>2, <1>6 DEF RowStakes
  <2>2. G[b[p]] = ledger.positions[b[p]].stake /\ ledger.positions[b[p]].stake \in Nat
    BY <1>5, <1>6, TableTypes DEF Open
  <2> QED
    BY <2>1, <2>2, <1>5
<1>8. \A x, y \in S : b[x] = b[y] => x = y
  BY <1>1, <1>2, <1>4 DEF TableOf
<1>9. Sum(F, S) = Sum(G, {b[x] : x \in S})
  <2>1. IsFiniteSet(S)
    BY <1>2
  <2> QED
    BY ONLY <2>1, <1>7, <1>8, SumRenamed
<1>10. {b[x] : x \in S} = Open
  <2>1. \A s \in Open : \E p \in S : rows[p].pair = s
    BY <1>1, <1>2 DEF TableOf
  <2>2. \A s \in Open : \E p \in S : b[p] = s
    BY <2>1, <1>4
  <2> QED
    BY <2>2, <1>5
<1>11. Exposure = Sum(G, Open)
  BY <1>6, ExposureIsSum DEF Staked, Open
<1> QED
  BY <1>3, <1>6, <1>9, <1>10, <1>11

RowResults(rows) == [p \in DOMAIN rows |-> rows[p].result]

LEMMA ResultsAreSum ==
  ASSUME NEW S, S \subseteq DOMAIN Rows
  PROVE  Engine!ResultsOf(S) = Sum(RowResults(Rows), S)
<1> DEFINE pick(s) == CHOOSE x \in s : TRUE
           F == RowResults(Rows)
           Is(g) == g = [s \in SUBSET S |-> IF s = {} THEN 0 ELSE Rows[pick(s)].result + g[s \ {pick(s)}]]
<1>1. Engine!ResultsOf(S) = (CHOOSE g : Is(g))[S]
  BY DEF Engine!ResultsOf, Engine!MapThenSumSet, Engine!MapThenFoldSet
<1>2. \A s \in SUBSET S : s # {} => pick(s) \in S
  OBVIOUS
<1>3. \A g : Adds(F, S, g) <=> g = [s \in SUBSET S |-> IF s = {} THEN 0 ELSE F[pick(s)] + g[s \ {pick(s)}]]
  BY DEF Adds
<1> HIDE DEF pick
<1>4. \A s \in SUBSET S : s # {} => F[pick(s)] = Rows[pick(s)].result
  BY <1>2 DEF RowResults
<1> HIDE DEF F
<1>5. \A g : [s \in SUBSET S |-> IF s = {} THEN 0 ELSE F[pick(s)] + g[s \ {pick(s)}]]
             = [s \in SUBSET S |-> IF s = {} THEN 0 ELSE Rows[pick(s)].result + g[s \ {pick(s)}]]
  BY <1>4
<1>6. \A g : Adds(F, S, g) <=> Is(g)
  BY <1>3, <1>5
<1> HIDE DEF Is
<1>7. (CHOOSE g : Adds(F, S, g)) = (CHOOSE g : Is(g))
  BY <1>6
<1> QED
  BY <1>1, <1>7 DEF Sum, F

\* The trades that closed on the day of this candle.
Today(list) == {i \in DOMAIN list : list[i].closed \div DayLength = clock \div DayLength}

LEMMA DailyPnlIsSum == DailyPnl = Sum(ResultIn(ledger.trades), Today(ledger.trades))
<1> DEFINE S == Today(ledger.trades)
           pick(s) == CHOOSE x \in s : TRUE
           F == ResultIn(ledger.trades)
           Is(g) == g = [s \in SUBSET S |-> IF s = {} THEN 0
                                            ELSE ledger.trades[pick(s)].result + g[s \ {pick(s)}]]
<1>1. DailyPnl = (CHOOSE g : Is(g))[S]
  BY DEF DailyPnl, MapThenSumSet, MapThenFoldSet, Today
<1>2. \A s \in SUBSET S : s # {} => pick(s) \in S
  OBVIOUS
<1>3. \A g : Adds(F, S, g) <=> g = [s \in SUBSET S |-> IF s = {} THEN 0 ELSE F[pick(s)] + g[s \ {pick(s)}]]
  BY DEF Adds
<1> HIDE DEF pick
<1>4. \A s \in SUBSET S : s # {} => F[pick(s)] = ledger.trades[pick(s)].result
  BY <1>2 DEF ResultIn, Today
<1> HIDE DEF F, S
<1>5. \A g : [s \in SUBSET S |-> IF s = {} THEN 0 ELSE F[pick(s)] + g[s \ {pick(s)}]]
             = [s \in SUBSET S |-> IF s = {} THEN 0 ELSE ledger.trades[pick(s)].result + g[s \ {pick(s)}]]
  BY <1>4
<1>6. \A g : Adds(F, S, g) <=> Is(g)
  BY <1>3, <1>5
<1> HIDE DEF Is
<1>7. (CHOOSE g : Adds(F, S, g)) = (CHOOSE g : Is(g))
  BY <1>6
<1> QED
  BY <1>1, <1>7 DEF Sum, F, S

LEMMA DailyMirrored ==
  ASSUME ledger.trades \in Seq(Trade), NEW n \in Nat, NEW m \in Nat, TableOf(Rows, n, m)
  PROVE  Engine!DailyPnl = DailyPnl
<1>1. PICK rows : rows = Rows /\ TableOf(rows, n, m)
  OBVIOUS
<1>2. PICK list : list = ledger.trades
  OBVIOUS
<1>3. n = Len(list) /\ DOMAIN list = 1 .. n
  BY <1>1, <1>2 DEF TableOf
<1>4. \A i \in 1 .. n : /\ rows[i].closed = list[i].closed /\ rows[i].result = list[i].result
                        /\ rows[i].known = TRUE
  BY <1>1, <1>2 DEF TableOf
<1>5. PICK S : S = Today(list)
  OBVIOUS
<1>6. Engine!DailyPnl = Engine!ResultsOf(S)
  <2>1. {p \in 1 .. n : rows[p].known /\ Engine!Day(rows[p].closed) = Engine!Day(clock)} = S
    BY <1>3, <1>4, <1>5 DEF Today, Engine!Day
  <2>2. Engine!Booked = 1 .. n
    BY <1>1, RowSets
  <2> QED
    BY <2>1, <2>2, <1>1 DEF Engine!DailyPnl, Engine!PnlOn
<1>7. IsFiniteSet(S) /\ S \subseteq DOMAIN rows /\ S \subseteq 1 .. n
  <2>1. S \subseteq 1 .. n
    BY <1>3, <1>5 DEF Today
  <2>2. IsFiniteSet(1 .. n)
    BY FS_Interval
  <2>3. DOMAIN rows = 1 .. n + m
    BY <1>1 DEF TableOf
  <2>4. IsFiniteSet(S)
    BY <2>1, <2>2, FS_Subset
  <2>5. 1 .. n \subseteq 1 .. n + m
    OBVIOUS
  <2> QED
    BY <2>1, <2>3, <2>4, <2>5
<1>8. Engine!ResultsOf(S) = Sum(RowResults(rows), S)
  BY <1>1, <1>7, ResultsAreSum
<1>9. PICK F, G : F = RowResults(rows) /\ G = ResultIn(list)
  OBVIOUS
<1>10. \A i \in S : F[i] = G[i]
  BY <1>3, <1>4, <1>7, <1>9 DEF RowResults, ResultIn
<1>11. Sum(F, S) = Sum(G, S)
  <2>1. IsFiniteSet(S)
    BY <1>7
  <2> QED
    BY ONLY <2>1, <1>10, SumSame
<1>12. DailyPnl = Sum(G, S)
  BY <1>2, <1>5, <1>9, DailyPnlIsSum
<1> QED
  BY <1>6, <1>8, <1>9, <1>11, <1>12

\* The list is in the order of the closes; the last close of a pair is the newest
\* of its trades; the streak stops at a trade that is no loss, unless a trip
\* forgot it.
MirrorOK(list, last, streak, forgets, at) ==
    /\ \A i \in 1 .. Len(list) : list[i].closed <= at
    /\ \A i, j \in 1 .. Len(list) : i <= j => list[i].closed <= list[j].closed
    /\ \A i \in 1 .. Len(list) : list[i].closed <= last[list[i].pair]
    /\ \A s \in Pairs : \/ last[s] = -Cooldown /\ \A i \in 1 .. Len(list) : list[i].pair # s
                        \/ \E i \in 1 .. Len(list) : list[i].pair = s /\ list[i].closed = last[s]
    /\ ~forgets => \A i \in 1 .. Len(list) : i + streak = Len(list) => list[i].result >= 0

MirrorInv ==
    MirrorOK(ledger.trades, ledger.lastClosed, ledger.streak, options.ignoreSwitch, clock)

LEMMA MirrorInit == Init => MirrorInv
<1> SUFFICES ASSUME Init PROVE MirrorInv
  OBVIOUS
<1>1. PICK list, last : /\ list = ledger.trades /\ last = ledger.lastClosed
                        /\ list = <<>> /\ last = [s \in Pairs |-> -Cooldown]
  BY DEF Init
<1>2. Len(list) = 0 /\ 1 .. Len(list) = {}
  BY <1>1
<1>3. \A s \in Pairs : last[s] = -Cooldown
  BY <1>1
<1> QED
  BY ONLY <1>1, <1>2, <1>3 DEF MirrorInv, MirrorOK

\* A trade that closes now is appended, as the ledger appends it.
Extends(list, last, streak, at, t, more, newest, run) ==
    /\ t.closed = at
    /\ more = Append(list, t)
    /\ newest = [last EXCEPT ![t.pair] = at]
    /\ run = IF t.result < 0 THEN streak + 1 ELSE 0

LEMMA MirrorAppends ==
  ASSUME NEW list, list \in Seq(Trade), NEW last, last \in [Pairs -> Int],
         NEW streak \in Nat, streak <= Len(list), NEW forgets, NEW at \in Nat,
         MirrorOK(list, last, streak, forgets, at),
         NEW t, t \in Trade, NEW more, NEW newest, NEW run,
         Extends(list, last, streak, at, t, more, newest, run)
  PROVE  MirrorOK(more, newest, run, forgets, at)
<1>a. /\ t.closed = at /\ more = Append(list, t) /\ newest = [last EXCEPT ![t.pair] = at]
      /\ run = IF t.result < 0 THEN streak + 1 ELSE 0
  BY DEF Extends
<1>1. PICK n \in Nat : n = Len(list) /\ Len(more) = n + 1
  BY <1>a
<1>2. more[n + 1] = t /\ \A i \in 1 .. n : more[i] = list[i]
  BY <1>1, <1>a
<1>3. \A i \in 1 .. n : list[i] \in Trade
  BY <1>1
<1>4. /\ \A i \in 1 .. n : list[i].closed \in Nat /\ list[i].pair \in Pairs
      /\ t.pair \in Pairs /\ t.result \in Int
  <2>1. \A x \in Trade : x.closed \in Nat /\ x.pair \in Pairs /\ x.result \in Int
    BY BacktestConstants DEF Trade
  <2> QED
    BY <1>3, <2>1
<1>5. newest[t.pair] = at /\ \A s \in Pairs : s # t.pair => newest[s] = last[s]
  BY <1>4, <1>a
<1>6. \A i \in 1 .. n + 1 : i \in 1 .. n \/ i = n + 1
  OBVIOUS
<1>7. \A i \in 1 .. n + 1 : more[i].closed <= at
  BY <1>1, <1>2, <1>6, <1>a DEF MirrorOK
<1>8. \A i, j \in 1 .. n + 1 : i <= j => more[i].closed <= more[j].closed
  <2> SUFFICES ASSUME NEW i \in 1 .. n + 1, NEW j \in 1 .. n + 1, i <= j
               PROVE  more[i].closed <= more[j].closed
    OBVIOUS
  <2>1. CASE j = n + 1
    BY <2>1, <1>2, <1>7, <1>a
  <2>2. CASE j # n + 1
    <3>1. i \in 1 .. n /\ j \in 1 .. n
      BY <2>2
    <3>2. list[i].closed <= list[j].closed
      BY <3>1, <1>1 DEF MirrorOK
    <3> QED
      BY <3>1, <3>2, <1>2
  <2> QED
    BY <2>1, <2>2
<1>9. \A i \in 1 .. n + 1 : more[i].closed <= newest[more[i].pair]
  <2> TAKE i \in 1 .. n + 1
  <2>1. CASE i = n + 1
    BY <2>1, <1>2, <1>5, <1>a
  <2>2. CASE i \in 1 .. n
    <3>1. more[i] = list[i] /\ list[i].closed <= at /\ list[i].closed <= last[list[i].pair]
      BY <2>2, <1>1, <1>2 DEF MirrorOK
    <3>2. CASE list[i].pair = t.pair
      BY <3>1, <3>2, <1>5
    <3>3. CASE list[i].pair # t.pair
      BY <3>1, <3>3, <2>2, <1>4, <1>5
    <3> QED
      BY <3>2, <3>3
  <2> QED
    BY <2>1, <2>2, <1>6
<1>10. ASSUME NEW s \in Pairs
       PROVE  \/ newest[s] = -Cooldown /\ \A i \in 1 .. n + 1 : more[i].pair # s
              \/ \E i \in 1 .. n + 1 : more[i].pair = s /\ more[i].closed = newest[s]
  <2>1. n + 1 \in 1 .. n + 1
    OBVIOUS
  <2>2. CASE s = t.pair
    BY <2>1, <2>2, <1>2, <1>5, <1>a
  <2>3. CASE s # t.pair
    <3>1. newest[s] = last[s] /\ more[n + 1].pair # s
      BY <2>3, <1>2, <1>5
    <3>2. CASE last[s] = -Cooldown /\ \A i \in 1 .. n : list[i].pair # s
      BY <3>1, <3>2, <1>2, <1>6
    <3>3. CASE \E i \in 1 .. n : list[i].pair = s /\ list[i].closed = last[s]
      <4>1. PICK i \in 1 .. n : list[i].pair = s /\ list[i].closed = last[s]
        BY <3>3
      <4>2. i \in 1 .. n + 1
        OBVIOUS
      <4> QED
        BY <4>1, <4>2, <3>1, <1>2
    <3> QED
      BY <3>2, <3>3, <1>1 DEF MirrorOK
  <2> QED
    BY <2>2, <2>3
<1>11. ASSUME ~forgets, NEW i \in 1 .. n + 1, i + run = n + 1
       PROVE  more[i].result >= 0
  <2>1. CASE t.result < 0
    <3>1. i + streak = n /\ i \in 1 .. n
      BY <2>1, <1>11, <1>1, <1>a
    <3>2. list[i].result >= 0
      BY <3>1, <1>1, <1>11 DEF MirrorOK
    <3> QED
      BY <3>1, <3>2, <1>2
  <2>2. CASE ~(t.result < 0)
    <3>1. i = n + 1
      BY <2>2, <1>11, <1>a
    <3> QED
      BY <3>1, <2>2, <1>2, <1>4
  <2> QED
    BY <2>1, <2>2
<1> QED
  BY ONLY <1>1, <1>7, <1>8, <1>9, <1>10, <1>11 DEF MirrorOK

\* The clock may go on, and a trip that is ignored may forget the streak.
LEMMA MirrorStays ==
  ASSUME NEW list, list \in Seq(Trade), NEW last, NEW streak, NEW forgets, NEW at \in Nat,
         MirrorOK(list, last, streak, forgets, at),
         NEW later \in Nat, at <= later, NEW run, run = streak \/ forgets
  PROVE  MirrorOK(list, last, run, forgets, later)
<1>1. \A i \in 1 .. Len(list) : list[i].closed <= later
  <2> TAKE i \in 1 .. Len(list)
  <2>1. \A x \in Trade : x.closed \in Nat
    BY BacktestConstants DEF Trade
  <2>2. list[i].closed \in Nat
    BY <2>1
  <2>3. list[i].closed <= at
    BY DEF MirrorOK
  <2> QED
    BY <2>2, <2>3
<1> QED
  BY <1>1 DEF MirrorOK

\* Entries, refusals and the turns without one leave the trades and the closes
\* alone, and the streak unless an ignored trip forgets it.
Undisturbed(l, old, forgets) ==
    /\ l.trades = old.trades /\ l.lastClosed = old.lastClosed
    /\ l.streak = old.streak \/ (forgets /\ l.streak = 0)

LEMMA StepRecords ==
  ASSUME BacktestInv, Next
  PROVE  /\ options' = options
         /\ \/ clock' = clock /\ \E t \in Trade : Closes(t)
            \/ /\ clock' = clock \/ clock' = clock + 1
               /\ Undisturbed(ledger', ledger, options.ignoreSwitch)
<1>1. PICK old \in Ledgers : old = ledger
  BY DEF BacktestInv, LedgerOK
<1>2. CASE StopExit
  <2>1. options' = options /\ clock' = clock
    BY <1>2 DEF StopExit
  <2>2. \E t \in Trade : Closes(t)
    BY <1>2, StopExitTurn
  <2> QED
    BY <2>1, <2>2
<1>3. CASE RoiExit
  <2>1. options' = options /\ clock' = clock
    BY <1>3 DEF RoiExit
  <2>2. \E t \in Trade : Closes(t)
    BY <1>3, RoiExitTurn
  <2> QED
    BY <2>1, <2>2
<1>4. CASE DecideExit
  <2>1. options' = options /\ clock' = clock
    BY <1>4 DEF DecideExit
  <2>2. \E t \in Trade : Closes(t)
    BY <1>4, DecideExitTurn
  <2> QED
    BY <2>1, <2>2
<1>5. CASE StaysOpen
  <2>1. PICK p : p = Seen(ledger.positions[Current], candle[Current])
    OBVIOUS
  <2>2. options' = options /\ clock' = clock /\ ledger' = [old EXCEPT !.positions[Current] = p]
    BY <1>1, <1>5, <2>1 DEF StaysOpen
  <2>3. PICK any : any = [old.positions EXCEPT ![Current] = p]
    OBVIOUS
  <2>4. ledger' = [old EXCEPT !.positions = any]
    BY <2>2, <2>3
  <2>5. PICK l : l = ledger' /\ l = [old EXCEPT !.positions = any]
    BY <2>4
  <2>6. l.trades = old.trades /\ l.lastClosed = old.lastClosed /\ l.streak = old.streak
    <3> HIDE DEF Tables, Trade
    <3> QED
      BY ONLY <2>5, old \in Ledgers DEF Ledgers
  <2> QED
    BY <1>1, <2>2, <2>5, <2>6 DEF Undisturbed
<1>6. CASE DecideEntry
  <2>1. options' = options /\ clock' = clock
    BY <1>6 DEF DecideEntry
  <2>2. PICK m, sig : Enter(Current, m, sig) \/ Refuse(sig)
    BY <1>6 DEF DecideEntry
  <2>3. CASE Enter(Current, m, sig)
    <3>1. PICK any : any = With(old.positions, Current, NewPosition(sig, m))
      OBVIOUS
    <3>2. PICK l : l = ledger' /\ l = [old EXCEPT !.positions = any]
      BY <1>1, <2>3, <3>1 DEF Enter
    <3>3. l.trades = old.trades /\ l.lastClosed = old.lastClosed /\ l.streak = old.streak
      <4> HIDE DEF Tables, Trade
      <4> QED
        BY ONLY <3>2, old \in Ledgers DEF Ledgers
    <3> QED
      BY <1>1, <2>1, <3>2, <3>3 DEF Undisturbed
  <2>4. CASE Refuse(sig)
    <3>1. PICK trips, n :
            /\ trips = (old.tripped \/ Engine!Verdict(sig, LedgerAccount) \in Engine!Trips)
            /\ n = IF /\ Engine!Verdict(sig, LedgerAccount) \in Engine!Trips
                      /\ options.ignoreSwitch
                   THEN 0 ELSE old.streak
      OBVIOUS
    <3>2. n = old.streak \/ (options.ignoreSwitch /\ n = 0)
      BY <3>1
    <3>3. PICK l : l = ledger' /\ l = [old EXCEPT !.tripped = trips, !.streak = n]
      BY <1>1, <2>4, <3>1 DEF Refuse
    <3>4. /\ l.trades = old.trades /\ l.lastClosed = old.lastClosed /\ l.streak = n
      <4> HIDE DEF Tables, Trade
      <4> QED
        BY ONLY <3>3, old \in Ledgers DEF Ledgers
    <3> QED
      BY <1>1, <2>1, <3>2, <3>3, <3>4 DEF Undisturbed
  <2> QED
    BY <2>2, <2>3, <2>4
<1>7. CASE NextCandles
  BY <1>7 DEF NextCandles, Undisturbed
<1>8. CASE NotHeld \/ ExitsDone \/ DecideNothing \/ DecisionsDone
  <2>1. options' = options /\ clock' = clock /\ ledger' = ledger
    BY <1>8 DEF NotHeld, ExitsDone, DecideNothing, DecisionsDone
  <2> QED
    BY <2>1 DEF Undisturbed
<1> QED
  BY <1>2, <1>3, <1>4, <1>5, <1>6, <1>7, <1>8 DEF Next

LEMMA MirrorStep ==
  ASSUME BacktestInv, MirrorInv, [Next]_vars
  PROVE  MirrorInv'
<1>a. PICK list, last, forgets :
        list = ledger.trades /\ last = ledger.lastClosed /\ forgets = options.ignoreSwitch
  OBVIOUS
<1>b. PICK streak \in Nat, at \in Nat : streak = ledger.streak /\ at = clock
  BY BacktestConstants DEF BacktestInv, LedgerOK, Ledgers, StageOK
<1>1. /\ list = ledger.trades /\ last = ledger.lastClosed /\ streak = ledger.streak /\ at = clock
      /\ forgets = options.ignoreSwitch
  BY <1>a, <1>b
<1>2. list \in Seq(Trade) /\ last \in [Pairs -> Int] /\ streak <= Len(list)
  BY <1>1 DEF BacktestInv, LedgerOK, Ledgers
<1>3. MirrorOK(list, last, streak, forgets, at)
  BY <1>1 DEF MirrorInv
<1>c. ASSUME Next PROVE options'.ignoreSwitch = forgets
  <2>1. options' = options
    BY <1>c, StepRecords
  <2> QED
    BY <2>1, <1>a
<1>4. CASE UNCHANGED vars
  BY <1>4 DEF MirrorInv, vars
<1>5. CASE Next /\ clock' = clock /\ \E t \in Trade : Closes(t)
  <2>1. PICK t \in Trade : Closes(t)
    BY <1>5
  <2>a. PICK more, newest : more = Append(list, t) /\ newest = [last EXCEPT ![t.pair] = at]
    OBVIOUS
  <2>b. PICK run \in Nat : run = IF t.result < 0 THEN streak + 1 ELSE 0
    OBVIOUS
  <2>2. /\ more = Append(list, t) /\ newest = [last EXCEPT ![t.pair] = at]
        /\ run = IF t.result < 0 THEN streak + 1 ELSE 0
    BY <2>a, <2>b
  <2>3. /\ ledger'.trades = more /\ ledger'.lastClosed = newest /\ ledger'.streak = run
        /\ t.closed = at
    BY <1>1, <2>1, <2>2 DEF Closes
  <2>4. MirrorOK(more, newest, run, forgets, at)
    <3>1. Extends(list, last, streak, at, t, more, newest, run)
      BY <2>2, <2>3 DEF Extends
    <3>2. list \in Seq(Trade) /\ last \in [Pairs -> Int] /\ streak <= Len(list)
      BY <1>2
    <3> HIDE DEF Trade, Pairs
    <3> QED
      BY ONLY <3>1, <3>2, <1>3, at \in Nat, streak \in Nat, t \in Trade, MirrorAppends
  <2>5. options'.ignoreSwitch = forgets /\ clock' = at
    BY <1>1, <1>5, <1>c
  <2> QED
    BY <2>3, <2>4, <2>5 DEF MirrorInv
<1>6. CASE /\ Next
           /\ clock' = clock \/ clock' = clock + 1
           /\ Undisturbed(ledger', ledger, options.ignoreSwitch)
  <2>1. PICK later \in Nat : later = clock' /\ at <= later
    BY <1>1, <1>6
  <2>2. PICK run : run = ledger'.streak /\ (run = streak \/ forgets)
    BY <1>1, <1>6 DEF Undisturbed
  <2>3. MirrorOK(list, last, run, forgets, later)
    BY ONLY <1>2, <1>3, <2>1, <2>2, at \in Nat, later \in Nat, MirrorStays
  <2>4. ledger'.trades = list /\ ledger'.lastClosed = last
    BY <1>1, <1>6 DEF Undisturbed
  <2>5. options'.ignoreSwitch = forgets
    BY <1>6, <1>c
  <2> QED
    BY <2>1, <2>2, <2>3, <2>4, <2>5 DEF MirrorInv
<1> QED
  BY <1>4, <1>5, <1>6, StepRecords

LEMMA MirrorSession == ReplaysSpec => [](BacktestInv /\ MirrorInv)
<1>1. ReplaysInit => MirrorInv
  BY MirrorInit DEF ReplaysInit
<1>2. BacktestInv /\ MirrorInv /\ [ReplaysNext]_<<tool, vars, simVars>> => MirrorInv'
  <2> SUFFICES ASSUME BacktestInv, MirrorInv, [ReplaysNext]_<<tool, vars, simVars>> PROVE MirrorInv'
    OBVIOUS
  <2>1. [Next]_vars
    BY DEF ReplaysNext
  <2> QED
    BY <2>1, MirrorStep
<1> QED
  BY <1>1, <1>2, BacktestSession, PTL DEF ReplaysSpec

\* The newest close of a pair's trades is what the ledger remembers.
LEMMA LastMirrored ==
  ASSUME ledger.trades \in Seq(Trade), ledger.lastClosed \in [Pairs -> Int], MirrorInv,
         NEW n \in Nat, NEW m \in Nat, TableOf(Rows, n, m), NEW s \in Pairs
  PROVE  ledger.lastClosed[s] = Engine!LastClosed(s)
<1>1. PICK rows, list : rows = Rows /\ TableOf(rows, n, m) /\ list = ledger.trades
  OBVIOUS
<1>2. PICK last \in Int : last = ledger.lastClosed[s]
  OBVIOUS
<1>3. n = Len(list) /\ \A i \in 1 .. n : rows[i].pair = list[i].pair /\ rows[i].closed = list[i].closed
  BY <1>1 DEF TableOf
<1>4. PICK times : times = {rows[p].closed : p \in {b \in 1 .. n : rows[b].pair = s}}
  OBVIOUS
<1>5. Engine!LastClosed(s) = IF times = {} THEN -Cooldown ELSE Max(times)
  <2>1. Engine!Booked = 1 .. n
    BY <1>1, RowSets
  <2> QED
    BY <2>1, <1>1, <1>4, EngineExtremes DEF Engine!LastClosed
<1>6. \A i \in 1 .. n : list[i].closed \in Int
  <2>1. \A x \in Trade : x.closed \in Int
    BY BacktestConstants DEF Trade
  <2>2. list \in Seq(Trade)
    BY <1>1
  <2> QED
    BY <2>1, <2>2, <1>3
<1>7. \A t \in times : t \in Int /\ t <= last
  <2> SUFFICES ASSUME NEW i \in 1 .. n, rows[i].pair = s
               PROVE  rows[i].closed \in Int /\ rows[i].closed <= last
    BY <1>4
  <2>1. list[i].pair = s /\ rows[i].closed = list[i].closed
    BY <1>3
  <2>2. list[i].closed <= ledger.lastClosed[list[i].pair]
    BY <1>1, <1>3 DEF MirrorInv, MirrorOK
  <2> QED
    BY <2>1, <2>2, <1>2, <1>6
<1>8. CASE last = -Cooldown /\ \A i \in 1 .. n : list[i].pair # s
  <2>1. times = {}
    BY <1>3, <1>4, <1>8
  <2> QED
    BY <2>1, <1>2, <1>5, <1>8
<1>9. CASE \E i \in 1 .. n : list[i].pair = s /\ list[i].closed = last
  <2>1. last \in times
    BY <1>3, <1>4, <1>9
  <2>2. Max(times) = last
    <3>1. \A x \in times : (\A y \in times : x >= y) => x = last
      BY <2>1, <1>7
    <3>2. \A y \in times : last >= y
      BY <1>7
    <3> QED
      BY <2>1, <3>1, <3>2 DEF Max
  <2> QED
    BY <2>1, <2>2, <1>2, <1>5
<1> QED
  BY <1>1, <1>2, <1>3, <1>8, <1>9 DEF MirrorInv, MirrorOK

\* There are no more events than times.
LEMMA EventsAreFew ==
  ASSUME NEW last \in Nat, NEW times \in SUBSET (0 .. last)
  PROVE  Engine!LossEvents(times) \in Nat /\ Engine!LossEvents(times) <= Cardinality(times)
<1> DEFINE Is(f) == f = [t \in Nat |-> IF {u \in times : u >= t} = {} THEN 0
                           ELSE 1 + f[Engine!Min({u \in times : u >= t}) + ClusterWindow + 1]]
           walk == CHOOSE f : Is(f)
<1>1. Engine!LossEvents(times) = walk[0]
  BY DEF Engine!LossEvents
<1>2. \A f : Walks(ClusterWindow, times, f) <=> Is(f)
  BY EngineExtremes DEF Walks, Counted, From
<1> HIDE DEF Is
<1>a. ClusterWindow \in Nat
  BY BacktestAssumption
<1>3. Is(walk)
  <2>1. \E f : Walks(ClusterWindow, times, f)
    BY <1>a, WalkExists
  <2> QED
    BY <1>2, <2>1
<1>4. Walks(ClusterWindow, times, walk)
  BY <1>2, <1>3
<1> HIDE DEF walk
<1>5. PICK zero \in Nat : zero = 0
  OBVIOUS
<1>6. Exact(ClusterWindow, times, zero, walk[zero])
  BY <1>a, <1>4, WalkCounts
<1>7. From(times, zero) = times
  <2>1. times \in SUBSET Nat
    <3>1. 0 .. last \subseteq Nat
      OBVIOUS
    <3> QED
      BY <3>1
  <2> QED
    BY <1>5, <2>1, AllFromZero
<1>8. PICK events \in Nat : events = walk[zero] /\ Exact(ClusterWindow, times, zero, events)
  BY <1>6 DEF Exact
<1>9. PICK T \in SUBSET times : Cardinality(T) = events
  BY <1>7, <1>8 DEF Exact
<1>10. Cardinality(T) <= Cardinality(times)
  <2>1. IsFiniteSet(0 .. last)
    BY FS_Interval
  <2>2. IsFiniteSet(times)
    BY <2>1, FS_Subset
  <2> QED
    BY <2>2, FS_Subset
<1> QED
  BY <1>1, <1>5, <1>8, <1>9, <1>10

\* The losses that the rule counts for certain are the newest trades, no more
\* than the ledger's streak.
LEMMA StreakMirrored ==
  ASSUME BacktestInv, MirrorInv, NEW n \in Nat, NEW m \in Nat, TableOf(Rows, n, m),
         ~options.ignoreSwitch
  PROVE  ledger.streak >= Engine!LossEvents(Engine!TimesOf(Engine!Certain))
<1>1. PICK rows, list : rows = Rows /\ TableOf(rows, n, m) /\ list = ledger.trades
  OBVIOUS
<1>2. /\ n = Len(list)
      /\ \A i \in 1 .. n : /\ rows[i].known = TRUE /\ rows[i].result = list[i].result
                           /\ rows[i].closed = list[i].closed
  BY <1>1 DEF TableOf
<1>3. list \in Seq(Trade)
  BY <1>1 DEF BacktestInv, LedgerOK, Ledgers
<1>4. \A i \in 1 .. n : list[i].closed \in Nat /\ list[i].closed > 0 /\ list[i].result \in Int
  <2>1. \A x \in Trade : x.closed \in Nat /\ x.closed > 0 /\ x.result \in Int
    BY BacktestConstants DEF Trade
  <2> QED
    BY <1>2, <1>3, <2>1
<1>5. PICK streak \in Nat : streak = ledger.streak /\ streak <= n
  BY <1>1, <1>2 DEF BacktestInv, LedgerOK, Ledgers
<1>6. /\ \A i, j \in 1 .. n : i <= j => list[i].closed <= list[j].closed
      /\ \A i \in 1 .. n : i + streak = n => list[i].result >= 0
      /\ \A i \in 1 .. n : list[i].closed <= clock
  BY <1>1, <1>2, <1>5 DEF MirrorInv, MirrorOK
<1>7. Engine!AfterReset = 1 .. n
  <2>1. Engine!Booked = 1 .. n
    BY <1>1, RowSets
  <2>2. \A p \in 1 .. n : rows[p].closed > 0
    BY <1>2, <1>4
  <2> QED
    BY <2>1, <2>2, <1>1 DEF Engine!AfterReset
<1>8. \A p \in 1 .. n : Engine!IsLoss(p) <=> list[p].result < 0
  BY <1>1, <1>2 DEF Engine!IsLoss
<1>9. PICK S : S = Engine!Certain /\ S \subseteq 1 .. n
  BY <1>7 DEF Engine!Certain
<1>10. \A p \in S : \A q \in 1 .. n : list[q].result < 0 \/ list[q].closed < list[p].closed
  <2>1. \A p \in S : \A q \in 1 .. n : Engine!IsLoss(q) \/ rows[q].closed < rows[p].closed
    BY <1>1, <1>7, <1>9 DEF Engine!Certain
  <2> QED
    BY <2>1, <1>2, <1>8, <1>9
<1>11. PICK low \in Int, high \in Int : low = n - streak + 1 /\ high = n
  OBVIOUS
<1>12. S \subseteq low .. high
  <2> SUFFICES ASSUME NEW p \in S, p < low PROVE FALSE
    BY <1>9, <1>11
  <2>1. PICK q \in 1 .. n : q + streak = n /\ p <= q
    <3>1. p \in 1 .. n /\ p <= n - streak
      BY <1>9, <1>11
    <3>2. n - streak \in 1 .. n /\ (n - streak) + streak = n
      BY <3>1, <1>5
    <3> QED
      BY <3>1, <3>2
  <2>2. list[q].result >= 0 /\ list[p].closed <= list[q].closed
    BY <2>1, <1>6, <1>9
  <2>3. list[q].closed < list[p].closed
    BY <2>2, <1>4, <1>10
  <2> QED
    BY <2>2, <2>3, <1>4, <1>9
<1>13. IsFiniteSet(S) /\ Cardinality(S) <= streak /\ Cardinality(S) \in Nat
  <2>1. IsFiniteSet(low .. high) /\ Cardinality(low .. high) = IF low > high THEN 0 ELSE high - low + 1
    BY FS_Interval
  <2>2. Cardinality(low .. high) <= streak
    BY <2>1, <1>5, <1>11
  <2>3. IsFiniteSet(S) /\ Cardinality(S) <= Cardinality(low .. high)
    BY <2>1, <1>12, FS_Subset
  <2>4. Cardinality(S) \in Nat /\ Cardinality(low .. high) \in Nat
    BY <2>1, <2>3, FS_CardinalityType
  <2> QED
    BY <2>2, <2>3, <2>4
<1>14. PICK times : times = Engine!TimesOf(S) /\ times = {rows[p].closed : p \in S}
  BY <1>1 DEF Engine!TimesOf
<1>15. clock \in Nat
  BY BacktestConstants DEF BacktestInv, StageOK
<1>16. times \in SUBSET (0 .. clock)
  <2>1. \A p \in S : rows[p].closed \in 0 .. clock
    BY <1>2, <1>4, <1>6, <1>9, <1>15
  <2> QED
    BY <2>1, <1>14
<1>17. Cardinality(times) <= Cardinality(S) /\ Cardinality(times) \in Nat
  <2> DEFINE h == [p \in S |-> rows[p].closed]
  <2>1. h \in Surjection(S, times)
    BY <1>14 DEF Surjection
  <2> QED
    BY <2>1, <1>13, FS_Surjection, FS_CardinalityType
<1>18. Engine!LossEvents(times) \in Nat /\ Engine!LossEvents(times) <= Cardinality(times)
  BY <1>15, <1>16, EventsAreFew
<1>19. Engine!LossEvents(times) <= streak
  BY <1>13, <1>17, <1>18
<1> QED
  BY <1>5, <1>9, <1>14, <1>18, <1>19

\* Over any history the account of the ledger is the one load_account_state reads
\* from the same trades as rows of the positions table: the open symbols, the
\* exposure, the day's result and each pair's last close agree, and the streak is
\* never shorter than the loss events the rule counts (ledger.py "In-memory mirror
\* of load_account_state").
THEOREM AccountIsAlwaysMirrored == ReplaysSpec => []AccountMirrored
<1>1. BacktestInv /\ MirrorInv => AccountMirrored
  <2> SUFFICES ASSUME BacktestInv, MirrorInv PROVE AccountMirrored
    OBVIOUS
  <2>1. /\ ledger.positions \in Tables /\ ledger.trades \in Seq(Trade)
        /\ ledger.lastClosed \in [Pairs -> Int]
    BY DEF BacktestInv, LedgerOK, Ledgers
  <2>2. PICK n \in Nat, m \in Nat : TableOf(Rows, n, m)
    BY <2>1, RowsAre
  <2>3. Open = Engine!OpenSymbols
    BY <2>2, SymbolsMirrored
  <2>4. Exposure = Engine!TotalExposure
    BY <2>1, <2>2, ExposureMirrored
  <2>5. DailyPnl = Engine!DailyPnl
    BY <2>1, <2>2, DailyMirrored
  <2>6. \A s \in Pairs : ledger.lastClosed[s] = Engine!LastClosed(s)
    BY <2>1, <2>2, LastMirrored
  <2>7. ~options.ignoreSwitch => ledger.streak >= Engine!LossEvents(Engine!TimesOf(Engine!Certain))
    BY <2>2, StreakMirrored
  <2>8. PICK mirror : mirror = LedgerAccount
    OBVIOUS
  <2>9. /\ mirror.symbols = Open /\ mirror.exposure = Exposure /\ mirror.daily = DailyPnl
        /\ mirror.lastClosed = ledger.lastClosed /\ mirror.losses = ledger.streak
    BY <2>8 DEF LedgerAccount
  <2> QED
    BY ONLY <2>3, <2>4, <2>5, <2>6, <2>7, <2>8, <2>9 DEF AccountMirrored
<1> QED
  BY <1>1, MirrorSession, PTL

-----------------------------------------------------------------------------
(* The journal of a mechanical run.                                        *)

KeysOf(list) == {<<list[i].pair, list[i].opened>> : i \in 1 .. Len(list)}

\* A trade has its pair and its candle of entry for itself: a position was opened
\* after every trade of its pair.  What makes nothing is worth no risk.
TradesOK(list, tab) ==
    /\ \A i, k \in 1 .. Len(list) :
          list[i].pair = list[k].pair /\ list[i].opened = list[k].opened => i = k
    /\ \A i \in 1 .. Len(list) :
          list[i].pair \in DOMAIN tab => list[i].opened < tab[list[i].pair].opened
    /\ \A i \in 1 .. Len(list) : list[i].result = 0 => list[i].r \in {0, NoValue}

\* Every open position and every trade has the dimensions of a market.
JournalOK(entries, kept, list, tab) ==
    /\ DOMAIN entries = DOMAIN tab /\ \A s \in DOMAIN tab : entries[s] \in Profile
    /\ DOMAIN kept = KeysOf(list) /\ \A key \in KeysOf(list) : kept[key] \in Profile

JournalInv ==
    /\ TradesOK(ledger.trades, ledger.positions)
    /\ ~options.llm => JournalOK(journal.entry, journal.trade, ledger.trades, ledger.positions)
    /\ DOMAIN journal = {"entry", "trade"}

LEMMA JournalInit == Init => JournalInv
<1> SUFFICES ASSUME Init PROVE JournalInv
  OBVIOUS
<1>1. PICK none : none = <<>> /\ Len(none) = 0 /\ DOMAIN none = {}
  OBVIOUS
<1>2. ledger.trades = none /\ ledger.positions = none /\ journal = [entry |-> none, trade |-> none]
  BY <1>1 DEF Init
<1>3. 1 .. Len(none) = {} /\ KeysOf(none) = {}
  BY <1>1 DEF KeysOf
<1>4. TradesOK(none, none) /\ JournalOK(none, none, none, none)
  BY <1>1, <1>3 DEF TradesOK, JournalOK
<1> QED
  BY <1>2, <1>4 DEF JournalInv

\* Each step closes a position, opens one, or leaves the table as it was.
LEMMA StepMoves ==
  ASSUME BacktestInv, Next
  PROVE  (\E t \in Trade : Closes(t)) \/ (\E s \in Pairs : Opens(s)) \/ Keeps
<1>1. CASE StopExit BY <1>1, StopExitTurn
<1>2. CASE RoiExit BY <1>2, RoiExitTurn
<1>3. CASE DecideExit BY <1>3, DecideExitTurn
<1>4. CASE StaysOpen BY <1>4, StaysOpenTurn
<1>5. CASE DecideEntry
  <2>1. Opens(Current) \/ Keeps
    BY <1>5, DecideEntryTurn
  <2>2. Opens(Current) => Current \in Pairs
    BY DEF Opens
  <2> QED
    BY <2>1, <2>2
<1>6. CASE NextCandles \/ NotHeld \/ ExitsDone \/ DecideNothing \/ DecisionsDone
  <2>1. ledger' = ledger /\ journal' = journal
    BY <1>6 DEF NextCandles, NotHeld, ExitsDone, DecideNothing, DecisionsDone
  <2> QED
    BY <2>1 DEF Keeps, Open
<1> QED
  BY <1>1, <1>2, <1>3, <1>4, <1>5, <1>6 DEF Next

\* The trade of a position that leaves the table.
Leaves(list, tab, t, more, less) ==
    /\ list \in Seq(Trade) /\ t \in Trade /\ more = Append(list, t)
    /\ t.pair \in DOMAIN tab /\ t.opened = tab[t.pair].opened
    /\ DOMAIN less = DOMAIN tab \ {t.pair} /\ \A x \in DOMAIN less : less[x] = tab[x]
    /\ t.result = 0 => t.r \in {0, NoValue}

LEMMA TradesClose ==
  ASSUME NEW list, NEW tab, TradesOK(list, tab), NEW t, NEW more, NEW less,
         Leaves(list, tab, t, more, less)
  PROVE  TradesOK(more, less) /\ KeysOf(more) = KeysOf(list) \cup {<<t.pair, t.opened>>}
<1>a. /\ list \in Seq(Trade) /\ t \in Trade /\ more = Append(list, t)
      /\ t.pair \in DOMAIN tab /\ t.opened = tab[t.pair].opened
      /\ DOMAIN less = DOMAIN tab \ {t.pair} /\ \A x \in DOMAIN less : less[x] = tab[x]
      /\ t.result = 0 => t.r \in {0, NoValue}
  BY DEF Leaves
<1>1. PICK n \in Nat : n = Len(list) /\ Len(more) = n + 1
  BY <1>a
<1>2. more[n + 1] = t /\ \A i \in 1 .. n : more[i] = list[i] /\ list[i] \in Trade
  BY <1>1, <1>a
<1>3. \A i \in 1 .. n + 1 : i \in 1 .. n \/ i = n + 1
  OBVIOUS
<1>4. \A x \in Trade : x.opened \in Int
  BY DEF Trade
<1>5. ASSUME NEW i \in 1 .. n, list[i].pair = t.pair PROVE list[i].opened < t.opened
  BY <1>1, <1>5, <1>a DEF TradesOK
<1>6. ASSUME NEW i \in 1 .. n, list[i].pair = t.pair PROVE list[i].opened # t.opened
  <2>1. list[i].opened \in Int /\ t.opened \in Int
    BY <1>2, <1>4, <1>a
  <2> QED
    BY <2>1, <1>5, <1>6
<1>7. ASSUME NEW i \in 1 .. n + 1, NEW k \in 1 .. n + 1,
             more[i].pair = more[k].pair, more[i].opened = more[k].opened
      PROVE  i = k
  <2>1. CASE i \in 1 .. n /\ k \in 1 .. n
    BY <2>1, <1>1, <1>2, <1>7 DEF TradesOK
  <2>2. CASE i = n + 1 /\ k \in 1 .. n
    BY <2>2, <1>2, <1>6, <1>7
  <2>3. CASE i \in 1 .. n /\ k = n + 1
    BY <2>3, <1>2, <1>6, <1>7
  <2> QED
    BY <2>1, <2>2, <2>3, <1>3
<1>8. ASSUME NEW i \in 1 .. n + 1, more[i].pair \in DOMAIN less
      PROVE  more[i].opened < less[more[i].pair].opened
  <2>1. i \in 1 .. n /\ more[i] = list[i] /\ list[i].pair \in DOMAIN tab
    BY <1>2, <1>3, <1>8, <1>a
  <2>2. list[i].opened < tab[list[i].pair].opened
    BY <2>1, <1>1 DEF TradesOK
  <2> QED
    BY <2>1, <2>2, <1>8, <1>a
<1>9. ASSUME NEW i \in 1 .. n + 1, more[i].result = 0 PROVE more[i].r \in {0, NoValue}
  BY <1>1, <1>2, <1>3, <1>9, <1>a DEF TradesOK
<1>10. TradesOK(more, less)
  BY <1>1, <1>7, <1>8, <1>9 DEF TradesOK
<1>11. KeysOf(more) = KeysOf(list) \cup {<<t.pair, t.opened>>}
  <2>1. n + 1 \in 1 .. n + 1 /\ 1 .. n \subseteq 1 .. n + 1
    OBVIOUS
  <2> DEFINE key(i) == <<more[i].pair, more[i].opened>>
  <2>2. {key(i) : i \in 1 .. n + 1} = {key(i) : i \in 1 .. n} \cup {key(n + 1)}
    <3> HIDE DEF key
    <3> QED
      BY ONLY <2>1, <1>3
  <2>3. {key(i) : i \in 1 .. n} = {<<list[i].pair, list[i].opened>> : i \in 1 .. n}
    BY <1>2
  <2>4. key(n + 1) = <<t.pair, t.opened>>
    BY <1>2
  <2> HIDE DEF key
  <2>5. KeysOf(more) = {key(i) : i \in 1 .. n + 1}
    BY <1>1 DEF KeysOf, key
  <2>6. KeysOf(list) = {<<list[i].pair, list[i].opened>> : i \in 1 .. n}
    BY <1>1 DEF KeysOf
  <2> QED
    BY ONLY <2>2, <2>3, <2>4, <2>5, <2>6
<1> QED
  BY <1>10, <1>11

LEMMA JournalStep ==
  ASSUME BacktestInv, MirrorInv, JournalInv, [Next]_vars
  PROVE  JournalInv'
<1>1. PICK list, tab, entries, kept :
        /\ list = ledger.trades /\ tab = ledger.positions
        /\ entries = journal.entry /\ kept = journal.trade
  OBVIOUS
<1>2. /\ list \in Seq(Trade) /\ TradesOK(list, tab) /\ Open = DOMAIN tab
      /\ ~options.llm => JournalOK(entries, kept, list, tab)
      /\ DOMAIN journal = {"entry", "trade"}
  BY <1>1 DEF BacktestInv, LedgerOK, Ledgers, JournalInv, Open
<1>3. ASSUME Next PROVE options' = options
  BY <1>3, StepRecords
<1>4. PICK more, held : more = ledger'.trades /\ held = ledger'.positions
  OBVIOUS
<1>5. CASE UNCHANGED vars
  BY <1>5 DEF JournalInv, vars
<1>6. CASE Next /\ \E t \in Trade : Closes(t)
  <2>1. PICK t \in Trade : Closes(t)
    BY <1>6
  <2>2. /\ more = Append(list, t) /\ t.pair \in DOMAIN tab /\ t.opened = tab[t.pair].opened
        /\ DOMAIN held = DOMAIN tab \ {t.pair} /\ \A x \in DOMAIN held : held[x] = tab[x]
        /\ t.result = 0 => t.r \in {0, NoValue}
        /\ journal' = IF options.llm THEN journal ELSE Carried(t.pair, t.opened)
    BY <2>1, <1>1, <1>2, <1>4 DEF Closes
  <2>3. TradesOK(more, held) /\ KeysOf(more) = KeysOf(list) \cup {<<t.pair, t.opened>>}
    <3>1. /\ more = Append(list, t) /\ t.pair \in DOMAIN tab /\ t.opened = tab[t.pair].opened
          /\ DOMAIN held = DOMAIN tab \ {t.pair} /\ \A x \in DOMAIN held : held[x] = tab[x]
          /\ t.result = 0 => t.r \in {0, NoValue}
      BY <2>2
    <3>2. list \in Seq(Trade) /\ TradesOK(list, tab)
      BY <1>2
    <3>3. Leaves(list, tab, t, more, held)
      BY <3>1, <3>2 DEF Leaves
    <3> QED
      BY ONLY <3>2, <3>3, TradesClose
  <2>4. PICK key : key = <<t.pair, t.opened>>
    OBVIOUS
  <2>5. ASSUME ~options.llm
        PROVE  JournalOK(journal'.entry, journal'.trade, more, held) /\ DOMAIN journal' = {"entry", "trade"}
    <3>1. JournalOK(entries, kept, list, tab)
      BY <2>5, <1>2
    <3>2. t.pair \in DOMAIN entries /\ entries[t.pair] \in Profile
      BY <3>1, <2>2 DEF JournalOK
    <3>3. journal' = [entry |-> Without(entries, t.pair), trade |-> With(kept, key, entries[t.pair])]
      BY <3>2, <2>2, <2>4, <2>5, <1>1 DEF Carried
    <3>4. PICK less, all : less = Without(entries, t.pair) /\ all = With(kept, key, entries[t.pair])
      OBVIOUS
    <3>5. DOMAIN less = DOMAIN held /\ \A s \in DOMAIN held : less[s] \in Profile
      BY <3>1, <3>4, <2>2 DEF Without, JournalOK
    <3>6. DOMAIN all = KeysOf(more) /\ \A k \in KeysOf(more) : all[k] \in Profile
      BY <3>1, <3>2, <3>4, <2>3, <2>4 DEF With, JournalOK
    <3>7. journal'.entry = less /\ journal'.trade = all /\ DOMAIN journal' = {"entry", "trade"}
      BY <3>3, <3>4
    <3> QED
      BY <3>5, <3>6, <3>7 DEF JournalOK
  <2>6. options.llm => DOMAIN journal' = {"entry", "trade"}
    BY <2>2, <1>2
  <2> QED
    BY <2>3, <2>5, <2>6, <1>3, <1>4, <1>6 DEF JournalInv
<1>7. CASE Next /\ \E s \in Pairs : Opens(s)
  <2>1. PICK s \in Pairs : Opens(s)
    BY <1>7
  <2>2. /\ more = list /\ s \notin DOMAIN tab /\ DOMAIN held = DOMAIN tab \cup {s}
        /\ \A x \in DOMAIN tab : held[x] = tab[x]
        /\ held[s].opened = clock
    BY <2>1, <1>1, <1>2, <1>4 DEF Opens
  <2>3. \A i \in 1 .. Len(list) : list[i].opened < clock
    <3> TAKE i \in 1 .. Len(list)
    <3>1. list[i] \in Trade /\ list[i].opened < list[i].closed /\ list[i].closed <= clock
      BY <1>1, <1>2 DEF BacktestInv, LedgerOK, MirrorInv, MirrorOK
    <3>2. list[i].opened \in Int /\ list[i].closed \in Int /\ clock \in Int
      BY <3>1 DEF Trade, BacktestInv, StageOK
    <3> QED
      BY <3>1, <3>2
  <2>4. TradesOK(list, held)
    <3>1. ASSUME NEW i \in 1 .. Len(list), list[i].pair \in DOMAIN held
          PROVE  list[i].opened < held[list[i].pair].opened
      <4>1. CASE list[i].pair = s
        BY <4>1, <2>2, <2>3
      <4>2. CASE list[i].pair # s
        <5>1. list[i].pair \in DOMAIN tab
          BY <4>2, <3>1, <2>2
        <5> QED
          BY <5>1, <2>2, <1>2 DEF TradesOK
      <4> QED
        BY <4>1, <4>2
    <3> QED
      BY <3>1, <1>2 DEF TradesOK
  <2>5. ASSUME ~options.llm
        PROVE  JournalOK(journal'.entry, journal'.trade, list, held) /\ DOMAIN journal' = {"entry", "trade"}
    <3>1. JournalOK(entries, kept, list, tab)
      BY <2>5, <1>2
    <3>2. PICK dims \in Profile : journal' = [journal EXCEPT !.entry = With(entries, s, dims)]
      BY <2>1, <2>5, <1>1 DEF Opens
    <3>3. PICK wider : wider = With(entries, s, dims)
      OBVIOUS
    <3>4. DOMAIN wider = DOMAIN held /\ \A x \in DOMAIN held : wider[x] \in Profile
      BY <3>1, <3>3, <2>2 DEF With, JournalOK
    <3>5. journal'.entry = wider /\ journal'.trade = kept /\ DOMAIN journal' = {"entry", "trade"}
      BY <3>2, <3>3, <1>1, <1>2
    <3> QED
      BY <3>1, <3>4, <3>5 DEF JournalOK
  <2>6. options.llm => journal' = journal
    BY <2>1 DEF Opens
  <2> QED
    BY <2>2, <2>4, <2>5, <2>6, <1>2, <1>3, <1>4, <1>7 DEF JournalInv
<1>8. CASE Next /\ Keeps
  <2>1. /\ more = list /\ DOMAIN held = DOMAIN tab /\ journal' = journal
        /\ \A x \in DOMAIN tab : held[x].opened = tab[x].opened
    BY <1>1, <1>2, <1>4, <1>8 DEF Keeps
  <2>2. TradesOK(list, held)
    BY <2>1, <1>2 DEF TradesOK
  <2>3. ~options.llm => JournalOK(entries, kept, list, held)
    BY <2>1, <1>2 DEF JournalOK
  <2> QED
    BY <2>1, <2>2, <2>3, <1>1, <1>2, <1>3, <1>4, <1>8 DEF JournalInv
<1> QED
  BY <1>5, <1>6, <1>7, <1>8, StepMoves

LEMMA JournalSession == ReplaysSpec => [](BacktestInv /\ JournalInv)
<1>1. ReplaysInit => JournalInv
  BY JournalInit DEF ReplaysInit
<1>2. BacktestInv /\ MirrorInv /\ JournalInv /\ [ReplaysNext]_<<tool, vars, simVars>> => JournalInv'
  <2> SUFFICES ASSUME BacktestInv, MirrorInv, JournalInv, [ReplaysNext]_<<tool, vars, simVars>>
               PROVE  JournalInv'
    OBVIOUS
  <2>1. [Next]_vars
    BY DEF ReplaysNext
  <2> QED
    BY <2>1, JournalStep
<1> QED
  BY <1>1, <1>2, MirrorSession, PTL DEF ReplaysSpec

-----------------------------------------------------------------------------
(* The report of a mechanical run.                                         *)

\* What the performance engine is given: numbers, and the dimensions of a market.
MetricsOK(list) ==
    /\ IsFiniteSet(DOMAIN list)
    /\ \A i \in DOMAIN list :
          /\ list[i].result \in Int /\ list[i].closed \in Int
          /\ list[i].r \in Int \cup {NoValue}
          /\ list[i].result = 0 => list[i].r \in {0, NoValue}
          /\ list[i].regime \in Regimes /\ list[i].volatility \in Volatilities
          /\ list[i].score \in 0 .. 100

LEMMA CohortPnl ==
  ASSUME NEW list, MetricsOK(list), NEW S, S \subseteq DOMAIN list
  PROVE  /\ IsFiniteSet(S) /\ \A x \in S : ResultIn(list)[x] \in Int
         /\ TotalPnl(list, S) = Sum(ResultIn(list), S) /\ TotalPnl(list, S) \in Int
<1>1. IsFiniteSet(S) /\ \A x \in S : list[x].result \in Int
  BY FS_Subset DEF MetricsOK
<1>2. PICK f : f = [i \in S |-> list[i].result]
  OBVIOUS
<1>3. DOMAIN f = S /\ \A x \in S : f[x] = ResultIn(list)[x] /\ ResultIn(list)[x] \in Int
  BY <1>1, <1>2 DEF ResultIn
<1>4. TotalPnl(list, S) = Sum(f, S)
  BY <1>2, <1>3, SumOfIsSum DEF TotalPnl
<1>5. Sum(f, S) = Sum(ResultIn(list), S)
  BY <1>1, <1>3, SumSame
<1>6. Sum(ResultIn(list), S) \in Int
  BY <1>1, <1>3, SumInteger
<1> QED
  BY <1>1, <1>3, <1>4, <1>5, <1>6

RIn(list) == [i \in DOMAIN list |-> list[i].r]

LEMMA CohortR ==
  ASSUME NEW list, MetricsOK(list), NEW S, S \subseteq DOMAIN list
  PROVE  /\ Tracked(list, S) \subseteq S /\ IsFiniteSet(Tracked(list, S))
         /\ \A x \in Tracked(list, S) : RIn(list)[x] \in Int
         /\ AverageR(list, S).sum = Sum(RIn(list), Tracked(list, S))
         /\ AverageR(list, S).count = Cardinality(Tracked(list, S))
<1>1. PICK tracked : tracked = Tracked(list, S)
  OBVIOUS
<1>2. tracked \subseteq S /\ tracked \subseteq DOMAIN list /\ \A x \in tracked : list[x].r # NoValue
  BY <1>1 DEF Tracked
<1>3. IsFiniteSet(tracked) /\ \A x \in tracked : list[x].r \in Int
  BY <1>2, FS_Subset DEF MetricsOK
<1>4. PICK f : f = [i \in tracked |-> list[i].r]
  OBVIOUS
<1>5. DOMAIN f = tracked /\ \A x \in tracked : f[x] = RIn(list)[x] /\ RIn(list)[x] \in Int
  BY <1>2, <1>3, <1>4 DEF RIn
<1>6. AverageR(list, S) = [sum |-> SumOf(f), count |-> Cardinality(tracked)]
  BY <1>1, <1>4 DEF AverageR
<1>7. SumOf(f) = Sum(f, tracked)
  BY <1>5, SumOfIsSum
<1>8. Sum(f, tracked) = Sum(RIn(list), tracked)
  BY <1>3, <1>5, SumSame
<1> QED
  BY <1>1, <1>2, <1>3, <1>5, <1>6, <1>7, <1>8

LEMMA OutcomesAdd ==
  ASSUME NEW list, MetricsOK(list), NEW S, S \subseteq DOMAIN list
  PROVE  /\ Cardinality(Wins(list, S)) + Cardinality(Losses(list, S)) + Cardinality(Breakeven(list, S))
              = Cardinality(S)
         /\ AverageR(list, S).sum = AverageR(list, Wins(list, S)).sum + AverageR(list, Losses(list, S)).sum
<1>1. PICK W, L, B : W = Wins(list, S) /\ L = Losses(list, S) /\ B = Breakeven(list, S)
  OBVIOUS
<1>2. \A x \in S : x \in DOMAIN list /\ list[x].result \in Int
  BY DEF MetricsOK
<1>3. W \cap L = {} /\ (W \cup L) \cap B = {} /\ (W \cup L) \cup B = S
  BY <1>1, <1>2 DEF Wins, Losses, Breakeven
<1>4. IsFiniteSet(S)
  BY FS_Subset DEF MetricsOK
<1>5. IsFiniteSet(W) /\ IsFiniteSet(L) /\ IsFiniteSet(B) /\ IsFiniteSet(W \cup L)
  BY <1>3, <1>4, FS_Subset
<1>6. Cardinality(W) + Cardinality(L) + Cardinality(B) = Cardinality(S)
  <2>1. PICK U, none, all : U = W \cup L /\ none = {} /\ all = U \cup B
    OBVIOUS
  <2>2. W \cap L = none /\ U \cap B = none /\ all = S /\ IsFiniteSet(U)
    BY <1>3, <1>5, <2>1
  <2>3. Cardinality(U) = Cardinality(W) + Cardinality(L) - Cardinality(none)
    BY <1>5, <2>1, <2>2, FS_Union
  <2>4. Cardinality(all) = Cardinality(U) + Cardinality(B) - Cardinality(none)
    BY <1>5, <2>1, <2>2, FS_Union
  <2>5. PICK w \in Nat, l \in Nat, b \in Nat :
          w = Cardinality(W) /\ l = Cardinality(L) /\ b = Cardinality(B)
    BY <1>5, FS_CardinalityType
  <2>6. Cardinality(none) = 0
    BY <2>1, FS_EmptySet
  <2>7. Cardinality(U) = w + l
    BY ONLY <2>3, <2>5, <2>6
  <2>8. Cardinality(all) = w + l + b
    BY ONLY <2>4, <2>5, <2>6, <2>7
  <2> QED
    BY <2>2, <2>5, <2>8
<1>7. AverageR(list, S).sum = AverageR(list, W).sum + AverageR(list, L).sum
  <2>1. PICK F, TS, TW, TL, TB : /\ F = RIn(list) /\ TS = Tracked(list, S) /\ TW = Tracked(list, W)
                                 /\ TL = Tracked(list, L) /\ TB = Tracked(list, B)
    OBVIOUS
  <2>2. /\ AverageR(list, S).sum = Sum(F, TS) /\ AverageR(list, W).sum = Sum(F, TW)
        /\ AverageR(list, L).sum = Sum(F, TL)
    BY <1>3, <2>1, CohortR
  <2>3. TW \cap TL = {} /\ (TW \cup TL) \cap TB = {} /\ (TW \cup TL) \cup TB = TS
    BY <1>3, <2>1 DEF Tracked
  <2>4. IsFiniteSet(TS) /\ \A x \in TS : F[x] \in Int
    BY <2>1, CohortR
  <2>5. IsFiniteSet(TW) /\ IsFiniteSet(TL) /\ IsFiniteSet(TB) /\ IsFiniteSet(TW \cup TL)
    BY <2>3, <2>4, FS_Subset
  <2>6. PICK T : T = TW \cup TL
    OBVIOUS
  <2>7. Sum(F, T) = Sum(F, TW) + Sum(F, TL)
    BY <2>3, <2>4, <2>5, <2>6, SumUnion
  <2>8. Sum(F, TS) = Sum(F, T)
    <3>1. T \subseteq TS /\ \A x \in TS \ T : x \in B /\ list[x].r # NoValue
      BY <2>1, <2>3, <2>6 DEF Tracked
    <3>2. \A x \in TS \ T : F[x] = 0
      BY <1>1, <1>2, <2>1, <3>1 DEF RIn, MetricsOK, Breakeven
    <3>3. \A x \in T : F[x] = F[x]
      OBVIOUS
    <3> QED
      BY <2>4, <3>1, <3>2, <3>3, SumRestrict
  <2> QED
    BY <2>2, <2>7, <2>8
<1> QED
  BY <1>1, <1>6, <1>7

\* A depth is a number, measured against an equity that is positive.
LEMMA DepthInteger ==
  ASSUME NEW list, MetricsOK(list), NEW S, S \subseteq DOMAIN list, NEW equity \in Nat \ {0}, NEW i \in S
  PROVE  Depth(list, S, equity, i) \in Int
<1>1. PICK curve : curve = EquityCurve(list, S, equity)
  OBVIOUS
<1>2. \A j \in S : curve[j] \in Int
  <2> TAKE j \in S
  <2>1. UpTo(list, S, j) \subseteq DOMAIN list
    BY DEF UpTo
  <2>2. TotalPnl(list, UpTo(list, S, j)) \in Int
    BY <2>1, CohortPnl
  <2>3. curve[j] = equity + TotalPnl(list, UpTo(list, S, j))
    BY <1>1 DEF EquityCurve
  <2> QED
    BY <2>2, <2>3
<1>3. PICK U : U = UpTo(list, S, i) /\ U \subseteq S
  BY DEF UpTo
<1>4. PICK V : V = {curve[j] : j \in U}
  OBVIOUS
<1>5. IsFiniteSet(V)
  <2>1. IsFiniteSet(U)
    BY <1>3, FS_Subset DEF MetricsOK
  <2> QED
    BY <1>4, <2>1, ValuesFinite
<1>6. PICK T : T = {equity} \cup V
  OBVIOUS
<1>7. T \subseteq Int /\ T # {} /\ equity \in T /\ IsFiniteSet(T)
  <2>1. IsFiniteSet(V \cup {equity}) /\ T = V \cup {equity}
    BY <1>5, <1>6, FS_AddElement
  <2>2. \A v \in V : v \in Int
    BY <1>2, <1>3, <1>4
  <2> QED
    BY <2>1, <2>2
<1>8. PICK peak \in Nat \ {0} : peak = Max(T)
  <2>1. Max(T) \in T /\ \A y \in T : y <= Max(T)
    BY <1>7, GreatestInteger
  <2>2. Max(T) \in Int /\ equity <= Max(T)
    BY <1>7, <2>1
  <2> QED
    BY <2>2
<1>9. Peak(list, S, equity, i) = peak
  BY <1>1, <1>3, <1>4, <1>6, <1>8 DEF Peak
<1>10. PICK fall \in Int : fall = (peak - curve[i]) * 1000
  BY <1>2
<1>11. Depth(list, S, equity, i) = fall \div peak
  BY <1>1, <1>9, <1>10 DEF Depth
<1> QED
  BY <1>11, Division

\* The mean of the drawdowns is not beyond the deepest.
LEMMA DrawdownsBound ==
  ASSUME NEW list, MetricsOK(list), NEW S, S \subseteq DOMAIN list, S # {}, NEW equity \in Nat \ {0}
  PROVE  AvgDrawdown(list, S, equity).sum <= AvgDrawdown(list, S, equity).count * MaxDrawdown(list, S, equity)
<1>1. PICK depth : depth = [i \in S |-> Depth(list, S, equity, i)]
  OBVIOUS
<1>2. \A i \in S : depth[i] = Depth(list, S, equity, i) /\ depth[i] \in Int
  BY <1>1, DepthInteger
<1>3. IsFiniteSet(S) /\ ~(S = {} \/ equity <= 0)
  BY FS_Subset DEF MetricsOK
<1>4. PICK V : V = {depth[i] : i \in S}
  OBVIOUS
<1>5. V = {Depth(list, S, equity, i) : i \in S} /\ V \subseteq Int /\ IsFiniteSet(V)
  BY <1>2, <1>3, <1>4, ValuesFinite
<1>6. PICK T : T = {0} \cup V
  OBVIOUS
<1>7. T \subseteq Int /\ T # {} /\ IsFiniteSet(T) /\ \A i \in S : depth[i] \in T
  <2>1. IsFiniteSet(V \cup {0}) /\ T = V \cup {0}
    BY <1>5, <1>6, FS_AddElement
  <2>2. \A v \in V : v \in Int
    BY <1>5
  <2>3. \A i \in S : depth[i] \in V
    BY <1>4
  <2> QED
    BY <2>1, <2>2, <2>3
<1>8. PICK deepest \in Int : deepest = Max(T) /\ \A i \in S : depth[i] <= deepest
  BY <1>7, GreatestInteger
<1>9. MaxDrawdown(list, S, equity) = deepest
  BY <1>3, <1>5, <1>6, <1>8 DEF MaxDrawdown
<1>10. PICK under : under = {i \in S : EquityCurve(list, S, equity)[i] < Peak(list, S, equity, i)}
  OBVIOUS
<1>11. under \subseteq S /\ IsFiniteSet(under)
  BY <1>3, <1>10, FS_Subset
<1>12. PICK f : f = [i \in under |-> Depth(list, S, equity, i)]
  OBVIOUS
<1>13. DOMAIN f = under /\ \A i \in under : f[i] \in Int /\ f[i] <= deepest
  BY <1>2, <1>8, <1>11, <1>12
<1>14. AvgDrawdown(list, S, equity) = [sum |-> SumOf(f), count |-> Cardinality(under)]
  BY <1>3, <1>10, <1>12 DEF AvgDrawdown
<1>15. SumOf(f) <= Cardinality(under) * deepest
  BY <1>11, <1>13, SumOfIsSum, SumAtMost
<1> QED
  BY <1>9, <1>14, <1>15

\* What a report says of its trades.
LEMMA SummaryFields ==
  ASSUME NEW list, NEW S, NEW equity, NEW report, report = Summarize(list, S, equity)
  PROVE  /\ report.trades = Cardinality(S) /\ report.pnl = TotalPnl(list, S)
         /\ report.wins = Cardinality(Wins(list, S)) /\ report.losses = Cardinality(Losses(list, S))
         /\ report.breakeven = Cardinality(Breakeven(list, S))
         /\ report.avgWinR = AverageR(list, Wins(list, S))
         /\ report.avgLossR = AverageR(list, Losses(list, S))
         /\ report.expectancyR = AverageR(list, S)
         /\ report.maxDrawdown = MaxDrawdown(list, S, equity)
         /\ report.avgDrawdown = AvgDrawdown(list, S, equity)
  BY DEF Summarize

\* A score is in one bucket.
LEMMA BucketOf ==
  ASSUME NEW n \in 0 .. 100
  PROVE  /\ ScoreBucket(n) \in Buckets /\ n \in ScoreBucket(n) /\ ScoreBucket(n) # NoValue
         /\ \A b \in Buckets : n \in b => b = ScoreBucket(n)
<1>1. \E b \in Buckets : n \in b
  BY DEF Buckets
<1>2. \A a, b \in Buckets : n \in a /\ n \in b => a = b
  BY DEF Buckets
<1>3. n # NoValue
  BY NullAssumption
<1>4. PICK c : c = CHOOSE b \in Buckets : n \in b
  OBVIOUS
<1>5. c \in Buckets /\ n \in c
  BY <1>1, <1>4
<1>6. ScoreBucket(n) = c
  BY <1>1, <1>3, <1>4 DEF ScoreBucket
<1>7. c # NoValue
  BY <1>5, NullAssumption
<1> QED
  BY <1>2, <1>5, <1>6, <1>7

\* A bucket is the one of its least score.
LEMMA BucketOfLeast ==
  ASSUME NEW b \in Buckets
  PROVE  Min(b) \in 0 .. 100 /\ Min(b) \in b /\ ScoreBucket(Min(b)) = b
<1>1. b \subseteq 0 .. 100 /\ b # {}
  BY DEF Buckets
<1>2. IsFiniteSet(b) /\ b \subseteq Int
  <2>1. PICK all : all = 0 .. 100
    OBVIOUS
  <2>2. all \subseteq Int
    BY <2>1
  <2>3. 0 \in Int /\ 100 \in Int
    OBVIOUS
  <2>4. IsFiniteSet(all)
    BY <2>1, <2>3, FS_Interval
  <2>5. b \subseteq all
    BY <1>1, <2>1
  <2> QED
    BY <2>2, <2>4, <2>5, FS_Subset
<1>3. PICK n \in b : n = Min(b)
  BY <1>1, <1>2, LeastInteger
<1>4. n \in 0 .. 100
  BY <1>1
<1>5. b = ScoreBucket(n)
  BY <1>4, BucketOf
<1> QED
  BY <1>3, <1>4, <1>5

\* The cohorts of a dimension add up to the whole.
LEMMA CohortsAdd ==
  ASSUME NEW list, MetricsOK(list), NEW d \in Dimensions, NEW equity,
         NEW parts, parts = Breakdown(list, d, equity)
  PROVE  /\ NoValue \notin DOMAIN parts
         /\ Total("trades", parts) = Cardinality(DOMAIN list)
         /\ Total("pnl", parts) = TotalPnl(list, DOMAIN list)
<1>1. PICK N : N = DOMAIN list /\ IsFiniteSet(N)
  BY DEF MetricsOK
<1>2. PICK b : b = [i \in N |-> KeyOf(list[i], d)]
  OBVIOUS
<1>3. PICK K : K = Classes(N, b) /\ K = {b[i] : i \in N}
  BY DEF Classes
<1>4. DOMAIN parts = K
  BY <1>1, <1>2, <1>3 DEF Breakdown
<1>5. \A i \in N : b[i] # NoValue
  <2> TAKE i \in N
  <2>1. list[i].regime \in Regimes /\ list[i].volatility \in Volatilities /\ list[i].score \in 0 .. 100
    BY <1>1 DEF MetricsOK
  <2>2. NoValue \notin Regimes /\ NoValue \notin Volatilities
    BY NullAssumption
  <2>3. KeyOf(list[i], d) # NoValue
    BY <2>1, <2>2, BucketOf DEF KeyOf, Dimensions
  <2> QED
    BY <1>2, <2>3
<1>6. ASSUME NEW key \in K
      PROVE  LET S == Class(N, b, key)
             IN  parts[key].trades = Cardinality(S) /\ parts[key].pnl = TotalPnl(list, S)
  <2>1. PICK S : S = Class(N, b, key)
    OBVIOUS
  <2>2. S = Cohort(list, d, key)
    BY <1>1, <1>2, <2>1 DEF Cohort, Class
  <2>3. parts[key] = Summarize(list, S, equity)
    BY <1>1, <1>2, <1>3, <1>4, <2>2 DEF Breakdown
  <2>4. parts[key].trades = Cardinality(S) /\ parts[key].pnl = TotalPnl(list, S)
    BY <2>3, SummaryFields
  <2> QED
    BY <2>1, <2>4
<1>7. Total("trades", parts) = Cardinality(N)
  <2>1. PICK one : one = [i \in N |-> 1]
    OBVIOUS
  <2>2. \A i \in N : one[i] = 1 /\ one[i] \in Int
    BY <2>1
  <2>3. PICK G : G = [key \in K |-> parts[key].trades]
    OBVIOUS
  <2>4. \A key \in K : G[key] = Sum(one, Class(N, b, key))
    <3> TAKE key \in K
    <3>1. PICK S : S = Class(N, b, key)
      OBVIOUS
    <3>2. IsFiniteSet(S) /\ S \subseteq N
      BY <1>1, <3>1, FS_Subset DEF Class
    <3>3. Sum(one, S) = Cardinality(S)
      BY <2>2, <3>2, SumOnes
    <3>4. G[key] = Cardinality(S)
      BY <1>6, <2>3, <3>1
    <3> QED
      BY <3>1, <3>3, <3>4
  <2>5. Sum(G, K) = Sum(one, N)
    BY <1>1, <1>3, <2>2, <2>4, SumPartition
  <2>6. Sum(one, N) = Cardinality(N)
    BY <1>1, <2>2, SumOnes
  <2>7. Total("trades", parts) = SumOf(G) /\ DOMAIN G = K
    BY <1>4, <2>3 DEF Total
  <2>8. SumOf(G) = Sum(G, K)
    BY <2>7, SumOfIsSum
  <2> QED
    BY <2>5, <2>6, <2>7, <2>8
<1>8. Total("pnl", parts) = TotalPnl(list, N)
  <2>1. PICK F : F = ResultIn(list)
    OBVIOUS
  <2>2. \A i \in N : F[i] \in Int
    BY <1>1, <2>1, CohortPnl
  <2>3. PICK G : G = [key \in K |-> parts[key].pnl]
    OBVIOUS
  <2>4. \A key \in K : G[key] = Sum(F, Class(N, b, key))
    <3> TAKE key \in K
    <3>1. PICK S : S = Class(N, b, key)
      OBVIOUS
    <3>2. S \subseteq DOMAIN list
      BY <1>1, <3>1 DEF Class
    <3>3. TotalPnl(list, S) = Sum(F, S)
      BY <2>1, <3>2, CohortPnl
    <3>4. G[key] = TotalPnl(list, S)
      BY <1>6, <2>3, <3>1
    <3> QED
      BY <3>1, <3>3, <3>4
  <2>5. Sum(G, K) = Sum(F, N)
    BY <1>1, <1>3, <2>2, <2>4, SumPartition
  <2>6. Sum(F, N) = TotalPnl(list, N)
    BY <1>1, <2>1, CohortPnl
  <2>7. Total("pnl", parts) = SumOf(G) /\ DOMAIN G = K
    BY <1>4, <2>3 DEF Total
  <2>8. SumOf(G) = Sum(G, K)
    BY <2>7, SumOfIsSum
  <2> QED
    BY <2>5, <2>6, <2>7, <2>8
<1>9. NoValue \notin DOMAIN parts
  BY <1>3, <1>4, <1>5
<1> QED
  BY <1>1, <1>7, <1>8, <1>9

\* An average is a sum over the whole cohort, a trade of unknown risk adding nothing.
KnownR(list) == [i \in DOMAIN list |-> IF list[i].r # NoValue THEN list[i].r ELSE 0]
Known(list) == [i \in DOMAIN list |-> IF list[i].r # NoValue THEN 1 ELSE 0]

LEMMA AverageAdds ==
  ASSUME NEW list, MetricsOK(list), NEW S, S \subseteq DOMAIN list
  PROVE  /\ \A x \in S : KnownR(list)[x] \in Int /\ Known(list)[x] \in Int
         /\ AverageR(list, S).sum = Sum(KnownR(list), S)
         /\ AverageR(list, S).count = Sum(Known(list), S)
<1>1. PICK tracked : tracked = Tracked(list, S)
  OBVIOUS
<1>2. /\ tracked \subseteq S /\ IsFiniteSet(tracked)
      /\ AverageR(list, S).sum = Sum(RIn(list), tracked)
      /\ AverageR(list, S).count = Cardinality(tracked)
  BY <1>1, CohortR
<1>3. IsFiniteSet(S) /\ \A x \in S : list[x].r \in Int \cup {NoValue}
  BY FS_Subset DEF MetricsOK
<1>4. PICK F, F1, one : F = KnownR(list) /\ F1 = Known(list) /\ one = [i \in tracked |-> 1]
  OBVIOUS
<1>5. \A x \in S : F[x] \in Int /\ F1[x] \in Int
  BY <1>3, <1>4 DEF KnownR, Known
<1>6. \A x \in S \ tracked : F[x] = 0 /\ F1[x] = 0
  BY <1>1, <1>4 DEF KnownR, Known, Tracked
<1>7. \A x \in tracked : RIn(list)[x] = F[x] /\ one[x] = F1[x] /\ one[x] = 1
  BY <1>1, <1>4 DEF KnownR, Known, Tracked, RIn
<1>8. Sum(F, S) = Sum(RIn(list), tracked)
  BY <1>2, <1>3, <1>5, <1>6, <1>7, SumRestrict
<1>9. Sum(F1, S) = Sum(one, tracked)
  BY <1>2, <1>3, <1>5, <1>6, <1>7, SumRestrict
<1>10. Sum(one, tracked) = Cardinality(tracked)
  BY <1>2, <1>7, SumOnes
<1> QED
  BY <1>2, <1>4, <1>5, <1>8, <1>9, <1>10

\* The setup a trade belongs to.
SetupIn(list) == [i \in DOMAIN list |-> <<list[i].regime, ScoreBucket(list[i].score)>>]

\* What the filter reads for a setup is the average of its trades.
LEMMA ViewIsAverage ==
  ASSUME NEW list, MetricsOK(list), NEW u \in Classes(DOMAIN list, SetupIn(list)),
         NEW S, S = Class(DOMAIN list, SetupIn(list), u)
  PROVE  /\ S \subseteq DOMAIN list /\ \A i \in S : list[i].regime = u[1]
         /\ ExpectancyView(list, u[1], Min(u[2])) = AverageR(list, S)
<1>1. PICK N, b : N = DOMAIN list /\ b = SetupIn(list)
  OBVIOUS
<1>2. \A i \in N : b[i] = <<list[i].regime, ScoreBucket(list[i].score)>>
  BY <1>1 DEF SetupIn
<1>3. \A i \in N : /\ list[i].regime \in Regimes /\ list[i].score \in 0 .. 100
                   /\ list[i].score # NoValue /\ ScoreBucket(list[i].score) \in Buckets
  BY <1>1, BucketOf, NullAssumption DEF MetricsOK
<1>4. PICK i0 \in N : u = b[i0]
  BY <1>1 DEF Classes
<1>5. PICK regime \in Regimes, bucket \in Buckets : u = <<regime, bucket>>
  BY <1>2, <1>3, <1>4
<1>6. regime # NoValue /\ bucket # NoValue
  BY NullAssumption
<1>7. ScoreBucket(Min(bucket)) = bucket
  BY BucketOfLeast
<1>8. \A i \in N : b[i] = u <=> list[i].regime = regime /\ list[i].score \in bucket
  BY <1>2, <1>3, <1>5, BucketOf
<1>9. S = {i \in N : b[i] = u}
  BY <1>1 DEF Class
<1>10. {i \in DOMAIN list : /\ list[i].regime = regime /\ list[i].score # NoValue
                            /\ list[i].score \in bucket} = S
  BY <1>1, <1>3, <1>8, <1>9
<1>11. ExpectancyView(list, regime, Min(bucket)) = AverageR(list, S)
  BY <1>6, <1>7, <1>10 DEF ExpectancyView
<1> QED
  BY <1>1, <1>5, <1>8, <1>9, <1>11

ViewOf(list, u) == ExpectancyView(list, u[1], Min(u[2]))

\* The setups add up to the whole.
LEMMA SetupsAdd ==
  ASSUME NEW list, MetricsOK(list), NEW f, DOMAIN f = Classes(DOMAIN list, SetupIn(list))
  PROVE  /\ (\A u \in DOMAIN f : f[u] = ViewOf(list, u).count) => SumOf(f) = AverageR(list, DOMAIN list).count
         /\ (\A u \in DOMAIN f : f[u] = ViewOf(list, u).sum) => SumOf(f) = AverageR(list, DOMAIN list).sum
<1>1. PICK N, b, K : N = DOMAIN list /\ b = SetupIn(list) /\ K = DOMAIN f
  OBVIOUS
<1>2. IsFiniteSet(N) /\ K = Classes(N, b)
  BY <1>1 DEF MetricsOK
<1>3. PICK F, F1 : F = KnownR(list) /\ F1 = Known(list)
  OBVIOUS
<1>4. \A i \in N : F[i] \in Int /\ F1[i] \in Int
  BY <1>1, <1>3, AverageAdds
<1>5. \A u \in K : Class(N, b, u) \subseteq DOMAIN list /\ ViewOf(list, u) = AverageR(list, Class(N, b, u))
  BY <1>1, <1>2, ViewIsAverage DEF ViewOf
<1>6. ASSUME \A u \in K : f[u] = ViewOf(list, u).count PROVE SumOf(f) = AverageR(list, N).count
  <2>1. \A u \in K : f[u] = Sum(F1, Class(N, b, u))
    BY <1>3, <1>5, <1>6, AverageAdds
  <2>2. Sum(f, K) = Sum(F1, N)
    BY <1>2, <1>4, <2>1, SumPartition
  <2>3. AverageR(list, N).count = Sum(F1, N)
    BY <1>1, <1>3, AverageAdds
  <2> QED
    BY <1>1, <2>2, <2>3, SumOfIsSum
<1>7. ASSUME \A u \in K : f[u] = ViewOf(list, u).sum PROVE SumOf(f) = AverageR(list, N).sum
  <2>1. \A u \in K : f[u] = Sum(F, Class(N, b, u))
    BY <1>3, <1>5, <1>7, AverageAdds
  <2>2. Sum(f, K) = Sum(F, N)
    BY <1>2, <1>4, <2>1, SumPartition
  <2>3. AverageR(list, N).sum = Sum(F, N)
    BY <1>1, <1>3, AverageAdds
  <2> QED
    BY <1>1, <2>2, <2>3, SumOfIsSum
<1> QED
  BY <1>1, <1>6, <1>7

\* No setup is refused for nothing.
LEMMA RefusedFellShort ==
  ASSUME NEW list, MetricsOK(list), NEW u \in Classes(DOMAIN list, SetupIn(list)),
         ExpectancyDecision(ViewOf(list, u)) = "NEGATIVE_EXPECTANCY"
  PROVE  \E i \in DOMAIN list :
            list[i].regime = u[1] /\ list[i].r # NoValue /\ list[i].r < MinExpectancy
<1>1. PICK S, T : S = Class(DOMAIN list, SetupIn(list), u) /\ T = Tracked(list, S)
  OBVIOUS
<1>2. S \subseteq DOMAIN list /\ ViewOf(list, u) = AverageR(list, S) /\ \A i \in S : list[i].regime = u[1]
  BY <1>1, ViewIsAverage DEF ViewOf
<1>3. /\ T \subseteq S /\ IsFiniteSet(T) /\ \A i \in T : RIn(list)[i] \in Int
      /\ ViewOf(list, u).sum = Sum(RIn(list), T) /\ ViewOf(list, u).count = Cardinality(T)
  BY <1>1, <1>2, CohortR
<1>4. PICK n \in Nat : n = Cardinality(T)
  BY <1>3, FS_CardinalityType
<1>5. PICK total \in Int : total = Sum(RIn(list), T)
  BY <1>3, SumInteger
<1>6. total < MinExpectancy * n
  BY <1>3, <1>4, <1>5, ExpectancyAssumption DEF ExpectancyDecision
<1>7. MinExpectancy \in Int
  BY ExpectancyAssumption
<1>8. \E i \in T : RIn(list)[i] < MinExpectancy
  <2>1. SUFFICES ASSUME \A i \in T : RIn(list)[i] >= MinExpectancy PROVE FALSE
    BY <1>3, <1>7
  <2>2. Sum(RIn(list), T) >= Cardinality(T) * MinExpectancy
    BY <1>3, <1>7, <2>1, SumAtLeast
  <2>3. total >= n * MinExpectancy
    BY <1>4, <1>5, <2>2
  <2> QED
    BY ONLY <1>4, <1>5, <1>6, <1>7, <2>3
<1>9. PICK i \in T : RIn(list)[i] < MinExpectancy
  BY <1>8
<1>10. i \in DOMAIN list /\ list[i].r = RIn(list)[i] /\ list[i].r # NoValue /\ list[i].regime = u[1]
  BY <1>1, <1>2, <1>3 DEF RIn, Tracked
<1> QED
  BY <1>9, <1>10

\* What the ledger of a mechanical run hands to the performance engine.
LEMMA MetricsGiven ==
  ASSUME BacktestInv, JournalInv, ~options.llm
  PROVE  /\ MetricsOK(Metrics) /\ DOMAIN Metrics = 1 .. Len(ledger.trades)
         /\ TotalPnl(Metrics, DOMAIN Metrics) = ledger.realized
<1>1. PICK list : list = ledger.trades /\ list \in Seq(Trade)
  BY DEF BacktestInv, LedgerOK, Ledgers
<1>2. PICK N : N = 1 .. Len(list)
  OBVIOUS
<1>3. DOMAIN list = N /\ IsFiniteSet(N)
  <2>1. DOMAIN list = N /\ Len(list) \in Nat
    BY <1>1, <1>2
  <2> QED
    BY <1>2, <2>1, FS_Interval
<1>4. PICK kept : kept = journal.trade
  OBVIOUS
<1>5. /\ DOMAIN kept = KeysOf(list) /\ \A key \in KeysOf(list) : kept[key] \in Profile
      /\ \A i \in N : list[i].result = 0 => list[i].r \in {0, NoValue}
  BY <1>1, <1>2, <1>4 DEF JournalInv, JournalOK, TradesOK
<1>6. PICK table : table = Metrics
  OBVIOUS
<1>7. DOMAIN table = N
  BY <1>1, <1>3, <1>6 DEF Metrics
<1>8. ASSUME NEW i \in N
      PROVE  \E dims \in Profile :
               table[i] = [result |-> list[i].result, r |-> list[i].r, closed |-> list[i].closed,
                           regime |-> dims.regime, volatility |-> dims.volatility, score |-> dims.score]
  <2>1. PICK key : key = <<list[i].pair, list[i].opened>>
    OBVIOUS
  <2>2. key \in KeysOf(list)
    BY <1>2, <2>1 DEF KeysOf
  <2>3. key \in DOMAIN kept /\ kept[key] \in Profile
    BY <1>5, <2>2
  <2>4. table[i] = [result |-> list[i].result, r |-> list[i].r, closed |-> list[i].closed,
                    regime |-> kept[key].regime, volatility |-> kept[key].volatility,
                    score |-> kept[key].score]
    BY <1>1, <1>3, <1>4, <1>6, <2>1, <2>3 DEF Metrics
  <2> QED
    BY <2>3, <2>4
<1>9. ASSUME NEW i \in N
      PROVE  list[i].result \in Int /\ list[i].closed \in Int /\ list[i].r \in Int \cup {NoValue}
  <2>1. list[i] \in Trade
    BY <1>1, <1>2
  <2> QED
    BY <2>1 DEF Trade
<1>10. MetricsOK(table)
  <2>1. ASSUME NEW i \in N
        PROVE  /\ table[i].result \in Int /\ table[i].closed \in Int
               /\ table[i].r \in Int \cup {NoValue}
               /\ table[i].result = 0 => table[i].r \in {0, NoValue}
               /\ table[i].regime \in Regimes /\ table[i].volatility \in Volatilities
               /\ table[i].score \in 0 .. 100
    <3>1. PICK dims \in Profile :
            table[i] = [result |-> list[i].result, r |-> list[i].r, closed |-> list[i].closed,
                        regime |-> dims.regime, volatility |-> dims.volatility, score |-> dims.score]
      BY <1>8
    <3>2. dims.regime \in Regimes /\ dims.volatility \in Volatilities /\ dims.score \in 0 .. 100
      BY DEF Profile
    <3> QED
      BY <3>1, <3>2, <1>5, <1>9
  <2> QED
    BY <1>3, <1>7, <2>1 DEF MetricsOK
<1>11. TotalPnl(table, N) = ledger.realized
  <2>1. TotalPnl(table, N) = Sum(ResultIn(table), N)
    BY <1>7, <1>10, CohortPnl
  <2>2. \A i \in N : ResultIn(table)[i] = ResultIn(list)[i]
    BY <1>3, <1>7, <1>8 DEF ResultIn
  <2>3. Sum(ResultIn(table), N) = Sum(ResultIn(list), N)
    BY <1>3, <2>2, SumSame
  <2>4. TotalPnl(list, DOMAIN list) = Sum(ResultIn(list), N)
    BY <1>1, <1>2, TotalPnlIsSum
  <2>5. ledger.realized = TotalPnl(list, DOMAIN list)
    BY <1>1 DEF BacktestInv, LedgerOK
  <2> QED
    BY <2>1, <2>3, <2>4, <2>5
<1> QED
  BY <1>1, <1>2, <1>6, <1>7, <1>10, <1>11

\* Each trade has a key of its own.
LEMMA KeysAreTrades ==
  ASSUME BacktestInv, JournalInv
  PROVE  Keys = KeysOf(ledger.trades) /\ Cardinality(Keys) = Cardinality(1 .. Len(ledger.trades))
<1>1. PICK list : list = ledger.trades /\ list \in Seq(Trade)
  BY DEF BacktestInv, LedgerOK, Ledgers
<1>2. PICK N : N = 1 .. Len(list)
  OBVIOUS
<1>3. DOMAIN list = N /\ IsFiniteSet(N)
  <2>1. DOMAIN list = N /\ Len(list) \in Nat
    BY <1>1, <1>2
  <2> QED
    BY <1>2, <2>1, FS_Interval
<1>4. PICK f : f = [i \in N |-> <<list[i].pair, list[i].opened>>]
  OBVIOUS
<1>5. PICK K : K = {f[i] : i \in N}
  OBVIOUS
<1>6. K = KeysOf(list)
  BY <1>2, <1>4, <1>5 DEF KeysOf
<1>7. Keys = K
  <2>1. Range(list) = {list[i] : i \in N}
    BY <1>3 DEF Range
  <2> QED
    BY <1>1, <1>4, <1>5, <2>1 DEF Keys
<1>8. \A i, k \in N : f[i] = f[k] => i = k
  BY <1>1, <1>2, <1>4 DEF JournalInv, TradesOK
<1>9. Cardinality(K) = Cardinality(N)
  BY <1>3, <1>5, <1>8, ValuesFinite
<1> QED
  BY <1>1, <1>2, <1>6, <1>7, <1>9

\* The report of a mechanical run, at the close of any candle: every trade carries
\* the dimensions of its own entry and falls in one cohort of each dimension; the
\* cohorts and the setups of the expectancy filter add up to the whole, the wins
\* and losses to the expectancy, no drawdown is deeper than the deepest, and a
\* setup is refused only where a trade of its regime fell short
\* (_carry_entry_dims, summarize_breakdowns, load_expectancy_state).
THEOREM ReportAlwaysAddsUp == ReplaysSpec => []ReportAddsUp
<1>1. BacktestInv /\ JournalInv => ReportAddsUp
  <2> SUFFICES ASSUME BacktestInv, JournalInv, ~options.llm
               PROVE  /\ DimensionsCarried /\ CohortsAddUp /\ OutcomesAddUp
                      /\ DrawdownBounded /\ SetupsAddUp
    BY DEF ReportAddsUp
  <2>1. PICK list, N : list = Metrics /\ N = DOMAIN list
    OBVIOUS
  <2>2. MetricsOK(list) /\ N = 1 .. Len(ledger.trades) /\ TotalPnl(list, N) = ledger.realized
    BY <2>1, MetricsGiven
  <2>3. PICK report : report = Whole
    OBVIOUS
  <2>4. /\ report.trades = Cardinality(N) /\ report.wins = Cardinality(Wins(list, N))
        /\ report.losses = Cardinality(Losses(list, N)) /\ report.breakeven = Cardinality(Breakeven(list, N))
        /\ report.avgWinR = AverageR(list, Wins(list, N)) /\ report.avgLossR = AverageR(list, Losses(list, N))
        /\ report.expectancyR = AverageR(list, N)
        /\ report.maxDrawdown = MaxDrawdown(list, N, StartingEquity)
        /\ report.avgDrawdown = AvgDrawdown(list, N, StartingEquity)
    BY <2>1, <2>3, SummaryFields DEF Whole
  <2>5. DimensionsCarried
    <3>1. DOMAIN journal.entry = Open /\ DOMAIN journal.trade = KeysOf(ledger.trades)
      BY DEF JournalInv, JournalOK, Open
    <3>2. Keys = KeysOf(ledger.trades) /\ Cardinality(Keys) = Cardinality(N)
      BY <2>2, KeysAreTrades
    <3> QED
      BY <2>3, <2>4, <3>1, <3>2 DEF DimensionsCarried
  <2>6. CohortsAddUp
    <3> SUFFICES ASSUME NEW d \in Dimensions
                 PROVE  /\ NoValue \notin DOMAIN Parts(d)
                        /\ Total("trades", Parts(d)) = Whole.trades
                        /\ Total("pnl", Parts(d)) = ledger.realized
      BY DEF CohortsAddUp
    <3>1. PICK parts : parts = Breakdown(list, d, StartingEquity) /\ parts = Parts(d)
      BY <2>1 DEF Parts
    <3>2. /\ NoValue \notin DOMAIN parts /\ Total("trades", parts) = Cardinality(N)
          /\ Total("pnl", parts) = TotalPnl(list, N)
      BY <2>1, <2>2, <3>1, CohortsAdd
    <3> QED
      BY <2>2, <2>3, <2>4, <3>1, <3>2
  <2>7. OutcomesAddUp
    <3>1. /\ Cardinality(Wins(list, N)) + Cardinality(Losses(list, N)) + Cardinality(Breakeven(list, N))
                = Cardinality(N)
          /\ AverageR(list, N).sum = AverageR(list, Wins(list, N)).sum + AverageR(list, Losses(list, N)).sum
      BY <2>1, <2>2, OutcomesAdd
    <3> QED
      BY ONLY <2>3, <2>4, <3>1 DEF OutcomesAddUp
  <2>8. DrawdownBounded
    <3> SUFFICES ASSUME Whole.trades > 0
                 PROVE  Whole.avgDrawdown.sum <= Whole.avgDrawdown.count * Whole.maxDrawdown
      BY DEF DrawdownBounded
    <3>1. N # {}
      <4>1. Cardinality({}) = 0 /\ Cardinality(N) > 0
        BY <2>3, <2>4, FS_EmptySet
      <4> QED
        BY <4>1
    <3>2. StartingEquity \in Nat \ {0}
      BY BacktestConstants DEF Positive
    <3>3. AvgDrawdown(list, N, StartingEquity).sum
            <= AvgDrawdown(list, N, StartingEquity).count * MaxDrawdown(list, N, StartingEquity)
      BY <2>1, <2>2, <3>1, <3>2, DrawdownsBound
    <3> QED
      BY ONLY <2>3, <2>4, <3>3
  <2>9. SetupsAddUp
    <3>1. Setups = Classes(N, SetupIn(list))
      BY <2>1 DEF Setups, Classes, SetupIn
    <3>2. \A u : View(u) = ViewOf(list, u)
      BY <2>1 DEF View, ViewOf
    <3>3. SumOf([u \in Setups |-> View(u).count]) = AverageR(list, N).count
      <4>1. PICK f : f = [u \in Setups |-> View(u).count]
        OBVIOUS
      <4>2. DOMAIN f = Classes(DOMAIN list, SetupIn(list)) /\ \A u \in DOMAIN f : f[u] = ViewOf(list, u).count
        BY <2>1, <3>1, <3>2, <4>1
      <4>3. SumOf(f) = AverageR(list, DOMAIN list).count
        BY ONLY <2>2, <4>2, SetupsAdd, Zenon
      <4> QED
        BY <2>1, <4>1, <4>3
    <3>4. SumOf([u \in Setups |-> View(u).sum]) = AverageR(list, N).sum
      <4>1. PICK f : f = [u \in Setups |-> View(u).sum]
        OBVIOUS
      <4>2. DOMAIN f = Classes(DOMAIN list, SetupIn(list)) /\ \A u \in DOMAIN f : f[u] = ViewOf(list, u).sum
        BY <2>1, <3>1, <3>2, <4>1
      <4>3. SumOf(f) = AverageR(list, DOMAIN list).sum
        BY ONLY <2>2, <4>2, SetupsAdd, Zenon
      <4> QED
        BY <2>1, <4>1, <4>3
    <3>5. \A u \in Setups : ExpectancyDecision(View(u)) = "NEGATIVE_EXPECTANCY" =>
            \E i \in N : list[i].regime = u[1] /\ list[i].r # NoValue /\ list[i].r < MinExpectancy
      BY <2>1, <2>2, <3>1, <3>2, RefusedFellShort
    <3>6. report.expectancyR = AverageR(list, N)
      BY <2>4
    <3> QED
      BY <2>1, <2>3, <3>3, <3>4, <3>5, <3>6 DEF SetupsAddUp
  <2> QED
    BY <2>5, <2>6, <2>7, <2>8, <2>9
<1> QED
  BY <1>1, JournalSession, PTL

-----------------------------------------------------------------------------
(* The ledger's types and its money.                                       *)

\* A compounding account never stakes money it has lost (free_balance_usdt).
LEMMA CashIsCovered == BacktestInv => CashCovered
<1> SUFFICES ASSUME BacktestInv, options.compounding PROVE Equity >= Exposure
  BY DEF CashCovered
<1>1. StartingEquity + ledger.realized >= Staked(ledger.positions)
  BY DEF BacktestInv, LedgerOK
<1>2. Equity = StartingEquity + ledger.realized
  BY DEF Equity
<1> QED
  BY <1>1, <1>2, ExposureIsSum

LEMMA LedgerTypes == BacktestInv => TypeOK
<1> SUFFICES ASSUME BacktestInv PROVE TypeOK
  OBVIOUS
<1>1. PICK tab \in Tables, list \in Seq(Trade) :
        tab = ledger.positions /\ list = ledger.trades /\ Open = DOMAIN tab
  BY DEF BacktestInv, LedgerOK, Ledgers, Open
<1>2. Open \subseteq Pairs /\ \A s \in Open : ledger.positions[s] \in Position
  <2>1. Open \subseteq Pairs /\ \A s \in Open : ledger.positions[s] \in Held
    BY <1>1, TableTypes
  <2>2. Held \subseteq Position
    BY DEF Held, Position, Positive
  <2> QED
    BY <2>1, <2>2
<1>3. \A t \in Range(ledger.trades) : t.opened < t.closed
  <2> SUFFICES ASSUME NEW t \in Range(list) PROVE t.opened < t.closed
    BY <1>1
  <2>1. PICK i \in DOMAIN list : t = list[i]
    BY DEF Range
  <2>2. i \in 1 .. Len(list)
    OBVIOUS
  <2> QED
    BY <2>1, <2>2, <1>1 DEF BacktestInv, LedgerOK
<1>4. ledger.streak \in 0 .. Len(ledger.trades)
  <2>1. PICK n \in Nat, m \in Nat : n = Len(list) /\ m = ledger.streak
    BY DEF BacktestInv, LedgerOK, Ledgers
  <2> QED
    BY <2>1, <1>1 DEF BacktestInv, LedgerOK
<1> QED
  BY <1>1, <1>2, <1>3, <1>4 DEF TypeOK, BacktestInv, StageOK, LedgerOK, Open

-----------------------------------------------------------------------------
(* The simulator: its constants, its tables, its money.                    *)

LEMMA SimConstants ==
    /\ Fee \in 0 .. 999 /\ SlippageRate \in 0 .. 999 /\ StaticStopLoss \in 1 .. 999
    /\ MaxBars \in Nat /\ SimMaxPosition \in Nat
    /\ \A group \in Bars : \A s \in Pairs :
          group[s] \in [open : Nat, high : Nat, low : Nat, close : Nat]
    /\ SyntheticSignals \subseteq
          [action : {"BUY", "SELL", "HOLD"}, confidence : 0 .. 1000, stop : Nat]
    /\ Sim!Pairs = Pairs
<1>1. Sim!Pairs = Pairs
  BY DEF Sim!Pairs, Sim!Range, Pairs, Range
<1> QED
  BY <1>1, SimulatorAssumption DEF Sim!SimulatorConstants

LEMMA SimExtremes ==
    /\ \A S : Sim!Max(S) = Max(S) /\ Sim!Min(S) = Min(S)
    /\ \A S : Sim!Engine!Max(S) = Max(S) /\ Sim!Engine!Min(S) = Min(S)
    /\ \A S : Sim!Cardinality(S) = Cardinality(S)
    /\ \A S : Sim!Engine!Cardinality(S) = Cardinality(S)
<1>1. \A S : Sim!Max(S) = Max(S) /\ Sim!Min(S) = Min(S)
  BY DEF Sim!Max, Sim!Min, Max, Min
<1>2. \A S : Sim!Engine!Max(S) = Max(S) /\ Sim!Engine!Min(S) = Min(S)
  BY DEF Sim!Engine!Max, Sim!Engine!Min, Max, Min
<1>3. \A S : Sim!Cardinality(S) = Cardinality(S)
  BY DEF Sim!Cardinality, Cardinality
<1>4. \A S : Sim!Engine!Cardinality(S) = Cardinality(S)
  BY DEF Sim!Engine!Cardinality, Cardinality
<1> QED
  BY <1>1, <1>2, <1>3, <1>4

LEMMA FeeNatural ==
  ASSUME NEW x \in Nat
  PROVE  Sim!FeeOf(x) \in Nat /\ Sim!FeeOf(x) <= x /\ (x = 0 => Sim!FeeOf(x) = 0)
<1>1. PICK y \in Int, n \in Positive, rate \in Nat, zero \in Int :
        y = x * rate /\ n = 1000 /\ rate = Fee /\ rate <= 999 /\ zero = 0
  BY SimConstants DEF Positive
<1>2. zero * n <= y /\ y <= x * n
  <2>1. x * rate >= 0
    OBVIOUS
  <2>2. x * (1000 - rate) >= 0
    BY <1>1
  <2>3. x * (1000 - rate) = x * 1000 - x * rate
    OBVIOUS
  <2> QED
    BY <2>1, <2>2, <2>3, <1>1
<1>3. y \div n \in Int /\ zero <= y \div n /\ y \div n <= x
  BY <1>2, DivisionBetween DEF Positive
<1>4. Sim!FeeOf(x) = y \div n
  BY <1>1 DEF Sim!FeeOf
<1> QED
  BY <1>1, <1>3, <1>4

TablesOf(V) == UNION {[S -> V] : S \in SUBSET Pairs}

LEMMA TableFacts ==
  ASSUME NEW V, NEW tab \in TablesOf(V)
  PROVE  /\ DOMAIN tab \in SUBSET Pairs /\ IsFiniteSet(DOMAIN tab)
         /\ \A s \in DOMAIN tab : tab[s] \in V
<1>1. DOMAIN tab \in SUBSET Pairs /\ \A s \in DOMAIN tab : tab[s] \in V
  BY DEF TablesOf
<1>2. IsFiniteSet(DOMAIN tab)
  BY <1>1, PairsFinite, FS_Subset
<1> QED
  BY <1>1, <1>2

LEMMA TableWithout ==
  ASSUME NEW V, NEW tab \in TablesOf(V), NEW s
  PROVE  /\ Sim!Without(tab, s) \in TablesOf(V)
         /\ DOMAIN Sim!Without(tab, s) = DOMAIN tab \ {s}
         /\ \A x \in DOMAIN tab \ {s} : Sim!Without(tab, s)[x] = tab[x]
<1>a. DOMAIN tab \in SUBSET Pairs /\ \A x \in DOMAIN tab : tab[x] \in V
  BY TableFacts
<1>1. PICK S : S = DOMAIN tab \ {s} /\ S \in SUBSET Pairs /\ \A x \in S : tab[x] \in V
  BY <1>a
<1>2. Sim!Without(tab, s) = [x \in S |-> tab[x]]
  BY <1>1 DEF Sim!Without
<1> QED
  BY <1>1, <1>2 DEF TablesOf

LEMMA TableWith ==
  ASSUME NEW V, NEW tab \in TablesOf(V), NEW s \in Pairs, NEW v \in V
  PROVE  /\ Sim!With(tab, s, v) \in TablesOf(V)
         /\ DOMAIN Sim!With(tab, s, v) = DOMAIN tab \cup {s}
         /\ \A x \in DOMAIN tab : x # s => Sim!With(tab, s, v)[x] = tab[x]
         /\ Sim!With(tab, s, v)[s] = v
<1>a. DOMAIN tab \in SUBSET Pairs /\ \A x \in DOMAIN tab : tab[x] \in V
  BY TableFacts
<1>1. PICK S : S = DOMAIN tab \cup {s} /\ S \in SUBSET Pairs /\ \A x \in DOMAIN tab : tab[x] \in V
  BY <1>a
<1>2. Sim!With(tab, s, v) = [x \in S |-> IF x = s THEN v ELSE tab[x]]
  BY <1>1 DEF Sim!With
<1>3. \A x \in S : (IF x = s THEN v ELSE tab[x]) \in V
  BY <1>1
<1> QED
  BY <1>1, <1>2, <1>3 DEF TablesOf

Kept == [opened : Nat, stake : Nat, fee : Nat, entry : Positive]
Order == [side : {"BUY", "SELL"}, stake : Nat]
Deal == [symbol : Pairs, opened : Int, closed : Int, net : Int,
         reason : {"stop_loss", "roi", "signal_exit"}]

CostIn(tab) == [s \in DOMAIN tab |-> tab[s].stake + tab[s].fee]
Costs(tab) == Sum(CostIn(tab), DOMAIN tab)
NetIn(list) == [i \in DOMAIN list |-> list[i].net]
Nets(list) == Sum(NetIn(list), 1 .. Len(list))

\* What the waiting entries will cost.
WaitIn(tab) == [s \in DOMAIN tab |-> tab[s].stake + Sim!FeeOf(tab[s].stake)]
Waiting(tab, S) == Sum(WaitIn(tab), S)

LEMMA CostsAreSum ==
  Sim!MapThenSumSet(LAMBDA s : Sim!Cost(positions[s]), DOMAIN positions) = Costs(positions)
<1> DEFINE S == DOMAIN positions
           pick(s) == CHOOSE x \in s : TRUE
           F == CostIn(positions)
           Is(g) == g = [s \in SUBSET S |-> IF s = {} THEN 0
                                            ELSE Sim!Cost(positions[pick(s)]) + g[s \ {pick(s)}]]
           total == Sim!MapThenSumSet(LAMBDA s : Sim!Cost(positions[s]), DOMAIN positions)
<1>1. total = (CHOOSE g : Is(g))[S]
  BY DEF Sim!MapThenSumSet, Sim!MapThenFoldSet
<1>2. \A s \in SUBSET S : s # {} => pick(s) \in S
  OBVIOUS
<1>3. \A g : Adds(F, S, g) <=> g = [s \in SUBSET S |-> IF s = {} THEN 0 ELSE F[pick(s)] + g[s \ {pick(s)}]]
  BY DEF Adds
<1> HIDE DEF pick
<1>4. \A s \in SUBSET S : s # {} => F[pick(s)] = Sim!Cost(positions[pick(s)])
  BY <1>2 DEF CostIn, Sim!Cost
<1> HIDE DEF F, S
<1>5. \A g : [s \in SUBSET S |-> IF s = {} THEN 0 ELSE F[pick(s)] + g[s \ {pick(s)}]]
             = [s \in SUBSET S |-> IF s = {} THEN 0 ELSE Sim!Cost(positions[pick(s)]) + g[s \ {pick(s)}]]
  BY <1>4
<1>6. \A g : Adds(F, S, g) <=> Is(g)
  BY <1>3, <1>5
<1> HIDE DEF Is, total
<1>7. (CHOOSE g : Adds(F, S, g)) = (CHOOSE g : Is(g))
  BY <1>6
<1>8. total = Sum(F, S)
  BY <1>1, <1>7 DEF Sum
<1> QED
  BY <1>8 DEF total, Costs, F, S

LEMMA NetsAreSum ==
  ASSUME trades \in Seq(Deal)
  PROVE  /\ Sim!FoldLeft(LAMBDA sum, t : sum + t.net, 0, trades) = Nets(trades)
         /\ Nets(trades) \in Int
<1> DEFINE S == DOMAIN trades
           F == NetIn(trades)
           Is(g) == g = [s \in SUBSET S |-> IF s = {} THEN 0
                                            ELSE g[s \ {Max(s)}] + trades[Max(s)].net]
           total == Sim!FoldLeft(LAMBDA sum, t : sum + t.net, 0, trades)
<1>1. total = (CHOOSE g : Is(g))[S]
  BY SimExtremes DEF Sim!FoldLeft, Sim!MapThenFoldSet, Sim!Max, Max
<1>2. S = 1 .. Len(trades) /\ Len(trades) \in Nat
  OBVIOUS
<1>3. IsFiniteSet(S) /\ S \in SUBSET Int
  BY <1>2, FS_Interval
<1>4. \A s \in SUBSET S : s # {} => Max(s) \in S
  <2> SUFFICES ASSUME NEW s \in SUBSET S, s # {} PROVE Max(s) \in S
    OBVIOUS
  <2>1. s \in SUBSET Int /\ IsFiniteSet(s)
    BY <1>3, FS_Subset
  <2> QED
    BY <2>1, GreatestInteger
<1>5. \A i \in S : F[i] = trades[i].net /\ F[i] \in Int
  <2> TAKE i \in S
  <2>1. trades[i] \in Deal
    OBVIOUS
  <2> QED
    BY <2>1 DEF NetIn, Deal
<1> HIDE DEF F, S
<1>6. \A g : FromLast(F, S, g) <=> Is(g)
  <2> TAKE g
  <2>1. [s \in SUBSET S |-> IF s = {} THEN 0 ELSE g[s \ {Max(s)}] + F[Max(s)]]
        = [s \in SUBSET S |-> IF s = {} THEN 0 ELSE g[s \ {Max(s)}] + trades[Max(s)].net]
    BY <1>4, <1>5
  <2> QED
    BY <2>1 DEF FromLast
<1> HIDE DEF Is, total
<1>7. (CHOOSE g : FromLast(F, S, g)) = (CHOOSE g : Is(g))
  BY <1>6
<1>8. (CHOOSE g : FromLast(F, S, g))[S] = Sum(F, S)
  BY <1>3, <1>5, FromLastIsSum
<1>9. Sum(F, S) \in Int
  BY <1>3, <1>5, SumInteger
<1>10. total = Sum(F, 1 .. Len(trades)) /\ Sum(F, 1 .. Len(trades)) \in Int
  BY <1>1, <1>2, <1>7, <1>8, <1>9
<1> QED
  BY <1>10 DEF F, total, Nets

LEMMA ReservedIsSum == Sim!Reserved = Waiting(pending, Sim!Entries)
<1> DEFINE S == Sim!Entries
           pick(s) == CHOOSE x \in s : TRUE
           F == WaitIn(pending)
           at(x) == pending[x].stake + Sim!FeeOf(pending[x].stake)
           Is(g) == g = [s \in SUBSET S |-> IF s = {} THEN 0 ELSE at(pick(s)) + g[s \ {pick(s)}]]
<1>1. Sim!Reserved = (CHOOSE g : Is(g))[S]
  BY DEF Sim!Reserved, Sim!MapThenSumSet, Sim!MapThenFoldSet
<1>2. \A s \in SUBSET S : s # {} => pick(s) \in S
  OBVIOUS
<1>3. \A g : Adds(F, S, g) <=> g = [s \in SUBSET S |-> IF s = {} THEN 0 ELSE F[pick(s)] + g[s \ {pick(s)}]]
  BY DEF Adds
<1> HIDE DEF pick
<1>4. \A s \in SUBSET S : s # {} => F[pick(s)] = at(pick(s))
  BY <1>2 DEF WaitIn, Sim!Entries
<1> HIDE DEF F, S, at
<1>5. \A g : [s \in SUBSET S |-> IF s = {} THEN 0 ELSE F[pick(s)] + g[s \ {pick(s)}]]
             = [s \in SUBSET S |-> IF s = {} THEN 0 ELSE at(pick(s)) + g[s \ {pick(s)}]]
  BY <1>4
<1>6. \A g : Adds(F, S, g) <=> Is(g)
  BY <1>3, <1>5
<1> HIDE DEF Is
<1>7. (CHOOSE g : Adds(F, S, g)) = (CHOOSE g : Is(g))
  BY <1>6
<1> QED
  BY <1>1, <1>7 DEF Sum, Waiting, F, S

LEMMA QuotientNatural ==
  ASSUME NEW x \in Nat, NEW n \in Positive
  PROVE  x \div n \in Nat
<1>1. PICK zero \in Int : zero = 0 /\ zero * n <= x
  BY DEF Positive
<1>2. PICK top \in Int : x <= top * n
  <2>1. x <= x * n
    <3>1. x * (n - 1) >= 0
      BY DEF Positive
    <3>2. x * (n - 1) = x * n - x
      BY DEF Positive
    <3> QED
      BY <3>1, <3>2 DEF Positive
  <2> QED
    BY <2>1
<1>3. x \div n \in Int /\ zero <= x \div n
  BY <1>1, <1>2, DivisionBetween DEF Positive
<1> QED
  BY <1>1, <1>3

LEMMA ProceedsNatural ==
  ASSUME NEW p \in Kept, NEW price \in Nat
  PROVE  Sim!Proceeds(p, price) \in Nat
<1>1. PICK x \in Nat, e \in Positive : x = p.stake * price /\ e = p.entry
  BY DEF Kept
<1>2. PICK gross \in Nat : gross = x \div e
  BY QuotientNatural
<1>3. Sim!Gross(p, price) = gross
  BY <1>1, <1>2 DEF Sim!Gross
<1>4. Sim!FeeOf(gross) \in Nat /\ Sim!FeeOf(gross) <= gross
  BY FeeNatural
<1>5. Sim!Proceeds(p, price) = gross - Sim!FeeOf(gross)
  BY <1>3 DEF Sim!Proceeds
<1> QED
  BY <1>4, <1>5

LEMMA SlippedNatural ==
  ASSUME NEW price \in Nat
  PROVE  Sim!Slipped(price) \in Nat
<1>1. PICK kept \in Nat, n \in Positive : kept = 1000 - SlippageRate /\ n = 1000
  BY SimConstants DEF Positive
<1>2. PICK x \in Nat : x = price * kept
  OBVIOUS
<1>3. x \div n \in Nat
  BY QuotientNatural
<1> QED
  BY <1>1, <1>2, <1>3 DEF Sim!Slipped

LEMMA EquityNatural ==
  ASSUME cash \in Nat, positions \in TablesOf(Kept), lastPrices \in TablesOf(Positive)
  PROVE  Sim!Equity \in Nat
<1> DEFINE S == DOMAIN positions
           pick(s) == CHOOSE x \in s : TRUE
           at(x) == Sim!Proceeds(positions[x], IF x \in DOMAIN lastPrices THEN lastPrices[x]
                                               ELSE positions[x].entry)
           F == [x \in S |-> at(x)]
           Is(g) == g = [s \in SUBSET S |-> IF s = {} THEN 0 ELSE at(pick(s)) + g[s \ {pick(s)}]]
<1>1. Sim!Equity = cash + (CHOOSE g : Is(g))[S]
  BY DEF Sim!Equity, Sim!MapThenSumSet, Sim!MapThenFoldSet
<1>2. \A s \in SUBSET S : s # {} => pick(s) \in S
  OBVIOUS
<1>3. \A g : Adds(F, S, g) <=> g = [s \in SUBSET S |-> IF s = {} THEN 0 ELSE F[pick(s)] + g[s \ {pick(s)}]]
  BY DEF Adds
<1>4. \A x \in S : at(x) \in Nat
  <2> SUFFICES ASSUME NEW x \in S PROVE at(x) \in Nat
    OBVIOUS
  <2>1. PICK price \in Nat : price = IF x \in DOMAIN lastPrices THEN lastPrices[x] ELSE positions[x].entry
    <3>1. positions[x] \in Kept
      BY TableFacts
    <3>2. x \in DOMAIN lastPrices => lastPrices[x] \in Positive
      BY TableFacts
    <3> QED
      BY <3>1, <3>2 DEF Kept, Positive
  <2>2. positions[x] \in Kept
    BY TableFacts
  <2> QED
    BY <2>1, <2>2, ProceedsNatural
<1>5. IsFiniteSet(S)
  BY TableFacts
<1> HIDE DEF pick, at
<1>6. \A s \in SUBSET S : s # {} => F[pick(s)] = at(pick(s))
  BY <1>2
<1>7. \A x \in S : F[x] \in Nat
  BY <1>4
<1> HIDE DEF F, S
<1>8. \A g : [s \in SUBSET S |-> IF s = {} THEN 0 ELSE F[pick(s)] + g[s \ {pick(s)}]]
             = [s \in SUBSET S |-> IF s = {} THEN 0 ELSE at(pick(s)) + g[s \ {pick(s)}]]
  BY <1>6
<1>9. \A g : Adds(F, S, g) <=> Is(g)
  BY <1>3, <1>8
<1> HIDE DEF Is
<1>10. (CHOOSE g : Adds(F, S, g)) = (CHOOSE g : Is(g))
  BY <1>9
<1>11. Sim!Equity = cash + Sum(F, S)
  BY <1>1, <1>10 DEF Sum
<1>12. Sum(F, S) \in Nat
  BY <1>5, <1>7, SumNatural
<1> QED
  BY <1>11, <1>12

-----------------------------------------------------------------------------
(* The books, through one candle.                                          *)

Records == [cash : Nat, positions : TablesOf(Kept), trades : Seq(Deal)]

\* What holds of the books at any instant: nothing appears and nothing is lost.
BooksOK(b, at) ==
    /\ b \in Records
    /\ \A s \in DOMAIN b.positions :
          /\ b.positions[s].opened < at
          /\ b.positions[s].stake = 0 => b.positions[s].fee = 0
    /\ \A i \in 1 .. Len(b.trades) : b.trades[i].opened <= b.trades[i].closed /\ b.trades[i].closed <= at
    /\ b.cash + Costs(b.positions) = StartingEquity + Nets(b.trades)

LEMMA NetsAppend ==
  ASSUME NEW list, list \in Seq(Deal), NEW t \in Deal
  PROVE  Nets(list) \in Int /\ Nets(Append(list, t)) = Nets(list) + t.net
<1>a. PICK more : more = Append(list, t)
  OBVIOUS
<1>b. PICK n \in Nat, e \in Int : n = Len(list) /\ e = n + 1
  OBVIOUS
<1>c. more \in Seq(Deal) /\ Len(more) = Len(list) + 1
  BY <1>a
<1>1. more \in Seq(Deal) /\ n = Len(list) /\ more = Append(list, t) /\ e = n + 1 /\ Len(more) = e
  BY <1>a, <1>b, <1>c
<1>2. PICK S : S = 1 .. n /\ IsFiniteSet(S) /\ e \notin S /\ 1 .. e = S \cup {e}
  <2>1. 1 .. n + 1 = (1 .. n) \cup {n + 1} /\ n + 1 \notin 1 .. n
    OBVIOUS
  <2>2. IsFiniteSet(1 .. n)
    BY FS_Interval
  <2> QED
    BY <2>1, <2>2, <1>1
<1>3. \A i \in S : NetIn(more)[i] = NetIn(list)[i] /\ NetIn(list)[i] \in Int
  <2> TAKE i \in S
  <2>1. more[i] = list[i] /\ i \in DOMAIN more /\ i \in DOMAIN list /\ list[i] \in Deal
    BY <1>1, <1>2
  <2> QED
    BY <2>1 DEF NetIn, Deal
<1>4. NetIn(more)[e] = t.net /\ t.net \in Int
  <2>1. more[e] = t /\ e \in DOMAIN more
    BY <1>1
  <2> QED
    BY <2>1 DEF NetIn, Deal
<1>5. Sum(NetIn(list), S) \in Int /\ Sum(NetIn(more), S \cup {e}) = Sum(NetIn(list), S) + NetIn(more)[e]
  <2>1. PICK F, G, d : F = NetIn(list) /\ G = NetIn(more) /\ d = e
    OBVIOUS
  <2>2. \A x \in S : F[x] \in Int
    BY <2>1, <1>3
  <2>3. \A x \in S : G[x] = F[x]
    BY <2>1, <1>3
  <2>4. G[d] \in Int
    BY <2>1, <1>4
  <2>5. Sum(F, S) \in Int /\ Sum(G, S \cup {d}) = Sum(F, S) + G[d]
    <3>1. IsFiniteSet(S)
      BY <1>2
    <3>2. d \notin S
      BY <1>2, <2>1
    <3> QED
      BY ONLY <3>1, <3>2, <2>2, <2>3, <2>4, SumWith
  <2> QED
    BY <2>1, <2>5
<1>6. Nets(list) = Sum(NetIn(list), S) /\ Nets(more) = Sum(NetIn(more), S \cup {e})
  BY <1>1, <1>2 DEF Nets
<1>7. Nets(more) = Nets(list) + t.net
  BY <1>4, <1>5, <1>6
<1> QED
  BY <1>1, <1>5, <1>6, <1>7

LEMMA CostFacts ==
  ASSUME NEW tab \in TablesOf(Kept)
  PROVE  /\ Costs(tab) \in Nat
         /\ \A s \in DOMAIN tab : CostIn(tab)[s] = tab[s].stake + tab[s].fee /\ CostIn(tab)[s] \in Nat
<1>1. \A s \in DOMAIN tab : CostIn(tab)[s] = tab[s].stake + tab[s].fee /\ CostIn(tab)[s] \in Nat
  <2> SUFFICES ASSUME NEW s \in DOMAIN tab
               PROVE  CostIn(tab)[s] = tab[s].stake + tab[s].fee /\ CostIn(tab)[s] \in Nat
    OBVIOUS
  <2>1. tab[s] \in Kept
    BY TableFacts
  <2> QED
    BY <2>1 DEF CostIn, Kept
<1>2. IsFiniteSet(DOMAIN tab)
  BY TableFacts
<1> QED
  BY <1>1, <1>2, SumNatural DEF Costs

LEMMA CostsWithout ==
  ASSUME NEW tab \in TablesOf(Kept), NEW s \in DOMAIN tab, NEW less \in TablesOf(Kept),
         DOMAIN less = DOMAIN tab \ {s}, \A x \in DOMAIN tab \ {s} : less[x] = tab[x]
  PROVE  Costs(less) = Costs(tab) - (tab[s].stake + tab[s].fee) /\ Costs(tab) \in Int
<1>1. \A x \in DOMAIN tab : CostIn(tab)[x] \in Int
  BY CostFacts
<1>2. \A x \in DOMAIN tab \ {s} : CostIn(less)[x] = CostIn(tab)[x]
  BY CostFacts
<1>3. PICK F, G, S : F = CostIn(tab) /\ G = CostIn(less) /\ S = DOMAIN tab
  OBVIOUS
<1>4. IsFiniteSet(S)
  BY <1>3, TableFacts
<1>5. \A x \in S : F[x] \in Int
  BY <1>1, <1>3
<1>6. s \in S
  BY <1>3
<1>7. \A x \in S \ {s} : G[x] = F[x]
  BY <1>2, <1>3
<1>8. Sum(F, S) \in Int /\ Sum(G, S \ {s}) = Sum(F, S) - F[s]
  BY ONLY <1>4, <1>5, <1>6, <1>7, SumWithout
<1>9. F[s] = tab[s].stake + tab[s].fee
  BY <1>3, CostFacts
<1> QED
  BY <1>3, <1>8, <1>9 DEF Costs

LEMMA CloseBooks ==
  ASSUME NEW at \in Nat, NEW b, BooksOK(b, at), NEW s \in DOMAIN b.positions,
         NEW when \in Int, b.positions[s].opened <= when, when <= at,
         NEW price \in Nat, NEW reason \in {"stop_loss", "roi", "signal_exit"},
         NEW c, c = Sim!ClosePosition(b, s, when, price, reason)
  PROVE  /\ BooksOK(c, at) /\ DOMAIN c.positions = DOMAIN b.positions \ {s} /\ c.cash >= b.cash
         /\ \A x \in DOMAIN c.positions : c.positions[x] = b.positions[x]
<1>1. PICK money \in Nat, tab \in TablesOf(Kept), list \in Seq(Deal) :
        money = b.cash /\ tab = b.positions /\ list = b.trades
  BY DEF BooksOK, Records
<1>2. PICK p \in Kept : p = tab[s] /\ s \in DOMAIN tab /\ s \in Pairs
  BY <1>1, TableFacts
<1>3. PICK back \in Nat : back = Sim!Proceeds(p, price)
  BY ProceedsNatural
<1>4. PICK net \in Int : net = back - (p.stake + p.fee)
  BY DEF Kept
<1>5. PICK t : t = [symbol |-> s, opened |-> p.opened, closed |-> when, net |-> net, reason |-> reason]
  OBVIOUS
<1>6. t \in Deal /\ t.net = net /\ t.opened <= t.closed /\ t.closed <= at
  BY <1>1, <1>2, <1>5 DEF Deal, Kept
<1>7. PICK less \in TablesOf(Kept) :
        /\ less = Sim!Without(tab, s) /\ DOMAIN less = DOMAIN tab \ {s}
        /\ \A x \in DOMAIN tab \ {s} : less[x] = tab[x]
  BY TableWithout
<1>8. PICK more \in Seq(Deal) :
        /\ more = Append(list, t) /\ Len(more) = Len(list) + 1
        /\ \A i \in 1 .. Len(more) : more[i] = IF i = Len(list) + 1 THEN t ELSE list[i]
  <2> HIDE DEF Deal
  <2>1. Append(list, t) \in Seq(Deal) /\ Len(Append(list, t)) = Len(list) + 1
    BY <1>6
  <2>2. \A i \in 1 .. Len(list) + 1 : Append(list, t)[i] = IF i = Len(list) + 1 THEN t ELSE list[i]
    OBVIOUS
  <2> QED
    BY <2>1, <2>2
<1>9. c = [cash |-> money + back, positions |-> less, trades |-> more]
  <2>1. Sim!Cost(p) = p.stake + p.fee
    BY DEF Sim!Cost
  <2> QED
    BY <2>1, <1>1, <1>2, <1>3, <1>4, <1>5, <1>7, <1>8 DEF Sim!ClosePosition
<1>10. c.cash = money + back /\ c.positions = less /\ c.trades = more
  BY <1>9
<1>11. c \in Records
  BY <1>9 DEF Records
<1>12. Costs(less) = Costs(tab) - (p.stake + p.fee) /\ Costs(tab) \in Int
  BY <1>2, <1>7, CostsWithout
<1>13. Nets(more) = Nets(list) + net /\ Nets(list) \in Int
  BY <1>6, <1>8, NetsAppend
<1>14. money + Costs(tab) = StartingEquity + Nets(list)
  BY <1>1 DEF BooksOK
<1>15. (money + back) + Costs(less) = StartingEquity + Nets(more)
  <2>1. PICK x \in Int, y \in Int, z \in Int, w \in Int :
          x = Costs(tab) /\ y = Nets(list) /\ z = StartingEquity /\ w = p.stake + p.fee
    BY <1>12, <1>13, BacktestConstants DEF Positive, Kept
  <2>2. money + x = z + y /\ net = back - w
    BY <2>1, <1>4, <1>14
  <2>3. (money + back) + (x - w) = z + (y + net)
    BY <2>2
  <2> QED
    BY <2>1, <2>3, <1>12, <1>13
<1>16. \A i \in 1 .. Len(more) : more[i].opened <= more[i].closed /\ more[i].closed <= at
  <2> TAKE i \in 1 .. Len(more)
  <2>1. CASE i = Len(list) + 1
    BY <2>1, <1>6, <1>8
  <2>2. CASE i # Len(list) + 1
    <3>1. i \in 1 .. Len(list)
      BY <2>2, <1>8
    <3> QED
      BY <3>1, <2>2, <1>1, <1>8 DEF BooksOK
  <2> QED
    BY <2>1, <2>2
<1>17. \A x \in DOMAIN less : /\ less[x].opened < at
                              /\ less[x].stake = 0 => less[x].fee = 0
  BY <1>1, <1>7 DEF BooksOK
<1>18. BooksOK(c, at)
  BY <1>10, <1>11, <1>15, <1>16, <1>17 DEF BooksOK
<1> QED
  BY <1>1, <1>7, <1>10, <1>18

\* An entry is paid with its fee, or dropped.
LEMMA BuyBooks ==
  ASSUME NEW at \in Positive, at = simClock, NEW b, BooksOK(b, at), NEW s \in Pairs,
         NEW order \in Order, NEW k, k.open \in Positive,
         NEW c, c = Sim!ExecuteBuy(b, s, order, k)
  PROVE  /\ BooksOK(c, at)
         /\ \/ c = b
            \/ /\ DOMAIN c.positions = DOMAIN b.positions \cup {s}
               /\ c.cash = b.cash - (order.stake + Sim!FeeOf(order.stake))
<1>a. PICK list : list = b.trades
  OBVIOUS
<1>1. PICK money \in Nat, tab \in TablesOf(Kept) :
        /\ money = b.cash /\ tab = b.positions
        /\ list = b.trades /\ list \in Seq(Deal)
  BY <1>a DEF BooksOK, Records
<1>2. PICK stake \in Nat, fee \in Nat :
        stake = order.stake /\ fee = Sim!FeeOf(stake) /\ (stake = 0 => fee = 0)
  BY FeeNatural DEF Order
<1>3. CASE Sim!EntryCost(order) > b.cash \/ s \in DOMAIN b.positions
  BY <1>3 DEF Sim!ExecuteBuy
<1>4. CASE ~(Sim!EntryCost(order) > b.cash \/ s \in DOMAIN b.positions)
  <2>1. stake + fee <= money /\ s \notin DOMAIN tab
    BY <1>1, <1>2, <1>4 DEF Sim!EntryCost
  <2>2. PICK entry \in Positive : entry = (k.open * (1000 + SlippageRate)) \div 1000
    <3>1. PICK open \in Positive, rate \in Nat, n \in Positive :
            open = k.open /\ rate = SlippageRate /\ n = 1000
      BY SimConstants, SMTT(30) DEF Positive
    <3>2. PICK x \in Int, y \in Int : x = open * (1000 + rate) /\ y = open * n
      BY DEF Positive
    <3>3. y <= x
      <4>1. open * rate >= 0
        BY DEF Positive
      <4>2. x = open * 1000 + open * rate
        BY <3>2 DEF Positive
      <4> QED
        BY <4>1, <4>2, <3>1, <3>2 DEF Positive
    <3>4. x \div n \in Int /\ y \div n <= x \div n
      BY <3>3, DivisionMonotone DEF Positive
    <3>5. y \div n = open
      BY <3>1, <3>2 DEF Positive
    <3>6. x \div n \in Positive
      BY <3>4, <3>5 DEF Positive
    <3> QED
      BY <3>1, <3>2, <3>6
  <2>3. PICK p : p = [opened |-> at - 1, stake |-> stake, fee |-> fee, entry |-> entry]
    OBVIOUS
  <2>4. p \in Kept /\ p.opened < at /\ p.stake = stake /\ p.fee = fee
    <3>1. at - 1 \in Nat /\ at - 1 < at
      BY DEF Positive
    <3> QED
      BY <3>1, <2>3 DEF Kept
  <2>5. PICK new \in TablesOf(Kept) :
          /\ new = Sim!With(tab, s, p) /\ DOMAIN new = DOMAIN tab \cup {s}
          /\ \A x \in DOMAIN tab : x # s => new[x] = tab[x]
          /\ new[s] = p
    <3>1. p \in Kept
      BY <2>4
    <3>2. Sim!With(tab, s, p) \in TablesOf(Kept)
      BY <3>1, TableWith
    <3>3. DOMAIN Sim!With(tab, s, p) = DOMAIN tab \cup {s}
      BY DEF Sim!With
    <3>4. \A x \in DOMAIN tab : x # s => Sim!With(tab, s, p)[x] = tab[x]
      BY DEF Sim!With
    <3>5. Sim!With(tab, s, p)[s] = p
      BY DEF Sim!With
    <3> QED
      BY <3>2, <3>3, <3>4, <3>5
  <2>6. PICK left \in Nat : left = money - (stake + fee)
    BY <2>1
  <2>7. c = [b EXCEPT !.cash = left, !.positions = new]
    BY <1>1, <1>2, <1>4, <2>2, <2>3, <2>5, <2>6 DEF Sim!ExecuteBuy, Sim!EntryCost
  <2>8. c \in Records /\ c.cash = left /\ c.positions = new /\ c.trades = list
    <3>1. b \in Records
      BY DEF BooksOK
    <3> QED
      BY <3>1, <1>1, <2>7 DEF Records
  <2>9. Costs(new) = Costs(tab) + (stake + fee) /\ Costs(tab) \in Int
    <3>1. IsFiniteSet(DOMAIN tab) /\ \A x \in DOMAIN tab : CostIn(tab)[x] \in Int
      BY TableFacts, CostFacts
    <3>2. \A x \in DOMAIN tab : CostIn(new)[x] = CostIn(tab)[x]
      BY <2>1, <2>5, CostFacts
    <3>3. CostIn(new)[s] = stake + fee
      BY <2>4, <2>5, CostFacts
    <3>4. PICK F, G, S : F = CostIn(tab) /\ G = CostIn(new) /\ S = DOMAIN tab
      OBVIOUS
    <3>5. G[s] \in Int
      BY <3>3, <3>4
    <3>a. IsFiniteSet(S) /\ s \notin S
      BY <3>1, <3>4, <2>1
    <3>b. \A x \in S : F[x] \in Int
      BY <3>1, <3>4
    <3>c. \A x \in S : G[x] = F[x]
      BY <3>2, <3>4
    <3>6. Sum(F, S) \in Int /\ Sum(G, S \cup {s}) = Sum(F, S) + G[s]
      BY ONLY <3>5, <3>a, <3>b, <3>c, SumWith
    <3> QED
      BY <3>3, <3>4, <3>6, <2>5 DEF Costs
  <2>10. left + Costs(new) = StartingEquity + Nets(list)
    <3>1. money + Costs(tab) = StartingEquity + Nets(list)
      BY <1>1 DEF BooksOK
    <3>2. PICK x \in Int : x = Costs(tab)
      BY <2>9
    <3>3. left + (x + (stake + fee)) = money + x
      BY <2>6
    <3> QED
      BY <3>1, <3>2, <3>3, <2>9
  <2>11. \A x \in DOMAIN new : /\ new[x].opened < at
                               /\ new[x].stake = 0 => new[x].fee = 0
    BY <1>1, <1>2, <2>4, <2>5 DEF BooksOK
  <2>12. BooksOK(c, at)
    BY <1>1, <2>8, <2>10, <2>11 DEF BooksOK
  <2> QED
    BY <1>1, <1>2, <2>5, <2>6, <2>8, <2>12
<1> QED
  BY <1>3, <1>4

\* A candle's safety exits close the position of its symbol, or nothing.
LEMMA ExitBooks ==
  ASSUME NEW at \in Positive, at = simClock, NEW b, BooksOK(b, at), NEW s \in Pairs,
         NEW k, k.open \in Nat, k.low \in Nat, k.high \in Nat, NEW c, c = Sim!SafetyExits(b, s, k)
  PROVE  BooksOK(c, at) /\ DOMAIN c.positions \subseteq DOMAIN b.positions /\ c.cash >= b.cash
<1>1. PICK money \in Nat, tab \in TablesOf(Kept) : money = b.cash /\ tab = b.positions
  BY DEF BooksOK, Records
<1>2. CASE c = b
  BY <1>1, <1>2
<1>3. CASE s \in DOMAIN b.positions
  <2>1. PICK p \in Kept : p = b.positions[s] /\ p.opened < at /\ (p.stake = 0 => p.fee = 0)
    <3>1. tab[s] \in Kept
      BY <1>1, <1>3, TableFacts
    <3> QED
      BY <3>1, <1>1, <1>3 DEF BooksOK
  <2>2. PICK target \in Nat : target = Sim!RoiTarget((simClock - p.opened) * CandleMinutes)
    <3>1. PICK minutes \in Int : minutes = (simClock - p.opened) * CandleMinutes
      BY BacktestConstants DEF Kept, Positive
    <3>2. Sim!RoiTarget(minutes) \in Nat
      BY DEF Sim!RoiTarget
    <3> QED
      BY <3>1, <3>2
  <2>3. PICK before \in Int, now \in Int :
          before = at - 1 /\ now = at /\ p.opened <= before /\ p.opened <= now /\ before <= at /\ now <= at
    BY <2>1 DEF Kept, Positive
  <2>4. ASSUME NEW when \in Int, p.opened <= when, when <= at, NEW price \in Nat,
               NEW reason \in {"stop_loss", "roi", "signal_exit"},
               c = Sim!ClosePosition(b, s, when, price, reason)
        PROVE  BooksOK(c, at) /\ DOMAIN c.positions \subseteq DOMAIN b.positions /\ c.cash >= b.cash
    <3>1. at \in Nat /\ b.positions[s].opened <= when
      BY <2>1, <2>4 DEF Positive
    <3>2. BooksOK(c, at) /\ DOMAIN c.positions = DOMAIN b.positions \ {s} /\ c.cash >= b.cash
      BY <3>1, <2>4, <1>3, CloseBooks
    <3> QED
      BY <3>2
  <2>5. PICK open \in Nat, stop \in Nat :
          /\ open = Sim!Slipped(k.open) /\ stop = Sim!Slipped(Sim!StopPrice(p))
          /\ Sim!StopPrice(p) \in Nat
    <3>1. PICK kept \in Nat, n \in Positive : kept = 1000 - StaticStopLoss /\ n = 1000
      BY SimConstants DEF Positive
    <3>2. PICK x \in Nat : x = p.entry * kept
      BY DEF Kept, Positive
    <3>3. PICK price \in Nat : price = x \div n
      BY QuotientNatural
    <3>4. Sim!StopPrice(p) = price
      BY <3>1, <3>2, <3>3 DEF Sim!StopPrice
    <3> QED
      BY <3>4, SlippedNatural
  <2>6. PICK stopped \in {"stop_loss", "roi", "signal_exit"}, table \in {"stop_loss", "roi", "signal_exit"} :
          stopped = "stop_loss" /\ table = "roi"
    OBVIOUS
  <2>7. CASE c = Sim!ClosePosition(b, s, now, stop, stopped)
    BY <2>3, <2>4, <2>7
  <2>8. CASE c = Sim!ClosePosition(b, s, before, open, table)
    BY <2>3, <2>4, <2>8
  <2>9. ASSUME ~Sim!Returns(p, open, target)
        PROVE  Sim!PriceForReturn(p, target) \in Nat
    <3>1. PICK cost \in Nat : cost = Sim!Cost(p) /\ cost = p.stake + p.fee
      BY DEF Kept, Sim!Cost
    <3>2. PICK back \in Nat : back = Sim!Proceeds(p, open)
      BY ProceedsNatural
    <3>3. p.stake > 0
      <4>1. cost = 0 => back * 1000 >= cost * (1000 + target)
        OBVIOUS
      <4>2. cost # 0
        BY <4>1, <3>1, <3>2, <2>9 DEF Sim!Returns
      <4> QED
        BY <4>2, <3>1, <2>1 DEF Kept
    <3>4. PICK below \in Positive : below = p.stake * (1000 - Fee)
      <4>1. PICK kept \in Positive : kept = 1000 - Fee
        BY SimConstants DEF Positive
      <4>2. PICK stake \in Positive : stake = p.stake
        BY <3>3 DEF Kept, Positive
      <4>3. stake * kept \in Positive
        BY DEF Positive
      <4> QED
        BY <4>1, <4>2, <4>3
    <3>5. PICK above \in Nat : above = Sim!Cost(p) * (1000 + target) * p.entry
      <4>1. PICK x \in Nat, e \in Nat : x = cost * (1000 + target) /\ e = p.entry
        BY DEF Kept, Positive
      <4>2. x * e \in Nat
        OBVIOUS
      <4> QED
        BY <4>1, <4>2, <3>1
    <3>6. above \div below \in Nat
      BY QuotientNatural
    <3> QED
      BY <3>4, <3>5, <3>6 DEF Sim!PriceForReturn
  <2>10. CASE ~Sim!Returns(p, open, target) /\ c = Sim!ClosePosition(b, s, now, Sim!PriceForReturn(p, target), table)
    <3>1. PICK price \in Nat : price = Sim!PriceForReturn(p, target)
      BY <2>9, <2>10
    <3> QED
      BY <3>1, <2>3, <2>4, <2>10
  <2>11. \/ c = b
         \/ c = Sim!ClosePosition(b, s, now, stop, stopped)
         \/ c = Sim!ClosePosition(b, s, before, open, table)
         \/ ~Sim!Returns(p, open, target) /\ c = Sim!ClosePosition(b, s, now, Sim!PriceForReturn(p, target), table)
    <3>1. /\ p = b.positions[s] /\ target = Sim!RoiTarget((simClock - p.opened) * CandleMinutes)
          /\ k.low \in Int /\ Sim!StopPrice(p) \in Int
          /\ c = Sim!SafetyExits(b, s, k) /\ s \in DOMAIN b.positions
      BY <1>3, <2>1, <2>2, <2>5
    <3>2. CASE k.low <= Sim!StopPrice(p)
      <4>1. c = Sim!ClosePosition(b, s, simClock, Sim!Slipped(Sim!StopPrice(p)), "stop_loss")
        BY ONLY <3>1, <3>2 DEF Sim!SafetyExits
      <4> QED
        BY <4>1, <2>3, <2>5, <2>6
    <3>3. CASE k.low > Sim!StopPrice(p) /\ Sim!Returns(p, Sim!Slipped(k.open), target)
      <4>1. c = Sim!ClosePosition(b, s, simClock - 1, Sim!Slipped(k.open), "roi")
        BY ONLY <3>1, <3>3 DEF Sim!SafetyExits
      <4> QED
        BY <4>1, <2>3, <2>5, <2>6
    <3>4. CASE k.low > Sim!StopPrice(p) /\ ~Sim!Returns(p, Sim!Slipped(k.open), target)
      <4>1. c = b \/ c = Sim!ClosePosition(b, s, simClock, Sim!PriceForReturn(p, target), "roi")
        BY ONLY <3>1, <3>4 DEF Sim!SafetyExits
      <4> QED
        BY <4>1, <3>4, <2>3, <2>5, <2>6
    <3>5. k.low <= Sim!StopPrice(p) \/ k.low > Sim!StopPrice(p)
      BY <3>1
    <3> QED
      BY <3>2, <3>3, <3>4, <3>5
  <2> QED
    BY <1>2, <2>7, <2>8, <2>10, <2>11
<1>4. CASE s \notin DOMAIN b.positions
  BY <1>2, <1>4 DEF Sim!SafetyExits
<1> QED
  BY <1>3, <1>4

-----------------------------------------------------------------------------
(* The risk engine's rules, as the simulator applies them.                 *)

\* What an approved entry is known to satisfy.
LEMMA ApprovedSignal ==
  ASSUME NEW sig, NEW acct, Sim!Engine!Verdict(sig, acct) = "APPROVED"
  PROVE  /\ ~Sim!Engine!max_open_positions(sig, acct)
         /\ ~Sim!Engine!insufficient_balance(acct, Sim!Engine!Size(sig, acct))
<1> DEFINE bad(n) == Sim!Engine!Violated(Sim!Engine!RulesInOrder[n], sig, acct)
<1>1. ~\E i \in DOMAIN Sim!Engine!RulesInOrder : bad(i)
  BY DEF Sim!Engine!Verdict, Sim!Engine!RulesInOrder
<1>2. /\ 6 \in DOMAIN Sim!Engine!RulesInOrder /\ Sim!Engine!RulesInOrder[6] = "MAX_POSITIONS_REACHED"
      /\ 11 \in DOMAIN Sim!Engine!RulesInOrder /\ Sim!Engine!RulesInOrder[11] = "INSUFFICIENT_BALANCE"
  BY DEF Sim!Engine!RulesInOrder
<1>3. /\ ~Sim!Engine!Violated("MAX_POSITIONS_REACHED", sig, acct)
      /\ ~Sim!Engine!Violated("INSUFFICIENT_BALANCE", sig, acct)
  BY <1>1, <1>2
<1>4. ~Sim!Engine!max_open_positions(sig, acct)
  BY <1>3 DEF Sim!Engine!Violated
<1>5. ~Sim!Engine!insufficient_balance(acct, Sim!Engine!Size(sig, acct))
  BY <1>3 DEF Sim!Engine!Violated
<1> QED
  BY <1>4, <1>5

LEMMA StakeNatural ==
  ASSUME NEW sig, sig.stop \in Int, sig.confidence \in Int,
         NEW acct, acct.equity \in Int, acct.free \in Int
  PROVE  Sim!Engine!Size(sig, acct) \in Nat
<1> DEFINE whole == Min({(acct.equity * RiskPerTrade) \div Engine!StopDistance(sig),
                         (acct.equity * SimMaxPosition) \div 1000, acct.free})
<1>1. PICK k \in Nat : k = Engine!ConfidenceScale(sig.confidence)
  BY ScaleNatural
<1>2. whole \in Int
  <2>1. Engine!StopDistance(sig) \in Positive
    <3>1. PICK low \in Positive, high \in Int : low = MinStopLoss /\ high = MaxStopLoss
      BY BacktestConstants DEF Positive
    <3>2. Engine!StopDistance(sig) \in low .. high
      BY <3>1, StopInRange
    <3> QED
      BY ONLY <3>2, low \in Positive, high \in Int DEF Positive
  <2>2. acct.equity * RiskPerTrade \in Int
    BY BacktestConstants DEF Positive
  <2>3. acct.equity * SimMaxPosition \in Int
    BY SimConstants DEF Positive
  <2>4. 1000 \in Positive
    BY DEF Positive
  <2>5. PICK d \in Positive, x \in Int, y \in Int, free \in Int, n \in Positive :
          /\ d = Engine!StopDistance(sig) /\ x = acct.equity * RiskPerTrade
          /\ y = acct.equity * SimMaxPosition /\ free = acct.free /\ n = 1000
    BY ONLY <2>1, <2>2, <2>3, <2>4, acct.free \in Int
  <2>6. PICK a \in Int, b \in Int : a = x \div d /\ b = y \div n
    BY Division DEF Positive
  <2>7. Min({a, b, free}) \in Int
    BY LeastOfThree
  <2> QED
    BY <2>5, <2>6, <2>7
<1>3. PICK m \in Nat : m = Max({whole, 0})
  <2>1. PICK w \in Int, zero \in Int : w = whole /\ zero = 0
    BY <1>2
  <2>2. Max({w, zero}) = IF w >= zero THEN w ELSE zero
    BY PairClamps
  <2> QED
    BY <2>1, <2>2
<1>4. Sim!Engine!Size(sig, acct) = (m * k) \div 1000
  <2>1. Sim!Engine!Size(sig, acct)
          = (Sim!Engine!Max({Sim!Engine!Min({(acct.equity * RiskPerTrade) \div Sim!Engine!StopDistance(sig),
                                             (acct.equity * SimMaxPosition) \div 1000, acct.free}), 0})
               * Sim!Engine!ConfidenceScale(sig.confidence)) \div 1000
    BY DEF Sim!Engine!Size
  <2>2. Sim!Engine!StopDistance(sig) = Engine!StopDistance(sig)
    BY SimExtremes, EngineExtremes DEF Sim!Engine!StopDistance, Engine!StopDistance
  <2>3. Sim!Engine!ConfidenceScale(sig.confidence) = Engine!ConfidenceScale(sig.confidence)
    <3>1. PICK c : c = sig.confidence
      OBVIOUS
    <3>2. Sim!Engine!Max({0, Sim!Engine!Min({c - MinConfidence, 1000 - MinConfidence})})
            = Engine!Max({0, Engine!Min({c - MinConfidence, 1000 - MinConfidence})})
      BY ONLY SimExtremes, EngineExtremes
    <3>3. Sim!Engine!ConfidenceScale(c) = Engine!ConfidenceScale(c)
      BY ONLY <3>2 DEF Sim!Engine!ConfidenceScale, Engine!ConfidenceScale
    <3> QED
      BY ONLY <3>1, <3>3
  <2>4. Sim!Engine!Size(sig, acct) = (Max({whole, 0}) * Engine!ConfidenceScale(sig.confidence)) \div 1000
    <3>1. Sim!Engine!Max({Sim!Engine!Min({(acct.equity * RiskPerTrade) \div Engine!StopDistance(sig),
                                          (acct.equity * SimMaxPosition) \div 1000, acct.free}), 0})
            = Max({whole, 0})
      BY SimExtremes
    <3>2. PICK cut : cut = Sim!Engine!Max({Sim!Engine!Min({(acct.equity * RiskPerTrade) \div Sim!Engine!StopDistance(sig),
                                                       (acct.equity * SimMaxPosition) \div 1000, acct.free}), 0})
      OBVIOUS
    <3>3. cut = Max({whole, 0})
      BY ONLY <2>2, <3>1, <3>2
    <3>4. Sim!Engine!Size(sig, acct) = (cut * Sim!Engine!ConfidenceScale(sig.confidence)) \div 1000
      BY ONLY <2>1, <3>2, ZenonT(30)
    <3> HIDE DEF whole
    <3> QED
      BY ONLY <2>3, <3>3, <3>4
  <2> HIDE DEF whole
  <2> QED
    BY <2>4, <1>1, <1>3
<1> HIDE DEF whole
<1>5. PICK p \in Nat, n \in Positive : p = m * k /\ n = 1000
  BY DEF Positive
<1>6. p \div n \in Nat
  BY QuotientNatural
<1> QED
  BY <1>4, <1>5, <1>6

-----------------------------------------------------------------------------
(* The simulator's invariant.                                              *)

Candlestick == [open : Positive, high : Positive, low : Positive, close : Positive]
EntriesOf(orders) == {s \in DOMAIN orders : orders[s].side = "BUY"}

ClockOK(at, n, done, k) ==
    /\ at \in 0 .. MaxBars /\ n \in 0 .. Len(Symbols) /\ done \in BOOLEAN
    /\ n < Len(Symbols) => at > 0
    /\ done => n < Len(Symbols)
    /\ k \in [Pairs -> Candlestick]

OrdersOK(orders, last, n, done) ==
    /\ orders \in TablesOf(Order) /\ last \in TablesOf(Positive)
    /\ done => Symbols[n + 1] \notin DOMAIN orders

\* A waiting entry has its seat already.
SeatsOK(held, orders) == Cardinality(DOMAIN held \cup EntriesOf(orders)) <= MaxOpenPositions

CurveOK(w, on) == on \in BOOLEAN /\ w.peak \in Nat /\ w.drawdown \in 0 .. 1000

\* The waiting entries are executed in the order in which they were decided.
Rank(i, n) == IF i > n THEN i ELSE i + Len(Symbols)

\* What the account is short of is within the fee of the youngest of the entries
\* that stake something.
FeesOK(money, orders, n) ==
    Waiting(orders, EntriesOf(orders)) > money =>
        \E i \in 1 .. Len(Symbols) :
            /\ Symbols[i] \in EntriesOf(orders)
            /\ Waiting(orders, EntriesOf(orders)) - Sim!FeeOf(orders[Symbols[i]].stake) <= money
            /\ \A j \in 1 .. Len(Symbols) :
                  Symbols[j] \in EntriesOf(orders) /\ orders[Symbols[j]].stake > 0
                      => Rank(j, n) <= Rank(i, n)

SimInv ==
    /\ ClockOK(simClock, turn, filled, bars)
    /\ BooksOK(Sim!Books, simClock)
    /\ OrdersOK(pending, lastPrices, turn, filled)
    /\ SeatsOK(positions, pending)
    /\ CurveOK(worst, switch)
    /\ FeesOK(cash, pending, turn)

LEMMA EntriesAre == Sim!Entries = EntriesOf(pending)
  BY DEF Sim!Entries, EntriesOf

LEMMA WaitFacts ==
  ASSUME NEW orders \in TablesOf(Order)
  PROVE  /\ \A s \in DOMAIN orders :
              /\ orders[s] \in Order
              /\ WaitIn(orders)[s] = orders[s].stake + Sim!FeeOf(orders[s].stake)
              /\ WaitIn(orders)[s] \in Nat
              /\ orders[s].stake \in Nat /\ Sim!FeeOf(orders[s].stake) \in Nat
              /\ orders[s].stake = 0 => WaitIn(orders)[s] = 0
         /\ IsFiniteSet(EntriesOf(orders)) /\ EntriesOf(orders) \subseteq DOMAIN orders
         /\ Waiting(orders, EntriesOf(orders)) \in Nat
<1>1. ASSUME NEW s \in DOMAIN orders
      PROVE  /\ orders[s] \in Order
             /\ WaitIn(orders)[s] = orders[s].stake + Sim!FeeOf(orders[s].stake)
             /\ WaitIn(orders)[s] \in Nat
             /\ orders[s].stake \in Nat /\ Sim!FeeOf(orders[s].stake) \in Nat
             /\ orders[s].stake = 0 => WaitIn(orders)[s] = 0
  <2>1. orders[s] \in Order
    BY TableFacts
  <2>2. PICK stake \in Nat : stake = orders[s].stake
    BY <2>1 DEF Order
  <2>3. Sim!FeeOf(stake) \in Nat /\ (stake = 0 => Sim!FeeOf(stake) = 0)
    BY FeeNatural
  <2>4. WaitIn(orders)[s] = stake + Sim!FeeOf(stake)
    BY <2>2 DEF WaitIn
  <2> QED
    BY <2>1, <2>2, <2>3, <2>4
<1>2. EntriesOf(orders) \subseteq DOMAIN orders
  BY DEF EntriesOf
<1>3. IsFiniteSet(EntriesOf(orders))
  BY <1>2, TableFacts, FS_Subset
<1>4. \A x \in EntriesOf(orders) : WaitIn(orders)[x] \in Nat
  BY <1>1, <1>2
<1>5. Waiting(orders, EntriesOf(orders)) \in Nat
  BY <1>3, <1>4, SumNatural DEF Waiting
<1> QED
  BY <1>1, <1>2, <1>3, <1>5

THEOREM SimulatorInit == Sim!Init => SimInv
<1> SUFFICES ASSUME Sim!Init PROVE SimInv
  OBVIOUS
<1>1. ClockOK(simClock, turn, filled, bars)
  <2>1. bars = [s \in Pairs |-> [open |-> FirstOpen, high |-> FirstOpen, low |-> FirstOpen, close |-> FirstOpen]]
    BY SimConstants DEF Sim!Init
  <2>2. bars \in [Pairs -> Candlestick]
    BY <2>1, BacktestConstants DEF Candlestick
  <2>3. simClock = 0 /\ turn = Len(Symbols) /\ filled = FALSE
    BY DEF Sim!Init
  <2> QED
    <3>1. PICK n \in Nat : n = Len(Symbols) /\ n \in 0 .. n /\ ~(n < n)
      BY BacktestConstants
    <3>2. 0 \in 0 .. MaxBars
      BY SimConstants
    <3> QED
      BY <2>2, <2>3, <3>1, <3>2 DEF ClockOK
<1>2. PICK none : /\ none = <<>> /\ DOMAIN none = {} /\ none \in Seq(Deal) /\ Len(none) = 0
                  /\ none \in TablesOf(Kept) /\ none \in TablesOf(Order) /\ none \in TablesOf(Positive)
  <2>1. \A V : <<>> \in [{} -> V]
    OBVIOUS
  <2>2. \A V : <<>> \in TablesOf(V)
    BY <2>1 DEF TablesOf
  <2>3. <<>> \in Seq(Deal) /\ Len(<<>>) = 0 /\ DOMAIN <<>> = {}
    OBVIOUS
  <2> QED
    BY <2>2, <2>3
<1>3. cash = StartingEquity /\ positions = none /\ trades = none /\ pending = none /\ lastPrices = none
  BY <1>2 DEF Sim!Init
<1>4. IsFiniteSet({}) /\ Cardinality({}) = 0
  BY FS_EmptySet
<1>5. \A F : Sum(F, {}) = 0
  BY <1>4, SumPicks
<1>6. Costs(none) = 0 /\ Nets(none) = 0 /\ Waiting(none, {}) = 0
  <2>1. 1 .. 0 = {}
    OBVIOUS
  <2> QED
    BY <1>2, <1>5, <2>1 DEF Costs, Nets, Waiting
<1>7. BooksOK(Sim!Books, simClock)
  <2>1. PICK b : b = [cash |-> StartingEquity, positions |-> none, trades |-> none]
    OBVIOUS
  <2>2. b.cash = StartingEquity /\ b.positions = none /\ b.trades = none /\ b \in Records
    BY <2>1, <1>2, BacktestConstants DEF Records, Positive
  <2>3. Sim!Books = b
    BY <2>1, <1>3 DEF Sim!Books
  <2>4. BooksOK(b, simClock)
    BY <2>2, <1>2, <1>6 DEF BooksOK
  <2> QED
    BY <2>3, <2>4
<1>8. OrdersOK(pending, lastPrices, turn, filled)
  BY <1>2, <1>3 DEF OrdersOK, Sim!Init
<1>9. EntriesOf(none) = {}
  BY <1>2 DEF EntriesOf
<1>10. SeatsOK(positions, pending)
  <2>1. DOMAIN positions \cup EntriesOf(pending) = {}
    BY <1>2, <1>3, <1>9
  <2>2. Cardinality(DOMAIN positions \cup EntriesOf(pending)) = 0
    BY ONLY <1>4, <2>1
  <2> QED
    BY <2>2, BacktestConstants DEF SeatsOK
<1>11. CurveOK(worst, switch)
  <2>1. switch = FALSE /\ worst.peak = 0 /\ worst.drawdown = 0
    BY DEF Sim!Init
  <2>2. 0 \in Nat /\ 0 \in 0 .. 1000 /\ FALSE \in BOOLEAN
    OBVIOUS
  <2> QED
    BY ONLY <2>1, <2>2 DEF CurveOK
<1>12. FeesOK(cash, pending, turn)
  <2>1. ~(0 > StartingEquity)
    BY BacktestConstants DEF Positive
  <2> QED
    BY <1>3, <1>6, <1>9, <2>1 DEF FeesOK
<1> QED
  BY <1>1, <1>7, <1>8, <1>10, <1>11, <1>12 DEF SimInv

-----------------------------------------------------------------------------
(* A candle is filled.                                                     *)

\* What executing the waiting order does to the books.
LEMMA PendingBooks ==
  ASSUME NEW at \in Positive, at = simClock, NEW b, BooksOK(b, at), NEW s \in Pairs,
         pending \in TablesOf(Order), NEW k, k.open \in Positive,
         NEW c, c = Sim!ExecutePending(b, s, k)
  PROVE  /\ BooksOK(c, at)
         /\ \/ DOMAIN c.positions \subseteq DOMAIN b.positions /\ c.cash >= b.cash
            \/ /\ s \in EntriesOf(pending)
               /\ DOMAIN c.positions \subseteq DOMAIN b.positions \cup {s}
               /\ c.cash = b.cash - WaitIn(pending)[s]
<1>1. PICK money \in Nat : money = b.cash
  BY DEF BooksOK, Records
<1>2. CASE c = b
  BY <1>1, <1>2
<1>3. CASE s \in EntriesOf(pending) /\ c = Sim!ExecuteBuy(b, s, pending[s], k)
  <2>1. PICK order \in Order : /\ order = pending[s]
                               /\ WaitIn(pending)[s] = order.stake + Sim!FeeOf(order.stake)
    BY <1>3, WaitFacts
  <2>2. c = Sim!ExecuteBuy(b, s, order, k)
    BY <1>3, <2>1
  <2>3. /\ BooksOK(c, at)
        /\ \/ c = b
           \/ /\ DOMAIN c.positions = DOMAIN b.positions \cup {s}
              /\ c.cash = b.cash - (order.stake + Sim!FeeOf(order.stake))
    BY <2>2, BuyBooks
  <2> QED
    BY <1>1, <1>3, <2>1, <2>3
<1>4. CASE s \in DOMAIN b.positions
           /\ c = Sim!ClosePosition(b, s, simClock - 1, Sim!Slipped(k.open), "signal_exit")
  <2>1. PICK tab \in TablesOf(Kept) : tab = b.positions
    BY DEF BooksOK, Records
  <2>2. PICK p \in Kept : p = b.positions[s] /\ p.opened < at
    BY <1>4, <2>1, TableFacts DEF BooksOK
  <2>3. PICK when \in Int, top \in Nat : /\ when = simClock - 1 /\ top = at
                                         /\ b.positions[s].opened <= when /\ when <= top
    BY <2>2 DEF Positive, Kept
  <2>4. PICK price \in Nat : price = Sim!Slipped(k.open)
    BY SlippedNatural DEF Positive
  <2>5. PICK reason \in {"stop_loss", "roi", "signal_exit"} : reason = "signal_exit"
    OBVIOUS
  <2>6. c = Sim!ClosePosition(b, s, when, price, reason)
    BY <1>4, <2>3, <2>4, <2>5
  <2>7. BooksOK(b, top)
    BY <2>3
  <2>8. BooksOK(c, top) /\ DOMAIN c.positions = DOMAIN b.positions \ {s} /\ c.cash >= b.cash
    BY <1>4, <2>3, <2>6, <2>7, CloseBooks
  <2> QED
    BY <2>3, <2>8
<1>5. \/ c = b
      \/ s \in EntriesOf(pending) /\ c = Sim!ExecuteBuy(b, s, pending[s], k)
      \/ s \in DOMAIN b.positions
           /\ c = Sim!ClosePosition(b, s, simClock - 1, Sim!Slipped(k.open), "signal_exit")
  <2>1. CASE s \notin DOMAIN pending
    BY <2>1 DEF Sim!ExecutePending, Sim!Entries
  <2>2. CASE s \in Sim!Entries
    BY <2>2, EntriesAre DEF Sim!ExecutePending, Sim!Entries
  <2>3. CASE s \in DOMAIN pending /\ s \notin Sim!Entries
    BY <2>3 DEF Sim!ExecutePending
  <2> QED
    BY <2>1, <2>2, <2>3
<1> QED
  BY <1>2, <1>3, <1>4, <1>5

\* The entries without the one whose candle is filled.
LEMMA WaitWithout ==
  ASSUME NEW orders \in TablesOf(Order), NEW s, NEW less, less = Sim!Without(orders, s)
  PROVE  /\ less \in TablesOf(Order) /\ EntriesOf(less) = EntriesOf(orders) \ {s}
         /\ \A x \in EntriesOf(less) : less[x] = orders[x]
         /\ Waiting(less, EntriesOf(less))
              = Waiting(orders, EntriesOf(orders))
                  - (IF s \in EntriesOf(orders) THEN WaitIn(orders)[s] ELSE 0)
<1>1. /\ less \in TablesOf(Order) /\ DOMAIN less = DOMAIN orders \ {s}
      /\ \A x \in DOMAIN orders \ {s} : less[x] = orders[x]
  BY TableWithout
<1>2. EntriesOf(less) = EntriesOf(orders) \ {s} /\ \A x \in EntriesOf(less) : less[x] = orders[x]
  BY <1>1 DEF EntriesOf
<1>3. PICK S, F, G : S = EntriesOf(orders) /\ F = WaitIn(orders) /\ G = WaitIn(less)
  OBVIOUS
<1>4. IsFiniteSet(S)
  BY <1>3, WaitFacts
<1>5. \A x \in S : F[x] \in Int
  BY <1>3, WaitFacts
<1>6. \A x \in S \ {s} : G[x] = F[x]
  <2> TAKE x \in S \ {s}
  <2>1. x \in DOMAIN less /\ x \in DOMAIN orders /\ less[x] = orders[x]
    BY <1>1, <1>2, <1>3 DEF EntriesOf
  <2> QED
    BY <2>1, <1>3 DEF WaitIn
<1>7. CASE s \in S
  <2>1. Sum(F, S) \in Int /\ Sum(G, S \ {s}) = Sum(F, S) - F[s]
    BY ONLY <1>4, <1>5, <1>6, <1>7, SumWithout
  <2> QED
    BY <2>1, <1>1, <1>2, <1>3, <1>7 DEF Waiting
<1>8. CASE s \notin S
  <2>1. S \ {s} = S
    BY <1>8
  <2>2. \A x \in S : G[x] = F[x]
    BY <1>6, <2>1
  <2>3. Sum(G, S) = Sum(F, S)
    BY ONLY <1>4, <2>2, SumSame
  <2>4. Waiting(less, EntriesOf(less)) = Waiting(orders, EntriesOf(orders))
    BY <2>1, <2>3, <1>2, <1>3 DEF Waiting
  <2>5. Waiting(orders, EntriesOf(orders)) \in Nat
    BY WaitFacts
  <2> QED
    BY <2>4, <2>5, <1>1, <1>2, <1>3, <1>8
<1> QED
  BY <1>7, <1>8

LEMMA TurnSymbol ==
  ASSUME NEW n \in 0 .. Len(Symbols), n < Len(Symbols)
  PROVE  /\ n + 1 \in 1 .. Len(Symbols) /\ Symbols[n + 1] \in Pairs
         /\ \A j \in 1 .. Len(Symbols) : Symbols[j] = Symbols[n + 1] => j = n + 1
         /\ Rank(n + 1, n) = n + 1
         /\ \A j \in 1 .. Len(Symbols) : j # n + 1 => Rank(j, n) > n + 1
<1>1. PICK len \in Nat : len = Len(Symbols) /\ DOMAIN Symbols = 1 .. len
  BY BacktestConstants
<1>2. n + 1 \in 1 .. len /\ n + 1 > n
  BY <1>1
<1>3. Symbols[n + 1] \in Pairs
  BY <1>1, <1>2, PairsFinite
<1>4. \A j \in 1 .. len : Symbols[j] = Symbols[n + 1] => j = n + 1
  <2>1. IsInjective(Symbols)
    BY BacktestConstants
  <2> QED
    BY <2>1, <1>1, <1>2 DEF IsInjective
<1>5. Rank(n + 1, n) = n + 1
  BY <1>2 DEF Rank
<1>6. \A j \in 1 .. len : j # n + 1 => Rank(j, n) > n + 1
  BY <1>1 DEF Rank
<1> QED
  BY <1>1, <1>2, <1>3, <1>4, <1>5, <1>6

\* The entry whose candle comes is the oldest: when it goes, what is short is
\* still a fee, or nothing waits for money.
LEMMA FeesFilled ==
  ASSUME NEW orders \in TablesOf(Order), NEW n \in 0 .. Len(Symbols), n < Len(Symbols),
         NEW money \in Nat, FeesOK(money, orders, n),
         NEW s, s = Symbols[n + 1], NEW less, less = Sim!Without(orders, s),
         NEW left \in Nat,
         left >= money \/ (s \in EntriesOf(orders) /\ left >= money - WaitIn(orders)[s])
  PROVE  FeesOK(left, less, n)
<1>1. PICK old \in Nat, cost \in Nat :
        /\ old = Waiting(orders, EntriesOf(orders))
        /\ cost = (IF s \in EntriesOf(orders) THEN WaitIn(orders)[s] ELSE 0)
  BY WaitFacts
<1>2. /\ less \in TablesOf(Order) /\ EntriesOf(less) = EntriesOf(orders) \ {s}
      /\ \A x \in EntriesOf(less) : less[x] = orders[x]
      /\ Waiting(less, EntriesOf(less)) = old - cost
  BY <1>1, WaitWithout
<1>3. left >= money - cost
  BY <1>1
<1> SUFFICES ASSUME old - cost > left PROVE
      \E i \in 1 .. Len(Symbols) :
          /\ Symbols[i] \in EntriesOf(less)
          /\ old - cost - Sim!FeeOf(less[Symbols[i]].stake) <= left
          /\ \A j \in 1 .. Len(Symbols) :
                Symbols[j] \in EntriesOf(less) /\ less[Symbols[j]].stake > 0
                    => Rank(j, n) <= Rank(i, n)
  BY <1>2 DEF FeesOK
<1>4. old > money
  BY <1>3
<1>5. PICK i \in 1 .. Len(Symbols) :
        /\ Symbols[i] \in EntriesOf(orders)
        /\ old - Sim!FeeOf(orders[Symbols[i]].stake) <= money
        /\ \A j \in 1 .. Len(Symbols) :
              Symbols[j] \in EntriesOf(orders) /\ orders[Symbols[j]].stake > 0
                  => Rank(j, n) <= Rank(i, n)
  BY <1>1, <1>4 DEF FeesOK
<1>6. CASE i = n + 1
  <2>1. ASSUME NEW x \in EntriesOf(less) PROVE WaitIn(less)[x] = 0
    <3>1. x \in EntriesOf(orders) /\ x # s /\ less[x] = orders[x] /\ x \in DOMAIN less /\ x \in Pairs
      BY <1>2, WaitFacts, TableFacts
    <3>2. PICK j \in 1 .. Len(Symbols) : Symbols[j] = x
      BY <3>1, PairsFinite
    <3>3. j # n + 1 /\ Rank(j, n) > n + 1 /\ Rank(i, n) = n + 1
      BY <3>1, <3>2, <1>6, TurnSymbol
    <3>4. Rank(j, n) \in Int /\ Rank(i, n) \in Int
      BY BacktestConstants DEF Rank
    <3>5. ~(orders[x].stake > 0)
      BY <3>1, <3>2, <3>3, <3>4, <1>5
    <3>6. less[x].stake = 0
      BY <3>1, <3>5, WaitFacts
    <3> QED
      BY <3>1, <3>6, <1>2, WaitFacts
  <2>2. PICK S, F : S = EntriesOf(less) /\ F = WaitIn(less)
    OBVIOUS
  <2>3. IsFiniteSet(S) /\ \A x \in S : F[x] = 0
    BY <2>1, <2>2, <1>2, WaitFacts
  <2>4. Sum(F, S) = 0
    BY ONLY <2>3, SumZero
  <2>5. old - cost = 0
    BY <2>2, <2>4, <1>2 DEF Waiting
  <2> QED
    BY <2>5
<1>7. CASE i # n + 1
  <2>1. Symbols[i] # s
    BY <1>7, TurnSymbol
  <2>2. Symbols[i] \in EntriesOf(less) /\ less[Symbols[i]] = orders[Symbols[i]]
    BY <2>1, <1>2, <1>5
  <2>3. PICK fee \in Nat : fee = Sim!FeeOf(orders[Symbols[i]].stake)
    BY <1>5, WaitFacts
  <2>4. old - cost - fee <= left
    BY <2>3, <1>3, <1>5
  <2>5. \A j \in 1 .. Len(Symbols) :
          Symbols[j] \in EntriesOf(less) /\ less[Symbols[j]].stake > 0 => Rank(j, n) <= Rank(i, n)
    BY <1>2, <1>5
  <2> QED
    BY <2>2, <2>3, <2>4, <2>5
<1> QED
  BY <1>6, <1>7

LEMMA FillCandleKeeps ==
  ASSUME SimInv, Sim!FillCandle
  PROVE  SimInv'
<1>1. PICK s \in Pairs : s = Sim!Current /\ s = Symbols[turn + 1]
  BY TurnSymbol DEF SimInv, ClockOK, Sim!FillCandle, Sim!Current
<1>2. PICK k \in Candlestick : k = bars[s]
  BY DEF SimInv, ClockOK
<1>3. k.open \in Positive /\ k.open \in Nat /\ k.low \in Nat /\ k.high \in Nat /\ k.close \in Positive
  BY DEF Candlestick, Positive
<1>4. PICK at \in Positive : at = simClock
  BY DEF SimInv, ClockOK, Sim!FillCandle, Positive
<1>5. PICK b, mid, c : b = Sim!Books /\ mid = Sim!ExecutePending(b, s, k) /\ c = Sim!SafetyExits(mid, s, k)
  OBVIOUS
<1>6. BooksOK(b, at) /\ pending \in TablesOf(Order)
  BY <1>4, <1>5 DEF SimInv, OrdersOK
<1>7. /\ BooksOK(mid, at)
      /\ \/ DOMAIN mid.positions \subseteq DOMAIN b.positions /\ mid.cash >= b.cash
         \/ /\ s \in EntriesOf(pending)
            /\ DOMAIN mid.positions \subseteq DOMAIN b.positions \cup {s}
            /\ mid.cash = b.cash - WaitIn(pending)[s]
  BY <1>3, <1>4, <1>5, <1>6, PendingBooks
<1>8. BooksOK(c, at) /\ DOMAIN c.positions \subseteq DOMAIN mid.positions /\ c.cash >= mid.cash
  BY <1>3, <1>4, <1>5, <1>7, ExitBooks
<1>9. PICK old \in Nat, between \in Nat, left \in Nat : old = b.cash /\ between = mid.cash /\ left = c.cash
  BY <1>6, <1>7, <1>8 DEF BooksOK, Records
<1>10. b.cash = cash /\ b.positions = positions
  BY <1>5 DEF Sim!Books
<1>11. /\ cash' = c.cash /\ positions' = c.positions /\ trades' = c.trades
       /\ pending' = Sim!Without(pending, s) /\ lastPrices' = Sim!With(lastPrices, s, k.close)
       /\ filled' = TRUE /\ simClock' = simClock /\ turn' = turn /\ bars' = bars
       /\ switch' = switch /\ worst' = worst
  BY <1>1, <1>2, <1>5 DEF Sim!FillCandle
<1>12. ClockOK(simClock, turn, TRUE, bars)
  BY DEF SimInv, ClockOK, Sim!FillCandle
<1>13. BooksOK(Sim!Books, simClock)'
  <2>1. c \in Records
    BY <1>8 DEF BooksOK
  <2>2. c = [cash |-> c.cash, positions |-> c.positions, trades |-> c.trades]
    BY <2>1 DEF Records
  <2>3. Sim!Books' = c
    BY <1>11, <2>2 DEF Sim!Books
  <2> QED
    BY <2>3, <1>4, <1>8, <1>11
<1>14. PICK less : less = Sim!Without(pending, s)
  OBVIOUS
<1>15. less \in TablesOf(Order) /\ s \notin DOMAIN less /\ EntriesOf(less) = EntriesOf(pending) \ {s}
  <2>1. DOMAIN less = DOMAIN pending \ {s}
    BY <1>14 DEF Sim!Without
  <2> QED
    BY <2>1, <1>6, <1>14, WaitWithout
<1>16. PICK last \in TablesOf(Positive) : last = Sim!With(lastPrices, s, k.close)
  <2>1. PICK close \in Positive : close = k.close
    BY <1>3
  <2>2. lastPrices \in TablesOf(Positive)
    BY DEF SimInv, OrdersOK
  <2>3. Sim!With(lastPrices, s, close) \in TablesOf(Positive)
    BY <2>2, TableWith
  <2> QED
    BY <2>1, <2>3
<1>17. OrdersOK(less, last, turn, TRUE)
  BY <1>1, <1>15 DEF OrdersOK
<1>18. SeatsOK(c.positions, less)
  <2>1. PICK T, U : T = DOMAIN positions \cup EntriesOf(pending) /\ U = DOMAIN c.positions \cup EntriesOf(less)
    OBVIOUS
  <2>2. U \subseteq T
    BY <2>1, <1>7, <1>8, <1>10, <1>15
  <2>3. IsFiniteSet(T)
    <3>1. PICK held \in TablesOf(Kept) : held = positions
      BY <1>6, <1>10 DEF BooksOK, Records
    <3>2. IsFiniteSet(DOMAIN positions) /\ IsFiniteSet(EntriesOf(pending))
      BY <3>1, <1>6, TableFacts, WaitFacts
    <3> QED
      BY <3>2, <2>1, FS_Union
  <2>4. Cardinality(U) <= Cardinality(T) /\ Cardinality(T) \in Nat /\ Cardinality(U) \in Nat
    BY <2>2, <2>3, FS_Subset, FS_CardinalityType
  <2>5. Cardinality(T) <= MaxOpenPositions
    BY <2>1 DEF SimInv, SeatsOK
  <2> QED
    BY <2>1, <2>4, <2>5, BacktestConstants DEF SeatsOK
<1>19. FeesOK(left, less, turn)
  <2>1. turn \in 0 .. Len(Symbols) /\ turn < Len(Symbols) /\ FeesOK(old, pending, turn)
    BY <1>9, <1>10 DEF SimInv, ClockOK, Sim!FillCandle
  <2>2. s \in EntriesOf(pending) => WaitIn(pending)[s] \in Nat
    BY <1>6, WaitFacts
  <2>3. left >= old \/ (s \in EntriesOf(pending) /\ left >= old - WaitIn(pending)[s])
    BY <2>2, <1>7, <1>8, <1>9
  <2> QED
    BY <2>1, <2>3, <1>1, <1>6, <1>14, FeesFilled
<1>20. CurveOK(worst, switch)
  BY DEF SimInv
<1> QED
  BY <1>9, <1>11, <1>12, <1>13, <1>14, <1>16, <1>17, <1>18, <1>19, <1>20 DEF SimInv

-----------------------------------------------------------------------------
(* A candle is done, and its signal read.                                  *)

LEMMA EquityIsNatural == SimInv => Sim!Equity \in Nat
<1> SUFFICES ASSUME SimInv PROVE Sim!Equity \in Nat
  OBVIOUS
<1>1. cash \in Nat /\ positions \in TablesOf(Kept)
  BY DEF SimInv, BooksOK, Records, Sim!Books
<1>2. lastPrices \in TablesOf(Positive)
  BY DEF SimInv, OrdersOK
<1> QED
  BY <1>1, <1>2, EquityNatural

\* The fall from a peak to a value, in thousandths of the peak.
Fall(peak, e) == IF peak > 0 THEN ((peak - e) * 1000) \div peak ELSE 0

LEMMA FallInRange ==
  ASSUME NEW peak \in Nat, NEW e \in Nat, e <= peak
  PROVE  Fall(peak, e) \in 0 .. 1000
<1>1. PICK gap \in Nat : gap = peak - e /\ gap <= peak
  OBVIOUS
<1>2. PICK n \in Positive : n = 1000
  BY DEF Positive
<1>3. PICK loss \in Nat : loss = gap * n /\ loss <= n * peak
  BY <1>1, <1>2
<1>4. Fall(peak, e) = IF peak > 0 THEN loss \div peak ELSE 0
  BY ONLY <1>1, <1>2, <1>3 DEF Fall
<1>5. CASE peak > 0
  <2>1. PICK d \in Positive, x \in Int, zero \in Int, full \in Int :
          d = peak /\ x = loss /\ zero = 0 /\ full = n
    BY <1>2, <1>5 DEF Positive
  <2>2. zero * d <= x /\ x <= full * d
    BY <1>2, <1>3, <2>1 DEF Positive
  <2>3. x \div d \in Int /\ zero <= x \div d /\ x \div d <= full
    BY <2>2, DivisionBetween DEF Positive
  <2>4. PICK q : q = x \div d
    OBVIOUS
  <2>5. Fall(peak, e) = q
    BY <1>4, <1>5, <2>1, <2>4
  <2> QED
    BY ONLY <1>2, <2>1, <2>3, <2>4, <2>5
<1>6. CASE ~(peak > 0)
  BY <1>4, <1>6
<1> QED
  BY <1>5, <1>6

LEMMA CurveKeeps ==
  ASSUME SimInv, Sim!RecordEquity
  PROVE  worst'.peak \in Nat /\ worst'.drawdown \in 0 .. 1000
<1>1. PICK e \in Nat : e = Sim!Equity
  BY EquityIsNatural
<1>2. PICK top \in Nat, deep \in 0 .. 1000 : top = worst.peak /\ deep = worst.drawdown
  BY DEF SimInv, CurveOK
<1>3. PICK peak \in Nat : peak = Sim!Max({worst.peak, Sim!Equity}) /\ e <= peak
  <2>1. Max({top, e}) = IF top >= e THEN top ELSE e
    BY PairClamps
  <2>2. Sim!Max({top, e}) = Max({top, e})
    BY SimExtremes
  <2> QED
    BY <1>1, <1>2, <2>1, <2>2
<1>4. PICK depth \in 0 .. 1000 : depth = Fall(peak, e)
  <2>a. e <= peak
    BY <1>3
  <2>1. Fall(peak, e) \in 0 .. 1000
    BY ONLY <2>a, e \in Nat, peak \in Nat, FallInRange, ZenonT(30)
  <2> QED
    BY ONLY <2>1
<1>5. PICK down \in 0 .. 1000 : down = Sim!Max({worst.drawdown, depth})
  <2>1. PICK x \in Int, y \in Int : x = deep /\ y = depth /\ x \in 0 .. 1000 /\ y \in 0 .. 1000
    BY ONLY deep \in 0 .. 1000, depth \in 0 .. 1000
  <2>2. Max({x, y}) = IF x >= y THEN x ELSE y
    BY PairClamps
  <2>3. PICK down : down = Sim!Max({x, y}) /\ down = Max({x, y})
    BY SimExtremes
  <2>4. down \in 0 .. 1000
    BY ONLY <2>1, <2>2, <2>3
  <2>5. down = Sim!Max({worst.drawdown, depth})
    BY ONLY <1>2, <2>1, <2>3
  <2> QED
    BY ONLY <2>4, <2>5
<1>6. worst' = [peak |-> peak, drawdown |-> down]
  <2>1. worst' = [peak |-> Sim!Max({worst.peak, Sim!Equity}),
                  drawdown |-> Sim!Max({worst.drawdown,
                      Fall(Sim!Max({worst.peak, Sim!Equity}), Sim!Equity)})]
    BY DEF Sim!RecordEquity, Fall
  <2> QED
    BY ONLY <2>1, <1>1, <1>3, <1>4, <1>5
<1> QED
  BY <1>6

\* When a symbol's turn passes, its entries become the youngest.
LEMMA RankMoves ==
  ASSUME NEW n \in 0 .. Len(Symbols), n < Len(Symbols), NEW m \in Int, m = n + 1
  PROVE  /\ \A j \in 1 .. Len(Symbols) : j # n + 1 => Rank(j, m) = Rank(j, n)
         /\ \A j \in 1 .. Len(Symbols) : Rank(j, m) <= Rank(n + 1, m)
<1>1. PICK len \in Nat : len = Len(Symbols)
  BY BacktestConstants
<1>2. \A j \in 1 .. len : j # n + 1 => Rank(j, m) = Rank(j, n)
  BY <1>1 DEF Rank
<1>3. \A j \in 1 .. len : Rank(j, m) <= Rank(n + 1, m)
  BY <1>1 DEF Rank
<1> QED
  BY <1>1, <1>2, <1>3

\* The turn passes and no entry is added.
LEMMA FeesPass ==
  ASSUME NEW orders \in TablesOf(Order), NEW n \in 0 .. Len(Symbols), n < Len(Symbols),
         NEW money \in Nat, FeesOK(money, orders, n), Symbols[n + 1] \notin DOMAIN orders,
         NEW more, EntriesOf(more) = EntriesOf(orders),
         \A x \in EntriesOf(orders) : more[x] = orders[x],
         NEW m \in Int, m = n + 1
  PROVE  FeesOK(money, more, m)
<1>1. Waiting(more, EntriesOf(more)) = Waiting(orders, EntriesOf(orders))
  <2>1. PICK S, F, G : S = EntriesOf(orders) /\ F = WaitIn(orders) /\ G = WaitIn(more)
    OBVIOUS
  <2>2. IsFiniteSet(S)
    BY <2>1, WaitFacts
  <2>3. \A x \in S : G[x] = F[x]
    <3> TAKE x \in S
    <3>1. x \in DOMAIN orders /\ x \in DOMAIN more /\ more[x] = orders[x]
      BY <2>1 DEF EntriesOf
    <3> QED
      BY <3>1, <2>1 DEF WaitIn
  <2>4. Sum(G, S) = Sum(F, S)
    BY ONLY <2>2, <2>3, SumSame
  <2> QED
    BY <2>1, <2>4 DEF Waiting
<1>2. ASSUME NEW j \in 1 .. Len(Symbols), Symbols[j] \in EntriesOf(orders)
      PROVE  Rank(j, m) = Rank(j, n)
  <2>1. j # n + 1
    BY <1>2 DEF EntriesOf
  <2> QED
    BY <2>1, RankMoves
<1> SUFFICES ASSUME Waiting(more, EntriesOf(more)) > money PROVE
      \E i \in 1 .. Len(Symbols) :
          /\ Symbols[i] \in EntriesOf(more)
          /\ Waiting(more, EntriesOf(more)) - Sim!FeeOf(more[Symbols[i]].stake) <= money
          /\ \A j \in 1 .. Len(Symbols) :
                Symbols[j] \in EntriesOf(more) /\ more[Symbols[j]].stake > 0
                    => Rank(j, m) <= Rank(i, m)
  BY DEF FeesOK
<1>3. PICK i \in 1 .. Len(Symbols) :
        /\ Symbols[i] \in EntriesOf(orders)
        /\ Waiting(orders, EntriesOf(orders)) - Sim!FeeOf(orders[Symbols[i]].stake) <= money
        /\ \A j \in 1 .. Len(Symbols) :
              Symbols[j] \in EntriesOf(orders) /\ orders[Symbols[j]].stake > 0
                  => Rank(j, n) <= Rank(i, n)
  BY <1>1 DEF FeesOK
<1>4. \A j \in 1 .. Len(Symbols) :
         Symbols[j] \in EntriesOf(more) /\ more[Symbols[j]].stake > 0 => Rank(j, m) <= Rank(i, m)
  <2> TAKE j \in 1 .. Len(Symbols)
  <2>1. CASE Symbols[j] \in EntriesOf(orders)
    <3>1. more[Symbols[j]] = orders[Symbols[j]] /\ Rank(j, m) = Rank(j, n) /\ Rank(i, m) = Rank(i, n)
      BY <2>1, <1>2, <1>3
    <3> QED
      BY <3>1, <2>1, <1>3
  <2>2. CASE Symbols[j] \notin EntriesOf(orders)
    BY <2>2
  <2> QED
    BY <2>1, <2>2
<1> QED
  BY <1>1, <1>3, <1>4

\* An entry is added that stakes at most what the others leave free.
LEMMA FeesEnter ==
  ASSUME NEW orders \in TablesOf(Order), NEW n \in 0 .. Len(Symbols), n < Len(Symbols),
         NEW money \in Nat, FeesOK(money, orders, n),
         NEW s, s = Symbols[n + 1], s \notin DOMAIN orders,
         NEW stake \in Nat,
         stake = 0 \/ stake + Waiting(orders, EntriesOf(orders)) <= money,
         NEW more \in TablesOf(Order), EntriesOf(more) = EntriesOf(orders) \cup {s},
         \A x \in EntriesOf(orders) : more[x] = orders[x], more[s].stake = stake,
         NEW m \in Int, m = n + 1
  PROVE  FeesOK(money, more, m)
<1>1. PICK old \in Nat, fee \in Nat :
        old = Waiting(orders, EntriesOf(orders)) /\ fee = Sim!FeeOf(stake) /\ (stake = 0 => fee = 0)
  BY WaitFacts, FeeNatural
<1>2. Waiting(more, EntriesOf(more)) = old + stake + fee
  <2>1. PICK S, F, G : S = EntriesOf(orders) /\ F = WaitIn(orders) /\ G = WaitIn(more)
    OBVIOUS
  <2>2. IsFiniteSet(S)
    BY <2>1, WaitFacts
  <2>3. \A x \in S : F[x] \in Int
    BY <2>1, WaitFacts
  <2>4. \A x \in S : G[x] = F[x]
    <3> TAKE x \in S
    <3>1. x \in DOMAIN orders /\ x \in DOMAIN more /\ more[x] = orders[x]
      BY <2>1 DEF EntriesOf
    <3> QED
      BY <3>1, <2>1 DEF WaitIn
  <2>5. s \notin S
    BY <2>1 DEF EntriesOf
  <2>6. G[s] = stake + fee
    <3>1. s \in DOMAIN more
      BY DEF EntriesOf
    <3> QED
      BY <3>1, <2>1, <1>1, WaitFacts
  <2>7. G[s] \in Int
    BY <2>6
  <2>8. Sum(F, S) \in Int /\ Sum(G, S \cup {s}) = Sum(F, S) + G[s]
    BY ONLY <2>2, <2>3, <2>4, <2>5, <2>7, SumWith
  <2> QED
    BY <2>1, <2>6, <2>8, <1>1 DEF Waiting
<1>a. PICK all \in Nat : all = old + stake + fee
  OBVIOUS
<1>b. Waiting(more, EntriesOf(more)) = all
  BY <1>2, <1>a
<1> SUFFICES ASSUME all > money PROVE
      \E i \in 1 .. Len(Symbols) :
          /\ Symbols[i] \in EntriesOf(more)
          /\ all - Sim!FeeOf(more[Symbols[i]].stake) <= money
          /\ \A j \in 1 .. Len(Symbols) :
                Symbols[j] \in EntriesOf(more) /\ more[Symbols[j]].stake > 0
                    => Rank(j, m) <= Rank(i, m)
  BY <1>b DEF FeesOK
<1>3. CASE stake = 0
  <2>1. old > money
    BY <1>1, <1>3, <1>a
  <2>2. PICK i \in 1 .. Len(Symbols) :
          /\ Symbols[i] \in EntriesOf(orders)
          /\ old - Sim!FeeOf(orders[Symbols[i]].stake) <= money
          /\ \A j \in 1 .. Len(Symbols) :
                Symbols[j] \in EntriesOf(orders) /\ orders[Symbols[j]].stake > 0
                    => Rank(j, n) <= Rank(i, n)
    BY <1>1, <2>1 DEF FeesOK
  <2>3. ASSUME NEW j \in 1 .. Len(Symbols), Symbols[j] \in EntriesOf(orders)
        PROVE  Rank(j, m) = Rank(j, n)
    <3>1. j # n + 1
      BY <2>3 DEF EntriesOf
    <3> QED
      BY <3>1, RankMoves
  <2>4. \A j \in 1 .. Len(Symbols) :
           Symbols[j] \in EntriesOf(more) /\ more[Symbols[j]].stake > 0 => Rank(j, m) <= Rank(i, m)
    <3> TAKE j \in 1 .. Len(Symbols)
    <3>1. CASE Symbols[j] \in EntriesOf(orders)
      <4>1. more[Symbols[j]] = orders[Symbols[j]] /\ Rank(j, m) = Rank(j, n) /\ Rank(i, m) = Rank(i, n)
        BY <3>1, <2>2, <2>3
      <4> QED
        BY <4>1, <3>1, <2>2
    <3>2. CASE Symbols[j] = s
      BY <3>2, <1>3
    <3> QED
      BY <3>1, <3>2
  <2>5. PICK part \in Nat : part = Sim!FeeOf(orders[Symbols[i]].stake)
    BY <2>2, WaitFacts DEF EntriesOf
  <2>6. all - part <= money
    BY <2>2, <2>5, <1>1, <1>3, <1>a
  <2> QED
    BY <2>2, <2>4, <2>5, <2>6
<1>4. CASE stake # 0
  <2>1. n + 1 \in 1 .. Len(Symbols) /\ Symbols[n + 1] \in EntriesOf(more)
    BY TurnSymbol
  <2>2. \A j \in 1 .. Len(Symbols) : Rank(j, m) <= Rank(n + 1, m)
    BY RankMoves
  <2>3. all - fee <= money
    BY <1>1, <1>4, <1>a
  <2> QED
    BY <2>1, <2>2, <2>3, <1>1
<1> QED
  BY <1>3, <1>4

LEMMA DoneKeeps ==
  ASSUME SimInv, Sim!CandleDone, NEW more \in TablesOf(Order), pending' = more, switch' \in BOOLEAN,
         SeatsOK(positions, more), NEW m \in Int, m = turn + 1, FeesOK(cash, more, m)
  PROVE  SimInv'
<1>1. /\ turn' = m /\ filled' = FALSE /\ simClock' = simClock /\ bars' = bars /\ cash' = cash
      /\ positions' = positions /\ trades' = trades /\ lastPrices' = lastPrices
      /\ turn < Len(Symbols)
  BY DEF Sim!CandleDone
<1>2. ClockOK(simClock, m, FALSE, bars)
  <2>1. PICK len \in Nat : len = Len(Symbols)
    BY BacktestConstants
  <2>2. m \in 0 .. len /\ simClock \in 0 .. MaxBars /\ simClock > 0
    BY <2>1, <1>1 DEF SimInv, ClockOK
  <2> QED
    BY <2>1, <2>2 DEF SimInv, ClockOK
<1>3. BooksOK(Sim!Books, simClock)'
  <2>1. Sim!Books' = Sim!Books
    BY <1>1 DEF Sim!Books
  <2> QED
    BY <2>1, <1>1 DEF SimInv
<1>4. OrdersOK(more, lastPrices, m, FALSE)
  BY DEF SimInv, OrdersOK
<1>5. PICK w : w = worst'
  OBVIOUS
<1>6. w.peak \in Nat /\ w.drawdown \in 0 .. 1000
  BY <1>5, CurveKeeps DEF Sim!CandleDone
<1>7. PICK on \in BOOLEAN : on = switch'
  OBVIOUS
<1>8. CurveOK(w, on)
  BY <1>6 DEF CurveOK
<1> QED
  BY <1>1, <1>2, <1>3, <1>4, <1>5, <1>7, <1>8 DEF SimInv

\* What holds when a signal is read.
LEMMA SignalFacts ==
  ASSUME SimInv, Sim!CandleDone
  PROVE  /\ turn \in 0 .. Len(Symbols) /\ turn < Len(Symbols)
         /\ Sim!Current = Symbols[turn + 1] /\ Sim!Current \in Pairs /\ Sim!Current \notin DOMAIN pending
         /\ pending \in TablesOf(Order) /\ cash \in Nat
         /\ SeatsOK(positions, pending) /\ FeesOK(cash, pending, turn) /\ switch \in BOOLEAN
<1>1. turn \in 0 .. Len(Symbols) /\ turn < Len(Symbols) /\ filled
  BY DEF SimInv, ClockOK, Sim!CandleDone
<1>2. Sim!Current = Symbols[turn + 1]
  BY DEF Sim!Current
<1>3. Symbols[turn + 1] \in Pairs
  BY <1>1, TurnSymbol
<1>4. pending \in TablesOf(Order) /\ Symbols[turn + 1] \notin DOMAIN pending
  BY <1>1 DEF SimInv, OrdersOK
<1>5. cash \in Nat
  BY DEF SimInv, BooksOK, Records, Sim!Books
<1>6. SeatsOK(positions, pending) /\ FeesOK(cash, pending, turn) /\ switch \in BOOLEAN
  BY DEF SimInv, CurveOK
<1> QED
  BY <1>1, <1>2, <1>3, <1>4, <1>5, <1>6

\* The turn passes with no order, or with one that is no entry.
LEMMA PassKeeps ==
  ASSUME SimInv, Sim!CandleDone, switch' \in BOOLEAN,
         NEW more \in TablesOf(Order), pending' = more, EntriesOf(more) = EntriesOf(pending),
         \A x \in EntriesOf(pending) : more[x] = pending[x]
  PROVE  SimInv'
<1>1. PICK n \in 0 .. Len(Symbols), m \in Int, orders \in TablesOf(Order), money \in Nat :
        /\ n = turn /\ m = n + 1 /\ orders = pending /\ money = cash /\ n < Len(Symbols)
        /\ FeesOK(money, orders, n) /\ Symbols[n + 1] \notin DOMAIN orders
  BY SignalFacts
<1>2. FeesOK(money, more, m)
  BY <1>1, FeesPass
<1>3. SeatsOK(positions, more)
  BY SignalFacts DEF SeatsOK
<1> QED
  BY <1>1, <1>2, <1>3, DoneKeeps

LEMMA NoSignalKeeps ==
  ASSUME SimInv, Sim!NoSignal
  PROVE  SimInv'
<1>1. Sim!CandleDone /\ pending' = pending /\ switch' = switch
  BY DEF Sim!NoSignal
<1>2. pending \in TablesOf(Order) /\ switch \in BOOLEAN
  BY <1>1, SignalFacts
<1> QED
  BY <1>1, <1>2, PassKeeps

LEMMA ExitSignalKeeps ==
  ASSUME SimInv, NEW sig \in SyntheticSignals, Sim!ExitSignal(sig)
  PROVE  SimInv'
<1>1. Sim!CandleDone /\ switch' = switch
  BY DEF Sim!ExitSignal
<1>2. pending \in TablesOf(Order) /\ switch' \in BOOLEAN /\ Sim!Current \in Pairs /\ Sim!Current \notin DOMAIN pending
  BY <1>1, SignalFacts
<1>3. CASE pending' = pending
  BY <1>1, <1>2, <1>3, PassKeeps
<1>4. CASE pending' = Sim!With(pending, Sim!Current, [side |-> "SELL", stake |-> 0])
  <2>1. PICK order \in Order : order = [side |-> "SELL", stake |-> 0] /\ order.side # "BUY"
    <3>1. PICK order : order = [side |-> "SELL", stake |-> 0]
      OBVIOUS
    <3>2. order \in Order /\ order.side # "BUY"
      BY <3>1 DEF Order
    <3> QED
      BY <3>1, <3>2
  <2>2. PICK s \in Pairs, orders \in TablesOf(Order) : s = Sim!Current /\ orders = pending /\ s \notin DOMAIN orders
    BY <1>2
  <2>3. PICK more : more = Sim!With(orders, s, order)
    OBVIOUS
  <2>4. more \in TablesOf(Order)
    BY <2>3, TableWith
  <2>5. /\ DOMAIN more = DOMAIN orders \cup {s} /\ more[s] = order
        /\ \A x \in DOMAIN orders : more[x] = orders[x]
    BY <2>2, <2>3 DEF Sim!With
  <2>6. EntriesOf(more) = EntriesOf(orders) /\ \A x \in EntriesOf(orders) : more[x] = orders[x]
    BY <2>1, <2>2, <2>5 DEF EntriesOf
  <2>7. pending' = more
    BY <1>4, <2>1, <2>2, <2>3
  <2> QED
    BY <1>1, <1>2, <2>2, <2>4, <2>6, <2>7, PassKeeps
<1> QED
  BY <1>3, <1>4 DEF Sim!ExitSignal

LEMMA EntrySignalKeeps ==
  ASSUME SimInv, NEW sig \in SyntheticSignals, Sim!EntrySignal(sig)
  PROVE  SimInv'
<1>1. Sim!CandleDone
  BY DEF Sim!EntrySignal
<1>2. PICK view, acct : view = Sim!Viewed(sig) /\ acct = Sim!Account
  OBVIOUS
<1>3. PICK verdict, size : verdict = Sim!Engine!Verdict(view, acct) /\ size = Sim!Engine!Size(view, acct)
  OBVIOUS
<1>4. /\ pending' = IF verdict = "APPROVED"
                    THEN Sim!With(pending, Sim!Current, [side |-> "BUY", stake |-> size])
                    ELSE pending
      /\ switch' = (switch \/ verdict \in Sim!Engine!Trips)
  BY <1>2, <1>3 DEF Sim!EntrySignal
<1>5. /\ turn \in 0 .. Len(Symbols) /\ turn < Len(Symbols)
      /\ Sim!Current = Symbols[turn + 1] /\ Sim!Current \in Pairs /\ Sim!Current \notin DOMAIN pending
      /\ pending \in TablesOf(Order) /\ cash \in Nat
      /\ SeatsOK(positions, pending) /\ FeesOK(cash, pending, turn) /\ switch \in BOOLEAN
  BY <1>1, SignalFacts
<1>6. switch' \in BOOLEAN
  <2>1. CASE switch \/ verdict \in Sim!Engine!Trips
    <3>1. switch' = TRUE
      BY <2>1, <1>4, Zenon
    <3> QED
      BY <3>1
  <2>2. CASE ~(switch \/ verdict \in Sim!Engine!Trips)
    <3>1. switch' = FALSE
      BY <2>2, <1>4, Zenon
    <3> QED
      BY <3>1
  <2> QED
    BY <2>1, <2>2
<1>7. CASE verdict # "APPROVED"
  <2>1. pending' = pending
    BY <1>4, <1>7
  <2> QED
    BY <2>1, <1>1, <1>5, <1>6, PassKeeps
<1>8. CASE verdict = "APPROVED"
  <2>1. PICK n \in 0 .. Len(Symbols), m \in Int, orders \in TablesOf(Order), money \in Nat, s \in Pairs :
          /\ n = turn /\ m = n + 1 /\ orders = pending /\ money = cash /\ n < Len(Symbols)
          /\ FeesOK(money, orders, n) /\ s = Symbols[n + 1] /\ s = Sim!Current /\ s \notin DOMAIN orders
    BY <1>5
  <2>2. PICK wait \in Nat : wait = Sim!Reserved /\ wait = Waiting(orders, EntriesOf(orders))
    BY <2>1, WaitFacts, ReservedIsSum, EntriesAre
  <2>3. PICK free \in Nat : free = Sim!Free /\ (free = 0 \/ free + wait <= money)
    <3>1. PICK d \in Int, zero \in Int : d = money - wait /\ zero = 0
      OBVIOUS
    <3>2. Max({d, zero}) = IF d >= zero THEN d ELSE zero
      BY PairClamps
    <3>3. Sim!Max({d, zero}) = Max({d, zero})
      BY SimExtremes
    <3>4. Sim!Free = Sim!Max({d, zero})
      BY <2>1, <2>2, <3>1 DEF Sim!Free
    <3> QED
      BY <3>1, <3>2, <3>3, <3>4
  <2>4. PICK equity \in Nat : equity = Sim!Equity
    BY EquityIsNatural
  <2>5. acct.equity = equity /\ acct.free = free /\ acct.symbols = DOMAIN positions \cup Sim!Entries
    BY <1>2, <2>3, <2>4 DEF Sim!Account
  <2>6. view.stop \in Int /\ view.confidence \in Int /\ view.pair = s
    <3>1. sig.stop \in Int /\ sig.confidence \in Int
      <4>1. sig \in [action : {"BUY", "SELL", "HOLD"}, confidence : 0 .. 1000, stop : Nat]
        BY SimConstants
      <4>2. sig.confidence \in 0 .. 1000 /\ sig.stop \in Nat
        BY ONLY <4>1
      <4>3. PICK c : c = sig.confidence /\ c \in 0 .. 1000
        BY <4>2, ZenonT(30)
      <4>4. c \in Int
        BY ONLY <4>3
      <4> QED
        BY ONLY <4>2, <4>3, <4>4
    <3> QED
      BY <3>1, <1>2, <2>1 DEF Sim!Viewed
  <2>7. size \in Nat
    BY <1>3, <2>5, <2>6, StakeNatural
  <2>8. ~Sim!Engine!max_open_positions(view, acct) /\ ~Sim!Engine!insufficient_balance(acct, size)
    BY <1>3, <1>8, ApprovedSignal
  <2>9. size <= free
    BY <2>5, <2>7, <2>8 DEF Sim!Engine!insufficient_balance
  <2>10. size = 0 \/ size + wait <= money
    BY <2>3, <2>7, <2>9
  <2>11. PICK T : T = DOMAIN positions \cup EntriesOf(orders) /\ IsFiniteSet(T) /\ s \notin T
                  /\ ~(Cardinality(T) >= MaxOpenPositions)
    <3>1. PICK held \in TablesOf(Kept) : held = positions
      BY DEF SimInv, BooksOK, Records, Sim!Books
    <3>2. IsFiniteSet(DOMAIN positions) /\ IsFiniteSet(EntriesOf(orders))
      BY <3>1, TableFacts, WaitFacts
    <3>3. IsFiniteSet(DOMAIN positions \cup EntriesOf(orders))
      BY <3>2, FS_Union
    <3>4. Sim!Engine!Cardinality(acct.symbols) = Cardinality(acct.symbols)
      BY SimExtremes
    <3> QED
      BY <3>3, <3>4, <2>1, <2>5, <2>6, <2>8, EntriesAre DEF Sim!Engine!max_open_positions
  <2>12. PICK order \in Order : order = [side |-> "BUY", stake |-> size] /\ order.side = "BUY" /\ order.stake = size
    <3>1. PICK order : order = [side |-> "BUY", stake |-> size]
      OBVIOUS
    <3>2. order \in Order /\ order.side = "BUY" /\ order.stake = size
      BY <2>7, <3>1 DEF Order
    <3> QED
      BY <3>1, <3>2
  <2>13. PICK more : more = Sim!With(orders, s, order)
    OBVIOUS
  <2>14. more \in TablesOf(Order)
    BY <2>13, TableWith
  <2>15. /\ DOMAIN more = DOMAIN orders \cup {s} /\ more[s] = order
         /\ \A x \in DOMAIN orders : more[x] = orders[x]
    BY <2>1, <2>13 DEF Sim!With
  <2>16. EntriesOf(more) = EntriesOf(orders) \cup {s} /\ \A x \in EntriesOf(orders) : more[x] = orders[x]
    BY <2>12, <2>15 DEF EntriesOf
  <2>17. pending' = more
    BY <1>4, <1>8, <2>1, <2>12, <2>13
  <2>18. FeesOK(money, more, m)
    <3>1. PICK stake \in Nat : stake = size /\ more[s].stake = stake
      BY <2>7, <2>12, <2>15
    <3>2. stake = 0 \/ stake + Waiting(orders, EntriesOf(orders)) <= money
      BY <3>1, <2>2, <2>10
    <3> QED
      BY <3>1, <3>2, <2>1, <2>14, <2>16, FeesEnter
  <2>19. SeatsOK(positions, more)
    <3>1. DOMAIN positions \cup EntriesOf(more) = T \cup {s}
      BY <2>11, <2>16
    <3>2. Cardinality(T \cup {s}) = Cardinality(T) + 1 /\ Cardinality(T) \in Nat
      BY <2>11, FS_AddElement, FS_CardinalityType
    <3>3. PICK c \in Nat : c = Cardinality(T) /\ ~(c >= MaxOpenPositions)
      BY <3>2, <2>11
    <3>4. c + 1 <= MaxOpenPositions
      BY <3>3, BacktestConstants
    <3> QED
      BY <3>1, <3>2, <3>3, <3>4 DEF SeatsOK
  <2> QED
    BY <1>1, <1>6, <2>1, <2>14, <2>17, <2>18, <2>19, DoneKeeps
<1> QED
  BY <1>7, <1>8

-----------------------------------------------------------------------------
(* The next candles, and the session.                                      *)

LEMMA NextBarsKeeps ==
  ASSUME SimInv, Sim!NextBars
  PROVE  SimInv'
<1>1. PICK group \in Bars :
        bars' = [s \in Pairs |->
            [open |-> Sim!PriceAt(bars[s].close, group[s].open), high |-> Sim!PriceAt(bars[s].close, group[s].high),
             low |-> Sim!PriceAt(bars[s].close, group[s].low), close |-> Sim!PriceAt(bars[s].close, group[s].close)]]
  BY SimConstants DEF Sim!NextBars
<1>2. ASSUME NEW price \in Positive, NEW rate \in Nat
      PROVE  Sim!PriceAt(price, rate) \in Positive
  <2>1. rate <= rate
    OBVIOUS
  <2>2. PriceAt(price, rate) \in Positive
    BY <2>1, PriceOrder
  <2>3. Sim!PriceAt(price, rate) = PriceAt(price, rate)
    BY SimExtremes DEF Sim!PriceAt, PriceAt
  <2> QED
    BY <2>2, <2>3
<1>3. bars' \in [Pairs -> Candlestick]
  <2>1. ASSUME NEW s \in Pairs PROVE bars'[s] \in Candlestick
    <3>1. PICK price \in Positive : price = bars[s].close
      BY DEF SimInv, ClockOK, Candlestick
    <3>2. PICK a \in Nat, b \in Nat, c \in Nat, d \in Nat :
            a = group[s].open /\ b = group[s].high /\ c = group[s].low /\ d = group[s].close
      BY SimConstants
    <3>3. PICK p \in Positive, q \in Positive, r \in Positive, t \in Positive :
            /\ p = Sim!PriceAt(price, a) /\ q = Sim!PriceAt(price, b)
            /\ r = Sim!PriceAt(price, c) /\ t = Sim!PriceAt(price, d)
      BY <1>2
    <3>4. bars'[s] = [open |-> p, high |-> q, low |-> r, close |-> t]
      BY <1>1, <3>1, <3>2, <3>3
    <3> QED
      BY <3>4 DEF Candlestick
  <2>2. PICK k : k = bars' /\ k = [s \in Pairs |-> k[s]]
    BY <1>1
  <2> QED
    BY <2>1, <2>2
<1>4. /\ turn = Len(Symbols) /\ simClock < MaxBars /\ simClock' = simClock + 1 /\ turn' = 0
      /\ filled' = filled /\ cash' = cash /\ positions' = positions /\ trades' = trades
      /\ pending' = pending /\ lastPrices' = lastPrices /\ switch' = switch /\ worst' = worst
  BY DEF Sim!NextBars
<1>5. PICK at \in Nat, top \in Nat, len \in Nat :
        at = simClock /\ top = at + 1 /\ len = Len(Symbols) /\ top \in 0 .. MaxBars /\ top > 0
  <2>1. PICK most \in Nat, len \in Nat : most = MaxBars /\ len = Len(Symbols)
    <3>1. MaxBars \in Nat
      BY SimConstants
    <3>2. Len(Symbols) \in Nat
      BY BacktestConstants
    <3> QED
      BY <3>1, <3>2
  <2>2. PICK at \in Nat : at = simClock /\ at < most
    BY <2>1, <1>4 DEF SimInv, ClockOK
  <2>3. PICK top \in Nat : top = at + 1
    OBVIOUS
  <2>4. top \in 0 .. most /\ top > 0
    BY <2>2, <2>3
  <2> QED
    BY <2>1, <2>2, <2>3, <2>4
<1>6. filled = FALSE
  BY <1>4, <1>5 DEF SimInv, ClockOK
<1>7. PICK k : k = bars' /\ k \in [Pairs -> Candlestick]
  BY <1>3
<1>8. ClockOK(top, 0, FALSE, k)
  <2>1. 0 \in 0 .. len
    BY <1>5
  <2> QED
    BY <2>1, <1>5, <1>7 DEF ClockOK
<1>9. BooksOK(Sim!Books, simClock)'
  <2>1. PICK b : b = Sim!Books /\ BooksOK(b, at)
    BY <1>5 DEF SimInv
  <2>2. PICK tab \in TablesOf(Kept) : tab = b.positions
    BY <2>1 DEF BooksOK, Records
  <2>3. \A s \in DOMAIN tab : tab[s].opened < top
    <3> TAKE s \in DOMAIN tab
    <3>1. tab[s] \in Kept
      BY TableFacts
    <3>2. PICK n \in Nat : n = tab[s].opened
      BY <3>1 DEF Kept
    <3>3. n < at
      BY <3>2, <2>1, <2>2 DEF BooksOK
    <3>4. n < top
      BY <3>3, <1>5
    <3> QED
      BY <3>2, <3>4
  <2>4. \A i \in 1 .. Len(b.trades) : b.trades[i].opened <= b.trades[i].closed /\ b.trades[i].closed <= top
    <3>1. PICK list : list = b.trades /\ list \in Seq(Deal)
      BY <2>1 DEF BooksOK, Records
    <3> TAKE i \in 1 .. Len(b.trades)
    <3>2. list[i] \in Deal
      BY <3>1
    <3>3. PICK x \in Int : x = list[i].closed
      BY <3>2 DEF Deal
    <3>4. x <= at /\ list[i].opened <= x
      BY <3>1, <3>3, <2>1 DEF BooksOK
    <3>5. x <= top
      BY <3>4, <1>5
    <3> QED
      BY <3>1, <3>3, <3>4, <3>5
  <2>5. BooksOK(b, top)
    BY <2>1, <2>2, <2>3, <2>4 DEF BooksOK
  <2>6. Sim!Books' = b /\ simClock' = top
    BY <2>1, <1>4, <1>5 DEF Sim!Books
  <2> QED
    BY <2>5, <2>6
<1>10. OrdersOK(pending, lastPrices, 0, FALSE) /\ SeatsOK(positions, pending) /\ CurveOK(worst, switch)
  BY DEF SimInv, OrdersOK
<1>11. FeesOK(cash, pending, 0)
  <2>1. \A j \in 1 .. len : Rank(j, 0) = j /\ Rank(j, len) = j + len
    BY <1>5 DEF Rank
  <2>2. \A i, j \in 1 .. len : Rank(j, len) <= Rank(i, len) => Rank(j, 0) <= Rank(i, 0)
    BY <2>1
  <2>3. FeesOK(cash, pending, len)
    BY <1>4, <1>5 DEF SimInv
  <2> QED
    BY <2>2, <2>3, <1>5 DEF FeesOK
<1> QED
  BY <1>4, <1>5, <1>6, <1>7, <1>8, <1>9, <1>10, <1>11 DEF SimInv

LEMMA SimulatorStep == SimInv /\ [Sim!Next]_simVars => SimInv'
<1> SUFFICES ASSUME SimInv, [Sim!Next]_simVars PROVE SimInv'
  OBVIOUS
<1>1. CASE Sim!NextBars
  BY <1>1, NextBarsKeeps
<1>2. CASE Sim!FillCandle
  BY <1>2, FillCandleKeeps
<1>3. CASE Sim!NoSignal
  BY <1>3, NoSignalKeeps
<1>4. CASE \E sig \in SyntheticSignals : Sim!ExitSignal(sig)
  BY <1>4, ExitSignalKeeps
<1>5. CASE \E sig \in SyntheticSignals : Sim!EntrySignal(sig)
  BY <1>5, EntrySignalKeeps
<1>6. CASE UNCHANGED simVars
  <2>1. Sim!Books' = Sim!Books
    BY <1>6 DEF simVars, Sim!Books
  <2> QED
    BY <1>6, <2>1 DEF simVars, SimInv
<1> QED
  BY <1>1, <1>2, <1>3, <1>4, <1>5, <1>6 DEF Sim!Next

LEMMA SimulatorSession == ReplaysSpec => []SimInv
<1>1. ReplaysInit => SimInv
  BY SimulatorInit DEF ReplaysInit
<1>2. SimInv /\ [ReplaysNext]_<<tool, vars, simVars>> => SimInv'
  BY SimulatorStep DEF ReplaysNext
<1> QED
  BY <1>1, <1>2, PTL DEF ReplaysSpec

LEMMA SimulatorTypes == SimInv => Sim!TypeOK
<1> SUFFICES ASSUME SimInv PROVE Sim!TypeOK
  OBVIOUS
<1>1. simClock \in 0 .. MaxBars /\ turn \in 0 .. Len(Symbols) /\ filled \in BOOLEAN
  BY DEF SimInv, ClockOK
<1>2. /\ cash \in Nat /\ positions \in TablesOf(Kept) /\ trades \in Seq(Deal)
      /\ \A s \in DOMAIN positions : positions[s].opened < simClock
      /\ \A i \in 1 .. Len(trades) : trades[i].opened <= trades[i].closed /\ trades[i].closed <= simClock
  <2>1. Sim!Books.cash = cash /\ Sim!Books.positions = positions /\ Sim!Books.trades = trades
    BY DEF Sim!Books
  <2>2. BooksOK(Sim!Books, simClock)
    BY DEF SimInv
  <2> QED
    BY <2>1, <2>2 DEF BooksOK, Records
<1>3. DOMAIN positions \subseteq Pairs /\ \A s \in DOMAIN positions : positions[s].stake \in Nat
  <2>1. positions \in TablesOf(Kept)
    BY <1>2
  <2>2. DOMAIN positions \in SUBSET Pairs /\ \A s \in DOMAIN positions : positions[s] \in Kept
    BY ONLY <2>1, TableFacts
  <2> QED
    BY <2>2 DEF Kept
<1>4. Sim!Cardinality(DOMAIN positions) <= MaxOpenPositions
  <2>1. PICK T : T = DOMAIN positions \cup EntriesOf(pending)
    OBVIOUS
  <2>2. pending \in TablesOf(Order)
    BY DEF SimInv, OrdersOK
  <2>3. IsFiniteSet(DOMAIN positions) /\ IsFiniteSet(EntriesOf(pending))
    BY <1>2, <2>2, TableFacts, WaitFacts
  <2>4. IsFiniteSet(T) /\ DOMAIN positions \subseteq T
    BY <2>1, <2>3, FS_Union
  <2>5. PICK c \in Nat, d \in Nat : c = Cardinality(DOMAIN positions) /\ d = Cardinality(T) /\ c <= d
    BY <2>3, <2>4, FS_Subset, FS_CardinalityType
  <2>6. d <= MaxOpenPositions
    BY <2>1, <2>5 DEF SimInv, SeatsOK
  <2>7. c <= MaxOpenPositions
    BY <2>5, <2>6, BacktestConstants
  <2> QED
    BY <2>5, <2>7, SimExtremes
<1>5. \A s \in DOMAIN pending : pending[s].side \in {"BUY", "SELL"} /\ pending[s].stake \in Nat
  <2>1. pending \in TablesOf(Order)
    BY DEF SimInv, OrdersOK
  <2>2. \A s \in DOMAIN pending : pending[s] \in Order
    BY <2>1, TableFacts
  <2> QED
    BY <2>2 DEF Order
<1>6. \A t \in Sim!Range(trades) : t.opened <= t.closed /\ t.closed <= simClock
  <2> SUFFICES ASSUME NEW t \in Sim!Range(trades) PROVE t.opened <= t.closed /\ t.closed <= simClock
    OBVIOUS
  <2>1. PICK i \in DOMAIN trades : t = trades[i]
    BY DEF Sim!Range
  <2>2. i \in 1 .. Len(trades)
    BY <1>2
  <2> QED
    BY <2>1, <2>2, <1>2
<1>7. filled => Sim!Current \notin DOMAIN pending
  BY DEF SimInv, OrdersOK, Sim!Current
<1>8. worst.drawdown \in 0 .. 1000
  BY DEF SimInv, CurveOK
<1> QED
  BY <1>1, <1>2, <1>3, <1>4, <1>5, <1>6, <1>7, <1>8, SimConstants DEF Sim!TypeOK

LEMMA SimulatorBalances == SimInv => Sim!BooksBalance
<1> SUFFICES ASSUME SimInv PROVE Sim!BooksBalance
  OBVIOUS
<1>1. Sim!Books.cash = cash /\ Sim!Books.positions = positions /\ Sim!Books.trades = trades
  BY DEF Sim!Books
<1>2. trades \in Seq(Deal) /\ cash + Costs(positions) = StartingEquity + Nets(trades)
  BY <1>1 DEF SimInv, BooksOK, Records
<1> QED
  BY <1>2, CostsAreSum, NetsAreSum DEF Sim!BooksBalance

LEMMA SimulatorFees == SimInv => Sim!OnlyAFeeIsShort
<1> SUFFICES ASSUME SimInv, Sim!Reserved > cash
             PROVE  \E s \in Sim!Entries : Sim!Reserved - Sim!FeeOf(pending[s].stake) <= cash
  BY DEF Sim!OnlyAFeeIsShort
<1>1. Sim!Reserved = Waiting(pending, EntriesOf(pending)) /\ Sim!Entries = EntriesOf(pending)
  BY ReservedIsSum, EntriesAre
<1>2. FeesOK(cash, pending, turn)
  BY DEF SimInv
<1> QED
  BY <1>1, <1>2 DEF FeesOK

\* Both tools keep their types, whatever candles, signals and limits they are
\* given: a position is older than the candle under way, no more are held than
\* the limit, no symbol's order outlives its candle, no drawdown exceeds the peak.
THEOREM TypesAreKept == ReplaysSpec => []TypesOK
<1>1. BacktestInv /\ SimInv => TypesOK
  BY LedgerTypes, SimulatorTypes DEF TypesOK
<1> QED
  BY <1>1, BacktestSession, SimulatorSession, PTL

\* A compounding backtest never stakes money it has lost; in the simulator no
\* money appears or is lost, and however many entries wait, they can be paid but
\* for the fee of one of them (free_balance_usdt, _account_state,
\* _execute_pending, _close_position).
THEOREM MoneyIsAlwaysKept == ReplaysSpec => []MoneyKept
<1>1. BacktestInv /\ SimInv => MoneyKept
  BY CashIsCovered, SimulatorBalances, SimulatorFees DEF MoneyKept
<1> QED
  BY <1>1, BacktestSession, SimulatorSession, PTL
=============================================================================
