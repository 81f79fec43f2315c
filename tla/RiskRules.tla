------------------------------ MODULE RiskRules ------------------------------
(***************************************************************************)
(* What the risk engine lets in: the account state read from the positions *)
(* table and Freqtrade's balance, the entry rules in their order, sizing,  *)
(* the lighter exit rules, and the two rules that trip the kill switch,    *)
(* over a history of trades that Freqtrade closes on its own and that      *)
(* reach the table late.                                                   *)
(*                                                                         *)
(* Percentages are in permille and amounts in whole units, rounded down.   *)
(* An approved entry is filled and recorded before the next evaluation:    *)
(* what happens in between is the subject of OrderLifecycle, how commands  *)
(* of the switch overlap that of KillSwitch.                               *)
(***************************************************************************)
EXTENDS Integers, Sequences, FiniteSets, FiniteSetsExt

CONSTANTS
    Pairs,
    Signals,              \* records: the signals the engine may be handed
    Capital,              \* Freqtrade's balance at the start
    Outcomes,             \* what a trade may win or lose, and whether the profit is reported
    Drifts,               \* what the open trades may be worth above their stake
    MaxOpenPositions, MaxTotalExposure, MaxDailyLoss,
    ConsecutiveLossLimit, ClusterWindow, Cooldown, MinConfidence,
    MinConfidenceScale, RiskPerTrade, MaxPosition, MinStopLoss, MaxStopLoss,
    DayLength,            \* instants of a UTC day
    MaxPositions,         \* bound: positions ever opened
    MaxTime,              \* bound: instants
    OperatorAt            \* bound: the instants at which the operator acts

ASSUME ConstantsAssumption ==
    /\ {MaxOpenPositions, MaxTotalExposure, MaxDailyLoss, ConsecutiveLossLimit,
        ClusterWindow, Cooldown, MinConfidence, MinConfidenceScale, RiskPerTrade,
        MaxPosition, MinStopLoss, MaxStopLoss, Capital, MaxPositions} \subseteq Nat
    /\ MaxTime \in Nat \ {0}
    /\ MinStopLoss \in 1 .. MaxStopLoss
    /\ DayLength \in Nat \ {0}
    /\ Outcomes \subseteq [result : Int, known : BOOLEAN]
    /\ Drifts \subseteq Int
    /\ Signals \subseteq [pair : Pairs, action : {"BUY", "HOLD", "SELL"},
                          confidence : 0 .. 1000, stop : Nat,
                          stale : BOOLEAN, duplicate : BOOLEAN]

VARIABLES
    now,        \* the clock
    positions,  \* the positions table, oldest first, with Freqtrade's view of each trade
    switch,     \* why the kill switch is on, or "off"
    resetAt     \* system_state.consecutive_loss_reset_at; 0 is NULL

vars == <<now, positions, switch, resetAt>>

\* "open": the trade is open; "closed": Freqtrade closed it, its row is still
\* OPEN; "booked": the row is CLOSED.
Statuses == {"open", "closed", "booked"}
Trips == {"DAILY_LOSS_LIMIT_HIT", "CONSECUTIVE_LOSS_PAUSE"}

Init ==
    /\ now = 1
    /\ positions = <<>>
    /\ switch = "off"
    /\ resetAt = 0

Rows == DOMAIN positions
OpenRows == {p \in Rows : positions[p].status # "booked"}
Live == {p \in Rows : positions[p].status = "open"}
Booked == Rows \ OpenRows

Stakes(S) == MapThenSumSet(LAMBDA p : positions[p].stake, S)
ResultsOf(S) == MapThenSumSet(LAMBDA p : positions[p].result, S)

\* Freqtrade's balance: the money not tied up, and the account at market value.
FreeBalance == Capital + ResultsOf(Rows \ Live) - Stakes(Live)
Equity(drift) == FreeBalance + Stakes(Live) + (IF Live = {} THEN 0 ELSE drift)

\* Otherwise the decision is FREQTRADE_BALANCE_UNAVAILABLE and nothing moves.
BalanceValid(drift) == FreeBalance >= 0 /\ Equity(drift) >= FreeBalance

\* --- load_account_state --------------------------------------------------
OpenSymbols == {positions[p].pair : p \in OpenRows}
TotalExposure == Stakes(OpenRows)

Day(t) == t \div DayLength
PnlOn(day, S) ==
    ResultsOf({p \in S : positions[p].known /\ Day(positions[p].closed) = day})

\* Mutant: the day the position was opened decides.
DailyPnl_OpenedToday ==
    PnlOn(Day(now), {p \in Booked : Day(positions[p].opened) = Day(now)})

DailyPnl == PnlOn(Day(now), Booked)

\* Mutant: the oldest close wins (a plain assignment in the loop).
LastClosed_Oldest(pair) ==
    LET times == {positions[p].closed : p \in {b \in Booked : positions[b].pair = pair}}
    IN  IF times = {} THEN -Cooldown ELSE Min(times)

\* A pair without a close is not held back.
LastClosed(pair) ==
    LET times == {positions[p].closed : p \in {b \in Booked : positions[b].pair = pair}}
    IN  IF times = {} THEN -Cooldown ELSE Max(times)

IsLoss(p) == positions[p].known /\ positions[p].result < 0
AfterReset == {p \in Booked : positions[p].closed > resetAt}

\* The streak ends at the newest close that is no loss.  The query leaves the
\* order of equal times open: a loss that closed together with it may or may
\* not be read before it.
Certain ==
    {p \in AfterReset : IsLoss(p) /\ \A q \in AfterReset :
        IsLoss(q) \/ positions[q].closed < positions[p].closed}
Possible ==
    {p \in AfterReset : IsLoss(p) /\ \A q \in AfterReset :
        IsLoss(q) \/ positions[q].closed <= positions[p].closed}
TimesOf(S) == {positions[p].closed : p \in S}

\* Mutant: every time of a loss is an event.
LossEvents_EachLoss(times) == Cardinality(times)

\* Oldest first: a loss within the window of its cluster's first joins it.
LossEvents(times) ==
    LET from[t \in Nat] ==
          LET later == {u \in times : u >= t}
          IN  IF later = {} THEN 0 ELSE 1 + from[Min(later) + ClusterWindow + 1]
    IN  from[0]

\* AccountState: what the evaluation knows, given the market value of the open
\* trades and the streak that was read.
Account(drift, streak) ==
    [equity |-> Equity(drift), free |-> FreeBalance, symbols |-> OpenSymbols,
     exposure |-> TotalExposure, daily |-> DailyPnl, losses |-> LossEvents(streak),
     lastClosed |-> [pair \in Pairs |-> LastClosed(pair)]]

\* --- compute_sizing ------------------------------------------------------
StopDistance(sig) == Max({MinStopLoss, Min({sig.stop, MaxStopLoss})})

ConfidenceScale(c) ==
    IF MinConfidence >= 1000 THEN 1000
    ELSE LET above == Max({0, Min({c - MinConfidence, 1000 - MinConfidence})})
         IN  MinConfidenceScale
               + ((1000 - MinConfidenceScale) * above) \div (1000 - MinConfidence)

\* Mutant: no cap per position.
Size_NoCap(sig, acct) ==
    LET whole == Min({(acct.equity * RiskPerTrade) \div StopDistance(sig), acct.free})
    IN  (Max({whole, 0}) * ConfidenceScale(sig.confidence)) \div 1000

Size(sig, acct) ==
    LET whole == Min({(acct.equity * RiskPerTrade) \div StopDistance(sig),
                      (acct.equity * MaxPosition) \div 1000,
                      acct.free})
    IN  (Max({whole, 0}) * ConfidenceScale(sig.confidence)) \div 1000

\* --- the rules -----------------------------------------------------------
\* The expectancy filter, between LOW_CONFIDENCE and MAX_POSITIONS_REACHED, is
\* off unless an operator turns it on, and is left out.
RulesInOrder ==
    <<"KILLSWITCH_ACTIVE", "DUPLICATE_SIGNAL", "SIGNAL_WAS_HOLD", "STALE_SIGNAL",
      "LOW_CONFIDENCE", "MAX_POSITIONS_REACHED", "MAX_EXPOSURE_REACHED",
      "DAILY_LOSS_LIMIT_HIT", "CONSECUTIVE_LOSS_PAUSE", "COOLDOWN_ACTIVE",
      "INSUFFICIENT_BALANCE">>

kill_switch == switch # "off"
duplicate_signal(sig) == sig.duplicate
signal_action(sig) == sig.action = "HOLD"
signal_staleness(sig) == sig.stale
min_confidence(sig) == sig.confidence < MinConfidence
max_open_positions(sig, acct) ==
    sig.pair \in acct.symbols \/ Cardinality(acct.symbols) >= MaxOpenPositions
max_total_exposure(acct, size) ==
    (acct.exposure + size) * 1000 > MaxTotalExposure * acct.equity
max_daily_loss(acct) ==
    IF acct.equity > 0 THEN acct.daily * 1000 <= -MaxDailyLoss * acct.equity
                       ELSE MaxDailyLoss = 0
consecutive_losses(acct) == acct.losses >= ConsecutiveLossLimit
cooldown(sig, acct) == now - acct.lastClosed[sig.pair] < Cooldown
insufficient_balance(acct, size) == size > acct.free

Violated(rule, sig, acct) ==
    CASE rule = "KILLSWITCH_ACTIVE"      -> kill_switch
      [] rule = "DUPLICATE_SIGNAL"       -> duplicate_signal(sig)
      [] rule = "SIGNAL_WAS_HOLD"        -> signal_action(sig)
      [] rule = "STALE_SIGNAL"           -> signal_staleness(sig)
      [] rule = "LOW_CONFIDENCE"         -> min_confidence(sig)
      [] rule = "MAX_POSITIONS_REACHED"  -> max_open_positions(sig, acct)
      [] rule = "MAX_EXPOSURE_REACHED"   -> max_total_exposure(acct, Size(sig, acct))
      [] rule = "DAILY_LOSS_LIMIT_HIT"   -> max_daily_loss(acct)
      [] rule = "CONSECUTIVE_LOSS_PAUSE" -> consecutive_losses(acct)
      [] rule = "COOLDOWN_ACTIVE"        -> cooldown(sig, acct)
      [] rule = "INSUFFICIENT_BALANCE"   -> insufficient_balance(acct, Size(sig, acct))

\* The first rule that is violated decides.
Verdict(sig, acct) ==
    LET bad(i) == Violated(RulesInOrder[i], sig, acct)
    IN  IF \E i \in DOMAIN RulesInOrder : bad(i)
        THEN RulesInOrder[CHOOSE i \in DOMAIN RulesInOrder :
                            bad(i) /\ \A j \in 1 .. i - 1 : ~bad(j)]
        ELSE "APPROVED"

Entry(sig, acct) ==
    LET size == Size(sig, acct)
    IN  [pair |-> sig.pair, stake |-> size, risk |-> size * StopDistance(sig),
         opened |-> now, closed |-> 0, result |-> 0, known |-> FALSE, status |-> "open"]

\* Any other verdict leaves a decision row and an audit event, no more.
EvaluateEntry(sig, acct) ==
    LET verdict == Verdict(sig, acct)
    IN  /\ sig.action # "SELL"
        /\ \/ /\ verdict = "APPROVED"
              /\ Len(positions) < MaxPositions
              /\ positions' = Append(positions, Entry(sig, acct))
              /\ UNCHANGED <<now, switch, resetAt>>
           \/ /\ verdict \in Trips
              /\ switch' = verdict
              /\ UNCHANGED <<now, positions, resetAt>>

EntrySignal ==
    \E drift \in Drifts, streak \in {TimesOf(Certain), TimesOf(Possible)} :
        /\ BalanceValid(drift)
        /\ LET acct == Account(drift, streak)
           IN  \E sig \in Signals : EvaluateEntry(sig, acct)

\* --- trades end, and are booked ------------------------------------------
\* Mutant: no close time.
Ends_NoTime(p, outcome) ==
    /\ positions[p].status = "open"
    /\ outcome.result + positions[p].stake >= 0
    /\ positions' = [positions EXCEPT ![p].status = "closed",
                                      ![p].result = outcome.result, ![p].known = outcome.known]
    /\ UNCHANGED <<now, switch, resetAt>>

Ends(p, outcome) ==
    /\ positions[p].status = "open"
    /\ outcome.result + positions[p].stake >= 0
    /\ positions' = [positions EXCEPT ![p].status = "closed", ![p].closed = now,
                                      ![p].result = outcome.result, ![p].known = outcome.known]
    /\ UNCHANGED <<now, switch, resetAt>>

\* Freqtrade's own exit: stop-loss or ROI table.
SafetyExit(p, outcome) == Ends(p, outcome)

\* The switch and the confidence are not looked at.
ApprovedExit(sig) ==
    /\ sig.action = "SELL"
    /\ ~sig.duplicate
    /\ ~sig.stale
    /\ sig.pair \in OpenSymbols

\* forceexit of a trade that is gone fails and changes nothing.
EvaluateExit(sig, outcome) ==
    /\ ApprovedExit(sig)
    /\ \E p \in Live : positions[p].pair = sig.pair /\ Ends(p, outcome)

\* The webhook or reconciliation: closed_at is Freqtrade's close time, or the
\* time of booking when Freqtrade reports none.
Book(p) ==
    /\ positions[p].status = "closed"
    /\ \E at \in {positions[p].closed, now} :
         positions' = [positions EXCEPT ![p].status = "booked", ![p].closed = at,
                                        ![p].stake = 0, ![p].risk = 0]
    /\ UNCHANGED <<now, switch, resetAt>>

\* --- the operator and the clock ------------------------------------------
Enable ==
    /\ now \in OperatorAt
    /\ switch' = "operator"
    /\ UNCHANGED <<now, positions, resetAt>>

Disable ==
    /\ now \in OperatorAt
    /\ switch' = "off"
    /\ resetAt' = now
    /\ UNCHANGED <<now, positions>>

Tick ==
    /\ now < MaxTime
    /\ now' = now + 1
    /\ UNCHANGED <<positions, switch, resetAt>>

Next ==
    \/ EntrySignal
    \/ \E sig \in Signals, outcome \in Outcomes : EvaluateExit(sig, outcome)
    \/ \E p \in Rows, outcome \in Outcomes : SafetyExit(p, outcome)
    \/ \E p \in Rows : Book(p)
    \/ Enable
    \/ Disable
    \/ Tick

Spec == Init /\ [][Next]_vars

-----------------------------------------------------------------------------
(* Properties. *)

Position == [pair : Pairs, stake : Nat, risk : Nat, opened : 1 .. MaxTime,
             closed : 0 .. MaxTime, result : Int, known : BOOLEAN, status : Statuses]

\* Type correctness; a row has a close time unless its trade is open, and it is
\* never before the opening.
TypeOK ==
    /\ now \in 1 .. MaxTime
    /\ positions \in Seq(Position)
    /\ switch \in {"off", "operator"} \cup Trips
    /\ resetAt \in 0 .. now
    /\ \A p \in Rows :
          IF p \in Live THEN positions[p].closed = 0
                         ELSE positions[p].closed \in positions[p].opened .. now

\* A pair is not entered again before its cooldown has passed, however late its
\* close was booked and whatever else closed since: while the row is OPEN rule 7
\* holds the pair back, afterwards rule 11 (rules/cooldown.py).
CooldownKept ==
    \A p, q \in Rows :
        (p < q /\ positions[p].pair = positions[q].pair /\ p \in Booked)
            => positions[q].opened - positions[p].closed >= Cooldown

Entered == Len(positions') > Len(positions)

\* n of the closes are pairwise further apart than the window: what "n loss
\* events" means without the walk that counts them.
Apart(times, n) ==
    \E T \in SUBSET times : /\ Cardinality(T) = n
                            /\ \A t, u \in T : u < t => t - u > ClusterWindow

\* The breaker counts what it is documented to count: no entry while the
\* uninterrupted losses since the operator's reset hold consecutive_loss_limit
\* that no cluster window joins, and no trip unless they do
\* (_count_consecutive_losses, rules/consecutive_losses.py, PROJECT.md 9.1 rule 10).
StreakHalts ==
    [][ /\ Entered => ~Apart(TimesOf(Certain), ConsecutiveLossLimit)
        /\ (switch' = "CONSECUTIVE_LOSS_PAUSE" /\ switch # switch')
             => Apart(TimesOf(Possible), ConsecutiveLossLimit) ]_vars

\* What is staked fits the account as Freqtrade reported it: the money is there,
\* the position and all positions together stay under their caps, and the loss
\* at the stop under the budget per trade, whatever clamp was the one that bound
\* (sizing.py, rules/max_total_exposure.py).
EntryWithinBounds ==
    [][ Entered =>
          LET new == positions'[Len(positions')]
          IN  /\ new.stake <= FreeBalance
              /\ \E drift \in Drifts :
                   /\ new.stake * 1000 <= MaxPosition * Equity(drift)
                   /\ new.risk <= RiskPerTrade * Equity(drift)
                   /\ (TotalExposure + new.stake) * 1000 <= MaxTotalExposure * Equity(drift) ]_vars

\* A day's recorded result falls short of the limit by no more than what the
\* positions open at that moment can still lose, each no more than the worst
\* result: the breaker lets nothing in once the limit is reached, on any day
\* (rules/max_daily_loss.py).  The limit is taken of the highest equity.
DayLossBounded ==
    LET results == {o.result : o \in Outcomes}
        peak == Capital + Len(positions) * Max(results) + Max(Drifts)
    IN  \A d \in 0 .. Day(now) :
          PnlOn(d, Booked) * 1000
            > -(MaxDailyLoss * peak) + 1000 * MaxOpenPositions * Min(results)
=============================================================================
