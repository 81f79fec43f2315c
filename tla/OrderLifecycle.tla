--------------------------- MODULE OrderLifecycle ---------------------------
(***************************************************************************)
(* The life of an order: the risk engine's consumer submits it, Freqtrade  *)
(* executes it, the admin API records the webhooks Freqtrade sends, and    *)
(* the reconciliation loop repairs what the webhooks missed.  The tables   *)
(* `orders` and `positions` are written by three uncoordinated             *)
(* transactions; `trades` is Freqtrade's own database.                     *)
(*                                                                         *)
(* Row ids are numbers taken when the writing transaction begins, because  *)
(* `created_at` defaults to the transaction's start time: a greater id is  *)
(* a later `created_at`.  0 stands for SQL NULL and for "no row".          *)
(***************************************************************************)
EXTENDS Naturals, FiniteSets, Functions

CONSTANTS
    Pairs,             \* the traded symbols
    NoPair,            \* the symbol of an unused row
    MaxSignals,        \* bound: approved signals, each one order of the consumer
    MaxOrders,         \* bound: rows of `orders`, the synthetic ones included
    MaxPositions,      \* bound: rows of `positions`
    MaxTrades,         \* bound: trades Freqtrade opens
    MaxOpenPositions,  \* RiskConfig.max_open_positions
    Faults             \* the environment faults a run admits

FaultKinds ==
    {"lostReply",    \* a Freqtrade call reports failure although it took effect
     "noTradeId",    \* a forceenter reply without a trade id
     "crash",        \* a transaction that never commits
     "lookup",       \* get_trade fails, or answers for another pair
     "overtaken"}    \* a webhook or a reconciliation write overtaken by newer events

ASSUME ConstantsAssumption ==
    /\ NoPair \notin Pairs
    /\ MaxSignals \in Nat
    /\ MaxOrders \in Nat
    /\ MaxPositions \in Nat
    /\ MaxTrades \in Nat
    /\ MaxOpenPositions \in Nat
    /\ Faults \subseteq FaultKinds

VARIABLES
    orders,      \* table orders
    positions,   \* table positions
    alerted,     \* orders whose trace has a RECONCILIATION_REQUIRED event
    trades,      \* Freqtrade's trades
    hooks,       \* webhooks sent and not yet handled (or lost)
    eng,         \* the consumer's transaction around forceenter / forceexit
    rec,         \* the reconciliation pass between its reads and its commit
    used         \* how many ids each counter has handed out

vars == <<orders, positions, alerted, trades, hooks, eng, rec, used>>

OrderIds    == 1..MaxOrders
PositionIds == 1..MaxPositions
TradeIds    == 1..MaxTrades

OrderRows ==
    [side : {"BUY", "SELL"}, pair : Pairs \cup {NoPair}, tid : 0..MaxTrades,
     status : {"NONE", "SUBMITTED", "FILLED", "CANCELLED", "FAILED"}]
PositionRows ==
    [pair : Pairs \cup {NoPair}, status : {"NONE", "OPEN", "CLOSED"}, entry : 0..MaxOrders,
     exit : 0..MaxOrders, pnl : 0..MaxTrades]
TradeRows ==
    [pair : Pairs \cup {NoPair},
     state : {"none", "pending", "open", "closing", "closed", "deleted"},
     by : 0..MaxOrders]    \* history: the order whose forceenter opened the trade
Hooks ==
    [ev : {"entry_fill", "entry_cancel", "exit_fill", "exit_cancel"}, tid : TradeIds]

Quiet  == [pc |-> "idle", order |-> 0, pair |-> NoPair, tid |-> 0, ok |-> FALSE, pos |-> 0]
NoPass == [pc |-> "idle", fill |-> {}, open |-> {}, own |-> {}, syn |-> {}, alert |-> {}]

Orders == {o \in OrderIds : orders[o].status # "NONE"}
Positions == {p \in PositionIds : positions[p].status # "NONE"}
FreePositions == PositionIds \ Positions
OpenPositions == {p \in PositionIds : positions[p].status = "OPEN"}
Submitted == {o \in OrderIds : orders[o].status = "SUBMITTED"}
EntryTrade(p) == orders[positions[p].entry].tid
IsOpen(t) == trades[t].state \in {"pending", "open", "closing"}
Latest(S) == {o \in S : \A x \in S : x <= o}

Init ==
    /\ orders = [o \in OrderIds |-> [side |-> "BUY", pair |-> NoPair, tid |-> 0, status |-> "NONE"]]
    /\ positions = [p \in PositionIds |->
                      [pair |-> NoPair, status |-> "NONE", entry |-> 0, exit |-> 0, pnl |-> 0]]
    /\ alerted = {}
    /\ trades = [t \in TradeIds |-> [pair |-> NoPair, state |-> "none", by |-> 0]]
    /\ hooks = {}
    /\ eng = Quiet
    /\ rec = NoPass
    /\ used = [signals |-> 0, orders |-> 0, trades |-> 0]

(***************************************************************************)
(* Freqtrade.  force_entry refuses a pair that already has an open trade.  *)
(***************************************************************************)
Freqtrade(t, from, to, events) ==
    /\ trades[t].state = from
    /\ trades' = [trades EXCEPT ![t].state = to]
    /\ hooks' = hooks \cup {[ev |-> e, tid |-> t] : e \in events}
    /\ UNCHANGED <<orders, positions, alerted, eng, rec, used>>

FillEntry(t)   == Freqtrade(t, "pending", "open", {"entry_fill"})
CancelEntry(t) == Freqtrade(t, "pending", "deleted", {"entry_cancel"})
SafetyExit(t)  == Freqtrade(t, "open", "closing", {})   \* stop-loss or ROI
FillExit(t)    == Freqtrade(t, "closing", "closed", {"exit_fill"})
CancelExit(t)  == Freqtrade(t, "closing", "open", {"exit_cancel"})

(***************************************************************************)
(* The consumer.  A decision reads the committed positions, then calls     *)
(* Freqtrade inside its transaction; the order row appears at the commit.  *)
(***************************************************************************)
NewSignal ==
    /\ eng.pc = "idle"
    /\ used.signals < MaxSignals
    /\ used.orders < MaxOrders

Called(pair, tid, ok, pos, opened) ==
    /\ eng' = [pc |-> "sent", order |-> used.orders + 1, pair |-> pair,
               tid |-> tid, ok |-> ok, pos |-> pos]
    /\ used' = [used EXCEPT !.signals = @ + 1, !.orders = @ + 1, !.trades = @ + opened]
    /\ UNCHANGED <<orders, positions, alerted, hooks, rec>>

\* Writes on their way that concern an earlier trade of the pair.
InFlight(pair) ==
    \/ \E h \in hooks : trades[h.tid].pair = pair
    \/ \E o \in rec.fill : orders[o].pair = pair
    \/ \E c \in rec.syn : positions[c.pos].pair = pair

\* Rule 7 reads OPEN position rows.  Writes about an earlier trade of the pair
\* have landed or are lost by the time the next candle's signal is evaluated,
\* unless the run lets them be overtaken.
MayEnter(pair) ==
    /\ NewSignal
    /\ pair \notin {positions[p].pair : p \in OpenPositions}
    /\ Cardinality({positions[p].pair : p \in OpenPositions}) < MaxOpenPositions
    /\ "overtaken" \in Faults \/ ~InFlight(pair)

EntryRefused(pair) ==
    /\ MayEnter(pair)
    /\ Called(pair, 0, FALSE, 0, 0)
    /\ UNCHANGED trades

\* forceenter created the trade.  The engine learns its id, or only that it
\* exists, or believes that it does not (the reply was lost, or the stop tag
\* was missing and the emergency exit did or did not go through).
EntryAccepted(pair) ==
    /\ MayEnter(pair)
    /\ used.trades < MaxTrades
    /\ \A t \in TradeIds : IsOpen(t) => trades[t].pair # pair
    /\ LET t == used.trades + 1 IN
       \E reply \in {[tid |-> t, ok |-> TRUE, state |-> "pending"]}
              \cup {r \in {[tid |-> 0, ok |-> TRUE, state |-> "pending"]} : "noTradeId" \in Faults}
              \cup {r \in [tid : {0}, ok : {FALSE}, state : {"pending", "closing", "deleted"}] :
                        "lostReply" \in Faults} :
            /\ trades' = [trades EXCEPT ![t] =
                            [pair |-> pair, state |-> reply.state, by |-> used.orders + 1]]
            /\ Called(pair, reply.tid, reply.ok, 0, 1)

\* evaluate_exit passed: some OPEN position of the pair is closed by a market
\* forceexit of its entry order's trade, if get_trade still shows it open.
\* Freqtrade replaces an exit order that is already resting, also when the
\* client repeats a POST whose reply was lost.
ExitSignal(pair) ==
    /\ NewSignal
    /\ \E p \in OpenPositions :
        /\ positions[p].pair = pair
        /\ EntryTrade(p) # 0
        /\ LET t == EntryTrade(p) IN
           \/ /\ IsOpen(t)
              /\ trades' = [trades EXCEPT ![t].state = "closing"]
              /\ \E ok \in {TRUE} \cup {f \in {FALSE} : "lostReply" \in Faults} :
                    Called(pair, t, ok, p, 0)
           \/ /\ ~IsOpen(t) \/ "lookup" \in Faults
              /\ Called(pair, t, FALSE, p, 0)
              /\ UNCHANGED trades

\* Mutant: the exit order is linked to every position of the pair.
EngineCommit_LinkByPair ==
    /\ eng.pc = "sent"
    /\ orders' = [orders EXCEPT ![eng.order] =
                    [side |-> IF eng.pos = 0 THEN "BUY" ELSE "SELL", pair |-> eng.pair,
                     tid |-> eng.tid, status |-> IF eng.ok THEN "SUBMITTED" ELSE "FAILED"]]
    /\ positions' = [p \in PositionIds |->
                       IF eng.pos # 0 /\ eng.ok /\ positions[p].pair = eng.pair
                       THEN [positions[p] EXCEPT !.exit = eng.order] ELSE positions[p]]
    /\ eng' = Quiet
    /\ UNCHANGED <<alerted, trades, hooks, rec, used>>

EngineCommit ==
    /\ eng.pc = "sent"
    /\ orders' = [orders EXCEPT ![eng.order] =
                    [side |-> IF eng.pos = 0 THEN "BUY" ELSE "SELL", pair |-> eng.pair,
                     tid |-> eng.tid, status |-> IF eng.ok THEN "SUBMITTED" ELSE "FAILED"]]
    /\ positions' = IF eng.pos # 0 /\ eng.ok
                    THEN [positions EXCEPT ![eng.pos].exit = eng.order]
                    ELSE positions
    /\ eng' = Quiet
    /\ UNCHANGED <<alerted, trades, hooks, rec, used>>

EngineAbort ==
    /\ "crash" \in Faults
    /\ eng.pc = "sent"
    /\ eng' = Quiet
    /\ UNCHANGED <<orders, positions, alerted, trades, hooks, rec, used>>

(***************************************************************************)
(* The webhook endpoint.  Freqtrade posts from one loop without retries:   *)
(* a hook is handled once or never, and in the order of its trade's events *)
(* unless the run lets hooks be overtaken.                                 *)
(***************************************************************************)
Stage(ev) == CASE ev = "exit_fill" -> 3 [] ev = "exit_cancel" -> 2 [] OTHER -> 1

Received(ev, t) ==
    /\ [ev |-> ev, tid |-> t] \in hooks
    /\ "overtaken" \in Faults
          \/ \A h \in hooks : h.tid = t => Stage(ev) <= Stage(h.ev)
    /\ hooks' = hooks \ {[ev |-> ev, tid |-> t]}
    /\ UNCHANGED <<alerted, trades, eng, rec>>

LoseHook(h) ==
    /\ hooks' = hooks \ {h}
    /\ UNCHANGED <<orders, positions, alerted, trades, eng, rec, used>>

\* Mutant: the side of the order is not compared.
Matches_AnySide(t, side) ==
    {o \in Orders : orders[o].pair = trades[t].pair /\ orders[o].tid = t}

\* _find_order: by trade id, else the latest SUBMITTED order without one; the
\* set of that one order, or the empty set.
Matches(t, side) ==
    {o \in Orders : /\ orders[o].side = side /\ orders[o].pair = trades[t].pair
                    /\ orders[o].tid = t}
Unmatched(t, side) ==
    {o \in Submitted : /\ orders[o].side = side /\ orders[o].pair = trades[t].pair
                       /\ orders[o].tid = 0}
\* Mutant: the latest order of the pair, whatever its trade.
FindOrder_ByPair(t, side) ==
    Latest({o \in Orders : orders[o].side = side /\ orders[o].pair = trades[t].pair})

\* Mutant: the oldest of the orders that qualify.
FindOrder_Oldest(t, side) ==
    LET found == IF Matches(t, side) # {} THEN Matches(t, side) ELSE Unmatched(t, side)
    IN {o \in found : \A x \in found : o <= x}

FindOrder(t, side) ==
    Latest(IF Matches(t, side) # {} THEN Matches(t, side) ELSE Unmatched(t, side))

\* Mutant: a status of the wrong enumeration.
Mark_PositionStatus(o, t, status) == [orders EXCEPT ![o].tid = t, ![o].status = "CLOSED"]

Mark(o, t, status) == [orders EXCEPT ![o].tid = t, ![o].status = status]

NoSuchOrder(ev, side, t) ==
    /\ Received(ev, t)
    /\ FindOrder(t, side) = {}
    /\ UNCHANGED <<orders, positions, used>>

\* A fill without its rate or its amount: the handler logs it and returns, and
\* the trade id _find_order stored is committed all the same.
Incomplete(ev, side, t) ==
    /\ Received(ev, t)
    /\ \E o \in FindOrder(t, side) : orders' = Mark(o, t, orders[o].status)
    /\ UNCHANGED <<positions, used>>

NewPosition(o) ==
    [pair |-> orders[o].pair, status |-> "OPEN", entry |-> o, exit |-> 0, pnl |-> 0]
SyntheticExit(pair, t) == [side |-> "SELL", pair |-> pair, tid |-> t, status |-> "FILLED"]

\* The position row is inserted unconditionally.
EntryFilled(t) ==
    /\ Received("entry_fill", t)
    /\ FreePositions # {}
    /\ \E o \in FindOrder(t, "BUY") :
          /\ orders' = Mark(o, t, "FILLED")
          /\ positions' = [positions EXCEPT ![CHOOSE p \in FreePositions : TRUE] = NewPosition(o)]
    /\ UNCHANGED used

\* The position to close: the one whose exit order this is, else any OPEN
\* position of the pair, else none (logged; the order is FILLED all the same).
CloseWith(o, t) ==
    LET mine == {p \in Positions : positions[p].exit = o}
        same == {p \in OpenPositions : positions[p].pair = trades[t].pair}
        from == IF mine # {} THEN mine ELSE same
    IN IF from = {} THEN UNCHANGED positions
       ELSE \E p \in from :
              positions' = [positions EXCEPT ![p].status = "CLOSED", ![p].exit = o, ![p].pnl = t]

ExitFilled(t) ==
    /\ Received("exit_fill", t)
    /\ \/ /\ \E o \in FindOrder(t, "SELL") :
                /\ orders' = Mark(o, t, "FILLED")
                /\ CloseWith(o, t)
          /\ UNCHANGED used
       \/ /\ FindOrder(t, "SELL") = {}     \* a safety exit: synthesise the SELL order
          /\ used.orders < MaxOrders
          /\ \E p \in OpenPositions : positions[p].pair = trades[t].pair /\ EntryTrade(p) = t
          /\ LET s == used.orders + 1 IN
             /\ orders' = [orders EXCEPT ![s] = SyntheticExit(trades[t].pair, t)]
             /\ CloseWith(s, t)
             /\ used' = [used EXCEPT !.orders = s]

ExitUnknown(t) ==
    /\ NoSuchOrder("exit_fill", "SELL", t)
    /\ \A p \in OpenPositions : positions[p].pair = trades[t].pair => EntryTrade(p) # t

\* _mark_cancelled does not look at the order's current status.
Cancelled(ev, side, t) ==
    /\ Received(ev, t)
    /\ \E o \in FindOrder(t, side) : orders' = Mark(o, t, "CANCELLED")
    /\ UNCHANGED <<positions, used>>

Webhook(t) ==
    \/ EntryFilled(t)
    \/ ExitFilled(t)
    \/ ExitUnknown(t)
    \/ NoSuchOrder("entry_fill", "BUY", t)
    \/ \E c \in {<<"entry_fill", "BUY">>, <<"exit_fill", "SELL">>} : Incomplete(c[1], c[2], t)
    \/ \E c \in {<<"entry_cancel", "BUY">>, <<"exit_cancel", "SELL">>} :
          Cancelled(c[1], c[2], t) \/ NoSuchOrder(c[1], c[2], t)

(***************************************************************************)
(* The reconciliation pass: one session reads the stale SUBMITTED orders   *)
(* and the OPEN positions, asks Freqtrade about each, and commits all its  *)
(* writes at the end.  Webhooks and the consumer run in between.           *)
(***************************************************************************)
\* `_reconcile_open_entry` wants a confirmed fill and no resting order,
\* `_reconcile_closed_exit` a position that names the order as its exit.
EntryConfirmed(o) ==
    orders[o].side = "BUY" /\ orders[o].tid # 0 /\ trades[orders[o].tid].state = "open"
ExitConfirmed(o) ==
    /\ orders[o].side = "SELL" /\ orders[o].tid # 0 /\ trades[orders[o].tid].state = "closed"
    /\ \E p \in Positions : positions[p].exit = o

\* What a pass decides about the stale orders S when the look-ups of the
\* orders lostO and of the positions lostP fail; `id` numbers the synthetic
\* orders of the positions in `gone`.
EntriesOf(S, lostO) == {o \in S \ lostO : EntryConfirmed(o)}
ExitsOf(S, lostO) == {o \in S \ lostO : ExitConfirmed(o)}
OwnOf(S, lostO) ==
    {c \in [pos : Positions, tid : TradeIds] :
        /\ positions[c.pos].exit \in ExitsOf(S, lostO)
        /\ c.tid = orders[positions[c.pos].exit].tid}
LeftOf(S, lostO) ==
    {p \in OpenPositions : EntryTrade(p) # 0 /\ positions[p].exit \notin ExitsOf(S, lostO)}
\* Mutants: a resting exit order counts as an exit; positions with an exit order
\* are left to the order loop.
GoneOf_Closing(S, lostO, lostP) ==
    {p \in LeftOf(S, lostO) \ lostP : trades[EntryTrade(p)].state \in {"closing", "closed"}}
GoneOf_NoExitOrder(S, lostO, lostP) ==
    {p \in LeftOf(S, lostO) \ lostP :
        trades[EntryTrade(p)].state = "closed" /\ positions[p].exit = 0}

GoneOf(S, lostO, lostP) ==
    {p \in LeftOf(S, lostO) \ lostP : trades[EntryTrade(p)].state = "closed"}

\* Mutant: any position of the pair will do.
NeedsPosition_ByPair(o) == \A p \in Positions : positions[p].pair # orders[o].pair

\* An entry gets its position unless some position came of that very order.
NeedsPosition(o) == \A p \in Positions : positions[p].entry # o

\* Mutant: nobody is told of an exit order that cannot be confirmed.
Unresolved_EntriesOnly(S, lostO, lostP) ==
    {o \in S \ EntriesOf(S, lostO) : orders[o].side = "BUY"}

\* _alert_once on the orders that could not be confirmed, and on the entry
\* orders of the positions that could not be looked up.
Unresolved(S, lostO, lostP) ==
    (S \ (EntriesOf(S, lostO) \cup ExitsOf(S, lostO)))
    \cup {positions[p].entry : p \in LeftOf(S, lostO) \cap lostP}

Plan(S, lostO, lostP, id) ==
    [pc    |-> "commit",
     fill  |-> EntriesOf(S, lostO) \cup ExitsOf(S, lostO),
     open  |-> {o \in EntriesOf(S, lostO) : NeedsPosition(o)},
     own   |-> OwnOf(S, lostO),
     syn   |-> {[pos |-> p, tid |-> EntryTrade(p), order |-> id[p]] : p \in DOMAIN id},
     alert |-> Unresolved(S, lostO, lostP)]

Lost(S) == IF "lookup" \in Faults THEN SUBSET S ELSE {{}}

\* A pass that found nothing has nothing to commit.
Scan(S, lostO, lostP) ==
    /\ rec.pc = "idle"
    /\ \E last \in used.orders..MaxOrders :
         LET gone == GoneOf(S, lostO, lostP) IN
         /\ last - used.orders = Cardinality(gone)
         /\ \E id \in Injection(gone, (used.orders + 1)..last) :
              LET plan == Plan(S, lostO, lostP, id) IN
              /\ plan.fill # {} \/ plan.syn # {} \/ ~(plan.alert \subseteq alerted)
              /\ rec' = plan
              /\ used' = [used EXCEPT !.orders = last]
    /\ UNCHANGED <<orders, positions, alerted, trades, hooks, eng>>

\* The cutoff splits the SUBMITTED orders by age.
ReconcileScan ==
    \E newest \in 0..MaxOrders :
      LET S == {o \in Submitted : o <= newest} IN
      \E lostO \in Lost(S), lostP \in Lost(OpenPositions) : Scan(S, lostO, lostP)

\* The writes of a pass, row by row.
ReconciledOrder(o) ==
    IF o \in rec.fill THEN [orders[o] EXCEPT !.status = "FILLED"]
    ELSE IF \E c \in rec.syn : c.order = o
    THEN LET c == CHOOSE c \in rec.syn : c.order = o
         IN SyntheticExit(positions[c.pos].pair, c.tid)
    ELSE orders[o]
ReconciledPosition(p) ==
    IF \E c \in rec.own : c.pos = p
    THEN LET c == CHOOSE c \in rec.own : c.pos = p
         IN [positions[p] EXCEPT !.status = "CLOSED", !.pnl = c.tid]
    ELSE IF \E c \in rec.syn : c.pos = p
    THEN LET c == CHOOSE c \in rec.syn : c.pos = p
         IN [positions[p] EXCEPT !.status = "CLOSED", !.exit = c.order, !.pnl = c.tid]
    ELSE positions[p]

ReconcileCommit ==
    /\ rec.pc = "commit"
    /\ Injection(rec.open, FreePositions) # {}
    /\ LET row == CHOOSE f \in Injection(rec.open, FreePositions) : TRUE IN
       positions' = [p \in PositionIds |->
                       IF \E o \in rec.open : row[o] = p
                       THEN NewPosition(CHOOSE o \in rec.open : row[o] = p)
                       ELSE ReconciledPosition(p)]
    /\ orders' = [o \in OrderIds |-> ReconciledOrder(o)]
    /\ alerted' = alerted \cup rec.alert
    /\ rec' = NoPass
    /\ UNCHANGED <<trades, hooks, eng, used>>

ReconcileAbort ==
    /\ "crash" \in Faults
    /\ rec.pc = "commit"
    /\ rec' = NoPass
    /\ UNCHANGED <<orders, positions, alerted, trades, hooks, eng, used>>

-----------------------------------------------------------------------------
Exchange(t) == FillEntry(t) \/ CancelEntry(t) \/ SafetyExit(t) \/ FillExit(t) \/ CancelExit(t)
Consumer == \/ \E pair \in Pairs : EntryRefused(pair) \/ EntryAccepted(pair) \/ ExitSignal(pair)
            \/ EngineCommit \/ EngineAbort
Reconciler == ReconcileScan \/ ReconcileCommit \/ ReconcileAbort

Next ==
    \/ \E t \in TradeIds : Exchange(t) \/ Webhook(t)
    \/ \E h \in hooks : LoseHook(h)
    \/ Consumer
    \/ Reconciler

Spec == Init /\ [][Next]_vars

\* The loop of run_reconciliation_loop never ends and catches every exception,
\* so passes keep coming; an order that stays SUBMITTED becomes stale, and a
\* look-up that can succeed does sooner or later.
FairSpec == Spec /\ WF_vars(Scan(Submitted, {}, {})) /\ SF_vars(ReconcileCommit)

-----------------------------------------------------------------------------
(* The tables hold rows of their types; a pass only names rows it read.    *)
TypeOK ==
    /\ orders \in [OrderIds -> OrderRows]
    /\ positions \in [PositionIds -> PositionRows]
    /\ alerted \subseteq OrderIds
    /\ trades \in [TradeIds -> TradeRows]
    /\ hooks \subseteq Hooks
    /\ eng \in [pc : {"idle", "sent"}, order : 0..MaxOrders, pair : Pairs \cup {NoPair},
               tid : 0..MaxTrades, ok : BOOLEAN, pos : 0..MaxPositions]
    /\ rec \in [pc : {"idle", "commit"}, fill : SUBSET OrderIds, open : SUBSET OrderIds,
               own : SUBSET [pos : PositionIds, tid : TradeIds],
               syn : SUBSET [pos : PositionIds, tid : TradeIds, order : OrderIds],
               alert : SUBSET OrderIds]
    /\ used \in [signals : 0..MaxSignals, orders : 0..MaxOrders, trades : 0..MaxTrades]

(* A filled entry is never without its position, whichever of the webhook  *)
(* and the reconciliation pass recorded the fill, and whatever they raced  *)
(* with: the exposure the risk rules count contains every recorded fill.   *)
FilledEntryHasPosition ==
    \A o \in Orders : orders[o].side = "BUY" /\ orders[o].status = "FILLED"
        => \E p \in Positions : positions[p].entry = o

(* Every position hangs on a BUY order that names a Freqtrade trade of the *)
(* same pair: _reconcile_open_positions and _submit_exit_order, which join *)
(* through the entry order, can reach every OPEN position.                 *)
PositionHasEntry ==
    \A p \in Positions :
        /\ positions[p].entry \in Orders
        /\ orders[positions[p].entry].side = "BUY"
        /\ orders[positions[p].entry].pair = positions[p].pair
        /\ EntryTrade(p) # 0
        /\ trades[EntryTrade(p)].pair = positions[p].pair

(* The ledger never calls a position CLOSED while Freqtrade still holds    *)
(* its trade, though _handle_exit_fill falls back on "any OPEN position of *)
(* the pair".                                                              *)
ClosedWhenGone ==
    \A p \in Positions : positions[p].status = "CLOSED" => trades[EntryTrade(p)].state = "closed"

(* A CLOSED position carries the profit of its own trade, and an exit      *)
(* order names the trade of the position it closes.                        *)
ExitOfOwnTrade ==
    \A p \in Positions :
        /\ positions[p].status = "CLOSED" => positions[p].pnl = EntryTrade(p)
        /\ positions[p].exit # 0 =>
              /\ positions[p].exit \in Orders
              /\ orders[positions[p].exit].side = "SELL"
              /\ orders[positions[p].exit].tid = EntryTrade(p)

(* No exit order closes two positions: `first()` over the positions with   *)
(* this exit_order_id never has to choose.                                 *)
ExitOrderClosesOne ==
    \A p, q \in Positions : positions[p].exit # 0 /\ positions[p].exit = positions[q].exit => p = q

(* The trade id of an order is written once, and a webhook that back-fills *)
(* it by pair never passes over the order whose forceenter opened the      *)
(* trade: another order gets the id only when that one is not in the table *)
(* as SUBMITTED (not committed yet, lost with its transaction, or FAILED). *)
OwnTradeFirst ==
    [][\A o \in Orders : orders'[o].tid # orders[o].tid =>
         /\ orders[o].tid = 0
         /\ LET own == trades[orders'[o].tid].by IN own = o \/ own \notin Submitted]_vars

(* Whatever webhooks are lost, a trade Freqtrade closed does not stay an   *)
(* OPEN position.                                                          *)
Held(t) == \E p \in OpenPositions : EntryTrade(p) = t
ClosedTradeBooked ==
    \A t \in TradeIds : trades[t].state = "closed" /\ Held(t) ~> ~Held(t)

(* Whatever webhooks are lost, no order stays SUBMITTED in silence: it is  *)
(* resolved or its operator alert is written.                              *)
SubmittedSettled ==
    \A o \in OrderIds : o \in Submitted ~> o \notin Submitted \/ o \in alerted

(* Why the ledger stays whole, whatever the faults.  An id handed out to a  *)
(* transaction in flight names no row yet and nobody else's row later.     *)
Reserved ==
    /\ \A o \in Orders : o <= used.orders
    /\ eng.pc = "sent" => eng.order \in OrderIds \ Orders /\ eng.order <= used.orders
    /\ \A c \in rec.syn : /\ c.order \notin Orders
                          /\ c.order <= used.orders
                          /\ eng.pc = "sent" => c.order # eng.order

(* A trade id an entry order carries, or is about to, is one Freqtrade gave *)
(* out for the order's own pair.                                           *)
TradesKnown ==
    /\ \A t \in TradeIds : trades[t].state # "none" => t <= used.trades
    /\ \A h \in hooks : h.tid <= used.trades
    /\ \A o \in Orders : orders[o].side = "BUY" /\ orders[o].tid # 0 =>
            orders[o].tid <= used.trades /\ trades[orders[o].tid].pair = orders[o].pair
    /\ eng.pc = "sent" /\ eng.pos = 0 /\ eng.tid # 0 =>
            eng.tid <= used.trades /\ trades[eng.tid].pair = eng.pair

(* What a pass has read and not yet written stays true of the tables: the  *)
(* rows it updates exist, and the entries it fills have a position or are  *)
(* among those it opens one for.                                           *)
PassConsistent ==
    /\ rec.fill \subseteq Orders
    /\ rec.open \subseteq rec.fill
    /\ \A o \in rec.open : orders[o].side = "BUY" /\ orders[o].tid # 0
    /\ \A c \in rec.own \cup rec.syn : c.pos \in Positions
    /\ \A o \in rec.fill : orders[o].side = "BUY" =>
            o \in rec.open \/ \E p \in Positions : positions[p].entry = o

LedgerWhole ==
    /\ TypeOK /\ FilledEntryHasPosition /\ PositionHasEntry
    /\ Reserved /\ TradesKnown /\ PassConsistent

(* What the documents claim and the code does not keep.                    *)

(* PROJECT.md 10.1, ORDER ||--o| POSITION: an order opens one position.    *)
OnePositionPerOrder ==
    \A p, q \in Positions : positions[p].entry = positions[q].entry => p = q

=============================================================================
