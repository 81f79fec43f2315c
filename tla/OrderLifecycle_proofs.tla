----------------------- MODULE OrderLifecycle_proofs -----------------------
(***************************************************************************)
(* The ledger stays whole, and agrees with Freqtrade on exits and trades:  *)
(* proofs about OrderLifecycle for any number of pairs, signals, orders,   *)
(* positions and trades.  What holds for every set of faults is stated     *)
(* without a hypothesis; two results exclude overtaken writes, one the     *)
(* faults that leave a trade without its order.                            *)
(***************************************************************************)
EXTENDS OrderLifecycle, TLAPS

USE ConstantsAssumption DEF OrderIds, PositionIds, TradeIds

LEMMA InitWhole == Init => LedgerWhole
  BY DEF Init, LedgerWhole, TypeOK, FilledEntryHasPosition, PositionHasEntry, Reserved,
         TradesKnown, PassConsistent, OrderRows, PositionRows, TradeRows, Quiet, NoPass,
         Orders, Positions

\* The trade a position was opened with.
LEMMA EntryTradeTypes ==
  ASSUME TypeOK, PositionHasEntry, NEW p \in Positions
  PROVE  EntryTrade(p) \in TradeIds /\ EntryTrade(p) \in 0..MaxTrades
<1>1. PICK o \in OrderIds : o = positions[p].entry
  BY DEF PositionHasEntry, Orders
<1>2. orders[o] \in OrderRows
  BY DEF TypeOK
<1>3. orders[o].tid \in 0..MaxTrades
  BY <1>2 DEF OrderRows
<1>4. orders[o].tid # 0
  BY <1>1 DEF PositionHasEntry, EntryTrade
<1>5. QED
  BY <1>1, <1>3, <1>4 DEF EntryTrade

\* Freqtrade's own steps change the state of a trade and send hooks about it.
LEMMA FreqtradeWhole ==
  ASSUME LedgerWhole, NEW t \in TradeIds, NEW from, NEW to \in {"open", "deleted", "closing", "closed"},
         NEW events \in SUBSET {"entry_fill", "entry_cancel", "exit_fill", "exit_cancel"},
         from # "none", Freqtrade(t, from, to, events)
  PROVE  LedgerWhole'
<1> USE DEF LedgerWhole, Freqtrade
<1>0. \A x \in TradeIds : trades'[x].pair = trades[x].pair
                          /\ (trades'[x].state # "none" => trades[x].state # "none")
  BY DEF TypeOK, TradeRows
<1>1. TypeOK'
  <2>1. trades' \in [TradeIds -> TradeRows]
    <3>1. trades \in [TradeIds -> TradeRows]
      BY DEF TypeOK
    <3>2. trades[t] \in TradeRows
      BY <3>1
    <3>3. [trades[t] EXCEPT !.state = to] \in TradeRows
      BY <3>2 DEF TradeRows
    <3>4. trades' = [trades EXCEPT ![t] = [trades[t] EXCEPT !.state = to]]
      BY <3>1
    <3>5. QED
      BY <3>1, <3>3, <3>4
  <2>2. {[ev |-> e, tid |-> t] : e \in events} \subseteq Hooks
    BY DEF Hooks
  <2>3. QED
    BY <2>1, <2>2 DEF TypeOK
<1>2. FilledEntryHasPosition' /\ Reserved' /\ PassConsistent'
  BY DEF FilledEntryHasPosition, Reserved, PassConsistent, Orders, Positions
<1>3. PositionHasEntry'
  <2>1. \A p \in Positions : EntryTrade(p) \in TradeIds
    BY EntryTradeTypes
  <2>2. orders' = orders /\ positions' = positions
    OBVIOUS
  <2>3. QED
    BY <1>0, <2>1, <2>2 DEF PositionHasEntry, Orders, Positions, EntryTrade
<1>4. TradesKnown'
  BY <1>0 DEF TradesKnown, Orders, TypeOK, OrderRows, TradeRows
<1>5. QED
  BY <1>1, <1>2, <1>3, <1>4

\* The consumer's steps up to its commit: the tables are untouched, an order
\* id is reserved, and an opened trade takes the next trade id.
LEMMA CalledWhole ==
  ASSUME LedgerWhole, NewSignal, NEW pair \in Pairs, NEW tid \in 0..MaxTrades, NEW ok \in BOOLEAN,
         NEW pos \in 0..MaxPositions, NEW opened \in {0, 1}, used.trades + opened <= MaxTrades,
         Called(pair, tid, ok, pos, opened),
         trades' \in [TradeIds -> TradeRows],
         \A t \in TradeIds : t <= used.trades => trades'[t].pair = trades[t].pair,
         \A t \in TradeIds : trades'[t].state # "none" => t <= used.trades + opened,
         pos = 0 /\ tid # 0 => tid <= used.trades + opened /\ trades'[tid].pair = pair
  PROVE  LedgerWhole'
<1> USE DEF LedgerWhole, Called, NewSignal
<1>1. TypeOK'
  <2>1. used' \in [signals : 0..MaxSignals, orders : 0..MaxOrders, trades : 0..MaxTrades]
    <3>1. used \in [signals : 0..MaxSignals, orders : 0..MaxOrders, trades : 0..MaxTrades]
      BY DEF TypeOK
    <3>2. /\ used.signals + 1 \in 0..MaxSignals
          /\ used.orders + 1 \in 0..MaxOrders
          /\ used.trades + opened \in 0..MaxTrades
      BY <3>1
    <3>3. used' = [used EXCEPT !.signals = used.signals + 1, !.orders = used.orders + 1,
                               !.trades = used.trades + opened]
      OBVIOUS
    <3>4. QED
      BY <3>1, <3>2, <3>3
  <2>2. eng' \in [pc : {"idle", "sent"}, order : 0..MaxOrders, pair : Pairs \cup {NoPair},
                  tid : 0..MaxTrades, ok : BOOLEAN, pos : 0..MaxPositions]
    BY DEF TypeOK
  <2>3. QED
    BY <2>1, <2>2 DEF TypeOK
<1>2. FilledEntryHasPosition' /\ PassConsistent'
  BY DEF FilledEntryHasPosition, PassConsistent, Orders, Positions
<1>3. PositionHasEntry'
  <2>1. \A p \in Positions : EntryTrade(p) \in TradeIds /\ EntryTrade(p) <= used.trades
    BY SMTT(30) DEF PositionHasEntry, TradesKnown, Orders, EntryTrade, TypeOK, OrderRows
  <2>2. orders' = orders /\ positions' = positions
    OBVIOUS
  <2>3. \A p \in Positions : trades'[EntryTrade(p)].pair = trades[EntryTrade(p)].pair
    BY <2>1
  <2> HIDE DEF Called
  <2>4. QED
    BY <2>2, <2>3 DEF PositionHasEntry, Orders, Positions, EntryTrade
<1>4. used' = [used EXCEPT !.signals = @ + 1, !.orders = @ + 1, !.trades = @ + opened]
      /\ used'.orders = used.orders + 1 /\ used'.trades = used.trades + opened
  BY DEF TypeOK
<1>5. Reserved'
  BY <1>4, SMTT(30) DEF Reserved, Orders, TypeOK
<1>6. TradesKnown'
  BY <1>4, SMTT(30) DEF TradesKnown, Orders, TypeOK, OrderRows, Hooks
<1>7. QED
  BY <1>1, <1>2, <1>3, <1>5, <1>6

LEMMA EntryRefusedWhole ==
  ASSUME LedgerWhole, NEW pair \in Pairs, EntryRefused(pair)
  PROVE  LedgerWhole'
<1>1. NewSignal /\ Called(pair, 0, FALSE, 0, 0)
  BY DEF EntryRefused, MayEnter
<1>0. used.trades \in 0..MaxTrades /\ used.trades + 0 <= MaxTrades
  BY DEF LedgerWhole, TypeOK
<1>2. /\ trades' \in [TradeIds -> TradeRows]
      /\ \A t \in TradeIds : trades'[t].pair = trades[t].pair
      /\ \A t \in TradeIds : trades'[t].state # "none" => t <= used.trades + 0
  BY DEF EntryRefused, LedgerWhole, TypeOK, TradesKnown
<1>3. 0 \in 0..MaxTrades /\ 0 \in 0..MaxPositions /\ FALSE \in BOOLEAN /\ 0 \in {0, 1}
  OBVIOUS
<1>4. QED
  BY <1>0, <1>1, <1>2, <1>3, CalledWhole

LEMMA EntryAcceptedWhole ==
  ASSUME LedgerWhole, NEW pair \in Pairs, EntryAccepted(pair)
  PROVE  LedgerWhole'
<1> DEFINE t == used.trades + 1
<1>1. PICK reply \in [tid : {0, t}, ok : BOOLEAN, state : {"pending", "closing", "deleted"}] :
        /\ trades' = [trades EXCEPT ![t] =
                        [pair |-> pair, state |-> reply.state, by |-> used.orders + 1]]
        /\ Called(pair, reply.tid, reply.ok, 0, 1)
  BY DEF EntryAccepted
<1>2. /\ NewSignal /\ t \in TradeIds /\ used.trades \in Nat /\ 0 \in 0..MaxPositions
      /\ used.orders + 1 \in 0..MaxOrders
  BY DEF EntryAccepted, MayEnter, NewSignal, LedgerWhole, TypeOK
<1>3. trades' \in [TradeIds -> TradeRows]
  BY <1>1, <1>2 DEF LedgerWhole, TypeOK, TradeRows
<1>4. \A x \in TradeIds : /\ x <= used.trades => trades'[x].pair = trades[x].pair
                          /\ trades'[x].state # "none" => x <= used.trades + 1
  BY <1>1, <1>2 DEF LedgerWhole, TypeOK, TradesKnown
<1>5. trades'[t].pair = pair
  BY <1>1, <1>2 DEF LedgerWhole, TypeOK
<1>6. QED
  BY <1>1, <1>2, <1>3, <1>4, <1>5, CalledWhole

LEMMA ExitSignalWhole ==
  ASSUME LedgerWhole, NEW pair \in Pairs, ExitSignal(pair)
  PROVE  LedgerWhole'
<1>1. PICK p \in OpenPositions : \E ok \in BOOLEAN :
        /\ EntryTrade(p) # 0
        /\ Called(pair, EntryTrade(p), ok, p, 0)
        /\ trades' \in {trades, [trades EXCEPT ![EntryTrade(p)].state = "closing"]}
        /\ trades' # trades => IsOpen(EntryTrade(p))
  BY DEF ExitSignal
<1>2. p \in Positions /\ p \in 0..MaxPositions /\ p # 0
  BY DEF OpenPositions, Positions
<1>3. NewSignal /\ EntryTrade(p) \in TradeIds /\ EntryTrade(p) \in 0..MaxTrades
  <2>1. EntryTrade(p) \in TradeIds /\ EntryTrade(p) \in 0..MaxTrades
    BY <1>2, EntryTradeTypes DEF LedgerWhole
  <2>2. QED
    BY <2>1 DEF ExitSignal
<1>4. trades \in [TradeIds -> TradeRows]
  BY DEF LedgerWhole, TypeOK
<1>5. /\ trades' \in [TradeIds -> TradeRows]
      /\ \A x \in TradeIds : trades'[x].pair = trades[x].pair
                             /\ (trades'[x].state # "none" => trades[x].state # "none")
  <2>1. CASE trades' = trades
    BY <2>1, <1>4
  <2>2. CASE trades' = [trades EXCEPT ![EntryTrade(p)].state = "closing"]
             /\ IsOpen(EntryTrade(p))
    BY <2>2, <1>3, <1>4 DEF TradeRows, IsOpen
  <2>3. QED
    BY <1>1, <2>1, <2>2
<1>6. used.trades \in 0..MaxTrades
      /\ \A x \in TradeIds : trades'[x].state # "none" => x <= used.trades + 0
  BY <1>5 DEF LedgerWhole, TypeOK, TradesKnown
<1>7. QED
  BY <1>1, <1>2, <1>3, <1>5, <1>6, CalledWhole

\* What every transaction that writes the two tables has in common: it updates
\* rows in place, gives a trade id only to a row without one, ...
OrdersKept ==
    \A o \in Orders :
        /\ o \in Orders'
        /\ orders'[o].side = orders[o].side /\ orders'[o].pair = orders[o].pair
        /\ orders'[o].tid = orders[o].tid
           \/ /\ orders[o].tid = 0
              /\ orders'[o].tid <= used.trades /\ trades[orders'[o].tid].pair = orders[o].pair
PositionsKept ==
    \A p \in Positions :
        /\ p \in Positions'
        /\ positions'[p].entry = positions[p].entry /\ positions'[p].pair = positions[p].pair

\* ... inserts an order under an id it owns, never as a filled entry, ...
OrdersAdded ==
    \A o \in Orders' \ Orders :
        /\ o <= used'.orders
        /\ eng'.pc = "sent" => o # eng'.order
        /\ \A c \in rec'.syn : o # c.order
        /\ orders'[o].side = "BUY" => /\ orders'[o].status # "FILLED"
                                      /\ orders'[o].tid # 0 =>
                                           /\ orders'[o].tid <= used.trades
                                           /\ trades[orders'[o].tid].pair = orders'[o].pair

\* ... and has a position for every entry it fills.
PositionsAdded ==
    /\ \A p \in Positions' \ Positions :
          /\ positions'[p].entry \in Orders
          /\ orders[positions'[p].entry].side = "BUY"
          /\ orders[positions'[p].entry].pair = positions'[p].pair
          /\ orders'[positions'[p].entry].tid # 0
    /\ \A o \in Orders : orders[o].side = "BUY" /\ orders'[o].status = "FILLED" =>
          orders[o].status = "FILLED" \/ \E p \in Positions' : positions'[p].entry = o

LEMMA WritesWhole ==
  ASSUME LedgerWhole, TypeOK', OrdersKept, PositionsKept, OrdersAdded, PositionsAdded,
         trades' = trades, hooks' \subseteq hooks, used'.trades = used.trades,
         used'.orders >= used.orders, eng' \in {eng, Quiet}, rec' \in {rec, NoPass}
  PROVE  LedgerWhole'
<1> USE DEF LedgerWhole
<1>1. Orders \subseteq Orders' /\ Positions \subseteq Positions'
      /\ Orders' \subseteq OrderIds /\ Positions' \subseteq PositionIds
  BY DEF OrdersKept, PositionsKept, Orders, Positions
<1>2. FilledEntryHasPosition'
  <2> SUFFICES ASSUME NEW o \in Orders', orders'[o].side = "BUY", orders'[o].status = "FILLED"
               PROVE  \E p \in Positions' : positions'[p].entry = o
    BY DEF FilledEntryHasPosition
  <2>1. o \in Orders /\ orders[o].side = "BUY"
    BY DEF OrdersAdded, OrdersKept
  <2>2. CASE orders[o].status = "FILLED"
    BY <2>1, <2>2, <1>1 DEF FilledEntryHasPosition, PositionsKept
  <2>3. QED
    BY <2>1, <2>2 DEF PositionsAdded
<1>3. PositionHasEntry'
  <2> SUFFICES ASSUME NEW p \in Positions'
               PROVE  LET e == positions'[p].entry IN
                      /\ e \in Orders /\ orders[e].side = "BUY"
                      /\ orders[e].pair = positions'[p].pair
                      /\ orders'[e].tid # 0
                      /\ trades[orders'[e].tid].pair = orders[e].pair
    BY DEF PositionHasEntry, EntryTrade, OrdersKept
  <2>1. CASE p \in Positions
    BY <2>1 DEF PositionHasEntry, EntryTrade, OrdersKept, PositionsKept
  <2>2. CASE p \notin Positions
    <3>1. LET e == positions'[p].entry IN
          /\ e \in Orders /\ orders[e].side = "BUY"
          /\ orders[e].pair = positions'[p].pair /\ orders'[e].tid # 0
      BY <2>2 DEF PositionsAdded
    <3>2. QED
      BY <3>1 DEF OrdersKept, TradesKnown
  <2>3. QED
    BY <2>1, <2>2
<1>4. Reserved'
  <2>1. \A o \in Orders' : o <= used'.orders
    BY <1>1 DEF OrdersAdded, Reserved, Orders, TypeOK
  <2>2. eng'.pc = "sent" => eng'.order \in OrderIds \ Orders' /\ eng'.order <= used'.orders
    BY <1>1 DEF OrdersAdded, Reserved, TypeOK, Quiet
  <2>3. ASSUME NEW c \in rec'.syn
        PROVE  /\ c.order \notin Orders' /\ c.order <= used'.orders
               /\ eng'.pc = "sent" => c.order # eng'.order
    <3>1. c \in rec.syn /\ rec' = rec
      BY DEF NoPass
    <3>2. QED
      BY <3>1, <1>1, SMTT(30) DEF OrdersAdded, Reserved, TypeOK, Quiet
  <2>4. QED
    BY <2>1, <2>2, <2>3 DEF Reserved
<1>5. TradesKnown'
  <2>1. ASSUME NEW o \in Orders', orders'[o].side = "BUY", orders'[o].tid # 0
        PROVE  orders'[o].tid <= used.trades /\ trades[orders'[o].tid].pair = orders'[o].pair
    BY <2>1 DEF OrdersAdded, OrdersKept, TradesKnown
  <2>2. QED
    BY <2>1 DEF TradesKnown, Quiet
<1>6. PassConsistent'
  <2>1. CASE rec' = NoPass
    BY <2>1 DEF PassConsistent, NoPass
  <2>2. CASE rec' = rec
    <3>1. \A p \in Positions : p \in Positions' /\ positions'[p].entry = positions[p].entry
      BY DEF PositionsKept
    <3>2. \A o \in Orders :
             /\ o \in Orders' /\ orders'[o].side = orders[o].side
             /\ orders[o].tid # 0 => orders'[o].tid = orders[o].tid
      BY DEF OrdersKept
    <3>3. \A c \in rec'.own \cup rec'.syn : c.pos \in Positions'
      BY <2>2, <3>1 DEF PassConsistent
    <3>4. QED
      BY <2>2, <3>1, <3>2, <3>3 DEF PassConsistent
  <2>3. QED
    BY <2>1, <2>2
<1>7. QED
  BY <1>2, <1>3, <1>4, <1>5, <1>6

LEMMA UntouchedWhole ==
  ASSUME LedgerWhole, UNCHANGED <<orders, positions, alerted, trades, used>>,
         hooks' \subseteq hooks, eng' \in {eng, Quiet}, rec' \in {rec, NoPass}
  PROVE  LedgerWhole'
<1>1. TypeOK'
  <2>1. eng' \in [pc : {"idle", "sent"}, order : 0..MaxOrders, pair : Pairs \cup {NoPair},
                  tid : 0..MaxTrades, ok : BOOLEAN, pos : 0..MaxPositions]
    <3>1. CASE eng' = eng
      BY <3>1 DEF LedgerWhole, TypeOK
    <3>2. CASE eng' = Quiet
      BY <3>2 DEF Quiet
    <3>3. QED
      BY <3>1, <3>2
  <2>2. rec' \in [pc : {"idle", "commit"}, fill : SUBSET OrderIds, open : SUBSET OrderIds,
                  own : SUBSET [pos : PositionIds, tid : TradeIds],
                  syn : SUBSET [pos : PositionIds, tid : TradeIds, order : OrderIds],
                  alert : SUBSET OrderIds]
    BY DEF LedgerWhole, TypeOK, NoPass
  <2>3. QED
    BY <2>1, <2>2 DEF LedgerWhole, TypeOK
<1>2. OrdersKept /\ PositionsKept /\ OrdersAdded /\ PositionsAdded
  BY DEF OrdersKept, PositionsKept, OrdersAdded, PositionsAdded, Orders, Positions
<1>3. used.orders \in Nat
  BY DEF LedgerWhole, TypeOK
<1>4. QED
  BY <1>1, <1>2, <1>3, WritesWhole

LEMMA EngineCommitWhole ==
  ASSUME LedgerWhole, EngineCommit
  PROVE  /\ LedgerWhole' /\ OrdersKept /\ PositionsKept
         /\ eng.order \in OrderIds \ Orders /\ Orders' = Orders \cup {eng.order}
         /\ orders'[eng.order].side = (IF eng.pos = 0 THEN "BUY" ELSE "SELL")
         /\ orders'[eng.order].pair = eng.pair
         /\ orders'[eng.order].tid = eng.tid
         /\ orders'[eng.order].status = (IF eng.ok THEN "SUBMITTED" ELSE "FAILED")
         /\ \A o \in Orders : orders'[o] = orders[o]
         /\ Positions' = Positions
<1> DEFINE row == [side |-> IF eng.pos = 0 THEN "BUY" ELSE "SELL", pair |-> eng.pair,
                   tid |-> eng.tid, status |-> IF eng.ok THEN "SUBMITTED" ELSE "FAILED"]
<1>1. eng.order \in OrderIds \ Orders /\ eng.order <= used.orders
  BY DEF EngineCommit, LedgerWhole, Reserved
<1>2. row \in OrderRows
  BY DEF OrderRows, LedgerWhole, TypeOK
<1>3. orders' = [orders EXCEPT ![eng.order] = row]
  BY DEF EngineCommit
<1>4. orders' \in [OrderIds -> OrderRows]
  BY <1>1, <1>2, <1>3 DEF LedgerWhole, TypeOK
<1>5. /\ positions' \in [PositionIds -> PositionRows]
      /\ \A p \in PositionIds : /\ positions'[p].entry = positions[p].entry
                                /\ positions'[p].pair = positions[p].pair
                                /\ positions'[p].status = positions[p].status
  <2>1. CASE positions' = positions
    BY <2>1 DEF LedgerWhole, TypeOK
  <2>2. CASE eng.pos # 0 /\ positions' = [positions EXCEPT ![eng.pos].exit = eng.order]
    <3>1. PICK at \in PositionIds, order \in 0..MaxOrders : at = eng.pos /\ order = eng.order
      BY <2>2 DEF LedgerWhole, TypeOK
    <3>2. positions \in [PositionIds -> PositionRows]
      BY DEF LedgerWhole, TypeOK
    <3>3. PICK r : r = [positions[at] EXCEPT !.exit = order]
      OBVIOUS
    <3>4. /\ r \in PositionRows /\ r.entry = positions[at].entry /\ r.pair = positions[at].pair
          /\ r.status = positions[at].status
      BY <3>2, <3>3 DEF PositionRows
    <3>5. positions' = [positions EXCEPT ![at] = r]
      BY <2>2, <3>1, <3>3
    <3>6. QED
      BY <3>2, <3>4, <3>5
  <2>3. QED
    BY <2>1, <2>2 DEF EngineCommit
<1>6. TypeOK'
  BY <1>4, <1>5, SMTT(30) DEF EngineCommit, LedgerWhole, TypeOK, Quiet
<1>7. /\ eng.order \notin Orders
      /\ \A o \in OrderIds : o # eng.order => orders'[o] = orders[o]
      /\ orders'[eng.order] = row
  BY <1>1, <1>3 DEF LedgerWhole, TypeOK
<1>8. Positions' = Positions
  BY <1>5 DEF Positions
<1>9. Orders' = Orders \cup {eng.order}
  BY <1>1, <1>7 DEF Orders
<1>10. OrdersKept
  BY <1>7, <1>9 DEF OrdersKept, Orders
<1>11. PositionsKept
  BY <1>5, <1>8 DEF PositionsKept, Positions
<1>12. OrdersAdded
  BY <1>1, <1>7, <1>9 DEF OrdersAdded, EngineCommit, Quiet, LedgerWhole, Reserved, TradesKnown
<1>13. PositionsAdded
  BY <1>7, <1>8 DEF PositionsAdded, Orders
<1>14. used.orders \in Nat
  BY DEF LedgerWhole, TypeOK
<1>15. LedgerWhole'
  BY <1>6, <1>10, <1>11, <1>12, <1>13, <1>14, WritesWhole DEF EngineCommit
<1>16. \A o \in Orders : orders'[o] = orders[o]
  BY <1>7 DEF Orders
<1>17. QED
  BY <1>1, <1>7, <1>8, <1>9, <1>10, <1>11, <1>15, <1>16

\* The webhook endpoint.
LEMMA Found ==
  ASSUME LedgerWhole, NEW t \in TradeIds, NEW side \in {"BUY", "SELL"}, NEW o \in FindOrder(t, side)
  PROVE  /\ o \in Orders /\ orders[o].side = side /\ orders[o].pair = trades[t].pair
         /\ orders[o].tid \in {0, t}
  BY DEF FindOrder, Latest, Matches, Unmatched, Submitted, Orders

LEMMA MarkedOrders ==
  ASSUME LedgerWhole, NEW t \in TradeIds, t <= used.trades, NEW side \in {"BUY", "SELL"},
         NEW o \in FindOrder(t, side), NEW status \in {"FILLED", "CANCELLED", orders[o].status},
         orders' = Mark(o, t, status)
  PROVE  /\ orders' \in [OrderIds -> OrderRows]
         /\ Orders' = Orders
         /\ OrdersKept
         /\ \A x \in OrderIds : x # o => orders'[x] = orders[x]
         /\ orders'[o].tid = t /\ orders'[o].status = status /\ orders'[o].side = orders[o].side
<1> USE DEF LedgerWhole
<1>1. /\ o \in Orders /\ orders[o].side = side /\ orders[o].pair = trades[t].pair
      /\ orders[o].tid \in {0, t}
  BY Found
<1>2. orders \in [OrderIds -> OrderRows] /\ o \in OrderIds
  BY <1>1 DEF TypeOK, Orders
<1>3. orders' = [orders EXCEPT ![o] = [orders[o] EXCEPT !.tid = t, !.status = status]]
  BY <1>2 DEF Mark, OrderRows
<1>4. [orders[o] EXCEPT !.tid = t, !.status = status] \in OrderRows
  <2>1. orders[o] \in OrderRows /\ t \in 0..MaxTrades
    BY <1>2
  <2> HIDE DEF LedgerWhole
  <2>2. QED
    BY <2>1 DEF OrderRows
<1>5. orders' \in [OrderIds -> OrderRows]
  BY <1>2, <1>3, <1>4
<1>6. /\ \A x \in OrderIds : x # o => orders'[x] = orders[x]
      /\ orders'[o].tid = t /\ orders'[o].status = status
      /\ orders'[o].side = orders[o].side /\ orders'[o].pair = orders[o].pair
  BY <1>2, <1>3 DEF OrderRows
<1>7. Orders' = Orders
  BY <1>1, <1>2, <1>6 DEF Orders
<1>8. OrdersKept
  BY <1>1, <1>6, <1>7 DEF OrdersKept, Orders
<1>9. QED
  BY <1>5, <1>6, <1>7, <1>8

LEMMA ReceivedHook ==
  ASSUME LedgerWhole, NEW t \in TradeIds, NEW ev, Received(ev, t)
  PROVE  /\ t <= used.trades /\ hooks' \subseteq hooks
         /\ UNCHANGED <<alerted, trades, eng, rec>>
  BY DEF Received, LedgerWhole, TradesKnown

\* A webhook that writes the order row alone: cancelled, or a fill that lacks
\* its rate or its amount.
MarkedOnly(ev, side, t) ==
    /\ Received(ev, t)
    /\ \E o \in FindOrder(t, side) : \E status \in {"CANCELLED", orders[o].status} :
          orders' = Mark(o, t, status)
    /\ UNCHANGED <<positions, used>>

LEMMA WebhookCases ==
  ASSUME NEW t, Webhook(t)
  PROVE  \/ EntryFilled(t) \/ ExitFilled(t)
         \/ \E ev, side : NoSuchOrder(ev, side, t)
         \/ \E ev : \E side \in {"BUY", "SELL"} : MarkedOnly(ev, side, t)
<1>1. ASSUME NEW ev, NEW side, Cancelled(ev, side, t) \/ Incomplete(ev, side, t)
      PROVE  MarkedOnly(ev, side, t)
  BY <1>1 DEF Cancelled, Incomplete, MarkedOnly
<1>2. ASSUME NEW c \in {<<"entry_fill", "BUY">>, <<"exit_fill", "SELL">>,
                         <<"entry_cancel", "BUY">>, <<"exit_cancel", "SELL">>}
      PROVE  c[2] \in {"BUY", "SELL"}
  OBVIOUS
<1>3. QED
  BY <1>1, <1>2 DEF Webhook, ExitUnknown

LEMMA MarkedWhole ==
  ASSUME LedgerWhole, NEW t \in TradeIds, NEW ev, NEW side \in {"BUY", "SELL"},
         MarkedOnly(ev, side, t)
  PROVE  /\ LedgerWhole' /\ OrdersKept /\ PositionsKept /\ Orders' = Orders
         /\ UNCHANGED <<positions, trades, eng, rec, used>> /\ hooks' \subseteq hooks
         /\ \E o \in FindOrder(t, side) :
               /\ orders'[o].tid = t /\ orders'[o].status \in {"CANCELLED", orders[o].status}
               /\ \A x \in Orders : x # o => orders'[x] = orders[x]
<1>0. PICK o \in FindOrder(t, side) :
         \E status \in {"CANCELLED", orders[o].status} : orders' = Mark(o, t, status)
  BY DEF MarkedOnly
<1>1. PICK status \in {"CANCELLED", orders[o].status} : orders' = Mark(o, t, status)
  BY <1>0
<1>2. /\ t <= used.trades /\ hooks' \subseteq hooks
      /\ UNCHANGED <<alerted, trades, eng, rec, positions, used>>
  BY ReceivedHook DEF MarkedOnly
<1>3. /\ orders' \in [OrderIds -> OrderRows] /\ Orders' = Orders /\ OrdersKept
      /\ \A x \in OrderIds : x # o => orders'[x] = orders[x]
      /\ orders'[o].status = status /\ orders'[o].tid = t
  BY <1>1, <1>2, MarkedOrders
<1>4. TypeOK' /\ used.orders \in Nat
  BY <1>2, <1>3 DEF LedgerWhole, TypeOK
<1>5. PositionsKept /\ OrdersAdded
  BY <1>2, <1>3 DEF PositionsKept, OrdersAdded, Positions, Orders
<1>6. PositionsAdded
  <2>1. \A x \in Orders : orders'[x].status = "FILLED" => orders[x].status = "FILLED"
    BY <1>1, <1>3 DEF Orders
  <2>2. Positions' = Positions
    BY <1>2 DEF Positions
  <2>3. QED
    BY <2>1, <2>2 DEF PositionsAdded
<1>7. LedgerWhole'
  BY <1>2, <1>3, <1>4, <1>5, <1>6, WritesWhole
<1>8. \A x \in Orders : x # o => orders'[x] = orders[x]
  BY <1>3 DEF Orders
<1>9. QED
  BY <1>1, <1>2, <1>3, <1>5, <1>7, <1>8

LEMMA EntryFilledWhole ==
  ASSUME LedgerWhole, NEW t \in TradeIds, EntryFilled(t)
  PROVE  /\ LedgerWhole' /\ OrdersKept /\ PositionsKept /\ Orders' = Orders
         /\ UNCHANGED <<trades, eng, rec, used>> /\ hooks' \subseteq hooks
         /\ \E o \in FindOrder(t, "BUY") :
               /\ orders'[o].tid = t /\ orders'[o].status # "SUBMITTED"
               /\ \A x \in Orders : x # o => orders'[x] = orders[x]
               /\ \E p \in PositionIds \ Positions :
                     /\ Positions' = Positions \cup {p} /\ positions'[p] = NewPosition(o)
                     /\ \A x \in Positions : positions'[x] = positions[x]
<1> DEFINE p == CHOOSE p \in FreePositions : TRUE
<1>1. PICK o \in FindOrder(t, "BUY") :
         /\ orders' = Mark(o, t, "FILLED")
         /\ positions' = [positions EXCEPT ![p] = NewPosition(o)]
  BY DEF EntryFilled
<1>2. /\ t <= used.trades /\ hooks' \subseteq hooks
      /\ UNCHANGED <<alerted, trades, eng, rec, used>>
  BY ReceivedHook DEF EntryFilled
<1>3. /\ orders' \in [OrderIds -> OrderRows] /\ Orders' = Orders /\ OrdersKept
      /\ \A x \in OrderIds : x # o => orders'[x] = orders[x]
      /\ orders'[o].tid = t /\ orders'[o].status = "FILLED"
  BY <1>1, <1>2, MarkedOrders
<1>4. o \in Orders /\ orders[o].side = "BUY"
  BY Found
<1>5. p \in PositionIds \ Positions
  BY DEF EntryFilled, FreePositions
<1> HIDE DEF p
<1>6. NewPosition(o) \in PositionRows
  <2>1. orders[o] \in OrderRows /\ o \in OrderIds
    BY <1>4 DEF LedgerWhole, TypeOK, Orders
  <2>2. QED
    BY <2>1 DEF NewPosition, OrderRows, PositionRows
<1>7. /\ positions' \in [PositionIds -> PositionRows]
      /\ positions'[p] = NewPosition(o)
      /\ \A x \in PositionIds : x # p => positions'[x] = positions[x]
  BY <1>1, <1>5, <1>6 DEF LedgerWhole, TypeOK
<1>8. TypeOK' /\ used.orders \in Nat
  BY <1>2, <1>3, <1>7 DEF LedgerWhole, TypeOK
<1>9. Positions' = Positions \cup {p}
  BY <1>5, <1>7 DEF Positions, NewPosition
<1>10. PositionsKept
  BY <1>5, <1>7, <1>9 DEF PositionsKept, Positions
<1>11. OrdersAdded
  BY <1>3 DEF OrdersAdded
<1>12. PositionsAdded
  <2>1. /\ positions'[p].entry = o /\ positions'[p].pair = orders[o].pair
        /\ p \in Positions' /\ t # 0
    BY <1>7, <1>9 DEF NewPosition
  <2>2. \A x \in Orders : x # o => orders'[x] = orders[x]
    BY <1>3 DEF Orders
  <2>3. QED
    BY <1>3, <1>4, <1>9, <2>1, <2>2 DEF PositionsAdded
<1>13. LedgerWhole'
  BY <1>2, <1>3, <1>8, <1>10, <1>11, <1>12, WritesWhole
<1>14. /\ \A x \in Orders : x # o => orders'[x] = orders[x]
       /\ \A x \in Positions : positions'[x] = positions[x]
  BY <1>3, <1>5, <1>7 DEF Orders, Positions
<1>15. QED
  BY <1>2, <1>3, <1>5, <1>7, <1>9, <1>10, <1>13, <1>14

LEMMA CloseWithKeeps ==
  ASSUME LedgerWhole, NEW t \in TradeIds, NEW o \in OrderIds, CloseWith(o, t)
  PROVE  /\ positions' \in [PositionIds -> PositionRows]
         /\ Positions' = Positions /\ PositionsKept
<1>1. positions \in [PositionIds -> PositionRows]
  BY DEF LedgerWhole, TypeOK
<1>2. CASE positions' = positions
  BY <1>1, <1>2 DEF PositionsKept, Positions
<1>3. ASSUME NEW p \in Positions,
             positions' = [positions EXCEPT ![p].status = "CLOSED", ![p].exit = o, ![p].pnl = t]
      PROVE  /\ positions' \in [PositionIds -> PositionRows]
             /\ Positions' = Positions /\ PositionsKept
  <2> DEFINE row == [positions[p] EXCEPT !.status = "CLOSED", !.exit = o, !.pnl = t]
  <2>1. p \in PositionIds /\ positions[p] \in PositionRows
    BY <1>1 DEF Positions
  <2>2. positions' = [positions EXCEPT ![p] = row]
    BY <1>1, <1>3, <2>1 DEF PositionRows
  <2>3. row \in PositionRows /\ row.status = "CLOSED"
        /\ row.entry = positions[p].entry /\ row.pair = positions[p].pair
    <3>1. o \in 0..MaxOrders /\ t \in 0..MaxTrades
      OBVIOUS
    <3>2. QED
      BY <2>1, <3>1 DEF PositionRows
  <2>4. /\ positions' \in [PositionIds -> PositionRows]
        /\ positions'[p] = row /\ \A x \in PositionIds : x # p => positions'[x] = positions[x]
    BY <1>1, <2>1, <2>2, <2>3
  <2>5. Positions' = Positions
    BY <2>3, <2>4 DEF Positions
  <2>6. QED
    BY <2>3, <2>4, <2>5 DEF PositionsKept, Positions
<1>4. QED
  BY <1>2, <1>3 DEF CloseWith, OpenPositions, Positions

\* A SELL order, found or synthesised, becomes the exit of trade t.
ExitRecorded(o, t) ==
    /\ LedgerWhole' /\ OrdersKept /\ PositionsKept
    /\ o \in FindOrder(t, "SELL") \/ (o \notin Orders /\ o = used.orders + 1)
    /\ Orders' = Orders \cup {o} /\ \A x \in Orders : x # o => orders'[x] = orders[x]
    /\ orders'[o].side = "SELL" /\ orders'[o].tid = t /\ orders'[o].status # "SUBMITTED"
    /\ Positions' = Positions /\ CloseWith(o, t)

LEMMA ExitFilledWhole ==
  ASSUME LedgerWhole, NEW t \in TradeIds, ExitFilled(t)
  PROVE  \E o \in OrderIds : ExitRecorded(o, t)
<1>1. /\ t <= used.trades /\ hooks' \subseteq hooks
      /\ UNCHANGED <<alerted, trades, eng, rec>>
  BY ReceivedHook DEF ExitFilled
<1>2. used.orders \in 0..MaxOrders /\ orders \in [OrderIds -> OrderRows]
  BY DEF LedgerWhole, TypeOK
<1>3. ASSUME NEW o \in FindOrder(t, "SELL"), orders' = Mark(o, t, "FILLED"), CloseWith(o, t),
             UNCHANGED used
      PROVE  ExitRecorded(o, t) /\ o \in OrderIds
  <2>1. /\ orders' \in [OrderIds -> OrderRows] /\ Orders' = Orders /\ OrdersKept
        /\ \A x \in OrderIds : x # o => orders'[x] = orders[x]
        /\ orders'[o].tid = t /\ orders'[o].status = "FILLED" /\ orders'[o].side = orders[o].side
    BY <1>1, <1>3, MarkedOrders
  <2>2. o \in Orders /\ o \in OrderIds /\ orders[o].side = "SELL"
    BY Found DEF Orders
  <2>3. /\ positions' \in [PositionIds -> PositionRows]
        /\ Positions' = Positions /\ PositionsKept
    BY <1>3, <2>2, CloseWithKeeps
  <2>4. TypeOK'
    BY <1>1, <1>3, <2>1, <2>3 DEF LedgerWhole, TypeOK
  <2>5. OrdersAdded /\ PositionsAdded
    BY <2>1, <2>2, <2>3 DEF OrdersAdded, PositionsAdded, Orders
  <2>6. LedgerWhole'
    BY <1>1, <1>2, <1>3, <2>1, <2>3, <2>4, <2>5, WritesWhole
  <2>7. \A x \in Orders : x # o => orders'[x] = orders[x]
    BY <2>1 DEF Orders
  <2>8. QED
    BY <1>3, <2>1, <2>2, <2>3, <2>6, <2>7 DEF ExitRecorded
<1>4. ASSUME used.orders < MaxOrders,
             orders' = [orders EXCEPT ![used.orders + 1] = SyntheticExit(trades[t].pair, t)],
             CloseWith(used.orders + 1, t),
             used' = [used EXCEPT !.orders = used.orders + 1]
      PROVE  ExitRecorded(used.orders + 1, t) /\ used.orders + 1 \in OrderIds
  <2> DEFINE s == used.orders + 1
  <2>1. s \in OrderIds /\ s \notin Orders
    BY <1>2, <1>4 DEF LedgerWhole, Reserved
  <2>2. used'.orders = s /\ used'.trades = used.trades
        /\ used' \in [signals : 0..MaxSignals, orders : 0..MaxOrders, trades : 0..MaxTrades]
    <3>1. used \in [signals : 0..MaxSignals, orders : 0..MaxOrders, trades : 0..MaxTrades]
      BY DEF LedgerWhole, TypeOK
    <3>2. QED
      BY <1>4, <2>1, <3>1
  <2>3. SyntheticExit(trades[t].pair, t) \in OrderRows
    BY DEF SyntheticExit, OrderRows, LedgerWhole, TypeOK, TradeRows
  <2>4. /\ orders' \in [OrderIds -> OrderRows]
        /\ orders'[s] = SyntheticExit(trades[t].pair, t)
        /\ \A x \in OrderIds : x # s => orders'[x] = orders[x]
    BY <1>2, <1>4, <2>1, <2>3
  <2>5. /\ positions' \in [PositionIds -> PositionRows]
        /\ Positions' = Positions /\ PositionsKept
    BY <1>4, <2>1, CloseWithKeeps
  <2>6. TypeOK'
    BY <1>1, <2>2, <2>4, <2>5 DEF LedgerWhole, TypeOK
  <2>7. Orders' = Orders \cup {s} /\ orders'[s].side = "SELL"
    BY <2>1, <2>4 DEF Orders, SyntheticExit
  <2>8. OrdersKept /\ PositionsAdded
    BY <2>1, <2>4, <2>5, <2>7 DEF OrdersKept, PositionsAdded, Orders
  <2>9. OrdersAdded
    <3>1. eng.pc = "sent" => s # eng.order
      BY <1>2 DEF LedgerWhole, Reserved
    <3>2. \A c \in rec.syn : s # c.order
      BY <1>2 DEF LedgerWhole, Reserved
    <3>3. QED
      BY <1>1, <1>2, <2>2, <2>7, <3>1, <3>2 DEF OrdersAdded
  <2>10. LedgerWhole'
    BY <1>1, <1>2, <2>2, <2>5, <2>6, <2>8, <2>9, WritesWhole
  <2>11. orders'[s].tid = t /\ orders'[s].status # "SUBMITTED" /\ \A x \in Orders : orders'[x] = orders[x]
    BY <2>1, <2>4 DEF SyntheticExit, Orders
  <2>12. QED
    BY <1>4, <2>1, <2>5, <2>7, <2>8, <2>10, <2>11 DEF ExitRecorded
<1>5. QED
  BY <1>3, <1>4 DEF ExitFilled

LEMMA WebhookWhole ==
  ASSUME LedgerWhole, NEW t \in TradeIds, Webhook(t)
  PROVE  LedgerWhole'
<1>1. ASSUME NEW ev, NEW side, NoSuchOrder(ev, side, t)
      PROVE  LedgerWhole'
  <2>1. UNCHANGED <<orders, positions, alerted, trades, used, eng, rec>> /\ hooks' \subseteq hooks
    BY <1>1, ReceivedHook DEF NoSuchOrder
  <2>2. QED
    BY <2>1, UntouchedWhole
<1>2. QED
  BY <1>1, WebhookCases, MarkedWhole, EntryFilledWhole, ExitFilledWhole DEF ExitRecorded

\* The reconciliation loop.
LEMMA ScanWhole ==
  ASSUME LedgerWhole, NEW S \in SUBSET Submitted, NEW lostO, NEW lostP, Scan(S, lostO, lostP)
  PROVE  LedgerWhole'
<1> DEFINE gone == GoneOf(S, lostO, lostP)
<1>1. PICK last \in used.orders..MaxOrders :
         \E id \in Injection(gone, (used.orders + 1)..last) :
            rec' = Plan(S, lostO, lostP, id) /\ used' = [used EXCEPT !.orders = last]
  BY DEF Scan
<1>2. PICK id \in [gone -> (used.orders + 1)..last] :
         rec' = Plan(S, lostO, lostP, id) /\ used' = [used EXCEPT !.orders = last]
  BY <1>1 DEF Injection
<1>3. UNCHANGED <<orders, positions, alerted, trades, hooks, eng>>
  BY DEF Scan
<1> HIDE DEF gone
<1>4. used \in [signals : 0..MaxSignals, orders : 0..MaxOrders, trades : 0..MaxTrades]
  BY DEF LedgerWhole, TypeOK
<1>5. /\ used' \in [signals : 0..MaxSignals, orders : 0..MaxOrders, trades : 0..MaxTrades]
      /\ used'.orders = last /\ used'.trades = used.trades
      /\ used.orders <= last
  BY <1>2, <1>4
<1>6. S \subseteq Orders /\ Orders \subseteq OrderIds
  BY DEF Submitted, Orders
<1>7. \A p \in gone : p \in PositionIds /\ EntryTrade(p) \in TradeIds
  <2>1. \A p \in gone : p \in Positions /\ EntryTrade(p) # 0
    BY DEF gone, GoneOf, LeftOf, OpenPositions, Positions
  <2>2. \A p \in Positions : p \in PositionIds /\ positions[p].entry \in OrderIds
    BY DEF LedgerWhole, PositionHasEntry, Positions, Orders
  <2>3. \A o \in OrderIds : orders[o].tid \in 0..MaxTrades
    BY DEF LedgerWhole, TypeOK, OrderRows
  <2>4. QED
    BY <2>1, <2>2, <2>3 DEF EntryTrade
<1>8. rec'.syn \subseteq [pos : PositionIds, tid : TradeIds, order : (used.orders + 1)..last]
  BY <1>2, <1>7 DEF Plan, NeedsPosition, Unresolved
<1>9. rec' \in [pc : {"idle", "commit"}, fill : SUBSET OrderIds, open : SUBSET OrderIds,
               own : SUBSET [pos : PositionIds, tid : TradeIds],
               syn : SUBSET [pos : PositionIds, tid : TradeIds, order : OrderIds],
               alert : SUBSET OrderIds]
  <2>1. rec'.syn \subseteq [pos : PositionIds, tid : TradeIds, order : OrderIds]
    BY <1>4, <1>8
  <2>2. EntriesOf(S, lostO) \subseteq OrderIds /\ ExitsOf(S, lostO) \subseteq OrderIds
    BY <1>6 DEF EntriesOf, ExitsOf
  <2>3. OwnOf(S, lostO) \subseteq [pos : PositionIds, tid : TradeIds]
    BY DEF OwnOf, Positions
  <2>4. {positions[p].entry : p \in LeftOf(S, lostO) \cap lostP} \subseteq OrderIds
    BY DEF LeftOf, OpenPositions, Positions, LedgerWhole, PositionHasEntry, Orders
  <2>5. rec'.alert \subseteq OrderIds
    BY <1>2, <1>6, <2>4 DEF Plan, NeedsPosition, Unresolved
  <2>6. QED
    BY <1>2, <2>1, <2>2, <2>3, <2>5 DEF Plan, NeedsPosition, Unresolved
<1>10. TypeOK'
  BY <1>3, <1>5, <1>9 DEF LedgerWhole, TypeOK
<1>11. FilledEntryHasPosition' /\ PositionHasEntry' /\ TradesKnown'
  BY <1>3, <1>5 DEF LedgerWhole, FilledEntryHasPosition, PositionHasEntry, TradesKnown,
                    Orders, Positions, EntryTrade
<1>12. Reserved'
  <2>1. \A c \in rec'.syn : c.order \in Nat /\ c.order > used.orders /\ c.order <= last
    BY <1>4, <1>8
  <2>2. Orders' = Orders
    BY <1>3 DEF Orders
  <2>3. QED
    <3>1. /\ \A o \in Orders : o <= used.orders
          /\ \A o \in Orders : o \in Nat
      <4>1. \A o \in Orders : o <= used.orders
        BY DEF LedgerWhole, Reserved
      <4>2. QED
        BY <1>6, <4>1
    <3>2. \A c \in rec'.syn : c.order \notin Orders /\ c.order <= last
      BY <1>4, <2>1, <3>1
    <3>3. eng.pc = "sent" => eng.order \in OrderIds \ Orders /\ eng.order <= used.orders
      BY DEF LedgerWhole, Reserved
    <3>4. \A c \in rec'.syn : eng.pc = "sent" => c.order # eng.order
      BY <1>4, <2>1, <3>3
    <3>5. \A o \in Orders : o <= last
      BY <1>4, <1>5, <3>1
    <3>6. eng.pc = "sent" => eng.order <= last
      BY <1>4, <1>5, <3>3
    <3>7. eng' = eng
      BY <1>3
    <3>8. QED
      BY <1>5, <2>2, <3>2, <3>3, <3>4, <3>5, <3>6, <3>7 DEF Reserved
<1>13. PassConsistent'
  <2>1. /\ rec'.fill = EntriesOf(S, lostO) \cup ExitsOf(S, lostO)
        /\ rec'.open = {o \in EntriesOf(S, lostO) : \A p \in Positions : positions[p].entry # o}
    BY <1>2 DEF Plan, NeedsPosition, Unresolved
  <2>2. \A o \in ExitsOf(S, lostO) : orders[o].side = "SELL"
    BY DEF ExitsOf, ExitConfirmed
  <2>3. \A o \in EntriesOf(S, lostO) : orders[o].side = "BUY" /\ orders[o].tid # 0
    BY DEF EntriesOf, EntryConfirmed
  <2>4. EntriesOf(S, lostO) \cup ExitsOf(S, lostO) \subseteq Orders
    BY <1>6 DEF EntriesOf, ExitsOf
  <2>5. Orders' = Orders /\ Positions' = Positions
    BY <1>3 DEF Orders, Positions
  <2>6. \A c \in rec'.own \cup rec'.syn : c.pos \in Positions
    BY <1>2 DEF Plan, NeedsPosition, Unresolved, OwnOf, gone, GoneOf, LeftOf, OpenPositions, Positions
  <2>7. QED
    BY <1>3, <2>1, <2>2, <2>3, <2>4, <2>5, <2>6 DEF PassConsistent
<1>14. QED
  BY <1>10, <1>11, <1>12, <1>13 DEF LedgerWhole

\* What the pass does to the rows that exist: fills orders, closes positions.
PassOrders ==
    /\ OrdersKept
    /\ \A o \in Orders : orders'[o].tid = orders[o].tid /\ orders'[o].side = orders[o].side
                         /\ orders'[o].status \in {orders[o].status, "FILLED"}
    /\ \A o \in Orders' \ Orders : \E c \in rec.syn :
          c.order = o /\ orders'[o] = SyntheticExit(positions[c.pos].pair, c.tid)
PassPosition(p) ==
    \/ positions'[p] = positions[p]
    \/ \E c \in rec.own :
          c.pos = p /\ positions'[p] = [positions[p] EXCEPT !.status = "CLOSED", !.pnl = c.tid]
    \/ \E c \in rec.syn :
          /\ c.pos = p
          /\ positions'[p] = [positions[p] EXCEPT !.status = "CLOSED", !.exit = c.order,
                                                  !.pnl = c.tid]

LEMMA ReconcileCommitWhole ==
  ASSUME LedgerWhole, ReconcileCommit
  PROVE  /\ LedgerWhole' /\ PassOrders /\ PositionsKept
         /\ \A p \in Positions : PassPosition(p)
         /\ \A p \in Positions' \ Positions : \E o \in rec.open : positions'[p] = NewPosition(o)
         /\ \A c \in rec.syn : c.order \in Orders' /\ c.order \notin Orders
                               /\ orders'[c.order].side = "SELL"
<1> DEFINE row == CHOOSE f \in Injection(rec.open, FreePositions) : TRUE
<1>1. row \in [rec.open -> FreePositions]
  BY DEF ReconcileCommit, Injection
<1>1a. \A o, x \in rec.open : row[o] = row[x] => o = x
  <2>1. IsInjective(row)
    BY DEF ReconcileCommit, Injection
  <2>2. QED
    BY <1>1, <2>1 DEF IsInjective
<1>2. /\ positions' = [p \in PositionIds |->
                         IF \E o \in rec.open : row[o] = p
                         THEN NewPosition(CHOOSE o \in rec.open : row[o] = p)
                         ELSE ReconciledPosition(p)]
      /\ orders' = [o \in OrderIds |-> ReconciledOrder(o)]
      /\ alerted' = alerted \cup rec.alert
      /\ rec' = NoPass
      /\ UNCHANGED <<trades, hooks, eng, used>>
  BY DEF ReconcileCommit
<1> HIDE DEF row
<1>3. /\ orders \in [OrderIds -> OrderRows] /\ positions \in [PositionIds -> PositionRows]
      /\ rec.syn \subseteq [pos : PositionIds, tid : TradeIds, order : OrderIds]
      /\ rec.own \subseteq [pos : PositionIds, tid : TradeIds]
      /\ alerted \subseteq OrderIds /\ rec.alert \subseteq OrderIds
      /\ trades \in [TradeIds -> TradeRows]
  BY DEF LedgerWhole, TypeOK
<1>4. /\ rec.fill \subseteq Orders /\ rec.open \subseteq rec.fill
      /\ \A o \in rec.open : orders[o].side = "BUY" /\ orders[o].tid # 0
      /\ \A c \in rec.syn : c.order \notin Orders /\ c.pos \in Positions
      /\ \A c \in rec.own : c.pos \in Positions
  BY DEF LedgerWhole, PassConsistent, Reserved

\* The orders of the pass.
<1>5. ASSUME NEW o \in OrderIds
      PROVE  /\ orders'[o] \in OrderRows
             /\ o \in Orders => /\ orders'[o] \in {orders[o], [orders[o] EXCEPT !.status = "FILLED"]}
                                /\ orders'[o] # orders[o] => o \in rec.fill
             /\ o \notin Orders => \/ orders'[o] = orders[o] /\ \A c \in rec.syn : c.order # o
                                   \/ /\ orders'[o].side = "SELL" /\ orders'[o].status = "FILLED"
                                      /\ \E c \in rec.syn : c.order = o
                                            /\ orders'[o] = SyntheticExit(positions[c.pos].pair, c.tid)
  <2>1. CASE o \in rec.fill
    <3>1. orders'[o] = [orders[o] EXCEPT !.status = "FILLED"] /\ orders[o] \in OrderRows
      BY <1>2, <1>3, <2>1 DEF ReconciledOrder
    <3>2. [orders[o] EXCEPT !.status = "FILLED"] \in OrderRows
      BY <3>1 DEF OrderRows
    <3>3. QED
      BY <1>4, <2>1, <3>1, <3>2
  <2>2. CASE o \notin rec.fill /\ \E c \in rec.syn : c.order = o
    <3>1. PICK c \in rec.syn : /\ c.order = o
                               /\ orders'[o] = SyntheticExit(positions[c.pos].pair, c.tid)
      BY <1>2, <2>2 DEF ReconciledOrder
    <3>2. positions[c.pos].pair \in Pairs \cup {NoPair} /\ c.tid \in 0..MaxTrades
      BY <1>3 DEF PositionRows
    <3>3. SyntheticExit(positions[c.pos].pair, c.tid) \in OrderRows
      BY <3>2 DEF SyntheticExit, OrderRows
    <3>4. o \notin Orders /\ orders'[o].side = "SELL" /\ orders'[o].status = "FILLED"
      BY <1>4, <3>1 DEF SyntheticExit
    <3>5. QED
      BY <3>1, <3>3, <3>4
  <2>3. CASE o \notin rec.fill /\ ~\E c \in rec.syn : c.order = o
    BY <1>2, <1>3, <2>3 DEF ReconciledOrder
  <2>4. QED
    BY <2>1, <2>2, <2>3
<1>6. Orders \subseteq Orders'
      /\ \A o \in Orders : /\ orders'[o].side = orders[o].side /\ orders'[o].pair = orders[o].pair
                           /\ orders'[o].tid = orders[o].tid
                           /\ orders'[o].status # orders[o].status =>
                                 o \in rec.fill /\ orders'[o].status = "FILLED"
  <2> SUFFICES ASSUME NEW o \in Orders
               PROVE  /\ o \in Orders'
                      /\ orders'[o].side = orders[o].side /\ orders'[o].pair = orders[o].pair
                      /\ orders'[o].tid = orders[o].tid
                      /\ orders'[o].status # orders[o].status =>
                            o \in rec.fill /\ orders'[o].status = "FILLED"
    OBVIOUS
  <2>1. o \in OrderIds /\ orders[o] \in OrderRows /\ orders[o].status # "NONE"
    BY <1>3 DEF Orders
  <2>2. CASE orders'[o] = orders[o]
    BY <2>1, <2>2 DEF Orders
  <2>3. CASE orders'[o] = [orders[o] EXCEPT !.status = "FILLED"] /\ o \in rec.fill
    BY <2>1, <2>3 DEF Orders, OrderRows
  <2>4. QED
    BY <1>5, <2>1, <2>2, <2>3
<1>7. OrdersKept
  BY <1>6 DEF OrdersKept
<1>8. OrdersAdded
  <2> SUFFICES ASSUME NEW o \in Orders' \ Orders
               PROVE  /\ o <= used'.orders
                      /\ eng'.pc = "sent" => o # eng'.order
                      /\ \A c \in rec'.syn : o # c.order
                      /\ orders'[o].side # "BUY"
    BY DEF OrdersAdded
  <2>1. o \in OrderIds /\ orders'[o] # orders[o]
    BY DEF Orders
  <2>2. PICK c \in rec.syn : c.order = o
    BY <1>5, <2>1
  <2>3. c.order <= used.orders /\ (eng.pc = "sent" => c.order # eng.order)
    BY DEF LedgerWhole, Reserved
  <2>4. orders'[o].side = "SELL"
    BY <1>5, <2>1
  <2>5. QED
    BY <1>2, <2>2, <2>3, <2>4 DEF NoPass

\* The positions of the pass.
<1>9. ASSUME NEW p \in PositionIds, p \notin FreePositions
      PROVE  /\ positions'[p] \in PositionRows /\ positions'[p].status # "NONE"
             /\ positions'[p].entry = positions[p].entry /\ positions'[p].pair = positions[p].pair
             /\ PassPosition(p)
  <2>1. positions'[p] = ReconciledPosition(p)
    BY <1>1, <1>2, <1>9
  <2>2. positions[p] \in PositionRows /\ positions[p].status # "NONE"
    BY <1>3, <1>9 DEF FreePositions, Positions
  <2>3. CASE \E c \in rec.own : c.pos = p
    <3>1. PICK c \in rec.own : c.pos = p /\
             positions'[p] = [positions[p] EXCEPT !.status = "CLOSED", !.pnl = c.tid]
      BY <2>1, <2>3 DEF ReconciledPosition
    <3>2. c.tid \in 0..MaxTrades
      BY <1>3
    <3>3. PassPosition(p)
      BY <3>1 DEF PassPosition
    <3>4. QED
      BY <2>2, <3>1, <3>2, <3>3 DEF PositionRows
  <2>4. CASE ~(\E c \in rec.own : c.pos = p) /\ \E c \in rec.syn : c.pos = p
    <3>1. PICK c \in rec.syn : c.pos = p /\
             positions'[p] = [positions[p] EXCEPT !.status = "CLOSED", !.exit = c.order,
                                                  !.pnl = c.tid]
      BY <2>1, <2>4 DEF ReconciledPosition
    <3>2. c.tid \in 0..MaxTrades /\ c.order \in 0..MaxOrders
      BY <1>3
    <3>3. PassPosition(p)
      BY <3>1 DEF PassPosition
    <3>4. QED
      BY <2>2, <3>1, <3>2, <3>3 DEF PositionRows
  <2>5. CASE ~(\E c \in rec.own : c.pos = p) /\ ~(\E c \in rec.syn : c.pos = p)
    BY <2>1, <2>2, <2>5 DEF ReconciledPosition, PassPosition
  <2>6. QED
    BY <2>3, <2>4, <2>5
<1>10. PositionsKept /\ Positions \subseteq Positions'
  BY <1>9 DEF PositionsKept, Positions, FreePositions
<1>11. ASSUME NEW p \in FreePositions
       PROVE  /\ positions'[p] \in PositionRows
              /\ \/ \E o \in rec.open : row[o] = p /\ positions'[p] = NewPosition(o)
                 \/ positions'[p].status = "NONE"
  <2>0. p \in PositionIds /\ positions[p] \in PositionRows /\ positions[p].status = "NONE"
    BY <1>3 DEF FreePositions, Positions
  <2>1. CASE \E o \in rec.open : row[o] = p
    <3>1. PICK o \in rec.open : row[o] = p /\ positions'[p] = NewPosition(o)
      BY <1>2, <2>0, <2>1
    <3>2. o \in OrderIds /\ orders[o] \in OrderRows
      BY <1>3, <1>4 DEF Orders
    <3>3. NewPosition(o) \in PositionRows
      BY <3>2 DEF NewPosition, OrderRows, PositionRows
    <3>4. QED
      BY <3>1, <3>3
  <2>2. CASE ~\E o \in rec.open : row[o] = p
    <3>1. positions'[p] = ReconciledPosition(p) /\ p \notin Positions
      BY <1>2, <2>0, <2>2 DEF Positions
    <3>2. positions'[p] = positions[p]
      BY <1>4, <3>1 DEF ReconciledPosition
    <3>3. QED
      BY <2>0, <3>2
  <2>3. QED
    BY <2>1, <2>2
<1>12. positions' \in [PositionIds -> PositionRows]
  <2>1. \A p \in PositionIds : positions'[p] \in PositionRows
    BY <1>9, <1>11
  <2>2. QED
    BY <1>2, <2>1
<1>13. orders' \in [OrderIds -> OrderRows]
  <2>1. \A o \in OrderIds : orders'[o] \in OrderRows
    BY <1>5
  <2>2. QED
    BY <1>2, <2>1
<1>14. rec' \in [pc : {"idle", "commit"}, fill : SUBSET OrderIds, open : SUBSET OrderIds,
                own : SUBSET [pos : PositionIds, tid : TradeIds],
                syn : SUBSET [pos : PositionIds, tid : TradeIds, order : OrderIds],
                alert : SUBSET OrderIds]
  BY <1>2 DEF NoPass
<1>15. TypeOK' /\ used.orders \in Nat
  <2>1. alerted' \subseteq OrderIds
    BY <1>2, <1>3
  <2>2. used.orders \in Nat
    BY DEF LedgerWhole, TypeOK
  <2>3. QED
    BY <1>2, <1>12, <1>13, <1>14, <2>1, <2>2 DEF LedgerWhole, TypeOK
<1>16. \A p \in Positions' \ Positions :
          \E o \in rec.open : row[o] = p /\ positions'[p] = NewPosition(o)
  BY <1>11 DEF Positions, FreePositions
<1>17. PositionsAdded
  <2>1. ASSUME NEW p \in Positions' \ Positions
        PROVE  /\ positions'[p].entry \in Orders
               /\ orders[positions'[p].entry].side = "BUY"
               /\ orders[positions'[p].entry].pair = positions'[p].pair
               /\ orders'[positions'[p].entry].tid # 0
    <3>1. PICK o \in rec.open : positions'[p] = NewPosition(o)
      BY <1>16
    <3>2. positions'[p].entry = o /\ positions'[p].pair = orders[o].pair
      BY <3>1 DEF NewPosition
    <3>3. QED
      BY <1>4, <1>6, <3>2
  <2>2. ASSUME NEW o \in Orders, orders[o].side = "BUY", orders'[o].status = "FILLED",
               orders[o].status # "FILLED"
        PROVE  \E p \in Positions' : positions'[p].entry = o
    <3>1. o \in rec.fill
      BY <1>6, <2>2
    <3>2. CASE \E p \in Positions : positions[p].entry = o
      BY <1>10, <3>2 DEF PositionsKept
    <3>3. CASE o \in rec.open
      <4>1. row[o] \in FreePositions
        BY <1>1, <3>3
      <4>2. row[o] \in PositionIds
        BY <4>1 DEF FreePositions
      <4>3. positions'[row[o]] = NewPosition(CHOOSE x \in rec.open : row[x] = row[o])
        BY <1>2, <3>3, <4>2
      <4>4. \A x \in rec.open : row[x] = row[o] => x = o
        BY <1>1a, <3>3
      <4>5. positions'[row[o]] = NewPosition(o)
        BY <3>3, <4>3, <4>4
      <4>6. row[o] \in Positions' /\ positions'[row[o]].entry = o
        BY <4>2, <4>5 DEF Positions, NewPosition
      <4>7. QED
        BY <4>6
    <3>4. QED
      BY <3>1, <3>2, <3>3, <2>2 DEF LedgerWhole, PassConsistent
  <2>3. QED
    BY <2>1, <2>2 DEF PositionsAdded
<1>18. LedgerWhole'
  BY <1>2, <1>7, <1>8, <1>10, <1>15, <1>17, WritesWhole
<1>19. PassOrders
  <2>1. ASSUME NEW o \in Orders' \ Orders
        PROVE  \E c \in rec.syn :
                 c.order = o /\ orders'[o] = SyntheticExit(positions[c.pos].pair, c.tid)
    BY <1>5 DEF Orders
  <2>2. QED
    BY <1>6, <1>7, <2>1 DEF PassOrders
<1>20. ASSUME NEW c \in rec.syn
       PROVE  c.order \in Orders' /\ c.order \notin Orders /\ orders'[c.order].side = "SELL"
  <2>1. c.order \in OrderIds /\ c.order \notin Orders
    BY <1>3, <1>4
  <2>2. QED
    BY <1>5, <2>1 DEF Orders
<1>21. \A p \in Positions : PassPosition(p)
  BY <1>9 DEF Positions, FreePositions
<1>22. QED
  BY <1>10, <1>16, <1>18, <1>19, <1>20, <1>21

-----------------------------------------------------------------------------
LEMMA NextWhole == LedgerWhole /\ [Next]_vars => LedgerWhole'
<1> SUFFICES ASSUME LedgerWhole, [Next]_vars
             PROVE  LedgerWhole'
  OBVIOUS
<1>1. ASSUME NEW t \in TradeIds, Exchange(t)
      PROVE  LedgerWhole'
  <2>1. CASE FillEntry(t)
    BY <2>1, FreqtradeWhole DEF FillEntry
  <2>2. CASE CancelEntry(t)
    BY <2>2, FreqtradeWhole DEF CancelEntry
  <2>3. CASE SafetyExit(t)
    BY <2>3, FreqtradeWhole DEF SafetyExit
  <2>4. CASE FillExit(t)
    BY <2>4, FreqtradeWhole DEF FillExit
  <2>5. CASE CancelExit(t)
    BY <2>5, FreqtradeWhole DEF CancelExit
  <2>6. QED
    BY <1>1, <2>1, <2>2, <2>3, <2>4, <2>5 DEF Exchange
<1>2. ASSUME NEW t \in TradeIds, Webhook(t)
      PROVE  LedgerWhole'
  BY <1>2, WebhookWhole
<1>3. ASSUME NEW h \in hooks, LoseHook(h)
      PROVE  LedgerWhole'
  BY <1>3, UntouchedWhole DEF LoseHook
<1>4. CASE Consumer
  <2>1. ASSUME NEW pair \in Pairs,
               EntryRefused(pair) \/ EntryAccepted(pair) \/ ExitSignal(pair)
        PROVE  LedgerWhole'
    BY <2>1, EntryRefusedWhole, EntryAcceptedWhole, ExitSignalWhole
  <2>2. CASE EngineCommit
    BY <2>2, EngineCommitWhole
  <2>3. CASE EngineAbort
    BY <2>3, UntouchedWhole DEF EngineAbort
  <2>4. QED
    BY <1>4, <2>1, <2>2, <2>3 DEF Consumer
<1>5. CASE Reconciler
  <2>1. CASE ReconcileScan
    <3>1. PICK newest \in 0..MaxOrders :
             \E lostO, lostP : Scan({o \in Submitted : o <= newest}, lostO, lostP)
      BY <2>1 DEF ReconcileScan
    <3>2. QED
      BY <3>1, ScanWhole
  <2>2. CASE ReconcileCommit
    BY <2>2, ReconcileCommitWhole
  <2>3. CASE ReconcileAbort
    BY <2>3, UntouchedWhole DEF ReconcileAbort
  <2>4. QED
    BY <1>5, <2>1, <2>2, <2>3 DEF Reconciler
<1>6. CASE UNCHANGED vars
  BY <1>6, UntouchedWhole DEF vars
<1>7. QED
  BY <1>1, <1>2, <1>3, <1>4, <1>5, <1>6 DEF Next

\* The ledger stays whole: the inductive invariant of order submission,
\* webhooks and reconciliation, whatever is lost, crashes or comes late.
THEOREM SpecLedgerWhole == Spec => []LedgerWhole
  BY InitWhole, NextWhole, PTL DEF Spec

\* Every table and every transaction in flight is well typed.
THEOREM SpecTypeOK == Spec => []TypeOK
<1>1. LedgerWhole => TypeOK
  BY DEF LedgerWhole
<1>2. QED
  BY <1>1, SpecLedgerWhole, PTL

\* A fill recorded by _handle_entry_fill or by _reconcile_open_entry always has
\* its position, in every interleaving of the two.
THEOREM SpecFilledEntryHasPosition == Spec => []FilledEntryHasPosition
<1>1. LedgerWhole => FilledEntryHasPosition
  BY DEF LedgerWhole
<1>2. QED
  BY <1>1, SpecLedgerWhole, PTL

\* Every position can be reached from Freqtrade through its entry order, which
\* names a trade of the position's own pair.
THEOREM SpecPositionHasEntry == Spec => []PositionHasEntry
<1>1. LedgerWhole => PositionHasEntry
  BY DEF LedgerWhole
<1>2. QED
  BY <1>1, SpecLedgerWhole, PTL

-----------------------------------------------------------------------------
(* Exit orders.  A position points at an order that exists, and an order   *)
(* that is new to the table is handed to one position.                     *)
ExitsDistinct ==
    /\ ExitOrderClosesOne
    /\ \A p \in Positions : positions[p].exit # 0 => positions[p].exit \in Orders
    /\ \A c, d \in rec.syn : c.order = d.order => c = d

LEMMA InitDistinct == Init => ExitsDistinct
  BY DEF Init, ExitsDistinct, ExitOrderClosesOne, Positions, NoPass

\* A position keeps its exit order or takes one that no other position has.
ExitsApart ==
    \A p \in Positions' :
        \/ p \in Positions /\ positions'[p].exit = positions[p].exit
        \/ positions'[p].exit = 0
        \/ /\ positions'[p].exit \in Orders'
           /\ \A q \in Positions' : positions'[q].exit = positions'[p].exit => q = p

LEMMA DistinctWrites ==
  ASSUME ExitsDistinct, Orders \subseteq Orders', ExitsApart, rec' \in {rec, NoPass}
  PROVE  ExitsDistinct'
<1>1. ASSUME NEW p \in Positions', NEW q \in Positions',
             positions'[p].exit # 0, positions'[p].exit = positions'[q].exit
      PROVE  p = q
  BY <1>1 DEF ExitsApart, ExitsDistinct, ExitOrderClosesOne
<1>2. \A p \in Positions' : positions'[p].exit # 0 => positions'[p].exit \in Orders'
  BY DEF ExitsApart, ExitsDistinct
<1>3. \A c, d \in rec'.syn : c.order = d.order => c = d
  BY DEF ExitsDistinct, NoPass
<1>4. QED
  BY <1>1, <1>2, <1>3 DEF ExitsDistinct, ExitOrderClosesOne

LEMMA DistinctUntouched ==
  ASSUME ExitsDistinct, UNCHANGED <<orders, positions>>, rec' \in {rec, NoPass}
  PROVE  ExitsDistinct'
  BY DistinctWrites DEF ExitsApart, Orders, Positions

LEMMA EngineCommitDistinct ==
  ASSUME LedgerWhole, ExitsDistinct, EngineCommit
  PROVE  ExitsDistinct'
<1>1. /\ eng.order \in OrderIds \ Orders /\ Orders' = Orders \cup {eng.order}
      /\ Positions' = Positions
  BY EngineCommitWhole
<1>2. positions \in [PositionIds -> PositionRows] /\ Positions \subseteq PositionIds /\ rec' = rec
  BY DEF EngineCommit, LedgerWhole, TypeOK, Positions
<1>3. CASE positions' = positions
  BY <1>1, <1>2, <1>3, DistinctWrites DEF ExitsApart
<1>4. CASE eng.pos # 0 /\ positions' = [positions EXCEPT ![eng.pos].exit = eng.order]
  <2>1. \A p \in Positions : /\ p # eng.pos => positions'[p].exit = positions[p].exit
                             /\ p = eng.pos => positions'[p].exit = eng.order
    BY <1>2, <1>4 DEF PositionRows
  <2>2. \A p \in Positions : positions[p].exit # eng.order
    BY <1>1 DEF ExitsDistinct
  <2>3. ExitsApart
    BY <1>1, <2>1, <2>2 DEF ExitsApart
  <2>4. QED
    BY <1>1, <1>2, <2>3, DistinctWrites
<1>5. QED
  BY <1>3, <1>4 DEF EngineCommit

LEMMA ExitFilledDistinct ==
  ASSUME LedgerWhole, ExitsDistinct, NEW t \in TradeIds, ExitFilled(t)
  PROVE  ExitsDistinct'
<1>1. PICK o \in OrderIds : ExitRecorded(o, t)
  BY ExitFilledWhole
<1>2. Orders' = Orders \cup {o} /\ Positions' = Positions /\ CloseWith(o, t) /\ rec' = rec
  BY <1>1 DEF ExitRecorded, ExitFilled, Received
<1>3. positions \in [PositionIds -> PositionRows] /\ Positions \subseteq PositionIds
  BY DEF LedgerWhole, TypeOK, Positions
<1>4. CASE positions' = positions
  BY <1>2, <1>4, DistinctWrites DEF ExitsApart
<1>5. ASSUME NEW q \in Positions,
             positions[q].exit = o \/ \A p \in Positions : positions[p].exit # o,
             positions' = [positions EXCEPT ![q].status = "CLOSED", ![q].exit = o, ![q].pnl = t]
      PROVE  ExitsDistinct'
  <2>1. \A p \in Positions : /\ p # q => positions'[p].exit = positions[p].exit
                             /\ p = q => positions'[p].exit = o
    BY <1>3, <1>5 DEF PositionRows
  <2>2. \A p \in Positions : positions[p].exit = o => p = q
    BY <1>5 DEF ExitsDistinct, ExitOrderClosesOne
  <2>3. ExitsApart
    BY <1>2, <2>1, <2>2 DEF ExitsApart
  <2>4. QED
    BY <1>2, <2>3, DistinctWrites
<1>6. QED
  BY <1>2, <1>4, <1>5 DEF CloseWith, OpenPositions, Positions

LEMMA ReconcileCommitDistinct ==
  ASSUME LedgerWhole, ExitsDistinct, ReconcileCommit
  PROVE  ExitsDistinct'
<1>1. /\ PassOrders /\ PositionsKept
      /\ \A p \in Positions : PassPosition(p)
      /\ \A p \in Positions' \ Positions : \E o \in rec.open : positions'[p] = NewPosition(o)
      /\ \A c \in rec.syn : c.order \in Orders' /\ c.order \notin Orders
  BY ReconcileCommitWhole
<1>2. Orders \subseteq Orders' /\ Positions \subseteq Positions'
  BY <1>1 DEF PassOrders, OrdersKept, PositionsKept
<1>3. ASSUME NEW p \in Positions' \ Positions
      PROVE  positions'[p].exit = 0
  <2>1. PICK o \in rec.open : positions'[p] = NewPosition(o)
    BY <1>1
  <2>2. QED
    BY <2>1 DEF NewPosition
<1>4. ASSUME NEW p \in Positions
      PROVE  \/ positions'[p].exit = positions[p].exit
             \/ \E c \in rec.syn : c.pos = p /\ positions'[p].exit = c.order
  <2>1. positions[p] \in PositionRows
    BY DEF LedgerWhole, TypeOK, Positions
  <2>2. QED
    BY <1>1, <2>1 DEF PassPosition, PositionRows
<1>5. ASSUME NEW p \in Positions, NEW c \in rec.syn, c.pos = p, positions'[p].exit = c.order,
             NEW q \in Positions', positions'[q].exit = c.order
      PROVE  q = p
  <2>1. c.order \notin Orders /\ c.order # 0
    BY <1>1 DEF LedgerWhole, TypeOK
  <2>2. q \in Positions /\ positions[q].exit # c.order
    BY <1>3, <1>5, <2>1 DEF ExitsDistinct
  <2>3. PICK d \in rec.syn : d.pos = q /\ d.order = c.order
    BY <1>4, <1>5, <2>2
  <2>4. QED
    BY <1>5, <2>3 DEF ExitsDistinct
<1>6. ExitsApart
  <2> SUFFICES ASSUME NEW p \in Positions'
               PROVE  \/ p \in Positions /\ positions'[p].exit = positions[p].exit
                      \/ positions'[p].exit = 0
                      \/ /\ positions'[p].exit \in Orders'
                         /\ \A q \in Positions' : positions'[q].exit = positions'[p].exit => q = p
    BY DEF ExitsApart
  <2>1. CASE p \in Positions /\ \E c \in rec.syn : c.pos = p /\ positions'[p].exit = c.order
    BY <1>1, <1>5, <2>1
  <2>2. QED
    BY <1>3, <1>4, <2>1
<1>7. rec' = NoPass
  BY DEF ReconcileCommit
<1>8. QED
  BY <1>2, <1>6, <1>7, DistinctWrites

LEMMA ScanDistinct ==
  ASSUME LedgerWhole, ExitsDistinct, NEW S \in SUBSET Submitted, NEW lostO, NEW lostP,
         Scan(S, lostO, lostP)
  PROVE  ExitsDistinct'
<1> DEFINE gone == GoneOf(S, lostO, lostP)
<1>1. PICK id, last : /\ id \in Injection(gone, (used.orders + 1)..last)
                      /\ rec' = Plan(S, lostO, lostP, id)
  BY DEF Scan
<1>2. id \in [gone -> (used.orders + 1)..last] /\ IsInjective(id)
  BY <1>1 DEF Injection
<1>3. \A p, q \in DOMAIN id : id[p] = id[q] => p = q
  BY <1>2 DEF IsInjective
<1>4. rec'.syn = {[pos |-> p, tid |-> EntryTrade(p), order |-> id[p]] : p \in DOMAIN id}
  BY <1>1 DEF Plan
<1>5. \A c, d \in rec'.syn : c.order = d.order => c = d
  BY <1>3, <1>4
<1>6. UNCHANGED <<orders, positions>>
  BY DEF Scan
<1>7. QED
  BY <1>5, <1>6 DEF ExitsDistinct, ExitOrderClosesOne, Orders, Positions

LEMMA NextDistinct ==
  ASSUME LedgerWhole, ExitsDistinct, [Next]_vars
  PROVE  ExitsDistinct'
<1>1. ASSUME NEW t \in TradeIds, Exchange(t)
      PROVE  ExitsDistinct'
  BY <1>1, DistinctUntouched DEF Exchange, FillEntry, CancelEntry, SafetyExit, FillExit, CancelExit,
                                 Freqtrade
<1>2. ASSUME NEW t \in TradeIds, Webhook(t)
      PROVE  ExitsDistinct'
  <2>1. ASSUME NEW ev, NEW side, NoSuchOrder(ev, side, t)
        PROVE  ExitsDistinct'
    BY <2>1, DistinctUntouched DEF NoSuchOrder, Received
  <2>2. ASSUME NEW ev, NEW side \in {"BUY", "SELL"}, MarkedOnly(ev, side, t)
        PROVE  ExitsDistinct'
    <3>1. Orders' = Orders /\ UNCHANGED <<positions, rec>>
      BY <2>2, MarkedWhole
    <3>2. QED
      BY <3>1, DistinctWrites DEF ExitsApart, Positions
  <2>3. CASE EntryFilled(t)
    <3>1. PICK o, p : /\ Positions' = Positions \cup {p} /\ positions'[p] = NewPosition(o)
                      /\ \A x \in Positions : positions'[x] = positions[x]
      BY <2>3, EntryFilledWhole
    <3>2. Orders' = Orders /\ rec' = rec
      BY <2>3, EntryFilledWhole
    <3>3. QED
      BY <3>1, <3>2, DistinctWrites DEF ExitsApart, NewPosition
  <2>4. QED
    BY <1>2, <2>1, <2>2, <2>3, WebhookCases, ExitFilledDistinct
<1>3. ASSUME NEW h \in hooks, LoseHook(h)
      PROVE  ExitsDistinct'
  BY <1>3, DistinctUntouched DEF LoseHook
<1>4. CASE Consumer
  <2>1. ASSUME NEW pair \in Pairs,
               EntryRefused(pair) \/ EntryAccepted(pair) \/ ExitSignal(pair)
        PROVE  ExitsDistinct'
    BY <2>1, DistinctUntouched DEF EntryRefused, EntryAccepted, ExitSignal, Called
  <2>2. CASE EngineCommit
    BY <2>2, EngineCommitDistinct
  <2>3. CASE EngineAbort
    BY <2>3, DistinctUntouched DEF EngineAbort
  <2>4. QED
    BY <1>4, <2>1, <2>2, <2>3 DEF Consumer
<1>5. CASE Reconciler
  <2>1. CASE ReconcileScan
    <3>1. PICK newest \in 0..MaxOrders :
             \E lostO, lostP : Scan({o \in Submitted : o <= newest}, lostO, lostP)
      BY <2>1 DEF ReconcileScan
    <3>2. QED
      BY <3>1, ScanDistinct
  <2>2. CASE ReconcileCommit
    BY <2>2, ReconcileCommitDistinct
  <2>3. CASE ReconcileAbort
    BY <2>3, DistinctUntouched DEF ReconcileAbort
  <2>4. QED
    BY <1>5, <2>1, <2>2, <2>3 DEF Reconciler
<1>6. CASE UNCHANGED vars
  BY <1>6, DistinctUntouched DEF vars
<1>7. QED
  BY <1>1, <1>2, <1>3, <1>4, <1>5, <1>6 DEF Next

\* No exit order closes two positions, whatever is lost, crashes or comes late:
\* _handle_exit_fill and _reconcile_closed_exit find one row or none.
THEOREM SpecExitOrderClosesOne == Spec => []ExitOrderClosesOne
<1>1. Init => LedgerWhole /\ ExitsDistinct
  BY InitWhole, InitDistinct
<1>2. (LedgerWhole /\ ExitsDistinct) /\ [Next]_vars => (LedgerWhole /\ ExitsDistinct)'
  BY NextWhole, NextDistinct
<1>3. ExitsDistinct => ExitOrderClosesOne
  BY DEF ExitsDistinct
<1>4. QED
  BY <1>1, <1>2, <1>3, PTL DEF Spec

-----------------------------------------------------------------------------
(* Exits.  CloseWith falls back on "any OPEN position of the pair", so the *)
(* ledger and Freqtrade agree on exits only as long as one trade of a pair *)
(* is in play: open at Freqtrade, behind an OPEN position, or the subject  *)
(* of a webhook or of a pass that is still to land.  Rule 7 and the order  *)
(* of events keep it so; a run that lets writes be overtaken does not.     *)
InPlay ==
    {t \in TradeIds : \/ IsOpen(t)
                      \/ \E h \in hooks : h.tid = t
                      \/ \E p \in OpenPositions : EntryTrade(p) = t
                      \/ \E o \in rec.open : orders[o].tid = t}
OneTradeInPlay == \A t, u \in InPlay : trades[t].pair = trades[u].pair => t = u

\* What is on its way tells the truth about its trade.
HooksTrue == \A h \in hooks : h.ev = "exit_fill" => trades[h.tid].state = "closed"
SellsNamed == \A o \in Orders : orders[o].side = "SELL" => orders[o].tid # 0
ExitCallOwn ==
    eng.pc = "sent" /\ eng.pos # 0 => eng.pos \in Positions /\ eng.tid = EntryTrade(eng.pos)
PassOwn ==
    \A c \in rec.own \cup rec.syn : c.tid = EntryTrade(c.pos) /\ trades[c.tid].state = "closed"

OwnTrades ==
    /\ OneTradeInPlay /\ HooksTrue /\ SellsNamed /\ ExitCallOwn /\ PassOwn
    /\ ClosedWhenGone /\ ExitOfOwnTrade

LEMMA InitOwn == Init => OwnTrades
  BY DEF Init, OwnTrades, OneTradeInPlay, InPlay, IsOpen, OpenPositions, HooksTrue, SellsNamed,
         ExitCallOwn, PassOwn, ClosedWhenGone, ExitOfOwnTrade, Quiet, NoPass, Orders, Positions

\* The trade of a position is a trade Freqtrade gave out for its pair ...
LEMMA EntryTradeKnown ==
  ASSUME LedgerWhole, NEW p \in Positions
  PROVE  /\ EntryTrade(p) \in TradeIds /\ EntryTrade(p) <= used.trades
         /\ trades[EntryTrade(p)].pair = positions[p].pair
<1>1. PICK o \in Orders : o = positions[p].entry
  BY DEF LedgerWhole, PositionHasEntry
<1>2. /\ orders[o].side = "BUY" /\ orders[o].tid # 0
      /\ trades[orders[o].tid].pair = positions[p].pair
  BY <1>1 DEF LedgerWhole, PositionHasEntry, EntryTrade
<1>3. orders[o].tid <= used.trades
  BY <1>2 DEF LedgerWhole, TradesKnown
<1>4. orders \in [OrderIds -> OrderRows] /\ o \in OrderIds
  BY DEF LedgerWhole, TypeOK, Orders
<1>5. orders[o] \in OrderRows
  BY <1>4
<1>6. orders[o].tid \in TradeIds
  BY <1>2, <1>5 DEF OrderRows, TradeIds
<1>7. QED
  BY <1>1, <1>2, <1>3, <1>6 DEF EntryTrade

\* ... and stays what it is.
LEMMA EntryTradeKept ==
  ASSUME LedgerWhole, OrdersKept, PositionsKept, NEW p \in Positions
  PROVE  /\ p \in Positions' /\ positions'[p].entry \in Orders
         /\ orders'[positions'[p].entry].tid = EntryTrade(p)
  BY DEF LedgerWhole, PositionHasEntry, OrdersKept, PositionsKept, EntryTrade

\* The steps that leave the tables alone.
LEMMA OwnCalls ==
  ASSUME LedgerWhole, OwnTrades, UNCHANGED <<orders, positions>>, rec' \in {rec, NoPass},
         OneTradeInPlay', ExitCallOwn',
         \A x \in TradeIds : trades[x].state = "closed" => trades'[x].state = "closed",
         \A h \in hooks' : h.ev = "exit_fill" => h \in hooks \/ trades'[h.tid].state = "closed"
  PROVE  OwnTrades'
<1>1. /\ Orders' = Orders /\ Positions' = Positions
      /\ \A p : EntryTrade(p)' = EntryTrade(p)
  BY DEF Orders, Positions, EntryTrade
<1>2. HooksTrue'
  <2>1. \A h \in hooks : h.tid \in TradeIds
    BY DEF LedgerWhole, TypeOK, Hooks
  <2>2. QED
    BY <2>1 DEF OwnTrades, HooksTrue
<1>3. SellsNamed'
  BY <1>1 DEF OwnTrades, SellsNamed
<1>4. PassOwn'
  <2>1. \A c \in rec.own \cup rec.syn : c.tid \in TradeIds
    BY DEF LedgerWhole, TypeOK
  <2>2. rec'.own \subseteq rec.own /\ rec'.syn \subseteq rec.syn
    BY DEF NoPass
  <2>3. QED
    BY <1>1, <2>1, <2>2 DEF OwnTrades, PassOwn
<1>5. ClosedWhenGone'
  BY <1>1, EntryTradeKnown DEF OwnTrades, ClosedWhenGone
<1>6. ExitOfOwnTrade'
  BY <1>1 DEF OwnTrades, ExitOfOwnTrade
<1>7. QED
  BY <1>2, <1>3, <1>4, <1>5, <1>6 DEF OwnTrades

LEMMA SmallerPlay ==
  ASSUME OneTradeInPlay, InPlay' \subseteq InPlay,
         \A x \in TradeIds : trades'[x].pair = trades[x].pair
  PROVE  OneTradeInPlay'
<1>1. InPlay \subseteq TradeIds
  BY DEF InPlay
<1>2. QED
  BY <1>1 DEF OneTradeInPlay

LEMMA FreqtradeOwn ==
  ASSUME LedgerWhole, OwnTrades, NEW t \in TradeIds, NEW from \in {"pending", "open", "closing"},
         NEW to \in {"open", "deleted", "closing", "closed"},
         NEW events \in SUBSET {"entry_fill", "entry_cancel", "exit_fill", "exit_cancel"},
         "exit_fill" \in events => to = "closed", Freqtrade(t, from, to, events)
  PROVE  OwnTrades'
<1>1. /\ trades[t].state = from /\ trades' = [trades EXCEPT ![t].state = to]
      /\ hooks' = hooks \cup {[ev |-> e, tid |-> t] : e \in events}
      /\ UNCHANGED <<orders, positions, eng, rec>>
  BY DEF Freqtrade
<1>2. trades \in [TradeIds -> TradeRows]
  BY DEF LedgerWhole, TypeOK
<1>3. \A x \in TradeIds : /\ trades'[x].pair = trades[x].pair
                          /\ x # t => trades'[x].state = trades[x].state
                          /\ x = t => trades'[x].state = to
  BY <1>1, <1>2 DEF TradeRows
<1>4. IsOpen(t)
  BY <1>1 DEF IsOpen
<1>5. InPlay' \subseteq InPlay
  <2> SUFFICES ASSUME NEW x \in InPlay', x # t
               PROVE  x \in InPlay
    BY <1>4 DEF InPlay
  <2>1. IsOpen(x)' => IsOpen(x)
    BY <1>3 DEF IsOpen, InPlay
  <2>2. (\E h \in hooks' : h.tid = x) => \E h \in hooks : h.tid = x
    BY <1>1
  <2>3. QED
    BY <1>1, <2>1, <2>2 DEF InPlay, OpenPositions, EntryTrade
<1>6. OneTradeInPlay'
  BY <1>3, <1>5, SmallerPlay DEF OwnTrades
<1>7. ExitCallOwn'
  BY <1>1 DEF OwnTrades, ExitCallOwn, Positions, EntryTrade
<1>8. \A x \in TradeIds : trades[x].state = "closed" => trades'[x].state = "closed"
  BY <1>1, <1>3
<1>9. \A h \in hooks' : h.ev = "exit_fill" => h \in hooks \/ trades'[h.tid].state = "closed"
  BY <1>1, <1>3
<1>10. QED
  BY <1>1, <1>6, <1>7, <1>8, <1>9, OwnCalls

\* Rule 7, Freqtrade's own refusal and the order of events together admit an
\* entry only when nothing of its pair is in play.
LEMMA EntryAcceptedOwn ==
  ASSUME "overtaken" \notin Faults, LedgerWhole, OwnTrades, NEW pair \in Pairs, EntryAccepted(pair)
  PROVE  OwnTrades'
<1> DEFINE t == used.trades + 1
<1>1. PICK reply \in [tid : {0, t}, ok : BOOLEAN, state : {"pending", "closing", "deleted"}] :
        /\ trades' = [trades EXCEPT ![t] =
                        [pair |-> pair, state |-> reply.state, by |-> used.orders + 1]]
        /\ Called(pair, reply.tid, reply.ok, 0, 1)
  BY DEF EntryAccepted
<1>2. /\ t \in TradeIds /\ trades \in [TradeIds -> TradeRows] /\ used.trades \in Nat
      /\ \A x \in TradeIds : IsOpen(x) => trades[x].pair # pair
      /\ pair \notin {positions[p].pair : p \in OpenPositions} /\ ~InFlight(pair)
  BY DEF EntryAccepted, MayEnter, LedgerWhole, TypeOK
<1>3. UNCHANGED <<orders, positions, hooks, rec>> /\ eng'.pos = 0
  BY <1>1 DEF Called
<1>4. /\ trades'[t].pair = pair
      /\ \A x \in TradeIds : x # t => trades'[x] = trades[x]
  BY <1>1, <1>2
<1>5. trades[t].state = "none"
  BY <1>2 DEF LedgerWhole, TradesKnown
<1>6. ASSUME NEW x \in InPlay
      PROVE  x # t /\ x \in TradeIds /\ trades[x].pair # pair
  <2>1. CASE IsOpen(x)
    BY <1>2, <1>5, <2>1 DEF InPlay, IsOpen
  <2>2. ASSUME NEW h \in hooks, h.tid = x
        PROVE  x # t /\ trades[x].pair # pair
    BY <1>2, <2>2 DEF InFlight, LedgerWhole, TradesKnown
  <2>3. ASSUME NEW p \in OpenPositions, EntryTrade(p) = x
        PROVE  x # t /\ trades[x].pair # pair
    <3>1. p \in Positions
      BY DEF OpenPositions, Positions
    <3>2. x <= used.trades /\ trades[x].pair = positions[p].pair
      BY <2>3, <3>1, EntryTradeKnown
    <3>3. QED
      BY <1>2, <2>3, <3>2
  <2>4. ASSUME NEW o \in rec.open, orders[o].tid = x
        PROVE  x # t /\ trades[x].pair # pair
    <3>1. o \in rec.fill /\ o \in Orders /\ orders[o].side = "BUY" /\ orders[o].tid # 0
      BY DEF LedgerWhole, PassConsistent
    <3>2. x <= used.trades /\ trades[x].pair = orders[o].pair
      BY <2>4, <3>1 DEF LedgerWhole, TradesKnown
    <3>3. QED
      BY <1>2, <3>1, <3>2 DEF InFlight
  <2>5. QED
    BY <2>1, <2>2, <2>3, <2>4 DEF InPlay
<1>7. ASSUME NEW x \in InPlay'
      PROVE  x = t \/ x \in InPlay
  <2>1. x \in TradeIds /\ (x # t /\ IsOpen(x)' => IsOpen(x))
    BY <1>4 DEF InPlay, IsOpen
  <2>2. QED
    BY <1>3, <2>1 DEF InPlay, OpenPositions, EntryTrade
<1>8. OneTradeInPlay'
  <2> SUFFICES ASSUME NEW x \in InPlay', NEW u \in InPlay', trades'[x].pair = trades'[u].pair
               PROVE  x = u
    BY DEF OneTradeInPlay
  <2>1. CASE x \in InPlay /\ u \in InPlay
    BY <1>4, <1>6, <2>1 DEF OwnTrades, OneTradeInPlay
  <2>2. CASE x = t /\ u \in InPlay
    BY <1>4, <1>6, <2>2
  <2>3. CASE u = t /\ x \in InPlay
    BY <1>4, <1>6, <2>3
  <2>4. QED
    BY <1>7, <2>1, <2>2, <2>3
<1>9. ExitCallOwn'
  BY <1>3 DEF ExitCallOwn
<1>10. \A x \in TradeIds : trades[x].state = "closed" => trades'[x].state = "closed"
  BY <1>4, <1>5
<1>11. QED
  BY <1>3, <1>8, <1>9, <1>10, OwnCalls

LEMMA ConsumerOwn ==
  ASSUME LedgerWhole, OwnTrades, NEW pair \in Pairs, EntryRefused(pair) \/ ExitSignal(pair)
  PROVE  OwnTrades'
<1>1. CASE EntryRefused(pair)
  <2>1. UNCHANGED <<orders, positions, trades, hooks, rec>> /\ eng'.pos = 0
    BY <1>1 DEF EntryRefused, Called
  <2>2. InPlay' = InPlay
    BY <2>1 DEF InPlay, IsOpen, OpenPositions, EntryTrade
  <2>3. OneTradeInPlay' /\ ExitCallOwn'
    BY <2>1, <2>2, SmallerPlay DEF OwnTrades, ExitCallOwn
  <2>4. QED
    BY <2>1, <2>3, OwnCalls
<1>2. CASE ExitSignal(pair)
  <2>1. PICK p \in OpenPositions : \E ok \in BOOLEAN :
          /\ EntryTrade(p) # 0
          /\ Called(pair, EntryTrade(p), ok, p, 0)
          /\ trades' \in {trades, [trades EXCEPT ![EntryTrade(p)].state = "closing"]}
          /\ trades' # trades => IsOpen(EntryTrade(p))
    BY <1>2 DEF ExitSignal
  <2>2. /\ UNCHANGED <<orders, positions, hooks, rec>>
        /\ eng'.pos = p /\ eng'.tid = EntryTrade(p) /\ p \in Positions
    BY <2>1 DEF Called, OpenPositions, Positions
  <2>3. trades \in [TradeIds -> TradeRows] /\ EntryTrade(p) \in TradeIds
    BY <2>2, EntryTradeKnown DEF LedgerWhole, TypeOK
  <2>4. \A x \in TradeIds :
           /\ trades'[x].pair = trades[x].pair
           /\ trades'[x].state # trades[x].state => IsOpen(x)
           /\ trades[x].state = "closed" => trades'[x].state = "closed"
    <3>1. CASE trades' = trades
      BY <3>1
    <3>2. CASE trades' = [trades EXCEPT ![EntryTrade(p)].state = "closing"] /\ IsOpen(EntryTrade(p))
      BY <2>3, <3>2 DEF TradeRows, IsOpen
    <3>3. QED
      BY <2>1, <3>1, <3>2
  <2>5. InPlay' \subseteq InPlay
    BY <2>2, <2>4 DEF InPlay, IsOpen, OpenPositions, EntryTrade
  <2>6. OneTradeInPlay'
    BY <2>4, <2>5, SmallerPlay DEF OwnTrades
  <2>7. ExitCallOwn'
    BY <2>2 DEF ExitCallOwn, Positions, EntryTrade
  <2>8. QED
    BY <2>2, <2>4, <2>6, <2>7, OwnCalls
<1>3. QED
  BY <1>1, <1>2

\* The steps that end a transaction without a write.
LEMMA UntouchedOwn ==
  ASSUME LedgerWhole, OwnTrades, UNCHANGED <<orders, positions, trades>>,
         hooks' \subseteq hooks, eng' \in {eng, Quiet}, rec' \in {rec, NoPass}
  PROVE  OwnTrades'
<1>1. rec'.open \subseteq rec.open
  BY DEF NoPass
<1>2. InPlay' \subseteq InPlay
  BY <1>1 DEF InPlay, IsOpen, OpenPositions, EntryTrade
<1>3. OneTradeInPlay'
  BY <1>2, SmallerPlay DEF OwnTrades
<1>4. ExitCallOwn'
  BY DEF OwnTrades, ExitCallOwn, Quiet, Positions, EntryTrade
<1>5. QED
  BY <1>3, <1>4, OwnCalls

\* A pass reads the trade of each position it is about to close, and finds it
\* closed.
LEMMA ScanOwn ==
  ASSUME LedgerWhole, OwnTrades, NEW S \in SUBSET Submitted, NEW lostO, NEW lostP,
         Scan(S, lostO, lostP)
  PROVE  OwnTrades'
<1> DEFINE gone == GoneOf(S, lostO, lostP)
<1>1. PICK id, last : /\ id \in Injection(gone, (used.orders + 1)..last)
                      /\ rec' = Plan(S, lostO, lostP, id)
  BY DEF Scan
<1>2. DOMAIN id = gone
  BY <1>1 DEF Injection
<1>3. UNCHANGED <<orders, positions, trades, hooks, eng>>
  BY DEF Scan
<1> HIDE DEF gone
<1>4. /\ Orders' = Orders /\ Positions' = Positions /\ OpenPositions' = OpenPositions
      /\ \A p : EntryTrade(p)' = EntryTrade(p)
      /\ \A x : IsOpen(x)' <=> IsOpen(x)
  BY <1>3 DEF Orders, Positions, OpenPositions, EntryTrade, IsOpen
<1>5. \A o \in rec'.open : IsOpen(orders[o].tid)
  BY <1>1 DEF Plan, EntriesOf, EntryConfirmed, IsOpen
<1>6. InPlay' \subseteq InPlay
  BY <1>3, <1>4, <1>5 DEF InPlay
<1>7. OneTradeInPlay'
  BY <1>3, <1>6, SmallerPlay DEF OwnTrades
<1>8. PassOwn'
  <2>1. ASSUME NEW c \in rec'.own
        PROVE  c.tid = EntryTrade(c.pos) /\ trades[c.tid].state = "closed"
    <3>1. /\ c.pos \in Positions /\ positions[c.pos].exit \in ExitsOf(S, lostO)
          /\ c.tid = orders[positions[c.pos].exit].tid
      BY <1>1 DEF Plan, OwnOf
    <3>2. positions[c.pos].exit # 0 /\ trades[c.tid].state = "closed"
      BY <3>1 DEF ExitsOf, ExitConfirmed, Submitted
    <3>3. QED
      BY <3>1, <3>2 DEF OwnTrades, ExitOfOwnTrade
  <2>2. ASSUME NEW c \in rec'.syn
        PROVE  c.tid = EntryTrade(c.pos) /\ trades[c.tid].state = "closed"
    <3>1. c.pos \in gone /\ c.tid = EntryTrade(c.pos)
      BY <1>1, <1>2 DEF Plan
    <3>2. QED
      BY <3>1 DEF gone, GoneOf
  <2>3. QED
    BY <1>3, <1>4, <2>1, <2>2 DEF PassOwn
<1>9. HooksTrue' /\ SellsNamed' /\ ExitCallOwn' /\ ClosedWhenGone' /\ ExitOfOwnTrade'
  BY <1>3, <1>4 DEF OwnTrades, HooksTrue, SellsNamed, ExitCallOwn, ClosedWhenGone, ExitOfOwnTrade
<1>10. QED
  BY <1>7, <1>8, <1>9 DEF OwnTrades

\* What the transactions that write the tables have in common here: a position
\* that changes is closed with its own, closed trade, or gets an exit order of
\* its own trade; a new one belongs to a trade in play.
ClosedWithOwn(p) ==
    \/ positions'[p].status = positions[p].status /\ positions'[p].pnl = positions[p].pnl
    \/ /\ positions'[p].status = "CLOSED" /\ positions'[p].pnl = EntryTrade(p)
       /\ trades[EntryTrade(p)].state = "closed"
ExitedWithOwn(p) ==
    \/ positions'[p].exit = positions[p].exit
    \/ /\ positions'[p].exit \in Orders' /\ orders'[positions'[p].exit].side = "SELL"
       /\ orders'[positions'[p].exit].tid = EntryTrade(p)
FreshPositions ==
    \A p \in Positions' \ Positions :
        /\ positions'[p].status = "OPEN" /\ positions'[p].exit = 0
        /\ orders'[positions'[p].entry].tid \in InPlay

LEMMA OwnWrites ==
  ASSUME LedgerWhole, OwnTrades, OrdersKept, PositionsKept, trades' = trades, hooks' \subseteq hooks,
         eng' \in {eng, Quiet}, rec' \in {rec, NoPass},
         \A o \in Orders' \ Orders : orders'[o].side = "SELL" => orders'[o].tid # 0,
         \A p \in Positions : ClosedWithOwn(p) /\ ExitedWithOwn(p),
         FreshPositions
  PROVE  OwnTrades'
<1>1. \A p \in Positions : /\ p \in Positions' /\ EntryTrade(p)' = EntryTrade(p)
                           /\ EntryTrade(p) \in TradeIds
  BY EntryTradeKept, EntryTradeKnown DEF EntryTrade
<1>2. InPlay' \subseteq InPlay
  <2> SUFFICES ASSUME NEW t \in InPlay'
               PROVE  t \in InPlay
    OBVIOUS
  <2>0. t \in TradeIds /\ (IsOpen(t)' => IsOpen(t))
    BY DEF InPlay, IsOpen
  <2>1. ASSUME NEW p \in OpenPositions', EntryTrade(p)' = t
        PROVE  t \in InPlay
    <3>1. p \in Positions' /\ positions'[p].status = "OPEN" /\ p \in PositionIds
      BY DEF OpenPositions, Positions
    <3>2. CASE p \in Positions
      <4>1. positions[p].status = "OPEN"
        BY <3>1, <3>2 DEF ClosedWithOwn
      <4>2. QED
        BY <1>1, <2>0, <2>1, <3>1, <3>2, <4>1 DEF InPlay, OpenPositions
    <3>3. CASE p \notin Positions
      BY <2>1, <3>1, <3>3 DEF FreshPositions, EntryTrade
    <3>4. QED
      BY <3>2, <3>3
  <2>2. ASSUME NEW o \in rec'.open, orders'[o].tid = t
        PROVE  t \in InPlay
    <3>1. o \in rec.open
      BY DEF NoPass
    <3>2. o \in Orders /\ orders[o].tid # 0
      BY <3>1 DEF LedgerWhole, PassConsistent
    <3>3. orders[o].tid = t
      BY <2>2, <3>2 DEF OrdersKept
    <3>4. QED
      BY <2>0, <3>1, <3>3 DEF InPlay
  <2>3. QED
    BY <2>0, <2>1, <2>2 DEF InPlay
<1>3. OneTradeInPlay'
  BY <1>2, SmallerPlay DEF OwnTrades
<1>4. HooksTrue'
  BY DEF OwnTrades, HooksTrue
<1>5. SellsNamed'
  <2>1. ASSUME NEW o \in Orders, orders'[o].side = "SELL"
        PROVE  orders'[o].tid # 0
    BY <2>1 DEF OwnTrades, SellsNamed, OrdersKept
  <2>2. QED
    BY <2>1 DEF SellsNamed
<1>6. ExitCallOwn'
  BY <1>1 DEF OwnTrades, ExitCallOwn, Quiet
<1>7. PassOwn'
  <2>1. rec'.own \subseteq rec.own /\ rec'.syn \subseteq rec.syn
    BY DEF NoPass
  <2>2. \A c \in rec.own \cup rec.syn : c.pos \in Positions
    BY DEF LedgerWhole, PassConsistent
  <2>3. QED
    BY <1>1, <2>1, <2>2 DEF OwnTrades, PassOwn
<1>8. ClosedWhenGone'
  <2>1. ASSUME NEW p \in Positions', positions'[p].status = "CLOSED"
        PROVE  trades'[EntryTrade(p)'].state = "closed"
    <3>1. p \in Positions
      BY <2>1 DEF FreshPositions
    <3>2. QED
      BY <1>1, <2>1, <3>1 DEF ClosedWithOwn, OwnTrades, ClosedWhenGone
  <2>2. QED
    BY <2>1 DEF ClosedWhenGone
<1>9. ExitOfOwnTrade'
  <2>1. ASSUME NEW p \in Positions', positions'[p].status = "CLOSED"
        PROVE  positions'[p].pnl = EntryTrade(p)'
    <3>1. p \in Positions
      BY <2>1 DEF FreshPositions
    <3>2. QED
      BY <1>1, <2>1, <3>1 DEF ClosedWithOwn, OwnTrades, ExitOfOwnTrade
  <2>2. ASSUME NEW p \in Positions', positions'[p].exit # 0
        PROVE  LET e == positions'[p].exit
               IN  e \in Orders' /\ orders'[e].side = "SELL" /\ orders'[e].tid = EntryTrade(p)'
    <3>1. p \in Positions
      BY <2>2 DEF FreshPositions
    <3>2. CASE positions'[p].exit = positions[p].exit
      <4>1. LET e == positions[p].exit
            IN  e \in Orders /\ orders[e].side = "SELL" /\ orders[e].tid = EntryTrade(p)
        BY <2>2, <3>1, <3>2 DEF OwnTrades, ExitOfOwnTrade
      <4>2. EntryTrade(p) # 0
        BY <1>1, <3>1
      <4>3. QED
        BY <1>1, <3>1, <3>2, <4>1, <4>2 DEF OrdersKept
    <3>3. QED
      BY <1>1, <3>1, <3>2 DEF ExitedWithOwn
  <2>3. QED
    BY <2>1, <2>2 DEF ExitOfOwnTrade
<1>10. QED
  BY <1>3, <1>4, <1>5, <1>6, <1>7, <1>8, <1>9 DEF OwnTrades

LEMMA EngineCommitOwn ==
  ASSUME LedgerWhole, OwnTrades, EngineCommit
  PROVE  OwnTrades'
<1>1. /\ OrdersKept /\ PositionsKept
      /\ Orders' = Orders \cup {eng.order} /\ Positions' = Positions
      /\ orders'[eng.order].side = (IF eng.pos = 0 THEN "BUY" ELSE "SELL")
      /\ orders'[eng.order].tid = eng.tid
  BY EngineCommitWhole
<1>2. /\ UNCHANGED <<trades, hooks, rec>> /\ eng' = Quiet
      /\ eng.pos # 0 => eng.pos \in Positions /\ eng.tid = EntryTrade(eng.pos)
  BY DEF EngineCommit, OwnTrades, ExitCallOwn
<1>3. eng.pos # 0 => eng.tid # 0
  BY <1>2, EntryTradeKnown
<1>4. ASSUME NEW p \in Positions
      PROVE  ClosedWithOwn(p) /\ ExitedWithOwn(p)
  <2>1. positions \in [PositionIds -> PositionRows] /\ p \in PositionIds
    BY DEF LedgerWhole, TypeOK, Positions
  <2>2. CASE positions' = positions
    BY <2>2 DEF ClosedWithOwn, ExitedWithOwn
  <2>3. CASE eng.pos # 0 /\ positions' = [positions EXCEPT ![eng.pos].exit = eng.order]
    <3>1. /\ positions'[p].status = positions[p].status /\ positions'[p].pnl = positions[p].pnl
          /\ p # eng.pos => positions'[p].exit = positions[p].exit
          /\ p = eng.pos => positions'[p].exit = eng.order
      BY <2>1, <2>3 DEF PositionRows
    <3>2. QED
      BY <1>1, <1>2, <2>3, <3>1 DEF ClosedWithOwn, ExitedWithOwn
  <2>4. QED
    BY <2>2, <2>3 DEF EngineCommit
<1>5. FreshPositions
  BY <1>1 DEF FreshPositions
<1>6. QED
  BY <1>1, <1>2, <1>3, <1>4, <1>5, OwnWrites

\* The webhook names a trade in play.
LEMMA HookInPlay ==
  ASSUME LedgerWhole, NEW t \in TradeIds, NEW ev, Received(ev, t)
  PROVE  t \in InPlay
  BY DEF Received, InPlay

LEMMA MarkedOwn ==
  ASSUME LedgerWhole, OwnTrades, NEW t \in TradeIds, NEW ev, NEW side \in {"BUY", "SELL"},
         MarkedOnly(ev, side, t)
  PROVE  OwnTrades'
<1>1. /\ OrdersKept /\ PositionsKept /\ Orders' = Orders /\ hooks' \subseteq hooks
      /\ UNCHANGED <<positions, trades, eng, rec>>
  BY MarkedWhole
<1>2. /\ \A p \in Positions : ClosedWithOwn(p) /\ ExitedWithOwn(p)
      /\ FreshPositions
  BY <1>1 DEF ClosedWithOwn, ExitedWithOwn, FreshPositions, Positions
<1>3. QED
  BY <1>1, <1>2, OwnWrites

LEMMA EntryFilledOwn ==
  ASSUME LedgerWhole, OwnTrades, NEW t \in TradeIds, EntryFilled(t)
  PROVE  OwnTrades'
<1>1. /\ OrdersKept /\ PositionsKept /\ Orders' = Orders /\ hooks' \subseteq hooks
      /\ UNCHANGED <<trades, eng, rec>>
  BY EntryFilledWhole
<1>2. PICK o \in FindOrder(t, "BUY"), p \in PositionIds \ Positions :
         /\ orders'[o].tid = t
         /\ Positions' = Positions \cup {p} /\ positions'[p] = NewPosition(o)
         /\ \A x \in Positions : positions'[x] = positions[x]
  BY EntryFilledWhole
<1>3. t \in InPlay
  BY HookInPlay DEF EntryFilled
<1>4. FreshPositions
  BY <1>2, <1>3 DEF FreshPositions, NewPosition
<1>5. \A x \in Positions : ClosedWithOwn(x) /\ ExitedWithOwn(x)
  BY <1>2 DEF ClosedWithOwn, ExitedWithOwn
<1>6. QED
  BY <1>1, <1>4, <1>5, OwnWrites

\* The position an exit fill closes is that of the trade it reports, also when
\* it is taken for being OPEN and of the pair.
LEMMA ExitFilledOwn ==
  ASSUME LedgerWhole, OwnTrades, NEW t \in TradeIds, ExitFilled(t)
  PROVE  OwnTrades'
<1>1. PICK o \in OrderIds : ExitRecorded(o, t)
  BY ExitFilledWhole
<1>2. /\ OrdersKept /\ PositionsKept /\ Positions' = Positions /\ CloseWith(o, t)
      /\ Orders' = Orders \cup {o} /\ orders'[o].side = "SELL" /\ orders'[o].tid = t
      /\ o \in FindOrder(t, "SELL") \/ o \notin Orders
  BY <1>1 DEF ExitRecorded
<1>3. /\ Received("exit_fill", t) /\ hooks' \subseteq hooks /\ UNCHANGED <<trades, eng, rec>>
  BY DEF ExitFilled, Received
<1>4. t \in InPlay /\ trades[t].state = "closed"
  BY <1>3, HookInPlay DEF Received, OwnTrades, HooksTrue
<1>5. o \in Orders => orders[o].tid = t
  BY <1>2, Found DEF OwnTrades, SellsNamed
<1>6. ASSUME NEW p \in Positions,
             \/ positions[p].exit = o
             \/ positions[p].status = "OPEN" /\ positions[p].pair = trades[t].pair
      PROVE  EntryTrade(p) = t
  <2>1. CASE positions[p].exit = o
    BY <1>5, <2>1 DEF OwnTrades, ExitOfOwnTrade
  <2>2. CASE positions[p].status = "OPEN" /\ positions[p].pair = trades[t].pair
    <3>1. EntryTrade(p) \in InPlay /\ trades[EntryTrade(p)].pair = trades[t].pair
      BY <2>2, EntryTradeKnown DEF InPlay, OpenPositions, Positions
    <3>2. QED
      BY <1>4, <3>1 DEF OwnTrades, OneTradeInPlay
  <2>3. QED
    BY <1>6, <2>1, <2>2
<1>7. ASSUME NEW p \in Positions
      PROVE  ClosedWithOwn(p) /\ ExitedWithOwn(p)
  <2>1. positions \in [PositionIds -> PositionRows] /\ p \in PositionIds
    BY DEF LedgerWhole, TypeOK, Positions
  <2>2. CASE positions' = positions
    BY <2>2 DEF ClosedWithOwn, ExitedWithOwn
  <2>3. ASSUME NEW q \in Positions,
               \/ positions[q].exit = o
               \/ positions[q].status = "OPEN" /\ positions[q].pair = trades[t].pair,
               positions' = [positions EXCEPT ![q].status = "CLOSED", ![q].exit = o, ![q].pnl = t]
        PROVE  ClosedWithOwn(p) /\ ExitedWithOwn(p)
    <3>1. /\ p # q => positions'[p] = positions[p]
          /\ p = q => /\ positions'[p].status = "CLOSED" /\ positions'[p].exit = o
                      /\ positions'[p].pnl = t
      BY <2>1, <2>3 DEF PositionRows
    <3>2. EntryTrade(q) = t
      BY <1>6, <2>3
    <3>3. QED
      BY <1>2, <1>4, <3>1, <3>2 DEF ClosedWithOwn, ExitedWithOwn
  <2>4. QED
    BY <1>2, <2>2, <2>3 DEF CloseWith, OpenPositions, Positions
<1>8. FreshPositions
  BY <1>2 DEF FreshPositions
<1>9. QED
  BY <1>2, <1>3, <1>7, <1>8, OwnWrites

LEMMA ReconcileCommitOwn ==
  ASSUME LedgerWhole, ExitsDistinct, OwnTrades, ReconcileCommit
  PROVE  OwnTrades'
<1>1. /\ PassOrders /\ OrdersKept /\ PositionsKept
      /\ \A p \in Positions : PassPosition(p)
      /\ \A p \in Positions' \ Positions : \E o \in rec.open : positions'[p] = NewPosition(o)
      /\ \A c \in rec.syn : c.order \in Orders' /\ c.order \notin Orders
  BY ReconcileCommitWhole DEF PassOrders
<1>2. UNCHANGED <<trades, hooks, eng>> /\ rec' = NoPass
  BY DEF ReconcileCommit
<1>3. \A c \in rec.own \cup rec.syn : /\ c.pos \in Positions /\ c.tid = EntryTrade(c.pos)
                                      /\ trades[c.tid].state = "closed" /\ c.tid # 0
  BY EntryTradeKnown DEF OwnTrades, PassOwn, LedgerWhole, PassConsistent
<1>4. FreshPositions
  <2> SUFFICES ASSUME NEW p \in Positions' \ Positions
               PROVE  /\ positions'[p].status = "OPEN" /\ positions'[p].exit = 0
                      /\ orders'[positions'[p].entry].tid \in InPlay
    BY DEF FreshPositions
  <2>1. PICK o \in rec.open : positions'[p] = NewPosition(o)
    BY <1>1
  <2>2. /\ o \in Orders /\ orders[o].tid # 0 /\ orders'[o].tid = orders[o].tid
        /\ orders[o].tid \in TradeIds
    BY <1>1 DEF LedgerWhole, PassConsistent, PassOrders, TypeOK, OrderRows, Orders
  <2>3. QED
    BY <2>1, <2>2 DEF NewPosition, InPlay
<1>5. ASSUME NEW o \in Orders' \ Orders
      PROVE  orders'[o].side = "SELL" /\ \E c \in rec.syn : c.order = o /\ orders'[o].tid = c.tid
  <2>1. PICK c \in rec.syn : c.order = o /\ orders'[o] = SyntheticExit(positions[c.pos].pair, c.tid)
    BY <1>1 DEF PassOrders
  <2>2. QED
    BY <2>1 DEF SyntheticExit
<1>6. \A o \in Orders' \ Orders : orders'[o].side = "SELL" => orders'[o].tid # 0
  BY <1>3, <1>5
<1>7. ASSUME NEW p \in Positions
      PROVE  ClosedWithOwn(p) /\ ExitedWithOwn(p)
  <2>1. positions[p] \in PositionRows
    BY DEF LedgerWhole, TypeOK, Positions
  <2>2. CASE positions'[p] = positions[p]
    BY <2>2 DEF ClosedWithOwn, ExitedWithOwn
  <2>3. ASSUME NEW c \in rec.own, c.pos = p,
               positions'[p] = [positions[p] EXCEPT !.status = "CLOSED", !.pnl = c.tid]
        PROVE  ClosedWithOwn(p) /\ ExitedWithOwn(p)
    <3>1. /\ positions'[p].status = "CLOSED" /\ positions'[p].pnl = c.tid
          /\ positions'[p].exit = positions[p].exit
      BY <2>1, <2>3 DEF PositionRows
    <3>2. QED
      BY <1>3, <2>3, <3>1 DEF ClosedWithOwn, ExitedWithOwn
  <2>4. ASSUME NEW c \in rec.syn, c.pos = p,
               positions'[p] = [positions[p] EXCEPT !.status = "CLOSED", !.exit = c.order,
                                                    !.pnl = c.tid]
        PROVE  ClosedWithOwn(p) /\ ExitedWithOwn(p)
    <3>1. /\ positions'[p].status = "CLOSED" /\ positions'[p].pnl = c.tid
          /\ positions'[p].exit = c.order
      BY <2>1, <2>4 DEF PositionRows
    <3>2. /\ c.order \in Orders' /\ orders'[c.order].side = "SELL"
          /\ orders'[c.order].tid = EntryTrade(p)
      BY <1>1, <1>3, <1>5, <2>4 DEF ExitsDistinct
    <3>3. QED
      BY <1>3, <2>4, <3>1, <3>2 DEF ClosedWithOwn, ExitedWithOwn
  <2>5. QED
    BY <1>1, <2>2, <2>3, <2>4 DEF PassPosition
<1>8. QED
  BY <1>1, <1>2, <1>4, <1>6, <1>7, OwnWrites

LEMMA NextOwn ==
  ASSUME "overtaken" \notin Faults, LedgerWhole, ExitsDistinct, OwnTrades, [Next]_vars
  PROVE  OwnTrades'
<1>1. ASSUME NEW t \in TradeIds, Exchange(t)
      PROVE  OwnTrades'
  BY <1>1, FreqtradeOwn DEF Exchange, FillEntry, CancelEntry, SafetyExit, FillExit, CancelExit
<1>2. ASSUME NEW t \in TradeIds, Webhook(t)
      PROVE  OwnTrades'
  <2>1. ASSUME NEW ev, NEW side, NoSuchOrder(ev, side, t)
        PROVE  OwnTrades'
    <3>1. UNCHANGED <<orders, positions, trades, eng, rec>> /\ hooks' \subseteq hooks
      BY <2>1 DEF NoSuchOrder, Received
    <3>2. QED
      BY <3>1, UntouchedOwn
  <2>2. QED
    BY <1>2, <2>1, WebhookCases, MarkedOwn, EntryFilledOwn, ExitFilledOwn
<1>3. ASSUME NEW h \in hooks, LoseHook(h)
      PROVE  OwnTrades'
  BY <1>3, UntouchedOwn DEF LoseHook
<1>4. CASE Consumer
  <2>1. CASE EngineCommit
    BY <2>1, EngineCommitOwn
  <2>2. CASE EngineAbort
    BY <2>2, UntouchedOwn DEF EngineAbort
  <2>3. QED
    BY <1>4, <2>1, <2>2, EntryAcceptedOwn, ConsumerOwn DEF Consumer
<1>5. CASE Reconciler
  <2>1. CASE ReconcileScan
    <3>1. PICK newest \in 0..MaxOrders :
             \E lostO, lostP : Scan({o \in Submitted : o <= newest}, lostO, lostP)
      BY <2>1 DEF ReconcileScan
    <3>2. QED
      BY <3>1, ScanOwn
  <2>2. CASE ReconcileCommit
    BY <2>2, ReconcileCommitOwn
  <2>3. CASE ReconcileAbort
    BY <2>3, UntouchedOwn DEF ReconcileAbort
  <2>4. QED
    BY <1>5, <2>1, <2>2, <2>3 DEF Reconciler
<1>6. CASE UNCHANGED vars
  BY <1>6, UntouchedOwn DEF vars
<1>7. QED
  BY <1>1, <1>2, <1>3, <1>4, <1>5, <1>6 DEF Next

\* A position is CLOSED only when its own trade is, unless writes are overtaken.
THEOREM SpecClosedWhenGone ==
  ASSUME "overtaken" \notin Faults
  PROVE  Spec => []ClosedWhenGone
<1>1. Init => LedgerWhole /\ ExitsDistinct /\ OwnTrades
  BY InitWhole, InitDistinct, InitOwn
<1>2. (LedgerWhole /\ ExitsDistinct /\ OwnTrades) /\ [Next]_vars
        => (LedgerWhole /\ ExitsDistinct /\ OwnTrades)'
  BY NextWhole, NextDistinct, NextOwn
<1>3. OwnTrades => ClosedWhenGone
  BY DEF OwnTrades
<1>4. QED
  BY <1>1, <1>2, <1>3, PTL DEF Spec

\* A CLOSED position carries the profit of its own trade, and its exit order
\* names that trade, unless writes are overtaken.
THEOREM SpecExitOfOwnTrade ==
  ASSUME "overtaken" \notin Faults
  PROVE  Spec => []ExitOfOwnTrade
<1>1. Init => LedgerWhole /\ ExitsDistinct /\ OwnTrades
  BY InitWhole, InitDistinct, InitOwn
<1>2. (LedgerWhole /\ ExitsDistinct /\ OwnTrades) /\ [Next]_vars
        => (LedgerWhole /\ ExitsDistinct /\ OwnTrades)'
  BY NextWhole, NextDistinct, NextOwn
<1>3. OwnTrades => ExitOfOwnTrade
  BY DEF OwnTrades
<1>4. QED
  BY <1>1, <1>2, <1>3, PTL DEF Spec

-----------------------------------------------------------------------------
(* Back-filled trade ids.  While Freqtrade holds a trade, or a webhook of  *)
(* it is to come, no younger entry of its pair waits: the order whose      *)
(* forceenter opened it is the latest one that _find_order can fall back   *)
(* on, as soon as the consumer has committed it.                           *)
Alive == {t \in TradeIds : IsOpen(t) \/ \E h \in hooks : h.tid = t}

HomeOf(t) ==
    LET own == trades[t].by IN
    /\ own \in OrderIds /\ own <= used.orders
    /\ own \in Orders => /\ orders[own].side = "BUY" /\ orders[own].pair = trades[t].pair
                         /\ orders[own].tid \in {0, t}
    /\ \A o \in Submitted : orders[o].side = "BUY" /\ orders[o].pair = trades[t].pair => o <= own
    /\ eng.pc = "sent" /\ eng.order = own =>
            eng.pos = 0 /\ eng.pair = trades[t].pair /\ eng.tid \in {0, t}
    /\ eng.pc = "sent" /\ eng.pos = 0 /\ eng.ok /\ eng.pair = trades[t].pair => eng.order = own
    /\ \A c \in rec.syn : c.order # own

Home == \A t \in Alive : HomeOf(t)

LEMMA InitHome == Init => Home
  BY DEF Init, Home, Alive, IsOpen

\* Trade ids given by a step to orders without one belong to a living trade.
TidsOfAlive ==
    \A o \in Orders : \/ orders'[o].tid = orders[o].tid
                      \/ \E t \in Alive : orders'[o].tid = t /\ trades[t].pair = orders[o].pair

\* The steps that open no trade and commit no entry.
LEMMA HomeKept ==
  ASSUME LedgerWhole, OwnTrades, Home, Alive' \subseteq Alive,
         \A t \in TradeIds : trades'[t].pair = trades[t].pair /\ trades'[t].by = trades[t].by,
         used'.orders \in Nat, used'.orders >= used.orders, eng' \in {eng, Quiet},
         OrdersKept, TidsOfAlive,
         \A o \in Orders : orders'[o].status = "SUBMITTED" => orders[o].status = "SUBMITTED",
         \A o \in Orders' \ Orders : /\ orders'[o].side = "SELL"
                                     /\ o > used.orders \/ \E c \in rec.syn : c.order = o,
         \A c \in rec'.syn : c \in rec.syn \/ c.order > used.orders
  PROVE  Home'
<1> SUFFICES ASSUME NEW t \in Alive'
             PROVE  HomeOf(t)'
  BY DEF Home
<1> DEFINE own == trades[t].by
<1>1. t \in Alive /\ t \in TradeIds /\ trades'[t].pair = trades[t].pair /\ trades'[t].by = own
  BY DEF Alive
<1>2. HomeOf(t)
  BY <1>1 DEF Home
<1>3. used.orders \in Nat
  BY DEF LedgerWhole, TypeOK
<1>4. own \in OrderIds /\ own \in Nat /\ own <= used.orders /\ own <= used'.orders
  BY <1>2, <1>3 DEF HomeOf
<1>5. own \in Orders' => own \in Orders
  BY <1>2, <1>3, <1>4 DEF HomeOf
<1>6. ASSUME own \in Orders'
      PROVE  /\ orders'[own].side = "BUY" /\ orders'[own].pair = trades[t].pair
             /\ orders'[own].tid \in {0, t}
  <2>1. /\ own \in Orders /\ orders[own].side = "BUY" /\ orders[own].pair = trades[t].pair
        /\ orders[own].tid \in {0, t}
    BY <1>2, <1>5, <1>6 DEF HomeOf
  <2>2. orders'[own].side = "BUY" /\ orders'[own].pair = trades[t].pair
    BY <2>1 DEF OrdersKept
  <2>3. ASSUME NEW u \in Alive, orders'[own].tid = u, trades[u].pair = orders[own].pair
        PROVE  u = t
    <3>1. u \in InPlay /\ t \in InPlay
      BY <1>1 DEF Alive, InPlay
    <3>2. QED
      BY <2>1, <2>3, <3>1 DEF OwnTrades, OneTradeInPlay
  <2>4. orders'[own].tid \in {0, t}
    BY <2>1, <2>3 DEF TidsOfAlive
  <2>5. QED
    BY <2>2, <2>4
<1>7. ASSUME NEW o \in Submitted', orders'[o].side = "BUY", orders'[o].pair = trades[t].pair
      PROVE  o <= own
  <2>1. o \in Orders' /\ o \in OrderIds /\ orders'[o].status = "SUBMITTED"
    BY DEF Submitted, Orders
  <2>2. o \in Orders
    BY <1>7, <2>1
  <2>3. o \in Submitted /\ orders[o].side = "BUY" /\ orders[o].pair = trades[t].pair
    BY <1>7, <2>1, <2>2 DEF OrdersKept, Submitted
  <2>4. QED
    BY <1>2, <2>3 DEF HomeOf
<1>8. /\ eng'.pc = "sent" /\ eng'.order = own =>
            eng'.pos = 0 /\ eng'.pair = trades[t].pair /\ eng'.tid \in {0, t}
      /\ eng'.pc = "sent" /\ eng'.pos = 0 /\ eng'.ok /\ eng'.pair = trades[t].pair
            => eng'.order = own
  BY <1>2 DEF HomeOf, Quiet
<1>9. \A c \in rec'.syn : c.order # own
  <2>1. \A c \in rec'.syn : c.order > used.orders => c.order # own
    BY <1>3, <1>4
  <2>2. QED
    BY <1>2, <2>1 DEF HomeOf
<1> HIDE DEF own
<1>10. QED
  BY <1>1, <1>4, <1>6, <1>7, <1>8, <1>9 DEF HomeOf

\* The steps that leave the orders alone as well.
LEMMA HomeUntouched ==
  ASSUME LedgerWhole, OwnTrades, Home, orders' = orders, Alive' \subseteq Alive,
         \A t \in TradeIds : trades'[t].pair = trades[t].pair /\ trades'[t].by = trades[t].by,
         used'.orders \in Nat, used'.orders >= used.orders, eng' \in {eng, Quiet},
         \A c \in rec'.syn : c \in rec.syn \/ c.order > used.orders
  PROVE  Home'
<1>1. Orders' = Orders /\ OrdersKept /\ TidsOfAlive
  BY DEF Orders, OrdersKept, TidsOfAlive
<1>2. QED
  BY <1>1, HomeKept

\* The consumer's calls: an entry finds nothing of its pair alive.
LEMMA CalledHome ==
  ASSUME LedgerWhole, Home, NewSignal, NEW pair, NEW tid, NEW ok, NEW pos, NEW opened,
         Called(pair, tid, ok, pos, opened), Alive' \subseteq Alive,
         \A t \in TradeIds : trades'[t].pair = trades[t].pair /\ trades'[t].by = trades[t].by,
         ok => pos # 0
  PROVE  Home'
<1> SUFFICES ASSUME NEW t \in Alive'
             PROVE  HomeOf(t)'
  BY DEF Home
<1>1. t \in Alive /\ trades'[t].pair = trades[t].pair /\ trades'[t].by = trades[t].by
  BY DEF Alive
<1>2. HomeOf(t) /\ used.orders \in Nat
  BY <1>1 DEF Home, LedgerWhole, TypeOK
<1>3. /\ orders' = orders /\ rec' = rec /\ Orders' = Orders /\ Submitted' = Submitted
      /\ eng' = [pc |-> "sent", order |-> used.orders + 1, pair |-> pair,
                 tid |-> tid, ok |-> ok, pos |-> pos]
  BY DEF Called, Orders, Submitted
<1>4. used'.orders = used.orders + 1
  BY DEF Called, LedgerWhole, TypeOK
<1>5. trades[t].by \in Nat /\ trades[t].by <= used.orders /\ trades[t].by # used.orders + 1
  BY <1>2 DEF HomeOf
<1>6. eng'.order # trades[t].by
  BY <1>3, <1>5
<1>7. ~(eng'.pos = 0 /\ eng'.ok)
  BY <1>3
<1>8. QED
  BY <1>1, <1>2, <1>3, <1>4, <1>5, <1>6, <1>7 DEF HomeOf

LEMMA EntryAcceptedHome ==
  ASSUME "overtaken" \notin Faults, LedgerWhole, Home, NEW pair \in Pairs, EntryAccepted(pair)
  PROVE  Home'
<1>0. PICK t, n : t = used.trades + 1 /\ n = used.orders + 1
  OBVIOUS
<1>1. PICK reply \in [tid : {0, t}, ok : BOOLEAN, state : {"pending", "closing", "deleted"}] :
        /\ trades' = [trades EXCEPT ![t] = [pair |-> pair, state |-> reply.state, by |-> n]]
        /\ Called(pair, reply.tid, reply.ok, 0, 1)
  BY <1>0 DEF EntryAccepted
<1>2. /\ t \in TradeIds /\ trades \in [TradeIds -> TradeRows] /\ used.orders \in Nat
      /\ \A x \in TradeIds : IsOpen(x) => trades[x].pair # pair
      /\ ~InFlight(pair) /\ n \in OrderIds
  BY <1>0 DEF EntryAccepted, MayEnter, NewSignal, LedgerWhole, TypeOK
<1>3. /\ orders' = orders /\ rec' = rec /\ hooks' = hooks
      /\ Orders' = Orders /\ Submitted' = Submitted
      /\ eng' = [pc |-> "sent", order |-> n, pair |-> pair,
                 tid |-> reply.tid, ok |-> reply.ok, pos |-> 0]
  BY <1>0, <1>1 DEF Called, Orders, Submitted
<1>4. used'.orders = n
  BY <1>0, <1>1 DEF Called, LedgerWhole, TypeOK
<1>4a. /\ eng'.pc = "sent" /\ eng'.order = n /\ eng'.pair = pair
       /\ eng'.tid = reply.tid /\ eng'.pos = 0
  BY <1>3
<1>5. /\ trades'[t].pair = pair /\ trades'[t].by = n
      /\ \A x \in TradeIds : x # t => trades'[x] = trades[x]
  BY <1>1, <1>2
<1>6. /\ \A o \in Orders : o \in Nat /\ o <= used.orders
      /\ \A c \in rec.syn : c.order \in Nat /\ c.order <= used.orders
  BY DEF LedgerWhole, Reserved, Orders, TypeOK
<1>7. HomeOf(t)'
  <2>1. n \notin Orders /\ \A c \in rec.syn : c.order # n
    BY <1>0, <1>2, <1>6
  <2>2. \A o \in Submitted : o <= n
    <3>1. \A o \in Submitted : o \in Orders
      BY DEF Submitted, Orders
    <3>2. QED
      BY <1>0, <1>2, <1>6, <3>1
  <2>3. reply.tid \in {0, t} /\ n <= n
    BY <1>2
  <2>4. QED
    BY <1>2, <1>3, <1>4, <1>4a, <1>5, <2>1, <2>2, <2>3 DEF HomeOf
<1>8. ASSUME NEW x \in Alive', x # t
      PROVE  HomeOf(x)'
  <2>1. x \in TradeIds /\ trades'[x] = trades[x]
    BY <1>5, <1>8 DEF Alive
  <2>2. x \in Alive
    BY <1>3, <2>1 DEF Alive, IsOpen
  <2>3. trades[x].pair # pair
    BY <1>2, <2>2 DEF Alive, InFlight
  <2>4. HomeOf(x)
    BY <2>2 DEF Home
  <2>5. trades[x].by \in Nat /\ trades[x].by <= n /\ trades[x].by # n
    BY <1>0, <1>2, <2>4 DEF HomeOf
  <2>6. trades[x].by <= used'.orders
    BY <1>4, <2>5
  <2>7. QED
    BY <1>3, <1>4a, <2>1, <2>3, <2>4, <2>5, <2>6 DEF HomeOf
<1>9. QED
  BY <1>7, <1>8 DEF Home

LEMMA ConsumerHome ==
  ASSUME LedgerWhole, Home, NEW pair \in Pairs, EntryRefused(pair) \/ ExitSignal(pair)
  PROVE  Home'
<1>1. CASE EntryRefused(pair)
  <2>1. NewSignal /\ Called(pair, 0, FALSE, 0, 0) /\ trades' = trades
    BY <1>1 DEF EntryRefused, MayEnter
  <2>2. Alive' = Alive
    BY <2>1 DEF Called, Alive, IsOpen
  <2>3. QED
    BY <2>1, <2>2, CalledHome
<1>2. CASE ExitSignal(pair)
  <2>1. PICK p \in OpenPositions : \E ok \in BOOLEAN :
          /\ Called(pair, EntryTrade(p), ok, p, 0)
          /\ trades' \in {trades, [trades EXCEPT ![EntryTrade(p)].state = "closing"]}
          /\ trades' # trades => IsOpen(EntryTrade(p))
    BY <1>2 DEF ExitSignal
  <2>2. NewSignal /\ p # 0 /\ hooks' = hooks
    BY <1>2, <2>1 DEF ExitSignal, OpenPositions, Called
  <2>3. trades \in [TradeIds -> TradeRows] /\ EntryTrade(p) \in TradeIds
    BY EntryTradeKnown DEF LedgerWhole, TypeOK, OpenPositions, Positions
  <2>4. \A x \in TradeIds :
           /\ trades'[x].pair = trades[x].pair /\ trades'[x].by = trades[x].by
           /\ trades'[x].state # trades[x].state => IsOpen(x)
    <3>1. CASE trades' = trades
      BY <3>1
    <3>2. CASE trades' = [trades EXCEPT ![EntryTrade(p)].state = "closing"] /\ IsOpen(EntryTrade(p))
      BY <2>3, <3>2 DEF TradeRows, IsOpen
    <3>3. QED
      BY <2>1, <3>1, <3>2
  <2>5. Alive' \subseteq Alive
    BY <2>2, <2>4 DEF Alive, IsOpen
  <2>6. QED
    BY <2>1, <2>2, <2>4, <2>5, CalledHome
<1>3. QED
  BY <1>1, <1>2

LEMMA EngineCommitHome ==
  ASSUME LedgerWhole, Home, EngineCommit
  PROVE  Home'
<1>1. /\ eng.order \in OrderIds \ Orders /\ Orders' = Orders \cup {eng.order}
      /\ orders'[eng.order].side = (IF eng.pos = 0 THEN "BUY" ELSE "SELL")
      /\ orders'[eng.order].pair = eng.pair
      /\ orders'[eng.order].tid = eng.tid
      /\ orders'[eng.order].status = (IF eng.ok THEN "SUBMITTED" ELSE "FAILED")
      /\ \A o \in Orders : orders'[o] = orders[o]
  BY EngineCommitWhole
<1>2. eng.pc = "sent" /\ eng' = Quiet /\ UNCHANGED <<trades, hooks, rec, used>>
  BY DEF EngineCommit
<1> SUFFICES ASSUME NEW t \in Alive'
             PROVE  HomeOf(t)'
  BY DEF Home
<1>3. t \in Alive /\ HomeOf(t)
  BY <1>2 DEF Alive, IsOpen, Home
<1> DEFINE own == trades[t].by
<1>4. own \in Orders' => /\ orders'[own].side = "BUY" /\ orders'[own].pair = trades[t].pair
                         /\ orders'[own].tid \in {0, t}
  BY <1>1, <1>2, <1>3 DEF HomeOf
<1>5. ASSUME NEW o \in Submitted', orders'[o].side = "BUY", orders'[o].pair = trades[t].pair
      PROVE  o <= own
  <2>1. o \in Orders' /\ orders'[o].status = "SUBMITTED" /\ o \in OrderIds
    BY DEF Submitted, Orders
  <2>2. CASE o \in Orders
    <3>1. o \in Submitted /\ orders[o].side = "BUY" /\ orders[o].pair = trades[t].pair
      BY <1>1, <1>5, <2>1, <2>2 DEF Submitted
    <3>2. QED
      BY <1>3, <3>1 DEF HomeOf
  <2>3. CASE o = eng.order
    <3>1. eng.pos = 0 /\ eng.ok /\ eng.pair = trades[t].pair
      BY <1>1, <1>5, <2>1, <2>3
    <3>2. o = own
      BY <1>2, <1>3, <2>3, <3>1 DEF HomeOf
    <3>3. QED
      BY <2>1, <3>2
  <2>4. QED
    BY <1>1, <2>1, <2>2, <2>3
<1>6. eng'.pc # "sent"
  BY <1>2 DEF Quiet
<1>7. QED
  BY <1>2, <1>3, <1>4, <1>5, <1>6 DEF HomeOf

\* What a webhook does to the orders: it writes the one that _find_order found,
\* or adds a SELL order, and never makes one SUBMITTED again.
Noted(t) ==
    /\ OrdersKept
    /\ \A o \in Orders : orders'[o].status = "SUBMITTED" => orders[o].status = "SUBMITTED"
    /\ \A o \in Orders : orders'[o].tid # orders[o].tid =>
          orders'[o].tid = t /\ \E side \in {"BUY", "SELL"} : o \in FindOrder(t, side)
    /\ \A o \in Orders' \ Orders : orders'[o].side = "SELL" /\ o > used.orders

LEMMA WebhookNoted ==
  ASSUME LedgerWhole, NEW t \in TradeIds, Webhook(t)
  PROVE  /\ Noted(t) /\ t \in Alive /\ hooks' \subseteq hooks /\ UNCHANGED <<trades, eng, rec>>
         /\ used'.orders \in Nat /\ used'.orders >= used.orders
<1>1. ASSUME NEW ev, Received(ev, t)
      PROVE  t \in Alive /\ hooks' \subseteq hooks /\ UNCHANGED <<trades, eng, rec>>
  BY <1>1 DEF Received, Alive
<1>2. used.orders \in Nat
  BY DEF LedgerWhole, TypeOK
<1>3. ASSUME NEW ev, NEW side, NoSuchOrder(ev, side, t)
      PROVE  Noted(t) /\ used' = used
  BY <1>3 DEF NoSuchOrder, Noted, OrdersKept, Orders
<1>4. ASSUME NEW ev, NEW side \in {"BUY", "SELL"}, MarkedOnly(ev, side, t)
      PROVE  Noted(t) /\ used' = used
  <2>1. OrdersKept /\ Orders' = Orders /\ used' = used
    BY <1>4, MarkedWhole
  <2>2. PICK o \in FindOrder(t, side) :
           /\ orders'[o].tid = t /\ orders'[o].status \in {"CANCELLED", orders[o].status}
           /\ \A x \in Orders : x # o => orders'[x] = orders[x]
    BY <1>4, MarkedWhole
  <2>3. QED
    BY <2>1, <2>2 DEF Noted
<1>5. ASSUME EntryFilled(t)
      PROVE  Noted(t) /\ used' = used
  <2>1. OrdersKept /\ Orders' = Orders /\ used' = used
    BY <1>5, EntryFilledWhole
  <2>2. PICK o \in FindOrder(t, "BUY") :
           /\ orders'[o].tid = t /\ orders'[o].status # "SUBMITTED"
           /\ \A x \in Orders : x # o => orders'[x] = orders[x]
    BY <1>5, EntryFilledWhole
  <2>3. QED
    BY <2>1, <2>2 DEF Noted
<1>6. ASSUME ExitFilled(t)
      PROVE  Noted(t) /\ used'.orders \in Nat /\ used'.orders >= used.orders
  <2>1. PICK o \in OrderIds : ExitRecorded(o, t)
    BY <1>6, ExitFilledWhole
  <2>2. used' \in {used, [used EXCEPT !.orders = used.orders + 1]}
    BY <1>6 DEF ExitFilled
  <2>3. used'.orders \in Nat /\ used'.orders >= used.orders
    BY <1>2, <2>2 DEF LedgerWhole, TypeOK
  <2>4. \A x \in Orders' \ Orders : x > used.orders
    <3>1. Orders' = Orders \cup {o} /\ (o \notin Orders => o = used.orders + 1)
      BY <2>1, Found DEF ExitRecorded
    <3>2. QED
      BY <1>2, <3>1
  <2>5. /\ OrdersKept /\ Orders' = Orders \cup {o}
        /\ orders'[o].side = "SELL" /\ orders'[o].tid = t /\ orders'[o].status # "SUBMITTED"
        /\ \A x \in Orders : x # o => orders'[x] = orders[x]
        /\ o \in Orders => o \in FindOrder(t, "SELL")
    BY <2>1 DEF ExitRecorded
  <2>6. Noted(t)
    BY <2>4, <2>5 DEF Noted
  <2>7. QED
    BY <2>3, <2>6
<1>7. \E ev : Received(ev, t)
  BY WebhookCases DEF NoSuchOrder, MarkedOnly, EntryFilled, ExitFilled
<1>8. QED
  BY <1>1, <1>2, <1>3, <1>4, <1>5, <1>6, <1>7, WebhookCases

\* The step of OwnTradeFirst: an order that a webhook names is the order of the
\* trade itself, unless that one is not waiting.
LEMMA NotedOwnFirst ==
  ASSUME LedgerWhole, OwnTrades, Home, NEW t \in Alive, Noted(t), NEW o \in Orders,
         orders'[o].tid # orders[o].tid
  PROVE  /\ orders[o].tid = 0 /\ orders'[o].tid = t /\ trades[t].pair = orders[o].pair
         /\ trades[t].by = o \/ trades[t].by \notin Submitted
<1> DEFINE own == trades[t].by
<1>1. PICK side \in {"BUY", "SELL"} : orders'[o].tid = t /\ o \in FindOrder(t, side)
  BY DEF Noted
<1>2. /\ o \in Orders /\ orders[o].side = side /\ orders[o].pair = trades[t].pair
      /\ orders[o].tid \in {0, t}
  BY <1>1, Found DEF Alive
<1>3. orders[o].tid = 0 /\ t # 0
  BY <1>1, <1>2 DEF Alive
<1>4. side = "BUY"
  BY <1>2, <1>3 DEF OwnTrades, SellsNamed
<1>5. Matches(t, "BUY") = {} /\ o \in Unmatched(t, "BUY")
      /\ \A x \in Unmatched(t, "BUY") : x <= o
  BY <1>1, <1>3, <1>4 DEF FindOrder, Latest, Matches
<1>6. HomeOf(t)
  BY DEF Home
<1>7. ASSUME own \in Submitted
      PROVE  own = o
  <2>1. own \in Orders /\ own \in Nat /\ o \in Nat
    BY <1>2, <1>7 DEF Submitted, Orders
  <2>2. orders[own].side = "BUY" /\ orders[own].pair = trades[t].pair /\ orders[own].tid \in {0, t}
    BY <1>6, <2>1 DEF HomeOf
  <2>3. orders[own].tid = 0
    BY <1>5, <2>1, <2>2 DEF Matches
  <2>4. own \in Unmatched(t, "BUY")
    BY <1>7, <2>2, <2>3 DEF Unmatched
  <2>5. o \in Submitted
    BY <1>5 DEF Unmatched
  <2>6. o <= own
    BY <1>2, <1>4, <1>6, <2>5 DEF HomeOf
  <2>7. own <= o
    BY <1>5, <2>4
  <2>8. QED
    BY <2>1, <2>6, <2>7
<1>8. QED
  BY <1>1, <1>2, <1>3, <1>7

LEMMA WebhookHome ==
  ASSUME LedgerWhole, OwnTrades, Home, NEW t \in TradeIds, Webhook(t)
  PROVE  Home'
<1>1. /\ Noted(t) /\ t \in Alive /\ hooks' \subseteq hooks /\ UNCHANGED <<trades, eng, rec>>
      /\ used'.orders \in Nat /\ used'.orders >= used.orders
  BY WebhookNoted
<1>2. TidsOfAlive
  BY <1>1, NotedOwnFirst DEF TidsOfAlive
<1>3. Alive' \subseteq Alive
  BY <1>1 DEF Alive, IsOpen
<1>4. QED
  BY <1>1, <1>2, <1>3, HomeKept DEF Noted

LEMMA ReconcilerHome ==
  ASSUME LedgerWhole, OwnTrades, Home, Reconciler
  PROVE  Home'
<1>1. UNCHANGED <<trades, hooks, eng>>
  BY DEF Reconciler, ReconcileScan, Scan, ReconcileCommit, ReconcileAbort
<1>2. Alive' = Alive
  BY <1>1 DEF Alive, IsOpen
<1>3. used.orders \in Nat
  BY DEF LedgerWhole, TypeOK
<1>4. CASE ReconcileScan
  <2>1. PICK S \in SUBSET Submitted : \E lostO, lostP : Scan(S, lostO, lostP)
    BY <1>4 DEF ReconcileScan
  <2>2. PICK lostO, lostP : Scan(S, lostO, lostP)
    BY <2>1
  <2> DEFINE gone == GoneOf(S, lostO, lostP)
  <2>3. PICK last \in used.orders..MaxOrders : \E id \in Injection(gone, (used.orders + 1)..last) :
          rec' = Plan(S, lostO, lostP, id) /\ used' = [used EXCEPT !.orders = last]
    BY <2>2 DEF Scan
  <2>4. PICK id \in Injection(gone, (used.orders + 1)..last) :
          rec' = Plan(S, lostO, lostP, id) /\ used' = [used EXCEPT !.orders = last]
    BY <2>3
  <2>5. DOMAIN id = gone /\ \A p \in gone : id[p] \in (used.orders + 1)..last
    BY <2>4 DEF Injection
  <2>6. used'.orders = last /\ last \in Nat /\ last >= used.orders
    BY <1>3, <2>3, <2>4 DEF LedgerWhole, TypeOK
  <2>7. \A c \in rec'.syn : c.order > used.orders
    <3>1. rec'.syn = {[pos |-> p, tid |-> EntryTrade(p), order |-> id[p]] : p \in DOMAIN id}
      BY <2>4 DEF Plan
    <3> HIDE DEF gone
    <3>2. \A p \in DOMAIN id : id[p] > used.orders
      BY <1>3, <2>5, <2>6
    <3>3. QED
      BY <3>1, <3>2
  <2>8. orders' = orders /\ used'.orders \in Nat /\ used'.orders >= used.orders
    BY <2>2, <2>6 DEF Scan
  <2> HIDE DEF gone
  <2>9. QED
    BY <1>1, <1>2, <2>7, <2>8, HomeUntouched
<1>5. CASE ReconcileCommit
  <2>1. PassOrders /\ used' = used /\ rec'.syn = {}
    BY <1>5, ReconcileCommitWhole DEF ReconcileCommit, NoPass
  <2>2. \A o \in Orders' \ Orders : orders'[o].side = "SELL" /\ \E c \in rec.syn : c.order = o
    <3>1. ASSUME NEW o \in Orders' \ Orders
          PROVE  orders'[o].side = "SELL" /\ \E c \in rec.syn : c.order = o
      <4>1. PICK c \in rec.syn :
               c.order = o /\ orders'[o] = SyntheticExit(positions[c.pos].pair, c.tid)
        BY <2>1 DEF PassOrders
      <4>2. QED
        BY <4>1 DEF SyntheticExit
    <3>2. QED
      BY <3>1
  <2>3. TidsOfAlive /\ OrdersKept
    BY <2>1 DEF PassOrders, TidsOfAlive
  <2>4. \A o \in Orders : orders'[o].status = "SUBMITTED" => orders[o].status = "SUBMITTED"
    BY <2>1 DEF PassOrders
  <2>5. QED
    BY <1>1, <1>2, <1>3, <2>1, <2>2, <2>3, <2>4, HomeKept
<1>6. CASE ReconcileAbort
  <2>1. orders' = orders /\ used' = used /\ rec'.syn = {}
    BY <1>6 DEF ReconcileAbort, NoPass
  <2>2. QED
    BY <1>1, <1>2, <1>3, <2>1, HomeUntouched
<1>7. QED
  BY <1>4, <1>5, <1>6 DEF Reconciler

LEMMA ExchangeHome ==
  ASSUME LedgerWhole, OwnTrades, Home, NEW t \in TradeIds, Exchange(t)
  PROVE  Home'
<1>1. PICK from, to, events : /\ from \in {"pending", "open", "closing"}
                              /\ Freqtrade(t, from, to, events)
  BY DEF Exchange, FillEntry, CancelEntry, SafetyExit, FillExit, CancelExit
<1>2. /\ trades[t].state = from /\ trades' = [trades EXCEPT ![t].state = to]
      /\ hooks' = hooks \cup {[ev |-> e, tid |-> t] : e \in events}
      /\ UNCHANGED <<orders, eng, rec, used>>
  BY <1>1 DEF Freqtrade
<1>3. trades \in [TradeIds -> TradeRows] /\ used.orders \in Nat
  BY DEF LedgerWhole, TypeOK
<1>4. \A x \in TradeIds : /\ trades'[x].pair = trades[x].pair /\ trades'[x].by = trades[x].by
                          /\ x # t => trades'[x].state = trades[x].state
  BY <1>2, <1>3 DEF TradeRows
<1>5. t \in Alive
  BY <1>1, <1>2 DEF Alive, IsOpen
<1>6. ASSUME NEW x \in Alive', x # t
      PROVE  x \in Alive
  <2>1. x \in TradeIds /\ (IsOpen(x)' => IsOpen(x))
    BY <1>4, <1>6 DEF Alive, IsOpen
  <2>2. (\E h \in hooks' : h.tid = x) => \E h \in hooks : h.tid = x
    BY <1>2, <1>6
  <2>3. QED
    BY <2>1, <2>2 DEF Alive
<1>7. QED
  BY <1>2, <1>3, <1>4, <1>5, <1>6, HomeUntouched

LEMMA NextHome ==
  ASSUME "overtaken" \notin Faults, LedgerWhole, OwnTrades, Home, [Next]_vars
  PROVE  Home'
<1>1. used.orders \in Nat
  BY DEF LedgerWhole, TypeOK
<1>2. ASSUME UNCHANGED <<orders, trades, rec, used>>, hooks' \subseteq hooks, eng' \in {eng, Quiet}
      PROVE  Home'
  <2>1. Alive' \subseteq Alive
    BY <1>2 DEF Alive, IsOpen
  <2>2. QED
    BY <1>1, <1>2, <2>1, HomeUntouched
<1>3. CASE Consumer
  <2>1. CASE EngineAbort
    BY <1>2, <2>1 DEF EngineAbort
  <2>2. QED
    BY <1>3, <2>1, EntryAcceptedHome, ConsumerHome, EngineCommitHome DEF Consumer
<1>4. ASSUME NEW h \in hooks, LoseHook(h)
      PROVE  Home'
  BY <1>2, <1>4 DEF LoseHook
<1>5. CASE UNCHANGED vars
  BY <1>2, <1>5 DEF vars
<1>6. QED
  BY <1>3, <1>4, <1>5, ExchangeHome, WebhookHome, ReconcilerHome DEF Next

OwnTradeFirstStep ==
    \A o \in Orders : orders'[o].tid # orders[o].tid =>
         /\ orders[o].tid = 0
         /\ LET own == trades[orders'[o].tid].by IN own = o \/ own \notin Submitted

LEMMA StepOwnTradeFirst ==
  ASSUME LedgerWhole, OwnTrades, Home, [Next]_vars
  PROVE  OwnTradeFirstStep
<1>1. ASSUME \A o \in Orders : orders'[o].tid = orders[o].tid
      PROVE  OwnTradeFirstStep
  BY <1>1 DEF OwnTradeFirstStep
<1>2. ASSUME NEW t \in TradeIds, Webhook(t)
      PROVE  OwnTradeFirstStep
  <2>1. Noted(t) /\ t \in Alive
    BY <1>2, WebhookNoted
  <2>2. QED
    BY <2>1, NotedOwnFirst DEF OwnTradeFirstStep
<1>3. CASE Consumer
  <2>1. CASE EngineCommit
    BY <1>1, <2>1, EngineCommitWhole
  <2>2. CASE ~EngineCommit
    BY <1>1, <1>3, <2>2 DEF Consumer, EntryRefused, EntryAccepted, ExitSignal, Called, EngineAbort
  <2>3. QED
    BY <2>1, <2>2
<1>4. CASE Reconciler
  <2>1. CASE ReconcileCommit
    BY <1>1, <2>1, ReconcileCommitWhole DEF PassOrders
  <2>2. CASE ~ReconcileCommit
    BY <1>1, <1>4, <2>2 DEF Reconciler, ReconcileScan, Scan, ReconcileAbort
  <2>3. QED
    BY <2>1, <2>2
<1>5. ASSUME NEW t \in TradeIds, Exchange(t)
      PROVE  OwnTradeFirstStep
  BY <1>1, <1>5 DEF Exchange, FillEntry, CancelEntry, SafetyExit, FillExit, CancelExit, Freqtrade
<1>6. ASSUME NEW h \in hooks, LoseHook(h)
      PROVE  OwnTradeFirstStep
  BY <1>1, <1>6 DEF LoseHook
<1>7. CASE UNCHANGED vars
  BY <1>1, <1>7 DEF vars
<1>8. QED
  BY <1>2, <1>3, <1>4, <1>5, <1>6, <1>7 DEF Next

\* The fallback of _find_order, "the most recent unmatched SUBMITTED order of
\* the pair", never passes over the order whose forceenter opened the trade, and
\* a trade id is never replaced, whatever replies, ids, webhooks and commits are
\* lost, unless writes are overtaken.
THEOREM SpecOwnTradeFirst ==
  ASSUME "overtaken" \notin Faults
  PROVE  Spec => OwnTradeFirst
<1> DEFINE Inv == LedgerWhole /\ ExitsDistinct /\ OwnTrades /\ Home
<1>1. Init => Inv
  BY InitWhole, InitDistinct, InitOwn, InitHome
<1>2. Inv /\ [Next]_vars => Inv'
  BY NextWhole, NextDistinct, NextOwn, NextHome
<1>3. Inv /\ [Next]_vars => [OwnTradeFirstStep]_vars
  BY StepOwnTradeFirst
<1> HIDE DEF Inv
<1>4. Spec => [][OwnTradeFirstStep]_vars
  BY <1>1, <1>2, <1>3, PTL DEF Spec
<1>5. QED
  BY <1>4 DEF OwnTradeFirst, OwnTradeFirstStep

=============================================================================
