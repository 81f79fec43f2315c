----------------------------- MODULE CandleOnce -----------------------------
(***************************************************************************)
(* What the trading cycle promises for every (symbol, candle): at most one *)
(* signal is generated, and of that signal at most one order is submitted. *)
(***************************************************************************)
EXTENDS Naturals

CONSTANT Keys                     \* the (symbol, candle) pairs
VARIABLES generated, submitted    \* how many signals, how many submissions

vars == <<generated, submitted>>

Init ==
    /\ generated = [k \in Keys |-> 0]
    /\ submitted = [k \in Keys |-> 0]

Generate(k) ==
    /\ generated[k] = 0
    /\ generated' = [generated EXCEPT ![k] = 1]
    /\ UNCHANGED submitted

Submit(k) ==
    /\ generated[k] = 1
    /\ submitted[k] = 0
    /\ submitted' = [submitted EXCEPT ![k] = 1]
    /\ UNCHANGED generated

Next == \E k \in Keys : Generate(k) \/ Submit(k)

Spec == Init /\ [][Next]_vars
=============================================================================
