-------------------------- MODULE MCScreenManager --------------------------
(***************************************************************************)
(* TLC instance of ScreenManager: two currencies that come and go, and the *)
(* plans the builder makes of two user configurations.                     *)
(***************************************************************************)
EXTENDS ScreenManager

MCCurrencyLists == {<<"USD", "EUR">>, <<"EUR">>}

(* An order with the pool earnings (hideable) first and the fee rate last; *)
(* a plan with everything of its order disabled is slot 0 alone.           *)
Planned == [n \in 1 .. 2 |-> BuildRotationSequence(<<71, 20, 6>>, {71, 20, 6}, n)]
Fallback == BuildRotationSequence(<<30, 0>>, {0}, 1)
MCPlans == [n \in 1 .. 2 |-> {Planned[n]} \cup (IF n = 1 THEN {Fallback} ELSE {})]
=============================================================================
