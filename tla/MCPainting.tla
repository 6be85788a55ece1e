----------------------------- MODULE MCPainting -----------------------------
(***************************************************************************)
(* TLC instance of Painting.  The screens come in three worlds, so that    *)
(* the ones that share shadow fields, throttle or pool sample meet each    *)
(* other: the chain screens (height, halving, prices, market cap), the     *)
(* pool, miner and wallet screens, and the fee and the clock.              *)
(***************************************************************************)
EXTENDS Painting

MCLists == {<<"USD", "EUR">>, <<"EUR">>}
Codes == {"USD", "EUR"}

(* The fee rate is the last slot: 16 under two currencies, 13 under one.   *)
MCPlans == [n \in 1 .. 2 |-> {<<0, 2, 10>>, <<4, 9>>, IF n = 2 THEN <<1, 16>> ELSE <<1, 13>>}]
MCSlots == {6, 8, 11, 12, 14}

Both(plan) == [n \in 1 .. 2 |-> {plan}]
PlanOfFees == [n \in 1 .. 2 |-> {p \in MCPlans[n] : p[1] = 1}]

Empty == EmptySnapshot(Codes)
Complete == [Empty EXCEPT !.block_height = 1, !.prices = [c \in Codes |-> "100"],
                          !.block_fee = 20]
Heights == {[Empty EXCEPT !.block_height = h] : h \in {1, 2}}
Priced(p) == [Empty EXCEPT !.prices = [Empty.prices EXCEPT !["EUR"] = p]]
Pool(n, v) == [Empty EXCEPT !.pool = [name |-> n, hashrate |-> v, daily |-> v, estimated |-> v]]
Miners(v) == [Empty EXCEPT !.bitaxe = [hostname |-> "axe", hashrate |-> v, best_diff |-> v]]
Balances == {[Empty EXCEPT !.nwc_balance = b] : b \in {1000}}
Fees == {[Empty EXCEPT !.block_fee = f] : f \in {20, 30}}
PreciseFees == {[Empty EXCEPT !.block_fee_precise = f] : f \in {25, 30}}

Looking(l) == [blockFeeDec |-> TRUE, look |-> l]
Plain == {Looking("plain")}
Looks == {Looking("plain"), Looking("suffix")}

ChainWorld ==
  [plans |-> Both(<<0, 2, 10>>), slots |-> {11, 12, 14},
   samples |-> Heights \cup {Priced("100"), Priced("101")},
   data |-> {Complete}, times |-> {1}, prefs |-> Plain]

OtherWorld ==
  [plans |-> Both(<<4, 9>>), slots |-> {6, 8},
   samples |-> {Pool("ocean", "1"), Pool("solo", "1"), Miners("1")} \cup Balances,
   data |-> {Complete}, times |-> {1}, prefs |-> Plain]

FeeWorld ==
  [plans |-> PlanOfFees, slots |-> {}, samples |-> Fees \cup PreciseFees,
   data |-> {Complete}, times |-> {1, 2}, prefs |-> Looks]

MCWorlds == {ChainWorld, OtherWorld, FeeWorld}

(* What the theorems about settled panels ask of the worlds holds of these. *)
ASSUME MCWorldsAreInformed == Informed
=============================================================================
