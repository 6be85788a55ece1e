------------------------------ MODULE SlotMap ------------------------------
(***************************************************************************)
(* The layout of the display cycle (main/app/screen_slot_map.hpp and       *)
(* ScreenManager::KindForSlot).  A slot is a natural number:               *)
(*                                                                         *)
(*    0 .. 9                 ten currency-agnostic screens                 *)
(*    10 + 3c + {0,1,2}      Moscow time, price, market cap of currency c  *)
(*    the last slot          the fee rate                                  *)
(*                                                                         *)
(* The firmware keeps two readings of that layout, one in api ids (HTTP,   *)
(* rotation builder) and one in screen kinds (renderer); they must agree.  *)
(***************************************************************************)
EXTENDS Integers

AgnosticSlots == 10
PerCurrencySlots == 3

SlotCount(n) == AgnosticSlots + PerCurrencySlots * n + 1

Slots(n) == 0 .. SlotCount(n) - 1

(* The ten agnostic screens by slot, as api ids and as kinds. *)
AgnosticApiId == [s \in 0 .. AgnosticSlots - 1 |->
  CASE s = 0 -> 0  [] s = 1 -> 3  [] s = 2 -> 4  [] s = 3 -> 40
    [] s = 4 -> 70 [] s = 5 -> 71 [] s = 6 -> 80 [] s = 7 -> 81
    [] s = 8 -> 90 [] s = 9 -> 72]

AgnosticKind == [s \in 0 .. AgnosticSlots - 1 |->
  CASE s = 0 -> "BlockHeight"          [] s = 1 -> "Clock"
    [] s = 2 -> "Halving"              [] s = 3 -> "BitcoinSupply"
    [] s = 4 -> "MiningPoolHashrate"   [] s = 5 -> "MiningPoolEarnings"
    [] s = 6 -> "BitaxeHashrate"       [] s = 7 -> "BitaxeBestDiff"
    [] s = 8 -> "NwcBalance"           [] s = 9 -> "MiningPoolEstimatedEarnings"]

PerCurrencyApiId == [off \in 0 .. PerCurrencySlots - 1 |->
  CASE off = 0 -> 10 [] off = 1 -> 20 [] off = 2 -> 30]

PerCurrencyKind == [off \in 0 .. PerCurrencySlots - 1 |->
  CASE off = 0 -> "MoscowTime" [] off = 1 -> "BtcPrice" [] off = 2 -> "MarketCap"]

FeeRateApiId == 6
FeeRateKind == "BlockFeeRate"

Offset(s) == (s - AgnosticSlots) % PerCurrencySlots

IsFeeRateSlot(s, n) == s = SlotCount(n) - 1

IsCurrencySlot(s, n) == s >= AgnosticSlots /\ s < SlotCount(n) - 1

(* slot -> api id; -1 for a slot outside the layout. *)
ApiIdForSlot(s, n) ==
  CASE s >= SlotCount(n)   -> -1
    [] IsFeeRateSlot(s, n) -> FeeRateApiId
    [] s < AgnosticSlots   -> AgnosticApiId[s]
    [] OTHER               -> PerCurrencyApiId[Offset(s)]

(* slot -> screen kind, the renderer's reading of the same layout. *)
KindForSlot(s, n) ==
  CASE IsFeeRateSlot(s, n) -> FeeRateKind
    [] s < AgnosticSlots   -> AgnosticKind[s]
    [] OTHER               -> PerCurrencyKind[Offset(s)]

(* The currency index a slot shows: only meaningful on a currency slot. *)
CurrencyIndex(s) == (s - AgnosticSlots) \div PerCurrencySlots

(* The slot of the same kind under the currency of index c; an agnostic or *)
(* fee-rate slot has no offset to carry and lands on the Moscow slot.      *)
TransposeSlotToCurrency(s, c, n) ==
  LET off == IF IsCurrencySlot(s, n) THEN Offset(s) ELSE 0
  IN  AgnosticSlots + PerCurrencySlots * c + off

(* Mutant: the preferred currency is ignored. *)
SlotForApiIdFirstCurrency(id, n, preferred) ==
  LET agnostic == {s \in DOMAIN AgnosticApiId : AgnosticApiId[s] = id}
      offset   == {o \in DOMAIN PerCurrencyApiId : PerCurrencyApiId[o] = id}
  IN  IF n = 0                  THEN -1
      ELSE IF id = FeeRateApiId THEN SlotCount(n) - 1
      ELSE IF agnostic # {}     THEN CHOOSE s \in agnostic : TRUE
      ELSE IF offset # {}       THEN AgnosticSlots + (CHOOSE o \in offset : TRUE)
      ELSE -1

(* api id -> slot, on the preferred currency (clamped to the first); -1    *)
(* when the id is unknown or there is no currency.                         *)
SlotForApiId(id, n, preferred) ==
  LET c == IF preferred >= n THEN 0 ELSE preferred
      agnostic == {s \in DOMAIN AgnosticApiId : AgnosticApiId[s] = id}
      offset   == {o \in DOMAIN PerCurrencyApiId : PerCurrencyApiId[o] = id}
  IN  IF n = 0                  THEN -1
      ELSE IF id = FeeRateApiId THEN SlotCount(n) - 1
      ELSE IF agnostic # {}     THEN CHOOSE s \in agnostic : TRUE
      ELSE IF offset # {}       THEN AgnosticSlots + PerCurrencySlots * c
                                       + (CHOOSE o \in offset : TRUE)
      ELSE -1
=============================================================================
