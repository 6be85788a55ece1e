---------------------------- MODULE RotationPlan ----------------------------
(***************************************************************************)
(* The auto-rotate traversal (main/app/rotation_plan.hpp): the user's      *)
(* screen order, filtered by the screens that are enabled and expanded to  *)
(* one entry per active currency, becomes a sequence of slots; and the     *)
(* slot a reboot resumes on.                                               *)
(***************************************************************************)
EXTENDS SlotMap, Sequences, SequencesExt

IsPerCurrencyKind(id) == \E o \in DOMAIN PerCurrencyApiId : PerCurrencyApiId[o] = id

(* Mutant: a currency screen is expanded for the first currency only. *)
ExpandApiIdFirstCurrency(id, n) ==
  LET s == SlotForApiId(id, n, 0) IN IF s < 0 THEN <<>> ELSE <<s>>

(* The slots one api id of the user's order stands for, n currencies. *)
ExpandApiId(id, n) ==
  IF IsPerCurrencyKind(id)
  THEN [k \in 1 .. n |-> SlotForApiId(id, n, k - 1)]
  ELSE LET s == SlotForApiId(id, n, 0) IN IF s < 0 THEN <<>> ELSE <<s>>

(* What each turn of the builder's loop appends.  order is the parsed      *)
(* screenOrder list (<<>> on a fresh device: the loop is over the slots),  *)
(* enabled the api ids whose screen is visible and whose feature is on.    *)
Appended(order, enabled, n) ==
  IF order = <<>>
  THEN [i \in 1 .. SlotCount(n) |->
          IF ApiIdForSlot(i - 1, n) \in enabled THEN <<i - 1>> ELSE <<>>]
  ELSE [i \in 1 .. Len(order) |->
          IF order[i] \in enabled THEN ExpandApiId(order[i], n) ELSE <<>>]

(* A plan with nothing left falls back to the block-height slot.           *)
BuildRotationSequence(order, enabled, n) ==
  LET plan == FlattenSeq(Appended(order, enabled, n))
  IN  IF plan = <<>> THEN <<0>> ELSE plan

(* No lastSlot was ever persisted, or nothing to resume on. *)
NoSlot == -1

(* Mutant: the persisted slot is resumed although the plan dropped it. *)
ResumeSlotUnplanned(saved, n, plan) ==
  IF saved \in Slots(n) THEN saved ELSE IF plan = <<>> THEN NoSlot ELSE Head(plan)

(* Where a reboot lands: the persisted slot when it is inside the layout   *)
(* and either the fee-rate slot or part of the plan, else the plan's first *)
(* entry.                                                                  *)
ResumeSlot(saved, n, plan) ==
  IF /\ saved \in Slots(n)
     /\ IsFeeRateSlot(saved, n) \/ \E i \in DOMAIN plan : plan[i] = saved
  THEN saved
  ELSE IF plan = <<>> THEN NoSlot ELSE Head(plan)
=============================================================================
