--------------------------- MODULE ScreenMethods ---------------------------
(***************************************************************************)
(* The methods of the display state machine (main/app/screen_manager.cpp): *)
(* which slot of the cycle is up, the rotation through the user's plan,    *)
(* and the overlays that displace it - custom text, Nostr zap, wallet      *)
(* payment, debug, firmware update.                                        *)
(*                                                                         *)
(* The manager's fields are one record.  Every method is an operator from  *)
(* a record to the record it leaves, so that a handler that calls several  *)
(* methods is their composition.  ScreenManager lets the callers apply     *)
(* them in any order; EventLoop composes them in the order the main task   *)
(* does.                                                                   *)
(*                                                                         *)
(* Time is counted in ticks.  A timestamp is kept as what is left of it or *)
(* as its age, saturated where the code stops telling values apart:        *)
(*   rot_age   now_ms - last_change_ms, up to RotatePeriod                 *)
(*   zap_left  zap_active_until_ - now_ms, down to -1 (now > until)        *)
(* A notification that is not up has no deadline worth keeping: the code   *)
(* tests its latch first, so the model rests the pair at its boot value.   *)
(***************************************************************************)
EXTENDS RotationPlan

CONSTANTS
  CurrencyLists,   \* the lists of active currencies a PATCH may install
  Plans,           \* [currency count -> the rotation sequences the builder returns]
  JumpSlots,       \* slot numbers a client or a saved cursor may ask for
  RotatePeriod,    \* timerSeconds, in ticks
  OverlayTimeout   \* how long a notification overlay stays up, in ticks

ASSUME CurrencyListsAssumption ==
  \A l \in CurrencyLists : l \in Seq(STRING) /\ Len(l) > 0

ASSUME PlansAssumption ==
  \A l \in CurrencyLists : \A p \in Plans[Len(l)] :
    p \in Seq(Slots(Len(l))) /\ Len(p) > 0

ASSUME JumpSlotsAssumption == JumpSlots \subseteq Nat

ASSUME TimeAssumption ==
  RotatePeriod \in Nat \ {0} /\ OverlayTimeout \in Nat \ {0}

-----------------------------------------------------------------------------
(* What the manager answers about itself. *)

NumCurrencies(m) == Len(m.currencies)
NumSlots(m) == SlotCount(NumCurrencies(m))

SlotKind(m) == KindForSlot(m.slot, NumCurrencies(m))

current_kind(m) ==
  IF m.ota_active             THEN "OtaUpdate"
  ELSE IF m.debug_mode        THEN "Debug"
  ELSE IF m.nwc_notify_active THEN "NwcPaymentNotify"
  ELSE IF m.zap_active        THEN "NostrZap"
  ELSE IF m.custom_active     THEN "Custom"
  ELSE SlotKind(m)

OverlayKinds == {"OtaUpdate", "Debug", "NwcPaymentNotify", "NostrZap", "Custom"}

NoCurrency == ""

current_currency(m) ==
  IF IsCurrencySlot(m.slot, NumCurrencies(m))
  THEN m.currencies[CurrencyIndex(m.slot) + 1]
  ELSE NoCurrency

(* The overlay latches any navigation clears; leaving one is not a step. *)
OverlayUp(m) == m.custom_active \/ m.zap_active \/ m.nwc_notify_active

(* What a complete repaint would put on the panels. *)
View(m) ==
  <<current_kind(m),
    IF current_kind(m) \in OverlayKinds THEN NoCurrency ELSE current_currency(m)>>

-----------------------------------------------------------------------------
(* Stepping through the cycle. *)

Least(S) == CHOOSE k \in S : \A j \in S : k <= j

(* From index i of a cycle of n, the first index in direction dir (1 or    *)
(* -1), i included, that lies in ok; i itself when none does.              *)
Walk(i, dir, n, ok) ==
  LET hits == {k \in 0 .. n - 1 : (i + dir * k) % n \in ok}
  IN  IF hits = {} THEN i ELSE (i + dir * Least(hits)) % n

(* Indices of the plan, counted from 0 as in the code, that are not skipped. *)
Visible(m, skip) ==
  {i \in 0 .. Len(m.rotation_sequence) - 1 :
     KindForSlot(m.rotation_sequence[i + 1], NumCurrencies(m)) \notin skip}

AdvanceInSequence(m, dir, skip) ==
  LET idx == Walk(m.rotation_idx, dir, Len(m.rotation_sequence), Visible(m, skip))
  IN  [m EXCEPT !.rotation_idx = idx, !.slot = m.rotation_sequence[idx + 1]]

IndexForSlot(seq, s) ==
  LET at == {i \in 0 .. Len(seq) - 1 : seq[i + 1] = s}
  IN  IF at = {} THEN Len(seq) ELSE Least(at)

(* Resync the plan's cursor to the slot on screen; 0 when it is not in it. *)
SyncIndex(m) ==
  LET idx == IndexForSlot(m.rotation_sequence, m.slot)
  IN  [m EXCEPT !.rotation_idx = IF idx < Len(m.rotation_sequence) THEN idx ELSE 0]

Restart(m) == [m EXCEPT !.rot_age = 0]

(* Every navigation ends the same way. *)
Navigated(m) == Restart([m EXCEPT !.screen_change_pending = TRUE])

ClearCustom(m) == [m EXCEPT !.custom_active = FALSE]

ClearZap(m) ==
  [m EXCEPT !.zap_active = FALSE, !.zap_auto_restore = TRUE, !.zap_left = -1]

ClearNwc(m) ==
  [m EXCEPT !.nwc_notify_active = FALSE, !.nwc_notify_auto_restore = TRUE, !.nwc_left = -1]

ClearOverlays(m) == ClearCustom(ClearZap(ClearNwc(m)))

(* Mutant: the cursor is never incremented. *)
StepPlanStuck(m, dir, leaving, skip) == AdvanceInSequence(m, dir, skip)

(* One step of the plan, or none when the step only leaves an overlay. *)
StepPlan(m, dir, leaving, skip) ==
  LET n == Len(m.rotation_sequence)
      at == IF leaving THEN m
            ELSE [m EXCEPT !.rotation_idx = (m.rotation_idx + dir) % n]
  IN  AdvanceInSequence(at, dir, skip)

-----------------------------------------------------------------------------
(* The methods. *)

(* Mutant: a jump leaves the rotation cursor where it was. *)
SetSlotNoResync(m, s) == Navigated(ClearOverlays([m EXCEPT !.slot = s % NumSlots(m)]))

SetSlot(m, s) ==
  Navigated(ClearOverlays(SyncIndex([m EXCEPT !.slot = s % NumSlots(m)])))

SlotsOfKind(m, kind) ==
  {s \in Slots(NumCurrencies(m)) : KindForSlot(s, NumCurrencies(m)) = kind}

SetKind(m, kind) ==
  IF SlotsOfKind(m, kind) = {} THEN m ELSE SetSlot(m, Least(SlotsOfKind(m, kind)))

SetCurrency(m, ccy) ==
  LET at == {i \in DOMAIN m.currencies : m.currencies[i] = ccy}
  IN  IF at = {} THEN m
      ELSE SetSlot(m, TransposeSlotToCurrency(m.slot, Least(at) - 1, NumCurrencies(m)))

SetCustomCells(m) ==
  Navigated([ClearZap(ClearNwc(m)) EXCEPT !.custom_active = TRUE])

(* Without auto-restore the deadline is never looked at. *)
Deadline(restore) == IF restore THEN OverlayTimeout ELSE -1

SetNwcPaymentNotify(m, restore) ==
  Navigated([ClearZap(m) EXCEPT !.nwc_notify_active = TRUE,
                                !.nwc_notify_auto_restore = restore,
                                !.nwc_left = Deadline(restore)])

(* Mutant: a zap does not take a wallet payment down. *)
SetZapNotifyOverNwc(m, restore) ==
  Navigated([m EXCEPT !.zap_active = TRUE, !.zap_auto_restore = restore,
                      !.zap_left = Deadline(restore)])

SetZapNotify(m, restore) ==
  Navigated([ClearNwc(m) EXCEPT !.zap_active = TRUE,
                                !.zap_auto_restore = restore,
                                !.zap_left = Deadline(restore)])

NextScreen(m, skip) ==
  Navigated(StepPlan(ClearOverlays(m), 1, OverlayUp(m), skip))

PrevScreen(m, skip) ==
  Navigated(StepPlan(ClearOverlays(m), -1, OverlayUp(m), skip))

(* MaybeAutoRotate returns true exactly when one of its three steps is due. *)
NwcExpired(m) == m.nwc_notify_auto_restore /\ m.nwc_left < 0
ZapExpired(m) == m.zap_auto_restore /\ m.zap_left < 0
RotateDue(m)  == ~m.paused /\ m.rot_age >= RotatePeriod

(* Mutant: the pause test comes first and holds notifications up too. *)
AutoRotateDueUnlessPaused(m) ==
  /\ ~m.ota_active
  /\ ~m.debug_mode
  /\ ~m.paused
  /\ IF m.nwc_notify_active THEN NwcExpired(m)
     ELSE IF m.zap_active   THEN ZapExpired(m)
     ELSE RotateDue(m)

AutoRotateDue(m) ==
  /\ ~m.ota_active
  /\ ~m.debug_mode
  /\ IF m.nwc_notify_active THEN NwcExpired(m)
     ELSE IF m.zap_active   THEN ZapExpired(m)
     ELSE RotateDue(m)

(* Mutant: an expired zap is taken down without asking for a repaint. *)
MaybeAutoRotateSilentZap(m, skip) ==
  IF ~AutoRotateDue(m) THEN m
  ELSE IF m.nwc_notify_active THEN Navigated(ClearNwc(m))
  ELSE IF m.zap_active THEN Restart(ClearZap(m))
  ELSE Navigated(StepPlan(ClearCustom(m), 1, m.custom_active, skip))

MaybeAutoRotate(m, skip) ==
  IF ~AutoRotateDue(m) THEN m
  ELSE IF m.nwc_notify_active THEN Navigated(ClearNwc(m))
  ELSE IF m.zap_active THEN Navigated(ClearZap(m))
  ELSE Navigated(StepPlan(ClearCustom(m), 1, m.custom_active, skip))

TogglePaused(m) == [m EXCEPT !.paused = ~@]
MarkDirty(m) == [m EXCEPT !.dirty = TRUE]
SetOtaOverlay(m) == [m EXCEPT !.ota_active = TRUE]

ToggleDebug(m) ==
  IF m.debug_mode
  THEN Restart([m EXCEPT !.debug_mode = FALSE, !.dirty = TRUE])
  ELSE [m EXCEPT !.debug_mode = TRUE]

SetRotationSequence(m, seq) == SyncIndex([m EXCEPT !.rotation_sequence = seq])

(* Mutant: the fee-rate slot is not pinned to the end of the cycle. *)
SetCurrenciesFeeRateUnpinned(m, list) ==
  IF list = <<>> THEN m
  ELSE [m EXCEPT !.currencies = list,
                 !.slot = IF m.slot >= SlotCount(Len(list)) THEN 0 ELSE @]

(* Carry the screen over to another currency list: the fee rate follows    *)
(* the end of the cycle, a slot past the new end falls back to slot 0, a   *)
(* currency slot follows its currency (or falls back), the rest stay.      *)
SetCurrencies(m, list) ==
  LET n == SlotCount(Len(list))
      at == {i \in DOMAIN list : list[i] = current_currency(m)}
      to == IF IsFeeRateSlot(m.slot, NumCurrencies(m)) THEN n - 1
            ELSE IF m.slot < AgnosticSlots THEN m.slot
            ELSE IF m.slot >= n \/ at = {} THEN 0
            ELSE AgnosticSlots + PerCurrencySlots * (Least(at) - 1) + Offset(m.slot)
  IN  IF list = <<>> THEN m ELSE [m EXCEPT !.currencies = list, !.slot = to]

(* Paint the current view.  The update and debug overlays own the panels:  *)
(* Render leaves them alone.                                               *)
Render(m) ==
  IF m.ota_active \/ m.debug_mode THEN m
  ELSE [m EXCEPT !.dirty = FALSE, !.screen_change_pending = FALSE]

(* Paint the debug overlay, whatever else is up; what the panels showed    *)
(* before is not to be trusted any more.                                   *)
RenderDebug(m) == [m EXCEPT !.dirty = TRUE]

(* One tick of the monotonic clock. *)
Age(m) ==
  [m EXCEPT !.rot_age  = IF @ < RotatePeriod THEN @ + 1 ELSE @,
            !.zap_left = IF @ < 0 THEN @ ELSE @ - 1,
            !.nwc_left = IF @ < 0 THEN @ ELSE @ - 1]
-----------------------------------------------------------------------------
(* The object itself. *)

Fields ==
  [currencies : CurrencyLists, slot : Nat,
   rotation_sequence : Seq(Nat), rotation_idx : Nat,
   custom_active : BOOLEAN,
   zap_active : BOOLEAN, zap_auto_restore : BOOLEAN, zap_left : -1 .. OverlayTimeout,
   nwc_notify_active : BOOLEAN, nwc_notify_auto_restore : BOOLEAN,
   nwc_left : -1 .. OverlayTimeout,
   debug_mode : BOOLEAN, ota_active : BOOLEAN, paused : BOOLEAN,
   rot_age : 0 .. RotatePeriod,
   dirty : BOOLEAN, screen_change_pending : BOOLEAN]

(* The fields, a slot inside the layout and a plan over it ...             *)
FieldsOK(m) ==
  /\ m \in Fields
  /\ m.slot \in Slots(NumCurrencies(m))
  /\ m.rotation_sequence \in Seq(Slots(NumCurrencies(m)))
  /\ Len(m.rotation_sequence) > 0

(* ... and a cursor inside the plan.                                       *)
ScreenManagerTypeOK(m) == FieldsOK(m) /\ m.rotation_idx < Len(m.rotation_sequence)

(* At most one notification is latched. *)
Exclusive(m) == ~(m.zap_active /\ m.nwc_notify_active)

(* The cursor points at the slot on screen whenever the plan has it. *)
InSync(m) ==
  LET seq == m.rotation_sequence
  IN  (\E i \in DOMAIN seq : seq[i] = m.slot) => seq[m.rotation_idx + 1] = m.slot

(* The constructor, the plan built from the settings, and the slot the     *)
(* reboot resumes on (InitScreenManager).                                  *)
BootScreenManager(list, plan, saved, isPaused) ==
  LET fresh == [currencies |-> list, slot |-> 0,
                rotation_sequence |-> plan, rotation_idx |-> 0,
                custom_active |-> FALSE,
                zap_active |-> FALSE, zap_auto_restore |-> TRUE, zap_left |-> -1,
                nwc_notify_active |-> FALSE, nwc_notify_auto_restore |-> TRUE,
                nwc_left |-> -1,
                debug_mode |-> FALSE, ota_active |-> FALSE, paused |-> isPaused,
                rot_age |-> 0, dirty |-> TRUE, screen_change_pending |-> FALSE]
      resume == ResumeSlot(saved, Len(list), plan)
  IN  SetSlot(SetRotationSequence(fresh, plan), resume)
=============================================================================
