--------------------------- MODULE ScreenManager ---------------------------
(***************************************************************************)
(* The display state machine under all its callers in any order: buttons,  *)
(* the control API, the rotation timer, zaps and wallet payments, a PATCH  *)
(* of the screens, the firmware update.  The main task owns the manager;   *)
(* only SetOtaOverlay and MarkDirty come from other tasks.                 *)
(***************************************************************************)
EXTENDS ScreenMethods

VARIABLES
  sm,       \* the ScreenManager object
  hidden    \* kinds the skip predicate rejects: follows the mining-pool setting

vars == <<sm, hidden>>

SkipSets == {{}, {"MiningPoolEarnings"}}

Init ==
  /\ hidden \in SkipSets
  /\ \E list \in CurrencyLists : \E plan \in Plans[Len(list)] :
       \E saved \in JumpSlots \cup {NoSlot}, isPaused \in BOOLEAN :
         sm = BootScreenManager(list, plan, saved, isPaused)

(* Button 2 and button 3, ignored under the debug overlay; the control API *)
(* (kNextScreen, kPrevScreen) is not.                                      *)
DoNext == sm' = NextScreen(sm, hidden) /\ UNCHANGED hidden
DoPrev == sm' = PrevScreen(sm, hidden) /\ UNCHANGED hidden

DoSetSlot == \E s \in JumpSlots : sm' = SetSlot(sm, s) /\ UNCHANGED hidden

DoSetCurrency == \E i \in DOMAIN sm.currencies :
                   sm' = SetCurrency(sm, sm.currencies[i]) /\ UNCHANGED hidden

DoStealFocus == sm' = SetKind(sm, "BlockHeight") /\ UNCHANGED hidden

DoCustom == sm' = SetCustomCells(sm) /\ UNCHANGED hidden

DoZap == \E restore \in BOOLEAN :
           sm' = SetZapNotify(sm, restore) /\ UNCHANGED hidden

DoNwcPayment == \E restore \in BOOLEAN :
                  sm' = SetNwcPaymentNotify(sm, restore) /\ UNCHANGED hidden

DoAutoRotate == /\ AutoRotateDue(sm)
                /\ sm' = MaybeAutoRotate(sm, hidden)
                /\ UNCHANGED hidden

DoTogglePaused == sm' = TogglePaused(sm) /\ UNCHANGED hidden

DoMarkDirty == sm' = MarkDirty(sm) /\ UNCHANGED hidden

(* Entering debug paints it at once; leaving it only marks the panels dirty. *)
DoToggleDebug == /\ sm' = LET m == ToggleDebug(sm)
                         IN  IF m.debug_mode THEN RenderDebug(m) ELSE m
                 /\ UNCHANGED hidden

DoOta == /\ ~sm.ota_active
         /\ sm' = SetOtaOverlay(sm)
         /\ UNCHANGED hidden

(* A PATCH of the screen order, the visible screens or the currencies:     *)
(* the main task swaps list and plan, then repaints.                       *)
DoRebuildScreens ==
  \E list \in CurrencyLists : \E plan \in Plans[Len(list)] :
    /\ sm' = Render(SetRotationSequence(SetCurrencies(sm, list), plan))
    /\ UNCHANGED hidden

DoRender == sm' = Render(sm) /\ UNCHANGED hidden

PoolSettingChanges == hidden' \in SkipSets /\ UNCHANGED sm

Tick == sm' = Age(sm) /\ UNCHANGED hidden

Next ==
  \/ DoNext \/ DoPrev \/ DoSetSlot \/ DoSetCurrency \/ DoStealFocus
  \/ DoCustom \/ DoZap \/ DoNwcPayment \/ DoAutoRotate
  \/ DoTogglePaused \/ DoToggleDebug \/ DoOta \/ DoMarkDirty
  \/ DoRebuildScreens \/ DoRender \/ PoolSettingChanges \/ Tick

Spec == Init /\ [][Next]_vars

(* The clock runs and the main loop keeps polling MaybeAutoRotate. *)
FairSpec == Spec /\ WF_vars(Tick) /\ WF_vars(DoAutoRotate)

-----------------------------------------------------------------------------
(* Properties. *)

(* Every field has its type, the slot lies inside the layout of the active *)
(* currencies and the rotation cursor inside the plan: what every          *)
(* currencies_[i] and rotation_sequence_[rotation_idx_] in the code needs. *)
TypeOK == ScreenManagerTypeOK(sm) /\ hidden \in SkipSets

(* A zap and a wallet payment displace each other: two latches would       *)
(* interleave two payloads on the panels (SetZapNotify,                    *)
(* SetNwcPaymentNotify).                                                   *)
OneNotification == Exclusive(sm)

(* The rotation cursor points at the slot on screen whenever the plan has  *)
(* that slot, so auto-rotate resumes with its successor; every method that *)
(* moves slot_ or the plan has to keep it so.                              *)
CursorInSync == InSync(sm)

(* Whatever changes the view leaves a repaint pending, or an overlay up    *)
(* that paints for itself; a rebuild repaints in the same step.            *)
RepaintPending ==
  [][View(sm') # View(sm) =>
       \/ sm'.dirty \/ sm'.screen_change_pending \/ sm'.debug_mode \/ sm'.ota_active
       \/ DoRebuildScreens]_vars

SameScreen ==
  SlotKind(sm') = SlotKind(sm) /\ current_currency(sm') = current_currency(sm)

CurrencyListed == current_currency(sm) \in Range(sm'.currencies)

SlotPastTheEnd == sm.slot >= NumSlots(sm')

ScreenIsLost ==
  IsCurrencySlot(sm.slot, NumCurrencies(sm)) /\ (~CurrencyListed \/ SlotPastTheEnd)

(* A rebuild keeps the screen the user is on, kind and currency, unless    *)
(* that is a currency's and the new list lacks the currency or is too      *)
(* short for the slot's old number; then it leads to slot 0.  The comment  *)
(* in SetCurrencies knows only the first of the two exceptions: the code   *)
(* looks at the old number before it looks for the currency.               *)
RebuildKeepsScreen ==
  [][DoRebuildScreens => IF ScreenIsLost THEN sm'.slot = 0 ELSE SameScreen]_vars

(* The main loop alone: no user, no network, no setting interferes. *)
Undisturbed == Tick \/ DoAutoRotate \/ DoRender

ZapDeadlineRuns == sm.zap_active /\ sm.zap_auto_restore
NwcDeadlineRuns == sm.nwc_notify_active /\ sm.nwc_notify_auto_restore

(* A notification with auto-restore is taken down if nobody interferes.    *)
NotificationExpires ==
  <>[][Undisturbed]_vars =>
    /\ ZapDeadlineRuns ~> (~ZapDeadlineRuns \/ sm.debug_mode \/ sm.ota_active)
    /\ NwcDeadlineRuns ~> (~NwcDeadlineRuns \/ sm.debug_mode \/ sm.ota_active)

(* Left alone and not paused, auto-rotate shows every visible slot of the  *)
(* plan again and again.                                                   *)
RotationFree == ~sm.paused /\ ~sm.debug_mode /\ ~sm.ota_active
                /\ ~sm.zap_active /\ ~sm.nwc_notify_active

VisibleSlots(m, skip) == {m.rotation_sequence[i + 1] : i \in Visible(m, skip)}

PlannedSlots ==
  UNION {UNION {{p[i] : i \in DOMAIN p} : p \in Plans[Len(l)]} : l \in CurrencyLists}

RotationVisits ==
  \A s \in PlannedSlots :
    <>[][Undisturbed]_vars /\ <>[]RotationFree
      => []<>(s \in VisibleSlots(sm, hidden) => sm.slot = s)
=============================================================================
