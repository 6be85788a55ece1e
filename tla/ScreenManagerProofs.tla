------------------------ MODULE ScreenManagerProofs ------------------------
(***************************************************************************)
(* The display state machine keeps its types, its rotation cursor and its  *)
(* notification latches consistent, whichever methods its callers apply,   *)
(* in any order: the inductive invariant is that the manager is good       *)
(* (ScreenMethodsProofs), with one step per action.                        *)
(*                                                                         *)
(* The settings keep theirs, and from them the plan handed to the manager  *)
(* is the one it is proved for: the layout read both ways, the builder's   *)
(* loop by induction over its turns (UpTo: a least counterexample), a      *)
(* PATCH field by field.                                                   *)
(***************************************************************************)
EXTENDS ScreenManager, SettingsPatch, ScreenMethodsProofs

(* The rest of the state is the skip predicate's set.                      *)
IInv == ScreenManagerTypeOK(sm) /\ hidden \in SkipSets /\ Exclusive(sm) /\ InSync(sm)

(* Every action keeps the invariant: what is left alone stays good, and    *)
(* the pool setting never touches the manager.                             *)
LEMMA StepKeepsIInv == IInv /\ [Next]_vars => IInv'
<1> SUFFICES ASSUME Good(sm), hidden \in SkipSets, [Next]_vars
             PROVE  Good(sm') /\ hidden' \in SkipSets
  BY DEF IInv, Good
<1>1. CASE DoNext
  BY <1>1, NextScreenGood DEF DoNext
<1>2. CASE DoPrev
  BY <1>2, NextScreenGood DEF DoPrev
<1>3. CASE DoSetSlot
  BY <1>3, GoodParts, SetSlotGood, JumpSlotsAssumption DEF DoSetSlot
<1>4. CASE DoSetCurrency
  BY <1>4, SetCurrencyGood DEF DoSetCurrency
<1>5. CASE DoStealFocus
  BY <1>5, SetKindGood DEF DoStealFocus
<1>6. CASE DoCustom
  BY <1>6, CustomGood DEF DoCustom
<1>7. CASE DoZap
  BY <1>7, ZapNotifyGood DEF DoZap
<1>8. CASE DoNwcPayment
  BY <1>8, NwcPaymentNotifyGood DEF DoNwcPayment
<1>9. CASE DoAutoRotate
  BY <1>9, AutoRotateGood DEF DoAutoRotate
<1>10. CASE DoTogglePaused
  BY <1>10, FlagMethodsGood DEF DoTogglePaused
<1>11. CASE DoToggleDebug
  BY <1>11, FlagMethodsGood DEF DoToggleDebug
<1>12. CASE DoOta
  BY <1>12, FlagMethodsGood DEF DoOta
<1>13. CASE DoMarkDirty
  BY <1>13, FlagMethodsGood DEF DoMarkDirty
<1>14. CASE DoRebuildScreens
  BY <1>14, RebuildGood, FlagMethodsGood DEF DoRebuildScreens
<1>15. CASE DoRender
  BY <1>15, FlagMethodsGood DEF DoRender
<1>16. CASE PoolSettingChanges
  BY <1>16 DEF PoolSettingChanges
<1>17. CASE Tick
  BY <1>17, AgeGood DEF Tick
<1>18. CASE UNCHANGED vars
  BY <1>18 DEF vars
<1> QED
  BY <1>1, <1>2, <1>3, <1>4, <1>5, <1>6, <1>7, <1>8, <1>9, <1>10, <1>11, <1>12,
     <1>13, <1>14, <1>15, <1>16, <1>17, <1>18 DEF Next

(* The inductive invariant: types, exclusive notifications and a cursor in *)
(* sync hold from the boot of the manager on, whatever its callers do      *)
(* (InitScreenManager, then any method in any order).                      *)
THEOREM InductiveInvariant == Spec => []IInv
<1>1. Init => IInv
  BY BootGood DEF Init, IInv, Good
<1> QED
  BY <1>1, StepKeepsIInv, PTL DEF Spec

(* Whatever the callers do, in any order, every field keeps its type, the  *)
(* slot stays inside the layout of the currencies of the moment and the    *)
(* cursor inside the plan (screen_manager.cpp).                            *)
THEOREM TypesHold == Spec => []TypeOK
<1>1. IInv => TypeOK
  BY DEF IInv, TypeOK
<1> QED
  BY <1>1, InductiveInvariant, PTL

(* A zap and a wallet payment never hold the panels together: SetZapNotify *)
(* and SetNwcPaymentNotify displace each other under every interleaving.   *)
THEOREM NotificationsExclusive == Spec => []OneNotification
<1>1. IInv => OneNotification
  BY DEF IInv, OneNotification
<1> QED
  BY <1>1, InductiveInvariant, PTL

(* The rotation cursor points at the slot on screen whenever the plan      *)
(* contains it, through jumps, rebuilds, overlays and reboots.             *)
THEOREM CursorStaysInSync == Spec => []CursorInSync
<1>1. IInv => CursorInSync
  BY DEF IInv, CursorInSync
<1> QED
  BY <1>1, InductiveInvariant, PTL

(***************************************************************************)
(* Every change of view asks for a repaint.                                *)
(***************************************************************************)

(* What the view is made of.                                               *)
SameView(m, w) ==
  /\ w.slot = m.slot /\ w.currencies = m.currencies
  /\ w.custom_active = m.custom_active /\ w.zap_active = m.zap_active
  /\ w.nwc_notify_active = m.nwc_notify_active
  /\ w.debug_mode = m.debug_mode /\ w.ota_active = m.ota_active

LEMMA ViewKept ==
  ASSUME NEW m, NEW w, SameView(m, w)
  PROVE  View(w) = View(m)
  BY DEF SameView, View, current_kind, current_currency, SlotKind, NumCurrencies

LEMMA SetKindAsks ==
  ASSUME NEW m, Good(m), NEW kind
  PROVE  SetKind(m, kind) = m \/ SetKind(m, kind).screen_change_pending
<1>1. CASE SlotsOfKind(m, kind) = {}
  BY <1>1 DEF SetKind
<1>2. CASE SlotsOfKind(m, kind) # {}
  <2>1. SlotsOfKind(m, kind) \in SUBSET Nat
    BY DEF SlotsOfKind, Slots
  <2>2. Least(SlotsOfKind(m, kind)) \in Int
    BY <1>2, <2>1, LeastInSet
  <2> QED BY <1>2, <2>2, SetSlotAsks DEF SetKind
<1> QED BY <1>1, <1>2

LEMMA SetCurrencyAsks ==
  ASSUME NEW m, Good(m), NEW ccy
  PROVE  SetCurrency(m, ccy) = m \/ SetCurrency(m, ccy).screen_change_pending
<1> DEFINE at == {i \in DOMAIN m.currencies : m.currencies[i] = ccy}
           to == TransposeSlotToCurrency(m.slot, Least(at) - 1, NumCurrencies(m))
<1>1. CASE at = {}
  BY <1>1 DEF SetCurrency
<1>2. CASE at # {}
  <2>1. at \in SUBSET Nat
    BY GoodFields, CurrencyListsAssumption DEF Fields
  <2>2. Least(at) \in Nat
    BY <1>2, <2>1, LeastInSet
  <2>3. Offset(m.slot) \in Int
    BY GoodFields DEF Fields, Offset, AgnosticSlots, PerCurrencySlots
  <2>4. to \in Int
    BY <2>2, <2>3 DEF TransposeSlotToCurrency, AgnosticSlots, PerCurrencySlots
  <2>5. SetCurrency(m, ccy) = SetSlot(m, to)
    BY <1>2 DEF SetCurrency
  <2> QED BY <2>4, <2>5, SetSlotAsks
<1> QED BY <1>1, <1>2

(* No method changes what the panels should show without leaving a repaint *)
(* pending, an overlay that paints for itself, or a rebuild's own paint    *)
(* (screen_manager.cpp: screen_change_pending_, dirty_).                   *)
THEOREM ViewChangesAreRepainted == Spec => RepaintPending
<1> DEFINE Asks == \/ sm'.dirty \/ sm'.screen_change_pending
                   \/ sm'.debug_mode \/ sm'.ota_active
                   \/ DoRebuildScreens
<1>1. IInv /\ [Next]_vars => [View(sm') # View(sm) => Asks]_vars
  <2> SUFFICES ASSUME Good(sm), Next, View(sm') # View(sm)
               PROVE  Asks
    BY DEF IInv, Good
  <2>1. sm \in Fields /\ ~SameView(sm, sm')
    BY GoodFields, ViewKept
  <2>2. CASE DoNext \/ DoPrev \/ DoAutoRotate
    BY <2>1, <2>2, StepsAsk DEF DoNext, DoPrev, DoAutoRotate, SameView
  <2>3. CASE DoSetSlot
    BY <2>3, SetSlotAsks, JumpSlotsAssumption DEF DoSetSlot
  <2>4. CASE DoSetCurrency \/ DoStealFocus
    BY <2>1, <2>4, SetCurrencyAsks, SetKindAsks DEF DoSetCurrency, DoStealFocus, SameView
  <2>5. CASE DoCustom \/ DoZap \/ DoNwcPayment
    BY <2>5, NotificationsAsk DEF DoCustom, DoZap, DoNwcPayment
  <2>6. CASE DoTogglePaused \/ DoRender \/ Tick
    <3>1. SameView(sm, TogglePaused(sm)) /\ SameView(sm, Age(sm)) /\ SameView(sm, Render(sm))
      BY <2>1 DEF SameView, TogglePaused, Age, Render, Fields
    <3> QED BY <2>1, <2>6, <3>1 DEF DoTogglePaused, DoRender, Tick
  <2>7. CASE DoToggleDebug
    BY <2>1, <2>7 DEF DoToggleDebug, ToggleDebug, RenderDebug, Restart, Fields
  <2>8. CASE DoOta \/ DoMarkDirty
    BY <2>1, <2>8 DEF DoOta, DoMarkDirty, SetOtaOverlay, MarkDirty, Fields
  <2>9. CASE PoolSettingChanges
    BY <2>1, <2>9 DEF PoolSettingChanges, SameView
  <2> QED
    BY <2>2, <2>3, <2>4, <2>5, <2>6, <2>7, <2>8, <2>9 DEF Next
<1> QED
  BY <1>1, InductiveInvariant, PTL DEF Spec, RepaintPending

(***************************************************************************)
(* A rebuild keeps the screen or falls back to slot 0.                     *)
(***************************************************************************)

(* A slot, the kind the renderer gives it and the currency it shows.       *)
LEMMA SlotReadings ==
  ASSUME NEW s \in Nat, NEW n \in Nat
  PROVE  /\ IsFeeRateSlot(s, n) =>
              KindForSlot(s, n) = FeeRateKind /\ ~IsCurrencySlot(s, n)
         /\ s < AgnosticSlots =>
              KindForSlot(s, n) = AgnosticKind[s] /\ ~IsCurrencySlot(s, n)
         /\ IsCurrencySlot(s, n) => KindForSlot(s, n) = PerCurrencyKind[Offset(s)]
<1>1. AgnosticSlots = 10 /\ SlotCount(n) = 11 + 3 * n
  BY DEF AgnosticSlots, PerCurrencySlots, SlotCount
<1>2. CASE IsFeeRateSlot(s, n)
  <2>1. ~(s < AgnosticSlots) /\ ~IsCurrencySlot(s, n)
    BY <1>1, <1>2 DEF IsFeeRateSlot, IsCurrencySlot
  <2> QED BY <1>2, <2>1 DEF KindForSlot
<1>3. CASE s < AgnosticSlots
  <2>1. ~IsFeeRateSlot(s, n) /\ ~IsCurrencySlot(s, n)
    BY <1>1, <1>3 DEF IsFeeRateSlot, IsCurrencySlot
  <2> QED BY <1>3, <2>1 DEF KindForSlot
<1>4. CASE IsCurrencySlot(s, n)
  <2>1. ~IsFeeRateSlot(s, n) /\ ~(s < AgnosticSlots)
    BY <1>1, <1>4 DEF IsFeeRateSlot, IsCurrencySlot
  <2> QED BY <1>4, <2>1 DEF KindForSlot
<1> QED BY <1>2, <1>3, <1>4

(* The slot the same offset has under another index of the list.           *)
LEMMA SlotCarried ==
  ASSUME NEW s \in Nat, NEW i \in Nat, s >= AgnosticSlots,
         NEW t, t = AgnosticSlots + PerCurrencySlots * i + Offset(s)
  PROVE  t \in Nat /\ t >= AgnosticSlots /\ Offset(t) = Offset(s) /\ CurrencyIndex(t) = i
  BY DEF AgnosticSlots, PerCurrencySlots, Offset, CurrencyIndex

LEMMA RebuildCarries ==
  ASSUME NEW m, Good(m), NEW list \in CurrencyLists,
         NEW w, w = SetCurrencies(m, list)
  PROVE  IF /\ IsCurrencySlot(m.slot, NumCurrencies(m))
            /\ current_currency(m) \notin Range(w.currencies) \/ m.slot >= NumSlots(w)
         THEN w.slot = 0
         ELSE SlotKind(w) = SlotKind(m) /\ current_currency(w) = current_currency(m)
<1> DEFINE n == NumCurrencies(m)
           k == Len(list)
           at == {i \in DOMAIN list : list[i] = current_currency(m)}
           to == AgnosticSlots + PerCurrencySlots * (Least(at) - 1) + Offset(m.slot)
<1>1. /\ m \in Fields /\ m.slot \in Nat /\ n \in Nat /\ k \in Nat /\ k > 0
      /\ m.slot < SlotCount(n)
  <2>1. FieldsOK(m) /\ m \in Fields
    BY GoodParts DEF FieldsOK
  <2>2. n \in Nat /\ NumSlots(m) \in Nat /\ m.slot \in 0 .. NumSlots(m) - 1
    BY <2>1, FieldFacts
  <2>3. k \in Nat /\ k > 0
    BY CurrencyListsAssumption
  <2> QED BY <2>1, <2>2, <2>3 DEF NumSlots
<1>2. list # <<>>
  BY <1>1
<1>3. w.currencies = list /\ NumCurrencies(w) = k
  BY <1>1, <1>2 DEF SetCurrencies, Fields, NumCurrencies
<1>4. w.slot = IF IsFeeRateSlot(m.slot, n) THEN SlotCount(k) - 1
               ELSE IF m.slot < AgnosticSlots THEN m.slot
               ELSE IF m.slot >= SlotCount(k) \/ at = {} THEN 0
               ELSE to
  BY <1>1, <1>2 DEF SetCurrencies, Fields
<1>5. CASE IsFeeRateSlot(m.slot, n)
  <2>1. w.slot \in Nat /\ IsFeeRateSlot(w.slot, k)
    BY <1>1, <1>4, <1>5 DEF IsFeeRateSlot, SlotCount, AgnosticSlots, PerCurrencySlots
  <2> QED
    BY <1>1, <1>3, <1>5, <2>1, SlotReadings DEF SlotKind, current_currency
<1>6. CASE m.slot < AgnosticSlots
  <2>1. w.slot = m.slot
    BY <1>1, <1>4, <1>6
       DEF IsFeeRateSlot, SlotCount, AgnosticSlots, PerCurrencySlots
  <2> QED
    BY <1>1, <1>3, <1>6, <2>1, SlotReadings DEF SlotKind, current_currency
<1>7. CASE ~IsFeeRateSlot(m.slot, n) /\ ~(m.slot < AgnosticSlots)
  <2>1. IsCurrencySlot(m.slot, n) /\ m.slot >= AgnosticSlots
    BY <1>1, <1>7 DEF IsCurrencySlot, IsFeeRateSlot, SlotCount, AgnosticSlots, PerCurrencySlots
  <2>2. CASE m.slot >= SlotCount(k) \/ at = {}
    <3>1. w.slot = 0
      BY <1>4, <1>7, <2>2
    <3>2. at = {} => current_currency(m) \notin Range(w.currencies)
      BY <1>3 DEF Range
    <3>3. NumSlots(w) = SlotCount(k)
      BY <1>3 DEF NumSlots
    <3> QED BY <2>1, <2>2, <3>1, <3>2, <3>3
  <2> SUFFICES ASSUME ~(m.slot >= SlotCount(k)), at # {}
               PROVE  SlotKind(w) = SlotKind(m) /\ current_currency(w) = current_currency(m)
    <3>1. at # {} => current_currency(m) \in Range(w.currencies)
      BY <1>3 DEF Range
    <3>2. NumSlots(w) = SlotCount(k)
      BY <1>3 DEF NumSlots
    <3> QED BY <2>2, <3>1, <3>2
  <2>3. at # {} /\ w.slot = to
    BY <1>4, <1>7
  <2>4. Least(at) \in at /\ Least(at) \in 1 .. k
    <3>1. at \in SUBSET Nat
      BY CurrencyListsAssumption
    <3>2. Least(at) \in at
      BY <2>3, <3>1, LeastInSet
    <3> QED BY <3>2, CurrencyListsAssumption
  <2>5. list[Least(at)] = current_currency(m)
    BY <2>4
  <2> HIDE DEF at
  <2>6. /\ to \in Nat /\ to >= AgnosticSlots
        /\ Offset(to) = Offset(m.slot) /\ CurrencyIndex(to) = Least(at) - 1
    <3>1. Least(at) - 1 \in Nat
      BY <2>4
    <3> QED BY <1>1, <2>1, <3>1, SlotCarried
  <2>7. Offset(m.slot) \in 0 .. 2
    BY <1>1, <2>1 DEF Offset, AgnosticSlots, PerCurrencySlots
  <2>8. IsCurrencySlot(to, k)
    BY <1>1, <2>4, <2>6, <2>7 DEF IsCurrencySlot, SlotCount, AgnosticSlots, PerCurrencySlots
  <2> HIDE DEF to
  <2>9. SlotKind(w) = SlotKind(m)
    BY <1>1, <1>3, <2>3, <2>1, <2>6, <2>8, SlotReadings DEF SlotKind
  <2>10. current_currency(w) = list[Least(at)]
    <3>1. (Least(at) - 1) + 1 = Least(at)
      BY <2>4
    <3> QED BY <1>3, <2>3, <2>6, <2>8, <3>1 DEF current_currency
  <2> QED BY <2>5, <2>9, <2>10
<1> QED BY <1>5, <1>6, <1>7

(* A PATCH of screens or currencies leaves the user on the same screen,    *)
(* kind and currency, for every pair of currency lists; a screen is lost,  *)
(* to slot 0, exactly when it is a currency's, and that currency is off    *)
(* the new list or the old slot number past its end (screen_manager.cpp,   *)
(* SetCurrencies).                                                         *)
THEOREM RebuildsKeepTheScreen == Spec => RebuildKeepsScreen
<1> DEFINE Kept == DoRebuildScreens =>
                     IF ScreenIsLost THEN sm'.slot = 0 ELSE SameScreen
<1>1. IInv /\ [Next]_vars => [Kept]_vars
  <2> SUFFICES ASSUME Good(sm), DoRebuildScreens
               PROVE  IF ScreenIsLost THEN sm'.slot = 0 ELSE SameScreen
    BY DEF IInv, Good
  <2>1. PICK list \in CurrencyLists : \E plan \in Plans[Len(list)] :
          sm' = Render(SetRotationSequence(SetCurrencies(sm, list), plan))
    BY DEF DoRebuildScreens
  <2>2. PICK plan \in Plans[Len(list)] :
          sm' = Render(SetRotationSequence(SetCurrencies(sm, list), plan))
    BY <2>1
  <2> DEFINE w == SetCurrencies(sm, list)
             v == SetRotationSequence(w, plan)
  <2>3. Good(v)
    BY RebuildGood
  <2>4. v.slot = w.slot /\ v.currencies = w.currencies
    BY GoodFields DEF SetRotationSequence, SyncIndex, SetCurrencies, Fields
  <2>5. Render(v).slot = v.slot /\ Render(v).currencies = v.currencies
    <3>1. v \in Fields
      BY <2>3, GoodFields
    <3> HIDE DEF v
    <3> QED BY <3>1 DEF Render, Fields
  <2> HIDE DEF v
  <2>6. sm'.slot = w.slot /\ sm'.currencies = w.currencies
    BY <2>2, <2>4, <2>5 DEF v
  <2>7. /\ SlotKind(sm') = SlotKind(w) /\ current_currency(sm') = current_currency(w)
        /\ NumSlots(sm') = NumSlots(w)
    BY <2>6 DEF SlotKind, current_currency, NumCurrencies, NumSlots
  <2> HIDE DEF w
  <2>8. IF /\ IsCurrencySlot(sm.slot, NumCurrencies(sm))
           /\ current_currency(sm) \notin Range(w.currencies) \/ sm.slot >= NumSlots(w)
        THEN w.slot = 0
        ELSE SlotKind(w) = SlotKind(sm) /\ current_currency(w) = current_currency(sm)
    BY RebuildCarries DEF w
  <2> QED
    BY <2>6, <2>7, <2>8 DEF SameScreen, CurrencyListed, SlotPastTheEnd, ScreenIsLost
<1> QED
  BY <1>1, InductiveInvariant, PTL DEF Spec, RebuildKeepsScreen

(***************************************************************************)
(* The layout read both ways.                                              *)
(***************************************************************************)

(* The layout in numbers: ten agnostic slots, three for each of the n      *)
(* currencies, the fee rate.                                               *)
LEMMA Layout ==
  ASSUME NEW n \in Nat
  PROVE  /\ AgnosticSlots = 10 /\ PerCurrencySlots = 3
         /\ SlotCount(n) = 11 + 3 * n /\ Slots(n) = 0 .. 10 + 3 * n
         /\ \A s : IsFeeRateSlot(s, n) <=> s = 10 + 3 * n
  BY DEF AgnosticSlots, PerCurrencySlots, SlotCount, Slots, IsFeeRateSlot

(* A slot is one of the ten agnostic ones, one of the three of a currency, *)
(* or the fee rate's.                                                      *)
LEMMA SlotForms ==
  ASSUME NEW n \in Nat, NEW s \in Slots(n)
  PROVE  \/ s \in 0 .. 9
         \/ \E c \in 0 .. n - 1, o \in 0 .. 2 : s = 10 + 3 * c + o
         \/ s = 10 + 3 * n
<1>1. s \in 0 .. 10 + 3 * n
  BY Layout
<1>2. CASE s >= 10 /\ s # 10 + 3 * n
  <2> DEFINE c == (s - 10) \div 3
             o == (s - 10) % 3
  <2>1. c \in Int /\ o \in 0 .. 2 /\ s - 10 = 3 * c + o
    BY <1>1, <1>2
  <2>2. c \in 0 .. n - 1
    BY <1>1, <1>2, <2>1
  <2> HIDE DEF c, o
  <2> QED BY <1>1, <2>1, <2>2
<1> QED BY <1>1, <1>2

(* What the two readings, the API's id and the renderer's kind, give for   *)
(* a slot of each of these forms.                                          *)
LEMMA AgnosticReadings ==
  ASSUME NEW n \in Nat, NEW s \in 0 .. 9
  PROVE  ApiIdForSlot(s, n) = AgnosticApiId[s] /\ KindForSlot(s, n) = AgnosticKind[s]
<1>1. ~(s >= SlotCount(n)) /\ ~IsFeeRateSlot(s, n) /\ s < AgnosticSlots
  BY DEF AgnosticSlots, PerCurrencySlots, SlotCount, Slots, IsFeeRateSlot
<1> QED BY <1>1 DEF ApiIdForSlot, KindForSlot

LEMMA FeeRateReadings ==
  ASSUME NEW n \in Nat, NEW s, s = 10 + 3 * n
  PROVE  ApiIdForSlot(s, n) = FeeRateApiId /\ KindForSlot(s, n) = FeeRateKind
<1>1. ~(s >= SlotCount(n)) /\ IsFeeRateSlot(s, n) /\ ~(s < AgnosticSlots)
  BY DEF AgnosticSlots, PerCurrencySlots, SlotCount, Slots, IsFeeRateSlot
<1> QED BY <1>1 DEF ApiIdForSlot, KindForSlot

LEMMA CurrencyReadings ==
  ASSUME NEW n \in Nat, NEW c \in 0 .. n - 1, NEW o \in 0 .. 2,
         NEW s, s = 10 + 3 * c + o
  PROVE  /\ s \in Slots(n) /\ CurrencyIndex(s) = c
         /\ ApiIdForSlot(s, n) = PerCurrencyApiId[o]
         /\ KindForSlot(s, n) = PerCurrencyKind[o]
<1>1. ~(s >= SlotCount(n)) /\ ~IsFeeRateSlot(s, n) /\ ~(s < AgnosticSlots) /\ s \in Slots(n)
  BY DEF AgnosticSlots, PerCurrencySlots, SlotCount, Slots, IsFeeRateSlot
<1>2. Offset(s) = o /\ CurrencyIndex(s) = c
  BY DEF Offset, CurrencyIndex, AgnosticSlots, PerCurrencySlots
<1> QED BY <1>1, <1>2 DEF ApiIdForSlot, KindForSlot

(* The ids, slot by slot: no two screens share one.                        *)
LEMMA IdsApart ==
  /\ \A s, t \in 0 .. 9 : AgnosticApiId[s] = AgnosticApiId[t] => s = t
  /\ \A o, q \in 0 .. 2 : PerCurrencyApiId[o] = PerCurrencyApiId[q] => o = q
  /\ \A s \in 0 .. 9, o \in 0 .. 2 : AgnosticApiId[s] # PerCurrencyApiId[o]
  /\ \A s \in 0 .. 9 : AgnosticApiId[s] # FeeRateApiId
  /\ \A o \in 0 .. 2 : PerCurrencyApiId[o] # FeeRateApiId
  BY DEF AgnosticApiId, PerCurrencyApiId, FeeRateApiId, AgnosticSlots, PerCurrencySlots

(* So do the kinds.                                                        *)
LEMMA KindsApart ==
  /\ \A s, t \in 0 .. 9 : AgnosticKind[s] = AgnosticKind[t] => s = t
  /\ \A o, q \in 0 .. 2 : PerCurrencyKind[o] = PerCurrencyKind[q] => o = q
  /\ \A s \in 0 .. 9, o \in 0 .. 2 : AgnosticKind[s] # PerCurrencyKind[o]
  /\ \A s \in 0 .. 9 : AgnosticKind[s] # FeeRateKind
  /\ \A o \in 0 .. 2 : PerCurrencyKind[o] # FeeRateKind
  BY DEF AgnosticKind, PerCurrencyKind, FeeRateKind, AgnosticSlots, PerCurrencySlots

LEMMA Tables ==
  /\ DOMAIN AgnosticApiId = 0 .. 9
  /\ DOMAIN PerCurrencyApiId = 0 .. 2
  BY DEF AgnosticApiId, PerCurrencyApiId, AgnosticSlots, PerCurrencySlots

(* The slot an id is shown on, form by form.                               *)
LEMMA SlotOfAgnosticId ==
  ASSUME NEW n \in Nat \ {0}, NEW t \in 0 .. 9, NEW c
  PROVE  SlotForApiId(AgnosticApiId[t], n, c) = t
<1>1. {s \in DOMAIN AgnosticApiId : AgnosticApiId[s] = AgnosticApiId[t]} = {t}
  BY IdsApart, Tables
<1> QED BY <1>1, IdsApart DEF SlotForApiId

LEMMA SlotOfFeeRateId ==
  ASSUME NEW n \in Nat \ {0}, NEW c
  PROVE  SlotForApiId(FeeRateApiId, n, c) = 10 + 3 * n
  BY Layout DEF SlotForApiId

LEMMA SlotOfCurrencyId ==
  ASSUME NEW n \in Nat \ {0}, NEW o \in 0 .. 2, NEW c \in 0 .. n - 1
  PROVE  SlotForApiId(PerCurrencyApiId[o], n, c) = 10 + 3 * c + o
<1>1. {q \in DOMAIN PerCurrencyApiId : PerCurrencyApiId[q] = PerCurrencyApiId[o]} = {o}
  BY IdsApart, Tables
<1>2. {s \in DOMAIN AgnosticApiId : AgnosticApiId[s] = PerCurrencyApiId[o]} = {}
  BY IdsApart, Tables
<1>3. PerCurrencyApiId[o] # FeeRateApiId
  BY IdsApart
<1> DEFINE offset == {q \in DOMAIN PerCurrencyApiId : PerCurrencyApiId[q] = PerCurrencyApiId[o]}
<1>4. offset # {} /\ (CHOOSE q \in offset : TRUE) = o
  BY <1>1
<1>5. SlotForApiId(PerCurrencyApiId[o], n, c) =
        AgnosticSlots + PerCurrencySlots * c + (CHOOSE q \in offset : TRUE)
  BY <1>2, <1>3, <1>4 DEF SlotForApiId
<1> HIDE DEF offset
<1> QED BY <1>4, <1>5, Layout

(* Showing a screen by the id its slot has lands on that slot, and the     *)
(* renderer's kinds tell the slots apart as the ids do.                    *)
LEMMA RoundTrip ==
  ASSUME NEW n \in Nat \ {0}
  PROVE  /\ \A s \in Slots(n) : SlotForApiId(ApiIdForSlot(s, n), n, CurrencyIndex(s)) = s
         /\ \A s, t \in Slots(n) :
              (KindForSlot(s, n) = KindForSlot(t, n)) <=> (ApiIdForSlot(s, n) = ApiIdForSlot(t, n))
<1>1. ASSUME NEW s \in Slots(n)
      PROVE  SlotForApiId(ApiIdForSlot(s, n), n, CurrencyIndex(s)) = s
  <2>1. CASE s \in 0 .. 9
    BY <2>1, AgnosticReadings, SlotOfAgnosticId
  <2>2. CASE s = 10 + 3 * n
    BY <2>2, FeeRateReadings, SlotOfFeeRateId
  <2>3. CASE \E c \in 0 .. n - 1, o \in 0 .. 2 : s = 10 + 3 * c + o
    <3>1. PICK c \in 0 .. n - 1, o \in 0 .. 2 : s = 10 + 3 * c + o
      BY <2>3
    <3>2. ApiIdForSlot(s, n) = PerCurrencyApiId[o] /\ CurrencyIndex(s) = c
      BY <3>1, CurrencyReadings
    <3> QED BY <3>1, <3>2, SlotOfCurrencyId
  <2> QED BY <2>1, <2>2, <2>3, SlotForms
<1>2. ASSUME NEW s \in Slots(n), NEW t \in Slots(n)
      PROVE  (KindForSlot(s, n) = KindForSlot(t, n)) <=> (ApiIdForSlot(s, n) = ApiIdForSlot(t, n))
  <2> DEFINE Reads(x) ==
        \/ \E a \in 0 .. 9 : /\ ApiIdForSlot(x, n) = AgnosticApiId[a]
                              /\ KindForSlot(x, n) = AgnosticKind[a]
        \/ \E o \in 0 .. 2 : /\ ApiIdForSlot(x, n) = PerCurrencyApiId[o]
                              /\ KindForSlot(x, n) = PerCurrencyKind[o]
        \/ ApiIdForSlot(x, n) = FeeRateApiId /\ KindForSlot(x, n) = FeeRateKind
  <2>1. ASSUME NEW x \in Slots(n) PROVE Reads(x)
    <3>1. CASE x \in 0 .. 9
      BY <3>1, AgnosticReadings
    <3>2. CASE x = 10 + 3 * n
      BY <3>2, FeeRateReadings
    <3>3. CASE \E c \in 0 .. n - 1, o \in 0 .. 2 : x = 10 + 3 * c + o
      BY <3>3, CurrencyReadings
    <3> QED BY <3>1, <3>2, <3>3, SlotForms
  <2>2. Reads(s) /\ Reads(t)
    BY <2>1
  <2> QED BY <2>2, IdsApart, KindsApart
<1> QED BY <1>1, <1>2

(* What the slots of an id are: exactly those the builder expands it to,   *)
(* and no slot comes twice.                                                *)
LEMMA ExpandIsExact ==
  ASSUME NEW n \in Nat \ {0}, NEW id \in ApiIds
  PROVE  LET e == ExpandApiId(id, n)
         IN  /\ e \in Seq(Slots(n))
             /\ \A p \in DOMAIN e : ApiIdForSlot(e[p], n) = id
             /\ \A s \in Slots(n) : ApiIdForSlot(s, n) = id => \E p \in DOMAIN e : e[p] = s
             /\ \A p, q \in DOMAIN e : p < q => e[p] < e[q]
<1> DEFINE e == ExpandApiId(id, n)
<1>1. ASSUME NEW a \in 0 .. 9, id = AgnosticApiId[a]
      PROVE  e = <<a>>
  <2>1. ~IsPerCurrencyKind(id)
    BY <1>1, IdsApart, Tables DEF IsPerCurrencyKind
  <2>2. SlotForApiId(id, n, 0) = a
    BY <1>1, SlotOfAgnosticId
  <2> QED BY <2>1, <2>2 DEF ExpandApiId
<1>2. ASSUME id = FeeRateApiId
      PROVE  e = <<10 + 3 * n>>
  <2>1. ~IsPerCurrencyKind(id)
    BY <1>2, IdsApart, Tables DEF IsPerCurrencyKind
  <2>2. SlotForApiId(id, n, 0) = 10 + 3 * n
    BY <1>2, SlotOfFeeRateId
  <2> QED BY <2>1, <2>2 DEF ExpandApiId
<1>3. ASSUME NEW o \in 0 .. 2, id = PerCurrencyApiId[o]
      PROVE  e = [k \in 1 .. n |-> 10 + 3 * (k - 1) + o]
  <2>1. IsPerCurrencyKind(id)
    BY <1>3, Tables DEF IsPerCurrencyKind
  <2>2. \A k \in 1 .. n : SlotForApiId(id, n, k - 1) = 10 + 3 * (k - 1) + o
    <3> TAKE k \in 1 .. n
    <3>1. k - 1 \in 0 .. n - 1
      OBVIOUS
    <3> QED BY <1>3, <3>1, SlotOfCurrencyId
  <2> QED BY <2>1, <2>2 DEF ExpandApiId
<1>4. \/ \E a \in 0 .. 9 : id = AgnosticApiId[a]
      \/ \E o \in 0 .. 2 : id = PerCurrencyApiId[o]
      \/ id = FeeRateApiId
  BY Tables DEF ApiIds
<1> HIDE DEF e
<1>5. ASSUME NEW a \in 0 .. 9, id = AgnosticApiId[a]
      PROVE  /\ e \in Seq(Slots(n))
             /\ \A p \in DOMAIN e : ApiIdForSlot(e[p], n) = id
             /\ \A s \in Slots(n) : ApiIdForSlot(s, n) = id => \E p \in DOMAIN e : e[p] = s
             /\ \A p, q \in DOMAIN e : p < q => e[p] < e[q]
  <2>1. e = <<a>> /\ DOMAIN e = {1} /\ e[1] = a
    BY <1>1, <1>5
  <2>2. a \in Slots(n)
    BY DEF AgnosticSlots, PerCurrencySlots, SlotCount, Slots, IsFeeRateSlot
  <2>3. \A s \in Slots(n) : ApiIdForSlot(s, n) = id => s = a
    <3> SUFFICES ASSUME NEW s \in Slots(n), ApiIdForSlot(s, n) = id PROVE s = a
      OBVIOUS
    <3>1. SlotForApiId(ApiIdForSlot(s, n), n, CurrencyIndex(s)) = s
      BY RoundTrip
    <3> QED BY <1>5, <3>1, SlotOfAgnosticId
  <2> QED BY <1>5, <2>1, <2>2, <2>3, AgnosticReadings
<1>6. ASSUME id = FeeRateApiId
      PROVE  /\ e \in Seq(Slots(n))
             /\ \A p \in DOMAIN e : ApiIdForSlot(e[p], n) = id
             /\ \A s \in Slots(n) : ApiIdForSlot(s, n) = id => \E p \in DOMAIN e : e[p] = s
             /\ \A p, q \in DOMAIN e : p < q => e[p] < e[q]
  <2> DEFINE a == 10 + 3 * n
  <2>1. e = <<a>> /\ DOMAIN e = {1} /\ e[1] = a
    BY <1>2, <1>6
  <2>2. a \in Slots(n)
    BY DEF AgnosticSlots, PerCurrencySlots, SlotCount, Slots, IsFeeRateSlot
  <2>3. \A s \in Slots(n) : ApiIdForSlot(s, n) = id => s = a
    <3> SUFFICES ASSUME NEW s \in Slots(n), ApiIdForSlot(s, n) = id PROVE s = a
      OBVIOUS
    <3>1. SlotForApiId(ApiIdForSlot(s, n), n, CurrencyIndex(s)) = s
      BY RoundTrip
    <3> QED BY <1>6, <3>1, SlotOfFeeRateId
  <2>4. ApiIdForSlot(a, n) = id
    BY <1>6, FeeRateReadings
  <2> HIDE DEF a
  <2> QED BY <2>1, <2>2, <2>3, <2>4
<1>7. ASSUME NEW o \in 0 .. 2, id = PerCurrencyApiId[o]
      PROVE  /\ e \in Seq(Slots(n))
             /\ \A p \in DOMAIN e : ApiIdForSlot(e[p], n) = id
             /\ \A s \in Slots(n) : ApiIdForSlot(s, n) = id => \E p \in DOMAIN e : e[p] = s
             /\ \A p, q \in DOMAIN e : p < q => e[p] < e[q]
  <2>1. e = [k \in 1 .. n |-> 10 + 3 * (k - 1) + o]
    BY <1>3, <1>7
  <2>2. \A k \in 1 .. n : e[k] \in Slots(n) /\ ApiIdForSlot(e[k], n) = id
    <3> TAKE k \in 1 .. n
    <3>1. k - 1 \in 0 .. n - 1 /\ e[k] = 10 + 3 * (k - 1) + o
      BY <2>1
    <3> HIDE <2>1
    <3> QED BY <1>7, <3>1, CurrencyReadings
  <2>3. e \in Seq(Slots(n)) /\ DOMAIN e = 1 .. n
    BY <2>1, <2>2
  <2>4. ASSUME NEW s \in Slots(n), ApiIdForSlot(s, n) = id
        PROVE  \E k \in 1 .. n : e[k] = s
    <3>1. CASE s \in 0 .. 9
      BY <1>7, <2>4, <3>1, AgnosticReadings, IdsApart
    <3>2. CASE s = 10 + 3 * n
      BY <1>7, <2>4, <3>2, FeeRateReadings, IdsApart
    <3>3. CASE \E c \in 0 .. n - 1, q \in 0 .. 2 : s = 10 + 3 * c + q
      <4>1. PICK c \in 0 .. n - 1, q \in 0 .. 2 : s = 10 + 3 * c + q
        BY <3>3
      <4>2. q = o
        <5>1. PerCurrencyApiId[q] = PerCurrencyApiId[o]
          BY <1>7, <2>4, <4>1, CurrencyReadings
        <5> QED BY <5>1, IdsApart
      <4>3. c + 1 \in 1 .. n /\ e[c + 1] = s
        BY <2>1, <4>1, <4>2
      <4> QED BY <4>3
    <3> QED BY <3>1, <3>2, <3>3, SlotForms
  <2>5. \A p, q \in 1 .. n : p < q => e[p] < e[q]
    BY <2>1
  <2> QED BY <2>2, <2>3, <2>4, <2>5
<1> QED BY <1>4, <1>5, <1>6, <1>7 DEF e

(***************************************************************************)
(* Recursion over an interval, and lists flattened.                        *)
(***************************************************************************)

(* What holds of the first index of an interval and passes from each index *)
(* to the next holds of all of them.                                       *)
LEMMA UpTo ==
  ASSUME NEW b \in Nat, NEW N \in Nat, NEW G, b \in G,
         \A i \in b .. N - 1 : i \in G => i + 1 \in G
  PROVE  \A i \in b .. N : i \in G
<1> DEFINE S == {i \in b .. N : i \notin G}
<1>1. SUFFICES ASSUME S # {} PROVE FALSE
  BY DEF S
<1>2. S \in SUBSET Nat
  OBVIOUS
<1>3. Least(S) \in S /\ \A j \in S : Least(S) <= j
  BY <1>1, <1>2, LeastIsMinimal
<1> DEFINE k == Least(S)
<1>4. k \in b .. N /\ k \notin G /\ k # b
  BY <1>3
<1> HIDE DEF k
<1>5. k - 1 \in b .. N - 1 /\ (k - 1) + 1 = k /\ k - 1 \in b .. N
  BY <1>4
<1>6. k - 1 \notin G
  BY <1>4, <1>5
<1>7. k - 1 \in S /\ ~(k <= k - 1)
  BY <1>4, <1>5, <1>6
<1> QED BY <1>3, <1>7 DEF k

(* f starts as a at index b and applies one step of F after the other.     *)
Iterates(f, F, a, b, N, P) ==
  f \in [b .. N -> P] /\ f[b] = a /\ \A i \in b .. N - 1 : f[i + 1] = F[i][f[i]]

(* A definition by recursion over b .. N has a value.                      *)
LEMMA RecursionHasValue ==
  ASSUME NEW P, NEW N \in Nat, NEW b \in 0 .. N, NEW a \in P,
         NEW F \in [Nat -> [P -> P]]
  PROVE  \E f : Iterates(f, F, a, b, N, P)
<1> DEFINE Solves(f, k) == f[b] = a /\ \A i \in b .. k - 1 : f[i + 1] = F[i][f[i]]
           G == {k \in b .. N : \E f \in [b .. k -> P] : Solves(f, k)}
<1>1. b \in G
  <2> DEFINE f == [i \in b .. b |-> a]
  <2>1. f \in [b .. b -> P] /\ f[b] = a /\ b .. b - 1 = {}
    OBVIOUS
  <2> HIDE DEF f
  <2>2. Solves(f, b) /\ b \in b .. N
    BY <2>1
  <2> QED BY <2>1, <2>2
<1>2. ASSUME NEW k \in b .. N - 1, k \in G
      PROVE  k + 1 \in G
  <2>1. PICK f \in [b .. k -> P] : Solves(f, k)
    BY <1>2
  <2> DEFINE next == F[k][f[k]]
             g == [i \in b .. k + 1 |-> IF i = k + 1 THEN next ELSE f[i]]
  <2>2. next \in P
    <3>1. F[k] \in [P -> P] /\ f[k] \in P
      OBVIOUS
    <3> QED BY <3>1
  <2>3. g \in [b .. k + 1 -> P] /\ g[k + 1] = next /\ \A i \in b .. k : g[i] = f[i]
    BY <2>2
  <2>4. g[b] = a
    BY <2>1, <2>3
  <2>5. ASSUME NEW i \in b .. k
        PROVE  g[i + 1] = F[i][g[i]]
    <3>1. CASE i = k
      BY <2>3, <3>1
    <3>2. CASE i # k
      <4>1. i \in b .. k - 1 /\ i + 1 \in b .. k
        BY <3>2
      <4> QED BY <2>1, <2>3, <4>1
    <3> QED BY <3>1, <3>2
  <2> HIDE DEF g
  <2>6. Solves(g, k + 1) /\ k + 1 \in b .. N
    BY <2>4, <2>5
  <2> QED BY <2>3, <2>6
<1> HIDE DEF G
<1>3. N \in G
  <2>1. b \in Nat /\ N \in b .. N
    OBVIOUS
  <2> QED BY <1>1, <1>2, <2>1, UpTo
<1> QED BY <1>3 DEF G, Iterates

(* A flattened list, prefix by prefix.                                     *)
LEMMA FlattenUnfolds ==
  ASSUME NEW S, NEW seqs \in Seq(Seq(S)), Len(seqs) # 0
  PROVE  \E f \in [1 .. Len(seqs) -> Seq(S)] :
           /\ FlattenSeq(seqs) = f[Len(seqs)]
           /\ f[1] = seqs[1]
           /\ \A i \in 1 .. Len(seqs) - 1 : f[i + 1] = f[i] \o seqs[i + 1]
<1> DEFINE N == Len(seqs)
           F == [i \in Nat |-> [s \in Seq(S) |-> IF i \in 1 .. N - 1 THEN s \o seqs[i + 1] ELSE s]]
           Body(f) == [i \in 1 .. N |-> IF i = 1 THEN seqs[i] ELSE f[i - 1] \o seqs[i]]
           flat == CHOOSE f : f = Body(f)
<1>1. N \in Nat /\ N >= 1 /\ \A i \in 1 .. N : seqs[i] \in Seq(S)
  OBVIOUS
<1>2. \A i \in 1 .. N - 1 : \A s \in Seq(S) : s \o seqs[i + 1] \in Seq(S)
  BY <1>1, ConcatProperties
<1>3. F \in [Nat -> [Seq(S) -> Seq(S)]]
  BY <1>2
<1> HIDE DEF N
<1>4. PICK f \in [1 .. N -> Seq(S)] :
        f[1] = seqs[1] /\ \A i \in 1 .. N - 1 : f[i + 1] = F[i][f[i]]
  <2> HIDE DEF F
  <2>1. seqs[1] \in Seq(S) /\ 1 \in 0 .. N /\ N \in Nat
    BY <1>1
  <2>2. \E f : Iterates(f, F, seqs[1], 1, N, Seq(S))
    BY <1>3, <2>1, RecursionHasValue
  <2> QED BY <2>2 DEF Iterates
<1>5. f = Body(f)
  <2>1. ASSUME NEW i \in 1 .. N, i # 1
        PROVE  f[i] = f[i - 1] \o seqs[i]
    <3>1. i - 1 \in 1 .. N - 1 /\ i - 1 \in 1 .. N /\ (i - 1) + 1 = i
      BY <1>1, <2>1
    <3>2. f[i - 1] \in Seq(S) /\ f[(i - 1) + 1] = F[i - 1][f[i - 1]]
      BY <1>4, <3>1
    <3>3. F[i - 1][f[i - 1]] = f[i - 1] \o seqs[(i - 1) + 1]
      <4> DEFINE j == i - 1
                 s == f[j]
      <4>1. j \in 1 .. N - 1 /\ j \in Nat /\ s \in Seq(S)
        BY <3>1, <3>2
      <4> HIDE DEF j, s
      <4>2. F[j][s] = s \o seqs[j + 1]
        BY <4>1
      <4> QED BY <4>2 DEF j, s
    <3> HIDE DEF F
    <3> QED BY <3>1, <3>2, <3>3
  <2> HIDE DEF F
  <2>2. \A i \in 1 .. N : f[i] = IF i = 1 THEN seqs[i] ELSE f[i - 1] \o seqs[i]
    BY <1>4, <2>1
  <2> QED BY <2>2
<1>6. flat = Body(flat)
  <2> HIDE DEF Body
  <2> QED BY <1>5
<1>7. FlattenSeq(seqs) = flat[N]
  BY DEF FlattenSeq, N
<1> HIDE DEF flat, F
<1>8. flat[1] = seqs[1]
  BY <1>1, <1>6
<1>9. ASSUME NEW i \in 1 .. N - 1
      PROVE  flat[i + 1] = flat[i] \o seqs[i + 1]
  <2>1. i + 1 \in 1 .. N /\ i + 1 # 1 /\ (i + 1) - 1 = i
    BY <1>1
  <2>2. flat[i + 1] = flat[(i + 1) - 1] \o seqs[i + 1]
    BY <1>6, <2>1
  <2> QED BY <2>1, <2>2
<1>10. flat \in [1 .. N -> Seq(S)]
  <2> DEFINE G == {i \in 1 .. N : flat[i] \in Seq(S)}
  <2>1. 1 \in G
    BY <1>1, <1>8
  <2>2. ASSUME NEW i \in 1 .. N - 1, i \in G PROVE i + 1 \in G
    <3>1. flat[i + 1] \in Seq(S)
      BY <1>2, <1>9, <2>2
    <3> QED BY <1>1, <3>1
  <2> HIDE DEF G
  <2>3. \A i \in 1 .. N : i \in G
    BY <1>1, <2>1, <2>2, UpTo
  <2> QED BY <1>6, <2>3 DEF G
<1> QED BY <1>7, <1>8, <1>9, <1>10 DEF N

(* The elements of a flattened list are the elements of its members.       *)
LEMMA FlattenMembers ==
  ASSUME NEW S, NEW seqs \in Seq(Seq(S))
  PROVE  /\ FlattenSeq(seqs) \in Seq(S)
         /\ Range(FlattenSeq(seqs)) = UNION {Range(seqs[k]) : k \in DOMAIN seqs}
<1>1. CASE Len(seqs) = 0
  <2>1. seqs = <<>> /\ FlattenSeq(seqs) = seqs
    BY <1>1 DEF FlattenSeq
  <2>2. DOMAIN <<>> = {} /\ <<>> \in Seq(S) /\ Range(<<>>) = {}
    BY DEF Range
  <2> QED BY <2>1, <2>2
<1>2. CASE Len(seqs) # 0
  <2> DEFINE N == Len(seqs)
  <2>1. N \in Nat /\ N >= 1 /\ DOMAIN seqs = 1 .. N /\ \A i \in 1 .. N : seqs[i] \in Seq(S)
    BY <1>2
  <2>2. PICK f \in [1 .. N -> Seq(S)] :
           /\ FlattenSeq(seqs) = f[N]
           /\ f[1] = seqs[1]
           /\ \A i \in 1 .. N - 1 : f[i + 1] = f[i] \o seqs[i + 1]
    BY <1>2, FlattenUnfolds
  <2> HIDE DEF N
  <2> DEFINE Holds(i) == Range(f[i]) = UNION {Range(seqs[k]) : k \in 1 .. i}
             G == {i \in 1 .. N : Holds(i)}
  <2>3. 1 \in G
    <3>1. \A k \in 1 .. 1 : k = 1
      OBVIOUS
    <3>2. Holds(1)
      BY <2>2, <3>1
    <3>3. 1 \in 1 .. N
      BY <2>1
    <3> HIDE DEF Holds
    <3> QED BY <3>2, <3>3
  <2>4. ASSUME NEW i \in 1 .. N - 1, i \in G
        PROVE  i + 1 \in G
    <3>1. i \in 1 .. N /\ i + 1 \in 1 .. N /\ f[i] \in Seq(S) /\ seqs[i + 1] \in Seq(S)
      BY <2>1
    <3>2. Range(f[i] \o seqs[i + 1]) = Range(f[i]) \cup Range(seqs[i + 1])
      BY <3>1, RangeConcatenation
    <3>3. \A k : k \in 1 .. i + 1 <=> k \in 1 .. i \/ k = i + 1
      BY <2>1
    <3>4. Holds(i + 1)
      BY <2>2, <2>4, <3>2, <3>3
    <3> QED BY <3>1, <3>4
  <2> HIDE DEF G
  <2>5. N \in G
    <3>1. 1 \in Nat /\ N \in 1 .. N
      BY <2>1
    <3> QED BY <2>1, <2>3, <2>4, <3>1, UpTo
  <2>6. Holds(N)
    BY <2>5 DEF G
  <2>7. f[N] \in Seq(S)
    BY <2>1
  <2> QED BY <2>1, <2>2, <2>6, <2>7
<1> QED BY <1>1, <1>2

(* When each member has a rank of its own and increases, the whole list    *)
(* increases, by rank first.                                               *)
LEMMA FlattenOrdered ==
  ASSUME NEW S \in SUBSET Int, NEW seqs \in Seq(Seq(S)), NEW rank \in [S -> Int],
         \A k \in DOMAIN seqs : \A p \in DOMAIN seqs[k] : rank[seqs[k][p]] = k,
         \A k \in DOMAIN seqs : \A p, q \in DOMAIN seqs[k] : p < q => seqs[k][p] < seqs[k][q]
  PROVE  LET e == FlattenSeq(seqs)
         IN  \A p, q \in DOMAIN e : p < q =>
               rank[e[p]] < rank[e[q]] \/ (rank[e[p]] = rank[e[q]] /\ e[p] < e[q])
<1>1. CASE Len(seqs) = 0
  <2>1. seqs = <<>> /\ FlattenSeq(seqs) = seqs
    BY <1>1 DEF FlattenSeq
  <2>2. DOMAIN <<>> = {} /\ <<>> \in Seq(S)
    OBVIOUS
  <2> QED BY <2>1, <2>2
<1>2. CASE Len(seqs) # 0
  <2> DEFINE N == Len(seqs)
  <2>1. N \in Nat /\ N >= 1 /\ DOMAIN seqs = 1 .. N /\ \A i \in 1 .. N : seqs[i] \in Seq(S)
    BY <1>2
  <2>2. PICK f \in [1 .. N -> Seq(S)] :
           /\ FlattenSeq(seqs) = f[N]
           /\ f[1] = seqs[1]
           /\ \A i \in 1 .. N - 1 : f[i + 1] = f[i] \o seqs[i + 1]
    BY <1>2, FlattenUnfolds
  <2> HIDE DEF N
  <2> DEFINE Before(x, y) == rank[x] < rank[y] \/ (rank[x] = rank[y] /\ x < y)
             Below(i) == \A p \in DOMAIN f[i] : rank[f[i][p]] <= i
             Sorted(i) == \A p, q \in DOMAIN f[i] : p < q => Before(f[i][p], f[i][q])
             G == {i \in 1 .. N : Below(i) /\ Sorted(i)}
  <2>3. 1 \in G
    <3>1. 1 \in DOMAIN seqs /\ 1 \in 1 .. N
      BY <2>1
    <3>2. /\ \A p \in DOMAIN seqs[1] : rank[seqs[1][p]] = 1
          /\ \A p, q \in DOMAIN seqs[1] : p < q => seqs[1][p] < seqs[1][q]
      BY <3>1
    <3>3. Below(1)
      BY <2>2, <3>2
    <3>4. Sorted(1)
      BY <2>2, <3>2
    <3> HIDE DEF Below, Sorted
    <3> QED BY <3>1, <3>3, <3>4
  <2>4. ASSUME NEW i \in 1 .. N - 1, i \in G
        PROVE  i + 1 \in G
    <3> DEFINE s == f[i]
               t == seqs[i + 1]
               e == f[i + 1]
    <3>1. i \in Nat /\ i \in 1 .. N /\ i + 1 \in 1 .. N /\ s \in Seq(S) /\ t \in Seq(S)
      BY <2>1
    <3>2. /\ \A p \in DOMAIN t : rank[t[p]] = i + 1
          /\ \A p, q \in DOMAIN t : p < q => t[p] < t[q]
      BY <2>1, <3>1
    <3>3. /\ \A p \in DOMAIN s : rank[s[p]] <= i
          /\ \A p, q \in DOMAIN s : p < q => Before(s[p], s[q])
      BY <2>4
    <3>4. e = s \o t
      BY <2>2
    <3> HIDE DEF s, t, e, G
    <3>5. /\ DOMAIN s = 1 .. Len(s) /\ DOMAIN t = 1 .. Len(t) /\ Len(s) \in Nat /\ Len(t) \in Nat
          /\ DOMAIN e = 1 .. Len(s) + Len(t)
          /\ \A p \in DOMAIN e : e[p] = IF p <= Len(s) THEN s[p] ELSE t[p - Len(s)]
      <4>1. e \in Seq(S) /\ Len(e) = Len(s) + Len(t)
        BY <3>1, <3>4, ConcatProperties
      <4> QED BY <3>1, <3>4, <4>1, ConcatProperties
    <3>6. ASSUME NEW p \in DOMAIN e
          PROVE  \/ p \in DOMAIN s /\ e[p] = s[p] /\ rank[e[p]] \in Int /\ rank[e[p]] <= i
                 \/ /\ p > Len(s) /\ p - Len(s) \in DOMAIN t
                    /\ e[p] = t[p - Len(s)] /\ rank[e[p]] = i + 1
      <4>1. CASE p <= Len(s)
        <5>1. p \in DOMAIN s /\ e[p] = s[p]
          BY <3>5, <4>1
        <5>2. s[p] \in S
          BY <3>1, <5>1
        <5> QED BY <3>3, <5>1, <5>2
      <4>2. CASE ~(p <= Len(s))
        BY <3>2, <3>5, <4>2
      <4> QED BY <4>1, <4>2
    <3>7. ASSUME NEW p \in DOMAIN e PROVE rank[e[p]] <= i + 1
      <4>1. (rank[e[p]] \in Int /\ rank[e[p]] <= i) \/ rank[e[p]] = i + 1
        BY <3>6
      <4>2. i \in Int
        OBVIOUS
      <4> QED BY <4>1, <4>2
    <3>8. ASSUME NEW p \in DOMAIN e, NEW q \in DOMAIN e, p < q
          PROVE  Before(e[p], e[q])
      <4>1. CASE p \in DOMAIN s /\ q \in DOMAIN s
        <5>1. e[p] = s[p] /\ e[q] = s[q]
          BY <3>5, <4>1
        <5> HIDE DEF Before
        <5> QED BY <3>3, <3>8, <4>1, <5>1
      <4>2. CASE p \in DOMAIN s /\ ~(q \in DOMAIN s)
        <5>1. rank[e[p]] \in Int /\ rank[e[p]] <= i
          BY <3>5, <3>6, <4>2
        <5>2. rank[e[q]] = i + 1
          BY <3>6, <4>2
        <5>3. i \in Int
          OBVIOUS
        <5>4. rank[e[p]] < rank[e[q]]
          BY <5>1, <5>2, <5>3
        <5> QED BY <5>4
      <4>3. CASE ~(p \in DOMAIN s)
        <5>1. p > Len(s) /\ p - Len(s) \in DOMAIN t /\ e[p] = t[p - Len(s)] /\ rank[e[p]] = i + 1
          BY <3>6, <4>3
        <5>2. q > Len(s)
          BY <3>5, <3>8, <5>1
        <5>3. q - Len(s) \in DOMAIN t /\ e[q] = t[q - Len(s)] /\ rank[e[q]] = i + 1
          BY <3>5, <3>6, <5>2
        <5>4. p - Len(s) < q - Len(s)
          BY <3>5, <3>8
        <5> QED BY <3>2, <5>1, <5>3, <5>4
      <4> QED BY <4>1, <4>2, <4>3
    <3> HIDE DEF Before
    <3> QED BY <3>1, <3>7, <3>8 DEF G, e
  <2> HIDE DEF G
  <2>5. N \in G
    <3>1. 1 \in Nat /\ N \in 1 .. N
      BY <2>1
    <3> QED BY <2>1, <2>3, <2>4, <3>1, UpTo
  <2>6. Sorted(N)
    BY <2>5 DEF G
  <2> QED BY <2>2, <2>6
<1> QED BY <1>1, <1>2

(***************************************************************************)
(* The plan of the rotation.                                               *)
(***************************************************************************)

(* Every slot of the layout has a known id.                                *)
LEMMA SlotsHaveIds ==
  ASSUME NEW n \in Nat, NEW s \in Slots(n)
  PROVE  ApiIdForSlot(s, n) \in ApiIds
<1>1. CASE s \in 0 .. 9
  BY <1>1, AgnosticReadings, Tables DEF ApiIds
<1>2. CASE s = 10 + 3 * n
  BY <1>2, FeeRateReadings DEF ApiIds
<1>3. CASE \E c \in 0 .. n - 1, o \in 0 .. 2 : s = 10 + 3 * c + o
  <2>1. PICK c \in 0 .. n - 1, o \in 0 .. 2 : s = 10 + 3 * c + o
    BY <1>3
  <2>2. ApiIdForSlot(s, n) = PerCurrencyApiId[o]
    BY <2>1, CurrencyReadings
  <2> QED BY <2>2, Tables DEF ApiIds
<1> QED BY <1>1, <1>2, <1>3, SlotForms

(* The slots a plan is asked for: an enabled screen the order names, any   *)
(* enabled one without an order.                                           *)
Wanted(order, enabled, n) ==
  {s \in Slots(n) : /\ ApiIdForSlot(s, n) \in enabled
                    /\ order = <<>> \/ ApiIdForSlot(s, n) \in Range(order)}

(* What the turns of the builder's loop append: wanted slots only, every   *)
(* wanted slot, and each turn the slots of its own screen, in order.       *)
TurnsOK(a, order, enabled, n) ==
  /\ a \in Seq(Seq(Slots(n)))
  /\ \A k \in DOMAIN a : \A p \in DOMAIN a[k] :
       /\ a[k][p] \in Wanted(order, enabled, n)
       /\ order = <<>> => a[k][p] = k - 1
       /\ order # <<>> => k \in DOMAIN order /\ ApiIdForSlot(a[k][p], n) = order[k]
  /\ \A k \in DOMAIN a : \A p, q \in DOMAIN a[k] : p < q => a[k][p] < a[k][q]
  /\ \A s \in Wanted(order, enabled, n) : \E k \in DOMAIN a : \E p \in DOMAIN a[k] : a[k][p] = s

(* The turns of the builder's loop on a fresh device.                      *)
LEMMA TurnsWithoutOrder ==
  ASSUME NEW n \in Nat \ {0}, NEW enabled, NEW a, a = Appended(<<>>, enabled, n)
  PROVE  TurnsOK(a, <<>>, enabled, n)
<1>1. a = [i \in 1 .. SlotCount(n) |->
             IF ApiIdForSlot(i - 1, n) \in enabled THEN <<i - 1>> ELSE <<>>]
  BY DEF Appended
<1>2. SlotCount(n) \in Nat /\ \A i \in 1 .. SlotCount(n) : i - 1 \in Slots(n)
  BY DEF SlotCount, Slots, AgnosticSlots, PerCurrencySlots
<1>3. ASSUME NEW i \in 1 .. SlotCount(n) PROVE a[i] \in Seq(Slots(n))
  <2>1. a[i] = <<i - 1>> \/ a[i] = <<>>
    BY <1>1
  <2>2. i - 1 \in Slots(n)
    BY <1>2
  <2>3. <<i - 1>> \in Seq(Slots(n)) /\ <<>> \in Seq(Slots(n))
    BY <2>2
  <2> QED BY <2>1, <2>3
<1>4. a \in Seq(Seq(Slots(n))) /\ DOMAIN a = 1 .. SlotCount(n)
  BY <1>1, <1>2, <1>3
<1>5. ASSUME NEW k \in 1 .. SlotCount(n), NEW p \in DOMAIN a[k]
      PROVE  p = 1 /\ a[k][p] = k - 1 /\ ApiIdForSlot(a[k][p], n) \in enabled
  <2>1. CASE ApiIdForSlot(k - 1, n) \in enabled
    <3>1. a[k] = <<k - 1>>
      BY <1>1, <2>1
    <3> QED BY <2>1, <3>1
  <2>2. CASE ApiIdForSlot(k - 1, n) \notin enabled
    <3>1. a[k] = <<>>
      BY <1>1, <2>2
    <3> QED BY <3>1
  <2> QED BY <2>1, <2>2
<1>6. ASSUME NEW s \in Slots(n), ApiIdForSlot(s, n) \in enabled
      PROVE  \E k \in DOMAIN a : \E p \in DOMAIN a[k] : a[k][p] = s
  <2> DEFINE k == s + 1
  <2>1. k \in 1 .. SlotCount(n) /\ k - 1 = s
    BY DEF SlotCount, Slots, AgnosticSlots, PerCurrencySlots
  <2> HIDE DEF k
  <2>2. a[k] = <<s>>
    BY <1>1, <1>6, <2>1
  <2>3. 1 \in DOMAIN a[k] /\ a[k][1] = s
    BY <2>2
  <2> QED BY <1>4, <2>1, <2>3
<1>7. ASSUME NEW k \in 1 .. SlotCount(n), NEW p \in DOMAIN a[k], NEW q \in DOMAIN a[k]
      PROVE  ~(p < q)
  <2>1. p = 1 /\ q = 1
    BY <1>5
  <2> QED BY <2>1
<1>8. ASSUME NEW k \in DOMAIN a, NEW p \in DOMAIN a[k]
      PROVE  a[k][p] \in Wanted(<<>>, enabled, n) /\ a[k][p] = k - 1
  <2>1. a[k][p] \in Slots(n)
    BY <1>3, <1>4
  <2> QED BY <1>4, <1>5, <2>1 DEF Wanted
<1>9. \A s \in Wanted(<<>>, enabled, n) : \E k \in DOMAIN a : \E p \in DOMAIN a[k] : a[k][p] = s
  BY <1>6 DEF Wanted
<1> QED BY <1>4, <1>7, <1>8, <1>9 DEF TurnsOK

(* The turns of the builder's loop over the user's order.                  *)
LEMMA TurnsOfOrder ==
  ASSUME NEW n \in Nat \ {0}, NEW enabled \in SUBSET ApiIds,
         NEW order \in Seq(ApiIds), order # <<>>,
         NEW a, a = Appended(order, enabled, n)
  PROVE  TurnsOK(a, order, enabled, n)
<1>1. a = [i \in 1 .. Len(order) |->
             IF order[i] \in enabled THEN ExpandApiId(order[i], n) ELSE <<>>]
  BY DEF Appended
<1>2. Len(order) \in Nat /\ DOMAIN order = 1 .. Len(order)
      /\ \A i \in 1 .. Len(order) : order[i] \in ApiIds
  OBVIOUS
<1>3. ASSUME NEW k \in 1 .. Len(order)
      PROVE  /\ a[k] \in Seq(Slots(n))
             /\ \A p \in DOMAIN a[k] :
                  ApiIdForSlot(a[k][p], n) = order[k] /\ order[k] \in enabled
             /\ \A p, q \in DOMAIN a[k] : p < q => a[k][p] < a[k][q]
             /\ order[k] \in enabled => a[k] = ExpandApiId(order[k], n)
  <2>1. CASE order[k] \in enabled
    <3>1. a[k] = ExpandApiId(order[k], n) /\ order[k] \in ApiIds
      BY <1>1, <1>2, <2>1
    <3> HIDE <1>1
    <3> DEFINE e == ExpandApiId(order[k], n)
    <3>2. /\ e \in Seq(Slots(n))
          /\ \A p \in DOMAIN e : ApiIdForSlot(e[p], n) = order[k]
          /\ \A p, q \in DOMAIN e : p < q => e[p] < e[q]
      BY <3>1, ExpandIsExact
    <3> QED BY <2>1, <3>1, <3>2
  <2>2. CASE order[k] \notin enabled
    <3>1. a[k] = <<>> /\ DOMAIN a[k] = {}
      BY <1>1, <2>2
    <3> QED BY <2>2, <3>1
  <2> QED BY <2>1, <2>2
<1>4. a \in Seq(Seq(Slots(n))) /\ DOMAIN a = 1 .. Len(order)
  BY <1>1, <1>2, <1>3
<1>5. ASSUME NEW s \in Slots(n), ApiIdForSlot(s, n) \in enabled \cap Range(order)
      PROVE  \E k \in DOMAIN a : \E p \in DOMAIN a[k] : a[k][p] = s
  <2>1. PICK k \in 1 .. Len(order) : order[k] = ApiIdForSlot(s, n)
    BY <1>2, <1>5 DEF Range
  <2>2. a[k] = ExpandApiId(order[k], n)
    BY <1>3, <1>5, <2>1
  <2>3. \E p \in DOMAIN a[k] : a[k][p] = s
    BY <1>2, <2>1, <2>2, ExpandIsExact
  <2> QED BY <1>4, <2>3
<1>6. ASSUME NEW k \in DOMAIN a, NEW p \in DOMAIN a[k]
      PROVE  /\ a[k][p] \in Wanted(order, enabled, n)
             /\ k \in DOMAIN order /\ ApiIdForSlot(a[k][p], n) = order[k]
  <2>1. a[k][p] \in Slots(n)
    BY <1>3, <1>4
  <2>2. k \in DOMAIN order /\ ApiIdForSlot(a[k][p], n) = order[k] /\ order[k] \in enabled
    BY <1>2, <1>3, <1>4
  <2>3. order[k] \in Range(order)
    BY <2>2 DEF Range
  <2> QED BY <2>1, <2>2, <2>3 DEF Wanted
<1>7. ASSUME NEW s \in Wanted(order, enabled, n)
      PROVE  \E k \in DOMAIN a : \E p \in DOMAIN a[k] : a[k][p] = s
  <2>1. s \in Slots(n) /\ ApiIdForSlot(s, n) \in enabled \cap Range(order)
    BY <1>7 DEF Wanted
  <2> QED BY <1>5, <2>1
<1> QED BY <1>3, <1>4, <1>6, <1>7 DEF TurnsOK

(* Both loops append what is wanted, and nothing else.                     *)
LEMMA TurnsAreExact ==
  ASSUME NEW n \in Nat \ {0}, NEW enabled \in SUBSET ApiIds, NEW order \in Seq(ApiIds)
  PROVE  TurnsOK(Appended(order, enabled, n), order, enabled, n)
<1>1. CASE order = <<>>
  BY <1>1, TurnsWithoutOrder
<1>2. CASE order # <<>>
  BY <1>2, TurnsOfOrder
<1> QED BY <1>1, <1>2

(* The rotation is never empty and has exactly the slots it is asked for.  *)
LEMMA PlanMembers ==
  ASSUME NEW n \in Nat \ {0}, NEW enabled \in SUBSET ApiIds, NEW order \in Seq(ApiIds),
         NEW plan, plan = BuildRotationSequence(order, enabled, n)
  PROVE  /\ plan \in Seq(Slots(n)) /\ plan # <<>> /\ Len(plan) > 0
         /\ Range(plan) = IF Wanted(order, enabled, n) = {} THEN {0}
                          ELSE Wanted(order, enabled, n)
<1> DEFINE a == Appended(order, enabled, n)
           flat == FlattenSeq(a)
           want == Wanted(order, enabled, n)
<1>1. /\ a \in Seq(Seq(Slots(n)))
      /\ \A k \in DOMAIN a : \A p \in DOMAIN a[k] : a[k][p] \in want
      /\ \A s \in want : \E k \in DOMAIN a : \E p \in DOMAIN a[k] : a[k][p] = s
  BY TurnsAreExact DEF TurnsOK
<1> HIDE DEF a, want
<1>2. /\ flat \in Seq(Slots(n))
      /\ Range(flat) = UNION {Range(a[k]) : k \in DOMAIN a}
  BY <1>1, FlattenMembers
<1>3. plan = IF flat = <<>> THEN <<0>> ELSE flat
  BY DEF BuildRotationSequence, a
<1> HIDE DEF flat
<1>4. Range(flat) = want
  <2>1. ASSUME NEW k \in DOMAIN a PROVE Range(a[k]) \subseteq want
    BY <1>1 DEF Range
  <2>2. ASSUME NEW s \in want PROVE \E k \in DOMAIN a : s \in Range(a[k])
    BY <1>1 DEF Range
  <2> QED BY <1>2, <2>1, <2>2
<1>5. CASE flat = <<>>
  <2>1. want = {}
    BY <1>4, <1>5 DEF Range
  <2>2. plan = <<0>> /\ Range(plan) = {0} /\ Len(plan) > 0
    BY <1>3, <1>5 DEF Range
  <2>3. 0 \in Slots(n)
    BY DEF Slots, SlotCount, AgnosticSlots, PerCurrencySlots
  <2> QED BY <2>1, <2>2, <2>3 DEF want
<1>6. CASE flat # <<>>
  <2>1. plan = flat /\ Len(flat) > 0 /\ 1 \in DOMAIN flat
    BY <1>2, <1>3, <1>6
  <2>2. want # {}
    BY <1>4, <2>1 DEF Range
  <2> QED BY <1>2, <1>4, <1>6, <2>1, <2>2 DEF want
<1> QED BY <1>5, <1>6

(* Where the user's order has the screen of a slot.                        *)
RankOf(order, s, n) ==
  IF order = <<>> THEN s
  ELSE CHOOSE k \in DOMAIN order : order[k] = ApiIdForSlot(s, n)

(* The rotation follows the user's order.                                  *)
LEMMA PlanSorted ==
  ASSUME NEW n \in Nat \ {0}, NEW enabled \in SUBSET ApiIds, NEW order \in Seq(ApiIds),
         IsInjective(order),
         NEW plan, plan = BuildRotationSequence(order, enabled, n)
  PROVE  \A i, j \in DOMAIN plan : i < j =>
           \/ RankOf(order, plan[i], n) < RankOf(order, plan[j], n)
           \/ RankOf(order, plan[i], n) = RankOf(order, plan[j], n) /\ plan[i] < plan[j]
<1> DEFINE a == Appended(order, enabled, n)
           flat == FlattenSeq(a)
           S == UNION {Range(a[k]) : k \in DOMAIN a}
           shift == IF order = <<>> THEN 1 ELSE 0
           rank == [s \in S |-> RankOf(order, s, n) + shift]
<1>1. TurnsOK(a, order, enabled, n)
  BY TurnsAreExact
<1>2. /\ a \in Seq(Seq(Slots(n)))
      /\ \A k \in DOMAIN a : \A p, q \in DOMAIN a[k] : p < q => a[k][p] < a[k][q]
  BY TurnsAreExact DEF TurnsOK
<1>3. ASSUME NEW k \in DOMAIN a, NEW p \in DOMAIN a[k]
      PROVE  RankOf(order, a[k][p], n) \in Int /\ RankOf(order, a[k][p], n) + shift = k
  <2>1. k \in Nat
    BY <1>2
  <2> HIDE DEF a
  <2>2. CASE order = <<>>
    <3>1. a[k][p] = k - 1
      BY <1>1, <2>2 DEF TurnsOK
    <3> QED BY <2>1, <2>2, <3>1 DEF RankOf, shift
  <2>3. CASE order # <<>>
    <3>1. k \in DOMAIN order /\ ApiIdForSlot(a[k][p], n) = order[k]
      BY <1>1, <2>3 DEF TurnsOK
    <3>2. \A l \in DOMAIN order : order[l] = order[k] => l = k
      BY <3>1 DEF IsInjective
    <3>3. RankOf(order, a[k][p], n) = k
      BY <2>3, <3>1, <3>2 DEF RankOf
    <3> QED BY <2>1, <2>3, <3>3 DEF shift
  <2> QED BY <2>2, <2>3
<1> HIDE DEF a
<1>4. /\ S \subseteq Slots(n) /\ S \in SUBSET Int /\ a \in Seq(Seq(S))
      /\ \A k \in DOMAIN a : \A p \in DOMAIN a[k] : a[k][p] \in S
  <2>1. Slots(n) \subseteq Int
    BY DEF Slots
  <2>2. \A k \in DOMAIN a : a[k] \in Seq(Slots(n)) /\ a[k] \in Seq(Range(a[k]))
    BY <1>2, SeqOfRange
  <2>3. ASSUME NEW k \in DOMAIN a PROVE Range(a[k]) \subseteq Slots(n)
    <3>1. \A p \in DOMAIN a[k] : a[k][p] \in Slots(n)
      BY <2>2
    <3> QED BY <3>1 DEF Range
  <2>4. \A k \in DOMAIN a : a[k] \in Seq(S)
    BY <2>2
  <2>5. \A k \in DOMAIN a : \A p \in DOMAIN a[k] : a[k][p] \in S
    BY DEF Range
  <2>6. a \in Seq(Seq(S))
    BY <1>2, <2>4
  <2> QED BY <2>1, <2>3, <2>5, <2>6
<1>5. \A s \in S : \E k \in DOMAIN a : \E p \in DOMAIN a[k] : a[k][p] = s
  BY DEF Range
<1> HIDE DEF S, shift
<1>6. shift \in Int
  BY DEF shift
<1>7. \A s \in S : RankOf(order, s, n) \in Int
  BY <1>3, <1>5
<1>8. rank \in [S -> Int]
  BY <1>6, <1>7
<1>9. \A k \in DOMAIN a : \A p \in DOMAIN a[k] : rank[a[k][p]] = k
  BY <1>3, <1>4
<1> HIDE DEF rank
<1>10. \A i, j \in DOMAIN flat : i < j =>
        \/ rank[flat[i]] < rank[flat[j]]
        \/ rank[flat[i]] = rank[flat[j]] /\ flat[i] < flat[j]
  BY <1>2, <1>4, <1>8, <1>9, FlattenOrdered
<1>11. plan = IF flat = <<>> THEN <<0>> ELSE flat
  BY DEF BuildRotationSequence, a
<1>12. flat \in Seq(S)
  BY <1>4, FlattenMembers
<1>13. ASSUME flat # <<>>, NEW i \in DOMAIN flat, NEW j \in DOMAIN flat, i < j
       PROVE  \/ RankOf(order, flat[i], n) < RankOf(order, flat[j], n)
              \/ RankOf(order, flat[i], n) = RankOf(order, flat[j], n) /\ flat[i] < flat[j]
  <2> DEFINE x == flat[i]
             y == flat[j]
  <2>1. x \in S /\ y \in S
    BY <1>12
  <2>2. rank[x] < rank[y] \/ (rank[x] = rank[y] /\ x < y)
    BY <1>10, <1>13
  <2>3. rank[x] = RankOf(order, x, n) + shift /\ rank[y] = RankOf(order, y, n) + shift
    BY <2>1 DEF rank
  <2>4. RankOf(order, x, n) \in Int /\ RankOf(order, y, n) \in Int /\ shift \in Int
    BY <1>6, <1>7, <2>1
  <2> HIDE DEF x, y
  <2>5. \/ RankOf(order, x, n) < RankOf(order, y, n)
        \/ RankOf(order, x, n) = RankOf(order, y, n) /\ x < y
    BY <2>2, <2>3, <2>4
  <2> QED BY <2>5 DEF x, y
<1> HIDE DEF flat
<1>14. CASE flat = <<>>
  BY <1>11, <1>14
<1>15. CASE flat # <<>>
  BY <1>11, <1>13, <1>15
<1> QED BY <1>14, <1>15

(***************************************************************************)
(* What a PATCH in progress keeps.                                         *)
(***************************************************************************)

(* The settings a PATCH may write.                                         *)
Keys == {"screenOrder", "visible", "miningPoolStats", "miningPoolName", "bitaxeEnabled",
         "nwcEnabled", "actCurrencies", "nostrRelay", "nostrRelays"}

(* The settings written so far are well-typed, what differs from the       *)
(* settings s of before the request is recorded, and unless the body has   *)
(* a relay list of its own the relays stay inside their budget (entries of *)
(* one URL each).                                                          *)
InProgress(p, s, body) ==
  /\ p \in [nvs : Settings, touched : SUBSET Keys, ok : BOOLEAN]
  /\ IsInjective(p.nvs.screenOrder)
  /\ \A key \in Keys : p.nvs[key] # s[key] => key \in p.touched
  /\ UrlsPerEntry = 1 /\ p.ok /\ RelayBudgetOK(s) /\ ~body.nostrRelays.given =>
       RelayBudgetOK(p.nvs)

(* Outside the relay fields a write leaves the budget alone.               *)
LEMMA WriteKeeps ==
  ASSUME NEW s, NEW body, NEW p, InProgress(p, s, body), NEW key \in Keys, NEW value,
         [p.nvs EXCEPT ![key] = value] \in Settings,
         key = "screenOrder" => IsInjective(value),
         UrlsPerEntry = 1 /\ p.ok /\ RelayBudgetOK(p.nvs) /\ ~body.nostrRelays.given =>
           RelayBudgetOK([p.nvs EXCEPT ![key] = value])
  PROVE  InProgress(Write(p, key, value), s, body) /\ Write(p, key, value).ok = p.ok
         /\ Write(p, key, value).nvs = [p.nvs EXCEPT ![key] = value]
<1> DEFINE w == Write(p, key, value)
           r == [p.nvs EXCEPT ![key] = value]
<1>1. p \in [nvs : Settings, touched : SUBSET Keys, ok : BOOLEAN]
  BY DEF InProgress
<1>2. p.nvs \in Settings /\ DOMAIN p.nvs = Keys
  BY <1>1 DEF Settings, Keys
<1>3. CASE p.nvs[key] = value
  <2>1. w = p
    BY <1>3 DEF Write
  <2>2. r = p.nvs
    <3>1. p.nvs = [k \in Keys |-> p.nvs[k]]
      BY <1>2 DEF Settings
    <3>2. r = [k \in Keys |-> IF k = key THEN value ELSE p.nvs[k]]
      BY <1>2
    <3>3. \A k \in Keys : (IF k = key THEN value ELSE p.nvs[k]) = p.nvs[k]
      BY <1>3
    <3> QED BY <3>1, <3>2, <3>3
  <2> QED BY <2>1, <2>2
<1>4. CASE p.nvs[key] # value
  <2>1. w = [p EXCEPT !.nvs = r, !.touched = @ \cup {key}]
    BY <1>4 DEF Write
  <2>2. w.nvs = r /\ w.touched = p.touched \cup {key} /\ w.ok = p.ok
        /\ w \in [nvs : Settings, touched : SUBSET Keys, ok : BOOLEAN]
    BY <1>1, <2>1
  <2>3. \A k \in Keys : k # key => r[k] = p.nvs[k]
    BY <1>2
  <2>4. IsInjective(r.screenOrder)
    <3>1. CASE key = "screenOrder"
      <4>1. r.screenOrder = value
        BY <1>2, <3>1
      <4> QED BY <3>1, <4>1
    <3>2. CASE key # "screenOrder"
      <4>1. r.screenOrder = p.nvs.screenOrder
        BY <1>2, <3>2
      <4> QED BY <4>1 DEF InProgress
    <3> QED BY <3>1, <3>2
  <2>5. \A k \in Keys : r[k] # s[k] => k \in p.touched \cup {key}
    BY <2>3 DEF InProgress
  <2> HIDE DEF w, r
  <2>6. InProgress(w, s, body)
    BY <2>2, <2>4, <2>5 DEF InProgress, r
  <2> QED BY <2>2, <2>6 DEF w, r
<1> QED BY <1>3, <1>4

(* A rejection keeps what was written before it.                           *)
LEMMA RejectKeeps ==
  ASSUME NEW s, NEW body, NEW p, InProgress(p, s, body)
  PROVE  InProgress(Reject(p), s, body) /\ Reject(p).ok = FALSE
<1>1. p \in [nvs : Settings, touched : SUBSET Keys, ok : BOOLEAN]
  BY DEF InProgress
<1>2. /\ Reject(p).nvs = p.nvs /\ Reject(p).touched = p.touched /\ Reject(p).ok = FALSE
      /\ Reject(p) \in [nvs : Settings, touched : SUBSET Keys, ok : BOOLEAN]
  BY <1>1 DEF Reject
<1> QED BY <1>2 DEF InProgress

(* The relay count and its budget follow three fields.                     *)
LEMMA Budget ==
  ASSUME NEW s \in Settings
  PROVE  /\ RelayCount(s) \in 0 .. 4 /\ StoredUrls(s) \in Nat
         /\ RelayCount(s) <= StoredUrls(s)
         /\ s.nostrRelays = 0 => RelayCount(s) \in 0 .. 1
         /\ RelayBudgetOK(s) <=> RelayCount(s) + (IF s.nwcEnabled THEN 1 ELSE 0) <= 4
<1>1. /\ s.nostrRelays \in Nat /\ s.nostrRelay \in Nat /\ s.nwcEnabled \in BOOLEAN
  BY UrlsAssumption DEF Settings
<1>2. /\ s.nostrRelays > 4 => RelayCount(s) = 4
      /\ s.nostrRelays \in 1 .. 4 => RelayCount(s) = s.nostrRelays
      /\ s.nostrRelays = 0 => RelayCount(s) = IF s.nostrRelay = 0 THEN 0 ELSE 1
  BY <1>1 DEF RelayCount, kMaxNostrRelays
<1> QED BY <1>1, <1>2 DEF StoredUrls, RelayBudgetOK, kMaxNostrRelays

(* Only the relay fields and the wallet switch count.                      *)
LEMMA BudgetFields ==
  ASSUME NEW s, NEW t, s.nostrRelays = t.nostrRelays
  PROVE  /\ s.nostrRelays > 0 /\ s.nostrRelays \in Nat => RelayCount(s) = RelayCount(t)
         /\ s.nostrRelay = t.nostrRelay => RelayCount(s) = RelayCount(t)
         /\ s.nostrRelay = t.nostrRelay /\ s.nwcEnabled = t.nwcEnabled =>
              (RelayBudgetOK(s) <=> RelayBudgetOK(t))
<1>1. ASSUME s.nostrRelays > 0, s.nostrRelays \in Nat
      PROVE  RelayCount(s) = RelayCount(t)
  BY <1>1 DEF RelayCount, kMaxNostrRelays
<1>2. s.nostrRelay = t.nostrRelay => RelayCount(s) = RelayCount(t)
  BY DEF RelayCount
<1> QED BY <1>1, <1>2 DEF RelayBudgetOK

(* One scalar field: only the wallet switch and the legacy relay touch the *)
(* budget, and the one is guarded, the other at most one relay.            *)
LEMMA ScalarKeeps ==
  ASSUME NEW s, NEW body \in Bodies, NEW p, InProgress(p, s, body), NEW field \in ScalarFields
  PROVE  InProgress(ApplyScalar(p, field, body), s, body)
<1> DEFINE key == field.key
           value == field.value
           r == [p.nvs EXCEPT ![key] = value]
<1>1. p \in [nvs : Settings, touched : SUBSET Keys, ok : BOOLEAN]
  BY DEF InProgress
<1>2. p.nvs \in Settings
  BY <1>1
<1>3. \/ ApplyScalar(p, field, body) = p
      \/ ApplyScalar(p, field, body) = Reject(p)
      \/ /\ ApplyScalar(p, field, body) = Write(p, key, value)
         /\ key # "malformed"
         /\ key = "miningPoolName" => value \in Pools
         /\ key = "nwcEnabled" /\ value => WalletFits(p, body)
  BY DEF ApplyScalar
<1>4. ASSUME key # "malformed",
             key = "miningPoolName" => value \in Pools,
             key = "nwcEnabled" /\ value => WalletFits(p, body)
      PROVE  InProgress(Write(p, key, value), s, body)
  <2>1. key \in {"miningPoolStats", "bitaxeEnabled", "nwcEnabled", "miningPoolName", "nostrRelay"}
    BY <1>4 DEF ScalarFields
  <2>2. /\ key \in {"miningPoolStats", "bitaxeEnabled", "nwcEnabled"} => value \in BOOLEAN
        /\ key = "nostrRelay" => value \in 0 .. UrlsPerEntry
    BY DEF ScalarFields
  <2> HIDE DEF key, value
  <2>3. r \in Settings
    BY <1>2, <1>4, <2>1, <2>2 DEF Settings
  <2>4. key \in Keys /\ key # "screenOrder"
    BY <2>1 DEF Keys
  <2>5. ASSUME RelayBudgetOK(p.nvs), ~body.nostrRelays.given
        PROVE  RelayBudgetOK(r)
    <3>1. CASE key \in {"miningPoolStats", "bitaxeEnabled", "miningPoolName"}
      <4>1. r.nostrRelays = p.nvs.nostrRelays /\ r.nostrRelay = p.nvs.nostrRelay
            /\ r.nwcEnabled = p.nvs.nwcEnabled
        BY <1>2, <3>1 DEF Settings
      <4> QED BY <2>5, <4>1, BudgetFields
    <3>2. CASE key = "nwcEnabled"
      <4>1. r.nostrRelays = p.nvs.nostrRelays /\ r.nostrRelay = p.nvs.nostrRelay
            /\ r.nwcEnabled = value
        BY <1>2, <3>2 DEF Settings
      <4>2. RelayCount(r) = RelayCount(p.nvs)
        BY <4>1, BudgetFields
      <4>3. CASE value
        <5>1. RelayCount(p.nvs) + 1 <= 4
          <6>1. StoredUrls(p.nvs) + 1 <= 4
            BY <1>4, <2>5, <3>2, <4>3 DEF WalletFits, kMaxNostrRelays
          <6> QED BY <1>2, <6>1, Budget
        <5> QED BY <2>3, <4>1, <4>2, <4>3, <5>1, Budget
      <4>4. CASE ~value
        <5>1. RelayCount(p.nvs) <= 4
          BY <1>2, <2>5, Budget
        <5>2. RelayCount(r) \in Nat
          BY <2>3, Budget
        <5>3. r.nwcEnabled = FALSE
          BY <4>1, <4>4
        <5>4. RelayBudgetOK(r) <=> RelayCount(r) + 0 <= 4
          BY <2>3, <5>3, Budget
        <5>5. RelayCount(r) <= 4
          BY <4>2, <5>1
        <5> HIDE DEF r
        <5> QED BY <5>2, <5>4, <5>5
      <4> QED BY <4>3, <4>4
    <3>3. CASE key = "nostrRelay"
      <4>1. r.nostrRelays = p.nvs.nostrRelays /\ r.nwcEnabled = p.nvs.nwcEnabled
        BY <1>2, <3>3 DEF Settings
      <4>2. CASE r.nostrRelays = 0
        <5>1. RelayCount(r) \in 0 .. 1
          BY <2>3, <4>2, Budget
        <5> QED BY <2>3, <5>1, Budget
      <4>3. CASE r.nostrRelays # 0
        <5>1. RelayCount(r) = RelayCount(p.nvs)
          <6>1. r.nostrRelays \in Nat
            BY <2>3 DEF Settings
          <6> HIDE DEF r
          <6>2. r.nostrRelays > 0
            BY <4>3, <6>1
          <6> QED BY <4>1, <6>1, <6>2, BudgetFields
        <5> QED BY <2>5, <4>1, <5>1 DEF RelayBudgetOK
      <4> QED BY <4>2, <4>3
    <3> QED BY <2>1, <3>1, <3>2, <3>3
  <2> HIDE DEF r
  <2> QED BY <2>3, <2>4, <2>5, WriteKeeps DEF r
<1> QED BY <1>3, <1>4, RejectKeeps

(* The loop over the scalar fields.                                        *)
LEMMA ScalarsKeep ==
  ASSUME NEW s, NEW body \in Bodies, NEW p, InProgress(p, s, body)
  PROVE  InProgress(ApplyScalars(p, body), s, body)
<1> DEFINE N == Len(body.scalars)
           P == {q \in [nvs : Settings, touched : SUBSET Keys, ok : BOOLEAN] : InProgress(q, s, body)}
           Turn(i, q) == ApplyScalar(q, body.scalars[i], body)
           F == [i \in Nat |-> [q \in P |-> IF i \in 0 .. N - 1 THEN Turn(i + 1, q) ELSE q]]
           Body(f) == [i \in 0 .. N |-> IF i = 0 THEN p ELSE Turn(i, f[i - 1])]
           after == CHOOSE f : f = Body(f)
<1>1. N \in Nat /\ \A i \in 1 .. N : body.scalars[i] \in ScalarFields
  BY BodiesAssumption
<1>2. \A q : q \in P <=> InProgress(q, s, body)
  BY DEF InProgress
<1> HIDE DEF N, P
<1>3. \A i \in 1 .. N : \A q \in P : Turn(i, q) \in P
  <2> TAKE i \in 1 .. N
  <2>1. body.scalars[i] \in ScalarFields
    BY <1>1
  <2> QED BY <1>2, <2>1, ScalarKeeps
<1> HIDE DEF Turn
<1>4. F \in [Nat -> [P -> P]]
  <2>1. \A i \in 0 .. N - 1 : i + 1 \in 1 .. N
    BY <1>1
  <2> QED BY <1>3, <2>1
<1>5. \E f : f = Body(f)
  <2> HIDE DEF F
  <2>1. 0 \in 0 .. N /\ p \in P
    BY <1>1, <1>2
  <2>2. PICK f : Iterates(f, F, p, 0, N, P)
    BY <1>1, <1>4, <2>1, RecursionHasValue
  <2>3. f \in [0 .. N -> P] /\ f[0] = p /\ \A i \in 0 .. N - 1 : f[i + 1] = F[i][f[i]]
    BY <2>2 DEF Iterates
  <2>4. ASSUME NEW i \in 0 .. N, i # 0
        PROVE  f[i] = Turn(i, f[i - 1])
    <3> DEFINE j == i - 1
               q == f[j]
    <3>1. j \in 0 .. N - 1 /\ j \in Nat /\ j + 1 = i /\ q \in P
      BY <1>1, <2>3, <2>4
    <3>2. f[j + 1] = F[j][q]
      BY <2>3, <3>1
    <3> HIDE DEF j, q
    <3>3. F[j][q] = Turn(j + 1, q)
      BY <3>1 DEF F
    <3> QED BY <3>1, <3>2, <3>3 DEF j, q
  <2>5. f = Body(f)
    BY <2>3, <2>4
  <2> QED BY <2>5
<1>6. after = Body(after)
  <2> HIDE DEF Body
  <2> QED BY <1>5
<1>7. ApplyScalars(p, body) = after[N]
  BY DEF ApplyScalars, N, Turn
<1> HIDE DEF after, F
<1> DEFINE G == {i \in 0 .. N : after[i] \in P}
<1>8. 0 \in G
  BY <1>1, <1>2, <1>6
<1>9. ASSUME NEW i \in 0 .. N - 1, i \in G PROVE i + 1 \in G
  <2>1. i + 1 \in 0 .. N /\ i + 1 # 0 /\ (i + 1) - 1 = i /\ i + 1 \in 1 .. N
    BY <1>1
  <2>2. after[i + 1] = Turn(i + 1, after[(i + 1) - 1])
    BY <1>6, <2>1
  <2>3. after[i] \in P
    BY <1>9
  <2>4. after[i + 1] \in P
    BY <1>3, <2>1, <2>2, <2>3
  <2> QED BY <2>1, <2>4
<1> HIDE DEF G
<1>10. N \in G
  <2>1. 0 \in Nat /\ N \in 0 .. N
    BY <1>1
  <2> QED BY <1>1, <1>8, <1>9, <2>1, UpTo
<1>11. after[N] \in P
  BY <1>10 DEF G
<1> QED BY <1>2, <1>7, <1>11

(* The list of currencies is free of the relays.                           *)
LEMMA CurrenciesKeep ==
  ASSUME NEW s, NEW body \in Bodies, NEW p, InProgress(p, s, body)
  PROVE  InProgress(ApplyCurrencies(p, body), s, body)
<1> DEFINE r == [p.nvs EXCEPT !["actCurrencies"] = body.actCurrencies.codes]
<1>1. p.nvs \in Settings
  BY DEF InProgress
<1>2. r \in Settings /\ r.nostrRelays = p.nvs.nostrRelays /\ r.nostrRelay = p.nvs.nostrRelay
      /\ r.nwcEnabled = p.nvs.nwcEnabled
  BY <1>1, BodiesAssumption DEF Settings
<1>3. RelayBudgetOK(r) <=> RelayBudgetOK(p.nvs)
  BY <1>2, BudgetFields
<1>4. "actCurrencies" \in Keys
  BY DEF Keys
<1> HIDE DEF r
<1>5. InProgress(Write(p, "actCurrencies", body.actCurrencies.codes), s, body)
  BY <1>2, <1>3, <1>4, WriteKeeps DEF r
<1> QED BY <1>5, RejectKeeps DEF ApplyCurrencies

(* Mirroring the legacy relay leaves at most one, of one URL.              *)
LEMMA MirrorKeeps ==
  ASSUME NEW s, NEW body \in Bodies, NEW p, InProgress(p, s, body)
  PROVE  InProgress(MirrorLegacyRelay(p, body), s, body)
<1> DEFINE r == [p.nvs EXCEPT !["nostrRelays"] = p.nvs.nostrRelay]
<1>1. p.nvs \in Settings
  BY DEF InProgress
<1>2. r \in Settings /\ r.nostrRelays \in 0 .. UrlsPerEntry
  BY <1>1, UrlsAssumption DEF Settings
<1>4. ASSUME UrlsPerEntry = 1 PROVE RelayBudgetOK(r)
  <2>1. r.nostrRelays = 0 \/ r.nostrRelays = 1
    BY <1>2, <1>4
  <2>2. r.nostrRelays = 1 => StoredUrls(r) = 1
    BY DEF StoredUrls
  <2> HIDE DEF r
  <2>3. RelayCount(r) \in 0 .. 1
    BY <1>2, <2>1, <2>2, Budget
  <2> QED BY <1>2, <2>3, Budget
<1>5. "nostrRelays" \in Keys
  BY DEF Keys
<1> HIDE DEF r
<1>6. InProgress(Write(p, "nostrRelays", p.nvs.nostrRelay), s, body)
  BY <1>2, <1>4, <1>5, WriteKeeps DEF r
<1> QED BY <1>6 DEF MirrorLegacyRelay

(* A list of its own is held against the limit with the wallet counted.    *)
LEMMA RelaysKeep ==
  ASSUME NEW s, NEW body \in Bodies, NEW p, InProgress(p, s, body)
  PROVE  LET q == ApplyRelays(p, body)
         IN  /\ InProgress(q, s, body)
             /\ UrlsPerEntry = 1 /\ q.ok /\ RelayBudgetOK(s) => RelayBudgetOK(q.nvs)
<1> DEFINE n == body.nostrRelays.count
           urls == body.nostrRelays.urls
           r == [p.nvs EXCEPT !["nostrRelays"] = urls]
           wallet == IF p.nvs.nwcEnabled THEN 1 ELSE 0
<1>1. /\ p.nvs \in Settings /\ n \in Nat /\ urls \in Nat
      /\ UrlsPerEntry = 1 => urls = n
  <2>1. n \in Nat /\ urls \in n .. UrlsPerEntry * n
    BY BodiesAssumption
  <2>2. UrlsPerEntry = 1 => UrlsPerEntry * n = n
    BY <2>1
  <2> QED BY <2>1, <2>2 DEF InProgress
<1>2. r \in Settings /\ r.nostrRelays = urls /\ r.nwcEnabled = p.nvs.nwcEnabled
  BY <1>1 DEF Settings
<1>3. CASE ~p.ok \/ ~body.nostrRelays.given
  BY <1>3 DEF ApplyRelays, InProgress
<1>4. CASE p.ok /\ body.nostrRelays.given /\ (body.nostrRelays.bad \/ n + wallet > kMaxNostrRelays)
  BY <1>4, RejectKeeps DEF ApplyRelays
<1>5. CASE p.ok /\ body.nostrRelays.given /\ ~(body.nostrRelays.bad \/ n + wallet > kMaxNostrRelays)
  <2>1. n + wallet <= 4 /\ wallet \in 0 .. 1
    BY <1>1, <1>5 DEF kMaxNostrRelays
  <2>2. urls # 0 => StoredUrls(r) = urls
    BY <1>2 DEF StoredUrls
  <2>3. ASSUME UrlsPerEntry = 1 PROVE RelayBudgetOK(r)
    <3>1. RelayBudgetOK(r) <=> RelayCount(r) + wallet <= 4
      BY <1>2, Budget
    <3>2. urls = n /\ n \in Nat
      BY <1>1, <2>3
    <3> HIDE DEF wallet, r, urls, n
    <3>3. RelayCount(r) \in 0 .. 4 /\ (RelayCount(r) <= n \/ RelayCount(r) \in 0 .. 1)
      BY <1>2, <2>2, <3>2, Budget
    <3> QED BY <2>1, <3>1, <3>2, <3>3
  <2>4. "nostrRelays" \in Keys
    BY DEF Keys
  <2> HIDE DEF r
  <2>5. /\ InProgress(Write(p, "nostrRelays", urls), s, body)
        /\ Write(p, "nostrRelays", urls).nvs = r
    BY <1>2, <2>3, <2>4, WriteKeeps DEF r
  <2>6. ApplyRelays(p, body) = Write(p, "nostrRelays", urls)
    BY <1>5 DEF ApplyRelays
  <2> QED BY <2>3, <2>5, <2>6
<1> QED BY <1>3, <1>4, <1>5

(* The screens: an accepted order is injective, the relays are untouched.  *)
LEMMA ScreensKeep ==
  ASSUME NEW s, NEW body \in Bodies, NEW p, InProgress(p, s, body),
         UrlsPerEntry = 1 /\ p.ok /\ RelayBudgetOK(s) => RelayBudgetOK(p.nvs)
  PROVE  LET q == ApplyScreens(p, body, s)
         IN  /\ InProgress(q, s, body)
             /\ UrlsPerEntry = 1 /\ q.ok /\ RelayBudgetOK(s) => RelayBudgetOK(q.nvs)
<1> DEFINE screens == body.screens
           ordered == IF screens.order = "all" THEN Write(p, "screenOrder", screens.ids) ELSE p
           shown == (ordered.nvs.visible \cup screens.on) \ screens.off
           Fine(q) == /\ InProgress(q, s, body)
                      /\ UrlsPerEntry = 1 /\ q.ok /\ RelayBudgetOK(s) => RelayBudgetOK(q.nvs)
<1>1. CASE ~p.ok \/ ~screens.given
  BY <1>1 DEF ApplyScreens
<1>2. CASE screens.order = "some" \/ (screens.order = "all" /\ ~ReorderOK(screens.ids, s))
  BY <1>1, <1>2, RejectKeeps DEF ApplyScreens
<1>3. CASE /\ ~(~p.ok \/ ~screens.given)
           /\ ~(screens.order = "some" \/ (screens.order = "all" /\ ~ReorderOK(screens.ids, s)))
  <2>1. ApplyScreens(p, body, s) = Write(ordered, "visible", shown)
    BY <1>3 DEF ApplyScreens
  <2>2. Fine(ordered)
    <3>1. CASE screens.order = "all"
      <4> DEFINE r == [p.nvs EXCEPT !["screenOrder"] = screens.ids]
      <4>1. screens.ids \in Seq(ApiIds) /\ IsInjective(screens.ids)
        <5>1. IsInjective(screens.ids) /\ Range(screens.ids) \subseteq ApiIds
          BY <1>3, <3>1 DEF ReorderOK
        <5>2. screens.ids \in Seq(Range(screens.ids))
          BY BodiesAssumption, SeqOfRange
        <5> QED BY <5>1, <5>2
      <4>2. p.nvs \in Settings
        BY DEF InProgress
      <4>3. r \in Settings /\ r.nostrRelays = p.nvs.nostrRelays
            /\ r.nostrRelay = p.nvs.nostrRelay /\ r.nwcEnabled = p.nvs.nwcEnabled
        BY <4>1, <4>2 DEF Settings
      <4>4. RelayBudgetOK(r) <=> RelayBudgetOK(p.nvs)
        BY <4>3, BudgetFields
      <4>5. "screenOrder" \in Keys
        BY DEF Keys
      <4> HIDE DEF r, screens
      <4>6. /\ InProgress(Write(p, "screenOrder", screens.ids), s, body)
            /\ Write(p, "screenOrder", screens.ids).ok = p.ok
            /\ Write(p, "screenOrder", screens.ids).nvs = r
        BY <4>1, <4>3, <4>4, <4>5, WriteKeeps DEF r
      <4> QED BY <3>1, <4>4, <4>6
    <3>2. CASE screens.order # "all"
      BY <3>2
    <3> QED BY <3>1, <3>2
  <2> HIDE DEF ordered
  <2> DEFINE r == [ordered.nvs EXCEPT !["visible"] = shown]
  <2>3. ordered.nvs \in Settings
    BY <2>2 DEF InProgress
  <2>4. shown \in SUBSET Int
    BY <2>3, BodiesAssumption DEF Settings
  <2> HIDE DEF shown
  <2>5. r \in Settings /\ r.nostrRelays = ordered.nvs.nostrRelays
        /\ r.nostrRelay = ordered.nvs.nostrRelay /\ r.nwcEnabled = ordered.nvs.nwcEnabled
    BY <2>3, <2>4 DEF Settings
  <2>6. RelayBudgetOK(r) <=> RelayBudgetOK(ordered.nvs)
    BY <2>5, BudgetFields
  <2>7. "visible" \in Keys
    BY DEF Keys
  <2> HIDE DEF r
  <2>8. /\ InProgress(Write(ordered, "visible", shown), s, body)
        /\ Write(ordered, "visible", shown).ok = ordered.ok
        /\ Write(ordered, "visible", shown).nvs = r
    BY <2>2, <2>5, <2>6, <2>7, WriteKeeps DEF r
  <2> QED BY <2>1, <2>2, <2>6, <2>8
<1> QED BY <1>1, <1>2, <1>3

(* A request as a whole: the settings keep their types, every change is    *)
(* recorded, and an accepted one, of entries of one URL each, stays inside *)
(* the relay budget.                                                       *)
LEMMA PatchKeeps ==
  ASSUME NEW s \in Settings, IsInjective(s.screenOrder), NEW body \in Bodies
  PROVE  LET p == ApplyPatch(s, body)
         IN  /\ p \in [nvs : Settings, touched : SUBSET Keys, ok : BOOLEAN]
             /\ IsInjective(p.nvs.screenOrder)
             /\ \A key \in Keys : p.nvs[key] # s[key] => key \in p.touched
             /\ UrlsPerEntry = 1 /\ p.ok /\ RelayBudgetOK(s) => RelayBudgetOK(p.nvs)
<1> DEFINE scalars    == ApplyScalars(Started(s), body)
           currencies == ApplyCurrencies(scalars, body)
           relays     == ApplyRelays(MirrorLegacyRelay(currencies, body), body)
           screens    == ApplyScreens(relays, body, s)
<1>1. InProgress(Started(s), s, body)
  BY DEF InProgress, Started
<1>2. InProgress(scalars, s, body)
  BY <1>1, ScalarsKeep
<1> HIDE DEF scalars
<1>3. InProgress(currencies, s, body)
  BY <1>2, CurrenciesKeep
<1> HIDE DEF currencies
<1>4. InProgress(MirrorLegacyRelay(currencies, body), s, body)
  BY <1>3, MirrorKeeps
<1>5. /\ InProgress(relays, s, body)
      /\ UrlsPerEntry = 1 /\ relays.ok /\ RelayBudgetOK(s) => RelayBudgetOK(relays.nvs)
  BY <1>4, RelaysKeep
<1> HIDE DEF relays
<1>6. /\ InProgress(screens, s, body)
      /\ UrlsPerEntry = 1 /\ screens.ok /\ RelayBudgetOK(s) => RelayBudgetOK(screens.nvs)
  BY <1>5, ScreensKeep
<1>7. ApplyPatch(s, body) = ApplyDnd(screens, body)
  BY DEF ApplyPatch, scalars, currencies, relays
<1> HIDE DEF screens
<1>8. ApplyDnd(screens, body) = screens
      \/ (InProgress(ApplyDnd(screens, body), s, body) /\ ApplyDnd(screens, body).ok = FALSE)
  BY <1>6, RejectKeeps DEF ApplyDnd
<1> QED BY <1>6, <1>7, <1>8 DEF InProgress

(***************************************************************************)
(* The settings and what follows from them.                                *)
(***************************************************************************)

(* The inductive invariant: NVS holds settings of the right types, no      *)
(* screen twice in the order.                                              *)
PatchInv == nvs \in Settings /\ IsInjective(nvs.screenOrder)

(* A fresh device is good.                                                 *)
LEMMA FactoryIsGood == PatchInit => PatchInv
<1> SUFFICES ASSUME PatchInit PROVE PatchInv
  OBVIOUS
<1>1. PICK pool \in Pools, body \in Bodies :
        nvs = FactorySettings(pool, body.actCurrencies.codes)
  BY DEF PatchInit
<1>2. body.actCurrencies.codes \in Seq(STRING)
  BY BodiesAssumption
<1>3. DefaultVisible \subseteq Int
  <2>1. \A id \in ApiIds : id \in Int
    BY DEF ApiIds, AgnosticApiId, PerCurrencyApiId, FeeRateApiId, AgnosticSlots, PerCurrencySlots
  <2> QED BY <2>1 DEF DefaultVisible
<1>4. nvs \in Settings /\ nvs.screenOrder = <<>>
  BY <1>1, <1>2, <1>3, UrlsAssumption DEF FactorySettings, Settings
<1>5. IsInjective(<<>>)
  BY DEF IsInjective
<1> QED BY <1>4, <1>5 DEF PatchInv

(* So is it after every step: the request as a whole keeps the invariant.  *)
LEMMA PatchStepKeeps == PatchInv /\ [PatchNext]_patchVars => PatchInv'
<1> SUFFICES ASSUME PatchInv, [PatchNext]_patchVars PROVE PatchInv'
  OBVIOUS
<1>1. ASSUME NEW body \in Bodies, Patch(body) PROVE PatchInv'
  <2> DEFINE p == ApplyPatch(nvs, body)
  <2>1. p \in [nvs : Settings, touched : SUBSET Keys, ok : BOOLEAN] /\ IsInjective(p.nvs.screenOrder)
    BY PatchKeeps DEF PatchInv
  <2>2. nvs' = p.nvs
    BY <1>1 DEF Patch
  <2> HIDE DEF p
  <2> QED BY <2>1, <2>2 DEF PatchInv
<1>2. CASE UNCHANGED nvs
  BY <1>2 DEF PatchInv
<1> QED BY <1>1, <1>2 DEF PatchNext, RebuildScreens, Reboot, patchVars

(* Whatever bodies come in, in whatever order, accepted or refused half    *)
(* way (a refused PATCH keeps what it wrote before the bad field), NVS     *)
(* never holds a malformed setting or an order that names a screen twice   *)
(* (settings_api.cpp, ApplyPatch).                                         *)
THEOREM SettingsStayGood == PatchSpec => []PatchInv
  BY FactoryIsGood, PatchStepKeeps, PTL DEF PatchSpec

(* What the theorems below need of good settings.                          *)
LEMMA SettingsFacts ==
  ASSUME NEW s \in Settings
  PROVE  /\ Currencies(s) \in Seq(STRING) /\ Len(Currencies(s)) \in Nat \ {0}
         /\ s.screenOrder \in Seq(ApiIds) /\ EnabledIds(s) \in SUBSET ApiIds
<1>1. s.actCurrencies \in Seq(STRING) /\ s.screenOrder \in Seq(ApiIds)
  BY DEF Settings
<1>2. CASE s.actCurrencies = <<>>
  <2>1. Currencies(s) = <<DefaultCurrency>>
    BY <1>2 DEF Currencies
  <2>2. ASSUME NEW S, NEW d \in S PROVE <<d>> \in Seq(S) /\ Len(<<d>>) = 1
    OBVIOUS
  <2>3. <<DefaultCurrency>> \in Seq(STRING) /\ Len(<<DefaultCurrency>>) = 1
    BY <2>2, DefaultCurrencyAssumption
  <2> QED BY <1>1, <2>1, <2>3 DEF EnabledIds
<1>3. CASE s.actCurrencies # <<>>
  <2>1. Currencies(s) = s.actCurrencies
    BY <1>3 DEF Currencies
  <2>2. Len(s.actCurrencies) \in Nat \ {0}
    BY <1>1, <1>3
  <2> QED BY <1>1, <2>1, <2>2 DEF EnabledIds
<1> QED BY <1>2, <1>3

(* The plan of good settings: never empty, inside the layout, and made of  *)
(* the slots wanted.                                                       *)
LEMMA PlanFacts ==
  ASSUME NEW s \in Settings, NEW n, n = Len(Currencies(s)),
         NEW want, want = Wanted(s.screenOrder, EnabledIds(s), n)
  PROVE  /\ PlanOf(s) \in Seq(Slots(n)) /\ PlanOf(s) # <<>> /\ Len(PlanOf(s)) > 0
         /\ Range(PlanOf(s)) = IF want = {} THEN {0} ELSE want
<1>1. n \in Nat \ {0} /\ s.screenOrder \in Seq(ApiIds) /\ EnabledIds(s) \in SUBSET ApiIds
  BY SettingsFacts
<1>2. PlanOf(s) = BuildRotationSequence(s.screenOrder, EnabledIds(s), n)
  BY DEF PlanOf
<1> QED BY <1>1, <1>2, PlanMembers

(* Good settings have an exact rotation.                                   *)
LEMMA ExactOfGood == PatchInv => PlanIsExact
<1> SUFFICES ASSUME PatchInv PROVE PlanIsComplete /\ PlanKeepsOrder
  BY DEF PlanIsExact
<1> DEFINE n == Len(Currencies(nvs))
           order == nvs.screenOrder
           enabled == EnabledIds(nvs)
           plan == PlanOf(nvs)
<1>1. nvs \in Settings /\ IsInjective(order)
  BY DEF PatchInv
<1>2. n \in Nat \ {0} /\ order \in Seq(ApiIds) /\ enabled \in SUBSET ApiIds
  BY <1>1, SettingsFacts
<1>3. plan = BuildRotationSequence(order, enabled, n)
  BY DEF PlanOf
<1>4. PlanIsComplete
  <2>1. Wanted(order, enabled, n) =
          {s \in Slots(n) : IsEnabled(nvs, ApiIdForSlot(s, n))
                            /\ (order = <<>> \/ ApiIdForSlot(s, n) \in Range(order))}
    <3>1. \A s \in Slots(n) : ApiIdForSlot(s, n) \in enabled <=> IsEnabled(nvs, ApiIdForSlot(s, n))
      <4> TAKE s \in Slots(n)
      <4>1. ApiIdForSlot(s, n) \in ApiIds
        BY <1>2, SlotsHaveIds
      <4> QED BY <4>1 DEF EnabledIds
    <3> HIDE DEF enabled, n, order
    <3> QED BY <3>1 DEF Wanted
  <2>2. Range(plan) = IF Wanted(order, enabled, n) = {} THEN {0} ELSE Wanted(order, enabled, n)
    <3> HIDE DEF plan, order, enabled, n
    <3> QED BY <1>2, <1>3, PlanMembers
  <2> QED BY <2>1, <2>2 DEF PlanIsComplete
<1>5. PlanKeepsOrder
  <2>1. ASSUME NEW i \in DOMAIN plan, NEW j \in DOMAIN plan, i < j
        PROVE  \/ RankOf(order, plan[i], n) < RankOf(order, plan[j], n)
               \/ RankOf(order, plan[i], n) = RankOf(order, plan[j], n) /\ plan[i] < plan[j]
    <3> HIDE DEF plan, order, enabled, n
    <3> QED BY <1>1, <1>2, <1>3, <2>1, PlanSorted
  <2> QED BY <2>1 DEF PlanKeepsOrder, RankOf
<1> QED BY <1>4, <1>5

(* For every list of currencies, order and choice of screens the rotation  *)
(* is exactly the slots of the enabled screens the order names, in that    *)
(* order, each once, and slot 0 alone when nothing is left                 *)
(* (rotation_plan.hpp, BuildRotationSequence).                             *)
THEOREM RotationIsExact == PatchSpec => []PlanIsExact
  BY SettingsStayGood, ExactOfGood, PTL

(* An enabled screen is one GET lists, or the pool's daily earnings.       *)
LEMMA ListedOfGood == PatchInv => RotationShowsListedScreens
<1> SUFFICES ASSUME PatchInv PROVE RotationShowsListedScreens
  OBVIOUS
<1> DEFINE n == Len(Currencies(nvs))
           want == Wanted(nvs.screenOrder, EnabledIds(nvs), n)
<1>1. nvs \in Settings
  BY DEF PatchInv
<1>2. n \in Nat \ {0}
  BY <1>1, SettingsFacts
<1>3. Range(PlanOf(nvs)) = IF want = {} THEN {0} ELSE want
  BY <1>1, PlanFacts
<1>4. ASSUME NEW s \in want PROVE ApiIdForSlot(s, n) \in Catalogue(nvs) \cup {71}
  <2> DEFINE id == ApiIdForSlot(s, n)
  <2>1. id \in EnabledIds(nvs)
    BY DEF Wanted
  <2> HIDE DEF id, want, n
  <2>2. id \in ApiIds /\ IsEnabled(nvs, id)
    BY <2>1 DEF EnabledIds
  <2>3. id \notin FeatureHidden(nvs)
    BY <2>2 DEF IsEnabled, FeatureHidden
  <2>4. id # 71 => id \notin CapabilityHidden(nvs)
    BY <2>2 DEF IsEnabled, CapabilityHidden
  <2> QED BY <2>2, <2>3, <2>4 DEF Catalogue, id
<1>5. ApiIdForSlot(0, n) \in Catalogue(nvs)
  <2>1. ApiIdForSlot(0, n) = AgnosticApiId[0]
    BY <1>2, AgnosticReadings
  <2>2. AgnosticApiId[0] = 0
    BY DEF AgnosticApiId, AgnosticSlots
  <2>3. ApiIdForSlot(0, n) \in ApiIds
    BY <2>1, Tables DEF ApiIds
  <2> HIDE DEF n
  <2> QED BY <2>1, <2>2, <2>3 DEF Catalogue, CapabilityHidden, FeatureHidden
<1> HIDE DEF want, n
<1> QED BY <1>3, <1>4, <1>5 DEF RotationShowsListedScreens, n

(* The rotation never shows a screen that GET /api/settings hides, the     *)
(* pool's daily earnings apart (settings_api.cpp, the catalogue;           *)
(* init_screen_manager.cpp, is_enabled).                                   *)
THEOREM RotationIsListed == PatchSpec => []RotationShowsListedScreens
  BY SettingsStayGood, ListedOfGood, PTL

(* Good settings have at least one currency, so the layout reads both ways.*)
LEMMA RoundTripOfGood == PatchInv => ApiRoundTrip
<1> SUFFICES ASSUME PatchInv PROVE ApiRoundTrip
  OBVIOUS
<1>1. Len(Currencies(nvs)) \in Nat \ {0}
  BY SettingsFacts DEF PatchInv
<1> QED BY <1>1, RoundTrip DEF ApiRoundTrip

(* For any number of currencies, the id /api/status reports for a slot     *)
(* leads back to that slot, and the renderer and the API tell the same     *)
(* slots apart (slot_map.hpp).                                             *)
THEOREM ApiIdsRoundTrip == PatchSpec => []ApiRoundTrip
  BY SettingsStayGood, RoundTripOfGood, PTL

(* Where a reboot lands, from the two branches of ResumeSlot.              *)
LEMMA ResumeOfGood == PatchInv => ResumeLands
<1> SUFFICES ASSUME PatchInv,
                    NEW n, n = Len(Currencies(nvs)), NEW plan, plan = PlanOf(nvs),
                    NEW saved \in Slots(n + 1) \cup {NoSlot},
                    NEW s, s = ResumeSlot(saved, n, plan)
             PROVE  /\ s \in Range(plan) \cup {SlotCount(n) - 1}
                    /\ saved \in Range(plan) => s = saved
  BY DEF ResumeLands
<1>1. n \in Nat \ {0} /\ plan \in Seq(Slots(n)) /\ plan # <<>> /\ Len(plan) > 0
  BY SettingsFacts, PlanFacts DEF PatchInv
<1>2. Head(plan) \in Range(plan)
  BY <1>1 DEF Range
<1>3. ASSUME saved \in Range(plan)
      PROVE  saved \in Slots(n) /\ \E i \in DOMAIN plan : plan[i] = saved
  <2>1. PICK i \in DOMAIN plan : plan[i] = saved
    BY <1>3 DEF Range
  <2> QED BY <1>1, <2>1
<1>4. CASE /\ saved \in Slots(n)
           /\ IsFeeRateSlot(saved, n) \/ \E i \in DOMAIN plan : plan[i] = saved
  <2>1. s = saved
    BY <1>4 DEF ResumeSlot
  <2> QED BY <1>4, <2>1 DEF IsFeeRateSlot, Range
<1>5. CASE ~(/\ saved \in Slots(n)
             /\ IsFeeRateSlot(saved, n) \/ \E i \in DOMAIN plan : plan[i] = saved)
  <2>1. s = Head(plan)
    BY <1>1, <1>5 DEF ResumeSlot
  <2> QED BY <1>2, <1>3, <1>5, <2>1
<1> QED BY <1>4, <1>5

(* Whatever slot was persisted, of this layout or of an older, longer      *)
(* one, a reboot resumes on a slot of the rotation or on the fee rate, and *)
(* on the persisted one when the rotation has it (rotation_plan.hpp,       *)
(* ResumeSlot).                                                            *)
THEOREM RebootLandsInRotation == PatchSpec => []ResumeLands
  BY SettingsStayGood, ResumeOfGood, PTL

(* Settings that agree on the keys of the rotation have one rotation.      *)
LEMMA RotationFollowsKeys ==
  ASSUME NEW s \in Settings, NEW t \in Settings,
         \A key \in RebuildKeys \cup {"miningPoolName", "nwcEnabled"} : s[key] = t[key]
  PROVE  LiveOf(s) = LiveOf(t)
<1>1. /\ s.screenOrder = t.screenOrder /\ s.visible = t.visible
      /\ s.miningPoolStats = t.miningPoolStats /\ s.miningPoolName = t.miningPoolName
      /\ s.bitaxeEnabled = t.bitaxeEnabled /\ s.nwcEnabled = t.nwcEnabled
      /\ s.actCurrencies = t.actCurrencies
  BY DEF RebuildKeys
<1>2. \A id : IsEnabled(s, id) <=> IsEnabled(t, id)
  BY <1>1 DEF IsEnabled
<1>3. EnabledIds(s) = EnabledIds(t)
  BY <1>2 DEF EnabledIds
<1>4. Currencies(s) = Currencies(t)
  BY <1>1 DEF Currencies
<1> QED BY <1>1, <1>3, <1>4 DEF LiveOf, PlanOf

(* An accepted PATCH of anything but the pool's name and the wallet switch *)
(* queues the rebuild when it changes the rotation, and one of the wallet  *)
(* switch that changes it asks for the reboot: the keys that shape the     *)
(* rotation are among those the change hooks compare (control_server.cpp)  *)
(* or boot-only (schema.hpp).  A change of pool alone is promised nothing. *)
THEOREM PatchesRebuildOrReboot == PatchSpec => PatchRebuildsOrReboots
<1> DEFINE samePool == [nvs' EXCEPT !.miningPoolName = nvs.miningPoolName]
           same     == [samePool EXCEPT !.nwcEnabled = nvs.nwcEnabled]
           Step == Accepted =>
                     /\ LiveOf(same) # LiveOf(nvs) => pending'
                     /\ LiveOf(samePool) # LiveOf(same) => answer' = "reboot"
<1>1. PatchInv /\ PatchInv' /\ [PatchNext]_patchVars => [Step]_patchVars
  <2> SUFFICES ASSUME PatchInv, PatchInv', PatchNext, Accepted
               PROVE  /\ LiveOf(same) # LiveOf(nvs) => pending'
                      /\ LiveOf(samePool) # LiveOf(same) => answer' = "reboot"
    OBVIOUS
  <2>1. nvs \in Settings /\ nvs' \in Settings
    BY DEF PatchInv
  <2>2. /\ samePool \in Settings /\ samePool.nwcEnabled = nvs'.nwcEnabled
        /\ same \in Settings /\ same.miningPoolName = nvs.miningPoolName
        /\ samePool.miningPoolName = same.miningPoolName
        /\ same.nwcEnabled = nvs.nwcEnabled
        /\ \A key \in RebuildKeys : same[key] = nvs'[key] /\ samePool[key] = nvs'[key]
    BY <2>1 DEF Settings, RebuildKeys
  <2> HIDE DEF same, samePool
  <2>3. ASSUME NEW body \in Bodies, Patch(body)
        PROVE  /\ \A key \in Keys : nvs'[key] # nvs[key] => key \in ApplyPatch(nvs, body).touched
               /\ ApplyPatch(nvs, body).ok
    <3> DEFINE p == ApplyPatch(nvs, body)
    <3>1. \A k \in Keys : p.nvs[k] # nvs[k] => k \in p.touched
      BY PatchKeeps DEF PatchInv
    <3>2. nvs' = p.nvs /\ p.ok
      BY <2>3 DEF Patch, Accepted
    <3> QED BY <3>1, <3>2
  <2>4. ASSUME LiveOf(same) # LiveOf(nvs) PROVE pending'
    <3>1. PICK key \in RebuildKeys \cup {"miningPoolName", "nwcEnabled"} : same[key] # nvs[key]
      BY <2>1, <2>2, <2>4, RotationFollowsKeys
    <3>2. key \in RebuildKeys /\ nvs'[key] # nvs[key] /\ key \in Keys
      BY <2>2, <3>1 DEF RebuildKeys, Keys
    <3>3. ~RebuildScreens /\ ~Reboot
      BY <3>2 DEF RebuildScreens, Reboot
    <3> QED BY <2>3, <3>2, <3>3 DEF PatchNext, Patch
  <2>5. ASSUME LiveOf(samePool) # LiveOf(same) PROVE answer' = "reboot"
    <3>1. PICK key \in RebuildKeys \cup {"miningPoolName", "nwcEnabled"} :
            samePool[key] # same[key]
      BY <2>2, <2>5, RotationFollowsKeys
    <3>2. nvs'.nwcEnabled # nvs.nwcEnabled
      BY <2>2, <3>1
    <3>3. nvs'["nwcEnabled"] # nvs["nwcEnabled"] /\ "nwcEnabled" \in Keys
          /\ "nwcEnabled" \in BootOnlyKeys
      BY <3>2 DEF Keys, BootOnlyKeys
    <3>4. ~RebuildScreens /\ ~Reboot
      BY <3>2 DEF RebuildScreens, Reboot
    <3> QED BY <2>3, <3>3, <3>4 DEF PatchNext, Patch
  <2> QED BY <2>4, <2>5
<1> QED BY <1>1, SettingsStayGood, PTL DEF PatchSpec, PatchRebuildsOrReboots

(* Where every relay entry is one URL, no accepted combination of relay    *)
(* list, legacy relay and wallet switch, in any order of its fields, takes *)
(* the device over kMaxNostrRelays (settings_api.cpp).                     *)
THEOREM RelayBudgetHolds == UrlsPerEntry = 1 => (PatchSpec => AcceptedPatchKeepsRelayBudget)
<1> SUFFICES ASSUME UrlsPerEntry = 1 PROVE PatchSpec => AcceptedPatchKeepsRelayBudget
  OBVIOUS
<1> DEFINE Step == Accepted /\ RelayBudgetOK(nvs) => RelayBudgetOK(nvs')
<1>1. PatchInv /\ [PatchNext]_patchVars => [Step]_patchVars
  <2> SUFFICES ASSUME PatchInv, PatchNext, Accepted, RelayBudgetOK(nvs)
               PROVE  RelayBudgetOK(nvs')
    OBVIOUS
  <2>1. ASSUME NEW body \in Bodies, Patch(body) PROVE RelayBudgetOK(nvs')
    <3> DEFINE p == ApplyPatch(nvs, body)
    <3>1. p.ok /\ RelayBudgetOK(nvs) => RelayBudgetOK(p.nvs)
      BY PatchKeeps DEF PatchInv
    <3>2. nvs' = p.nvs /\ p.ok
      BY <2>1 DEF Patch, Accepted
    <3> QED BY <3>1, <3>2
  <2>2. CASE UNCHANGED nvs
    BY <2>2
  <2> QED BY <2>1, <2>2 DEF PatchNext, RebuildScreens, Reboot
<1> QED BY <1>1, SettingsStayGood, PTL DEF PatchSpec, AcceptedPatchKeepsRelayBudget

(* What the screen manager takes for granted of its lists and plans.       *)
LiveFits ==
  LET n == Len(live.currencies)
  IN  /\ live.currencies \in Seq(STRING) /\ n > 0
      /\ live.plan \in Seq(Slots(n)) /\ Len(live.plan) > 0

(* Good settings give such a list and such a plan.                         *)
LEMMA LiveOfFits ==
  ASSUME NEW s \in Settings, NEW l, l = LiveOf(s)
  PROVE  LET n == Len(l.currencies)
         IN  /\ l.currencies \in Seq(STRING) /\ n > 0
             /\ l.plan \in Seq(Slots(n)) /\ Len(l.plan) > 0
<1>1. l.currencies = Currencies(s) /\ l.plan = PlanOf(s)
  BY DEF LiveOf
<1> QED BY <1>1, SettingsFacts, PlanFacts

(* The lists and plans the settings hand to the screen manager are those it*)
(* is proved for: at least one currency, a plan that is never empty and    *)
(* inside the layout (CurrencyListsAssumption and PlansAssumption of       *)
(* ScreenMethods, along boot, PATCH, rebuild and reboot).                  *)
THEOREM LivePlansFit == PatchSpec => []LiveFits
<1>1. PatchInit => LiveFits
  BY FactoryIsGood, LiveOfFits DEF PatchInit, PatchInv, LiveFits
<1>2. PatchInv /\ LiveFits /\ [PatchNext]_patchVars => LiveFits'
  <2> SUFFICES ASSUME PatchInv, LiveFits, [PatchNext]_patchVars PROVE LiveFits'
    OBVIOUS
  <2>1. CASE UNCHANGED live
    BY <2>1 DEF LiveFits
  <2>2. CASE live' = LiveOf(nvs)
    BY <2>2, LiveOfFits DEF LiveFits, PatchInv
  <2> QED BY <2>1, <2>2 DEF PatchNext, Patch, RebuildScreens, Reboot, patchVars
<1> QED BY <1>1, <1>2, SettingsStayGood, PTL DEF PatchSpec
=============================================================================
