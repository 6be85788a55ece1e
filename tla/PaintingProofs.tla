--------------------------- MODULE PaintingProofs ---------------------------
(***************************************************************************)
(* What the panels show, for every set of worlds: currencies, plans, data, *)
(* preferences and times.  The height on a height screen never goes back.  *)
(* And in informed worlds the panels of a manager that sees no reason to   *)
(* repaint show the current screen with its current value.                 *)
(*                                                                         *)
(* The second argument is about the shadows.  While no repaint is forced,  *)
(* the value on the panels is the one in the current screen's shadow: so   *)
(* comparing the snapshot with the shadow compares it with the panels, and *)
(* a cell diff against the shadow is a diff against what the cells hold.   *)
(* Shadows are shared, so a screen's shadow may be another's value by the  *)
(* time it comes back; what saves it is that every change of screen forces *)
(* the next paint.                                                         *)
(***************************************************************************)
EXTENDS Painting, ScreenMethodsProofs

(***************************************************************************)
(* The height on the panels.                                               *)
(***************************************************************************)

HeightShown(p, h) ==
  p.panels.view[1] \in HeightKinds =>
    \E n \in 0 .. h : p.panels.value = <<n>>

HInv ==
  /\ world \in Worlds
  /\ snap.block_height \in Nat
  /\ Painted(pt)
  /\ HeightShown(pt, snap.block_height)

(* A paint over pt shows no other height than pt did, or the hub's.        *)
NoOther(q) ==
  /\ Painted(q)
  /\ \/ q.panels = pt.panels
     \/ q.panels.view[1] \in HeightKinds => q.panels.value = <<snap.block_height>>

LEMMA PaintedHeight ==
  ASSUME NEW m, Painted(pt)
  PROVE  NoOther(Paint(m, pt, snap, time, prefs))
<1> DEFINE kind == current_kind(m)
           frame == Frame(m, snap, time, prefs)
           sh == Shadow(kind)
           cells == CellDiff(pt.panels, kind, frame,
                             IF ForceRepaint(m) THEN Sentinel[sh] ELSE pt.last[sh])
           q == Paint(m, pt, snap, time, prefs)
<1>1. frame.view[1] = kind /\ frame.value = Value(m, snap, time, prefs)
  BY DEF Frame, View
<1>2. frame.value # Nothing /\ kind \in HeightKinds => frame.value = <<snap.block_height>>
  BY <1>1, Values
<1>3. Mixed.view[1] \notin HeightKinds
  BY DEF Mixed, HeightKinds
<1>4. cells \in {pt.panels, frame, Mixed}
  BY DEF CellDiff
<1>5. /\ Painted(q)
      /\ q.panels \in {pt.panels, frame, Mixed}
      /\ q.panels = pt.panels \/ frame.value # Nothing
  <2>1. CASE m.ota_active \/ m.debug_mode \/ frame.value = Nothing
    <3>1. /\ m.ota_active \/ m.debug_mode => kind \in {"OtaUpdate", "Debug"}
          /\ frame.value = Nothing => kind \notin {"NostrZap", "NwcPaymentNotify", "Custom"}
      BY <1>1, Values DEF current_kind, Nothing
    <3> HIDE DEF kind, frame
    <3> QED BY <2>1, <3>1 DEF Paint, kind, frame
  <2>2. CASE ~(m.ota_active \/ m.debug_mode \/ frame.value = Nothing)
    <3> HIDE DEF cells
    <3>1. \/ q = pt
          \/ q = [pt EXCEPT !.panels = frame]
          \/ q.panels = cells /\ Painted(q)
      BY <2>2 DEF Paint, Painted, cells
    <3> HIDE DEF frame, q
    <3> QED BY <1>4, <2>2, <3>1 DEF Painted
  <2> QED BY <2>1, <2>2
<1> HIDE DEF frame, cells, q
<1>6. Painted(q) /\ (q.panels = pt.panels
                      \/ (q.panels.view[1] \in HeightKinds => q.panels.value = <<snap.block_height>>))
  BY <1>1, <1>2, <1>3, <1>5
<1> QED BY <1>6 DEF NoOther, q

LEMMA DebugHeight ==
  ASSUME Painted(pt)
  PROVE  NoOther(PaintDebug(pt))
<1> DEFINE A == [Mixed EXCEPT !.view = <<"Debug", NoCurrency>>]
           B == [f \in DOMAIN Sentinel |->
                   IF f \in {"MiningPoolEstimatedEarnings", "NwcBalance"}
                   THEN pt.last[f] ELSE Sentinel[f]]
<1>1. PaintDebug(pt) = [pt EXCEPT !.panels = A, !.last = B]
  BY DEF PaintDebug
<1>2. A.view[1] \notin HeightKinds
  BY DEF Mixed, HeightKinds
<1> HIDE DEF A, B
<1> QED BY <1>1, <1>2 DEF NoOther, Painted

(* The panels of every step are of one of four makes.                      *)
LEMMA HeightStep ==
  ASSUME HInv, [Next]_vars
  PROVE  /\ NoOther(pt') /\ world' = world
         /\ snap' = snap \/ (pt' = pt /\ \E s \in world.samples : snap' = Merge(snap, s))
<1>1. Painted(pt)
  BY DEF HInv
<1>2. ASSUME NEW m, Rendered(m)
      PROVE  NoOther(pt') /\ UNCHANGED <<snap, world>>
  BY <1>1, <1>2, PaintedHeight DEF Rendered
<1>3. NoOther(pt)
  BY <1>1 DEF NoOther
<1>4. CASE Navigate
  BY <1>2, <1>4 DEF Navigate
<1>5. CASE Notify
  BY <1>2, <1>5 DEF Notify
<1>6. CASE RebuildScreens
  BY <1>1, <1>2, <1>6, PaintedHeight DEF RebuildScreens
<1>7. CASE Debug
  BY <1>1, <1>2, <1>7, DebugHeight DEF Debug
<1>8. CASE DataPush
  BY <1>2, <1>8 DEF DataPush
<1>9. CASE Report
  BY <1>3, <1>9 DEF Report
<1>10. CASE ThrottleEnds
  <2>1. pt' = [pt EXCEPT !.throttled = FALSE] /\ snap' = snap /\ world' = world
    BY <1>10 DEF ThrottleEnds
  <2>2. pt'.panels = pt.panels /\ Painted(pt')
    BY <1>1, <2>1, Zenon DEF Painted
  <2> QED BY <2>1, <2>2 DEF NoOther
<1>11. CASE ClockTicks \/ PatchPrefs \/ UNCHANGED vars
  BY <1>3, <1>11 DEF ClockTicks, PatchPrefs, vars
<1> QED
  BY <1>4, <1>5, <1>6, <1>7, <1>8, <1>9, <1>10, <1>11 DEF Next

LEMMA HeightInductive ==
  ASSUME HInv, [Next]_vars
  PROVE  /\ HInv'
         /\ pt.panels.view[1] \in HeightKinds /\ pt'.panels.view = pt.panels.view
              => pt'.panels.value[1] >= pt.panels.value[1]
<1> DEFINE h == snap.block_height
           k == snap'.block_height
<1>1. NoOther(pt') /\ world' = world
  BY HeightStep
<1>2. h \in Nat /\ k \in Nat /\ h <= k
  <2>1. CASE snap' = snap
    BY <2>1 DEF HInv
  <2>2. CASE \E s \in world.samples : snap' = Merge(snap, s)
    <3>1. PICK s \in world.samples : snap' = Merge(snap, s)
      BY <2>2
    <3>2. s.block_height \in Nat /\ h \in Nat
      BY <3>1, WorldsAssumption DEF HInv
    <3> QED BY <3>1, <3>2, MergedHeight
  <2> QED BY <2>1, <2>2, HeightStep
<1> HIDE DEF h, k
<1>3. /\ pt.panels.view[1] \in HeightKinds => \E n \in 0 .. h : pt.panels.value = <<n>>
      /\ \/ pt'.panels = pt.panels
         \/ pt'.panels.view[1] \in HeightKinds => pt'.panels.value = <<h>>
      /\ Painted(pt')
  BY <1>1 DEF HInv, HeightShown, NoOther, h
<1>4. HeightShown(pt', k)
  BY <1>2, <1>3 DEF HeightShown
<1>5. ASSUME pt.panels.view[1] \in HeightKinds, pt'.panels.view = pt.panels.view
      PROVE  pt'.panels.value[1] >= pt.panels.value[1]
  <2>1. PICK n \in 0 .. h : pt.panels.value = <<n>>
    BY <1>3, <1>5
  <2>2. pt'.panels.value = <<n>> \/ pt'.panels.value = <<h>>
    BY <1>3, <1>5, <2>1
  <2> QED BY <1>2, <2>1, <2>2
<1>6. HInv'
  BY <1>1, <1>2, <1>3, <1>4 DEF HInv, h, k, HeightShown
<1> QED BY <1>5, <1>6

LEMMA HeightInitially == Init => HInv
<1> SUFFICES ASSUME Init
             PROVE  HInv
  OBVIOUS
<1>1. PICK throttled \in BOOLEAN : pt = BootPaint(throttled)
  BY DEF Init
<1>2. Painted(pt) /\ pt.panels.view[1] \notin HeightKinds
  BY <1>1 DEF BootPaint, Painted, Mixed, HeightKinds
<1> QED BY <1>2, WorldsAssumption DEF Init, HInv, HeightShown

(* While a height screen stays up its height never goes back: the hub      *)
(* refuses a lower one (hub.cpp) and a cell diff paints the hub's height   *)
(* or nothing of it (screen_manager.cpp, RenderBlockHeight and its kin).   *)
THEOREM HeightsNeverGoBack == Spec => HeightNeverRegresses
<1>1. HInv /\ [Next]_vars => HInv'
  BY HeightInductive
<1>2. HInv /\ [Next]_vars
        => [/\ pt.panels.view[1] \in HeightKinds
            /\ pt'.panels.view = pt.panels.view
            => pt'.panels.value[1] >= pt.panels.value[1]]_vars
  BY HeightInductive
<1> QED
  BY <1>1, <1>2, HeightInitially, PTL DEF Spec, HeightNeverRegresses

(***************************************************************************)
(* What a screen shows in an informed world.                               *)
(***************************************************************************)

(* The device has heard its data and knows the time.                       *)
Hears == Known(snap) /\ time # 0 /\ prefs.blockFeeDec

(* The invariant.                                                          *)
SInv ==
  /\ Good(sm) /\ world \in Worlds /\ InformedWorld(world) /\ Hears /\ PaintOK(pt)
  /\ sm.debug_mode => pt.panels.view[1] = "Debug"
  /\ Unowned(sm) /\ ~ForceRepaint(sm) => Shown(sm, pt, prefs)

(* A handler that leaves m and renders it: m asks for the paint, or is the *)
(* manager of a data push.                                                 *)
LEMMA RenderedHolds ==
  ASSUME SInv, NEW m, Good(m), m.debug_mode => sm.debug_mode, Rendered(m),
         ForceRepaint(m) \/ (m = sm /\ Unowned(sm) /\ ~Overlay(sm))
  PROVE  SInv'
<1> DEFINE q == Paint(m, pt, snap, time, prefs)
<1>1. sm' = Render(m) /\ pt' = q /\ UNCHANGED <<snap, time, prefs, world>>
  BY DEF Rendered
<1>2. Good(sm) /\ world \in Worlds /\ InformedWorld(world) /\ Hears /\ PaintOK(pt)
  BY DEF SInv
<1>3. Good(sm')
  BY <1>1, FlagMethodsGood
<1>4. PaintOK(q) /\ (~Unowned(m) => q = pt)
  BY <1>2, PaintKeepsOK DEF Unowned, Hears
<1>5. /\ View(sm') = View(m) /\ current_kind(sm') = current_kind(m)
      /\ SameModes(m, sm')
  BY <1>1, RenderKeepsView
<1>6. Hears' /\ PaintOK(pt') /\ world' \in Worlds /\ InformedWorld(world')
  BY <1>1, <1>2, <1>4 DEF Hears
<1> HIDE DEF q
<1>7. sm'.debug_mode => pt'.panels.view[1] = "Debug"
  BY <1>1, <1>4, <1>5 DEF SInv, SameModes, Unowned
<1>8. ASSUME Unowned(sm'), ~ForceRepaint(sm')
      PROVE  Shown(sm', pt', prefs')
  <2>1. Unowned(m)
    BY <1>5, <1>8 DEF Unowned, SameModes
  <2>2. ForceRepaint(m) \/ (Shown(m, pt, prefs) /\ ~Overlay(m))
    BY DEF SInv
  <2>3. Shown(m, q, prefs)
    BY <1>2, <2>1, <2>2, PaintShows DEF Unowned, Hears, q
  <2> QED BY <1>1, <1>5, <2>3 DEF Shown, Overlay
<1> QED BY <1>3, <1>6, <1>7, <1>8 DEF SInv

(* The handlers' managers.                                                 *)
LEMMA RebuildAsks ==
  ASSUME NEW m, Good(m), NEW list \in CurrencyLists, NEW plan \in Plans[Len(list)]
  PROVE  LET w == SetRotationSequence(SetCurrencies(m, list), plan)
         IN  Good(w) /\ SameModes(m, w)
<1> DEFINE a == SetCurrencies(m, list)
           b == [a EXCEPT !.rotation_sequence = plan]
           w == SetRotationSequence(a, plan)
<1>1. Good(w)
  BY RebuildGood
<1>2. m \in Fields
  BY GoodFields
<1>3. SameModes(m, a) /\ DOMAIN a = DOMAIN m
  BY <1>2 DEF SetCurrencies, SameModes, Fields
<1>4. {"ota_active", "debug_mode"} \subseteq DOMAIN m
  BY <1>2 DEF Fields
<1> HIDE DEF a
<1>5. SameModes(a, b) /\ DOMAIN b = DOMAIN a
  BY <1>3, <1>4 DEF SameModes
<1> HIDE DEF b
<1>6. SameModes(b, SyncIndex(b))
  BY <1>3, <1>4, <1>5 DEF SyncIndex, SameModes
<1>7. w = SyncIndex(b)
  BY DEF SetRotationSequence, b
<1> QED BY <1>1, <1>3, <1>5, <1>6, <1>7 DEF SameModes, a

(* A step that only marks the panels dirty.                                *)
LEMMA DirtyHolds ==
  ASSUME SInv, Hears', PaintOK(pt'), world' = world, Good(sm'), sm'.dirty,
         sm'.debug_mode => pt'.panels.view[1] = "Debug"
  PROVE  SInv'
  BY DEF SInv, ForceRepaint

LEMMA DebugHolds ==
  ASSUME SInv, Debug
  PROVE  SInv'
<1> DEFINE m == ToggleDebug(sm)
<1>1. Good(sm) /\ sm \in Fields /\ Good(m)
  BY GoodFields, FlagMethodsGood DEF SInv
<1>2. CASE /\ sm' = RenderDebug(IF sm.debug_mode THEN sm ELSE m)
           /\ pt' = PaintDebug(pt)
           /\ UNCHANGED <<snap, time, prefs, world>>
  <2>1. Good(sm') /\ sm'.dirty
    BY <1>1, <1>2, DirtyAsks
  <2>2. PaintOK(pt') /\ pt'.panels.view[1] = "Debug"
    BY <1>2, DebugPainted DEF SInv
  <2> QED BY <1>2, <2>1, <2>2, DirtyHolds DEF SInv, Hears
<1>3. CASE sm.debug_mode /\ Rendered(m)
  <2>1. m.dirty = TRUE /\ m.debug_mode = FALSE
    BY <1>1, <1>3 DEF ToggleDebug, Restart, Fields
  <2> HIDE DEF m
  <2>2. ForceRepaint(m) /\ ~m.debug_mode
    BY <2>1, Zenon DEF ForceRepaint
  <2> QED BY <1>1, <1>3, <2>2, RenderedHolds
<1> QED BY <1>2, <1>3 DEF Debug

LEMMA RebuildHolds ==
  ASSUME SInv, RebuildScreens
  PROVE  SInv'
<1>1. PICK list \in CurrencyLists : \E plan \in world.plans[Len(list)] :
        LET m == SetRotationSequence(SetCurrencies(sm, list), plan)
        IN  \/ Rendered(MarkDirty(m))
            \/ /\ sm' = MarkDirty(Render(m))
               /\ pt' = Paint(m, pt, snap, time, prefs)
               /\ UNCHANGED <<snap, time, prefs, world>>
  BY DEF RebuildScreens
<1>2. PICK plan \in world.plans[Len(list)] :
        LET m == SetRotationSequence(SetCurrencies(sm, list), plan)
        IN  \/ Rendered(MarkDirty(m))
            \/ /\ sm' = MarkDirty(Render(m))
               /\ pt' = Paint(m, pt, snap, time, prefs)
               /\ UNCHANGED <<snap, time, prefs, world>>
  BY <1>1
<1> DEFINE m == SetRotationSequence(SetCurrencies(sm, list), plan)
<1>3. Good(sm) /\ plan \in Plans[Len(list)] /\ Hears /\ PaintOK(pt)
  BY WorldsAssumption DEF SInv
<1>4. Good(m) /\ SameModes(sm, m)
  BY <1>3, RebuildAsks
<1>5. Rendered(MarkDirty(m))
        \/ /\ sm' = MarkDirty(Render(m))
           /\ pt' = Paint(m, pt, snap, time, prefs)
           /\ UNCHANGED <<snap, time, prefs, world>>
  BY <1>2
<1> HIDE DEF m
<1>6. CASE Rendered(MarkDirty(m))
  <2>1. Good(MarkDirty(m)) /\ ForceRepaint(MarkDirty(m)) /\ SameModes(m, MarkDirty(m))
    BY <1>4, DirtyAsks DEF ForceRepaint
  <2> QED BY <1>4, <1>6, <2>1, RenderedHolds DEF SameModes
<1>7. CASE /\ sm' = MarkDirty(Render(m))
           /\ pt' = Paint(m, pt, snap, time, prefs)
           /\ UNCHANGED <<snap, time, prefs, world>>
  <2>1. Good(Render(m)) /\ SameModes(m, Render(m))
    BY <1>4, FlagMethodsGood, RenderKeepsView
  <2>2. Good(sm') /\ sm'.dirty /\ SameModes(Render(m), sm')
    BY <1>7, <2>1, DirtyAsks
  <2>3. PaintOK(pt') /\ (m.debug_mode => pt' = pt)
    BY <1>3, <1>4, <1>7, PaintKeepsOK DEF Hears
  <2>4. sm'.debug_mode => pt'.panels.view[1] = "Debug"
    BY <1>4, <2>1, <2>2, <2>3 DEF SameModes, SInv
  <2> QED BY <1>3, <1>7, <2>2, <2>3, <2>4, DirtyHolds DEF Hears
<1> QED BY <1>5, <1>6, <1>7

LEMMA PushHolds ==
  ASSUME SInv, DataPush
  PROVE  SInv'
<1>1. /\ Rendered(sm) /\ Unowned(sm)
      /\ ForceRepaint(sm) \/ ~Overlay(sm)
  BY DEF DataPush, ShouldRender, Due, Unowned, ForceRepaint
<1> QED BY <1>1, RenderedHolds DEF SInv

LEMMA StepHolds ==
  ASSUME SInv, [Next]_vars
  PROVE  SInv'
<1>1. Good(sm) /\ world \in Worlds /\ InformedWorld(world) /\ Hears /\ PaintOK(pt)
  BY DEF SInv
<1>2. CASE Navigate
  <2>1. CASE Rendered(NextScreen(sm, {}))
    BY <1>1, <2>1, NextScreenGood, StepsAsk, NextScreenKeepsModes, RenderedHolds
    DEF SameModes, ForceRepaint
  <2>2. CASE \E s \in world.slots : Rendered(SetSlot(sm, s))
    <3>1. PICK s \in world.slots : Rendered(SetSlot(sm, s))
      BY <2>2
    <3>2. s \in Int
      <4>1. world.slots \subseteq JumpSlots
        BY <1>1, WorldsAssumption
      <4>2. world.slots \subseteq Nat
        BY <4>1, JumpSlotsAssumption
      <4>3. s \in world.slots
        BY <3>1
      <4> QED BY <4>2, <4>3
    <3>3. Good(SetSlot(sm, s)) /\ SameModes(sm, SetSlot(sm, s)) /\ ForceRepaint(SetSlot(sm, s))
      BY <1>1, <3>2, GoodParts, SetSlotGood, SetSlotAsks, SetSlotKeepsModes DEF ForceRepaint
    <3> QED BY <3>1, <3>3, RenderedHolds DEF SameModes
  <2> QED BY <1>2, <2>1, <2>2 DEF Navigate
<1>3. CASE Notify
  <2>1. \A m \in {SetCustomCells(sm), SetZapNotify(sm, FALSE), SetNwcPaymentNotify(sm, FALSE)} :
          Good(m) /\ SameModes(sm, m) /\ ForceRepaint(m)
    BY <1>1, CustomGood, ZapNotifyGood, NwcPaymentNotifyGood, NotificationsAsk, NotifyKeepsModes
    DEF ForceRepaint
  <2>2. PICK m \in {SetCustomCells(sm), SetZapNotify(sm, FALSE), SetNwcPaymentNotify(sm, FALSE)} :
          Rendered(m)
    BY <1>3 DEF Notify
  <2> QED BY <2>1, <2>2, RenderedHolds DEF SameModes
<1>4. CASE RebuildScreens
  BY <1>4, RebuildHolds
<1>5. CASE Debug
  BY <1>5, DebugHolds
<1>6. CASE DataPush
  BY <1>6, PushHolds
<1>7. CASE Report
  <2>1. PICK s \in world.samples : snap' = Merge(snap, s)
    BY <1>7 DEF Report
  <2>2. s.block_height \in Nat /\ s.block_fee \in Nat \cup {-1}
    BY <1>1, WorldsAssumption DEF InformedWorld
  <2>3. Known(snap')
    BY <1>1, <2>1, <2>2, MergeStaysKnown DEF Hears
  <2> QED BY <1>7, <2>3 DEF Report, SInv, Hears
<1>8. CASE ClockTicks
  BY <1>8 DEF ClockTicks, SInv, Hears
<1>9. CASE ThrottleEnds
  <2>1. /\ pt' = [pt EXCEPT !.throttled = FALSE]
        /\ UNCHANGED <<sm, snap, time, prefs, world>>
    BY <1>9 DEF ThrottleEnds
  <2>2. /\ pt'.panels = pt.panels /\ pt'.last = pt.last
        /\ Painted(pt')
    BY <1>1, <2>1, Zenon DEF Painted, PaintOK
  <2> QED BY <2>1, <2>2 DEF SInv, Hears, PaintOK, Shown
<1>10. CASE PatchPrefs
  <2>1. Good(sm') /\ sm'.dirty /\ SameModes(sm, sm')
    BY <1>1, <1>10, DirtyAsks DEF PatchPrefs
  <2>2. Hears'
    BY <1>1, <1>10 DEF PatchPrefs, Hears, InformedWorld
  <2> QED BY <1>1, <1>10, <2>1, <2>2, DirtyHolds DEF PatchPrefs, SInv, SameModes
<1>11. CASE UNCHANGED vars
  BY <1>11 DEF vars, SInv, Hears
<1> QED
  BY <1>2, <1>3, <1>4, <1>5, <1>6, <1>7, <1>8, <1>9, <1>10, <1>11 DEF Next

LEMMA HoldsInitially ==
  ASSUME Informed, Init
  PROVE  SInv
<1>1. PICK list \in CurrencyLists : \E plan \in world.plans[Len(list)] :
        sm = BootScreenManager(list, plan, NoSlot, FALSE)
  BY DEF Init
<1>2. PICK plan \in world.plans[Len(list)] : sm = BootScreenManager(list, plan, NoSlot, FALSE)
  BY <1>1
<1>3. world \in Worlds /\ InformedWorld(world) /\ plan \in Plans[Len(list)]
  BY WorldsAssumption DEF Init, Informed
<1>4. Good(sm)
  BY <1>2, <1>3, BootGood
<1>5. Hears
  BY <1>3 DEF Init, InformedWorld, Hears
<1>6. PaintOK(pt)
  <2>1. PICK throttled \in BOOLEAN : pt = BootPaint(throttled)
    BY DEF Init
  <2> QED BY <2>1 DEF BootPaint, PaintOK, Painted, Sentinel
<1>7. ForceRepaint(sm) /\ ~sm.debug_mode
  BY <1>2, <1>3, BootAsks DEF ForceRepaint
<1> QED BY <1>3, <1>4, <1>5, <1>6, <1>7 DEF SInv

(* An informed device settles on what it should show.                      *)
LEMMA SettledIsCurrent ==
  ASSUME SInv
  PROVE  SettledShowsCurrent
<1> DEFINE kind == current_kind(sm)
           idle == [pt EXCEPT !.throttled = FALSE]
           v == Value(sm, snap, time, prefs)
           sh == Shadow(kind)
<1> SUFFICES ASSUME Unowned(sm), ~ForceRepaint(sm), ~Due(sm, idle, snap, time)
             PROVE  Current
  <2>1. CASE sm.ota_active \/ sm.debug_mode
    BY <2>1 DEF SettledShowsCurrent, Current, ShowsCurrent, SInv
  <2>2. CASE ~(sm.ota_active \/ sm.debug_mode)
    BY <2>2 DEF SettledShowsCurrent, Settled, ShouldRender, Unowned, ForceRepaint
  <2> QED BY <2>1, <2>2
<1>1. Good(sm) /\ Hears /\ PaintOK(pt) /\ Shown(sm, pt, prefs)
  BY DEF SInv
<1>2. ~Overlay(sm) => pt.last[sh] = v
  <2>1. idle = [pt EXCEPT !.throttled = FALSE]
    OBVIOUS
  <2> HIDE DEF idle
  <2>2. PaintOK(idle) /\ idle.last = pt.last /\ ~idle.throttled
    BY <1>1, <2>1, ThrottleApart DEF PaintOK
  <2>3. ASSUME ~Overlay(sm)
        PROVE  idle.last[sh] = v
    <3>1. ~Due(sm, idle, snap, time)
      BY DEF idle
    <3>2. snap = snap /\ Known(snap) /\ time # 0 /\ prefs.blockFeeDec
      BY <1>1 DEF Hears
    <3> QED BY <1>1, <2>2, <2>3, <3>1, <3>2, DueByShadow
  <2> QED BY <2>2, <2>3
<1>3. Overlay(sm) => v = <<"overlay">>
  BY <1>1, KindsShown, Values DEF Unowned, NotificationKinds
<1>4. pt.panels.value = v
  BY <1>1, <1>2, <1>3 DEF Shown
<1> QED BY <1>1, <1>4 DEF Current, ShowsCurrent, SameFrame, Frame, Shown

(* From the first paint on, for every informed set of worlds.              *)
THEOREM PanelsInvariant == Informed /\ Spec => []SInv
<1>1. Informed /\ Init => SInv
  BY HoldsInitially
<1>2. SInv /\ [Next]_vars => SInv'
  BY StepHolds
<1> QED BY <1>1, <1>2, PTL DEF Spec

(* In an informed world a manager that sees no reason to repaint has       *)
(* nothing to repaint: the panels show the current screen, in the current  *)
(* preferences, with the current value, though screens share shadows, the  *)
(* throttle delays prices and the debug overlay paints over all of them    *)
(* (screen_manager.cpp, ShouldRender and Render).                          *)
THEOREM SettledPanelsAreCurrent == Informed /\ Spec => []SettledShowsCurrent
  BY PanelsInvariant, SettledIsCurrent, PTL

(* A data push handled leaves nothing to repaint, in an informed world: no *)
(* screen asks for paint after paint.                                      *)
THEOREM PushesSettle == Informed /\ Spec => RenderSettles
<1>1. SInv /\ [Next]_vars => [DataPush => Settled']_vars
  <2> SUFFICES ASSUME SInv, DataPush
               PROVE  Settled'
    OBVIOUS
  <2> DEFINE idle == [pt' EXCEPT !.throttled = FALSE]
             q == Paint(sm, pt, snap, time, prefs)
             kind == current_kind(sm)
             sh == Shadow(kind)
  <2>1. /\ Good(sm) /\ Unowned(sm) /\ Rendered(sm) /\ PaintOK(pt) /\ Hears
        /\ ForceRepaint(sm) \/ (Shown(sm, pt, prefs) /\ ~Overlay(sm))
    BY DEF SInv, DataPush, ShouldRender, Due, Unowned, ForceRepaint
  <2>2. sm' = Render(sm) /\ pt' = q /\ UNCHANGED <<snap, time, prefs, world>>
    BY <2>1 DEF Rendered
  <2>3. /\ Unowned(sm') /\ ~ForceRepaint(sm') /\ Good(sm')
        /\ current_kind(sm') = kind /\ View(sm') = View(sm)
    BY <2>1, <2>2, RenderKeepsView, FlagMethodsGood DEF SameModes, Unowned
  <2>4. ~Overlay(sm) => q.last[sh] = Value(sm, snap, time, prefs)
    BY <2>1, PaintShows DEF Unowned, Hears
  <2>5. Value(sm', snap, time, prefs) = Value(sm, snap, time, prefs)
    <3>1. sm'.slot = sm.slot /\ sm'.currencies = sm.currencies
      BY <2>1, <2>2, GoodFields DEF Render, Fields
    <3>2. current_currency(sm') = current_currency(sm)
      BY <3>1 DEF current_currency, NumCurrencies
    <3> QED BY <2>3, <3>2 DEF Value, Price
  <2>6. PaintOK(q)
    BY <2>1, PaintKeepsOK DEF Hears
  <2> HIDE DEF q
  <2>7. PaintOK(idle) /\ ~idle.throttled /\ idle.last = pt'.last
    <3>1. idle = [pt' EXCEPT !.throttled = FALSE] /\ PaintOK(pt')
      BY <2>2, <2>6
    <3> HIDE DEF idle
    <3> QED BY <3>1, ThrottleApart DEF PaintOK
  <2> HIDE DEF idle
  <2>8. ~Due(sm', idle, snap', time')
    <3>1. CASE Overlay(sm')
      BY <3>1 DEF Due
    <3>2. CASE ~Overlay(sm')
      <4>1. idle.last[Shadow(current_kind(sm'))] = Value(sm', snap, time, prefs)
        BY <2>2, <2>3, <2>4, <2>5, <2>7, <3>2 DEF Overlay
      <4> QED BY <2>1, <2>2, <2>3, <2>7, <3>2, <4>1, DueByShadow DEF Hears
    <3> QED BY <3>1, <3>2
  <2> QED BY <2>3, <2>8 DEF Settled, ShouldRender, Unowned, ForceRepaint, idle
<1> QED BY <1>1, PanelsInvariant, PTL DEF RenderSettles, Spec
=============================================================================
