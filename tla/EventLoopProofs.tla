--------------------------- MODULE EventLoopProofs --------------------------
(***************************************************************************)
(* The main task and the tasks that wake it, for any data, plans, settings *)
(* and combination of tasks: the screen manager stays good through slow    *)
(* paints, blocks are flashed in ascending order, the panels belong to the *)
(* update overlay once it is up, every flag is served, and in a calm       *)
(* device no wake-up is lost and the panels catch up.                      *)
(***************************************************************************)
EXTENDS EventLoop, ScreenMethodsProofs

(***************************************************************************)
(* The invariant.                                                          *)
(***************************************************************************)

(* A batch is one command (PostCommand's bound).                           *)
Batches == {<<>>} \cup {<<c>> : c \in {"next", "custom"}}

(* So is the button queue.                                                 *)
Presses == {<<>>} \cup {<<b>> : b \in {"pause", "next", "debug"}}

Control ==
  /\ pc \in {"top", "take", "serve", "painting"}
  /\ owed \subseteq {"source", "zap", "nwc", "ota", "hook", "settings"}
  /\ pending \subseteq {"zap", "nwc", "ota"}
  /\ commands \in Batches
  /\ button \in Presses
  /\ settings \in Settings

(* No block above the hub's is flashed, and the flash under way is between *)
(* the last one and the hub's.                                             *)
Heights ==
  /\ snap.block_height \in Nat /\ seen \in Nat /\ flashed \in Nat
  /\ flashDue \in BOOLEAN
  /\ flashed <= snap.block_height
  /\ flashDue => pc = "painting" /\ flashed <= seen /\ seen <= snap.block_height

(* The overlay is painted, or about to be, under its latch only.           *)
Panels ==
  /\ pt = [panels |-> pt.panels, last |-> pt.last, throttled |-> pt.throttled]
  /\ pt.panels.view[1] = "OtaUpdate" => sm.ota_active
  /\ "ota" \in pending => sm.ota_active

LInv == Good(sm) /\ Control /\ Heights /\ Panels

(***************************************************************************)
(* The methods leave the update and debug latches alone.                   *)
(***************************************************************************)

LEMMA AutoRotateKeepsModes ==
  ASSUME NEW m, Good(m)
  PROVE  SameModes(m, MaybeAutoRotate(m, {}))
<1> DEFINE w == ClearCustom(m)
           n == StepPlan(w, 1, m.custom_active, {})
<1>1. Good(w) /\ SameModes(m, w)
  BY ClearCustomGood, ClearKeepsModes
<1>2. m.custom_active \in BOOLEAN
  BY GoodFields DEF Fields
<1> HIDE DEF w
<1>3. Good(n) /\ SameModes(w, n)
  BY <1>1, <1>2, StepPlanGood, StepPlanKeepsModes
<1> HIDE DEF n
<1>4. SameModes(m, Navigated(n))
  BY <1>1, <1>3, NavigatedKeepsModes DEF SameModes
<1>5. SameModes(m, Navigated(ClearNwc(m))) /\ SameModes(m, Navigated(ClearZap(m)))
  BY ClearKeepsModes, ClearNwcGood, ClearZapGood, NavigatedKeepsModes DEF SameModes
<1>6. SameModes(m, m)
  BY DEF SameModes
<1> QED BY <1>4, <1>5, <1>6 DEF MaybeAutoRotate, n, w

(* A jump to a kind, when there is such a slot, asks for a repaint.        *)
LEMMA SetKindKeepsModes ==
  ASSUME NEW m, Good(m), NEW kind
  PROVE  /\ SameModes(m, SetKind(m, kind))
         /\ SetKind(m, kind) = m \/ SetKind(m, kind).screen_change_pending
<1>1. CASE SlotsOfKind(m, kind) = {}
  BY <1>1 DEF SetKind, SameModes
<1>2. CASE SlotsOfKind(m, kind) # {}
  <2>1. SlotsOfKind(m, kind) \in SUBSET Nat
    BY DEF SlotsOfKind, Slots
  <2>2. Least(SlotsOfKind(m, kind)) \in Int
    BY <1>2, <2>1, LeastInSet
  <2> QED BY <1>2, <2>2, SetSlotKeepsModes, SetSlotAsks DEF SetKind
<1> QED BY <1>1, <1>2

LEMMA FlagsKeepModes ==
  ASSUME NEW m, Good(m)
  PROVE  /\ SameModes(m, TogglePaused(m))
         /\ ToggleDebug(m).ota_active = m.ota_active
         /\ SameModes(m, MarkDirty(m))
         /\ SameModes(m, RenderDebug(m))
         /\ SameModes(m, Age(m))
         /\ SameModes(m, [m EXCEPT !.dirty = FALSE, !.screen_change_pending = FALSE])
         /\ SetOtaOverlay(m).ota_active
<1>1. m \in Fields
  BY GoodFields
<1> QED
  BY <1>1 DEF TogglePaused, ToggleDebug, Restart, MarkDirty, RenderDebug, Age, SetOtaOverlay,
     SameModes, Fields

(***************************************************************************)
(* A batch of one command.                                                 *)
(***************************************************************************)

LEMMA MaxOfOne == Max({1}) = 1
<1>1. \E x \in {1} : \A y \in {1} : x >= y
  OBVIOUS
<1> QED BY <1>1 DEF Max

(* The fold's recursive function, written out for a sequence of one.       *)
LEMMA FoldOne ==
  ASSUME NEW m, NEW c
  PROVE  FoldLeft(Apply, m, <<c>>) = Apply(m, c)
<1> DEFINE P(g) == g = [s \in SUBSET {1} |-> IF s = {} THEN m
                         ELSE Apply(g[s \ {Max(s)}], <<c>>[Max(s)])]
           h == [s \in SUBSET {1} |-> IF s = {} THEN m ELSE Apply(m, c)]
           f == CHOOSE g : P(g)
<1>1. SUBSET {1} = {{}, {1}}
  OBVIOUS
<1>2. DOMAIN <<c>> = {1} /\ <<c>>[1] = c
  OBVIOUS
<1>3. P(h)
  BY <1>1, <1>2, MaxOfOne
<1>4. P(f)
  BY <1>3
<1>5. ASSUME NEW g, P(g) PROVE g[{1}] = Apply(m, c)
  <2>1. g[{}] = m
    BY <1>1, <1>5
  <2>2. g[{1}] = Apply(g[{1} \ {Max({1})}], <<c>>[Max({1})])
    BY <1>1, <1>5
  <2>3. {1} \ {Max({1})} = {} /\ <<c>>[Max({1})] = c
    BY <1>2, MaxOfOne
  <2> QED BY <2>1, <2>2, <2>3, Zenon
<1>6. FoldLeft(Apply, m, <<c>>) = f[{1}]
  BY <1>2, Zenon DEF FoldLeft, MapThenFoldSet
<1>7. f[{1}] = Apply(m, c)
  <2> HIDE DEF f, P
  <2> QED BY <1>4, <1>5
<1> QED BY <1>6, <1>7

LEMMA BatchGood ==
  ASSUME NEW m, Good(m), NEW batch \in Batches, batch # <<>>
  PROVE  LET w == FoldLeft(Apply, m, batch)
         IN  Good(w) /\ SameModes(m, w) /\ ForceRepaint(w)
<1>1. PICK c \in {"next", "custom"} : batch = <<c>>
  BY DEF Batches
<1>2. FoldLeft(Apply, m, batch) = Apply(m, c)
  BY <1>1, FoldOne
<1>3. Apply(m, c) = NextScreen(m, {}) \/ Apply(m, c) = SetCustomCells(m)
  BY DEF Apply
<1>4. /\ Good(NextScreen(m, {})) /\ SameModes(m, NextScreen(m, {}))
      /\ Good(SetCustomCells(m)) /\ SameModes(m, SetCustomCells(m))
  BY NextScreenGood, CustomGood, NextScreenKeepsModes, NotifyKeepsModes
<1>5. ForceRepaint(NextScreen(m, {})) /\ ForceRepaint(SetCustomCells(m))
  BY StepsAsk, NotificationsAsk DEF ForceRepaint
<1> QED BY <1>2, <1>3, <1>4, <1>5

(***************************************************************************)
(* Painting.                                                               *)
(***************************************************************************)

(* Render leaves the panels alone under the update overlay, and paints no  *)
(* update overlay without it.                                              *)
LEMMA PaintRespectsOta ==
  ASSUME NEW m, Good(m), NEW p, Painted(p), NEW s, NEW t, NEW f
  PROVE  /\ Painted(Paint(m, p, s, t, f))
         /\ m.ota_active => Paint(m, p, s, t, f) = p
         /\ Paint(m, p, s, t, f).panels.view[1] = "OtaUpdate"
              => p.panels.view[1] = "OtaUpdate"
<1> DEFINE q == Paint(m, p, s, t, f)
           frame == Frame(m, s, t, f)
<1>1. CASE m.ota_active
  <2>1. current_kind(m) = "OtaUpdate"
    BY <1>1 DEF current_kind
  <2> QED BY <1>1, <2>1 DEF Paint
<1>2. CASE ~m.ota_active
  <2>1. current_kind(m) # "OtaUpdate"
    BY <1>2, SlotShows DEF current_kind, SlotKinds
  <2>2. frame.view[1] # "OtaUpdate"
    BY <2>1 DEF Frame, View
  <2>3. Mixed.view[1] # "OtaUpdate"
    BY DEF Mixed
  <2>4. \A prev : CellDiff(p.panels, current_kind(m), frame, prev) \in {p.panels, frame, Mixed}
    BY DEF CellDiff
  <2> HIDE DEF frame
  <2>5. Painted(q) /\ q.panels \in {p.panels, frame, Mixed}
    BY <2>4 DEF Paint, Painted, frame
  <2> QED BY <1>2, <2>2, <2>3, <2>5
<1> QED BY <1>1, <1>2

(***************************************************************************)
(* The invariant is inductive.                                             *)
(***************************************************************************)

LEMMA LInit == Init => LInv
<1> SUFFICES ASSUME Init
             PROVE  LInv
  OBVIOUS
<1>1. PICK list \in CurrencyLists : \E plan \in Plans[Len(list)] :
        /\ sm = Render(BootScreenManager(list, plan, NoSlot, FALSE))
        /\ pt = Paint(BootScreenManager(list, plan, NoSlot, FALSE), BootPaint(FALSE),
                      snap, time, prefs)
  BY DEF Init
<1>2. PICK plan \in Plans[Len(list)] :
        /\ sm = Render(BootScreenManager(list, plan, NoSlot, FALSE))
        /\ pt = Paint(BootScreenManager(list, plan, NoSlot, FALSE), BootPaint(FALSE),
                      snap, time, prefs)
  BY <1>1
<1> DEFINE m == BootScreenManager(list, plan, NoSlot, FALSE)
<1>3. Good(m)
  BY BootGood
<1>4. sm = Render(m) /\ pt = Paint(m, BootPaint(FALSE), snap, time, prefs)
  BY <1>2
<1> HIDE DEF m
<1>5. Good(sm)
  BY <1>3, <1>4, FlagMethodsGood
<1>6. Painted(BootPaint(FALSE)) /\ BootPaint(FALSE).panels.view[1] # "OtaUpdate"
  BY DEF Painted, BootPaint, Mixed
<1>7. Painted(pt) /\ pt.panels.view[1] # "OtaUpdate"
  <2> DEFINE p == BootPaint(FALSE)
             q == Paint(m, p, snap, time, prefs)
  <2>1. Painted(p) /\ p.panels.view[1] # "OtaUpdate"
    BY <1>6
  <2> HIDE DEF p
  <2>2. Painted(q) /\ (q.panels.view[1] = "OtaUpdate" => p.panels.view[1] = "OtaUpdate")
    BY <1>3, <2>1, PaintRespectsOta
  <2>3. pt = q
    BY <1>4 DEF p
  <2> QED BY <2>1, <2>2, <2>3
<1>8. Panels
  BY <1>7 DEF Init, Panels, Painted
<1>9. Heights
  <2>1. snap.block_height \in Nat /\ seen \in Nat /\ flashed = 0
    BY EventLoopAssumption DEF Init
  <2>2. flashDue = FALSE
    BY DEF Init
  <2>3. flashDue \in BOOLEAN /\ ~flashDue
    BY <2>2, Zenon
  <2> QED BY <2>1, <2>3 DEF Heights
<1>10. Control
  BY DEF Init, Control, Batches, Presses
<1> QED BY <1>5, <1>8, <1>9, <1>10 DEF LInv

(* What every step does to the manager and the panels: under the update    *)
(* overlay the panels stay or go to an overlay of OwnsPanels.              *)
Held ==
  /\ Good(sm') /\ Painted(pt')
  /\ sm.ota_active => sm'.ota_active
  /\ sm.ota_active => pt'.panels = pt.panels \/ pt'.panels.view[1] \in OwnsPanels
  /\ pt'.panels.view[1] = "OtaUpdate" => sm'.ota_active

LEMMA RenderedHeld ==
  ASSUME NEW m, Good(m), m.ota_active = sm.ota_active, LInv, Rendered(m)
  PROVE  Held /\ pc' \in {"top", "painting"}
<1>1. Painted(pt)
  BY DEF LInv, Panels, Painted
<1>2. pt' = Paint(m, pt, snap, time, prefs) /\ sm' = m /\ pc' \in {"top", "painting"}
  BY DEF Rendered
<1>3. /\ Painted(pt')
      /\ m.ota_active => pt' = pt
      /\ pt'.panels.view[1] = "OtaUpdate" => pt.panels.view[1] = "OtaUpdate"
  BY <1>1, <1>2, PaintRespectsOta
<1> QED BY <1>2, <1>3 DEF Held, LInv, Panels

LEMMA ContinueHeld ==
  ASSUME NEW m, Good(m), m.ota_active = sm.ota_active, LInv, Continue(m)
  PROVE  Held /\ pc' = "top"
  BY DEF Continue, Held, LInv, Panels, Painted

LEMMA DebugHeld ==
  ASSUME NEW m, Good(m), m.ota_active = sm.ota_active, LInv, RenderedDebug(m)
  PROVE  Held /\ pc' = "top"
<1>1. Good(RenderDebug(m)) /\ RenderDebug(m).ota_active = m.ota_active
  BY FlagMethodsGood, FlagsKeepModes DEF SameModes
<1>2. Painted(pt)
  BY DEF LInv, Panels, Painted
<1>3. Painted(PaintDebug(pt)) /\ PaintDebug(pt).panels.view[1] = "Debug"
  <2> DEFINE A == [Mixed EXCEPT !.view = <<"Debug", NoCurrency>>]
             B == [f \in DOMAIN Sentinel |->
                     IF f \in {"MiningPoolEstimatedEarnings", "NwcBalance"}
                     THEN pt.last[f] ELSE Sentinel[f]]
  <2>1. PaintDebug(pt) = [pt EXCEPT !.panels = A, !.last = B]
    BY DEF PaintDebug
  <2>2. A.view[1] = "Debug"
    BY DEF Mixed
  <2> HIDE DEF A, B
  <2> QED BY <1>2, <2>1, <2>2 DEF Painted
<1> QED BY <1>1, <1>3 DEF RenderedDebug, Held, OwnsPanels

(* A step that leaves the panels alone.                                    *)
LEMMA PanelsKept ==
  ASSUME LInv, pt' = pt, Good(sm'), sm.ota_active => sm'.ota_active
  PROVE  Held
  BY DEF Held, LInv, Panels, Painted

(* A step that changes neither height nor flash.                           *)
LEMMA HeightsKept ==
  ASSUME LInv, UNCHANGED <<snap, block>>, pc = "painting" => pc' = "painting"
  PROVE  Heights' /\ flashed' >= flashed
  BY DEF LInv, Heights, block

(* What the inbox of the main task needs: its types, and no paint of the   *)
(* update overlay is due but under the latch.                              *)
Inbox ==
  /\ owed \subseteq {"source", "zap", "nwc", "ota", "hook", "settings"}
  /\ pending \subseteq {"zap", "nwc", "ota"}
  /\ commands \in Batches
  /\ button \in Presses
  /\ "ota" \in pending => sm.ota_active

Kept == Held /\ Inbox' /\ Heights' /\ flashed' >= flashed
             /\ pc' \in {"top", "take", "serve", "painting"}

LEMMA LoopHeld ==
  ASSUME LInv, MainTask, settings \in Settings
  PROVE  Kept
<1>1. Good(sm) /\ Inbox /\ Heights /\ Painted(pt)
  BY DEF LInv, Control, Inbox, Panels, Painted
<1>2. settings.restore \in BOOLEAN
  BY EventLoopAssumption
<1>3. CASE DrainControlCommands
  <2> DEFINE m == FoldLeft(Apply, sm, commands)
  <2>1. Good(m) /\ m.ota_active = sm.ota_active
    BY <1>1, <1>3, BatchGood DEF DrainControlCommands, Inbox, SameModes
  <2>2. Rendered(m)
    BY <1>3 DEF DrainControlCommands
  <2> HIDE DEF m
  <2>3. Held /\ pc' \in {"top", "painting"}
    BY <2>1, <2>2, RenderedHeld
  <2>4. Heights' /\ flashed' >= flashed
    BY <1>3, HeightsKept DEF DrainControlCommands, data
  <2> QED BY <1>1, <1>3, <2>3, <2>4 DEF DrainControlCommands, Kept, Held, Inbox, Batches
<1>4. CASE HandleButton
  <2>1. Held /\ pc' \in {"top", "painting"}
    <3>1. CASE Head(button) = "pause"
      <4>1. Continue(TogglePaused(sm))
        BY <1>4, <3>1 DEF HandleButton
      <4> QED BY <1>1, <4>1, FlagMethodsGood, FlagsKeepModes, ContinueHeld DEF SameModes
    <3>2. CASE Head(button) = "next"
      <4>1. CASE sm.debug_mode
        <5>1. Continue(sm)
          BY <1>4, <3>2, <4>1 DEF HandleButton
        <5> QED BY <1>1, <5>1, ContinueHeld
      <4>2. CASE ~sm.debug_mode
        <5>1. Rendered(NextScreen(sm, {}))
          BY <1>4, <3>2, <4>2 DEF HandleButton
        <5> QED BY <1>1, <5>1, NextScreenGood, NextScreenKeepsModes, RenderedHeld DEF SameModes
      <4> QED BY <4>1, <4>2
    <3>3. CASE Head(button) = "debug"
      <4> DEFINE m == ToggleDebug(sm)
      <4>1. Good(m) /\ m.ota_active = sm.ota_active
        BY <1>1, FlagMethodsGood, FlagsKeepModes
      <4>2. RenderedDebug(m) \/ Rendered(m)
        BY <1>4, <3>3 DEF HandleButton
      <4> HIDE DEF m
      <4> QED BY <4>1, <4>2, DebugHeld, RenderedHeld
    <3>4. Head(button) \in {"pause", "next", "debug"}
      BY <1>1, <1>4 DEF HandleButton, Inbox, Presses
    <3> QED BY <3>1, <3>2, <3>3, <3>4
  <2>2. Heights' /\ flashed' >= flashed
    BY <1>4, HeightsKept DEF HandleButton, data
  <2>3. button' = <<>>
    BY <1>1, <1>4 DEF HandleButton, Inbox, Presses
  <2> QED BY <1>1, <1>4, <2>1, <2>2, <2>3 DEF HandleButton, Kept, Held, Inbox, Presses
<1>5. CASE Sleep \/ Wake
  <2>1. Held
    BY <1>1, <1>5, PanelsKept DEF Sleep, Wake
  <2>2. Heights' /\ flashed' >= flashed
    BY <1>5, HeightsKept DEF Sleep, Wake, data
  <2> QED BY <1>1, <1>5, <2>1, <2>2 DEF Sleep, Wake, inbox, Kept, Held, Inbox
<1>6. CASE FinishRender
  <2> DEFINE a == [sm EXCEPT !.dirty = FALSE]
             b == [a EXCEPT !.screen_change_pending = FALSE]
  <2>1. Good(a)
    BY <1>1, SetFlag
  <2>2. sm' = b
    BY <1>6 DEF FinishRender
  <2> HIDE DEF a
  <2>3. Good(sm')
    BY <2>1, <2>2, SetFlag
  <2>4. sm'.ota_active = sm.ota_active
    BY <1>1, <1>6, FlagsKeepModes DEF SameModes, FinishRender
  <2>5. Held
    BY <1>6, <2>3, <2>4, PanelsKept DEF FinishRender
  <2>6. Heights' /\ flashed' >= flashed
    <3>1. flashDue' = FALSE
      BY <1>6 DEF FinishRender
    <3>2. flashDue' \in BOOLEAN /\ ~flashDue'
      BY <3>1, Zenon
    <3>3. /\ flashed' = (IF flashDue THEN seen ELSE flashed)
          /\ seen' = seen /\ snap' = snap
      BY <1>6 DEF FinishRender, data
    <3> QED BY <1>1, <3>2, <3>3 DEF Heights
  <2> QED BY <1>1, <1>6, <2>4, <2>5, <2>6 DEF FinishRender, inbox, Kept, Held, Inbox
<1>7. CASE RefreshDebug
  <2>1. Held /\ pc' = "top"
    BY <1>1, <1>7, DebugHeld DEF RefreshDebug
  <2>2. Heights' /\ flashed' >= flashed
    BY <1>7, HeightsKept DEF RefreshDebug, data
  <2> QED BY <1>1, <1>7, <2>1, <2>2 DEF RefreshDebug, inbox, Kept, Held, Inbox
<1>8. CASE ServeOta
  <2>1. sm.ota_active
    BY <1>1, <1>8 DEF ServeOta, Serve, Inbox
  <2>2. Painted(pt') /\ pt'.panels.view[1] = "OtaUpdate" /\ sm' = sm
    BY <1>1, <1>8 DEF ServeOta, Painted, Mixed
  <2>3. Held
    BY <1>1, <2>1, <2>2 DEF Held, OwnsPanels
  <2>4. Heights' /\ flashed' >= flashed
    BY <1>8, HeightsKept DEF ServeOta, Serve, data
  <2> QED BY <1>1, <1>8, <2>2, <2>3, <2>4 DEF ServeOta, Serve, Kept, Inbox
<1>9. CASE ServeZap
  <2> DEFINE m == SetZapNotify(sm, settings.restore)
  <2>1. Good(m) /\ m.ota_active = sm.ota_active
    BY <1>1, <1>2, ZapNotifyGood, NotifyKeepsModes DEF SameModes
  <2>2. Rendered(m)
    BY <1>9 DEF ServeZap
  <2> HIDE DEF m
  <2>3. Held /\ pc' \in {"top", "painting"}
    BY <2>1, <2>2, RenderedHeld
  <2>4. Heights' /\ flashed' >= flashed
    BY <1>9, HeightsKept DEF ServeZap, Serve, data
  <2> QED BY <1>1, <1>9, <2>3, <2>4 DEF ServeZap, Serve, Kept, Held, Inbox
<1>10. CASE ServeNwc
  <2> DEFINE m == SetNwcPaymentNotify(sm, settings.restore)
  <2>1. Good(m) /\ m.ota_active = sm.ota_active
    BY <1>1, <1>2, NwcPaymentNotifyGood, NotifyKeepsModes DEF SameModes
  <2>2. Rendered(m) \/ Continue(sm)
    BY <1>10 DEF ServeNwc
  <2> HIDE DEF m
  <2>3. Held /\ pc' \in {"top", "painting"}
    BY <1>1, <2>1, <2>2, RenderedHeld, ContinueHeld
  <2>4. Heights' /\ flashed' >= flashed
    BY <1>10, HeightsKept DEF ServeNwc, Serve, data
  <2> QED BY <1>1, <1>10, <2>3, <2>4 DEF ServeNwc, Serve, Kept, Held, Inbox
<1>11. CASE Rotate
  <2> DEFINE m == MaybeAutoRotate(sm, {})
  <2>1. Good(m) /\ m.ota_active = sm.ota_active
    BY <1>1, AutoRotateGood, AutoRotateKeepsModes DEF SameModes
  <2>2. Rendered(m)
    BY <1>11 DEF Rotate
  <2> HIDE DEF m
  <2>3. Held /\ pc' \in {"top", "painting"}
    BY <2>1, <2>2, RenderedHeld
  <2>4. Heights' /\ flashed' >= flashed
    BY <1>11, HeightsKept DEF Rotate, data
  <2> QED BY <1>1, <1>11, <2>3, <2>4 DEF Rotate, inbox, Kept, Held, Inbox
<1>12. CASE ServeData
  <2> DEFINE flash == NewBlock /\ ~IsCatchUpJump(seen, snap.block_height)
             m == IF flash /\ settings.stealFocus /\ current_kind(sm) = "BlockHeight"
                  THEN Restart(sm) ELSE sm
             k == SetKind(sm, "BlockHeight")
  <2>1. Good(m) /\ m.ota_active = sm.ota_active
    BY <1>1, RestartGood, NavigatedKeepsModes DEF SameModes
  <2>2. Good(k) /\ k.ota_active = sm.ota_active
    BY <1>1, SetKindGood, SetKindKeepsModes DEF SameModes
  <2>3. Rendered(k) \/ Rendered(m) \/ Continue(m)
    BY <1>12 DEF ServeData
  <2>4. /\ seen' = (IF snap.block_height = 0 THEN seen ELSE snap.block_height)
        /\ flashDue' = (flash /\ pc' = "painting")
        /\ flashed' = (IF flash /\ pc' = "top" THEN snap.block_height ELSE flashed)
        /\ UNCHANGED <<data, inbox>>
    BY <1>12 DEF ServeData
  <2>5. flash => snap.block_height # 0
    BY DEF NewBlock
  <2> HIDE DEF m, k, flash
  <2>6. Held /\ pc' \in {"top", "painting"}
    BY <2>1, <2>2, <2>3, RenderedHeld, ContinueHeld
  <2>7. Heights' /\ flashed' >= flashed
    <3>1. seen' \in Nat /\ snap' = snap
      BY <1>1, <2>4 DEF Heights, data
    <3>2. flashed' \in Nat /\ flashed' <= snap.block_height /\ flashed' >= flashed
      BY <1>1, <2>4 DEF Heights
    <3>3. flashDue' \in BOOLEAN
      BY <2>4, Zenon
    <3>4. flashDue' => /\ flash /\ pc' = "painting"
                       /\ seen' = snap.block_height
                       /\ flashed' = flashed
      BY <2>4, <2>5
    <3> QED BY <1>1, <3>1, <3>2, <3>3, <3>4 DEF Heights
  <2> QED BY <1>1, <2>4, <2>6, <2>7 DEF inbox, Kept, Held, Inbox
<1> QED
  BY <1>3, <1>4, <1>5, <1>6, <1>7, <1>8, <1>9, <1>10, <1>11, <1>12 DEF MainTask

LEMMA OthersHeld ==
  ASSUME LInv, Next, ~MainTask
  PROVE  Kept
<1>1. Good(sm) /\ Inbox /\ Heights /\ pc \in {"top", "take", "serve", "painting"}
  BY DEF LInv, Control, Inbox, Panels
<1>2. CASE Report
  <2>1. Held
    BY <1>1, <1>2, PanelsKept DEF Report
  <2>2. PICK s \in Samples : snap' = Merge(snap, s)
    BY <1>2 DEF Report
  <2>3. /\ snap'.block_height \in Nat
        /\ snap'.block_height >= snap.block_height
    BY <1>1, <2>2, EventLoopAssumption, MergedHeight DEF Heights
  <2>4. UNCHANGED <<seen, flashed, flashDue, pc>>
    BY <1>2 DEF Report, block
  <2>5. Heights' /\ flashed' >= flashed
    BY <1>1, <2>3, <2>4 DEF Heights
  <2> QED BY <1>1, <1>2, <2>1, <2>5 DEF Report, Owes, Kept, Inbox
<1>3. CASE Raise
  <2>1. Held
    BY <1>1, <1>3, PanelsKept DEF Raise
  <2>2. Heights' /\ flashed' >= flashed
    BY <1>3, HeightsKept DEF Raise, data
  <2> QED BY <1>1, <1>3, <2>1, <2>2 DEF Raise, Owes, Kept, Inbox
<1>4. CASE StartUpdate
  <2>1. Good(sm') /\ sm'.ota_active
    BY <1>1, <1>4, FlagMethodsGood, FlagsKeepModes DEF SameModes, StartUpdate
  <2>2. Held
    BY <1>4, <2>1, PanelsKept DEF StartUpdate
  <2>3. Heights' /\ flashed' >= flashed
    BY <1>4, HeightsKept DEF StartUpdate, data
  <2> QED BY <1>1, <1>4, <2>1, <2>2, <2>3 DEF StartUpdate, Owes, Kept, Inbox
<1>5. CASE WritePrefs
  <2>1. Held
    BY <1>1, <1>5, PanelsKept DEF WritePrefs
  <2>2. Heights' /\ flashed' >= flashed
    BY <1>5, HeightsKept DEF WritePrefs
  <2>3. owed' = owed \cup {"hook"}
    BY <1>5 DEF WritePrefs, Owes
  <2> QED BY <1>1, <1>5, <2>1, <2>2, <2>3 DEF WritePrefs, Kept, Inbox
<1>6. CASE on_settings_patched
  <2>1. Good(sm') /\ sm'.ota_active = sm.ota_active
    BY <1>1, <1>6, FlagMethodsGood, FlagsKeepModes DEF SameModes, on_settings_patched
  <2>2. Held
    BY <1>6, <2>1, PanelsKept DEF on_settings_patched
  <2>3. Heights' /\ flashed' >= flashed
    BY <1>6, HeightsKept DEF on_settings_patched, data
  <2> QED BY <1>1, <1>6, <2>1, <2>2, <2>3 DEF on_settings_patched, Kept, Inbox
<1>7. CASE Notify
  <2>1. Held
    BY <1>1, <1>7, PanelsKept DEF Notify
  <2>2. Heights' /\ flashed' >= flashed
    BY <1>7, HeightsKept DEF Notify, data
  <2> QED BY <1>1, <1>7, <2>1, <2>2 DEF Notify, Kept, Inbox
<1>8. CASE PostCommand
  <2>1. Held
    BY <1>1, <1>8, PanelsKept DEF PostCommand
  <2>2. Heights' /\ flashed' >= flashed
    BY <1>8, HeightsKept DEF PostCommand, data
  <2>3. commands' \in Batches
    BY <1>8 DEF PostCommand, Batches
  <2> QED BY <1>1, <1>8, <2>1, <2>2, <2>3 DEF PostCommand, Kept, Inbox
<1>9. CASE Press
  <2>1. Held
    BY <1>1, <1>9, PanelsKept DEF Press
  <2>2. Heights' /\ flashed' >= flashed
    BY <1>9, HeightsKept DEF Press, data
  <2>3. button' \in Presses
    BY <1>9 DEF Press, Presses
  <2> QED BY <1>1, <1>9, <2>1, <2>2, <2>3 DEF Press, Kept, Inbox
<1>10. CASE Tick
  <2>1. Good(sm') /\ sm'.ota_active = sm.ota_active
    BY <1>1, <1>10, AgeGood, FlagsKeepModes DEF SameModes, Tick
  <2>2. Held
    BY <1>10, <2>1, PanelsKept DEF Tick
  <2>3. Heights' /\ flashed' >= flashed
    BY <1>10, HeightsKept DEF Tick, data
  <2> QED BY <1>1, <1>10, <2>1, <2>2, <2>3 DEF Tick, inbox, Kept, Inbox
<1>11. CASE ClockTicks
  <2>1. Held
    BY <1>1, <1>11, PanelsKept DEF ClockTicks
  <2>2. Heights' /\ flashed' >= flashed
    BY <1>11, HeightsKept DEF ClockTicks
  <2> QED BY <1>1, <1>11, <2>1, <2>2 DEF ClockTicks, inbox, Kept, Inbox
<1>12. CASE ThrottleEnds
  <2>1. Painted(pt') /\ pt'.panels = pt.panels /\ sm' = sm
    BY <1>12, ThrottleApart DEF LInv, Panels, Painted, ThrottleEnds
  <2>2. Held
    BY <1>1, <2>1 DEF Held, LInv, Panels
  <2>3. Heights' /\ flashed' >= flashed
    BY <1>12, HeightsKept DEF ThrottleEnds, data
  <2> QED BY <1>1, <1>12, <2>2, <2>3 DEF ThrottleEnds, inbox, Kept, Inbox
<1> QED
  BY <1>2, <1>3, <1>4, <1>5, <1>6, <1>7, <1>8, <1>9, <1>10, <1>11, <1>12 DEF Next

(* Every step, stuttering included.                                        *)
LEMMA StepHeld ==
  ASSUME LInv, [Next]_vars
  PROVE  Kept /\ settings' = settings
<1>1. CASE UNCHANGED vars
  <2>1. Held
    BY <1>1, PanelsKept DEF vars, LInv
  <2>2. Heights' /\ flashed' >= flashed
    BY <1>1, HeightsKept DEF vars, data
  <2> QED
    BY <1>1, <2>1, <2>2 DEF vars, data, inbox, LInv, Control, Panels, Inbox, Kept
<1>2. CASE Next
  <2>1. settings \in Settings
    BY DEF LInv, Control
  <2>2. Kept
    BY <1>2, <2>1, LoopHeld, OthersHeld
  <2>3. settings' = settings
    BY <1>2 DEF Next, MainTask, DrainControlCommands, HandleButton, Sleep, Wake, FinishRender,
       RefreshDebug, ServeOta, ServeZap, ServeNwc, Serve, Rotate, ServeData, Report, Raise,
       StartUpdate, WritePrefs, on_settings_patched, Notify, PostCommand, Press, Tick,
       ClockTicks, ThrottleEnds, data
  <2> QED BY <2>2, <2>3
<1> QED BY <1>1, <1>2

LEMMA LNext == LInv /\ [Next]_vars => LInv'
<1> SUFFICES ASSUME LInv, [Next]_vars
             PROVE  LInv'
  OBVIOUS
<1>1. Kept /\ settings' = settings
  BY StepHeld
<1>2. Control'
  BY <1>1 DEF LInv, Control, Kept, Inbox
<1>3. Panels'
  BY <1>1 DEF Kept, Held, Inbox, Panels, Painted
<1> QED BY <1>1, <1>2, <1>3 DEF LInv, Kept, Held

THEOREM LoopInvariant == Spec => []LInv
  BY LInit, LNext, PTL DEF Spec

(***************************************************************************)
(* What follows from it.                                                   *)
(***************************************************************************)

(* However slow painting is, whichever tasks run and whatever they report, *)
(* the main task keeps a well-formed screen manager and flashes a block    *)
(* only after a paint (event_loop.cpp, RunEventLoop).                      *)
THEOREM TypeCorrect == Spec => []TypeOK
<1>1. LInv => TypeOK
  BY GoodParts DEF LInv, Control, Heights, TypeOK
<1> QED BY <1>1, LoopInvariant, PTL

(* Blocks are announced in ascending order, for every sequence of heights  *)
(* the sources report, in or out of order (event_loop.cpp,                 *)
(* ConsumeNewBlock and the flash after the paint).                         *)
THEOREM AnnouncedInOrder == Spec => FlashesAscend
<1>1. LInv /\ [Next]_vars => [flashed' >= flashed]_vars
  BY StepHeld DEF Kept
<1> QED BY <1>1, LoopInvariant, PTL DEF Spec, FlashesAscend

(* Once painted, the update overlay gives the panels up to the debug       *)
(* overlay only, whatever was in flight when the update began              *)
(* (screen_manager.hpp, SetOtaOverlay).                                    *)
THEOREM UpdateOwnsPanels == Spec => OtaOverlayStays
<1> DEFINE Owned == \/ pt.panels.view[1] = "OtaUpdate"
                    \/ sm.ota_active /\ pt.panels.view[1] = "Debug"
<1>1. LInv /\ [Next]_vars => [Owned => pt'.panels.view[1] \in OwnsPanels]_vars
  <2> SUFFICES ASSUME LInv, [Next]_vars, Owned
               PROVE  pt'.panels.view[1] \in OwnsPanels
    OBVIOUS
  <2>1. sm.ota_active /\ pt.panels.view[1] \in OwnsPanels
    BY DEF LInv, Panels, OwnsPanels
  <2> QED BY <2>1, StepHeld DEF Kept, Held
<1> QED BY <1>1, LoopInvariant, PTL DEF Spec, OtaOverlayStays

(***************************************************************************)
(* No wake-up is lost.  In a calm device the panels of the main task show  *)
(* the screen that is up with the value in its shadow, or will when the    *)
(* paint under way is over; and that value is the hub's, unless news is on *)
(* its way to the main task: reported and not notified of, notified, or    *)
(* taken by the pass under way.                                            *)
(***************************************************************************)

Coming == "source" \in owed \/ notified \/ (pc = "serve" /\ got)

Fresh(m, p, s, t, f) ==
  ~Overlay(m) /\ ~MayWait(m) => p.last[Shadow(current_kind(m))] = Value(m, s, t, f)

Faces ==
  /\ PaintOK(pt)
  /\ sm.debug_mode /\ ~sm.ota_active => pt.panels.view[1] = "Debug"
  /\ Unowned(sm) => Shown(sm, pt, prefs) /\ (pc = "painting" \/ ~ForceRepaint(sm))
  /\ Unowned(sm) => Coming \/ Fresh(sm, pt, snap, time, prefs)

CInv ==
  /\ Calm /\ Faces
  /\ "hook" \notin owed
  /\ "nwc" \in pending => "nwc" \in actors

(* Methods that leave what is up.                                          *)
SameFace(m, w) ==
  /\ SameModes(m, w) /\ w.slot = m.slot /\ w.currencies = m.currencies
  /\ w.custom_active = m.custom_active /\ w.zap_active = m.zap_active
  /\ w.nwc_notify_active = m.nwc_notify_active

LEMMA FaceReads ==
  ASSUME NEW m, NEW w, SameFace(m, w)
  PROVE  /\ View(w) = View(m) /\ current_kind(w) = current_kind(m)
         /\ current_currency(w) = current_currency(m)
         /\ Unowned(w) <=> Unowned(m)
<1>1. current_kind(w) = current_kind(m) /\ current_currency(w) = current_currency(m)
  BY DEF SameFace, SameModes, current_kind, current_currency, SlotKind, NumCurrencies
<1> QED BY <1>1 DEF View, SameFace, SameModes, Unowned

LEMMA FacesAlike ==
  ASSUME NEW m, NEW w, SameFace(m, w), NEW p, NEW s, NEW t, NEW f
  PROVE  /\ Overlay(w) <=> Overlay(m)
         /\ MayWait(w) <=> MayWait(m)
         /\ Value(w, s, t, f) = Value(m, s, t, f)
         /\ Shown(w, p, f) <=> Shown(m, p, f)
         /\ Due(w, p, s, t) <=> Due(m, p, s, t)
<1>1. /\ View(w) = View(m) /\ current_kind(w) = current_kind(m)
      /\ current_currency(w) = current_currency(m)
  BY FaceReads
<1>2. \A g : Value(w, s, t, g) = Value(m, s, t, g)
  BY <1>1 DEF Value, Price
<1>3. Overlay(w) <=> Overlay(m)
  BY <1>1 DEF Overlay
<1>4. Due(w, p, s, t) <=> Due(m, p, s, t)
  BY <1>1, <1>2, <1>3 DEF Due, Changed
<1> QED BY <1>1, <1>2, <1>3, <1>4 DEF MayWait, Shown

LEMMA LeftUp ==
  ASSUME NEW m, Good(m)
  PROVE  /\ SameFace(m, m)
         /\ SameFace(m, TogglePaused(m)) /\ (ForceRepaint(TogglePaused(m)) <=> ForceRepaint(m))
         /\ SameFace(m, Restart(m)) /\ (ForceRepaint(Restart(m)) <=> ForceRepaint(m))
         /\ SameFace(m, Age(m)) /\ (ForceRepaint(Age(m)) <=> ForceRepaint(m))
<1>1. m \in Fields
  BY GoodFields
<1> QED
  BY <1>1 DEF TogglePaused, Restart, Age, SameFace, SameModes, ForceRepaint, Fields

(* A value read off the wall clock is a clock's.                           *)
LEMMA ClocksApart ==
  ASSUME NEW m, ~MayWait(m), NEW s, NEW t, NEW u, NEW f
  PROVE  Value(m, s, t, f) = Value(m, s, u, f)
  BY DEF Value, MayWait

(* Nothing due on a screen that does not wait: the shadow has its value.   *)
LEMMA NotDueFresh ==
  ASSUME NEW m, Good(m), Unowned(m), NEW p, NEW s, Known(s), NEW t, NEW f, f.blockFeeDec,
         ~Due(m, p, s, t)
  PROVE  Fresh(m, p, s, t, f)
<1> SUFFICES ASSUME ~Overlay(m), ~MayWait(m)
             PROVE  p.last[Shadow(current_kind(m))] = Value(m, s, t, f)
  BY DEF Fresh
<1> DEFINE kind == current_kind(m)
           v == Value(m, s, t, f)
<1>1. Value(m, s, t, PreciseFirst) = v
  BY ComparedAsPainted
<1>2. v # Nothing /\ (kind = "BlockFeeRate" => v # <<-1>>)
  BY ValueKnown DEF Unowned
<1> HIDE DEF v
<1> QED BY <1>1, <1>2 DEF Due, Changed, MayWait, v

(* A handler that leaves m and renders it: m asks for the paint, or is up  *)
(* already.                                                                *)
LEMMA RenderedFaces ==
  ASSUME CInv, NEW m, Good(m), SameModes(sm, m) \/ ~m.debug_mode, Rendered(m),
         UNCHANGED <<snap, time, prefs>>,
         Unowned(m) => ForceRepaint(m) \/ Shown(m, pt, prefs)
  PROVE  Faces'
<1>1. PaintOK(pt) /\ Known(snap) /\ Faces
  BY DEF CInv, Faces, Calm
<1>2. sm' = m /\ pt' = Paint(m, pt, snap, time, prefs)
      /\ (Unowned(m) => pc' = "painting")
  BY DEF Rendered, Unowned
<1>3. PaintOK(pt') /\ (~Unowned(m) => pt' = pt)
  BY <1>1, <1>2, PaintKeepsOK DEF Unowned
<1>4. CASE ~Unowned(m)
  BY <1>1, <1>2, <1>3, <1>4 DEF Faces, SameModes, Unowned
<1>5. CASE Unowned(m)
  <2>1. /\ Shown(m, Paint(m, pt, snap, time, prefs), prefs)
        /\ ~Overlay(m) => Paint(m, pt, snap, time, prefs).last[Shadow(current_kind(m))]
                            = Value(m, snap, time, prefs)
    BY <1>1, <1>5, PaintShows DEF Unowned
  <2>2. Shown(sm', pt', prefs') /\ Fresh(sm', pt', snap', time', prefs')
    BY <1>2, <2>1 DEF Fresh
  <2> QED BY <1>2, <1>3, <1>5, <2>2 DEF Faces, Unowned
<1> QED BY <1>4, <1>5

(* A step that leaves what is up and loses no news.                        *)
LEMMA LeftFaces ==
  ASSUME CInv, NEW m, SameFace(sm, m), sm' = m, UNCHANGED <<snap, prefs>>,
         PaintOK(pt'), pt'.panels = pt.panels, pt'.last = pt.last,
         Unowned(m) => pc' = "painting" \/ ~ForceRepaint(m),
         Coming => Coming' \/ (Unowned(m) => Fresh(m, pt, snap, time, prefs))
  PROVE  Faces'
<1>1. Faces
  BY DEF CInv
<1>2. PaintOK(pt') /\ (sm'.debug_mode /\ ~sm'.ota_active => pt'.panels.view[1] = "Debug")
  BY <1>1 DEF Faces, SameFace, SameModes
<1>3. CASE ~Unowned(m)
  BY <1>2, <1>3 DEF Faces
<1>4. CASE Unowned(m)
  <2>1. Unowned(sm) /\ (Shown(m, pt, prefs) <=> Shown(sm, pt, prefs))
    BY <1>4, FaceReads, FacesAlike
  <2>2. Coming' \/ Fresh(m, pt, snap, time, prefs)
    <3>1. CASE Coming
      BY <1>4, <3>1
    <3>2. CASE ~Coming
      <4>1. Fresh(sm, pt, snap, time, prefs)
        BY <1>1, <2>1, <3>2 DEF Faces
      <4>2. /\ Overlay(m) <=> Overlay(sm)
            /\ MayWait(m) <=> MayWait(sm)
            /\ Value(m, snap, time, prefs) = Value(sm, snap, time, prefs)
            /\ current_kind(m) = current_kind(sm)
        BY FaceReads, FacesAlike
      <4> QED BY <4>1, <4>2 DEF Fresh
    <3> QED BY <3>1, <3>2
  <2>3. Fresh(m, pt, snap, time, prefs) => Fresh(m, pt', snap, time', prefs)
    BY ClocksApart DEF Fresh
  <2>4. Shown(m, pt', prefs)
    BY <1>1, <1>4, <2>1 DEF Faces, Shown
  <2> QED BY <1>2, <1>4, <2>2, <2>3, <2>4 DEF Faces
<1> QED BY <1>3, <1>4

LEMMA StandingFaces ==
  ASSUME CInv, NEW m, SameFace(sm, m), sm' = m, pt' = pt, UNCHANGED <<snap, prefs>>,
         Unowned(m) => pc' = "painting" \/ ~ForceRepaint(m),
         Coming => Coming' \/ (Unowned(m) => Fresh(m, pt, snap, time, prefs))
  PROVE  Faces'
<1>1. PaintOK(pt)
  BY DEF CInv, Faces
<1> QED BY <1>1, LeftFaces

(* The main task's step, given what the others leave alone.                *)
LEMMA LoopFaces ==
  ASSUME LInv, CInv, MainTask
  PROVE  Faces'
<1>1. /\ Good(sm) /\ Inbox /\ Faces /\ settings \in Settings
      /\ "nwc" \in pending => settings.nwcShowNotify
  <2>1. Good(sm) /\ Inbox /\ settings \in Settings
    BY DEF LInv, Control, Inbox, Panels
  <2>2. Faces /\ ("nwc" \in pending => settings.nwcShowNotify)
    BY DEF CInv, Calm
  <2> QED BY <2>1, <2>2
<1>2. settings.restore \in BOOLEAN
  BY <1>1, EventLoopAssumption
<1>3. Unowned(sm) => Shown(sm, pt, prefs) /\ (pc = "painting" \/ ~ForceRepaint(sm))
  BY <1>1 DEF Faces
<1>4. CASE DrainControlCommands
  <2> DEFINE m == FoldLeft(Apply, sm, commands)
  <2>1. Good(m) /\ SameModes(sm, m) /\ ForceRepaint(m)
    BY <1>1, <1>4, BatchGood DEF DrainControlCommands, Inbox
  <2>2. Rendered(m) /\ UNCHANGED <<snap, time, prefs>>
    BY <1>4 DEF DrainControlCommands, data
  <2> HIDE DEF m
  <2> QED BY <2>1, <2>2, RenderedFaces
<1>5. CASE HandleButton
  <2>1. pc = "top" /\ UNCHANGED <<snap, time, prefs, owed, notified, got>>
    BY <1>5 DEF HandleButton, data
  <2>2. Head(button) \in {"pause", "next", "debug"}
    BY <1>1, <1>5 DEF HandleButton, Inbox, Presses
  <2>3. ASSUME NEW m, m = sm \/ m = TogglePaused(sm), Continue(m)
        PROVE  Faces'
    <3>1. SameFace(sm, m) /\ (ForceRepaint(m) <=> ForceRepaint(sm))
      BY <1>1, <2>3, LeftUp
    <3>2. sm' = m /\ pt' = pt /\ pc' = "top"
      BY <2>3 DEF Continue
    <3>3. Unowned(m) => ~ForceRepaint(m)
      BY <1>3, <2>1, <3>1, FaceReads
    <3>4. Coming => Coming'
      BY <2>1, <3>2 DEF Coming
    <3> QED BY <2>1, <3>1, <3>2, <3>3, <3>4, StandingFaces
  <2>4. CASE Head(button) = "pause"
    BY <1>5, <2>3, <2>4 DEF HandleButton
  <2>5. CASE Head(button) = "next"
    <3>1. CASE sm.debug_mode
      BY <1>5, <2>3, <2>5, <3>1 DEF HandleButton
    <3>2. CASE ~sm.debug_mode
      <4> DEFINE m == NextScreen(sm, {})
      <4>1. Good(m) /\ SameModes(sm, m) /\ ForceRepaint(m)
        BY <1>1, NextScreenGood, NextScreenKeepsModes, StepsAsk DEF ForceRepaint
      <4>2. Rendered(m)
        BY <1>5, <2>5, <3>2 DEF HandleButton
      <4> HIDE DEF m
      <4> QED BY <2>1, <4>1, <4>2, RenderedFaces
    <3> QED BY <3>1, <3>2
  <2>6. CASE Head(button) = "debug"
    <3> DEFINE m == ToggleDebug(sm)
    <3>1. Good(m)
      BY <1>1, FlagMethodsGood
    <3>2. CASE m.debug_mode
      <4>1. RenderedDebug(m)
        BY <1>5, <2>6, <3>2 DEF HandleButton
      <4>2. SameModes(m, RenderDebug(m))
        BY <3>1, FlagsKeepModes
      <4> HIDE DEF m
      <4>3. sm'.debug_mode /\ pt' = PaintDebug(pt)
        BY <3>2, <4>1, <4>2 DEF RenderedDebug, SameModes
      <4>4. PaintOK(pt') /\ pt'.panels.view[1] = "Debug"
        BY <1>1, <4>3, DebugPainted DEF Faces
      <4> QED BY <4>3, <4>4 DEF Faces, Unowned
    <3>3. CASE ~m.debug_mode
      <4>1. Rendered(m)
        BY <1>5, <2>6, <3>3 DEF HandleButton
      <4>2. ForceRepaint(m)
        <5>1. sm.debug_mode
          BY <1>1, <3>3, GoodFields DEF ToggleDebug, Fields
        <5>2. m.dirty = TRUE
          BY <1>1, <5>1, GoodFields DEF ToggleDebug, Restart, Fields
        <5> HIDE DEF m
        <5> QED BY <5>2, Zenon DEF ForceRepaint
      <4> HIDE DEF m
      <4> QED BY <2>1, <3>1, <3>3, <4>1, <4>2, RenderedFaces
    <3> QED BY <3>2, <3>3
  <2> QED BY <2>2, <2>4, <2>5, <2>6
<1>6. CASE Sleep \/ Wake
  <2>1. /\ sm' = sm /\ pt' = pt /\ UNCHANGED <<snap, prefs>>
        /\ Coming => Coming'
        /\ pc # "painting"
    BY <1>6 DEF Sleep, Wake, data, inbox, Coming
  <2>2. SameFace(sm, sm) /\ (Unowned(sm) => ~ForceRepaint(sm))
    BY <1>1, <1>3, <2>1, LeftUp
  <2> QED BY <2>1, <2>2, StandingFaces
<1>7. CASE FinishRender
  <2> DEFINE m == [sm EXCEPT !.dirty = FALSE, !.screen_change_pending = FALSE]
  <2>1. /\ sm' = m /\ pt' = pt /\ UNCHANGED <<snap, prefs>>
        /\ Coming => Coming'
    BY <1>7 DEF FinishRender, data, inbox, Coming
  <2>2. SameFace(sm, m) /\ m.dirty = FALSE /\ m.screen_change_pending = FALSE
    BY <1>1, GoodFields DEF Fields, SameFace, SameModes
  <2> HIDE DEF m
  <2>3. ~ForceRepaint(m)
    BY <2>2, Zenon DEF ForceRepaint
  <2> QED BY <2>1, <2>2, <2>3, StandingFaces
<1>8. CASE RefreshDebug
  <2>1. sm.debug_mode /\ sm' = RenderDebug(sm) /\ pt' = PaintDebug(pt)
    BY <1>8 DEF RefreshDebug, DebugTick, RenderedDebug
  <2>2. sm'.debug_mode
    BY <1>1, <2>1, FlagsKeepModes DEF SameModes
  <2>3. PaintOK(pt') /\ pt'.panels.view[1] = "Debug"
    BY <1>1, <2>1, DebugPainted DEF Faces
  <2> QED BY <2>2, <2>3 DEF Faces, Unowned
<1>9. CASE ServeOta
  <2> DEFINE a == [Mixed EXCEPT !.view = <<"OtaUpdate", NoCurrency>>]
  <2>1. sm' = sm /\ sm.ota_active
    BY <1>1, <1>9 DEF ServeOta, Serve, Inbox
  <2>2. pt' = [pt EXCEPT !.panels = a]
    BY <1>9 DEF ServeOta
  <2> HIDE DEF a
  <2>3. PaintOK(pt')
    BY <1>1, <2>2 DEF Faces, PaintOK, Painted
  <2> QED BY <2>1, <2>3 DEF Faces, Unowned
<1>10. CASE ServeZap
  <2> DEFINE m == SetZapNotify(sm, settings.restore)
  <2>1. Good(m) /\ SameModes(sm, m) /\ ForceRepaint(m)
    BY <1>1, <1>2, ZapNotifyGood, NotifyKeepsModes, NotificationsAsk DEF ForceRepaint
  <2>2. Rendered(m) /\ UNCHANGED <<snap, time, prefs>>
    BY <1>10 DEF ServeZap, Serve, data
  <2> HIDE DEF m
  <2> QED BY <2>1, <2>2, RenderedFaces
<1>11. CASE ServeNwc
  <2> DEFINE m == SetNwcPaymentNotify(sm, settings.restore)
  <2>1. Good(m) /\ SameModes(sm, m) /\ ForceRepaint(m)
    BY <1>1, <1>2, NwcPaymentNotifyGood, NotifyKeepsModes, NotificationsAsk DEF ForceRepaint
  <2>2. Rendered(m) /\ UNCHANGED <<snap, time, prefs>>
    BY <1>1, <1>11 DEF ServeNwc, Serve, data
  <2> HIDE DEF m
  <2> QED BY <2>1, <2>2, RenderedFaces
<1>12. CASE Rotate
  <2> DEFINE m == MaybeAutoRotate(sm, {})
  <2>1. Good(m) /\ SameModes(sm, m) /\ (m = sm \/ ForceRepaint(m))
    BY <1>1, AutoRotateGood, AutoRotateKeepsModes, StepsAsk DEF ForceRepaint
  <2>2. Rendered(m) /\ UNCHANGED <<snap, time, prefs>>
    BY <1>12 DEF Rotate, data
  <2> HIDE DEF m
  <2>3. Unowned(m) => ForceRepaint(m) \/ Shown(m, pt, prefs)
    BY <1>3, <2>1
  <2> QED BY <2>1, <2>2, <2>3, RenderedFaces
<1>13. CASE ServeData
  <2> DEFINE flash == NewBlock /\ ~IsCatchUpJump(seen, snap.block_height)
             m == IF flash /\ settings.stealFocus /\ current_kind(sm) = "BlockHeight"
                  THEN Restart(sm) ELSE sm
             k == SetKind(sm, "BlockHeight")
  <2>1. /\ pc = "serve" /\ UNCHANGED <<snap, time, prefs, owed, notified, got>>
        /\ \/ Rendered(k)
           \/ Rendered(m)
           \/ Continue(m) /\ ~(got /\ ShouldRender(m, pt, snap, time))
    <3>1. pc = "serve" /\ UNCHANGED <<snap, time, prefs, owed, notified, got>>
      BY <1>13 DEF ServeData, data, inbox
    <3>2. IF flash /\ ShouldSteal THEN Rendered(k)
          ELSE IF got /\ ShouldRender(m, pt, snap, time) THEN Rendered(m)
          ELSE Continue(m)
      BY <1>13 DEF ServeData
    <3> HIDE DEF m, k, flash
    <3> QED BY <3>1, <3>2
  <2>2. /\ Good(m) /\ SameFace(sm, m) /\ (ForceRepaint(m) <=> ForceRepaint(sm))
    BY <1>1, RestartGood, LeftUp
  <2>3. Good(k) /\ SameModes(sm, k) /\ (k = sm \/ ForceRepaint(k))
    BY <1>1, SetKindGood, SetKindKeepsModes DEF ForceRepaint
  <2> HIDE DEF m, k
  <2>4. CASE Rendered(k)
    BY <1>3, <2>1, <2>3, <2>4, RenderedFaces
  <2>5. CASE Rendered(m)
    <3>1. Unowned(m) => Shown(m, pt, prefs)
      BY <1>3, <2>2, FaceReads, FacesAlike
    <3> QED BY <2>1, <2>2, <2>5, <3>1, RenderedFaces DEF SameFace
  <2>6. CASE Continue(m) /\ ~(got /\ ShouldRender(m, pt, snap, time))
    <3>1. sm' = m /\ pt' = pt /\ pc' = "top"
      BY <2>6 DEF Continue
    <3>2. Unowned(m) => ~ForceRepaint(m)
      BY <1>3, <2>1, <2>2, FaceReads
    <3>3. ASSUME Coming, ~Coming', Unowned(m)
          PROVE  Fresh(m, pt, snap, time, prefs)
      <4>1. got
        BY <2>1, <3>1, <3>3 DEF Coming
      <4>2. ~Due(m, pt, snap, time)
        BY <2>6, <3>2, <3>3, <4>1 DEF ShouldRender, Unowned, ForceRepaint
      <4>3. Known(snap) /\ prefs.blockFeeDec
        BY DEF CInv, Calm
      <4> QED BY <2>2, <3>3, <4>2, <4>3, NotDueFresh
    <3> QED BY <2>1, <2>2, <3>1, <3>2, <3>3, StandingFaces
  <2> QED BY <2>1, <2>4, <2>5, <2>6
<1> QED
  BY <1>4, <1>5, <1>6, <1>7, <1>8, <1>9, <1>10, <1>11, <1>12, <1>13 DEF MainTask

(* The other tasks leave what is up but for the updater, whose overlay     *)
(* owns the panels; a report is on its way from the moment it is merged.   *)
LEMMA OthersFaces ==
  ASSUME LInv, CInv, Next, ~MainTask
  PROVE  Faces'
<1>1. Good(sm) /\ Faces
  BY DEF LInv, CInv
<1>2. Unowned(sm) => pc = "painting" \/ ~ForceRepaint(sm)
  BY <1>1 DEF Faces
<1>3. SameFace(sm, sm)
  BY <1>1, LeftUp
<1>4. CASE Report
  <2>1. sm' = sm /\ pt' = pt /\ pc' = pc /\ prefs' = prefs /\ "source" \in owed'
    BY <1>4 DEF Report, Owes
  <2> QED BY <1>1, <2>1 DEF Faces, Coming
<1>5. CASE Raise \/ Notify \/ PostCommand \/ Press \/ ClockTicks
  <2>1. sm' = sm /\ pt' = pt /\ pc' = pc /\ UNCHANGED <<snap, prefs>>
    BY <1>5 DEF Raise, Notify, PostCommand, Press, ClockTicks, data
  <2>2. Coming => Coming'
    <3>1. CASE Notify
      BY <3>1 DEF Notify, Coming
    <3>2. CASE ~Notify
      <4>1. UNCHANGED <<notified, pc, got>> /\ owed \subseteq owed'
        BY <1>5, <3>2 DEF Raise, PostCommand, Press, ClockTicks, Owes, inbox
      <4> QED BY <4>1 DEF Coming
    <3> QED BY <3>1, <3>2
  <2> QED BY <1>2, <1>3, <2>1, <2>2, StandingFaces
<1>6. CASE StartUpdate
  <2>1. sm'.ota_active /\ pt' = pt
    BY <1>1, <1>6, FlagsKeepModes DEF StartUpdate
  <2> QED BY <1>1, <2>1 DEF Faces, Unowned
<1>7. CASE WritePrefs \/ on_settings_patched
  BY <1>7 DEF WritePrefs, on_settings_patched, CInv, Calm
<1>8. CASE Tick
  <2>1. /\ sm' = Age(sm) /\ pt' = pt /\ pc' = pc /\ UNCHANGED <<snap, prefs>>
        /\ Coming => Coming'
    BY <1>8 DEF Tick, data, inbox, Coming
  <2>2. SameFace(sm, Age(sm)) /\ (Unowned(Age(sm)) => pc = "painting" \/ ~ForceRepaint(Age(sm)))
    BY <1>1, <1>2, LeftUp, FaceReads
  <2> QED BY <2>1, <2>2, StandingFaces
<1>9. CASE ThrottleEnds
  <2>1. /\ sm' = sm /\ pc' = pc /\ UNCHANGED <<snap, prefs>>
        /\ Coming => Coming'
    BY <1>9 DEF ThrottleEnds, data, inbox, Coming
  <2>2. PaintOK(pt') /\ pt'.panels = pt.panels /\ pt'.last = pt.last
    BY <1>1, <1>9, ThrottleApart DEF Faces, PaintOK, ThrottleEnds
  <2> QED BY <1>2, <1>3, <2>1, <2>2, LeftFaces
<1> QED
  BY <1>4, <1>5, <1>6, <1>7, <1>8, <1>9 DEF Next

(* A calm device stays calm.                                               *)
LEMMA CalmStep ==
  ASSUME LInv, CInv, [Next]_vars
  PROVE  Calm' /\ "hook" \notin owed' /\ ("nwc" \in pending' => "nwc" \in actors')
<1>1. CASE Report
  <2>1. PICK s \in Samples : snap' = Merge(snap, s)
    BY <1>1 DEF Report
  <2>2. Known(snap')
    BY <2>1, EventLoopAssumption, MergeStaysKnown DEF CInv, Calm
  <2> QED BY <1>1, <2>2 DEF Report, Owes, CInv, Calm
<1>2. CASE Raise
  <2>1. \A flag : flag \in pending' => flag \in pending \/ flag \in actors
    BY <1>2 DEF Raise
  <2>2. UNCHANGED data /\ "hook" \notin owed'
    BY <1>2 DEF Raise, Owes, CInv
  <2> QED BY <2>1, <2>2 DEF data, CInv, Calm
<1>3. CASE WritePrefs \/ on_settings_patched
  BY <1>3 DEF WritePrefs, on_settings_patched, CInv, Calm
<1>4. CASE MainTask
  <2>1. UNCHANGED data /\ owed' = owed /\ pending' \subseteq pending
    BY <1>4 DEF MainTask, DrainControlCommands, HandleButton, Sleep, Wake, FinishRender,
       RefreshDebug, ServeOta, ServeZap, ServeNwc, Serve, Rotate, ServeData, data, inbox
  <2> QED BY <2>1 DEF data, CInv, Calm
<1>5. CASE \/ StartUpdate \/ Notify \/ PostCommand \/ Press \/ Tick
           \/ ThrottleEnds \/ UNCHANGED vars
  <2>1. /\ UNCHANGED data
        /\ "hook" \in owed' => "hook" \in owed
        /\ "nwc" \in pending' => "nwc" \in pending
    BY <1>5 DEF StartUpdate, Notify, PostCommand, Press, Tick, ThrottleEnds, Owes,
       data, inbox, vars
  <2> QED BY <2>1 DEF data, CInv, Calm
<1>6. CASE ClockTicks
  BY <1>6 DEF ClockTicks, inbox, CInv, Calm
<1> QED
  BY <1>1, <1>2, <1>3, <1>4, <1>5, <1>6 DEF Next

LEMMA CNext == LInv /\ CInv /\ [Next]_vars => CInv'
<1> SUFFICES ASSUME LInv, CInv, [Next]_vars
             PROVE  Faces'
  BY CalmStep DEF CInv
<1>1. CASE UNCHANGED vars
  <2>1. sm' = sm /\ pt' = pt /\ pc' = pc /\ UNCHANGED <<snap, prefs>>
    BY <1>1 DEF vars, data
  <2>2. Coming' <=> Coming
    BY <1>1 DEF vars, inbox, Coming
  <2>3. SameFace(sm, sm)
    BY LeftUp DEF LInv
  <2> QED BY <2>1, <2>2, <2>3, StandingFaces DEF CInv, Faces
<1>2. CASE Next
  BY <1>2, LoopFaces, OthersFaces
<1> QED BY <1>1, <1>2

(* The first screen is painted before the loop goes on.                    *)
LEMMA CInit == Calm /\ Init => CInv
<1> SUFFICES ASSUME Calm, Init
             PROVE  CInv
  OBVIOUS
<1>1. PICK list \in CurrencyLists : \E plan \in Plans[Len(list)] :
        /\ sm = Render(BootScreenManager(list, plan, NoSlot, FALSE))
        /\ pt = Paint(BootScreenManager(list, plan, NoSlot, FALSE), BootPaint(FALSE),
                      snap, time, prefs)
  BY DEF Init
<1>2. PICK plan \in Plans[Len(list)] :
        /\ sm = Render(BootScreenManager(list, plan, NoSlot, FALSE))
        /\ pt = Paint(BootScreenManager(list, plan, NoSlot, FALSE), BootPaint(FALSE),
                      snap, time, prefs)
  BY <1>1
<1> DEFINE m == BootScreenManager(list, plan, NoSlot, FALSE)
           p == BootPaint(FALSE)
<1>3. Good(m) /\ ForceRepaint(m) /\ ~m.debug_mode
  BY BootGood, BootAsks DEF ForceRepaint
<1>4. sm = Render(m) /\ pt = Paint(m, p, snap, time, prefs)
  BY <1>2
<1>5. PaintOK(p)
  BY DEF BootPaint, PaintOK, Painted, Sentinel
<1>6. Known(snap)
  BY DEF Calm
<1> HIDE DEF m, p
<1>7. PaintOK(pt)
  BY <1>3, <1>4, <1>5, <1>6, PaintKeepsOK
<1>8. ~sm.debug_mode
  BY <1>3, <1>4, RenderKeepsView DEF SameModes
<1>9. ASSUME Unowned(sm)
      PROVE  Shown(sm, pt, prefs) /\ ~ForceRepaint(sm)
  <2>1. Unowned(m)
    BY <1>3, <1>4, <1>9, RenderKeepsView DEF SameModes, Unowned
  <2>2. Shown(m, pt, prefs)
    BY <1>3, <1>4, <1>5, <1>6, <2>1, PaintShows DEF Unowned
  <2>3. View(sm) = View(m) /\ current_kind(sm) = current_kind(m) /\ ~ForceRepaint(sm)
    BY <1>3, <1>4, <2>1, RenderKeepsView
  <2> QED BY <2>2, <2>3 DEF Shown, Overlay
<1>10. Coming /\ "hook" \notin owed /\ "nwc" \notin pending
  BY DEF Init, Coming
<1> QED BY <1>7, <1>8, <1>9, <1>10 DEF CInv, Faces

(* A calm device, from the first screen on.                                *)
THEOREM CalmInvariant == Calm /\ Spec => []CInv
  BY CInit, CNext, LoopInvariant, PTL DEF Spec

(* With no news coming, what is up is the hub's.                           *)
LEMMA NothingComing ==
  ASSUME LInv, CInv, ~Coming
  PROVE  Current
<1>1. Good(sm) /\ Faces
  BY DEF LInv, CInv
<1>2. CASE sm.ota_active \/ sm.debug_mode
  BY <1>1, <1>2 DEF Faces, Current, ShowsCurrent
<1>3. CASE Unowned(sm)
  <2>1. Shown(sm, pt, prefs) /\ Fresh(sm, pt, snap, time, prefs)
    BY <1>1, <1>3 DEF Faces
  <2>2. CASE MayWait(sm)
    BY <2>1, <2>2 DEF Shown, Current
  <2>3. CASE ~MayWait(sm)
    <3>1. Overlay(sm) => Value(sm, snap, time, prefs) = <<"overlay">>
      BY <1>1, <1>3, KindsShown, Values DEF Unowned, NotificationKinds
    <3>2. SameFrame(pt.panels, Frame(sm, snap, time, prefs))
      BY <2>1, <2>3, <3>1 DEF Shown, Fresh, SameFrame, Frame
    <3> QED BY <3>2 DEF Current, ShowsCurrent
  <2> QED BY <2>2, <2>3
<1> QED BY <1>2, <1>3 DEF Unowned

(* In a calm device a data push is never slept on: whichever tasks change  *)
(* shared state while the main task paints, takes or serves, when it       *)
(* blocks with nothing left to take the panels show the screen that is up  *)
(* with the hub's data (event_loop.cpp, RunEventLoop: the sources write    *)
(* before they notify, and a notification taken is served in its pass or   *)
(* the screen it leaves for is painted with the data of the moment).       *)
THEOREM NoWakeupIsLost == Calm /\ Spec => []NoLostWakeup
<1>1. LInv /\ CInv => NoLostWakeup
  BY NothingComing DEF NoLostWakeup, Idle, Coming
<1> QED BY <1>1, CalmInvariant, LoopInvariant, PTL

(***************************************************************************)
(* What eventually happens.  Each argument is a chain of stages: a stage   *)
(* lasts until the main task's next step ends it, and the main task runs.  *)
(***************************************************************************)

(* The other tasks neither move the main task nor take its flags.          *)
LEMMA OthersWait ==
  ASSUME LInv, [Next]_vars, ~MainTask
  PROVE  /\ pc' = pc /\ got' = got /\ pending \subseteq pending'
         /\ sm'.debug_mode = sm.debug_mode
<1>1. Good(sm) /\ sm \in Fields
  BY GoodFields DEF LInv
<1>2. CASE StartUpdate
  <2>1. SetOtaOverlay(sm).debug_mode = sm.debug_mode
    BY <1>1 DEF SetOtaOverlay, Fields
  <2> QED BY <1>2, <2>1 DEF StartUpdate
<1>3. CASE on_settings_patched \/ Tick
  BY <1>1, <1>3, FlagsKeepModes DEF on_settings_patched, Tick, SameModes, inbox
<1>4. CASE \/ Report \/ Raise \/ WritePrefs \/ Notify \/ PostCommand \/ Press
           \/ ClockTicks \/ ThrottleEnds \/ UNCHANGED vars
  BY <1>4 DEF Report, Raise, WritePrefs, Notify, PostCommand, Press, ClockTicks, ThrottleEnds,
     inbox, vars
<1> QED BY <1>2, <1>3, <1>4 DEF Next

(* A pass that reached the flags without the debug overlay takes the first *)
(* of them.                                                                *)
LEMMA PassTakes ==
  ASSUME LInv, MainTask, pc = "serve", ~sm.debug_mode
  PROVE  /\ "ota" \in pending => pending' = pending \ {"ota"}
         /\ "ota" \notin pending /\ "zap" \in pending => pending' = pending \ {"zap"}
         /\ pending \cap {"ota", "zap"} = {} /\ "nwc" \in pending
              => pending' = pending \ {"nwc"}
<1>1. ServeOta \/ ServeZap \/ ServeNwc \/ Rotate \/ ServeData
  BY DEF MainTask, DrainControlCommands, HandleButton, Sleep, Wake, FinishRender, RefreshDebug,
     DebugTick
<1> QED BY <1>1 DEF ServeOta, ServeZap, ServeNwc, Serve, Rotate, ServeData

(* An update is started once.                                              *)
LEMMA UpdateOnce ==
  ASSUME LInv, [Next]_vars, sm.ota_active, "ota" \notin pending
  PROVE  sm'.ota_active /\ "ota" \notin pending'
<1>1. sm'.ota_active
  BY StepHeld DEF Kept, Held
<1>2. CASE MainTask
  <2>1. pending' \subseteq pending
    BY <1>2 DEF MainTask, DrainControlCommands, HandleButton, Sleep, Wake, FinishRender,
       RefreshDebug, ServeOta, ServeZap, ServeNwc, Serve, Rotate, ServeData, inbox
  <2> QED BY <1>1, <2>1
<1>3. CASE ~MainTask
  BY <1>1, <1>3 DEF Next, Report, Raise, StartUpdate, WritePrefs, on_settings_patched, Notify,
     PostCommand, Press, Tick, ClockTicks, ThrottleEnds, inbox, vars
<1> QED BY <1>2, <1>3

(* The update overlay and a zap are served as long as some passes get to   *)
(* the flags, in whatever order tasks raise others; a payment is, unless a *)
(* zap outranks it (event_loop.cpp, one flag per pass, the update first).  *)
THEOREM EveryFlagIsServed == FairSpec => FlagsServed
<1> DEFINE At == pc = "serve" /\ ~sm.debug_mode
           Ota == "ota" \in pending
           Zap == "zap" \in pending
           Nwc == "nwc" \in pending
           Latched == sm.ota_active
<1>1. LInv /\ Ota /\ At /\ [Next]_vars => ~Ota' \/ At'
  BY OthersWait, PassTakes
<1>2. LInv /\ Ota /\ At /\ <<MainTask>>_vars => ~Ota' /\ (Zap => Zap') /\ (Nwc => Nwc')
  BY PassTakes
<1>3. LInv /\ ~Ota /\ Zap /\ At /\ [Next]_vars => ~Zap' \/ At'
  BY OthersWait, PassTakes
<1>4. LInv /\ ~Ota /\ Zap /\ At /\ <<MainTask>>_vars => ~Zap'
  BY PassTakes
<1>5. LInv /\ ~Ota /\ ~Zap /\ Nwc /\ At /\ [Next]_vars => ~Nwc' \/ Zap' \/ At'
  BY OthersWait, PassTakes
<1>6. LInv /\ ~Ota /\ ~Zap /\ Nwc /\ At /\ <<MainTask>>_vars => ~Nwc'
  BY PassTakes
<1>7. LInv /\ Ota => Latched
  BY DEF LInv, Panels
<1>8. LInv /\ Latched /\ [Next]_vars => Latched'
  BY StepHeld DEF Kept, Held
<1>9. LInv /\ Latched /\ ~Ota /\ [Next]_vars => ~Ota'
  BY UpdateOnce
<1>10. FairSpec /\ []<>At => (Ota ~> ~Ota)
  BY <1>1, <1>2, LoopInvariant, PTL DEF FairSpec, Spec, MainTaskRuns
<1>11. FairSpec /\ []<>At => (Zap ~> ~Zap)
  BY <1>1, <1>2, <1>3, <1>4, <1>7, <1>8, <1>9, LoopInvariant,
     PTL DEF FairSpec, Spec, MainTaskRuns
<1>12. FairSpec /\ []<>At => (Nwc ~> ~Nwc \/ Zap)
  BY <1>1, <1>2, <1>5, <1>6, <1>7, <1>8, <1>9, LoopInvariant,
     PTL DEF FairSpec, Spec, MainTaskRuns
<1>13. /\ ~Ota <=> "ota" \notin pending
       /\ ~Zap <=> "zap" \notin pending
       /\ ~Nwc <=> "nwc" \notin pending
  OBVIOUS
<1> QED
  BY <1>13, <1>10, <1>11, <1>12, PTL DEF FlagsServed, Taken, PassesServeFlags

(* A user who pauses for good lets every pass through (event_loop.cpp: an  *)
(* empty queue costs the pass nothing, and a paint ends).                  *)
THEOREM PausesLetPassesServe ==
  FairSpec => (<>[](commands = <<>> /\ button = <<>>) => PassesServe)
<1> DEFINE Left == commands = <<>> /\ button = <<>>
           Painting == pc = "painting"
           Top == pc = "top"
           Take == pc = "take"
           At == pc = "serve"
<1>1. LInv => Painting \/ Top \/ Take \/ At
  BY DEF LInv, Control
<1>2. LInv /\ [Next]_vars => /\ Painting => Painting' \/ Top'
                             /\ Top /\ Left => Top' \/ Take'
                             /\ Take => Take' \/ At'
  <2> SUFFICES ASSUME LInv, [Next]_vars
               PROVE  /\ Painting => Painting' \/ Top'
                      /\ Top /\ Left => Top' \/ Take'
                      /\ Take => Take' \/ At'
    OBVIOUS
  <2>1. CASE MainTask
    BY <2>1 DEF MainTask, DrainControlCommands, HandleButton, Sleep, Wake, FinishRender,
       RefreshDebug, ServeOta, ServeZap, ServeNwc, Serve, Rotate, ServeData
  <2>2. CASE ~MainTask
    BY <2>2, OthersWait
  <2> QED BY <2>1, <2>2
<1>3. /\ Painting /\ <<MainTask>>_vars => Top'
      /\ Top /\ Left /\ <<MainTask>>_vars => Take'
      /\ Take /\ <<MainTask>>_vars => At'
  BY DEF MainTask, DrainControlCommands, HandleButton, Sleep, Wake, FinishRender,
     RefreshDebug, ServeOta, ServeZap, ServeNwc, Serve, Rotate, ServeData
<1> QED
  BY <1>1, <1>2, <1>3, LoopInvariant, PTL DEF FairSpec, Spec, MainTaskRuns, PassesServe

(* Only Wake leads to the flags, and every pass leaves them.               *)
LEMMA LoopLeaves ==
  ASSUME LInv, MainTask, ~Wake
  PROVE  pc' # "serve"
<1>1. ASSUME NEW m, Rendered(m) \/ Continue(m) \/ RenderedDebug(m)
      PROVE  pc' \in {"top", "painting"}
  BY <1>1 DEF Rendered, Continue, RenderedDebug
<1>2. CASE DrainControlCommands
  BY <1>1, <1>2 DEF DrainControlCommands
<1>3. CASE HandleButton
  <2>1. Head(button) \in {"pause", "next", "debug"}
    BY <1>3 DEF HandleButton, LInv, Control, Presses
  <2>2. CASE Head(button) = "pause"
    BY <1>1, <1>3, <2>2 DEF HandleButton
  <2>3. CASE Head(button) = "next"
    BY <1>1, <1>3, <2>3 DEF HandleButton
  <2>4. CASE Head(button) = "debug"
    BY <1>1, <1>3, <2>4 DEF HandleButton
  <2> QED BY <2>1, <2>2, <2>3, <2>4
<1>4. CASE Sleep \/ FinishRender \/ RefreshDebug \/ ServeOta
  BY <1>1, <1>4 DEF Sleep, FinishRender, RefreshDebug, ServeOta
<1>5. CASE ServeZap \/ ServeNwc \/ Rotate
  BY <1>1, <1>5 DEF ServeZap, ServeNwc, Rotate
<1>6. CASE ServeData
  <2> DEFINE m == IF NewBlock /\ ~IsCatchUpJump(seen, snap.block_height)
                       /\ settings.stealFocus /\ current_kind(sm) = "BlockHeight"
                  THEN Restart(sm) ELSE sm
  <2>1. Rendered(SetKind(sm, "BlockHeight")) \/ Rendered(m) \/ Continue(m)
    BY <1>6 DEF ServeData
  <2> HIDE DEF m
  <2> QED BY <1>1, <2>1
<1> QED BY <1>2, <1>3, <1>4, <1>5, <1>6 DEF MainTask

(* The notification count and its copy in the pass change hands in Wake.   *)
LEMMA NewsEbbs ==
  ASSUME LInv, [Next]_vars, owed = {}
  PROVE  /\ ~notified => ~notified'
         /\ pc # "serve" /\ pc' = "serve" => ~notified' /\ got' = notified
         /\ ~(pc # "serve" /\ pc' = "serve") => got' = got
<1>1. CASE MainTask
  <2>1. CASE Wake
    BY <2>1 DEF Wake
  <2>2. CASE ~Wake
    <3>1. notified' = notified /\ got' = got
      BY <1>1, <2>2 DEF MainTask, DrainControlCommands, HandleButton, Sleep, FinishRender,
         RefreshDebug, ServeOta, ServeZap, ServeNwc, Serve, Rotate, ServeData, inbox
    <3>2. pc' # "serve" \/ pc = "serve"
      BY <1>1, <2>2, LoopLeaves
    <3> QED BY <3>1, <3>2
  <2> QED BY <2>1, <2>2
<1>2. CASE ~MainTask
  <2>1. pc' = pc /\ got' = got
    BY <1>2, OthersWait
  <2>2. ~Notify
    BY DEF Notify
  <2>3. notified' = notified
    BY <1>2, <2>2 DEF Next, Report, Raise, StartUpdate, WritePrefs, on_settings_patched,
       PostCommand, Press, Tick, ClockTicks, ThrottleEnds, inbox, vars
  <2> QED BY <2>1, <2>3
<1> QED BY <1>1, <1>2

(* In a calm device whose sources fall silent, every task that owes a      *)
(* notification gives it, the last one is taken, and from the end of its   *)
(* pass on the panels are current, through every rotation, navigation and  *)
(* notification that follows (event_loop.cpp, RunEventLoop).               *)
THEOREM PanelsCatchUp == Calm /\ FairSpec => EventuallyCurrent
<1> DEFINE Source == "source" \in owed
           Zap == "zap" \in owed
           Nwc == "nwc" \in owed
           Ota == "ota" \in owed
           Patch == "settings" \in owed
           None == owed = {}
           NoTask == owed \subseteq {"hook"}
           Notified == notified
           Got == got
           At == pc = "serve"
           Shrinks == owed' \subseteq owed
<1>1. LInv /\ CInv => (NoTask <=> None)
  BY DEF CInv
<1>2. LInv /\ CInv => (None <=> ~Source /\ ~Zap /\ ~Nwc /\ ~Ota /\ ~Patch)
  BY DEF LInv, Control, CInv
<1>3. [Shrinks]_owed => /\ (~Source => ~Source') /\ (~Zap => ~Zap') /\ (~Nwc => ~Nwc')
                        /\ (~Ota => ~Ota') /\ (~Patch => ~Patch')
  OBVIOUS
<1>4. LInv /\ <<Notify>>_vars => \/ Source /\ ~Source'
                                 \/ Zap /\ ~Zap'
                                 \/ Nwc /\ ~Nwc'
                                 \/ Ota /\ ~Ota'
                                 \/ Patch /\ ~Patch'
  <2> SUFFICES ASSUME LInv, Notify
               PROVE  \E t \in {"source", "zap", "nwc", "ota", "settings"} :
                        t \in owed /\ t \notin owed'
    OBVIOUS
  <2> QED BY DEF Notify, LInv, Control
<1>5. LInv /\ None /\ [Next]_vars => /\ ~Notified => ~Notified'
                                     /\ ~At /\ At' => ~Notified'
                                     /\ ~At /\ At' /\ ~Notified => ~Got'
                                     /\ ~Got /\ ~(~At /\ At') => ~Got'
  BY NewsEbbs
<1>6. LInv /\ At /\ <<MainTask>>_vars => ~At'
  BY LoopLeaves DEF Wake
<1>7. LInv /\ CInv /\ None /\ ~Notified /\ ~Got => Current
  BY NothingComing DEF Coming
<1> QED
  BY <1>1, <1>2, <1>3, <1>4, <1>5, <1>6, <1>7, LoopInvariant, CalmInvariant,
     PTL DEF FairSpec, Spec, MainTaskRuns, NotifierRuns, EventuallyCurrent, Quiet, PassesServe
=============================================================================
