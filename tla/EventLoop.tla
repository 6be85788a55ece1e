----------------------------- MODULE EventLoop ------------------------------
(***************************************************************************)
(* The main task (RunEventLoop in main/app/event_loop.cpp) and the tasks   *)
(* that wake it: data sources, the zap and wallet relays, the HTTP server, *)
(* the button task, the firmware updater.                                  *)
(*                                                                         *)
(* The main task owns the screen manager.  Each pass drains one command    *)
(* batch or one button, or else takes its task notification (for at most a *)
(* second) and serves the flags the other tasks raised, one per pass; a    *)
(* data push is painted only in a pass that took a notification.  Painting *)
(* is slow - the panels are refreshed one by one - and the manager's dirty *)
(* flags are cleared when it is over.                                      *)
(*                                                                         *)
(* The other tasks change shared state first and notify afterwards; owed   *)
(* holds those caught in between.                                          *)
(***************************************************************************)
EXTENDS ScreenPainting

CONSTANTS
  ActorSets,       \* sets of tasks that may be active besides the main one
  Samples,         \* partial snapshots a source may report
  InitialData,     \* what the hub may hold at first
  Times,           \* wall-clock times, 0 before SNTP
  Prefs,           \* display preferences the user may choose ...
  BootPrefs,       \* ... and those stored at boot
  Settings,        \* records of stealFocus, nwcShowNotify, restore (scrnRestoreZap),
                   \* timerRuns (timerSeconds > 0)
  SavedHeights,    \* heights the previous boot may have left behind, 0 for none
  kCatchUpJumpBlocks

ASSUME EventLoopAssumption ==
  /\ SavedHeights \subseteq Nat /\ kCatchUpJumpBlocks \in Nat
  /\ \A s \in InitialData \cup Samples : s.block_height \in Nat
  /\ \A s \in Settings : s.restore \in BOOLEAN

VARIABLES
  sm, pt, snap, time, prefs,
  pc,         \* where the main task is: "top", "take", "serve", "painting"
  got,        \* this pass took a notification
  flashDue,   \* pending_block_notify of this pass
  seen,       \* last_seen_height_
  flashed,    \* the height of the last block flash posted to the LED task
  debugDue,   \* the debug overlay is due for its ten-second refresh
  notified,   \* the main task's notification count is not zero
  owed,       \* tasks that changed something and still have to notify
  commands,   \* the control queue
  button,     \* the button queue
  pending,    \* flags raised for the main task: "zap", "nwc", "ota"
  settings,   \* the settings the loop reads
  actors      \* the active tasks, the same throughout a behaviour

data == <<snap, time, prefs, settings, actors>>
block == <<seen, flashed, flashDue>>
inbox == <<notified, owed, commands, button, pending>>
vars == <<sm, pt, pc, got, debugDue, data, block, inbox>>

(* The pass that received the first data has painted the first frame       *)
(* (FinishBoot) and goes on.                                               *)
Init ==
  /\ snap \in InitialData /\ time \in Times /\ prefs \in BootPrefs
  /\ settings \in Settings /\ actors \in ActorSets
  /\ \E list \in CurrencyLists : \E plan \in Plans[Len(list)] :
       LET m == BootScreenManager(list, plan, NoSlot, FALSE)
       IN  sm = Render(m) /\ pt = Paint(m, BootPaint(FALSE), snap, time, prefs)
  /\ seen \in SavedHeights /\ flashed = 0 /\ flashDue = FALSE
  /\ pc = "serve" /\ got = TRUE /\ debugDue = FALSE
  /\ notified = FALSE /\ owed = {} /\ commands = <<>> /\ button = <<>> /\ pending = {}

-----------------------------------------------------------------------------
(* The main task.                                                          *)

(* Render the manager left as m.  What will be on the panels is settled    *)
(* when painting starts; Render returns at once under the update and debug *)
(* overlays.                                                               *)
Rendered(m) ==
  /\ sm' = m
  /\ pt' = Paint(m, pt, snap, time, prefs)
  /\ pc' = IF m.ota_active \/ m.debug_mode THEN "top" ELSE "painting"

(* The next pass, nothing painted. *)
Continue(m) == sm' = m /\ pc' = "top" /\ UNCHANGED pt

RenderedDebug(m) == sm' = RenderDebug(m) /\ pt' = PaintDebug(pt) /\ pc' = "top"

(* Mutant: the latch is not reset before the next pass. *)
FinishRenderKeepsLatch ==
  /\ pc = "painting"
  /\ sm' = [sm EXCEPT !.dirty = FALSE, !.screen_change_pending = FALSE]
  /\ pc' = "top"
  /\ flashed' = IF flashDue THEN seen ELSE flashed
  /\ UNCHANGED <<pt, got, debugDue, flashDue, data, seen, inbox>>

FinishRender ==
  /\ pc = "painting"
  /\ sm' = [sm EXCEPT !.dirty = FALSE, !.screen_change_pending = FALSE]
  /\ pc' = "top"
  /\ flashed' = IF flashDue THEN seen ELSE flashed
  /\ flashDue' = FALSE
  /\ UNCHANGED <<pt, got, debugDue, data, seen, inbox>>

Apply(m, command) ==
  CASE command = "next"   -> NextScreen(m, {})
    [] command = "custom" -> SetCustomCells(m)

DrainControlCommands ==
  /\ pc = "top" /\ commands # <<>>
  /\ Rendered(FoldLeft(Apply, sm, commands))
  /\ commands' = <<>>
  /\ UNCHANGED <<got, debugDue, data, block, notified, owed, button, pending>>

(* Buttons 1, 2 and 4; button 3 mirrors 2. *)
HandleButton ==
  /\ pc = "top" /\ commands = <<>> /\ button # <<>>
  /\ LET debug == ToggleDebug(sm)
     IN  CASE Head(button) = "pause" -> Continue(TogglePaused(sm))
           [] Head(button) = "next"  ->
                IF sm.debug_mode THEN Continue(sm) ELSE Rendered(NextScreen(sm, {}))
           [] Head(button) = "debug" ->
                IF debug.debug_mode THEN RenderedDebug(debug) ELSE Rendered(debug)
  /\ button' = Tail(button)
  /\ UNCHANGED <<got, debugDue, data, block, notified, owed, commands, pending>>

Sleep ==
  /\ pc = "top" /\ commands = <<>> /\ button = <<>>
  /\ pc' = "take"
  /\ UNCHANGED <<sm, pt, got, debugDue, data, block, inbox>>

(* A notification, or a second without one. *)
Wake ==
  /\ pc = "take"
  /\ pc' = "serve"
  /\ got' = notified
  /\ notified' = FALSE
  /\ UNCHANGED <<sm, pt, debugDue, data, block, owed, commands, button, pending>>

DebugTick == sm.debug_mode /\ debugDue

RefreshDebug ==
  /\ pc = "serve" /\ DebugTick
  /\ RenderedDebug(sm)
  /\ debugDue' = FALSE
  /\ UNCHANGED <<got, data, block, inbox>>

(* Mutant: the flag is tested and not taken. *)
ServeUntaken(flag) ==
  /\ pc = "serve" /\ ~DebugTick
  /\ flag \in pending
  /\ UNCHANGED <<got, debugDue, data, block, inbox>>

(* Serve one flag, the update overlay first. *)
Serve(flag) ==
  /\ pc = "serve" /\ ~DebugTick
  /\ flag \in pending
  /\ pending' = pending \ {flag}
  /\ UNCHANGED <<got, debugDue, data, block, notified, owed, commands, button>>

ServeOta ==
  /\ Serve("ota")
  /\ pt' = [pt EXCEPT !.panels = [Mixed EXCEPT !.view = <<"OtaUpdate", NoCurrency>>]]
  /\ pc' = "top"
  /\ UNCHANGED sm

ServeZap ==
  /\ Serve("zap") /\ "ota" \notin pending
  /\ Rendered(SetZapNotify(sm, settings.restore))

(* Mutant: the overlay is latched and its paint left to the next pass. *)
ServeNwcUnpainted ==
  /\ Serve("nwc") /\ pending \cap {"ota", "zap"} = {}
  /\ Continue(IF settings.nwcShowNotify THEN SetNwcPaymentNotify(sm, settings.restore) ELSE sm)

ServeNwc ==
  /\ Serve("nwc") /\ pending \cap {"ota", "zap"} = {}
  /\ IF settings.nwcShowNotify
     THEN Rendered(SetNwcPaymentNotify(sm, settings.restore))
     ELSE Continue(sm)

RotateNow == settings.timerRuns /\ AutoRotateDue(sm)

(* Mutant: the next screen is painted with the next data push. *)
RotateUnpainted ==
  /\ pc = "serve" /\ ~DebugTick /\ pending = {} /\ RotateNow
  /\ Continue(MaybeAutoRotate(sm, {}))
  /\ UNCHANGED <<got, debugDue, data, block, inbox>>

Rotate ==
  /\ pc = "serve" /\ ~DebugTick /\ pending = {} /\ RotateNow
  /\ Rendered(MaybeAutoRotate(sm, {}))
  /\ UNCHANGED <<got, debugDue, data, block, inbox>>

IsCatchUpJump(prev, new) == prev # 0 /\ new > prev /\ new - prev > kCatchUpJumpBlocks

(* ConsumeNewBlock: a height other than the last one seen, not the first. *)
NewBlock == snap.block_height # 0 /\ seen # 0 /\ snap.block_height # seen

ShouldSteal ==
  settings.stealFocus /\ current_kind(sm) \notin {"BlockHeight", "Debug", "NostrZap"}

(* The end of a pass that served nothing: a new block may take the screen  *)
(* or keep it there, a data push is painted if this pass took one, and the *)
(* block flash follows the paint.                                          *)
ServeData ==
  LET flash == NewBlock /\ ~IsCatchUpJump(seen, snap.block_height)
      m == IF flash /\ settings.stealFocus /\ current_kind(sm) = "BlockHeight"
           THEN Restart(sm) ELSE sm
  IN  /\ pc = "serve" /\ ~DebugTick /\ pending = {} /\ ~RotateNow
      /\ IF flash /\ ShouldSteal THEN Rendered(SetKind(sm, "BlockHeight"))
         ELSE IF got /\ ShouldRender(m, pt, snap, time) THEN Rendered(m)
         ELSE Continue(m)
      /\ seen' = IF snap.block_height = 0 THEN seen ELSE snap.block_height
      /\ flashDue' = (flash /\ pc' = "painting")
      /\ flashed' = IF flash /\ pc' = "top" THEN snap.block_height ELSE flashed
      /\ UNCHANGED <<got, debugDue, data, inbox>>

MainTask ==
  \/ DrainControlCommands \/ HandleButton \/ Sleep \/ Wake \/ FinishRender
  \/ RefreshDebug \/ ServeOta \/ ServeZap \/ ServeNwc \/ Rotate \/ ServeData

-----------------------------------------------------------------------------
(* The other tasks.                                                        *)

Owes(task) == owed' = owed \cup {task}

Report ==
  /\ "source" \in actors /\ "source" \notin owed
  /\ \E s \in Samples : Merge(snap, s) # snap /\ snap' = Merge(snap, s)
  /\ Owes("source")
  /\ UNCHANGED <<sm, pt, pc, got, debugDue, time, prefs, settings, actors, block,
                 notified, commands, button, pending>>

(* A zap or a payment: the hub has it, then the flag, then the wake-up. *)
Raise ==
  /\ \E flag \in {"zap", "nwc"} \cap actors :
       flag \notin pending /\ pending' = pending \cup {flag} /\ Owes(flag)
  /\ UNCHANGED <<sm, pt, pc, got, debugDue, data, block, notified, commands, button>>

(* Mutant: the hook asks for the paint but does not latch the overlay. *)
StartUpdateUnlatched ==
  /\ "ota" \in actors /\ "ota" \notin pending
  /\ pending' = pending \cup {"ota"}
  /\ Owes("ota")
  /\ UNCHANGED <<sm, pt, pc, got, debugDue, data, block, notified, commands, button>>

(* The pre-flash hook. *)
StartUpdate ==
  /\ "ota" \in actors /\ ~sm.ota_active
  /\ sm' = SetOtaOverlay(sm)
  /\ pending' = pending \cup {"ota"}
  /\ Owes("ota")
  /\ UNCHANGED <<pt, pc, got, debugDue, data, block, notified, commands, button>>

(* PATCH /api/settings: the preference is stored, then the hook marks the  *)
(* panels dirty, then it wakes the main task.                              *)
WritePrefs ==
  /\ "settings" \in actors /\ owed \cap {"hook", "settings"} = {}
  /\ prefs' \in Prefs \ {prefs}
  /\ Owes("hook")
  /\ UNCHANGED <<sm, pt, pc, got, debugDue, snap, time, settings, actors, block,
                 notified, commands, button, pending>>

on_settings_patched ==
  /\ "hook" \in owed
  /\ sm' = MarkDirty(sm)
  /\ owed' = (owed \ {"hook"}) \cup {"settings"}
  /\ UNCHANGED <<pt, pc, got, debugDue, data, block, notified, commands, button, pending>>

Notify ==
  /\ \E task \in owed \ {"hook"} : owed' = owed \ {task}
  /\ notified' = TRUE
  /\ UNCHANGED <<sm, pt, pc, got, debugDue, data, block, commands, button, pending>>

(* The handlers of the control API queue a command and do not notify. *)
PostCommand ==
  /\ "http" \in actors /\ commands = <<>>
  /\ \E c \in {"next", "custom"} : commands' = <<c>>
  /\ UNCHANGED <<sm, pt, pc, got, debugDue, data, block, notified, owed, button, pending>>

Press ==
  /\ "buttons" \in actors /\ button = <<>>
  /\ \E b \in {"pause", "next", "debug"} : button' = <<b>>
  /\ UNCHANGED <<sm, pt, pc, got, debugDue, data, block, notified, owed, commands, pending>>

Tick ==
  /\ sm' = Age(sm)
  /\ debugDue' = sm.debug_mode
  /\ UNCHANGED <<pt, pc, got, data, block, inbox>>

ClockTicks ==
  /\ time' \in Times \ {0}
  /\ UNCHANGED <<sm, pt, pc, got, debugDue, snap, prefs, settings, actors, block, inbox>>

(* minSecPriceUpd has passed since the last price was painted. *)
ThrottleEnds ==
  /\ pt.throttled
  /\ pt' = [pt EXCEPT !.throttled = FALSE]
  /\ UNCHANGED <<sm, pc, got, debugDue, data, block, inbox>>

Next ==
  \/ MainTask
  \/ Report \/ Raise \/ StartUpdate \/ WritePrefs \/ on_settings_patched \/ Notify
  \/ PostCommand \/ Press \/ Tick \/ ClockTicks \/ ThrottleEnds

Spec == Init /\ [][Next]_vars

(* The main task is never blocked for good: WF_vars(MainTask) of a task    *)
(* whose every wait has a timeout, so that it has a step in every state.   *)
MainTaskRuns == []<><<MainTask>>_vars

(* A task that owes a notification gives it: WF_vars(Notify), with the      *)
(* guard of Notify written out.                                            *)
NotifierRuns == []<>(owed \subseteq {"hook"}) \/ []<><<Notify>>_vars

FairSpec == Spec /\ MainTaskRuns /\ NotifierRuns /\ WF_vars(on_settings_patched)
                 /\ WF_vars(Tick)

-----------------------------------------------------------------------------
(* Properties. *)

TypeOK ==
  /\ ScreenManagerTypeOK(sm)
  /\ pc \in {"top", "take", "serve", "painting"}
  /\ owed \subseteq {"source", "zap", "nwc", "ota", "hook", "settings"}
  /\ pending \subseteq {"zap", "nwc", "ota"}
  /\ flashDue => pc = "painting"

(* No lost wake-up: when the main task blocks with nothing left to take,   *)
(* the panels show the current screen with the current data, so sleeping   *)
(* until the next push is safe.  A price may be the one before, held back  *)
(* by the throttle, and a clock is not woken for: of those the screen is   *)
(* up.  A preference patched during a paint may wait for the next one.     *)
Idle == pc = "take" /\ ~notified /\ owed = {} /\ commands = <<>> /\ button = <<>> /\ pending = {}

MayWait(m) == current_kind(m) \in PriceKinds \cup {"MarketCap", "Clock"}

Current ==
  \/ ShowsCurrent(sm, pt.panels, snap, time, prefs)
  \/ MayWait(sm) /\ pt.panels.view = View(sm)

NoLostWakeup == Idle /\ "settings" \notin actors => Current

(* What a device must be like for it: it has heard its data before the     *)
(* first screen, nobody patches a preference while it paints, and payments *)
(* that are flagged are shown.                                             *)
Calm ==
  /\ Known(snap) /\ prefs.blockFeeDec
  /\ \A s \in Samples : s.block_fee \in Nat \cup {-1}
  /\ "settings" \notin actors
  /\ settings.nwcShowNotify \/ "nwc" \notin actors

(* Blocks are announced in ascending order: however data, notifications    *)
(* and paints interleave, no flash is posted for a height below one        *)
(* already announced.                                                      *)
FlashesAscend == [][flashed' >= flashed]_vars

(* The update overlay, once painted, stays, whatever was in flight when it *)
(* came (SetOtaOverlay: "a data push can't paint over the overlay"); only  *)
(* the debug overlay is painted over it, and nothing over that.            *)
OwnsPanels == {"OtaUpdate", "Debug"}

OtaOverlayStays ==
  [][\/ pt.panels.view[1] = "OtaUpdate"
     \/ sm.ota_active /\ pt.panels.view[1] = "Debug"
     => pt'.panels.view[1] \in OwnsPanels]_vars

(* From some point on, no other task has news. *)
Quiet == <>[][owed' \subseteq owed]_owed

(* A pass that finds a command or a click ends there, so a user who never  *)
(* pauses keeps the loop from what follows.  Now and then one gets to the  *)
(* flags; now and then without the debug overlay, which is refreshed first.*)
PassesServe == []<>(pc = "serve")
PassesServeFlags == []<>(pc = "serve" /\ ~sm.debug_mode)

(* Once the news stops, the main task ends up showing the current data and *)
(* keeps doing so while it rotates and the user goes through the screens.  *)
EventuallyCurrent == PassesServe /\ Quiet => <>[]Current

(* A zap, and the update overlay a hook waits for, are served whatever the *)
(* other tasks go on doing; a payment unless another zap comes first.      *)
Taken(flag) == flag \in pending ~> flag \notin pending

FlagsServed ==
  PassesServeFlags => /\ Taken("ota") /\ Taken("zap")
                      /\ "nwc" \in pending ~> "nwc" \notin pending \/ "zap" \in pending

=============================================================================
