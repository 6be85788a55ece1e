------------------------------ MODULE Painting ------------------------------
(***************************************************************************)
(* The screen manager and its panels under data that comes and goes: the   *)
(* main task navigates and paints, the data sources report, the clock      *)
(* runs, the user patches display preferences.  Every command and button   *)
(* paints in the step that handles it; a data push paints when             *)
(* ShouldRender says so.  EventLoop splits these steps further.            *)
(***************************************************************************)
EXTENDS ScreenPainting

(* What a device meets: plans (indexed as Plans) and jumps, the partial    *)
(* snapshots its sources report, what the hub holds when the first screen  *)
(* is painted, wall-clock times (0 before SNTP), display preferences.      *)
CONSTANT Worlds

ASSUME WorldsAssumption ==
  \A w \in Worlds :
    /\ \A list \in CurrencyLists : w.plans[Len(list)] \subseteq Plans[Len(list)]
    /\ w.slots \subseteq JumpSlots
    /\ w.prefs \subseteq DisplayPrefs /\ w.times \subseteq Nat
    /\ \A s \in w.data \cup w.samples : s.block_height \in Nat

(* A device whose first paint comes after the first reports and after      *)
(* SNTP, and which shows the fee it compares.  Outside such worlds the     *)
(* panels can be left with a value that is not the screen's.               *)
InformedWorld(w) ==
  /\ \A s \in w.data : Known(s)
  /\ \A s \in w.samples : s.block_fee \in Nat \cup {-1}
  /\ 0 \notin w.times
  /\ \A p \in w.prefs : p.blockFeeDec

Informed == \A w \in Worlds : InformedWorld(w)

VARIABLES
  sm,       \* the ScreenManager object
  pt,       \* its panels, shadows and price throttle
  snap,     \* the data hub's snapshot
  time,     \* the wall clock
  prefs,    \* the persisted display preferences
  world     \* what this device meets, the same throughout a behaviour

vars == <<sm, pt, snap, time, prefs, world>>

(* The main task leaves the manager as m and renders it. *)
Rendered(m) == /\ sm' = Render(m)
               /\ pt' = Paint(m, pt, snap, time, prefs)
               /\ UNCHANGED <<snap, time, prefs, world>>

Init ==
  /\ world \in Worlds
  /\ \E list \in CurrencyLists : \E plan \in world.plans[Len(list)] :
       sm = BootScreenManager(list, plan, NoSlot, FALSE)
  /\ \E throttled \in BOOLEAN : pt = BootPaint(throttled)
  /\ snap \in world.data
  /\ time \in world.times
  /\ prefs \in world.prefs

-----------------------------------------------------------------------------
Navigate ==
  \/ Rendered(NextScreen(sm, {}))
  \/ \E s \in world.slots : Rendered(SetSlot(sm, s))

Notify ==
  \/ Rendered(SetCustomCells(sm))
  \/ Rendered(SetZapNotify(sm, FALSE))
  \/ Rendered(SetNwcPaymentNotify(sm, FALSE))

(* A PATCH of the screens queues the rebuild and then marks the panels     *)
(* dirty (on_screens_changed, on_settings_patched): the main task may      *)
(* rebuild, and paint, before the mark or after it.                        *)
RebuildScreens ==
  \E list \in CurrencyLists : \E plan \in world.plans[Len(list)] :
    LET m == SetRotationSequence(SetCurrencies(sm, list), plan)
    IN  \/ Rendered(MarkDirty(m))
        \/ /\ sm' = MarkDirty(Render(m))
           /\ pt' = Paint(m, pt, snap, time, prefs)
           /\ UNCHANGED <<snap, time, prefs, world>>

(* Button 4, and the refresh of the debug overlay every ten seconds. *)
Debug ==
  LET m == ToggleDebug(sm)
      Paints == /\ sm' = RenderDebug(IF sm.debug_mode THEN sm ELSE m)
                /\ pt' = PaintDebug(pt)
                /\ UNCHANGED <<snap, time, prefs, world>>
  IN  Paints \/ (sm.debug_mode /\ Rendered(m))

(* A data push, handled. *)
DataPush == ShouldRender(sm, pt, snap, time) /\ Rendered(sm)

(* A source reports; the precise fee comes only while it is subscribed to. *)
Report ==
  \E s \in world.samples :
    /\ s.block_fee_precise >= 0 => prefs.blockFeeDec
    /\ Merge(snap, s) # snap
    /\ snap' = Merge(snap, s)
    /\ UNCHANGED <<sm, pt, time, prefs, world>>

ClockTicks ==
  /\ time' \in world.times \ {0}
  /\ UNCHANGED <<sm, pt, snap, prefs, world>>

ThrottleEnds ==
  /\ pt.throttled
  /\ pt' = [pt EXCEPT !.throttled = FALSE]
  /\ UNCHANGED <<sm, snap, time, prefs, world>>

(* An accepted PATCH of the settings. *)
PatchPrefs ==
  /\ prefs' \in world.prefs
  /\ sm' = MarkDirty(sm)
  /\ UNCHANGED <<pt, snap, time, world>>

Next ==
  \/ Navigate \/ Notify \/ RebuildScreens \/ Debug \/ DataPush
  \/ Report \/ ClockTicks \/ ThrottleEnds \/ PatchPrefs

Spec == Init /\ [][Next]_vars

-----------------------------------------------------------------------------
(* Properties. *)

(* Nothing is left to repaint, now or when the throttle's window ends. *)
Settled == ~ShouldRender(sm, [pt EXCEPT !.throttled = FALSE], snap, time)

Current == ShowsCurrent(sm, pt.panels, snap, time, prefs)

(* When the manager sees no reason to repaint, the panels show the current *)
(* screen, in the current preferences, with the current value - whatever   *)
(* shadows the screens share and however the view came to be.              *)
SettledShowsCurrent == Settled => Current

(* A data push settles the screen: ShouldRender is "True if dirty          *)
(* (navigation just happened) or if the snapshot carries new data for the  *)
(* current slot".                                                          *)
RenderSettles == [][DataPush => Settled']_vars

(* The height on the panels never goes back while a height screen stays    *)
(* up: a stale source cannot undo a block.                                 *)
HeightNeverRegresses ==
  [][/\ pt.panels.view[1] \in HeightKinds
     /\ pt'.panels.view = pt.panels.view
     => pt'.panels.value[1] >= pt.panels.value[1]]_vars
=============================================================================
