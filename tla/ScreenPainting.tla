--------------------------- MODULE ScreenPainting ---------------------------
(***************************************************************************)
(* What the e-paper panels show (ScreenManager::Render, ShouldRender and   *)
(* RenderDebug in main/app/screen_manager.cpp, the screens' cell diff in   *)
(* main/screens).                                                          *)
(*                                                                         *)
(* A renderer is given the value to show and the value last rendered, and  *)
(* repaints the cells in which the two differ; a sentinel for the last     *)
(* value repaints all of them.  The manager keeps the last values in       *)
(* shadow fields, some of them shared by several screens, and compares     *)
(* them with the snapshot to tell whether a repaint is due.                *)
(*                                                                         *)
(* The panels hold the view, the display preferences and the value of the  *)
(* paint they show.  A cell diff over panels that do not show what the     *)
(* shadow says leaves them Mixed: old cells, or an old label, between new  *)
(* ones.                                                                   *)
(***************************************************************************)
EXTENDS ScreenMethods, DataHub

(* The preferences Render reads: blockFeeDec, and one standing for those   *)
(* that only change how a value looks.                                     *)
DisplayPrefs == [blockFeeDec : BOOLEAN, look : {"plain", "suffix"}]

Nothing == <<>>

(* The hub has heard what every screen needs: a height, a fee and a price  *)
(* in each currency on the device.                                         *)
Known(s) ==
  /\ s.block_height \in Nat \ {0}
  /\ s.block_fee \in Nat
  /\ \A list \in CurrencyLists : \A i \in DOMAIN list :
       list[i] \in DOMAIN s.prices /\ s.prices[list[i]] # ""

-----------------------------------------------------------------------------
(* The value a screen shows at a wall-clock time (0 before SNTP); Nothing  *)
(* when Render skips the screen.                                           *)

RenderedFee(snap, prefs) ==
  IF snap.block_fee >= 0 /\ ~(prefs.blockFeeDec /\ snap.block_fee_precise >= 0)
  THEN snap.block_fee
  ELSE snap.block_fee_precise

Miner(bitaxe, value) == IF bitaxe.hostname = "" \/ value = "" THEN "OFFLINE" ELSE value

Sats(msat) == IF msat < 0 THEN -1 ELSE msat \div 1000

HeightKinds == {"BlockHeight", "Halving", "BitcoinSupply"}
PriceKinds  == {"MoscowTime", "BtcPrice"}

Price(m, snap) == snap.prices[current_currency(m)]

Value(m, snap, time, prefs) ==
  LET kind == current_kind(m)
  IN  CASE kind \in HeightKinds ->
             IF snap.block_height = 0 THEN Nothing ELSE <<snap.block_height>>
        [] kind \in PriceKinds ->
             IF Price(m, snap) = "" THEN Nothing ELSE <<Price(m, snap)>>
        [] kind = "MarketCap" ->
             IF Price(m, snap) = "" \/ snap.block_height = 0 THEN Nothing
             ELSE <<Price(m, snap), snap.block_height>>
        [] kind = "BlockFeeRate" -> <<RenderedFee(snap, prefs)>>
        [] kind = "Clock" -> <<time>>
        [] kind = "MiningPoolHashrate" -> <<snap.pool.name, snap.pool.hashrate>>
        [] kind = "MiningPoolEarnings" -> <<snap.pool.name, snap.pool.daily>>
        [] kind = "MiningPoolEstimatedEarnings" -> <<snap.pool.name, snap.pool.estimated>>
        [] kind = "BitaxeHashrate" -> <<Miner(snap.bitaxe, snap.bitaxe.hashrate)>>
        [] kind = "BitaxeBestDiff" -> <<Miner(snap.bitaxe, snap.bitaxe.best_diff)>>
        [] kind = "NwcBalance" -> <<Sats(snap.nwc_balance)>>
        [] OTHER -> <<"overlay">>

(* The shadow field a screen keeps its last value in. *)
Shadow(kind) ==
  CASE kind \in HeightKinds -> "height"
    [] kind \in PriceKinds  -> "price"
    [] OTHER                -> kind

(* Their values at boot; each is the sentinel its renderer repaints on. *)
Sentinel ==
  [height |-> <<0>>, price |-> <<"">>, MarketCap |-> <<"", 0>>,
   BlockFeeRate |-> <<-1>>, Clock |-> <<0>>,
   MiningPoolHashrate |-> <<"", "">>, MiningPoolEarnings |-> <<"", "">>,
   MiningPoolEstimatedEarnings |-> <<"", "">>,
   BitaxeHashrate |-> <<"">>, BitaxeBestDiff |-> <<"">>, NwcBalance |-> <<-1>>]

-----------------------------------------------------------------------------
(* Is a repaint due?                                                       *)

(* The value compared is the value rendered, but for the fee, which        *)
(* prefers the precise one whatever the preference.                        *)
PreciseFirst == [blockFeeDec |-> TRUE, look |-> "plain"]

Overlay(m) == current_kind(m) \in OverlayKinds

Changed(m, last, snap, time) ==
  LET v == Value(m, snap, time, PreciseFirst) IN v # last[Shadow(current_kind(m))]

(* Mutant: a market cap is due when its price changes, not its height. *)
DueOnPriceOnly(m, pt, snap, time) ==
  LET kind == current_kind(m)
      v == Value(m, snap, time, PreciseFirst)
  IN  /\ ~Overlay(m) /\ v # Nothing
      /\ IF kind \in PriceKinds \cup {"MarketCap"}
         THEN ~pt.throttled /\ v[1] # pt.last[Shadow(kind)][1]
         ELSE Changed(m, pt.last, snap, time)

(* Mutant: the market cap is compared with the price screens' shadow. *)
DueOnSharedPrice(m, pt, snap, time) ==
  LET kind == current_kind(m)
      v == Value(m, snap, time, PreciseFirst)
  IN  /\ ~Overlay(m) /\ v # Nothing
      /\ CASE kind \in PriceKinds -> ~pt.throttled /\ Changed(m, pt.last, snap, time)
           [] kind = "MarketCap" ->
                v[2] # pt.last[kind][2] \/ (~pt.throttled /\ <<v[1]>> # pt.last["price"])
           [] OTHER -> Changed(m, pt.last, snap, time)

(* A price waits for the throttle; a height does not.  A clock without a   *)
(* time keeps asking.                                                      *)
Due(m, pt, snap, time) ==
  LET kind == current_kind(m)
      v == Value(m, snap, time, PreciseFirst)
  IN  /\ ~Overlay(m) /\ v # Nothing
      /\ ~(kind = "BlockFeeRate" /\ v = <<-1>>)
      /\ CASE kind = "Clock" /\ time = 0 -> pt.last[kind] = Sentinel[kind]
           [] kind \in PriceKinds -> ~pt.throttled /\ Changed(m, pt.last, snap, time)
           [] kind = "MarketCap" ->
                \/ v[2] # pt.last[kind][2]
                \/ ~pt.throttled /\ v[1] # pt.last[kind][1]
           [] OTHER -> Changed(m, pt.last, snap, time)

ShouldRender(m, pt, snap, time) ==
  /\ ~m.ota_active
  /\ ~m.debug_mode
  /\ m.dirty \/ m.screen_change_pending \/ Due(m, pt, snap, time)

-----------------------------------------------------------------------------
(* Painting.                                                               *)

Frame(m, snap, time, prefs) ==
  [view |-> View(m), prefs |-> prefs, value |-> Value(m, snap, time, prefs)]

Mixed == [view |-> <<"Mixed", NoCurrency>>,
          prefs |-> [blockFeeDec |-> FALSE, look |-> "plain"], value |-> Nothing]

SameFrame(f, g) == f.view = g.view /\ f.prefs = g.prefs /\ f.value = g.value

PoolKinds == {"MiningPoolHashrate", "MiningPoolEarnings", "MiningPoolEstimatedEarnings"}

(* Repaint the cells in which the frame's value differs from prev: all of  *)
(* them when prev is the sentinel or another pool's.                       *)
CellDiff(panels, kind, frame, prev) ==
  IF \/ prev = Sentinel[Shadow(kind)]
     \/ kind \in PoolKinds /\ frame.value[1] # prev[1]
  THEN frame
  ELSE IF frame.value = prev THEN panels
  ELSE IF SameFrame(panels, [frame EXCEPT !.value = prev]) THEN frame
  ELSE Mixed

ForceRepaint(m) == m.dirty \/ m.screen_change_pending

(* What Render does to the panels and the shadows.  A screen whose value   *)
(* has not arrived is skipped; the notifications always paint all cells,   *)
(* the custom text has no other paint than the forced one.                 *)
Paint(m, pt, snap, time, prefs) ==
  LET kind  == current_kind(m)
      frame == Frame(m, snap, time, prefs)
      sh    == Shadow(kind)
  IN  CASE m.ota_active \/ m.debug_mode \/ frame.value = Nothing -> pt
        [] kind \in {"NostrZap", "NwcPaymentNotify"} -> [pt EXCEPT !.panels = frame]
        [] kind = "Custom" -> IF ForceRepaint(m) THEN [pt EXCEPT !.panels = frame] ELSE pt
        [] OTHER ->
             [panels |-> CellDiff(pt.panels, kind, frame,
                                  IF ForceRepaint(m) THEN Sentinel[sh] ELSE pt.last[sh]),
              last |-> [pt.last EXCEPT ![sh] = frame.value],
              throttled |-> pt.throttled \/ kind \in PriceKinds \cup {"MarketCap"}]

(* RenderDebug paints whatever is up and forgets most shadows. *)
PaintDebug(pt) ==
  [pt EXCEPT !.panels = [Mixed EXCEPT !.view = <<"Debug", NoCurrency>>],
             !.last = [f \in DOMAIN Sentinel |->
                         IF f \in {"MiningPoolEstimatedEarnings", "NwcBalance"}
                         THEN pt.last[f] ELSE Sentinel[f]]]

(* The panels before the first paint, mid-window of the price throttle or  *)
(* not.                                                                    *)
BootPaint(throttled) ==
  [panels |-> [Mixed EXCEPT !.view = <<"Boot", NoCurrency>>], last |-> Sentinel, throttled |-> throttled]

(* The panels show the current view with its current value; under a        *)
(* notification, whatever payload came with it.                            *)
ShowsCurrent(m, panels, snap, time, prefs) ==
  \/ SameFrame(panels, Frame(m, snap, time, prefs))
  \/ m.ota_active
  \/ m.debug_mode /\ panels.view[1] = "Debug"
=============================================================================
