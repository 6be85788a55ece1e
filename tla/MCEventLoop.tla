---------------------------- MODULE MCEventLoop -----------------------------
(***************************************************************************)
(* TLC instance of EventLoop: a rotation of the block-height and the       *)
(* halving screen, which share a shadow, or of the block-height and a      *)
(* price screen, whose repaints wait for the throttle; heights 1, 2 and,   *)
(* beyond the catch-up threshold, 4.                                       *)
(***************************************************************************)
EXTENDS EventLoop

MCLists == {<<"USD">>}
Shared == <<0, 2>>
WithPrice == <<0, 11>>
MCPlans == [n \in 1 .. 1 |-> {Shared, WithPrice}]
NoJump == {}

Empty == EmptySnapshot({"USD"})
Heard(h) ==
  [Empty EXCEPT !.block_height = h, !.block_fee = 1, !.prices = [c \in {"USD"} |-> "1"]]
First == {Heard(1)}
Saved == {0, 1}
Heights == {[Empty EXCEPT !.block_height = h] : h \in {1, 2, 4}}
Priced == Heights \cup {[Empty EXCEPT !.prices = [c \in {"USD"} |-> "2"]]}

Plain == {[blockFeeDec |-> TRUE, look |-> "plain"]}
Looks == {[blockFeeDec |-> TRUE, look |-> l] : l \in {"plain", "suffix"}}
OneTime == {1}

Set(steal, show, runs) ==
  [stealFocus |-> steal, nwcShowNotify |-> show, restore |-> TRUE, timerRuns |-> runs]
StealOrNot == {Set(b, TRUE, TRUE) : b \in BOOLEAN}

(* Which tasks meet: two of them, or one that needs no other. *)
Meetings == {{"source", "nwc"}, {"source", "zap"}, {"zap", "nwc"}, {"source", "http"},
             {"source", "buttons"}, {"source", "ota"}, {"http", "zap"}, {"http", "ota"},
             {"buttons", "ota"}, {"settings"}}

(* Not every meeting under every setting and plan: a block that takes the  *)
(* screen meets a zap or the update overlay, a price behind the throttle   *)
(* meets a zap or a preference; the rest rotate the shared shadow and      *)
(* leave the screen where it is.                                           *)
Worlds ==
  /\ settings.stealFocus => actors \in {{"source", "zap"}, {"source", "ota"}}
  /\ sm.rotation_sequence = WithPrice =>
       /\ actors \cap {"zap", "settings"} # {}
       /\ "source" \in actors => settings.stealFocus
=============================================================================
