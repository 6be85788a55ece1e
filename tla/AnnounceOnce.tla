--------------------------- MODULE AnnounceOnce -----------------------------
(***************************************************************************)
(* What the notification paths of the firmware promise, without their      *)
(* relays, tasks, queues and rings: an event that was published somewhere  *)
(* is announced on the device, once, or not at all, and nothing is         *)
(* announced that was not published.  NwcClient (payments) and ZapListener *)
(* (zap receipts) implement it.                                            *)
(***************************************************************************)
EXTENDS Naturals

CONSTANT Events

VARIABLES
  published,   \* the events that have happened
  times        \* [event -> how often it was announced]

vars == <<published, times>>

Init ==
  /\ published \in SUBSET Events
  /\ times = [e \in Events |-> 0]

Publish(e) ==
  /\ e \notin published
  /\ published' = published \cup {e}
  /\ UNCHANGED times

Announce(e) ==
  /\ e \in published
  /\ times[e] = 0
  /\ times' = [times EXCEPT ![e] = 1]
  /\ UNCHANGED published

Next == \E e \in Events : Publish(e) \/ Announce(e)

Spec == Init /\ [][Next]_vars
=============================================================================
