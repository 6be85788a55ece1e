------------------------ MODULE ScreenMethodsProofs ------------------------
(***************************************************************************)
(* Every method of the display state machine takes a good manager to a     *)
(* good one, for every set of currency lists, every plan the builder may   *)
(* return and every period and timeout: its fields have their types, at    *)
(* most one notification is latched, and the rotation cursor is in sync.   *)
(* The cursor is in sync only because the methods that move the slot       *)
(* recompute it from a well-typed plan.  And what a paint of a good        *)
(* manager leaves on the panels.  One lemma per helper, method or kind of  *)
(* paint; ScreenManagerProofs, PaintingProofs and EventLoopProofs cite     *)
(* them.                                                                   *)
(***************************************************************************)
EXTENDS ScreenPainting, WellFoundedInduction, SequenceTheorems, TLAPS

(* A good manager. *)
Good(m) == ScreenManagerTypeOK(m) /\ Exclusive(m) /\ InSync(m)

-----------------------------------------------------------------------------
(* Arithmetic of a cycle. *)

(* A remainder is an index of the cycle.                                   *)
LEMMA ModInRange ==
  ASSUME NEW x \in Int, NEW n \in Nat \ {0}
  PROVE  x % n \in 0 .. n - 1
  OBVIOUS

(* The code's scans return the first index that qualifies. *)
LEMMA LeastIsMinimal ==
  ASSUME NEW S \in SUBSET Nat, S # {}
  PROVE  Least(S) \in S /\ \A j \in S : Least(S) <= j
<1> DEFINE lt == {ss \in Nat \X Nat : ss[1] < ss[2]}
<1>1. IsWellFoundedOn(lt, Nat)
  BY NatLessThanWellFounded DEF OpToRel
<1>2. PICK k \in S : \A j \in S : <<j, k>> \notin lt
  BY <1>1, WFMin
<1>3. ASSUME NEW j \in S
      PROVE  k <= j
  <2>1. <<j, k>> \in Nat \X Nat /\ ~(<<j, k>>[1] < <<j, k>>[2])
    BY <1>2
  <2> QED
    BY <2>1
<1> QED
  BY <1>3 DEF Least

LEMMA LeastInSet ==
  ASSUME NEW S \in SUBSET Nat, S # {}
  PROVE  Least(S) \in S
  BY LeastIsMinimal

(* A walk over the cycle, in either direction and past whatever is         *)
(* skipped, ends on one of its indices (the modulo of AdvanceInSequence    *)
(* and AdvancePastSkipped).                                                *)
LEMMA WalkInRange ==
  ASSUME NEW n \in Nat \ {0}, NEW i \in 0 .. n - 1, NEW dir \in {1, -1}, NEW ok
  PROVE  Walk(i, dir, n, ok) \in 0 .. n - 1
<1> DEFINE hits == {k \in 0 .. n - 1 : (i + dir * k) % n \in ok}
<1>1. CASE hits = {}
  BY <1>1 DEF Walk
<1>2. CASE hits # {}
  <2>1. Least(hits) \in 0 .. n - 1
    <3>1. hits \in SUBSET Nat
      OBVIOUS
    <3> QED
      BY <1>2, <3>1, LeastInSet
  <2>2. i + dir * Least(hits) \in Int
    BY <2>1
  <2>3. Walk(i, dir, n, ok) = (i + dir * Least(hits)) % n
    BY <1>2 DEF Walk
  <2> QED
    BY <2>2, <2>3, ModInRange
<1> QED
  BY <1>1, <1>2

(* Every cycle has screens, and its length is a natural number, however    *)
(* many currencies are configured.                                         *)
LEMMA SlotCountIsPositive ==
  ASSUME NEW n \in Nat
  PROVE  SlotCount(n) \in Nat \ {0}
  BY DEF SlotCount, AgnosticSlots, PerCurrencySlots

-----------------------------------------------------------------------------
(* What the methods read of a well-typed manager. *)

(* What the type invariant says of the fields the steps below compute      *)
(* with.                                                                   *)
LEMMA FieldFacts ==
  ASSUME NEW m, FieldsOK(m)
  PROVE  /\ NumCurrencies(m) \in Nat
         /\ NumSlots(m) \in Nat \ {0}
         /\ m.slot \in 0 .. NumSlots(m) - 1
         /\ Len(m.rotation_sequence) \in Nat \ {0}
         /\ \A i \in 0 .. Len(m.rotation_sequence) - 1 :
              m.rotation_sequence[i + 1] \in Slots(NumCurrencies(m))
<1>1. NumCurrencies(m) \in Nat
  BY CurrencyListsAssumption DEF FieldsOK, Fields, NumCurrencies
<1>2. NumSlots(m) \in Nat \ {0}
  BY <1>1, SlotCountIsPositive DEF NumSlots
<1>3. m.slot \in 0 .. NumSlots(m) - 1
  BY <1>1 DEF FieldsOK, NumSlots, Slots
<1>4. Len(m.rotation_sequence) \in Nat \ {0}
  BY DEF FieldsOK
<1> QED
  BY <1>1, <1>2, <1>3, <1>4 DEF FieldsOK

(* The first index of a slot in the plan is an index of that slot. *)
LEMMA IndexForSlotFinds ==
  ASSUME NEW S, NEW seq \in Seq(S), NEW s
  PROVE  /\ IndexForSlot(seq, s) \in Nat
         /\ (\E i \in DOMAIN seq : seq[i] = s)
              => IndexForSlot(seq, s) < Len(seq) /\ seq[IndexForSlot(seq, s) + 1] = s
<1> DEFINE at == {i \in 0 .. Len(seq) - 1 : seq[i + 1] = s}
<1>1. CASE at = {}
  <2>1. IndexForSlot(seq, s) = Len(seq)
    BY <1>1 DEF IndexForSlot
  <2>2. ASSUME NEW i \in DOMAIN seq, seq[i] = s
        PROVE  FALSE
    <3>1. i - 1 \in at
      BY <2>2
    <3> QED
      BY <1>1, <3>1
  <2> QED
    BY <2>1, <2>2
<1>2. CASE at # {}
  <2>1. Least(at) \in at
    <3>1. at \in SUBSET Nat
      OBVIOUS
    <3> QED
      BY <1>2, <3>1, LeastInSet
  <2>2. IndexForSlot(seq, s) = Least(at)
    BY <1>2 DEF IndexForSlot
  <2> QED
    BY <2>1, <2>2
<1> QED
  BY <1>1, <1>2

(* Resynchronising the cursor repairs it whatever it was. *)
LEMMA SyncIndexGood ==
  ASSUME NEW m, FieldsOK(m), Exclusive(m)
  PROVE  Good(SyncIndex(m))
<1> DEFINE seq == m.rotation_sequence
           idx == IF IndexForSlot(seq, m.slot) < Len(seq)
                  THEN IndexForSlot(seq, m.slot) ELSE 0
<1>1. seq \in Seq(Slots(NumCurrencies(m)))
  BY DEF FieldsOK
<1>2. idx \in Nat /\ idx < Len(seq)
  BY <1>1, IndexForSlotFinds, FieldFacts
<1>3. SyncIndex(m) = [m EXCEPT !.rotation_idx = idx]
  BY DEF SyncIndex
<1>4. ScreenManagerTypeOK(SyncIndex(m))
  BY <1>2, <1>3 DEF ScreenManagerTypeOK, FieldsOK, Fields, NumCurrencies
<1>5. (\E i \in DOMAIN seq : seq[i] = m.slot) => seq[idx + 1] = m.slot
  BY <1>1, IndexForSlotFinds
<1>6. /\ SyncIndex(m).rotation_sequence = seq
      /\ SyncIndex(m).slot = m.slot
      /\ SyncIndex(m).rotation_idx = idx
      /\ Exclusive(SyncIndex(m))
  BY <1>3 DEF FieldsOK, Fields, Exclusive
<1> QED
  BY <1>4, <1>5, <1>6 DEF Good, InSync

(* Moving along the plan puts the slot under the cursor on screen. *)
LEMMA AdvanceGood ==
  ASSUME NEW m, ScreenManagerTypeOK(m), Exclusive(m), NEW dir \in {1, -1}, NEW skip
  PROVE  Good(AdvanceInSequence(m, dir, skip))
<1> DEFINE n == Len(m.rotation_sequence)
           idx == Walk(m.rotation_idx, dir, n, Visible(m, skip))
           s == m.rotation_sequence[idx + 1]
           there == [m EXCEPT !.rotation_idx = idx]
           moved == [there EXCEPT !.slot = s]
<1>1. /\ n \in Nat \ {0}
      /\ m.rotation_idx \in 0 .. n - 1
      /\ \A i \in 0 .. n - 1 : m.rotation_sequence[i + 1] \in Slots(NumCurrencies(m))
  BY FieldFacts DEF ScreenManagerTypeOK, FieldsOK, Fields
<1>2. idx \in 0 .. n - 1
  BY <1>1, WalkInRange
<1>3. AdvanceInSequence(m, dir, skip) = moved
  BY DEF AdvanceInSequence
<1>4. s \in Slots(NumCurrencies(m))
  BY <1>1, <1>2
<1>5. s \in Nat
  BY <1>4 DEF Slots
<1>6. idx \in Nat /\ idx < Len(m.rotation_sequence)
  BY <1>1, <1>2
<1> HIDE DEF idx, s
<1>7. /\ ScreenManagerTypeOK(there)
      /\ Exclusive(there)
      /\ NumCurrencies(there) = NumCurrencies(m)
      /\ there.rotation_sequence = m.rotation_sequence
      /\ there.rotation_idx = idx
  BY <1>6 DEF ScreenManagerTypeOK, FieldsOK, Fields, NumCurrencies, Exclusive
<1> HIDE DEF there
<1>8. ScreenManagerTypeOK(moved) /\ Exclusive(moved)
  BY <1>4, <1>5, <1>7 DEF ScreenManagerTypeOK, FieldsOK, Fields, NumCurrencies, Exclusive
<1>9. InSync(moved)
  BY <1>7 DEF ScreenManagerTypeOK, FieldsOK, Fields, InSync, s
<1> QED
  BY <1>3, <1>8, <1>9 DEF Good
-----------------------------------------------------------------------------
(* Methods that leave slot, plan and cursor alone: latches, flags, timers. *)

(* What is good stays good while slot, plan, cursor and currencies are     *)
(* left alone and no second notification is latched.                       *)
LEMMA FrameGood ==
  ASSUME NEW m, Good(m), NEW w \in Fields, Exclusive(w),
         w.currencies = m.currencies, w.slot = m.slot,
         w.rotation_sequence = m.rotation_sequence, w.rotation_idx = m.rotation_idx
  PROVE  Good(w)
  BY DEF Good, ScreenManagerTypeOK, FieldsOK, InSync, NumCurrencies

(* A good manager has its fields and holds one notification at most.       *)
LEMMA GoodFields ==
  ASSUME NEW m, Good(m)
  PROVE  m \in Fields /\ Exclusive(m)
  BY DEF Good, ScreenManagerTypeOK, FieldsOK

(* The fields outside FrameGood's four can be set, one at a time, to       *)
(* anything of their type.                                                 *)
LEMMA SetFlag ==
  ASSUME NEW m, Good(m), NEW v \in BOOLEAN
  PROVE  /\ Good([m EXCEPT !.custom_active = v])
         /\ Good([m EXCEPT !.zap_auto_restore = v])
         /\ Good([m EXCEPT !.nwc_notify_auto_restore = v])
         /\ Good([m EXCEPT !.debug_mode = v])
         /\ Good([m EXCEPT !.ota_active = v])
         /\ Good([m EXCEPT !.paused = v])
         /\ Good([m EXCEPT !.dirty = v])
         /\ Good([m EXCEPT !.screen_change_pending = v])
<1>1. m \in Fields
  BY GoodFields
<1>2. Good([m EXCEPT !.custom_active = v])
  <2> DEFINE w == [m EXCEPT !.custom_active = v]
  <2>1. w \in Fields
    BY <1>1 DEF Fields
  <2> QED
    BY <1>1, <2>1, GoodFields, FrameGood DEF Fields, Exclusive
<1>3. Good([m EXCEPT !.zap_auto_restore = v])
  <2> DEFINE w == [m EXCEPT !.zap_auto_restore = v]
  <2>1. w \in Fields
    BY <1>1 DEF Fields
  <2> QED
    BY <1>1, <2>1, GoodFields, FrameGood DEF Fields, Exclusive
<1>4. Good([m EXCEPT !.nwc_notify_auto_restore = v])
  <2> DEFINE w == [m EXCEPT !.nwc_notify_auto_restore = v]
  <2>1. w \in Fields
    BY <1>1 DEF Fields
  <2> QED
    BY <1>1, <2>1, GoodFields, FrameGood DEF Fields, Exclusive
<1>5. Good([m EXCEPT !.debug_mode = v])
  <2> DEFINE w == [m EXCEPT !.debug_mode = v]
  <2>1. w \in Fields
    BY <1>1 DEF Fields
  <2> QED
    BY <1>1, <2>1, GoodFields, FrameGood DEF Fields, Exclusive
<1>6. Good([m EXCEPT !.ota_active = v])
  <2> DEFINE w == [m EXCEPT !.ota_active = v]
  <2>1. w \in Fields
    BY <1>1 DEF Fields
  <2> QED
    BY <1>1, <2>1, GoodFields, FrameGood DEF Fields, Exclusive
<1>7. Good([m EXCEPT !.paused = v])
  <2> DEFINE w == [m EXCEPT !.paused = v]
  <2>1. w \in Fields
    BY <1>1 DEF Fields
  <2> QED
    BY <1>1, <2>1, GoodFields, FrameGood DEF Fields, Exclusive
<1>8. Good([m EXCEPT !.dirty = v])
  <2> DEFINE w == [m EXCEPT !.dirty = v]
  <2>1. w \in Fields
    BY <1>1 DEF Fields
  <2> QED
    BY <1>1, <2>1, GoodFields, FrameGood DEF Fields, Exclusive
<1>9. Good([m EXCEPT !.screen_change_pending = v])
  <2> DEFINE w == [m EXCEPT !.screen_change_pending = v]
  <2>1. w \in Fields
    BY <1>1 DEF Fields
  <2> QED
    BY <1>1, <2>1, GoodFields, FrameGood DEF Fields, Exclusive
<1> QED
  BY <1>2, <1>3, <1>4, <1>5, <1>6, <1>7, <1>8, <1>9

(* A timer is set to a value of its range. *)
LEMMA SetDeadline ==
  ASSUME NEW m, Good(m), NEW d \in -1 .. OverlayTimeout
  PROVE  /\ Good([m EXCEPT !.zap_left = d])
         /\ Good([m EXCEPT !.nwc_left = d])
<1>1. m \in Fields
  BY GoodFields
<1>2. Good([m EXCEPT !.zap_left = d])
  <2> DEFINE w == [m EXCEPT !.zap_left = d]
  <2>1. w \in Fields
    BY <1>1 DEF Fields
  <2> QED
    BY <1>1, <2>1, GoodFields, FrameGood DEF Fields, Exclusive
<1>3. Good([m EXCEPT !.nwc_left = d])
  <2> DEFINE w == [m EXCEPT !.nwc_left = d]
  <2>1. w \in Fields
    BY <1>1 DEF Fields
  <2> QED
    BY <1>1, <2>1, GoodFields, FrameGood DEF Fields, Exclusive
<1> QED
  BY <1>2, <1>3

(* The rotation clock may be set anywhere in its period (last_rot_us_ is   *)
(* re-anchored by every navigation).                                       *)
LEMMA SetRotAge ==
  ASSUME NEW m, Good(m), NEW v \in 0 .. RotatePeriod
  PROVE  Good([m EXCEPT !.rot_age = v])
<1> DEFINE w == [m EXCEPT !.rot_age = v]
<1>1. m \in Fields
  BY GoodFields
<1>2. w \in Fields
  BY <1>1 DEF Fields
<1> QED
  BY <1>1, <1>2, GoodFields, FrameGood DEF Fields, Exclusive

(* No deadline runs. *)
LEMMA RestingDeadline == -1 \in -1 .. OverlayTimeout
  BY TimeAssumption

(* A latch may be cleared, or set while the other one is clear. *)
LEMMA SetLatch ==
  ASSUME NEW m, Good(m)
  PROVE  /\ Good([m EXCEPT !.zap_active = FALSE])
         /\ Good([m EXCEPT !.nwc_notify_active = FALSE])
         /\ ~m.nwc_notify_active => Good([m EXCEPT !.zap_active = TRUE])
         /\ ~m.zap_active => Good([m EXCEPT !.nwc_notify_active = TRUE])
<1>1. m \in Fields
  BY GoodFields
<1>2. Good([m EXCEPT !.zap_active = FALSE])
  <2> DEFINE w == [m EXCEPT !.zap_active = FALSE]
  <2>1. w \in Fields
    BY <1>1 DEF Fields
  <2> QED
    BY <1>1, GoodFields, <2>1, FrameGood DEF Fields, Exclusive
<1>3. Good([m EXCEPT !.nwc_notify_active = FALSE])
  <2> DEFINE w == [m EXCEPT !.nwc_notify_active = FALSE]
  <2>1. w \in Fields
    BY <1>1 DEF Fields
  <2> QED
    BY <1>1, GoodFields, <2>1, FrameGood DEF Fields, Exclusive
<1>4. ASSUME ~m.nwc_notify_active
      PROVE  Good([m EXCEPT !.zap_active = TRUE])
  <2> DEFINE w == [m EXCEPT !.zap_active = TRUE]
  <2>1. w \in Fields
    BY <1>1 DEF Fields
  <2> QED
    BY <1>1, <1>4, <2>1, FrameGood DEF Fields, Exclusive
<1>5. ASSUME ~m.zap_active
      PROVE  Good([m EXCEPT !.nwc_notify_active = TRUE])
  <2> DEFINE w == [m EXCEPT !.nwc_notify_active = TRUE]
  <2>1. w \in Fields
    BY <1>1 DEF Fields
  <2> QED
    BY <1>1, <1>5, <2>1, FrameGood DEF Fields, Exclusive
<1> QED
  BY <1>2, <1>3, <1>4, <1>5

-----------------------------------------------------------------------------
(* Overlays going down and coming up. *)

(* Leaving the custom text touches neither the cursor nor a latch of a     *)
(* notification.                                                           *)
LEMMA ClearCustomGood ==
  ASSUME NEW m, Good(m)
  PROVE  Good(ClearCustom(m))
  BY SetFlag DEF ClearCustom

(* Dropping a zap resets latch, auto-restore and deadline, and frees the   *)
(* panels for a payment.                                                   *)
LEMMA ClearZapGood ==
  ASSUME NEW m, Good(m)
  PROVE  Good(ClearZap(m)) /\ ~ClearZap(m).zap_active
<1> DEFINE a == [m EXCEPT !.zap_active = FALSE]
           b == [a EXCEPT !.zap_auto_restore = TRUE]
           w == [b EXCEPT !.zap_left = -1]
<1>1. ClearZap(m) = w
  BY DEF ClearZap
<1>2. Good(a) /\ ~a.zap_active
  <2>1. Good(a)
    BY SetLatch
  <2>2. ~a.zap_active
    BY GoodFields DEF Fields
  <2> QED
    BY <2>1, <2>2
<1> HIDE DEF a
<1>3. Good(b) /\ ~b.zap_active
  <2>1. Good(b)
    BY <1>2, SetFlag
  <2>2. ~b.zap_active
    BY <1>2, GoodFields DEF Fields
  <2> QED
    BY <2>1, <2>2
<1> HIDE DEF b
<1>4. Good(w) /\ ~w.zap_active
  <2>1. Good(w)
    BY <1>3, SetDeadline, RestingDeadline
  <2>2. ~w.zap_active
    BY <1>3, GoodFields DEF Fields
  <2> QED
    BY <2>1, <2>2
<1> QED
  BY <1>1, <1>4

(* Dropping a payment resets latch, auto-restore and deadline, and frees   *)
(* the panels for a zap.                                                   *)
LEMMA ClearNwcGood ==
  ASSUME NEW m, Good(m)
  PROVE  Good(ClearNwc(m)) /\ ~ClearNwc(m).nwc_notify_active
<1> DEFINE a == [m EXCEPT !.nwc_notify_active = FALSE]
           b == [a EXCEPT !.nwc_notify_auto_restore = TRUE]
           w == [b EXCEPT !.nwc_left = -1]
<1>1. ClearNwc(m) = w
  BY DEF ClearNwc
<1>2. Good(a) /\ ~a.nwc_notify_active
  <2>1. Good(a)
    BY SetLatch
  <2>2. ~a.nwc_notify_active
    BY GoodFields DEF Fields
  <2> QED
    BY <2>1, <2>2
<1> HIDE DEF a
<1>3. Good(b) /\ ~b.nwc_notify_active
  <2>1. Good(b)
    BY <1>2, SetFlag
  <2>2. ~b.nwc_notify_active
    BY <1>2, GoodFields DEF Fields
  <2> QED
    BY <2>1, <2>2
<1> HIDE DEF b
<1>4. Good(w) /\ ~w.nwc_notify_active
  <2>1. Good(w)
    BY <1>3, SetDeadline, RestingDeadline
  <2>2. ~w.nwc_notify_active
    BY <1>3, GoodFields DEF Fields
  <2> QED
    BY <2>1, <2>2
<1> QED
  BY <1>1, <1>4

(* ClearOverlays, the three of them in turn.                               *)
LEMMA ClearOverlaysGood ==
  ASSUME NEW m, Good(m)
  PROVE  Good(ClearOverlays(m))
  BY ClearCustomGood, ClearZapGood, ClearNwcGood DEF ClearOverlays

(* Restarting the rotation clock is harmless.                              *)
LEMMA RestartGood ==
  ASSUME NEW m, Good(m)
  PROVE  Good(Restart(m))
<1>1. 0 \in 0 .. RotatePeriod
  BY TimeAssumption
<1> QED
  BY <1>1, SetRotAge DEF Restart

(* The tail every navigation shares: clock restarted, screen change        *)
(* pending.                                                                *)
LEMMA NavigatedGood ==
  ASSUME NEW m, Good(m)
  PROVE  Good(Navigated(m))
  BY SetFlag, RestartGood DEF Navigated

(* The custom text is put up over a manager whose notifications were       *)
(* dropped.                                                                *)
LEMMA CustomGood ==
  ASSUME NEW m, Good(m)
  PROVE  Good(SetCustomCells(m))
<1> DEFINE c == ClearZap(ClearNwc(m))
<1>1. Good(c)
  BY ClearZapGood, ClearNwcGood
<1>2. SetCustomCells(m) = Navigated([c EXCEPT !.custom_active = TRUE])
  BY DEF SetCustomCells
<1> HIDE DEF c
<1> QED
  BY <1>1, <1>2, SetFlag, NavigatedGood

(* A notification that has a timeout starts with a deadline in range; one  *)
(* that has none keeps the resting value.                                  *)
LEMMA DeadlineInRange ==
  ASSUME NEW restore \in BOOLEAN
  PROVE  Deadline(restore) \in -1 .. OverlayTimeout
  BY TimeAssumption DEF Deadline

(* SetZapNotify clears the payment before it latches the zap, so the two   *)
(* never stand together.                                                   *)
LEMMA ZapNotifyGood ==
  ASSUME NEW m, Good(m), NEW restore \in BOOLEAN
  PROVE  Good(SetZapNotify(m, restore))
<1> DEFINE c == ClearNwc(m)
           a == [c EXCEPT !.zap_active = TRUE]
           b == [a EXCEPT !.zap_auto_restore = restore]
           w == [b EXCEPT !.zap_left = Deadline(restore)]
<1>1. SetZapNotify(m, restore) = Navigated(w)
  BY DEF SetZapNotify
<1>2. Good(c) /\ ~c.nwc_notify_active
  BY ClearNwcGood
<1> HIDE DEF c
<1>3. Good(a)
  BY <1>2, SetLatch
<1> HIDE DEF a
<1>4. Good(b)
  BY <1>3, SetFlag
<1> HIDE DEF b
<1>5. Good(w)
  BY <1>4, SetDeadline, DeadlineInRange
<1> QED
  BY <1>1, <1>5, NavigatedGood

(* SetNwcPaymentNotify clears the zap before it latches the payment, so    *)
(* the two never stand together.                                           *)
LEMMA NwcPaymentNotifyGood ==
  ASSUME NEW m, Good(m), NEW restore \in BOOLEAN
  PROVE  Good(SetNwcPaymentNotify(m, restore))
<1> DEFINE c == ClearZap(m)
           a == [c EXCEPT !.nwc_notify_active = TRUE]
           b == [a EXCEPT !.nwc_notify_auto_restore = restore]
           w == [b EXCEPT !.nwc_left = Deadline(restore)]
<1>1. SetNwcPaymentNotify(m, restore) = Navigated(w)
  BY DEF SetNwcPaymentNotify
<1>2. Good(c) /\ ~c.zap_active
  BY ClearZapGood
<1> HIDE DEF c
<1>3. Good(a)
  BY <1>2, SetLatch
<1> HIDE DEF a
<1>4. Good(b)
  BY <1>3, SetFlag
<1> HIDE DEF b
<1>5. Good(w)
  BY <1>4, SetDeadline, DeadlineInRange
<1> QED
  BY <1>1, <1>5, NavigatedGood

-----------------------------------------------------------------------------
(* Methods that move the slot. *)

(* SetSlot needs no cursor to start from: it is what boot ends with. *)
LEMMA SetSlotGood ==
  ASSUME NEW m, FieldsOK(m), Exclusive(m), NEW s \in Int
  PROVE  Good(SetSlot(m, s))
<1> DEFINE to == s % NumSlots(m)
           w == [m EXCEPT !.slot = to]
<1>1. to \in 0 .. NumSlots(m) - 1
  BY FieldFacts, ModInRange
<1>2. to \in Slots(NumCurrencies(m)) /\ to \in Nat
  BY <1>1, FieldFacts DEF Slots, NumSlots
<1>3. SetSlot(m, s) = Navigated(ClearOverlays(SyncIndex(w)))
  BY DEF SetSlot
<1> HIDE DEF to
<1>4. FieldsOK(w)
  BY <1>2 DEF FieldsOK, Fields, NumCurrencies
<1>5. Exclusive(w)
  BY DEF FieldsOK, Fields, Exclusive
<1> HIDE DEF w
<1> QED
  BY <1>3, <1>4, <1>5, SyncIndexGood, ClearOverlaysGood, NavigatedGood

(* A good manager, taken apart: what SetSlotGood asks for and more.        *)
LEMMA GoodParts ==
  ASSUME NEW m, Good(m)
  PROVE  FieldsOK(m) /\ Exclusive(m) /\ ScreenManagerTypeOK(m)
  BY DEF Good, ScreenManagerTypeOK

(* SetKind lands on the first slot of the kind and finds the cursor again. *)
LEMMA SetKindGood ==
  ASSUME NEW m, Good(m), NEW kind
  PROVE  Good(SetKind(m, kind))
<1> DEFINE S == SlotsOfKind(m, kind)
<1>1. CASE S = {}
  BY <1>1 DEF SetKind
<1>2. CASE S # {}
  <2>1. S \in SUBSET Nat
    BY DEF SlotsOfKind, Slots
  <2>2. Least(S) \in Int
    BY <1>2, <2>1, LeastInSet
  <2>3. SetKind(m, kind) = SetSlot(m, Least(S))
    BY <1>2 DEF SetKind
  <2> QED
    BY <2>2, <2>3, GoodParts, SetSlotGood
<1> QED
  BY <1>1, <1>2

(* SetCurrency transposes the slot inside the cycle and finds the cursor   *)
(* again.                                                                  *)
LEMMA SetCurrencyGood ==
  ASSUME NEW m, Good(m), NEW ccy
  PROVE  Good(SetCurrency(m, ccy))
<1> DEFINE at == {i \in DOMAIN m.currencies : m.currencies[i] = ccy}
           to == TransposeSlotToCurrency(m.slot, Least(at) - 1, NumCurrencies(m))
<1>1. CASE at = {}
  BY <1>1 DEF SetCurrency
<1>2. CASE at # {}
  <2>1. at \in SUBSET Nat
    BY GoodFields, CurrencyListsAssumption DEF Fields
  <2>2. Least(at) \in Nat
    BY <1>2, <2>1, LeastInSet
  <2>3. m.slot \in Nat
    BY GoodFields DEF Fields
  <2>4. Offset(m.slot) \in Int
    BY <2>3 DEF Offset, AgnosticSlots, PerCurrencySlots
  <2>5. to \in Int
    BY <2>2, <2>4 DEF TransposeSlotToCurrency, AgnosticSlots, PerCurrencySlots
  <2>6. SetCurrency(m, ccy) = SetSlot(m, to)
    BY <1>2 DEF SetCurrency
  <2> QED
    BY <2>5, <2>6, GoodParts, SetSlotGood
<1> QED
  BY <1>1, <1>2

(* One step along the plan, over the skipped screens, keeps the cursor on  *)
(* the slot.                                                               *)
LEMMA StepPlanGood ==
  ASSUME NEW m, Good(m), NEW dir \in {1, -1}, NEW leaving \in BOOLEAN, NEW skip
  PROVE  Good(StepPlan(m, dir, leaving, skip))
<1> DEFINE n == Len(m.rotation_sequence)
           idx == (m.rotation_idx + dir) % n
           w == [m EXCEPT !.rotation_idx = idx]
<1>1. CASE leaving
  BY <1>1, GoodParts, AdvanceGood DEF StepPlan
<1>2. CASE ~leaving
  <2>1. n \in Nat \ {0} /\ m.rotation_idx \in Nat
    BY GoodParts, FieldFacts, GoodFields DEF Fields
  <2>2. idx \in 0 .. n - 1
    <3>1. m.rotation_idx + dir \in Int
      BY <2>1
    <3> QED
      BY <2>1, <3>1, ModInRange
  <2>3. idx \in Nat /\ idx < Len(m.rotation_sequence)
    BY <2>1, <2>2
  <2>4. StepPlan(m, dir, leaving, skip) = AdvanceInSequence(w, dir, skip)
    BY <1>2 DEF StepPlan
  <2> HIDE DEF idx
  <2> HIDE DEF n
  <2>5. ScreenManagerTypeOK(w)
    <3>1. ScreenManagerTypeOK(m)
      BY GoodParts
    <3> QED
      BY <2>3, <3>1 DEF ScreenManagerTypeOK, FieldsOK, Fields, NumCurrencies
  <2>6. Exclusive(w)
    BY GoodFields DEF Fields, Exclusive
  <2> QED
    BY <2>4, <2>5, <2>6, AdvanceGood
<1> QED
  BY <1>1, <1>2

(* NextScreen and PrevScreen, whichever overlay they leave.                *)
LEMMA NextScreenGood ==
  ASSUME NEW m, Good(m), NEW skip
  PROVE  Good(NextScreen(m, skip)) /\ Good(PrevScreen(m, skip))
<1>1. OverlayUp(m) \in BOOLEAN
  BY GoodFields DEF Fields, OverlayUp
<1> QED
  BY <1>1, ClearOverlaysGood, StepPlanGood, NavigatedGood DEF NextScreen, PrevScreen

(* MaybeAutoRotate: an expired notification, a restored screen or a step   *)
(* of the plan.                                                            *)
LEMMA AutoRotateGood ==
  ASSUME NEW m, Good(m), NEW skip
  PROVE  Good(MaybeAutoRotate(m, skip))
<1>1. m.custom_active \in BOOLEAN
  BY GoodFields DEF Fields
<1>2. Good(Navigated(StepPlan(ClearCustom(m), 1, m.custom_active, skip)))
  BY <1>1, ClearCustomGood, StepPlanGood, NavigatedGood
<1>3. Good(Navigated(ClearNwc(m))) /\ Good(Navigated(ClearZap(m)))
  BY ClearNwcGood, ClearZapGood, NavigatedGood
<1> QED
  BY <1>2, <1>3 DEF MaybeAutoRotate

(* A rebuild replaces list, slot and plan together. *)
LEMMA RebuildGood ==
  ASSUME NEW m, Good(m), NEW list \in CurrencyLists, NEW plan \in Plans[Len(list)]
  PROVE  Good(SetRotationSequence(SetCurrencies(m, list), plan))
<1> DEFINE n == SlotCount(Len(list))
           at == {i \in DOMAIN list : list[i] = current_currency(m)}
           after == AgnosticSlots + PerCurrencySlots * (Least(at) - 1) + Offset(m.slot)
           to == IF IsFeeRateSlot(m.slot, NumCurrencies(m)) THEN n - 1
                 ELSE IF m.slot < AgnosticSlots THEN m.slot
                 ELSE IF m.slot >= n \/ at = {} THEN 0
                 ELSE after
           a == [m EXCEPT !.currencies = list]
           b == [a EXCEPT !.slot = to]
           w == [b EXCEPT !.rotation_sequence = plan]
<1>1. Len(list) \in Nat \ {0} /\ n \in Nat \ {0} /\ m.slot \in Nat
  <2>1. Len(list) \in Nat \ {0}
    BY CurrencyListsAssumption
  <2> QED
    BY <2>1, SlotCountIsPositive, GoodFields DEF Fields
<1>2. ASSUME at # {}
      PROVE  after \in 0 .. n - 1
  <2>1. at \in SUBSET Nat
    BY CurrencyListsAssumption
  <2>2. Least(at) \in 1 .. Len(list)
    <3>1. Least(at) \in at
      BY <1>2, <2>1, LeastInSet
    <3> QED
      BY <3>1, CurrencyListsAssumption
  <2>3. Offset(m.slot) \in 0 .. 2
    BY <1>1 DEF Offset, AgnosticSlots, PerCurrencySlots
  <2> QED
    BY <1>1, <2>2, <2>3 DEF AgnosticSlots, PerCurrencySlots, SlotCount
<1>3. to \in 0 .. n - 1
  <2>1. AgnosticSlots \in Nat /\ AgnosticSlots <= n
    BY <1>1 DEF AgnosticSlots, PerCurrencySlots, SlotCount
  <2> HIDE DEF n, after, at
  <2> QED
    BY <1>1, <1>2, <2>1
<1>4. to \in Nat /\ to \in Slots(Len(list))
  BY <1>1, <1>3 DEF Slots
<1>5. plan \in Seq(Slots(Len(list))) /\ Len(plan) > 0
  BY PlansAssumption
<1>6. plan \in Seq(Nat)
  <2>1. Slots(Len(list)) \subseteq Nat
    BY DEF Slots
  <2> QED
    BY <1>5, <2>1, SeqMonotonic
<1>7. SetRotationSequence(SetCurrencies(m, list), plan) = SyncIndex(w)
  <2>1. list # <<>>
    BY <1>1
  <2>2. SetCurrencies(m, list) = b
    BY <2>1 DEF SetCurrencies
  <2> QED
    BY <2>2 DEF SetRotationSequence
<1> HIDE DEF to
<1>8. a \in Fields /\ a.currencies = list
  BY GoodFields DEF Fields
<1>9. Exclusive(a)
  BY GoodFields DEF Fields, Exclusive
<1> HIDE DEF a
<1>10. b \in Fields /\ b.slot = to /\ b.currencies = list
  BY <1>4, <1>8 DEF Fields
<1>11. Exclusive(b)
  BY <1>8, <1>9 DEF Fields, Exclusive
<1> HIDE DEF b
<1>12. w \in Fields /\ w.slot = to /\ w.currencies = list /\ w.rotation_sequence = plan
  BY <1>6, <1>10 DEF Fields
<1>13. Exclusive(w)
  BY <1>10, <1>11 DEF Fields, Exclusive
<1> HIDE DEF w
<1>14. FieldsOK(w)
  BY <1>4, <1>5, <1>12 DEF FieldsOK, NumCurrencies
<1> QED
  BY <1>7, <1>13, <1>14, SyncIndexGood

-----------------------------------------------------------------------------
(* Flags and the clock. *)

(* The methods that only raise or lower flags.                             *)
LEMMA FlagMethodsGood ==
  ASSUME NEW m, Good(m)
  PROVE  /\ Good(TogglePaused(m))
         /\ Good(MarkDirty(m))
         /\ Good(SetOtaOverlay(m))
         /\ Good(ToggleDebug(m))
         /\ Good(RenderDebug(m))
         /\ Good(Render(m))
<1>1. Good(TogglePaused(m))
  <2>1. (~m.paused) \in BOOLEAN
    BY GoodFields DEF Fields
  <2> QED
    BY <2>1, SetFlag DEF TogglePaused
<1>2. Good(MarkDirty(m)) /\ Good(SetOtaOverlay(m)) /\ Good(RenderDebug(m))
  BY SetFlag DEF MarkDirty, SetOtaOverlay, RenderDebug
<1>3. Good(ToggleDebug(m))
  <2> DEFINE a == [m EXCEPT !.debug_mode = FALSE]
             b == [a EXCEPT !.dirty = TRUE]
  <2>1. Good(a)
    BY SetFlag
  <2>2. [m EXCEPT !.debug_mode = FALSE, !.dirty = TRUE] = b
    OBVIOUS
  <2> HIDE DEF a
  <2>3. Good(Restart(b))
    BY <2>1, SetFlag, RestartGood
  <2> QED
    BY <2>2, <2>3, SetFlag DEF ToggleDebug
<1>4. Good(Render(m))
  <2> DEFINE a == [m EXCEPT !.dirty = FALSE]
             b == [a EXCEPT !.screen_change_pending = FALSE]
  <2>1. Good(a)
    BY SetFlag
  <2>2. [m EXCEPT !.dirty = FALSE, !.screen_change_pending = FALSE] = b
    OBVIOUS
  <2> HIDE DEF a
  <2>3. Good(b)
    BY <2>1, SetFlag
  <2> QED
    BY <2>2, <2>3 DEF Render
<1> QED
  BY <1>1, <1>2, <1>3, <1>4

(* Time passing ages the deadline and the rotation clock and nothing else. *)
LEMMA AgeGood ==
  ASSUME NEW m, Good(m)
  PROVE  Good(Age(m))
<1> DEFINE age == IF m.rot_age < RotatePeriod THEN m.rot_age + 1 ELSE m.rot_age
           zap == IF m.zap_left < 0 THEN m.zap_left ELSE m.zap_left - 1
           nwc == IF m.nwc_left < 0 THEN m.nwc_left ELSE m.nwc_left - 1
           a == [m EXCEPT !.rot_age = age]
           b == [a EXCEPT !.zap_left = zap]
           w == [b EXCEPT !.nwc_left = nwc]
<1>1. /\ m.rot_age \in 0 .. RotatePeriod
      /\ m.zap_left \in -1 .. OverlayTimeout
      /\ m.nwc_left \in -1 .. OverlayTimeout
  BY GoodFields DEF Fields
<1>2. age \in 0 .. RotatePeriod
  BY <1>1, TimeAssumption
<1>3. zap \in -1 .. OverlayTimeout /\ nwc \in -1 .. OverlayTimeout
  BY <1>1, TimeAssumption
<1>4. Age(m) = w
  BY DEF Age
<1> HIDE DEF age, zap, nwc
<1>5. Good(a)
  BY <1>2, SetRotAge
<1> HIDE DEF a
<1>6. Good(b)
  BY <1>3, <1>5, SetDeadline
<1> HIDE DEF b
<1>7. Good(w)
  BY <1>3, <1>6, SetDeadline
<1> QED
  BY <1>4, <1>7

-----------------------------------------------------------------------------
(* The constructor. *)

(* Boot ends with a jump, from a good manager without the debug overlay.   *)
LEMMA BootJumps ==
  ASSUME NEW list \in CurrencyLists, NEW plan \in Plans[Len(list)],
         NEW saved \in JumpSlots \cup {NoSlot}, NEW isPaused \in BOOLEAN
  PROVE  \E b : /\ Good(b) /\ ~b.debug_mode
                /\ \E to \in Int : BootScreenManager(list, plan, saved, isPaused) = SetSlot(b, to)
<1> DEFINE fresh == [currencies |-> list, slot |-> 0,
                     rotation_sequence |-> plan, rotation_idx |-> 0,
                     custom_active |-> FALSE,
                     zap_active |-> FALSE, zap_auto_restore |-> TRUE, zap_left |-> -1,
                     nwc_notify_active |-> FALSE, nwc_notify_auto_restore |-> TRUE,
                     nwc_left |-> -1,
                     debug_mode |-> FALSE, ota_active |-> FALSE, paused |-> isPaused,
                     rot_age |-> 0, dirty |-> TRUE, screen_change_pending |-> FALSE]
           w == [fresh EXCEPT !.rotation_sequence = plan]
           resume == ResumeSlot(saved, Len(list), plan)
<1>1. Len(list) \in Nat \ {0} /\ SlotCount(Len(list)) \in Nat \ {0}
  <2>1. Len(list) \in Nat \ {0}
    BY CurrencyListsAssumption
  <2> QED
    BY <2>1, SlotCountIsPositive
<1>2. plan \in Seq(Slots(Len(list))) /\ Len(plan) > 0
  BY PlansAssumption
<1>3. plan \in Seq(Nat)
  <2>1. Slots(Len(list)) \subseteq Nat
    BY DEF Slots
  <2> QED
    BY <1>2, <2>1, SeqMonotonic
<1>4. resume \in Int
  <2>1. saved \in Int
    BY JumpSlotsAssumption DEF NoSlot
  <2>2. Head(plan) \in Int
    BY <1>2, <1>3
  <2> QED
    BY <2>1, <2>2 DEF ResumeSlot, NoSlot
<1>5. fresh \in Fields
  BY <1>3, TimeAssumption DEF Fields
<1>6. /\ fresh.currencies = list
      /\ fresh.slot = 0
      /\ fresh.rotation_sequence = plan
      /\ Exclusive(fresh) /\ ~fresh.debug_mode
  BY DEF Exclusive
<1>7. BootScreenManager(list, plan, saved, isPaused) = SetSlot(SyncIndex(w), resume)
  BY DEF BootScreenManager, SetRotationSequence
<1> HIDE DEF fresh, resume
<1>8. w \in Fields /\ w.currencies = list /\ w.slot = 0 /\ w.rotation_sequence = plan
  BY <1>5, <1>6 DEF Fields
<1>9. Exclusive(w) /\ ~w.debug_mode
  BY <1>5, <1>6 DEF Fields, Exclusive
<1> HIDE DEF w
<1>10. FieldsOK(w)
  <2>1. 0 \in Slots(Len(list))
    BY <1>1 DEF Slots
  <2> QED
    BY <1>2, <1>8, <2>1 DEF FieldsOK, NumCurrencies
<1>11. Good(SyncIndex(w))
  BY <1>9, <1>10, SyncIndexGood
<1>12. ~SyncIndex(w).debug_mode
  BY <1>8, <1>9 DEF SyncIndex, Fields
<1> QED
  BY <1>4, <1>7, <1>11, <1>12

(* The manager that app_main builds and configures is good.                *)
LEMMA BootGood ==
  ASSUME NEW list \in CurrencyLists, NEW plan \in Plans[Len(list)],
         NEW saved \in JumpSlots \cup {NoSlot}, NEW isPaused \in BOOLEAN
  PROVE  Good(BootScreenManager(list, plan, saved, isPaused))
  BY BootJumps, GoodParts, SetSlotGood

-----------------------------------------------------------------------------
(* Every change of screen asks for a repaint. *)

LEMMA NavigatedAsks ==
  ASSUME NEW m, Good(m)
  PROVE  Navigated(m).screen_change_pending
<1>1. m \in Fields
  BY GoodFields
<1> QED BY <1>1 DEF Navigated, Restart, Fields

LEMMA SetSlotAsks ==
  ASSUME NEW m, Good(m), NEW s \in Int
  PROVE  SetSlot(m, s).screen_change_pending
<1> DEFINE to == s % NumSlots(m)
           w == [m EXCEPT !.slot = to]
<1>1. to \in Slots(NumCurrencies(m)) /\ to \in Nat
  <2>1. FieldsOK(m) /\ NumSlots(m) \in Nat \ {0}
    BY GoodParts, FieldFacts
  <2>2. to \in 0 .. NumSlots(m) - 1
    BY <2>1, ModInRange
  <2> QED BY <2>1, <2>2 DEF Slots, NumSlots
<1> HIDE DEF to
<1>2. FieldsOK(w) /\ Exclusive(w)
  <2>1. m \in Fields /\ FieldsOK(m) /\ Exclusive(m)
    BY GoodParts DEF FieldsOK
  <2>2. w \in Fields
    BY <1>1, <2>1 DEF Fields
  <2>3. /\ w.currencies = m.currencies /\ w.slot = to
        /\ w.rotation_sequence = m.rotation_sequence
        /\ w.zap_active = m.zap_active /\ w.nwc_notify_active = m.nwc_notify_active
    BY <2>1 DEF Fields
  <2> QED BY <1>1, <2>1, <2>2, <2>3 DEF FieldsOK, NumCurrencies, Exclusive
<1> HIDE DEF w
<1>3. Good(ClearOverlays(SyncIndex(w)))
  BY <1>2, SyncIndexGood, ClearOverlaysGood
<1> QED BY <1>3, NavigatedAsks DEF SetSlot, w, to

LEMMA StepsAsk ==
  ASSUME NEW m, Good(m), NEW skip
  PROVE  /\ NextScreen(m, skip).screen_change_pending
         /\ PrevScreen(m, skip).screen_change_pending
         /\ MaybeAutoRotate(m, skip) = m \/ MaybeAutoRotate(m, skip).screen_change_pending
<1>1. OverlayUp(m) \in BOOLEAN /\ m.custom_active \in BOOLEAN
  BY GoodFields DEF Fields, OverlayUp
<1>2. /\ Good(StepPlan(ClearOverlays(m), 1, OverlayUp(m), skip))
      /\ Good(StepPlan(ClearOverlays(m), -1, OverlayUp(m), skip))
      /\ Good(StepPlan(ClearCustom(m), 1, m.custom_active, skip))
  BY <1>1, ClearOverlaysGood, ClearCustomGood, StepPlanGood
<1>3. Good(ClearNwc(m)) /\ Good(ClearZap(m))
  BY ClearNwcGood, ClearZapGood
<1> QED BY <1>2, <1>3, NavigatedAsks DEF NextScreen, PrevScreen, MaybeAutoRotate

LEMMA NotificationsAsk ==
  ASSUME NEW m, Good(m), NEW restore \in BOOLEAN
  PROVE  /\ SetCustomCells(m).screen_change_pending
         /\ SetZapNotify(m, restore).screen_change_pending
         /\ SetNwcPaymentNotify(m, restore).screen_change_pending
<1>1. ClearNwc(m) \in Fields /\ ClearZap(m) \in Fields /\ ClearZap(ClearNwc(m)) \in Fields
  BY ClearNwcGood, ClearZapGood, GoodFields
<1>2. SetCustomCells(m).screen_change_pending
  BY <1>1 DEF SetCustomCells, Navigated, Restart, Fields
<1>3. SetZapNotify(m, restore).screen_change_pending
  BY <1>1 DEF SetZapNotify, Navigated, Restart, Fields
<1>4. SetNwcPaymentNotify(m, restore).screen_change_pending
  BY <1>1 DEF SetNwcPaymentNotify, Navigated, Restart, Fields
<1> QED BY <1>2, <1>3, <1>4

-----------------------------------------------------------------------------
(* The update latch and the debug latch are nobody else's to change. *)

SameModes(m, w) == w.ota_active = m.ota_active /\ w.debug_mode = m.debug_mode

LEMMA NavigatedKeepsModes ==
  ASSUME NEW m, Good(m)
  PROVE  SameModes(m, Navigated(m)) /\ SameModes(m, Restart(m))
<1>1. m \in Fields
  BY GoodFields
<1> QED BY <1>1 DEF SameModes, Navigated, Restart, Fields

LEMMA ClearKeepsModes ==
  ASSUME NEW m, Good(m)
  PROVE  /\ SameModes(m, ClearCustom(m))
         /\ SameModes(m, ClearZap(m))
         /\ SameModes(m, ClearNwc(m))
         /\ SameModes(m, ClearOverlays(m))
<1>1. \A w : Good(w) => /\ SameModes(w, ClearCustom(w))
                        /\ SameModes(w, ClearZap(w))
                        /\ SameModes(w, ClearNwc(w))
  BY GoodFields DEF SameModes, ClearCustom, ClearZap, ClearNwc, Fields
<1>2. Good(ClearNwc(m)) /\ Good(ClearZap(ClearNwc(m)))
  BY ClearNwcGood, ClearZapGood
<1> QED BY <1>1, <1>2 DEF ClearOverlays, SameModes

LEMMA StepPlanKeepsModes ==
  ASSUME NEW m, Good(m), NEW dir, NEW leaving, NEW skip
  PROVE  SameModes(m, StepPlan(m, dir, leaving, skip))
<1>1. m \in Fields
  BY GoodFields
<1> QED BY <1>1 DEF SameModes, StepPlan, AdvanceInSequence, Fields

LEMMA NextScreenKeepsModes ==
  ASSUME NEW m, Good(m), NEW skip
  PROVE  SameModes(m, NextScreen(m, skip))
<1> DEFINE w == ClearOverlays(m)
           n == StepPlan(w, 1, OverlayUp(m), skip)
<1>1. Good(w) /\ SameModes(m, w)
  BY ClearOverlaysGood, ClearKeepsModes
<1>2. OverlayUp(m) \in BOOLEAN
  BY GoodFields DEF Fields, OverlayUp
<1> HIDE DEF w
<1>3. Good(n) /\ SameModes(w, n)
  BY <1>1, <1>2, StepPlanGood, StepPlanKeepsModes
<1> HIDE DEF n
<1>4. SameModes(m, Navigated(n))
  BY <1>1, <1>3, NavigatedKeepsModes DEF SameModes
<1> QED BY <1>4 DEF NextScreen, n, w

LEMMA SetSlotKeepsModes ==
  ASSUME NEW m, Good(m), NEW s \in Int
  PROVE  SameModes(m, SetSlot(m, s))
<1> DEFINE to == s % NumSlots(m)
           a == [m EXCEPT !.slot = to]
           b == SyncIndex(a)
<1>1. to \in Slots(NumCurrencies(m)) /\ to \in Nat
  <2>1. FieldsOK(m) /\ NumSlots(m) \in Nat \ {0}
    BY GoodParts, FieldFacts
  <2>2. to \in 0 .. NumSlots(m) - 1
    BY <2>1, ModInRange
  <2> QED BY <2>1, <2>2 DEF Slots, NumSlots
<1> HIDE DEF to
<1>2. a \in Fields /\ FieldsOK(a) /\ Exclusive(a) /\ SameModes(m, a)
  <2>1. m \in Fields /\ FieldsOK(m) /\ Exclusive(m)
    BY GoodParts, GoodFields
  <2>2. FieldsOK(a)
    BY <1>1, <2>1 DEF Fields, FieldsOK, NumCurrencies
  <2>3. Exclusive(a) /\ SameModes(m, a)
    BY <2>1 DEF Fields, Exclusive, SameModes
  <2> QED BY <2>2, <2>3 DEF FieldsOK
<1> HIDE DEF a
<1>3. Good(b) /\ SameModes(a, b)
  BY <1>2, SyncIndexGood DEF SyncIndex, Fields, SameModes
<1> HIDE DEF b
<1>4. SameModes(m, Navigated(ClearOverlays(b)))
  BY <1>2, <1>3, ClearOverlaysGood, ClearKeepsModes, NavigatedKeepsModes DEF SameModes
<1> QED BY <1>4 DEF SetSlot, a, b, to

LEMMA BootAsks ==
  ASSUME NEW list \in CurrencyLists, NEW plan \in Plans[Len(list)],
         NEW saved \in JumpSlots \cup {NoSlot}, NEW isPaused \in BOOLEAN
  PROVE  /\ BootScreenManager(list, plan, saved, isPaused).screen_change_pending
         /\ ~BootScreenManager(list, plan, saved, isPaused).debug_mode
  BY BootJumps, SetSlotAsks, SetSlotKeepsModes DEF SameModes

LEMMA NotifyKeepsModes ==
  ASSUME NEW m, Good(m), NEW restore \in BOOLEAN
  PROVE  /\ SameModes(m, SetCustomCells(m))
         /\ SameModes(m, SetZapNotify(m, restore))
         /\ SameModes(m, SetNwcPaymentNotify(m, restore))
<1>1. /\ ClearNwc(m) \in Fields /\ SameModes(m, ClearNwc(m))
      /\ ClearZap(m) \in Fields /\ SameModes(m, ClearZap(m))
      /\ ClearZap(ClearNwc(m)) \in Fields /\ SameModes(m, ClearZap(ClearNwc(m)))
  BY ClearNwcGood, ClearZapGood, ClearKeepsModes, GoodFields DEF SameModes
<1>2. SameModes(m, SetCustomCells(m))
  BY <1>1 DEF SameModes, SetCustomCells, Navigated, Restart, Fields
<1>3. SameModes(m, SetZapNotify(m, restore))
  BY <1>1 DEF SameModes, SetZapNotify, Navigated, Restart, Fields
<1>4. SameModes(m, SetNwcPaymentNotify(m, restore))
  BY <1>1 DEF SameModes, SetNwcPaymentNotify, Navigated, Restart, Fields
<1> QED BY <1>2, <1>3, <1>4

-----------------------------------------------------------------------------
(* What the panels show of a good manager.  The values of the screens and  *)
(* the shadows they are kept in, the hub's, and what a paint leaves: the   *)
(* screen it is for, with the value of the moment in the screen's shadow.  *)

(* The panels, the shadows and the throttle.                               *)
Painted(p) == p = [panels |-> p.panels, last |-> p.last, throttled |-> p.throttled]

(* The arms of Value are disjoint. *)
LEMMA Values ==
  ASSUME NEW m, NEW s, NEW t, NEW f
  PROVE  /\ current_kind(m) \in HeightKinds =>
              Value(m, s, t, f) = IF s.block_height = 0 THEN Nothing ELSE <<s.block_height>>
         /\ current_kind(m) \in {"NostrZap", "NwcPaymentNotify", "Custom"} =>
              Value(m, s, t, f) = <<"overlay">>
<1>1. CASE current_kind(m) \in HeightKinds
  BY <1>1 DEF Value, HeightKinds, PriceKinds
<1>2. CASE current_kind(m) \in {"NostrZap", "NwcPaymentNotify", "Custom"}
  BY <1>2 DEF Value, HeightKinds, PriceKinds
<1> QED BY <1>1, <1>2 DEF HeightKinds

(* What a slot may show, and what may be latched over it.                  *)
SlotKinds ==
  {"BlockHeight", "Clock", "Halving", "BitcoinSupply",
   "MiningPoolHashrate", "MiningPoolEarnings", "MiningPoolEstimatedEarnings",
   "BitaxeHashrate", "BitaxeBestDiff", "NwcBalance",
   "MoscowTime", "BtcPrice", "MarketCap", "BlockFeeRate"}

NotificationKinds == {"NostrZap", "NwcPaymentNotify", "Custom"}

(* A currency screen has a currency, and no slot shows an overlay.         *)
LEMMA SlotShows ==
  ASSUME NEW m, Good(m)
  PROVE  /\ SlotKind(m) \in SlotKinds
         /\ SlotKind(m) \in PriceKinds \cup {"MarketCap"} =>
              \E i \in DOMAIN m.currencies : current_currency(m) = m.currencies[i]
<1> DEFINE n == NumCurrencies(m)
           s == m.slot
<1>1. /\ n \in Nat /\ s \in Nat /\ s < SlotCount(n) /\ n = Len(m.currencies)
      /\ m.currencies \in Seq(STRING)
  <2>1. m \in Fields /\ FieldsOK(m) /\ n \in Nat
    BY GoodParts, GoodFields, FieldFacts
  <2> QED BY <2>1, CurrencyListsAssumption
          DEF FieldsOK, Fields, Slots, SlotCount, AgnosticSlots, PerCurrencySlots, NumCurrencies
<1>2. CASE IsFeeRateSlot(s, n)
  <2>1. SlotKind(m) = "BlockFeeRate"
    <3>1. ~(s < AgnosticSlots)
      BY <1>1, <1>2 DEF IsFeeRateSlot, SlotCount, AgnosticSlots, PerCurrencySlots
    <3> QED BY <1>2, <3>1 DEF SlotKind, KindForSlot, FeeRateKind
  <2> QED BY <2>1 DEF SlotKinds, PriceKinds
<1>3. CASE ~IsFeeRateSlot(s, n) /\ s < AgnosticSlots
  <2>1. SlotKind(m) = AgnosticKind[s]
    BY <1>3 DEF SlotKind, KindForSlot
  <2>2. AgnosticKind[s] \in SlotKinds \ (PriceKinds \cup {"MarketCap"})
    BY <1>1, <1>3 DEF AgnosticKind, AgnosticSlots, PriceKinds, SlotKinds
  <2> QED BY <2>1, <2>2
<1>4. CASE ~IsFeeRateSlot(s, n) /\ ~(s < AgnosticSlots)
  <2>1. SlotKind(m) = PerCurrencyKind[Offset(s)]
    BY <1>4 DEF SlotKind, KindForSlot
  <2>2. PerCurrencyKind[Offset(s)] \in SlotKinds
    <3>1. Offset(s) \in 0 .. 2
      BY <1>1, <1>4 DEF Offset, PerCurrencySlots, AgnosticSlots
    <3> QED BY <3>1 DEF PerCurrencyKind, PerCurrencySlots, SlotKinds
  <2>3. IsCurrencySlot(s, n) /\ CurrencyIndex(s) + 1 \in 1 .. n
    BY <1>1, <1>4 DEF IsCurrencySlot, IsFeeRateSlot, CurrencyIndex, SlotCount,
       AgnosticSlots, PerCurrencySlots
  <2>4. current_currency(m) = m.currencies[CurrencyIndex(s) + 1]
    BY <2>3 DEF current_currency
  <2>5. CurrencyIndex(s) + 1 \in DOMAIN m.currencies
    BY <1>1, <2>3
  <2> QED BY <2>1, <2>2, <2>4, <2>5
<1> QED BY <1>2, <1>3, <1>4

(* The kinds by name, off the update and debug overlays.                   *)
LEMMA KindsShown ==
  ASSUME NEW m, Good(m), ~m.ota_active, ~m.debug_mode
  PROVE  /\ current_kind(m) \in NotificationKinds \cup SlotKinds
         /\ Overlay(m) <=> current_kind(m) \in NotificationKinds
         /\ ~Overlay(m) => current_kind(m) = SlotKind(m)
<1>1. SlotKind(m) \in SlotKinds
  BY SlotShows
<1>2. current_kind(m) \in NotificationKinds \/ current_kind(m) = SlotKind(m)
  BY DEF current_kind, NotificationKinds
<1> QED
  BY <1>1, <1>2 DEF Overlay, OverlayKinds, NotificationKinds, SlotKinds

(* A slot's screen keeps its value in a shadow of the panels.              *)
LEMMA ShadowsExist ==
  ASSUME NEW kind \in SlotKinds
  PROVE  Shadow(kind) \in DOMAIN Sentinel
<1>1. CASE kind \in HeightKinds
  BY <1>1 DEF Shadow, Sentinel
<1>2. CASE kind \in PriceKinds
  BY <1>2 DEF Shadow, Sentinel, HeightKinds, PriceKinds
<1>3. CASE kind \notin HeightKinds /\ kind \notin PriceKinds
  <2>1. Shadow(kind) = kind
    BY <1>3 DEF Shadow
  <2> QED BY <1>3, <2>1 DEF SlotKinds, Sentinel, HeightKinds, PriceKinds
<1> QED BY <1>1, <1>2, <1>3

(* Merge never takes the height back.                                      *)
LEMMA MergedHeight ==
  ASSUME NEW old, old.block_height \in Nat, NEW new, new.block_height \in Nat
  PROVE  /\ Merge(old, new).block_height \in Nat
         /\ Merge(old, new).block_height >= old.block_height
         /\ old.block_height # 0 => Merge(old, new).block_height # 0
<1>1. Merge(old, new).block_height
        = IF IsValidUpdate(old.block_height, new.block_height)
          THEN new.block_height ELSE old.block_height
  BY DEF Merge
<1> QED BY <1>1 DEF IsValidUpdate

(* A known hub stays known: a report replaces, it never takes away.        *)
LEMMA MergeStaysKnown ==
  ASSUME NEW old, Known(old), NEW new, new.block_height \in Nat,
         new.block_fee \in Nat \cup {-1}
  PROVE  Known(Merge(old, new))
<1> DEFINE w == Merge(old, new)
<1>1. w.block_height \in Nat \ {0}
  BY MergedHeight DEF Known
<1>2. w.block_fee = IF new.block_fee = -1 THEN old.block_fee ELSE new.block_fee
  BY DEF Merge
<1>3. w.prices = [c \in DOMAIN old.prices |->
                    IF new.prices[c] = "" THEN old.prices[c] ELSE new.prices[c]]
  BY DEF Merge
<1> HIDE DEF w
<1>4. w.block_fee \in Nat
  BY <1>2 DEF Known
<1>5. ASSUME NEW list \in CurrencyLists, NEW i \in DOMAIN list
      PROVE  list[i] \in DOMAIN w.prices /\ w.prices[list[i]] # ""
  <2>1. list[i] \in DOMAIN old.prices /\ old.prices[list[i]] # ""
    BY DEF Known
  <2> QED BY <1>3, <2>1
<1>6. Known(w)
  BY <1>1, <1>4, <1>5 DEF Known
<1> QED BY <1>6 DEF w

(* Decimal fees on: the value compared with the shadow is the one painted. *)
LEMMA ComparedAsPainted ==
  ASSUME NEW m, NEW s, NEW t, NEW f, f.blockFeeDec
  PROVE  Value(m, s, t, PreciseFirst) = Value(m, s, t, f)
<1>1. RenderedFee(s, PreciseFirst) = RenderedFee(s, f)
  BY DEF RenderedFee, PreciseFirst
<1> QED BY <1>1 DEF Value

(* Every screen has a value, and none is the sentinel ShouldRender skips.  *)
LEMMA ValueKnown ==
  ASSUME NEW m, Good(m), ~m.ota_active, ~m.debug_mode, NEW s, Known(s), NEW t, NEW f
  PROVE  /\ Value(m, s, t, f) # Nothing
         /\ f.blockFeeDec /\ current_kind(m) = "BlockFeeRate" => Value(m, s, t, f) # <<-1>>
         /\ current_kind(m) = "MarketCap" =>
              Value(m, s, t, f) = <<Price(m, s), s.block_height>>
<1> DEFINE kind == current_kind(m)
<1>1. kind \in SlotKinds \cup NotificationKinds
  BY KindsShown
<1>2. kind \in PriceKinds \cup {"MarketCap"} => Price(m, s) # ""
  <2>1. SUFFICES ASSUME kind \in PriceKinds \cup {"MarketCap"}
                 PROVE  Price(m, s) # ""
    OBVIOUS
  <2>2. SlotKind(m) = kind
    BY <2>1, KindsShown DEF PriceKinds, Overlay, OverlayKinds
  <2>3. PICK i \in DOMAIN m.currencies : current_currency(m) = m.currencies[i]
    BY <2>1, <2>2, SlotShows
  <2>4. m.currencies \in CurrencyLists
    BY GoodFields DEF Fields
  <2> QED BY <2>3, <2>4 DEF Price, Known
<1>3. s.block_height # 0
  BY DEF Known
<1>4. f.blockFeeDec => RenderedFee(s, f) # -1
  <2>1. s.block_fee \in Nat
    BY DEF Known
  <2>2. CASE s.block_fee_precise = -1
    BY <2>1, <2>2 DEF RenderedFee
  <2>3. CASE s.block_fee_precise # -1
    BY <2>1, <2>3 DEF RenderedFee
  <2> QED BY <2>2, <2>3
<1>5. kind = "BlockFeeRate" => Value(m, s, t, f) = <<RenderedFee(s, f)>>
  BY DEF Value, HeightKinds, PriceKinds
<1>6. kind = "MarketCap" => Value(m, s, t, f) = <<Price(m, s), s.block_height>>
  BY <1>2, <1>3 DEF Value, HeightKinds, PriceKinds
<1>7. Value(m, s, t, f) # Nothing
  BY <1>2, <1>3 DEF Value, Nothing, HeightKinds, PriceKinds
<1> QED BY <1>4, <1>5, <1>6, <1>7

(* The panels and shadows, and the pair a market cap keeps.                *)
PaintOK(p) ==
  /\ Painted(p)
  /\ DOMAIN p.last = DOMAIN Sentinel
  /\ p.last["MarketCap"] = <<p.last["MarketCap"][1], p.last["MarketCap"][2]>>

(* The end of the throttle's window touches nothing else.                  *)
LEMMA ThrottleApart ==
  ASSUME NEW p, Painted(p), NEW w, w = [p EXCEPT !.throttled = FALSE]
  PROVE  /\ Painted(w) /\ w.panels = p.panels /\ w.last = p.last /\ ~w.throttled
         /\ PaintOK(p) => PaintOK(w)
<1>1. p = [panels |-> p.panels, last |-> p.last, throttled |-> p.throttled]
  BY DEF Painted
<1>2. w = [panels |-> p.panels, last |-> p.last, throttled |-> FALSE]
  BY <1>1, Zenon
<1>3. w.panels = p.panels /\ w.last = p.last
  BY <1>2
<1>4. w.throttled = FALSE
  BY <1>2, Zenon
<1>5. Painted(w)
  BY <1>2, <1>3, <1>4, Zenon DEF Painted
<1>6. ~w.throttled
  BY <1>4, Zenon
<1> QED BY <1>3, <1>5, <1>6 DEF PaintOK

(* The panels show the current screen, with the value in its shadow.       *)
Shown(m, p, f) ==
  /\ p.panels.view = View(m)
  /\ p.panels.prefs = f
  /\ p.panels.value = IF Overlay(m) THEN <<"overlay">> ELSE p.last[Shadow(current_kind(m))]

(* What Render does to a slot's screen.                                    *)
SlotPaint(m, p, s, t, f) ==
  LET kind == current_kind(m)
      sh   == Shadow(kind)
  IN  [panels |-> CellDiff(p.panels, kind, Frame(m, s, t, f),
                           IF ForceRepaint(m) THEN Sentinel[sh] ELSE p.last[sh]),
       last |-> [p.last EXCEPT ![sh] = Value(m, s, t, f)],
       throttled |-> p.throttled \/ kind \in PriceKinds \cup {"MarketCap"}]

(* What it does to a notification's: all cells.                            *)
AllCells(m, p, s, t, f) == [p EXCEPT !.panels = Frame(m, s, t, f)]

(* What an unowned paint does, by the kind of screen.                      *)
LEMMA PaintByKind ==
  ASSUME NEW m, Good(m), ~m.ota_active, ~m.debug_mode, NEW p,
         NEW s, Known(s), NEW t, NEW f
  PROVE  /\ ~Overlay(m) => Paint(m, p, s, t, f) = SlotPaint(m, p, s, t, f)
         /\ Overlay(m) =>
              /\ Value(m, s, t, f) = <<"overlay">>
              /\ Paint(m, p, s, t, f) \in {p, AllCells(m, p, s, t, f)}
              /\ ForceRepaint(m) =>
                   Paint(m, p, s, t, f) = AllCells(m, p, s, t, f)
<1> DEFINE kind == current_kind(m)
           frame == Frame(m, s, t, f)
           v == Value(m, s, t, f)
           sh == Shadow(kind)
<1>1. v # Nothing
  BY ValueKnown
<1>2. frame.value = v
  BY DEF Frame
<1>3. CASE ~Overlay(m)
  <2>1. kind \notin NotificationKinds
    BY <1>3, KindsShown
  <2> HIDE DEF kind, frame, sh, v
  <2> QED
    BY <1>1, <1>2, <1>3, <2>1 DEF Paint, SlotPaint, NotificationKinds, kind, frame, sh, v
<1>4. CASE Overlay(m)
  <2>1. kind \in NotificationKinds
    BY <1>4, KindsShown
  <2>2. v = <<"overlay">>
    BY <2>1, Values DEF NotificationKinds
  <2> HIDE DEF frame, v
  <2>3. /\ Paint(m, p, s, t, f) \in {p, AllCells(m, p, s, t, f)}
        /\ ForceRepaint(m) => Paint(m, p, s, t, f) = AllCells(m, p, s, t, f)
    BY <1>1, <1>2, <2>1 DEF Paint, AllCells, NotificationKinds, frame
  <2> QED BY <1>1, <1>4, <2>2, <2>3 DEF frame, v
<1> QED BY <1>3, <1>4

(* A paint keeps the panels in order, and under an overlay that owns them  *)
(* leaves them alone.                                                      *)
LEMMA PaintKeepsOK ==
  ASSUME NEW m, Good(m), NEW p, PaintOK(p), NEW s, Known(s), NEW t, NEW f
  PROVE  /\ PaintOK(Paint(m, p, s, t, f))
         /\ m.ota_active \/ m.debug_mode => Paint(m, p, s, t, f) = p
<1> DEFINE kind == current_kind(m)
           v == Value(m, s, t, f)
           sh == Shadow(kind)
           q == Paint(m, p, s, t, f)
<1>1. CASE m.ota_active \/ m.debug_mode
  <2>1. kind \in {"OtaUpdate", "Debug"}
    BY <1>1 DEF current_kind
  <2>2. q = p
    BY <1>1, <2>1 DEF Paint
  <2> QED BY <2>2
<1>2. CASE ~(m.ota_active \/ m.debug_mode) /\ Overlay(m)
  <2>1. q = p \/ q = AllCells(m, p, s, t, f)
    BY <1>2, PaintByKind
  <2> HIDE DEF q
  <2>2. PaintOK(q)
    BY <2>1 DEF AllCells, PaintOK, Painted
  <2> QED BY <1>2, <2>2 DEF q
<1>3. CASE ~(m.ota_active \/ m.debug_mode) /\ ~Overlay(m)
  <2>0. q = SlotPaint(m, p, s, t, f)
    BY <1>3, PaintByKind
  <2>1. Painted(q) /\ q.last = [p.last EXCEPT ![sh] = v]
    BY <2>0 DEF SlotPaint, Painted
  <2>2. sh = "MarketCap" => kind = "MarketCap"
    BY DEF Shadow, HeightKinds, PriceKinds
  <2>3. kind = "MarketCap" => v = <<Price(m, s), s.block_height>>
    BY <1>3, ValueKnown
  <2>4. "MarketCap" \in DOMAIN Sentinel
    BY DEF Sentinel
  <2> HIDE DEF q, sh, v, kind
  <2>5. PaintOK(q)
    BY <2>1, <2>2, <2>3, <2>4 DEF PaintOK
  <2> QED BY <1>3, <2>5 DEF q
<1> QED BY <1>1, <1>2, <1>3

(* A forced paint, and one over what is shown already, leave the screen    *)
(* shown with its value of the moment.                                     *)
LEMMA PaintShows ==
  ASSUME NEW m, Good(m), ~m.ota_active, ~m.debug_mode, NEW p, PaintOK(p),
         NEW s, Known(s), NEW t, NEW f,
         ForceRepaint(m) \/ Shown(m, p, f)
  PROVE  /\ Shown(m, Paint(m, p, s, t, f), f)
         /\ ~Overlay(m) => Paint(m, p, s, t, f).last[Shadow(current_kind(m))]
                             = Value(m, s, t, f)
<1> DEFINE kind == current_kind(m)
           frame == Frame(m, s, t, f)
           v == Value(m, s, t, f)
           sh == Shadow(kind)
           prev == IF ForceRepaint(m) THEN Sentinel[sh] ELSE p.last[sh]
           cells == CellDiff(p.panels, kind, frame, prev)
           q == Paint(m, p, s, t, f)
<1>1. frame = [view |-> View(m), prefs |-> f, value |-> v]
  BY DEF Frame
<1>2. CASE Overlay(m)
  <2>1. /\ q = p \/ q = AllCells(m, p, s, t, f)
        /\ ForceRepaint(m) => q = AllCells(m, p, s, t, f)
        /\ v = <<"overlay">>
    BY <1>2, PaintByKind
  <2> HIDE DEF q, v
  <2>2. (q = p /\ Shown(m, p, f)) \/ q.panels = frame
    BY <2>1 DEF AllCells, PaintOK, Painted
  <2> QED BY <1>1, <1>2, <2>1, <2>2 DEF Shown, q
<1>3. CASE ~Overlay(m)
  <2>0. q = SlotPaint(m, p, s, t, f)
    BY <1>3, PaintByKind
  <2>1. q.panels = cells /\ q.last = [p.last EXCEPT ![sh] = v]
    BY <2>0 DEF SlotPaint
  <2>2. sh \in DOMAIN Sentinel
    BY <1>3, KindsShown, SlotShows, ShadowsExist
  <2>3. q.last[sh] = v
    BY <2>1, <2>2 DEF PaintOK
  <2>4. cells.view = View(m) /\ cells.prefs = f /\ cells.value = v
    <3>1. CASE ForceRepaint(m)
      <4>1. cells = frame
        BY <3>1 DEF CellDiff
      <4> QED BY <1>1, <4>1
    <3>2. CASE ~ForceRepaint(m)
      <4>1. prev = p.last[sh]
        BY <3>2
      <4>2. /\ p.panels.view = View(m) /\ p.panels.prefs = f
            /\ p.panels.value = prev
        BY <1>3, <3>2, <4>1 DEF Shown
      <4> HIDE DEF prev, sh, v
      <4>3. SameFrame(p.panels, [frame EXCEPT !.value = prev])
        BY <1>1, <4>2 DEF SameFrame
      <4>4. cells = frame \/ (cells = p.panels /\ frame.value = prev)
        BY <4>3 DEF CellDiff
      <4> QED BY <1>1, <4>2, <4>4
    <3> QED BY <3>1, <3>2
  <2> HIDE DEF q, cells, v
  <2> QED BY <1>3, <2>1, <2>3, <2>4 DEF Shown, q, v
<1> QED BY <1>2, <1>3

(* Neither the update nor the debug overlay has the panels.                *)
Unowned(m) == ~m.ota_active /\ ~m.debug_mode

(* Render settles the flags and leaves the view.                           *)
LEMMA RenderKeepsView ==
  ASSUME NEW m, Good(m)
  PROVE  /\ View(Render(m)) = View(m) /\ current_kind(Render(m)) = current_kind(m)
         /\ SameModes(m, Render(m))
         /\ Unowned(m) => ~ForceRepaint(Render(m))
         /\ ~Unowned(m) => Render(m) = m
<1>1. m \in Fields
  BY GoodFields
<1>2. CASE ~Unowned(m)
  BY <1>2 DEF Render, Unowned, SameModes
<1>3. CASE Unowned(m)
  <2> DEFINE r == [m EXCEPT !.dirty = FALSE, !.screen_change_pending = FALSE]
  <2>1. Render(m) = r
    BY <1>3 DEF Render, Unowned
  <2>2. /\ r.slot = m.slot /\ r.currencies = m.currencies
        /\ r.custom_active = m.custom_active /\ r.zap_active = m.zap_active
        /\ r.nwc_notify_active = m.nwc_notify_active
        /\ r.debug_mode = m.debug_mode /\ r.ota_active = m.ota_active
        /\ r.dirty = FALSE /\ r.screen_change_pending = FALSE
    BY <1>1 DEF Fields
  <2> HIDE DEF r
  <2>3. ~ForceRepaint(r)
    BY <2>2, Zenon DEF ForceRepaint
  <2>4. current_kind(r) = current_kind(m) /\ current_currency(r) = current_currency(m)
    BY <2>2 DEF current_kind, current_currency, SlotKind, NumCurrencies
  <2> QED BY <1>3, <2>1, <2>2, <2>3, <2>4 DEF View, SameModes
<1> QED BY <1>2, <1>3

(* A mark asks for a repaint.                                              *)
LEMMA DirtyAsks ==
  ASSUME NEW m, Good(m)
  PROVE  /\ Good(MarkDirty(m)) /\ MarkDirty(m).dirty /\ SameModes(m, MarkDirty(m))
         /\ Good(RenderDebug(m)) /\ RenderDebug(m).dirty /\ SameModes(m, RenderDebug(m))
<1>1. m \in Fields
  BY GoodFields
<1>2. /\ MarkDirty(m).dirty = TRUE /\ SameModes(m, MarkDirty(m))
      /\ RenderDebug(m).dirty = TRUE /\ SameModes(m, RenderDebug(m))
  BY <1>1 DEF MarkDirty, RenderDebug, SameModes, Fields
<1> QED BY <1>2, FlagMethodsGood

(* The debug overlay is painted over anything.                             *)
LEMMA DebugPainted ==
  ASSUME NEW p, PaintOK(p)
  PROVE  PaintOK(PaintDebug(p)) /\ PaintDebug(p).panels.view[1] = "Debug"
<1> DEFINE A == [Mixed EXCEPT !.view = <<"Debug", NoCurrency>>]
           B == [sh \in DOMAIN Sentinel |->
                   IF sh \in {"MiningPoolEstimatedEarnings", "NwcBalance"}
                   THEN p.last[sh] ELSE Sentinel[sh]]
<1>1. PaintDebug(p) = [p EXCEPT !.panels = A, !.last = B]
  BY DEF PaintDebug
<1>2. A.view[1] = "Debug"
  BY DEF Mixed
<1>3. DOMAIN B = DOMAIN Sentinel /\ B["MarketCap"] = <<"", 0>>
  BY DEF Sentinel
<1> HIDE DEF A, B
<1> DEFINE q == PaintDebug(p)
<1>4. q.panels = A /\ q.last = B /\ Painted(q)
  BY <1>1 DEF PaintOK, Painted
<1>5. B["MarketCap"] = <<B["MarketCap"][1], B["MarketCap"][2]>>
  <2> DEFINE none == <<"", 0>>
  <2>1. none = <<none[1], none[2]>>
    OBVIOUS
  <2>2. B["MarketCap"] = none
    BY <1>3
  <2> HIDE DEF none
  <2> QED BY <2>1, <2>2, Zenon
<1> HIDE DEF q
<1>6. PaintOK(q) /\ q.panels.view[1] = "Debug"
  BY <1>2, <1>3, <1>4, <1>5 DEF PaintOK
<1> QED BY <1>6 DEF q

(* Nothing is due on a slot's screen exactly when its shadow has the value *)
(* of the moment, whether the throttle is on or off.                       *)
LEMMA DueByShadow ==
  ASSUME NEW p, PaintOK(p), NEW m, Good(m), Unowned(m), ~Overlay(m),
         NEW s, Known(s), NEW t, t # 0, NEW f, f.blockFeeDec
  PROVE  LET now == p.last[Shadow(current_kind(m))] = Value(m, s, t, f)
         IN  /\ now => ~Due(m, p, s, t)
             /\ ~p.throttled /\ ~Due(m, p, s, t) => now
<1> DEFINE kind == current_kind(m)
           v == Value(m, s, t, f)
           sh == Shadow(kind)
<1>1. Value(m, s, t, PreciseFirst) = v
  BY ComparedAsPainted
<1>2. v # Nothing /\ (kind = "BlockFeeRate" => v # <<-1>>)
  BY ValueKnown DEF Unowned
<1>3. kind = "MarketCap" => sh = "MarketCap" /\ kind \notin PriceKinds
  BY DEF Shadow, HeightKinds, PriceKinds
<1>4. CASE kind = "MarketCap"
  <2>1. v = <<v[1], v[2]>>
    <3>1. v = <<Price(m, s), s.block_height>>
      BY <1>4, ValueKnown DEF Unowned
    <3> HIDE DEF v
    <3> QED BY <3>1
  <2> HIDE DEF v, kind
  <2>2. Due(m, p, s, t)
          <=> v[2] # p.last[sh][2] \/ (~p.throttled /\ v[1] # p.last[sh][1])
    BY <1>1, <1>2, <1>3, <1>4 DEF Due, kind
  <2>3. p.last[sh] = <<p.last[sh][1], p.last[sh][2]>>
    BY <1>3, <1>4 DEF PaintOK
  <2> HIDE DEF sh
  <2> QED BY <2>1, <2>2, <2>3 DEF v, sh, kind
<1>5. CASE kind # "MarketCap"
  <2> HIDE DEF v
  <2>1. Due(m, p, s, t) => v # p.last[sh]
    BY <1>1, <1>5 DEF Due, Changed
  <2>2. ~p.throttled /\ v # p.last[sh] => Due(m, p, s, t)
    BY <1>1, <1>2, <1>5 DEF Due, Changed
  <2> QED BY <2>1, <2>2 DEF v
<1> QED BY <1>4, <1>5
=============================================================================
