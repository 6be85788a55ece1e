------------------------- MODULE ZapListenerProofs --------------------------
(***************************************************************************)
(* Theorems about ZapListener, for any relays, keys, receipts and worlds.  *)
(* As long as ZapIdLru holds every receipt, the listeners of all relays,   *)
(* freed ones included, implement AnnounceOnce.  For any ring, the types,  *)
(* the healing of subscriptions, the order of an update's stops, and that  *)
(* a change of the followed keys reaches every relay.                      *)
(***************************************************************************)
EXTENDS ZapListener, FiniteSetTheorems, TLAPS

HoldsAll == IsFiniteSet(Zaps) /\ Cardinality(Zaps) <= kCap

(***************************************************************************)
(* The invariant.                                                          *)
(***************************************************************************)

(* Only receipts that exist travel from a relay to a listener's callback.  *)
Frames == {None} \cup [id : Ids, zap : Zaps \cup {None}]
Job(r) == [doing |-> ws[r].doing, zap |-> ws[r].zap, copy |-> ws[r].copy]

OnTheWire(r) == wire[r] # None /\ wire[r].id = "zap" => wire[r].zap \in published
InHand(r) == ws[r].doing \in {"handle", "dangle"} => ws[r].zap \in published

Deliveries ==
  /\ world.relays \subseteq Relays
  /\ wire \in [Relays -> Frames]
  /\ ws = [r \in Relays |-> Job(r)]
  /\ \A r \in Relays : OnTheWire(r) /\ InHand(r)

(* The ring holds exactly the receipts that were notified, each once.      *)
Remembered(z) == \E i \in 1 .. Len(lru) : lru[i] = z

Notified ==
  /\ published \subseteq Zaps
  /\ times \in [Zaps -> {0, 1}]
  /\ lru \in Seq(published)
  /\ \A i, j \in 1 .. Len(lru) : lru[i] = lru[j] => i = j
  /\ \A z \in Zaps : times[z] = 1 <=> Remembered(z)

RInv == Deliveries /\ Notified

(***************************************************************************)
(* The ring.                                                               *)
(***************************************************************************)

(* A ring that holds all receipts has room for one it does not hold.       *)
LEMMA RoomForOneMore ==
  ASSUME HoldsAll, Notified, NEW z \in published, ~Remembered(z)
  PROVE  Len(lru) < kCap
<1> DEFINE n == Len(lru)
           f == [i \in 1 .. n + 1 |-> IF i = n + 1 THEN z ELSE lru[i]]
<1>1. n \in Nat /\ \A i \in 1 .. n : lru[i] \in published
  BY DEF Notified
<1>2. f \in [1 .. n + 1 -> Zaps]
  BY <1>1 DEF Notified
<1>3. ASSUME NEW i \in 1 .. n + 1, NEW j \in 1 .. n + 1, f[i] = f[j]
      PROVE  i = j
  <2>1. CASE i = n + 1 \/ j = n + 1
    BY <1>1, <1>3, <2>1 DEF Remembered
  <2>2. CASE i # n + 1 /\ j # n + 1
    <3>1. i \in 1 .. n /\ j \in 1 .. n
      BY <1>1, <2>2
    <3>2. lru[i] = lru[j]
      BY <1>3, <2>2
    <3> QED BY <3>1, <3>2 DEF Notified
  <2> QED BY <2>1, <2>2
<1>4. f \in Injection(1 .. n + 1, Zaps)
  BY <1>2, <1>3 DEF Injection, IsInjective
<1> HIDE DEF f
<1>5. Cardinality(1 .. n + 1) <= Cardinality(Zaps)
  BY <1>4, FS_Injection DEF HoldsAll
<1>6. Cardinality(1 .. n + 1) = n + 1
  BY <1>1, FS_Interval
<1>7. Cardinality(Zaps) \in Nat
  BY FS_CardinalityType DEF HoldsAll
<1> QED
  BY <1>1, <1>5, <1>6, <1>7, ZapListenerAssumption DEF HoldsAll

(* on_zap keeps the correspondence, and is a step of AnnounceOnce.         *)
LEMMA OnZapAnnounces ==
  ASSUME HoldsAll, Notified, NEW z \in published, OnZap(z), published' = published
  PROVE  Notified' /\ [Announcer!Announce(z)]_<<published, times>>
<1>1. CASE Remembered(z)
  <2>1. UNCHANGED <<lru, times>>
    BY <1>1 DEF OnZap, Remembered
  <2> QED BY <2>1 DEF Notified, Remembered
<1>2. CASE ~Remembered(z)
  <2>1. Len(lru) < kCap
    BY <1>2, RoomForOneMore
  <2>2. lru' = Append(lru, z) /\ times' = [times EXCEPT ![z] = @ + 1]
    BY <1>2, <2>1 DEF OnZap, Remembered, MarkFresh
  <2>3. z \in Zaps /\ times[z] = 0
    BY <1>2 DEF Notified
  <2>4. times' = [times EXCEPT ![z] = 1]
    BY <2>2, <2>3 DEF Notified
  <2>5. /\ Len(lru') = Len(lru) + 1 /\ lru'[Len(lru) + 1] = z
        /\ \A i \in 1 .. Len(lru) : lru'[i] = lru[i]
        /\ lru' \in Seq(published) /\ Len(lru) \in Nat
    BY <2>2 DEF Notified
  <2>6. \A i, j \in 1 .. Len(lru') : lru'[i] = lru'[j] => i = j
    BY <1>2, <2>5 DEF Notified, Remembered
  <2>7. \A y \in Zaps : Remembered(y)' <=> Remembered(y) \/ y = z
    BY <2>5 DEF Remembered
  <2>8. \A y \in Zaps : times'[y] = 1 <=> Remembered(y)'
    BY <2>3, <2>4, <2>7 DEF Notified
  <2>9. times' \in [Zaps -> {0, 1}]
    BY <2>4 DEF Notified
  <2>10. Notified'
    BY <2>5, <2>6, <2>8, <2>9 DEF Notified
  <2> QED BY <2>3, <2>4, <2>10 DEF Announcer!Announce
<1> QED BY <1>1, <1>2

(***************************************************************************)
(* The steps.                                                              *)
(***************************************************************************)

Stays == UNCHANGED <<published, times, lru>>

(* A socket task goes on to a job that hands out an existing receipt.      *)
LEMMA JobTaken ==
  ASSUME Deliveries, NEW r \in Relays, NEW task,
         ws' = [ws EXCEPT ![r] = task], UNCHANGED <<world, published>>,
         task = [doing |-> task.doing, zap |-> task.zap, copy |-> task.copy],
         task.doing \in {"handle", "dangle"} => task.zap \in published,
         wire' \in [Relays -> Frames],
         \A q \in Relays : wire'[q] \in {wire[q], None}
  PROVE  Deliveries'
<1>1. ws' = [q \in Relays |-> IF q = r THEN task ELSE ws[q]]
  BY DEF Deliveries
<1>2. \A q \in Relays : ws'[q] = Job(q)'
  BY <1>1 DEF Deliveries, Job
<1>3. ws' = [q \in Relays |-> Job(q)']
  BY <1>1, <1>2
<1>4. \A q \in Relays : OnTheWire(q)' /\ InHand(q)'
  BY <1>1 DEF Deliveries, OnTheWire, InHand
<1> QED BY <1>3, <1>4 DEF Deliveries, Job

(* The tasks keep their jobs; what comes onto a wire exists.               *)
LEMMA WireTaken ==
  ASSUME Deliveries, UNCHANGED <<world, ws, published>>,
         wire' \in [Relays -> Frames],
         \A q \in Relays : wire'[q] = wire[q] \/ OnTheWire(q)'
  PROVE  Deliveries'
<1>1. \A q \in Relays : OnTheWire(q)' /\ InHand(q)'
  BY DEF Deliveries, OnTheWire, InHand
<1> QED BY <1>1 DEF Deliveries, Job

LEMMA RingKept == Notified /\ Stays => Notified'
  BY DEF Notified, Stays, Remembered

LEMMA SocketKeepsRInv ==
  ASSUME HoldsAll, RInv, NEW r \in world.relays,
         Connected(r) \/ Disconnected(r) \/ SocketTask(r) \/ RelaySends(r)
  PROVE  RInv' /\ [Announcer!Next]_<<published, times>>
<1> USE DEF RInv
<1>1. r \in Relays /\ Deliveries /\ Notified
  BY DEF Deliveries
<1>2. wire \in [Relays -> Frames] /\ [wire EXCEPT ![r] = None] \in [Relays -> Frames]
      /\ \A q \in Relays : [wire EXCEPT ![r] = None][q] \in {wire[q], None}
  BY <1>1 DEF Deliveries, Frames
<1>3. CASE Connected(r) \/ CopySubs(r) \/ ReissueAll(r)
  <2>1. PICK step \in {"connected", "reissue", "idle"} : \E filters :
          ws' = [ws EXCEPT ![r] = [doing |-> step, zap |-> None, copy |-> filters]]
    <3>1. CASE Connected(r)
      <4>1. [Idle EXCEPT !.doing = "connected"]
              = [doing |-> "connected", zap |-> None, copy |-> NoFilters]
        BY DEF Idle
      <4>2. ws' = [ws EXCEPT ![r] = [Idle EXCEPT !.doing = "connected"]]
        BY <3>1 DEF Connected, Does
      <4> QED BY <4>1, <4>2
    <3>2. CASE CopySubs(r)
      BY <3>2 DEF CopySubs, Does
    <3>3. CASE ReissueAll(r)
      BY <3>3 DEF ReissueAll, Does, Idle
    <3> QED BY <1>3, <3>1, <3>2, <3>3
  <2>2. UNCHANGED <<world, wire>> /\ Stays
    BY <1>3 DEF Connected, CopySubs, ReissueAll, memory, history, Stays
  <2> QED BY <1>1, <1>2, <2>1, <2>2, JobTaken, RingKept DEF Stays
<1>4. CASE Disconnected(r) \/ SourceTakes(r)
  <2>1. wire' = [wire EXCEPT ![r] = None] /\ UNCHANGED <<world, ws>> /\ Stays
    BY <1>4 DEF Disconnected, SourceTakes, Took, memory, history, Stays
  <2>2. \A q \in Relays : wire'[q] = wire[q] \/ OnTheWire(q)'
    BY <1>2, <2>1 DEF OnTheWire
  <2> QED BY <1>1, <1>2, <2>1, <2>2, WireTaken, RingKept DEF Stays
<1>5. CASE ListenerTakes(r)
  <2>1. CASE Panic
    BY <2>1, <1>1, <1>2, WireTaken, RingKept DEF Panic, memory, history, Stays
  <2>2. CASE Took(r) /\ ~Panic
    <3>1. wire' = [wire EXCEPT ![r] = None] /\ UNCHANGED world /\ Stays /\ wire[r] # None
      BY <1>5, <2>2 DEF ListenerTakes, Took, memory, history, Stays
    <3>2. CASE wire[r].id = "zap"
      <4>1. wire[r].zap \in published
        BY <1>1, <3>1, <3>2 DEF Deliveries, OnTheWire
      <4>2. PICK step \in {"handle", "dangle"} :
              ws' = [ws EXCEPT ![r] = [doing |-> step, zap |-> wire[r].zap, copy |-> NoFilters]]
        BY <1>5, <2>2, <3>2 DEF ListenerTakes, Does
      <4> QED BY <1>1, <1>2, <3>1, <4>1, <4>2, JobTaken, RingKept DEF Stays
    <3>3. CASE wire[r].id # "zap"
      <4>1. UNCHANGED ws
        BY <1>5, <2>2, <3>3 DEF ListenerTakes
      <4>2. \A q \in Relays : wire'[q] = wire[q] \/ OnTheWire(q)'
        BY <1>2, <3>1 DEF OnTheWire
      <4> QED BY <1>1, <1>2, <3>1, <4>1, <4>2, WireTaken, RingKept DEF Stays
    <3> QED BY <3>2, <3>3
  <2> QED BY <1>5, <2>1, <2>2 DEF ListenerTakes
<1>6. CASE Handle(r) \/ (HandleFreed(r) /\ ~Panic)
  <2>1. ws[r].zap \in published
    BY <1>1, <1>6 DEF Handle, HandleFreed, Deliveries, InHand
  <2>2. ws' = [ws EXCEPT ![r] = Idle] /\ UNCHANGED <<world, wire, published>>
    BY <1>6 DEF Handle, HandleFreed, Does
  <2>3. Deliveries'
    BY <1>1, <1>2, <2>2, JobTaken DEF Idle
  <2>4. OnZap(ws[r].zap) \/ UNCHANGED <<lru, times>>
    BY <1>6 DEF Handle, HandleFreed
  <2>5. Notified' /\ [Announcer!Announce(ws[r].zap)]_<<published, times>>
    BY <1>1, <2>1, <2>2, <2>4, OnZapAnnounces, RingKept DEF Stays
  <2>6. ws[r].zap \in Zaps
    BY <1>1, <2>1 DEF Notified
  <2> QED BY <2>3, <2>5, <2>6 DEF Announcer!Next
<1>7. CASE HandleFreed(r) /\ Panic
  BY <1>1, <1>2, <1>7, WireTaken, RingKept DEF Panic, memory, history, Stays
<1>8. CASE RelaySends(r)
  <2>1. PICK id \in Ids, z \in Zaps \cup {None} :
          /\ wire' = [wire EXCEPT ![r] = [id |-> id, zap |-> z]]
          /\ id = "zap" => z \in published
    <3>1. CASE \E z \in published : wire' = [wire EXCEPT ![r] = [id |-> "zap", zap |-> z]]
      BY <1>1, <3>1 DEF Ids, Notified
    <3>2. CASE wire' = [wire EXCEPT ![r] = [id |-> "data", zap |-> None]]
      BY <3>2 DEF Ids
    <3> QED BY <1>8, <3>1, <3>2 DEF RelaySends
  <2>2. UNCHANGED <<world, ws>> /\ Stays
    BY <1>8 DEF RelaySends, memory, history, Stays
  <2>3. [id |-> id, zap |-> z] \in Frames
    BY DEF Frames
  <2>4. wire' \in [Relays -> Frames] /\ \A q \in Relays : wire'[q] = wire[q] \/ OnTheWire(q)'
    BY <1>1, <1>2, <2>1, <2>2, <2>3 DEF OnTheWire, Stays
  <2> QED BY <1>1, <2>2, <2>4, WireTaken, RingKept DEF Stays
<1> QED
  BY <1>3, <1>4, <1>5, <1>6, <1>7, <1>8 DEF SocketTask

(* The calling task sees to its relays and listeners, and to no receipt.   *)
LEMMA CallerKeepsRInv ==
  ASSUME RInv, PatchKeys \/ StartUpdate \/ RestartSources \/ Proceeds \/ SntpLands
  PROVE  RInv' /\ Stays
<1>1. Deliveries /\ Notified /\ wire \in [Relays -> Frames]
  BY DEF RInv, Deliveries
<1>2. Stays /\ UNCHANGED world
  BY DEF PatchKeys, StartUpdate, RestartSources, Proceeds, SntpLands, StopListener,
         BuildListener, StopRelay, StartSource, FreeListeners, SendReq, Refreshed,
         ListenersStopped, Stopped, Restarted, memory, history, Stays
<1>3. CASE FreeListeners
  <2>1. ws' = [r \in Relays |-> IF ws[r].doing = "handle"
                               THEN [ws[r] EXCEPT !.doing = "dangle"] ELSE ws[r]]
        /\ UNCHANGED wire
    BY <1>3 DEF FreeListeners
  <2>2. \A r \in Relays : ws'[r] = Job(r)' /\ ws'[r].zap = ws[r].zap
                         /\ (ws'[r].doing \in {"handle", "dangle"}
                              => ws[r].doing \in {"handle", "dangle"})
    BY <1>1, <2>1 DEF Deliveries, Job
  <2>3. ws' = [r \in Relays |-> Job(r)']
    BY <2>1, <2>2
  <2>4. \A r \in Relays : OnTheWire(r)' /\ InHand(r)'
    BY <1>1, <1>2, <2>1, <2>2 DEF Deliveries, OnTheWire, InHand, Stays
  <2> QED BY <1>1, <1>2, <2>1, <2>3, <2>4, RingKept DEF Deliveries, Job, RInv
<1>4. CASE \E r \in Relays : StopRelay(r)
  <2>1. PICK r \in Relays : wire' = [wire EXCEPT ![r] = None]
    BY <1>4 DEF StopRelay
  <2>2. UNCHANGED ws
    BY <1>4 DEF StopRelay
  <2>3. wire' \in [Relays -> Frames] /\ \A q \in Relays : wire'[q] = wire[q] \/ OnTheWire(q)'
    BY <1>1, <2>1 DEF OnTheWire, Frames
  <2> QED BY <1>1, <1>2, <2>2, <2>3, WireTaken, RingKept DEF Stays, RInv
<1>5. CASE UNCHANGED <<ws, wire>>
  BY <1>1, <1>2, <1>5, WireTaken, RingKept DEF Stays, RInv
<1>6. FreeListeners \/ (\E r \in Relays : StopRelay(r)) \/ UNCHANGED <<ws, wire>>
  BY DEF PatchKeys, StartUpdate, RestartSources, Proceeds, SntpLands, StopListener,
         BuildListener, StartSource, SendReq, Refreshed, ListenersStopped, Stopped, Restarted
<1> QED BY <1>2, <1>3, <1>4, <1>5, <1>6

LEMMA PublishKeepsRInv ==
  ASSUME RInv, Publish
  PROVE  RInv' /\ Announcer!Next
<1>1. PICK z \in Zaps \ published : published' = published \cup {z}
  BY DEF Publish
<1>2. UNCHANGED <<world, wire, ws, times, lru>>
  BY DEF Publish, memory
<1>3. Deliveries'
  BY <1>1, <1>2 DEF RInv, Deliveries, OnTheWire, InHand, Job
<1>4. Notified'
  BY <1>1, <1>2 DEF RInv, Notified, Remembered
<1> QED
  BY <1>1, <1>2, <1>3, <1>4 DEF RInv, Announcer!Next, Announcer!Publish

(***************************************************************************)
(* The theorem.                                                            *)
(***************************************************************************)

LEMMA RInvInit == Init => RInv /\ Announcer!Init
<1> SUFFICES ASSUME Init PROVE RInv /\ Announcer!Init
  OBVIOUS
<1>1. Deliveries
  <2>1. wire \in [Relays -> Frames] /\ world.relays \subseteq Relays
    BY ZapListenerAssumption DEF Init, Frames
  <2>2. \A r \in Relays : ws[r] = Job(r) /\ OnTheWire(r) /\ InHand(r)
    BY DEF Init, Idle, Job, OnTheWire, InHand
  <2>3. ws = [r \in Relays |-> Job(r)]
    BY <2>2 DEF Init
  <2> QED BY <2>1, <2>2, <2>3 DEF Deliveries
<1>2. Notified
  <2>1. lru = <<>> /\ published = {}
    BY DEF Init
  <2>3. Len(lru) = 0 /\ lru \in Seq(published)
    BY <2>1
  <2>2. times = [z \in Zaps |-> 0]
    BY DEF Init
  <2> QED BY <2>1, <2>2, <2>3 DEF Notified, Remembered
<1> QED BY <1>1, <1>2 DEF RInv, Init, Announcer!Init

LEMMA RInvNext ==
  HoldsAll /\ RInv /\ [Next]_vars => RInv' /\ [Announcer!Next]_<<published, times>>
<1> SUFFICES ASSUME HoldsAll, RInv, [Next]_vars
             PROVE  RInv' /\ [Announcer!Next]_<<published, times>>
  OBVIOUS
<1>1. CASE \E r \in world.relays :
             Connected(r) \/ Disconnected(r) \/ SocketTask(r) \/ RelaySends(r)
  BY <1>1, SocketKeepsRInv
<1>2. CASE PatchKeys \/ StartUpdate \/ RestartSources \/ Proceeds \/ SntpLands
  BY <1>2, CallerKeepsRInv DEF Stays
<1>3. CASE Publish
  BY <1>3, PublishKeepsRInv
<1>4. CASE UNCHANGED vars
  BY <1>4 DEF vars, memory, history, RInv, Deliveries, OnTheWire, InHand, Job, Notified,
              Remembered
<1> QED
  BY <1>1, <1>2, <1>3, <1>4 DEF Next

(* As long as ZapIdLru holds every receipt, a receipt that several relays  *)
(* deliver, to listeners that come and go, is notified once: every step of *)
(* ZapListener is a step or a stutter of AnnounceOnce.                     *)
THEOREM ImplementsAnnounceOnce == HoldsAll /\ Spec => AnnouncesOnce
<1> SUFFICES ASSUME HoldsAll PROVE Spec => AnnouncesOnce
  OBVIOUS
<1>1. Init => RInv /\ Announcer!Init
  BY RInvInit
<1>2. RInv /\ [Next]_vars => RInv' /\ [Announcer!Next]_(Announcer!vars)
  BY RInvNext DEF Announcer!vars
<1> QED
  BY <1>1, <1>2, PTL DEF Spec, AnnouncesOnce, Announcer!Spec

(***************************************************************************)
(* Types and programs, for any ring.                                       *)
(***************************************************************************)

Subscriptions == [Ids -> Filters]
Arrived == {None} \cup [id : {"zap"}, zap : Zaps] \cup [id : {"data"}, zap : {None}]
Tasks ==
  [doing : {"idle", "connected", "reissue"}, zap : {None}, copy : Subscriptions]
    \cup [doing : {"handle", "dangle"}, zap : Zaps, copy : Subscriptions]
Listeners == [state : {"none", "started", "stopped"}, last : Nat]
Callers == [doing : {"idle", "stop", "build", "shut", "start", "flash"},
            left : SUBSET Relays, at : Relays \cup {None}]

Device ==
  /\ world.relays \subseteq Relays /\ world.calls \in {"patch", "restart", "update"}
  /\ up \in [Relays -> BOOLEAN] /\ managed \in [Relays -> BOOLEAN]
  /\ subs \in [Relays -> Subscriptions] /\ reqs \in [Relays -> Subscriptions]
  /\ on_event \in [Relays -> {"source", "zap", "freed"}]
  /\ listener \in [Relays -> Listeners]
  /\ ws \in [Relays -> Tasks]
  /\ wire \in [Relays -> Arrived]
  /\ caller \in Callers
  /\ keys \in Keys \cup {None} /\ current \in Keys
  /\ published \subseteq Zaps
  /\ lru \in Seq(Zaps) /\ Len(lru) <= kCap

LEMMA ConstantTypes ==
  /\ NoFilters \in Subscriptions /\ Idle \in Tasks
  /\ None \in Filters /\ "app data" \in Filters /\ Keys \subseteq Filters
  /\ None \in Arrived
<1>1. NoFilters \in Subscriptions
  BY DEF NoFilters, Subscriptions, Filters
<1> QED BY <1>1 DEF Idle, Tasks, Filters, Arrived

LEMMA DeviceInit == Init => Device
<1> SUFFICES ASSUME Init PROVE Device
  OBVIOUS
<1>1. world.relays \subseteq Relays /\ world.calls \in {"patch", "restart", "update"}
  BY ZapListenerAssumption DEF Init
<1>2. up \in [Relays -> BOOLEAN] /\ managed \in [Relays -> BOOLEAN]
  BY Zenon DEF Init
<1>3. subs \in [Relays -> Subscriptions]
  <2> DEFINE filters(r) ==
        IF r \notin world.relays THEN NoFilters
        ELSE [id \in Ids |-> IF id = "zap" THEN keys
                             ELSE IF world.ridden THEN "app data" ELSE None]
  <2>1. \A r \in Relays : filters(r) \in Subscriptions
    BY ConstantTypes DEF Init, Subscriptions
  <2>2. subs = [r \in Relays |-> filters(r)]
    BY DEF Init
  <2> HIDE DEF filters
  <2> QED BY <2>1, <2>2
<1>4. /\ reqs \in [Relays -> Subscriptions] /\ ws \in [Relays -> Tasks]
      /\ wire \in [Relays -> Arrived]
  BY ConstantTypes DEF Init
<1>5. listener \in [Relays -> Listeners] /\ caller \in Callers
      /\ on_event \in [Relays -> {"source", "zap", "freed"}]
  BY DEF Init, Listeners, Callers
<1>6. lru \in Seq(Zaps) /\ Len(lru) <= kCap
  <2>1. lru = <<>>
    BY DEF Init
  <2>2. lru \in Seq(Zaps) /\ Len(lru) = 0
    BY <2>1
  <2> QED BY <2>2, ZapListenerAssumption
<1> QED BY <1>1, <1>2, <1>3, <1>4, <1>5, <1>6 DEF Init, Device

LEMMA RingBounded ==
  ASSUME Device, NEW z \in Zaps, OnZap(z)
  PROVE  lru' \in Seq(Zaps) /\ Len(lru') <= kCap
<1>1. kCap \in Nat \ {0} /\ lru \in Seq(Zaps) /\ Len(lru) <= kCap /\ Len(lru) \in Nat
  BY ZapListenerAssumption DEF Device
<1>2. CASE UNCHANGED lru
  BY <1>1, <1>2
<1>3. CASE lru' = MarkFresh(z)
  <2>1. CASE Len(lru) < kCap
    BY <1>1, <1>3, <2>1 DEF MarkFresh
  <2>2. CASE ~(Len(lru) < kCap)
    <3>1. lru # <<>> /\ Tail(lru) \in Seq(Zaps) /\ Len(Tail(lru)) = Len(lru) - 1
      BY <1>1, <2>2
    <3> DEFINE t == Tail(lru)
    <3>2. lru' = Append(t, z)
      BY <1>3, <2>2 DEF MarkFresh
    <3> HIDE DEF t
    <3>3. t \in Seq(Zaps) /\ Len(t) = Len(lru) - 1
      BY <3>1 DEF t
    <3> QED BY <1>1, <3>2, <3>3
  <2> QED BY <2>1, <2>2
<1> QED BY <1>2, <1>3 DEF OnZap

LEMMA SocketKeepsDevice ==
  ASSUME Device, NEW r \in world.relays,
         Connected(r) \/ Disconnected(r) \/ SocketTask(r) \/ RelaySends(r)
  PROVE  Device'
<1> USE DEF Device
<1>1. r \in Relays
  OBVIOUS
<1>2. CASE Connected(r)
  <2>1. up' \in [Relays -> BOOLEAN]
    BY <1>2, Zenon DEF Connected
  <2>2. [Idle EXCEPT !.doing = "connected"] \in Tasks
    <3>1. [Idle EXCEPT !.doing = "connected"]
            = [doing |-> "connected", zap |-> None, copy |-> NoFilters]
      BY DEF Idle
    <3> QED BY <3>1, ConstantTypes DEF Tasks
  <2>3. ws' \in [Relays -> Tasks]
    BY <1>2, <2>2 DEF Connected, Does
  <2> QED BY <1>2, <2>1, <2>3 DEF Connected, memory, history
<1>3. CASE CopySubs(r)
  <2>1. [doing |-> "reissue", zap |-> None, copy |-> subs[r]] \in Tasks
    BY <1>1 DEF Tasks
  <2>2. ws' \in [Relays -> Tasks]
    BY <1>3, <2>1 DEF CopySubs, Does
  <2> QED BY <1>3, <2>2 DEF CopySubs, memory, history
<1>4. CASE ReissueAll(r)
  <2>1. reqs[r] \in Subscriptions /\ ws[r].copy \in Subscriptions
    BY <1>1 DEF Tasks
  <2>2. Asked(r, ws[r].copy) \in Subscriptions
    BY <2>1 DEF Asked, Subscriptions
  <2>3. reqs' \in [Relays -> Subscriptions] /\ ws' \in [Relays -> Tasks]
    BY <1>4, <2>2, ConstantTypes DEF ReissueAll, Does
  <2> QED BY <1>4, <2>3 DEF ReissueAll, memory, history
<1>5. CASE Disconnected(r)
  <2>1. up' \in [Relays -> BOOLEAN]
    BY <1>5, Zenon DEF Disconnected
  <2>2. reqs' \in [Relays -> Subscriptions] /\ wire' \in [Relays -> Arrived]
    BY <1>5, ConstantTypes DEF Disconnected
  <2> QED BY <1>5, <2>1, <2>2 DEF Disconnected, memory, history
<1>6. CASE SourceTakes(r)
  <2>1. wire' \in [Relays -> Arrived]
    BY <1>6, ConstantTypes DEF SourceTakes, Took
  <2> QED BY <1>6, <2>1 DEF SourceTakes, memory
<1>7. CASE Panic
  BY <1>7 DEF Panic, memory, history
<1>8. CASE ListenerTakes(r) /\ ~Panic
  <2>1. wire' \in [Relays -> Arrived]
    BY <1>8, ConstantTypes DEF ListenerTakes, Took
  <2>2. wire[r].id = "zap" => wire[r].zap \in Zaps
    BY <1>1, <1>8 DEF ListenerTakes, Arrived
  <2>3. ASSUME wire[r].id = "zap", NEW d \in {"handle", "dangle"}
        PROVE  [doing |-> d, zap |-> wire[r].zap, copy |-> NoFilters] \in Tasks
    BY <2>2, <2>3, ConstantTypes DEF Tasks
  <2>4. ws' \in [Relays -> Tasks]
    BY <1>8, <2>3 DEF ListenerTakes, Does
  <2> QED BY <1>8, <2>1, <2>4 DEF ListenerTakes, memory, history
<1>9. CASE Handle(r) \/ (HandleFreed(r) /\ ~Panic)
  <2>1. ws' \in [Relays -> Tasks] /\ ws[r] \in Tasks
    BY <1>1, <1>9, ConstantTypes DEF Handle, HandleFreed, Does
  <2>2. ws[r].zap \in Zaps
    BY <1>9, <2>1 DEF Handle, HandleFreed, Tasks
  <2>3. listener' \in [Relays -> Listeners]
    <3>1. CASE listener' = [listener EXCEPT ![r].last = ws[r].zap]
      <4>1. ws[r].zap \in Nat
        BY <2>2, ZapListenerAssumption
      <4>2. [listener[r] EXCEPT !.last = ws[r].zap] \in Listeners
        BY <1>1, <4>1 DEF Listeners
      <4> QED BY <3>1, <4>2
    <3> QED BY <1>9, <3>1 DEF Handle, HandleFreed
  <2>4. lru' \in Seq(Zaps) /\ Len(lru') <= kCap
    <3>1. OnZap(ws[r].zap) \/ UNCHANGED lru
      BY <1>9 DEF Handle, HandleFreed
    <3> QED BY <2>2, <3>1, RingBounded
  <2> QED BY <1>9, <2>1, <2>3, <2>4 DEF Handle, HandleFreed
<1>10. CASE RelaySends(r)
  <2>1. wire' \in [Relays -> Arrived]
    <3>1. \A z \in published : [id |-> "zap", zap |-> z] \in Arrived
      BY DEF Arrived
    <3>2. [id |-> "data", zap |-> None] \in Arrived
      BY DEF Arrived
    <3> QED BY <1>10, <3>1, <3>2 DEF RelaySends
  <2> QED BY <1>10, <2>1 DEF RelaySends, memory, history
<1> QED
  BY <1>2, <1>3, <1>4, <1>5, <1>6, <1>7, <1>8, <1>9, <1>10 DEF SocketTask

(* What each program of the calling task has done, and has left to do.     *)
Programs ==
  /\ caller.at # None => caller.doing \in {"build", "start"}
  /\ caller.doing = "stop" =>
       /\ world.calls \in {"patch", "update"}
       /\ \A r \in Relays : Listening(r) => r \in caller.left
  /\ caller.doing = "build" =>
       /\ world.calls = "patch"
       /\ \A r \in caller.left : ~Listening(r)
  /\ world.calls = "patch" /\ caller.doing \in {"stop", "build"} => keys \in Keys
  /\ caller.doing = "shut" => world.calls \in {"restart", "update"}
  /\ caller.doing = "start" => world.calls = "restart"
  /\ caller.doing = "flash" => world.calls = "update"

(* Listeners go before the managers they borrow. *)
Borrowed ==
  world.calls = "update" =>
    IF caller.doing \in {"idle", "stop"} THEN \A r \in Relays : managed[r]
                                         ELSE \A r \in Relays : ~Listening(r)

Subscribed ==
  world.calls # "restart" => \A r \in Relays : Listening(r) <=> subs[r]["zap"] # None

(* A subscription the relay was not asked for is in somebody's hands.      *)
Sending == IF caller.doing = "build" THEN "zap" ELSE "data"

Healed(r, id) ==
  up[r] /\ subs[r][id] # None =>
    \/ reqs[r][id] # None
    \/ ws[r].doing = "connected"
    \/ ws[r].doing = "reissue" /\ ws[r].copy[id] # None
    \/ caller.at = r /\ id = Sending

DInv ==
  /\ Device /\ Programs /\ Borrowed /\ Subscribed
  /\ \A r \in Relays, id \in Ids : Healed(r, id)

(* The socket tasks leave all of it to the calling task. *)
LEMMA SocketKeepsPrograms ==
  ASSUME DInv, NEW r \in world.relays,
         Connected(r) \/ Disconnected(r) \/ SocketTask(r) \/ RelaySends(r)
  PROVE  Programs' /\ Borrowed' /\ Subscribed'
<1>1. r \in Relays
  BY DEF DInv, Device
<1>2. UNCHANGED <<world, subs, managed, caller, keys>>
  BY DEF Connected, Disconnected, SocketTask, RelaySends, CopySubs, ReissueAll, SourceTakes,
         ListenerTakes, Panic, Handle, HandleFreed, memory, history
<1>3. \A q \in Relays : Listening(q)' <=> Listening(q)
  <2>1. UNCHANGED listener \/ \E z : listener' = [listener EXCEPT ![r].last = z]
    BY DEF Connected, Disconnected, SocketTask, RelaySends, CopySubs, ReissueAll, SourceTakes,
           ListenerTakes, Panic, Handle, HandleFreed, memory, history
  <2>2. listener \in [Relays -> Listeners]
    BY DEF DInv, Device
  <2>3. \A q \in Relays : listener'[q].state = listener[q].state
    BY <1>1, <2>1, <2>2 DEF Listeners
  <2> QED BY <2>3 DEF Listening
<1>4. caller.left \subseteq Relays
  BY DEF DInv, Device, Callers
<1> QED BY <1>2, <1>3, <1>4 DEF DInv, Programs, Borrowed, Subscribed

LEMMA SocketKeepsHealed ==
  ASSUME DInv, NEW r \in world.relays,
         Connected(r) \/ Disconnected(r) \/ SocketTask(r) \/ RelaySends(r),
         NEW q \in Relays, NEW id \in Ids
  PROVE  Healed(q, id)'
<1>1. r \in Relays /\ Healed(q, id)
  BY DEF DInv, Device
<1>2. UNCHANGED <<subs, caller>>
  BY DEF Connected, Disconnected, SocketTask, RelaySends, CopySubs, ReissueAll, SourceTakes,
         ListenerTakes, Panic, Handle, HandleFreed, memory, history
<1>3. up \in [Relays -> BOOLEAN] /\ subs \in [Relays -> Subscriptions]
      /\ reqs \in [Relays -> Subscriptions] /\ ws \in [Relays -> Tasks]
  BY DEF DInv, Device
<1>4. CASE Connected(r)
  <2>1. q # r => up'[q] = up[q] /\ ws'[q] = ws[q]
    BY <1>3, <1>4 DEF Connected, Does
  <2>2. ws'[r].doing = "connected" /\ UNCHANGED reqs
    BY <1>1, <1>3, <1>4 DEF Connected, Does, Idle
  <2> QED BY <1>1, <1>2, <2>1, <2>2 DEF Healed, Sending
<1>5. CASE CopySubs(r)
  <2>1. ws' = [ws EXCEPT ![r] = [doing |-> "reissue", zap |-> None, copy |-> subs[r]]]
        /\ UNCHANGED <<up, reqs>>
    BY <1>5 DEF CopySubs, Does
  <2> QED BY <1>1, <1>2, <1>3, <2>1 DEF Healed, Sending
<1>6. CASE ReissueAll(r)
  <2>1. reqs' = [reqs EXCEPT ![r] = Asked(r, ws[r].copy)] /\ UNCHANGED up
        /\ ws' = [ws EXCEPT ![r] = Idle] /\ ws[r].doing = "reissue"
    BY <1>6 DEF ReissueAll, Does
  <2>2. reqs'[r][id] = IF ws[r].copy[id] # None THEN ws[r].copy[id] ELSE reqs[r][id]
    BY <1>1, <1>3, <2>1 DEF Asked
  <2>3. q # r => reqs'[q] = reqs[q] /\ ws'[q] = ws[q]
    BY <1>3, <2>1
  <2> QED BY <1>1, <1>2, <2>1, <2>2, <2>3 DEF Healed, Sending
<1>7. CASE Disconnected(r)
  <2>1. ~up'[r] /\ UNCHANGED ws /\ (q # r => up'[q] = up[q] /\ reqs'[q] = reqs[q])
    BY <1>1, <1>3, <1>7 DEF Disconnected
  <2> QED BY <1>1, <1>2, <2>1 DEF Healed, Sending
<1>8. CASE SourceTakes(r) \/ ListenerTakes(r) \/ Handle(r) \/ HandleFreed(r) \/ RelaySends(r)
  <2>1. UNCHANGED <<up, reqs>>
    BY <1>8 DEF SourceTakes, ListenerTakes, Handle, HandleFreed, RelaySends, Panic
  <2>2. UNCHANGED ws
        \/ (ws[r].doing \notin {"connected", "reissue"} /\ \E t : ws' = [ws EXCEPT ![r] = t])
    BY <1>8 DEF SourceTakes, ListenerTakes, Handle, HandleFreed, RelaySends, Panic, Does, Idle
  <2>3. q # r => ws'[q] = ws[q]
    BY <1>3, <2>2
  <2> QED BY <1>1, <1>2, <2>1, <2>2, <2>3 DEF Healed, Sending
<1> QED BY <1>4, <1>5, <1>6, <1>7, <1>8 DEF SocketTask

(* The calling task, program by program.                                   *)
LEMMA TurnsTyped ==
  ASSUME NEW doing \in {"idle", "stop", "build", "shut", "start", "flash"},
         NEW left \in SUBSET Relays, Turns(doing, left)
  PROVE  caller' \in Callers /\ caller'.doing = doing /\ caller'.left = left
         /\ caller'.at = None
BY DEF Turns, Callers

(* Where a program begins, or goes on to its next part.                    *)
LEMMA TurningKeepsDInv ==
  ASSUME DInv, PatchKeys \/ StartUpdate \/ RestartSources \/ Refreshed \/ ListenersStopped
               \/ Stopped \/ Restarted
  PROVE  DInv'
<1> USE DEF DInv
<1>1. Wired \subseteq Relays /\ world.relays \subseteq Relays /\ {} \subseteq Relays
      /\ \A r \in Relays : Listening(r) => r \in Wired
  BY DEF Wired, Listening, Device
<1>2. UNCHANGED <<world, up, reqs, wire, subs, on_event, managed, listener, ws, lru, published>>
  BY DEF PatchKeys, StartUpdate, RestartSources, Refreshed, ListenersStopped, Stopped,
         Restarted, memory, history
<1>3. \A r \in Relays : Listening(r)' <=> Listening(r)
  BY <1>2 DEF Listening
<1>4. caller' \in Callers /\ keys' \in Keys \cup {None} /\ current' \in Keys
      /\ Programs' /\ Borrowed' /\ (caller.at # None => UNCHANGED caller)
  <2>1. CASE PatchKeys
    <3>1. keys' \in Keys \cup {None} /\ UNCHANGED current /\ world.calls = "patch"
          /\ caller.doing = "idle"
      BY <2>1 DEF PatchKeys, memory, Calls
    <3>2. CASE UNCHANGED caller
      BY <1>2, <1>3, <3>1, <3>2 DEF Device, Programs, Borrowed
    <3>3. CASE ~(UNCHANGED caller)
      <4>1. Turns("stop", Wired) /\ keys' \in Keys
        BY <2>1, <3>3 DEF PatchKeys
      <4>2. caller' \in Callers /\ caller'.doing = "stop" /\ caller'.left = Wired
            /\ caller'.at = None
        BY <1>1, <4>1, TurnsTyped
      <4> QED BY <1>1, <1>2, <1>3, <3>1, <4>1, <4>2 DEF Device, Programs, Borrowed
    <3> QED BY <3>2, <3>3
  <2>2. CASE StartUpdate
    <3>1. caller' \in Callers /\ caller'.doing = "stop" /\ caller'.left = Wired
          /\ caller'.at = None
      BY <1>1, <2>2, TurnsTyped DEF StartUpdate
    <3>2. UNCHANGED <<keys, current>> /\ world.calls = "update" /\ caller.doing = "idle"
      BY <2>2 DEF StartUpdate, memory, Calls
    <3> QED BY <1>1, <1>2, <1>3, <3>1, <3>2 DEF Device, Programs, Borrowed
  <2>3. CASE RestartSources
    <3>1. caller' \in Callers /\ caller'.doing = "shut" /\ caller'.left = world.relays
          /\ caller'.at = None
      BY <1>1, <2>3, TurnsTyped DEF RestartSources
    <3>2. UNCHANGED <<keys, current>> /\ world.calls = "restart" /\ caller.doing = "idle"
      BY <2>3 DEF RestartSources, memory, Calls
    <3> QED BY <1>1, <1>2, <1>3, <3>1, <3>2 DEF Device, Programs, Borrowed
  <2>4. CASE Refreshed
    <3>1. caller' \in Callers /\ caller'.doing = "idle" /\ caller'.left = {}
          /\ caller'.at = None
      BY <1>1, <2>4, TurnsTyped DEF Refreshed
    <3>2. UNCHANGED keys /\ current' = keys /\ caller.doing = "build" /\ world.calls = "patch"
          /\ caller.at = None
      BY <2>4 DEF Refreshed, Programs
    <3> QED BY <1>1, <1>2, <1>3, <3>1, <3>2 DEF Device, Programs, Borrowed
  <2>5. CASE ListenersStopped
    <3>1. caller' \in Callers /\ caller'.doing = "shut" /\ caller'.left = world.relays
          /\ caller'.at = None
      BY <1>1, <2>5, TurnsTyped DEF ListenersStopped
    <3>2. UNCHANGED <<keys, current>> /\ world.calls = "update" /\ caller.doing = "stop"
          /\ caller.left = {}
      BY <2>5 DEF ListenersStopped, memory
    <3>3. \A r \in Relays : ~Listening(r)
      BY <3>2 DEF Programs
    <3> QED BY <1>1, <1>2, <1>3, <3>1, <3>2, <3>3 DEF Device, Programs, Borrowed
  <2>6. CASE Stopped
    <3>1. UNCHANGED <<keys, current>> /\ caller.doing = "shut"
          /\ world.calls \in {"restart", "update"} /\ caller.at = None
      BY <2>6 DEF Stopped, memory, Programs
    <3>2. PICK doing \in {"start", "flash"}, left \in SUBSET Relays :
            /\ Turns(doing, left)
            /\ doing = "start" <=> world.calls = "restart"
      BY <1>1, <2>6 DEF Stopped
    <3>3. caller' \in Callers /\ caller'.doing = doing /\ caller'.left = left
          /\ caller'.at = None
      BY <3>2, TurnsTyped
    <3> QED BY <1>1, <1>2, <1>3, <3>1, <3>2, <3>3 DEF Device, Programs, Borrowed
  <2>7. CASE Restarted
    <3>1. caller' \in Callers /\ caller'.doing = "idle" /\ caller'.left = {}
          /\ caller'.at = None
      BY <1>1, <2>7, TurnsTyped DEF Restarted
    <3>2. UNCHANGED <<keys, current>> /\ world.calls = "restart" /\ caller.at = None
      BY <2>7 DEF Restarted, memory, Programs
    <3> QED BY <1>1, <1>2, <1>3, <3>1, <3>2 DEF Device, Programs, Borrowed
  <2> QED
    BY <2>1, <2>2, <2>3, <2>4, <2>5, <2>6, <2>7
<1>5. Device'
  BY <1>2, <1>4 DEF Device
<1>6. Subscribed'
  BY <1>2, <1>3 DEF Subscribed
<1>7. \A r \in Relays, id \in Ids : Healed(r, id)'
  <2>1. \A r \in Relays : caller.at = r => UNCHANGED caller
    BY <1>4, ZapListenerAssumption
  <2> QED BY <1>2, <2>1 DEF Healed, Sending
<1> QED BY <1>4, <1>5, <1>6, <1>7

LEMMA StopListenerKeepsDInv ==
  ASSUME DInv, NEW r \in Relays, StopListener(r)
  PROVE  DInv'
<1> USE DEF DInv
<1>1. /\ UNCHANGED <<world, up, wire, on_event, managed, ws, keys, current, lru, published>>
      /\ caller.doing = "stop" /\ r \in caller.left
      /\ listener' = [listener EXCEPT ![r].state = "stopped"]
  BY DEF StopListener, history
<1>2. caller.left \ {r} \in SUBSET Relays
  BY DEF Device, Callers
<1>3. caller' \in Callers /\ caller'.doing = "stop" /\ caller'.left = caller.left \ {r}
      /\ caller'.at = None
  BY <1>2, TurnsTyped DEF StopListener
<1>4. /\ listener' \in [Relays -> Listeners]
      /\ \A q \in Relays : Listening(q)' <=> Listening(q) /\ q # r
  BY <1>1 DEF Device, Listeners, Listening
<1>5. /\ subs' \in [Relays -> Subscriptions] /\ reqs' \in [Relays -> Subscriptions]
      /\ \A q \in Relays, id \in Ids :
           \/ subs'[q][id] = subs[q][id] /\ reqs'[q][id] = reqs[q][id]
           \/ q = r /\ id = "zap" /\ subs'[q][id] = None
      /\ Listening(r) => subs'[r]["zap"] = None
      /\ \A q \in Relays : q # r \/ ~Listening(r) => subs'[q] = subs[q]
  <2>1. CASE Listening(r)
    <3>1. subs' = [subs EXCEPT ![r]["zap"] = None]
          /\ reqs' \in {reqs, [reqs EXCEPT ![r]["zap"] = None]}
      BY <2>1 DEF StopListener, Unsubscribed
    <3>2. /\ subs \in [Relays -> Subscriptions] /\ reqs \in [Relays -> Subscriptions]
          /\ "zap" \in Ids /\ None \in Filters
      BY ConstantTypes DEF Device, Ids
    <3>3. [subs EXCEPT ![r]["zap"] = None] \in [Relays -> Subscriptions]
          /\ [reqs EXCEPT ![r]["zap"] = None] \in [Relays -> Subscriptions]
      BY <3>2 DEF Subscriptions
    <3>4. ASSUME NEW q \in Relays, NEW id \in Ids
          PROVE  \/ subs'[q][id] = subs[q][id] /\ reqs'[q][id] = reqs[q][id]
                 \/ q = r /\ id = "zap" /\ subs'[q][id] = None
      BY <3>1, <3>2 DEF Subscriptions
    <3>5. subs'[r]["zap"] = None /\ \A q \in Relays : q # r => subs'[q] = subs[q]
      BY <3>1, <3>2 DEF Subscriptions
    <3> QED BY <2>1, <3>1, <3>2, <3>3, <3>4, <3>5
  <2>2. CASE ~Listening(r)
    BY <2>2 DEF StopListener, Device
  <2> QED BY <2>1, <2>2
<1>6. Device'
  BY <1>1, <1>3, <1>4, <1>5 DEF Device
<1>7. Programs' /\ Borrowed'
  BY <1>1, <1>3, <1>4 DEF Programs, Borrowed
<1>8. Subscribed'
  BY <1>1, <1>4, <1>5 DEF Subscribed
<1>9. ASSUME NEW q \in Relays, NEW id \in Ids
      PROVE  Healed(q, id)'
  <2>1. caller.at = None
    BY <1>1 DEF Programs
  <2> QED BY <1>1, <1>3, <1>5, <2>1, ZapListenerAssumption DEF Healed
<1> QED BY <1>6, <1>7, <1>8, <1>9

LEMMA FreeListenersKeepsDInv ==
  ASSUME DInv, FreeListeners
  PROVE  DInv'
<1> USE DEF DInv
<1>1. /\ UNCHANGED <<world, up, reqs, wire, subs, managed, keys, current, lru, published>>
      /\ caller.doing = "stop" /\ caller.left = {} /\ world.calls = "patch"
      /\ listener' = [r \in Relays |-> [state |-> "none", last |-> 0]]
      /\ on_event' = [r \in Relays |-> IF on_event[r] = "zap" THEN "freed" ELSE on_event[r]]
      /\ ws' = [r \in Relays |-> IF ws[r].doing = "handle" THEN [ws[r] EXCEPT !.doing = "dangle"]
                                 ELSE ws[r]]
  BY DEF FreeListeners, history
<1>2. caller' \in Callers /\ caller'.doing = "build" /\ caller'.left = world.relays
      /\ caller'.at = None
  BY TurnsTyped DEF FreeListeners, Device
<1>3. listener' \in [Relays -> Listeners] /\ \A r \in Relays : ~Listening(r)'
  BY <1>1 DEF Listeners, Listening
<1>4. on_event' \in [Relays -> {"source", "zap", "freed"}]
  BY <1>1 DEF Device
<1>5. /\ ws' \in [Relays -> Tasks]
      /\ \A r \in Relays : ws[r].doing \in {"connected", "reissue"} => ws'[r] = ws[r]
  <2>1. ASSUME NEW r \in Relays, ws[r].doing = "handle"
        PROVE  [ws[r] EXCEPT !.doing = "dangle"] \in Tasks
    <3>1. ws[r] \in Tasks
      BY DEF Device
    <3> QED BY <2>1, <3>1 DEF Tasks
  <2> QED BY <1>1, <2>1 DEF Device
<1>6. Device'
  BY <1>1, <1>2, <1>3, <1>4, <1>5 DEF Device
<1>7. \A r \in Relays : ~Listening(r)
  BY <1>1 DEF Programs
<1>8. Programs' /\ Borrowed' /\ Subscribed'
  BY <1>1, <1>2, <1>3, <1>7 DEF Programs, Borrowed, Subscribed, Device
<1>9. ASSUME NEW q \in Relays, NEW id \in Ids
      PROVE  Healed(q, id)'
  <2>1. caller.at # q
    BY <1>1, ZapListenerAssumption DEF Programs
  <2> QED BY <1>1, <1>5, <2>1 DEF Healed
<1> QED BY <1>6, <1>8, <1>9

(* Subscribe() leaves the new subscription with the task that sends it.    *)
LEMMA SubscribingHeals ==
  ASSUME DInv, NEW r \in Relays, NEW sub \in Ids, NEW filter \in Filters,
         Subscribing(r, sub, filter), caller.at = None, sub = Sending,
         UNCHANGED <<up, reqs, ws>>
  PROVE  /\ subs' \in [Relays -> Subscriptions] /\ caller' \in Callers
         /\ caller'.doing = caller.doing /\ caller'.left = caller.left \ {r}
         /\ caller'.at \in {None, r}
         /\ subs[r][sub] = None => subs' = [subs EXCEPT ![r][sub] = filter]
         /\ subs[r][sub] # None => UNCHANGED subs
         /\ \A q \in Relays, id \in Ids : Healed(q, id)'
<1> USE DEF DInv
<1>1. caller \in Callers /\ subs \in [Relays -> Subscriptions]
  BY DEF Device
<1>2. /\ caller' \in Callers /\ caller'.doing = caller.doing
      /\ caller'.left = caller.left \ {r}
      /\ caller'.at = IF subs[r][sub] # None THEN None ELSE r
  <2> DEFINE rest == caller.left \ {r}
  <2>1. rest \in SUBSET Relays /\ caller.at = None
    BY <1>1 DEF Callers
  <2>2. \A at \in Relays \cup {None} :
          LET c == [caller EXCEPT !.left = rest, !.at = at]
          IN  c \in Callers /\ c.doing = caller.doing /\ c.left = rest /\ c.at = at
    <3> HIDE DEF rest
    <3> QED BY <1>1, <2>1 DEF Callers
  <2>3. caller = [caller EXCEPT !.at = None]
    BY <1>1, <2>1 DEF Callers
  <2>4. CASE subs[r][sub] # None
    <3>1. caller' = [caller EXCEPT !.left = rest]
      BY <2>4 DEF Subscribing
    <3>2. caller' = [caller EXCEPT !.left = rest, !.at = None]
      <4> HIDE DEF rest
      <4> QED BY <1>1, <2>1, <3>1 DEF Callers
    <3> QED BY <2>2, <2>4, <3>2
  <2>5. CASE subs[r][sub] = None
    <3>1. caller' = [caller EXCEPT !.left = rest, !.at = r]
      BY <2>5 DEF Subscribing
    <3> QED BY <2>2, <2>5, <3>1
  <2> QED BY <2>4, <2>5
<1>3. /\ subs[r][sub] = None => subs' = [subs EXCEPT ![r][sub] = filter]
      /\ subs[r][sub] # None => UNCHANGED subs
  BY DEF Subscribing
<1>4. subs' \in [Relays -> Subscriptions]
  BY <1>1, <1>3 DEF Subscriptions
<1>5. ASSUME NEW q \in Relays, NEW id \in Ids
      PROVE  Healed(q, id)'
  <2>1. Sending' = sub
    BY <1>2 DEF Sending
  <2>2. CASE q = r /\ id = sub /\ subs[r][sub] = None
    BY <1>2, <2>1, <2>2 DEF Healed
  <2>3. CASE ~(q = r /\ id = sub /\ subs[r][sub] = None)
    <3>1. subs'[q][id] = subs[q][id]
      BY <1>1, <1>3, <2>3 DEF Subscriptions
    <3>2. caller.at # q
      BY ZapListenerAssumption
    <3> QED BY <3>1, <3>2 DEF Healed
  <2> QED BY <2>2, <2>3
<1> QED BY <1>2, <1>3, <1>4, <1>5

LEMMA BuildListenerKeepsDInv ==
  ASSUME DInv, NEW r \in Relays, BuildListener(r)
  PROVE  DInv'
<1> USE DEF DInv
<1>1. /\ UNCHANGED <<world, up, reqs, wire, managed, ws, keys, current, lru, published>>
      /\ caller.doing = "build" /\ r \in caller.left /\ caller.at = None
      /\ Subscribing(r, "zap", keys)
  BY DEF BuildListener, history
<1>2. world.calls = "patch" /\ keys \in Keys /\ "zap" \in Ids /\ Sending = "zap"
      /\ keys \in Filters /\ keys # None
  BY <1>1, ConstantTypes, ZapListenerAssumption DEF Programs, Ids, Sending
<1>3. subs[r]["zap"] = None
  BY <1>1, <1>2 DEF Programs, Subscribed
<1>4. /\ listener' = [listener EXCEPT ![r].state = "started"]
      /\ on_event' = [on_event EXCEPT ![r] = "zap"]
  BY <1>3 DEF BuildListener
<1>5. /\ listener' \in [Relays -> Listeners]
      /\ \A q \in Relays : Listening(q)' <=> Listening(q) \/ q = r
  BY <1>4 DEF Device, Listeners, Listening
<1>6. on_event' \in [Relays -> {"source", "zap", "freed"}]
  BY <1>4 DEF Device
<1>7. /\ subs' \in [Relays -> Subscriptions] /\ caller' \in Callers
      /\ caller'.doing = caller.doing /\ caller'.left = caller.left \ {r}
      /\ subs' = [subs EXCEPT ![r]["zap"] = keys]
      /\ \A q \in Relays, id \in Ids : Healed(q, id)'
  BY <1>1, <1>2, <1>3, SubscribingHeals
<1>8. Device'
  BY <1>1, <1>5, <1>6, <1>7 DEF Device
<1>9. \A q \in Relays : subs'[q]["zap"] = IF q = r THEN keys ELSE subs[q]["zap"]
  BY <1>2, <1>7 DEF Device, Subscriptions
<1>10. Subscribed'
  BY <1>1, <1>2, <1>5, <1>9 DEF Subscribed
<1>11. Programs' /\ Borrowed'
  <2>1. caller.left \subseteq Relays
    BY DEF Device, Callers
  <2> QED BY <1>1, <1>2, <1>5, <1>7, <2>1 DEF Programs, Borrowed
<1> QED BY <1>7, <1>8, <1>10, <1>11

LEMMA SendReqKeepsDInv ==
  ASSUME DInv, SendReq
  PROVE  DInv'
<1> USE DEF DInv
<1>1. /\ UNCHANGED <<world, up, wire, subs, on_event, managed, listener, ws, keys, current, lru,
                    published>>
      /\ caller.at # None /\ caller' = [caller EXCEPT !.at = None]
  BY DEF SendReq, memory, history
<1>2. PICK r \in Relays : r = caller.at
  BY <1>1 DEF Device, Callers
<1>3. caller' \in Callers /\ caller'.doing = caller.doing /\ caller'.left = caller.left
      /\ caller'.at = None
  BY <1>1 DEF Device, Callers
<1>4. /\ reqs' \in [Relays -> Subscriptions]
      /\ \A q \in Relays, id \in Ids :
           reqs'[q][id] = IF up[r] /\ q = r /\ id = Sending THEN subs[r][id] ELSE reqs[q][id]
  <2>1. reqs' = IF up[r] THEN [reqs EXCEPT ![r][Sending] = subs[r][Sending]] ELSE reqs
    BY <1>2 DEF SendReq, Sending
  <2>2. subs[r][Sending] \in Filters /\ Sending \in Ids
        /\ reqs \in [Relays -> [Ids -> Filters]]
    BY DEF Device, Subscriptions, Sending, Ids
  <2> QED BY <2>1, <2>2 DEF Subscriptions
<1>5. Device'
  BY <1>1, <1>3, <1>4 DEF Device
<1>6. Programs' /\ Borrowed' /\ Subscribed'
  BY <1>1, <1>3 DEF Programs, Borrowed, Subscribed, Listening, Device
<1>7. ASSUME NEW q \in Relays, NEW id \in Ids
      PROVE  Healed(q, id)'
  BY <1>1, <1>2, <1>4 DEF Healed
<1> QED BY <1>5, <1>6, <1>7

LEMMA StopRelayKeepsDInv ==
  ASSUME DInv, NEW r \in Relays, StopRelay(r)
  PROVE  DInv'
<1> USE DEF DInv
<1>1. /\ UNCHANGED <<world, on_event, listener, ws, keys, current, lru, published>>
      /\ caller.doing = "shut" /\ r \in caller.left
      /\ up' = [up EXCEPT ![r] = FALSE]
      /\ reqs' = [reqs EXCEPT ![r] = NoFilters]
      /\ wire' = [wire EXCEPT ![r] = None]
      /\ managed' \in {managed, [managed EXCEPT ![r] = FALSE]}
      /\ subs' \in {subs, [subs EXCEPT ![r] = NoFilters]}
  BY DEF StopRelay, history
<1>2. caller.left \ {r} \in SUBSET Relays
  BY DEF Device, Callers
<1>3. caller' \in Callers /\ caller'.doing = "shut" /\ caller'.left = caller.left \ {r}
      /\ caller'.at = None
  BY <1>2, TurnsTyped DEF StopRelay
<1>4. up' \in [Relays -> BOOLEAN] /\ managed' \in [Relays -> BOOLEAN]
  BY <1>1, Zenon DEF Device
<1>5. /\ reqs' \in [Relays -> Subscriptions] /\ subs' \in [Relays -> Subscriptions]
      /\ wire' \in [Relays -> Arrived]
  BY <1>1, ConstantTypes DEF Device
<1>6. Device'
  BY <1>1, <1>3, <1>4, <1>5 DEF Device
<1>7. Programs' /\ Borrowed'
  BY <1>1, <1>3 DEF Programs, Borrowed, Listening
<1>8. Subscribed'
  <2> SUFFICES ASSUME world.calls # "restart", NEW q \in Relays
               PROVE  Listening(q)' <=> subs'[q]["zap"] # None
    BY <1>1 DEF Subscribed
  <2>1. ~Listening(q) /\ subs[q]["zap"] = None
    BY <1>1 DEF Programs, Borrowed, Subscribed
  <2>2. subs'[q] \in {subs[q], NoFilters} /\ NoFilters["zap"] = None
    BY <1>1 DEF Device, NoFilters, Ids
  <2> QED BY <1>1, <2>1, <2>2 DEF Listening
<1>9. ASSUME NEW q \in Relays, NEW id \in Ids
      PROVE  Healed(q, id)'
  <2>1. caller.at # q
    BY <1>1, ZapListenerAssumption DEF Programs
  <2>2. CASE q = r
    BY <1>1, <2>2 DEF Device, Healed
  <2>3. CASE q # r
    BY <1>1, <2>1, <2>3 DEF Device, Healed
  <2> QED BY <2>2, <2>3
<1> QED BY <1>6, <1>7, <1>8, <1>9

LEMMA StartSourceKeepsDInv ==
  ASSUME DInv, NEW r \in Relays, StartSource(r)
  PROVE  DInv'
<1> USE DEF DInv
<1>1. /\ UNCHANGED <<world, up, reqs, wire, listener, ws, keys, current, lru, published>>
      /\ caller.doing = "start" /\ caller.at = None
      /\ Subscribing(r, "data", "app data")
      /\ managed' = [managed EXCEPT ![r] = TRUE]
      /\ on_event' = [on_event EXCEPT ![r] = "source"]
  BY DEF StartSource, history
<1>2. world.calls = "restart" /\ "data" \in Ids /\ Sending = "data"
  BY <1>1 DEF Programs, Ids, Sending
<1>3. /\ subs' \in [Relays -> Subscriptions] /\ caller' \in Callers
      /\ caller'.doing = caller.doing
      /\ \A q \in Relays, id \in Ids : Healed(q, id)'
  BY <1>1, <1>2, ConstantTypes, SubscribingHeals
<1>4. managed' \in [Relays -> BOOLEAN]
  BY <1>1, Zenon DEF Device
<1>5. on_event' \in [Relays -> {"source", "zap", "freed"}]
  BY <1>1 DEF Device
<1>6. Device'
  BY <1>1, <1>3, <1>4, <1>5 DEF Device
<1>7. Programs' /\ Borrowed' /\ Subscribed'
  BY <1>1, <1>2, <1>3 DEF Programs, Borrowed, Subscribed
<1> QED BY <1>3, <1>6, <1>7

LEMMA DInvInit == Init => DInv
<1> SUFFICES ASSUME Init PROVE DInv
  OBVIOUS
<1>1. Device
  BY DeviceInit
<1>2. caller.doing = "idle" /\ caller.at = None /\ managed = [r \in Relays |-> TRUE]
      /\ up = [r \in Relays |-> FALSE] /\ keys \in Keys
  BY DEF Init
<1>3. Programs
  BY <1>2 DEF Programs
<1>4. Borrowed
  BY <1>2 DEF Borrowed
<1>5. Subscribed
  <2> SUFFICES ASSUME NEW r \in Relays
               PROVE  Listening(r) <=> subs[r]["zap"] # None
    BY DEF Subscribed
  <2>1. listener[r].state = IF r \in world.relays THEN "started" ELSE "none"
    BY DEF Init
  <2>2. subs[r]["zap"] = IF r \in world.relays THEN keys ELSE None
    BY DEF Init, NoFilters, Ids
  <2> QED BY <1>2, <2>1, <2>2, ZapListenerAssumption DEF Listening
<1>6. \A r \in Relays, id \in Ids : Healed(r, id)
  BY <1>2 DEF Healed
<1> QED BY <1>1, <1>3, <1>4, <1>5, <1>6 DEF DInv

LEMMA DInvNext == DInv /\ [Next]_vars => DInv'
<1> SUFFICES ASSUME DInv, [Next]_vars PROVE DInv'
  OBVIOUS
<1>1. ASSUME NEW r \in world.relays,
             Connected(r) \/ Disconnected(r) \/ SocketTask(r) \/ RelaySends(r)
      PROVE  DInv'
  <2>1. Device'
    BY <1>1, SocketKeepsDevice DEF DInv
  <2>2. Programs' /\ Borrowed' /\ Subscribed'
    BY <1>1, SocketKeepsPrograms
  <2>3. \A q \in Relays, id \in Ids : Healed(q, id)'
    BY <1>1, SocketKeepsHealed
  <2> QED BY <2>1, <2>2, <2>3 DEF DInv
<1>2. CASE PatchKeys \/ StartUpdate \/ RestartSources
  BY <1>2, TurningKeepsDInv
<1>3. CASE Proceeds
  BY <1>3, TurningKeepsDInv, StopListenerKeepsDInv, FreeListenersKeepsDInv,
     BuildListenerKeepsDInv, SendReqKeepsDInv, StopRelayKeepsDInv, StartSourceKeepsDInv
     DEF Proceeds
<1>4. CASE Publish \/ SntpLands \/ UNCHANGED vars
  <2>1. /\ UNCHANGED <<world, up, reqs, wire, subs, on_event, managed, listener, ws, caller, keys,
                       current, lru>>
        /\ published' \in SUBSET (Zaps \cup published)
    BY <1>4 DEF Publish, SntpLands, vars, memory, history
  <2>2. Device'
    BY <2>1 DEF DInv, Device
  <2> QED BY <2>1, <2>2 DEF DInv, Programs, Borrowed, Subscribed, Healed, Sending, Listening
<1> QED
  BY <1>1, <1>2, <1>3, <1>4 DEF Next

LEMMA Invariance == Spec => []DInv
<1>1. Init => DInv
  BY DInvInit
<1>2. DInv /\ [Next]_vars => DInv'
  BY DInvNext
<1> QED BY <1>1, <1>2, PTL DEF Spec

(* Type correctness: among it, a listener counts as started exactly while  *)
(* its subscription is in the manager's map.                               *)
THEOREM TypeCorrect == Spec => []TypeOK
<1>1. DInv => TypeOK
  BY DEF DInv, Device, TypeOK, Subscriptions, Tasks, Subscribed
<1> QED BY <1>1, Invariance, PTL

(* A connected relay that nobody is about to ask has been asked for every  *)
(* subscription, however Subscribe(), the reconnections and the calling    *)
(* task's programs crossed.                                                *)
THEOREM SubscriptionsHeal == Spec => []SelfHeals
<1>1. DInv => SelfHeals
  BY DEF DInv, SelfHeals, Healed
<1> QED BY <1>1, Invariance, PTL

(* An update frees no manager that a started listener refers to.           *)
THEOREM BorrowersAreStopped == Spec => []BorrowersStopFirst
<1>1. DInv => BorrowersStopFirst
  BY DEF DInv, Borrowed, BorrowersStopFirst
<1> QED BY <1>1, Invariance, PTL

(***************************************************************************)
(* The followed keys, relay by relay.  Two more facts are invariant: the   *)
(* manager's map has the keys that the last change left (those being       *)
(* installed, while the listeners are built), and REQs are sent again only *)
(* over a connection.                                                      *)
(***************************************************************************)

Patched(r) ==
  world.calls = "patch" /\ r \in world.relays =>
    /\ caller.doing = "idle" => subs[r]["zap"] = current
    /\ caller.doing = "build" /\ r \notin caller.left => subs[r]["zap"] = keys

Busy(r) == ws[r].doing \in {"connected", "reissue"}

KInv(r) == DInv /\ Patched(r) /\ (Busy(r) => up[r])

LEMMA KInvInit == ASSUME NEW r \in Relays, Init PROVE KInv(r)
<1>1. DInv
  BY DInvInit
<1>2. caller.doing = "idle" /\ ws[r].doing = "idle" /\ current = keys
  BY DEF Init, Idle
<1>3. r \in world.relays => subs[r]["zap"] = keys
  BY DEF Init, Ids
<1> QED BY <1>1, <1>2, <1>3 DEF KInv, Patched, Busy

(* The socket tasks leave the map to the calling task, and go through a    *)
(* reconnection in order.                                                  *)
LEMMA SocketKeepsKInv ==
  ASSUME NEW r \in Relays, KInv(r), NEW q \in world.relays,
         Connected(q) \/ Disconnected(q) \/ SocketTask(q) \/ RelaySends(q)
  PROVE  Patched(r)' /\ (Busy(r)' => up'[r])
<1>1. q \in Relays /\ up \in [Relays -> BOOLEAN] /\ ws \in [Relays -> Tasks]
  BY DEF KInv, DInv, Device
<1>2. UNCHANGED <<world, subs, caller, keys, current>>
  BY DEF Connected, Disconnected, SocketTask, RelaySends, CopySubs, ReissueAll, SourceTakes,
         ListenerTakes, Panic, Handle, HandleFreed, memory, history
<1> SUFFICES Busy(r)' => up'[r]
  BY <1>2 DEF KInv, Patched
<1>3. CASE Connected(q)
  BY <1>1, <1>3 DEF Connected, Does, KInv, Busy
<1>4. CASE CopySubs(q)
  BY <1>1, <1>4 DEF CopySubs, Does, KInv, Busy
<1>5. CASE Disconnected(q)
  BY <1>1, <1>5 DEF Disconnected, KInv, Busy, Idle
<1>6. CASE ReissueAll(q) \/ SourceTakes(q) \/ ListenerTakes(q) \/ Handle(q) \/ HandleFreed(q)
           \/ RelaySends(q)
  <2>1. UNCHANGED up
    BY <1>6 DEF ReissueAll, SourceTakes, ListenerTakes, Handle, HandleFreed, RelaySends, Panic
  <2>2. \/ UNCHANGED ws
        \/ \E t : ws' = [ws EXCEPT ![q] = t] /\ t.doing \notin {"connected", "reissue"}
    BY <1>6 DEF ReissueAll, SourceTakes, ListenerTakes, Handle, HandleFreed, RelaySends, Panic,
                Does, Idle
  <2> QED BY <1>1, <2>1, <2>2 DEF KInv, Busy
<1> QED
  BY <1>3, <1>4, <1>5, <1>6 DEF SocketTask

(* The calling task: the map follows the keys as the listeners are built,  *)
(* and only a socket task at rest is stopped.                              *)
LEMMA CallerKeepsPatched ==
  ASSUME NEW r \in Relays, KInv(r), PatchKeys \/ StartUpdate \/ RestartSources \/ Proceeds
  PROVE  Patched(r)'
<1> USE DEF KInv, DInv
<1>1. caller \in Callers /\ subs \in [Relays -> Subscriptions] /\ UNCHANGED world
  BY DEF Device, PatchKeys, StartUpdate, RestartSources, Proceeds, StopListener, BuildListener,
         StopRelay, StartSource, FreeListeners, SendReq, Refreshed, ListenersStopped, Stopped,
         Restarted
<1> SUFFICES ASSUME world.calls = "patch", r \in world.relays
             PROVE  /\ caller'.doing = "idle" => subs'[r]["zap"] = current'
                    /\ caller'.doing = "build" /\ r \notin caller'.left => subs'[r]["zap"] = keys'
  BY <1>1 DEF Patched
<1>2. CASE PatchKeys
  BY <1>2 DEF PatchKeys, Patched, Calls, Turns, memory
<1>3. CASE StartUpdate \/ RestartSources \/ ListenersStopped
  BY <1>3 DEF StartUpdate, RestartSources, ListenersStopped, Calls
<1>4. ASSUME NEW q \in Relays, StopListener(q) PROVE caller'.doing = "stop"
  BY <1>4 DEF StopListener, Turns
<1>5. CASE FreeListeners
  BY <1>5 DEF FreeListeners, Turns
<1>6. ASSUME NEW q \in Relays, BuildListener(q)
      PROVE  /\ caller'.doing = "build" /\ UNCHANGED keys
             /\ r \notin caller'.left => subs'[r]["zap"] = keys
  <2>1. caller.doing = "build" /\ q \in caller.left /\ UNCHANGED keys
    BY <1>6 DEF BuildListener
  <2>2. subs[q]["zap"] = None
    BY <2>1 DEF Programs, Subscribed
  <2>3. subs' = [subs EXCEPT ![q]["zap"] = keys]
        /\ caller' = [caller EXCEPT !.left = @ \ {q}, !.at = q]
    BY <1>6, <2>2 DEF BuildListener, Subscribing
  <2>4. caller'.doing = "build" /\ caller'.left = caller.left \ {q}
    BY <1>1, <2>1, <2>3 DEF Callers
  <2>5. CASE q = r
    BY <1>1, <2>1, <2>3, <2>4, <2>5 DEF Subscriptions, Ids
  <2>6. CASE q # r
    BY <1>1, <2>1, <2>3, <2>4, <2>6 DEF Patched
  <2> QED BY <2>1, <2>4, <2>5, <2>6
<1>7. CASE SendReq
  BY <1>1, <1>7 DEF SendReq, Patched, Callers, memory
<1>8. CASE Refreshed
  BY <1>8 DEF Refreshed, Patched, Turns
<1>9. CASE Stopped \/ Restarted
  BY <1>9 DEF Stopped, Restarted, Programs
<1>10. ASSUME NEW q \in Relays, StopRelay(q) \/ StartSource(q) PROVE FALSE
  BY <1>10 DEF StopRelay, StartSource, Programs
<1> QED
  BY <1>2, <1>3, <1>4, <1>5, <1>6, <1>7, <1>8, <1>9, <1>10 DEF Proceeds

LEMMA CallerKeepsBusy ==
  ASSUME NEW r \in Relays, KInv(r), PatchKeys \/ StartUpdate \/ RestartSources \/ Proceeds
  PROVE  Busy(r)' => up'[r]
<1>1. up \in [Relays -> BOOLEAN] /\ ws \in [Relays -> Tasks]
  BY DEF KInv, DInv, Device
<1>2. ASSUME NEW q \in Relays, StopRelay(q) PROVE Busy(r)' => up'[r]
  BY <1>1, <1>2 DEF StopRelay, KInv, Busy, Idle
<1>3. CASE FreeListeners
  <2>1. \/ ws'[r] = ws[r]
        \/ ws[r].doing = "handle" /\ ws'[r] = [ws[r] EXCEPT !.doing = "dangle"]
    BY <1>3 DEF FreeListeners
  <2>2. ws[r].doing = "handle" => [ws[r] EXCEPT !.doing = "dangle"].doing = "dangle"
    BY <1>1 DEF Tasks
  <2> QED BY <1>3, <2>1, <2>2 DEF FreeListeners, KInv, Busy
<1>4. \/ UNCHANGED <<up, ws>> \/ FreeListeners \/ \E q \in Relays : StopRelay(q)
  BY DEF PatchKeys, StartUpdate, RestartSources, Proceeds, StopListener, BuildListener,
         StartSource, SendReq, Refreshed, ListenersStopped, Stopped, Restarted
<1> QED
  BY <1>2, <1>3, <1>4 DEF KInv, Busy

LEMMA KInvNext == ASSUME NEW r \in Relays, KInv(r), [Next]_vars PROVE KInv(r)'
<1>1. DInv'
  BY DInvNext DEF KInv
<1>2. CASE Publish \/ SntpLands \/ UNCHANGED vars
  <2>1. UNCHANGED <<world, up, subs, ws, caller, keys, current>>
    BY <1>2 DEF Publish, SntpLands, vars, memory
  <2> QED BY <1>1, <2>1 DEF KInv, Patched, Busy
<1> QED
  BY <1>1, <1>2, SocketKeepsKInv, CallerKeepsPatched, CallerKeepsBusy DEF Next, KInv

KInvAlways(r) == []KInv(r)

LEMMA KInvariance == ASSUME NEW r \in Relays PROVE Spec => KInvAlways(r)
<1>1. Init => KInv(r)
  BY KInvInit
<1>2. KInv(r) /\ [Next]_vars => KInv(r)'
  BY KInvNext
<1> QED BY <1>1, <1>2, PTL DEF Spec, KInvAlways

(* While no change of keys is under way, a relay that has been asked for   *)
(* the current keys, or has yet to be, stays so.                           *)
AsksCurrent(r) ==
  up[r] /\ ws[r].doing \notin {"connected", "reissue"} => reqs[r]["zap"] = current
Following(r) == AsksCurrent(r) /\ (ws[r].doing = "reissue" => ws[r].copy["zap"] = current)

LEMMA FollowingStays ==
  ASSUME NEW r \in Relays, KInv(r), Settled(r), Following(r), [Next]_vars
  PROVE  Following(r)'
<1> USE DEF KInv, DInv
<1>1. /\ up \in [Relays -> BOOLEAN] /\ ws \in [Relays -> Tasks]
      /\ reqs \in [Relays -> Subscriptions] /\ current # None /\ caller.at = None
  BY ZapListenerAssumption DEF Device, Programs, Settled, Quiet
<1>2. subs[r]["zap"] = current
  BY DEF Settled, Quiet, Patched
<1>3. ASSUME NEW q \in world.relays,
             Connected(q) \/ Disconnected(q) \/ SocketTask(q) \/ RelaySends(q)
      PROVE  Following(r)'
  <2>1. q \in Relays /\ UNCHANGED current
    BY <1>3 DEF Device, Connected, Disconnected, SocketTask, RelaySends, CopySubs, ReissueAll,
                SourceTakes, ListenerTakes, Panic, Handle, HandleFreed, memory
  <2>2. CASE Connected(q)
    BY <1>1, <2>1, <2>2 DEF Connected, Does, Following, AsksCurrent, Idle
  <2>3. CASE CopySubs(q)
    BY <1>1, <1>2, <2>1, <2>3 DEF CopySubs, Does, Following, AsksCurrent
  <2>4. CASE ReissueAll(q)
    <3>1. reqs' = [reqs EXCEPT ![q] = Asked(q, ws[q].copy)] /\ UNCHANGED up
          /\ ws' = [ws EXCEPT ![q] = Idle] /\ ws[q].doing = "reissue"
      BY <2>4 DEF ReissueAll, Does
    <3>2. Asked(q, ws[q].copy)["zap"] = IF ws[q].copy["zap"] # None THEN ws[q].copy["zap"]
                                        ELSE reqs[q]["zap"]
      BY DEF Asked, Ids
    <3>3. CASE q = r
      <4>1. reqs'[r]["zap"] = current
        BY <1>1, <3>1, <3>2, <3>3 DEF Following
      <4> QED BY <1>1, <2>1, <3>1, <3>3, <4>1 DEF Following, AsksCurrent, Idle
    <3>4. CASE q # r
      BY <1>1, <2>1, <3>1, <3>4 DEF Following, AsksCurrent
    <3> QED BY <3>3, <3>4
  <2>5. CASE Disconnected(q)
    BY <1>1, <2>1, <2>5 DEF Disconnected, Following, AsksCurrent, Idle
  <2>6. CASE SourceTakes(q) \/ ListenerTakes(q) \/ Handle(q) \/ HandleFreed(q) \/ RelaySends(q)
    <3>1. UNCHANGED <<up, reqs>>
      BY <2>6 DEF SourceTakes, ListenerTakes, Handle, HandleFreed, RelaySends, Panic
    <3>2. \/ UNCHANGED ws
          \/ /\ ws[q].doing \notin {"connected", "reissue"}
             /\ \E t : ws' = [ws EXCEPT ![q] = t] /\ t.doing \notin {"connected", "reissue"}
      BY <2>6 DEF SourceTakes, ListenerTakes, Handle, HandleFreed, RelaySends, Panic, Does, Idle
    <3> QED BY <1>1, <2>1, <3>1, <3>2 DEF Following, AsksCurrent
  <2> QED
    BY <1>3, <2>2, <2>3, <2>4, <2>5, <2>6 DEF SocketTask
<1>4. CASE PatchKeys \/ Publish \/ SntpLands \/ UNCHANGED vars
  <2>1. UNCHANGED <<up, reqs, ws, current>>
    BY <1>4 DEF PatchKeys, Publish, SntpLands, vars, memory
  <2> QED BY <2>1 DEF Following, AsksCurrent
<1>5. ~StartUpdate /\ ~RestartSources
  BY DEF Settled, Quiet, StartUpdate, RestartSources, Calls
<1>6. ~Proceeds
  BY <1>1 DEF Settled, Quiet, Proceeds, StopListener, BuildListener, StopRelay, StartSource,
         FreeListeners, SendReq, Refreshed, ListenersStopped, Stopped, Restarted
<1> QED
  BY <1>3, <1>4, <1>5, <1>6 DEF Next

(* Keys that a refresh of the listeners put in use reach each relay with   *)
(* its next reconnection, whatever connection the refresh crossed and      *)
(* whatever else the relays do.  Of keys that were saved without a refresh *)
(* it says nothing.                                                        *)
THEOREM KeysAreFollowed == Spec => FollowsKeys
<1> SUFFICES ASSUME NEW r \in Relays
             PROVE  Spec => (<>[]Settled(r) /\ []<>(~up[r]) => <>[]Follows(r))
  BY DEF FollowsKeys
<1> DEFINE Up == up[r]
<1>1. Spec => KInvAlways(r)
  BY KInvariance
<1>2. KInv(r) /\ ~Up => Following(r)
  BY DEF KInv, Following, AsksCurrent, Busy
<1>3. KInv(r) /\ Settled(r) /\ Following(r) /\ [Next]_vars => Following(r)'
  BY FollowingStays
<1>4. Settled(r) /\ Following(r) => Follows(r)
  BY DEF Settled, Following, AsksCurrent, Follows
<1>5. Up <=> up[r]
  OBVIOUS
<1> HIDE DEF Up
<1> QED BY <1>1, <1>2, <1>3, <1>4, <1>5, PTL DEF Spec, KInvAlways
=============================================================================
