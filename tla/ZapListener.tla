----------------------------- MODULE ZapListener -----------------------------
(***************************************************************************)
(* Zap receipts from several Nostr relays: RelayClient's connection,       *)
(* SubscriptionManager's subscriptions, the ZapListener of each relay      *)
(* (components/nostr), and their life after boot (init_zap_listener.cpp).  *)
(*                                                                         *)
(* A relay has its socket task, which connects, sends the REQs again,      *)
(* takes frames and calls back - verifying a signature in the callback     *)
(* takes long.  Meanwhile one other task may change the followed keys      *)
(* (the HTTP task), restart the data sources (the main task) or prepare an *)
(* update (the update task); `caller' is that task.  When the data source  *)
(* is a Nostr relay, the listeners ride its socket and its manager.        *)
(*                                                                         *)
(* A use of freed memory either finds it intact or stops the device.       *)
(***************************************************************************)
EXTENDS Naturals, Sequences, FiniteSets

CONSTANTS
  Relays,
  Zaps,        \* receipts, each named by the second it was created in
  Keys,        \* lists of followed keys
  None,        \* no key, no zap, an empty list
  Worlds,      \* which relays, whether ridden, which task acts, the keys a zap is for
  kCap         \* the receipts ZapIdLru remembers

ASSUME ZapListenerAssumption ==
  /\ Zaps \subseteq Nat \ {0}
  /\ None \notin Keys \cup Relays
  /\ kCap \in Nat \ {0}
  /\ Worlds \subseteq [relays : SUBSET Relays, ridden : BOOLEAN,
                       calls : {"patch", "restart", "update"}, to : [Zaps -> SUBSET Keys]]

VARIABLES
  world,
  up,          \* RelayClient::connected_
  reqs,        \* what the relay at the other end is asked for: [id -> filter]
  wire,        \* a frame on its way: None or [id, zap]
  subs,        \* the manager's map: [id -> filter]
  on_event,    \* whose callback the manager holds: "source", "zap", "freed"
  managed,     \* the relay's manager exists
  listener,    \* [state: "none", "started", "stopped"; last: newest zap shown]
  ws,          \* what the socket task does
  caller,      \* what the calling task does
  keys,        \* the keys in NVS
  current,     \* zap_pubkeys_current
  lru,         \* ZapIdLru
  synced,      \* SNTP has set the clock
  published, times,   \* receipts that exist; how often each was notified (history)
  heard,       \* the data source has reported
  panicked

memory == <<subs, on_event, managed, listener, current, lru>>
history == <<published, times, heard>>
vars == <<world, up, reqs, wire, subs, on_event, managed, listener, ws, caller, keys,
          current, lru, synced, published, times, heard, panicked>>

Ids == {"data", "zap"}
NoFilters == [id \in Ids |-> None]
Idle == [doing |-> "idle", zap |-> None, copy |-> NoFilters]
Listening(r) == listener[r].state = "started"

(* After boot: the sources run, InitZapListener has made a listener for    *)
(* every relay, whose callback replaced the data source's.                 *)
Init ==
  /\ world \in Worlds
  /\ up = [r \in Relays |-> FALSE]
  /\ reqs = [r \in Relays |-> NoFilters]
  /\ wire = [r \in Relays |-> None]
  /\ keys \in Keys /\ current = keys
  /\ subs = [r \in Relays |->
               IF r \notin world.relays THEN NoFilters
               ELSE [id \in Ids |-> IF id = "zap" THEN keys
                                    ELSE IF world.ridden THEN "app data" ELSE None]]
  /\ on_event = [r \in Relays |-> "zap"]
  /\ managed = [r \in Relays |-> TRUE]
  /\ listener = [r \in Relays |->
                   [state |-> IF r \in world.relays THEN "started" ELSE "none", last |-> 0]]
  /\ ws = [r \in Relays |-> Idle]
  /\ caller = [doing |-> "idle", left |-> {}, at |-> None]
  /\ lru = <<>>
  /\ synced \in BOOLEAN
  /\ published = {} /\ times = [z \in Zaps |-> 0]
  /\ heard = FALSE /\ panicked = FALSE

(* Freed memory was used. *)
Panic ==
  /\ panicked' = TRUE
  /\ UNCHANGED <<world, up, reqs, wire, memory, ws, caller, keys, synced, history>>

-----------------------------------------------------------------------------
(* The socket task. *)

Does(r, task) == ws' = [ws EXCEPT ![r] = task]

(* The client runs, unless the hook has stopped it or its owner is gone. *)
Running(r) ==
  /\ managed[r]
  /\ world.calls = "update" /\ caller.doing \in {"shut", "flash"} => r \in caller.left

(* HandleEvent: connected_ is set, then OnConnect calls ReissueAll. *)
Connected(r) ==
  /\ Running(r) /\ ~up[r] /\ ws[r] = Idle
  /\ up' = [up EXCEPT ![r] = TRUE]
  /\ Does(r, [Idle EXCEPT !.doing = "connected"])
  /\ UNCHANGED <<world, reqs, wire, memory, caller, keys, synced, history, panicked>>

CopySubs(r) ==
  /\ ws[r].doing = "connected"
  /\ Does(r, [doing |-> "reissue", zap |-> None, copy |-> subs[r]])
  /\ UNCHANGED <<world, up, reqs, wire, memory, caller, keys, synced, history, panicked>>

Asked(r, filters) ==
  [id \in Ids |-> IF filters[id] # None THEN filters[id] ELSE reqs[r][id]]

ReissueAll(r) ==
  /\ ws[r].doing = "reissue"
  /\ reqs' = [reqs EXCEPT ![r] = Asked(r, ws[r].copy)]
  /\ Does(r, Idle)
  /\ UNCHANGED <<world, up, wire, memory, caller, keys, synced, history, panicked>>

Disconnected(r) ==
  /\ up[r] /\ ws[r] = Idle
  /\ up' = [up EXCEPT ![r] = FALSE]
  /\ reqs' = [reqs EXCEPT ![r] = NoFilters]
  /\ wire' = [wire EXCEPT ![r] = None]
  /\ UNCHANGED <<world, memory, ws, caller, keys, synced, history, panicked>>

Took(r) == wire' = [wire EXCEPT ![r] = None]

(* The manager's one callback is the data source's: OnEvent reports. *)
SourceTakes(r) ==
  /\ ws[r] = Idle /\ wire[r] # None /\ on_event[r] = "source"
  /\ Took(r)
  /\ heard' = (heard \/ wire[r].id = "data")
  /\ UNCHANGED <<world, up, reqs, memory, ws, caller, keys, synced, published, times, panicked>>

(* It is a listener's, which takes its own subscription's events and       *)
(* drops the others; or a freed one's.                                     *)
ListenerTakes(r) ==
  /\ ws[r] = Idle /\ wire[r] # None /\ on_event[r] # "source"
  /\ \/ /\ Took(r)
        /\ IF wire[r].id = "zap"
           THEN Does(r, [doing |-> IF on_event[r] = "zap" THEN "handle" ELSE "dangle",
                         zap |-> wire[r].zap, copy |-> NoFilters])
           ELSE UNCHANGED ws
        /\ UNCHANGED <<world, up, reqs, memory, caller, keys, synced, history, panicked>>
     \/ on_event[r] = "freed" /\ Panic

(* Only receipts newer than the last one shown, once the clock is set. *)
ShouldShowZap(z, last) == ~synced \/ z > last

MarkFresh(z) ==
  Append(IF Len(lru) < kCap THEN lru ELSE Tail(lru), z)

(* on_zap: the first relay to deliver a receipt reports and notifies. *)
OnZap(z) ==
  IF \E i \in 1 .. Len(lru) : lru[i] = z
  THEN UNCHANGED <<lru, times>>
  ELSE lru' = MarkFresh(z) /\ times' = [times EXCEPT ![z] = @ + 1]

(* Handle(), after the signature was verified. *)
Handle(r) ==
  /\ ws[r].doing = "handle"
  /\ LET z == ws[r].zap IN
     IF ShouldShowZap(z, listener[r].last)
     THEN listener' = [listener EXCEPT ![r].last = z] /\ OnZap(z)
     ELSE UNCHANGED <<listener, lru, times>>
  /\ Does(r, Idle)
  /\ UNCHANGED <<world, up, reqs, wire, subs, on_event, managed, caller, keys, current,
                 synced, published, heard, panicked>>

(* The same of a listener that was freed in the meantime. *)
HandleFreed(r) ==
  /\ ws[r].doing = "dangle"
  /\ \/ /\ OnZap(ws[r].zap)
        /\ Does(r, Idle)
        /\ UNCHANGED <<world, up, reqs, wire, subs, on_event, managed, listener, caller, keys,
                       current, synced, published, heard, panicked>>
     \/ Panic

-----------------------------------------------------------------------------
(* The calling task: programs over the relays left. *)

Turns(doing, left) == caller' = [doing |-> doing, left |-> left, at |-> None]
Calls(task) == world.calls = task /\ caller.doing = "idle"
Wired == {r \in Relays : listener[r].state # "none"}

(* A PATCH of the followed keys, of the notify, flash and restore gates,   *)
(* or of both.  Either form of the keys (nostrZapPubkeys, nostrZapPubkey)  *)
(* is stored under the plural name alone, and on_nostr_changed looks for   *)
(* the singular name and the gates: only a changed gate runs               *)
(* RefreshZapListenerSettings.  There, without listeners, with the keys in *)
(* use or with none at all, the listeners stay.                            *)
PatchKeys ==
  /\ Calls("patch")
  /\ \E list \in Keys \cup {None}, gates \in BOOLEAN :
       /\ list # keys \/ gates
       /\ keys' = list
       /\ IF ~gates \/ Wired = {} \/ list \in {current, None}
          THEN UNCHANGED caller
          ELSE Turns("stop", Wired)
  /\ UNCHANGED <<world, up, reqs, wire, memory, ws, synced, history, panicked>>

(* Mutant: the hub first, then the listeners. *)
StartUpdateHubFirst ==
  /\ Calls("update")
  /\ Turns("shut", world.relays)
  /\ UNCHANGED <<world, up, reqs, wire, memory, ws, keys, synced, history, panicked>>

(* The pre-flash hook. *)
StartUpdate ==
  /\ Calls("update")
  /\ Turns("stop", Wired)
  /\ UNCHANGED <<world, up, reqs, wire, memory, ws, keys, synced, history, panicked>>

(* kRestartDataSources. *)
RestartSources ==
  /\ Calls("restart") /\ world.ridden
  /\ Turns("shut", world.relays)
  /\ UNCHANGED <<world, up, reqs, wire, memory, ws, keys, synced, history, panicked>>

Unsubscribed(r, id) ==
  /\ subs' = [subs EXCEPT ![r][id] = None]
  /\ reqs' = IF up[r] THEN [reqs EXCEPT ![r][id] = None] ELSE reqs

(* Mutant: a stopped listener still counts as started. *)
StopListenerStaysStarted(r) ==
  /\ caller.doing = "stop" /\ r \in caller.left
  /\ Unsubscribed(r, "zap")
  /\ Turns("stop", caller.left \ {r})
  /\ UNCHANGED <<world, up, wire, on_event, managed, listener, ws, keys, current, lru, synced,
                 history, panicked>>

(* Mutant: the subscription stays in the manager's map. *)
StopListenerKeepsSub(r) ==
  /\ caller.doing = "stop" /\ r \in caller.left
  /\ listener' = [listener EXCEPT ![r].state = "stopped"]
  /\ reqs' = IF up[r] THEN [reqs EXCEPT ![r]["zap"] = None] ELSE reqs
  /\ Turns("stop", caller.left \ {r})
  /\ UNCHANGED <<world, up, wire, subs, on_event, managed, ws, keys, current, lru, synced,
                 history, panicked>>

(* ZapListener::Stop. *)
StopListener(r) ==
  /\ caller.doing = "stop" /\ r \in caller.left
  /\ IF Listening(r) THEN Unsubscribed(r, "zap") ELSE UNCHANGED <<subs, reqs>>
  /\ listener' = [listener EXCEPT ![r].state = "stopped"]
  /\ Turns("stop", caller.left \ {r})
  /\ UNCHANGED <<world, up, wire, on_event, managed, ws, keys, current, lru, synced,
                 history, panicked>>

(* Mutant: the remembered receipts belong to the listeners. *)
FreeListenersForgets ==
  /\ caller.doing = "stop" /\ caller.left = {} /\ world.calls = "patch"
  /\ listener' = [r \in Relays |-> [state |-> "none", last |-> 0]]
  /\ on_event' = [r \in Relays |-> IF on_event[r] = "zap" THEN "freed" ELSE on_event[r]]
  /\ ws' = [r \in Relays |-> IF ws[r].doing = "handle" THEN [ws[r] EXCEPT !.doing = "dangle"]
                             ELSE ws[r]]
  /\ lru' = <<>>
  /\ Turns("build", world.relays)
  /\ UNCHANGED <<world, up, reqs, wire, subs, managed, keys, current, synced, history,
                 panicked>>

(* zap_listeners.clear(), which leaves the callbacks in the managers. *)
FreeListeners ==
  /\ caller.doing = "stop" /\ caller.left = {} /\ world.calls = "patch"
  /\ listener' = [r \in Relays |-> [state |-> "none", last |-> 0]]
  /\ on_event' = [r \in Relays |-> IF on_event[r] = "zap" THEN "freed" ELSE on_event[r]]
  /\ ws' = [r \in Relays |-> IF ws[r].doing = "handle" THEN [ws[r] EXCEPT !.doing = "dangle"]
                             ELSE ws[r]]
  /\ Turns("build", world.relays)
  /\ UNCHANGED <<world, up, reqs, wire, subs, managed, keys, current, lru, synced,
                 history, panicked>>

(* Subscribe(): the map, then, when connected, the REQ.  It fails for an   *)
(* identifier the manager has.                                             *)
Subscribing(r, id, filter) ==
  IF subs[r][id] # None
  THEN UNCHANGED subs /\ caller' = [caller EXCEPT !.left = @ \ {r}]
  ELSE /\ subs' = [subs EXCEPT ![r][id] = filter]
       /\ caller' = [caller EXCEPT !.left = @ \ {r}, !.at = r]

(* A new listener takes the manager's callback and subscribes; one that    *)
(* cannot is freed at once.                                                *)
BuildListener(r) ==
  /\ caller.doing = "build" /\ r \in caller.left /\ caller.at = None
  /\ LET starts == subs[r]["zap"] = None IN
     /\ on_event' = [on_event EXCEPT ![r] = IF starts THEN "zap" ELSE "freed"]
     /\ listener' = [listener EXCEPT ![r].state = IF starts THEN "started" ELSE "none"]
  /\ Subscribing(r, "zap", keys)
  /\ UNCHANGED <<world, up, reqs, wire, managed, ws, keys, current, lru, synced, history,
                 panicked>>

(* Mutant: a connection being set up is left to send it. *)
SendReqUnlessReissuing ==
  /\ caller.at # None
  /\ LET r == caller.at  id == IF caller.doing = "build" THEN "zap" ELSE "data" IN
     reqs' = IF up[r] /\ ws[r].doing # "reissue"
             THEN [reqs EXCEPT ![r][id] = subs[r][id]] ELSE reqs
  /\ caller' = [caller EXCEPT !.at = None]
  /\ UNCHANGED <<world, up, wire, memory, ws, keys, synced, history, panicked>>

SendReq ==
  /\ caller.at # None
  /\ LET r == caller.at  id == IF caller.doing = "build" THEN "zap" ELSE "data" IN
     reqs' = IF up[r] THEN [reqs EXCEPT ![r][id] = subs[r][id]] ELSE reqs
  /\ caller' = [caller EXCEPT !.at = None]
  /\ UNCHANGED <<world, up, wire, memory, ws, keys, synced, history, panicked>>

(* Mutant: the keys in use are not noted. *)
RefreshedUnnoted ==
  /\ caller.doing = "build" /\ caller.left = {} /\ caller.at = None
  /\ Turns("idle", {})
  /\ UNCHANGED <<world, up, reqs, wire, memory, ws, keys, synced, history, panicked>>

Refreshed ==
  /\ caller.doing = "build" /\ caller.left = {} /\ caller.at = None
  /\ current' = keys
  /\ Turns("idle", {})
  /\ UNCHANGED <<world, up, reqs, wire, subs, on_event, managed, listener, ws, keys, lru,
                 synced, history, panicked>>

(* The hook goes on to the sockets. *)
ListenersStopped ==
  /\ caller.doing = "stop" /\ caller.left = {} /\ world.calls = "update"
  /\ Turns("shut", world.relays)
  /\ UNCHANGED <<world, up, reqs, wire, memory, ws, keys, synced, history, panicked>>

(* RelayClient::Stop waits for the socket task; a data source then drops   *)
(* its manager.                                                            *)
StopRelay(r) ==
  /\ caller.doing = "shut" /\ r \in caller.left /\ ws[r] = Idle
  /\ up' = [up EXCEPT ![r] = FALSE]
  /\ reqs' = [reqs EXCEPT ![r] = NoFilters]
  /\ wire' = [wire EXCEPT ![r] = None]
  /\ IF world.ridden
     THEN managed' = [managed EXCEPT ![r] = FALSE] /\ subs' = [subs EXCEPT ![r] = NoFilters]
     ELSE UNCHANGED <<managed, subs>>
  /\ Turns("shut", caller.left \ {r})
  /\ UNCHANGED <<world, on_event, listener, ws, keys, current, lru, synced, history, panicked>>

Stopped ==
  /\ caller.doing = "shut" /\ caller.left = {}
  /\ IF world.calls = "restart" THEN Turns("start", world.relays) ELSE Turns("flash", {})
  /\ UNCHANGED <<world, up, reqs, wire, memory, ws, keys, synced, history, panicked>>

(* NostrDataSource::Start. *)
StartSource(r) ==
  /\ caller.doing = "start" /\ r \in caller.left /\ caller.at = None
  /\ managed' = [managed EXCEPT ![r] = TRUE]
  /\ on_event' = [on_event EXCEPT ![r] = "source"]
  /\ Subscribing(r, "data", "app data")
  /\ UNCHANGED <<world, up, reqs, wire, listener, ws, keys, current, lru, synced, history,
                 panicked>>

Restarted ==
  /\ caller.doing = "start" /\ caller.left = {} /\ caller.at = None
  /\ Turns("idle", {})
  /\ UNCHANGED <<world, up, reqs, wire, memory, ws, keys, synced, history, panicked>>

-----------------------------------------------------------------------------
(* Outside the device. *)

Publish ==
  /\ \E z \in Zaps \ published : published' = published \cup {z}
  /\ UNCHANGED <<world, up, reqs, wire, memory, ws, caller, keys, synced, times, heard,
                 panicked>>

(* A relay sends what it was asked for, again if it likes. *)
RelaySends(r) ==
  /\ up[r] /\ wire[r] = None
  /\ \/ /\ reqs[r]["zap"] # None
        /\ \E z \in published :
             /\ reqs[r]["zap"] \in world.to[z]
             /\ wire' = [wire EXCEPT ![r] = [id |-> "zap", zap |-> z]]
     \/ /\ reqs[r]["data"] # None
        /\ wire' = [wire EXCEPT ![r] = [id |-> "data", zap |-> None]]
  /\ UNCHANGED <<world, up, reqs, memory, ws, caller, keys, synced, history, panicked>>

SntpLands ==
  /\ ~synced /\ synced' = TRUE
  /\ UNCHANGED <<world, up, reqs, wire, memory, ws, caller, keys, history, panicked>>

-----------------------------------------------------------------------------
SocketTask(r) ==
  \/ CopySubs(r) \/ ReissueAll(r) \/ SourceTakes(r) \/ ListenerTakes(r)
  \/ Handle(r) \/ HandleFreed(r)

Proceeds ==
  \/ \E r \in Relays : StopListener(r) \/ BuildListener(r) \/ StopRelay(r) \/ StartSource(r)
  \/ FreeListeners \/ SendReq \/ Refreshed \/ ListenersStopped \/ Stopped \/ Restarted

Next ==
  /\ ~panicked
  /\ \/ \E r \in world.relays :
          Connected(r) \/ Disconnected(r) \/ SocketTask(r) \/ RelaySends(r)
     \/ PatchKeys \/ StartUpdate \/ RestartSources \/ Proceeds
     \/ Publish \/ SntpLands

Spec == Init /\ [][Next]_vars

(* Every task runs; no relay is assumed to answer or a link to hold. *)
FairSpec ==
  /\ Spec
  /\ \A r \in Relays : WF_vars(~panicked /\ SocketTask(r))
  /\ WF_vars(~panicked /\ Proceeds)

-----------------------------------------------------------------------------
(* Properties. *)

Filters == Keys \cup {None, "app data"}

TypeOK ==
  /\ \A r \in Relays :
       /\ reqs[r] \in [Ids -> Filters] /\ subs[r] \in [Ids -> Filters]
       /\ ws[r].doing \in {"idle", "connected", "reissue", "handle", "dangle"}
       /\ on_event[r] \in {"source", "zap", "freed"}
       /\ world.calls # "restart" => (Listening(r) <=> subs[r]["zap"] # None)
  /\ Len(lru) <= kCap
  /\ current \in Keys

(* Several relays deliver one receipt, and deliver it again after a        *)
(* reconnection, a change of keys or a jump of the clock: it is notified   *)
(* once.  For as many receipts as ZapIdLru remembers.                      *)
Announcer == INSTANCE AnnounceOnce WITH Events <- Zaps
AnnouncesOnce == Announcer!Spec

(* "Resend them on reconnect (so a dropped relay socket self-heals without *)
(* the caller doing anything)": whenever no task is in the middle of it, a *)
(* connected relay has been asked for every subscription, at whatever      *)
(* moment Subscribe() and the connection crossed.                          *)
SelfHeals ==
  \A r \in Relays : up[r] /\ ws[r].doing \notin {"connected", "reissue"} /\ caller.at # r =>
    \A id \in Ids : subs[r][id] # None => reqs[r][id] # None

(* "The listener MUST be stopped before the hub": when an update stops     *)
(* everything, no listener that would still unsubscribe refers to a        *)
(* manager that was freed.                                                 *)
BorrowersStopFirst ==
  world.calls = "update" => \A r \in Relays : Listening(r) => managed[r]

(* No change is under way, and nothing replaces the relays.                *)
Quiet(r) == r \in world.relays /\ world.calls = "patch" /\ caller.doing = "idle"

(* Once its connection is being read, the relay was asked for the keys in  *)
(* NVS.                                                                    *)
Follows(r) == up[r] /\ ws[r].doing \notin {"connected", "reissue"} => reqs[r]["zap"] = keys

(* A refresh that replaces the listeners comes to its end and leaves the   *)
(* keys in NVS in use.                                                     *)
RefreshInstalls ==
  (world.calls = "patch" /\ caller.doing = "stop")
    ~> (panicked \/ (caller.doing = "idle" /\ current = keys))

(* ... and the keys in NVS are those in use.                               *)
Settled(r) == Quiet(r) /\ current = keys

(* Keys that a refresh put in use reach every relay: at the latest with    *)
(* the next reconnection, the relays are asked for them.                   *)
FollowsKeys ==
  \A r \in Relays : <>[]Settled(r) /\ []<>(~up[r]) => <>[]Follows(r)

(* "The callback is expected to [...] rebuild the zap listener so the new  *)
(* pubkey / gates take effect without a reboot": whatever keys were saved  *)
(* last, if any, reach every relay.  It fails.                             *)
FollowsSavedKeys ==
  \A r \in Relays :
    <>[](Quiet(r) /\ keys # None) /\ []<>(~up[r]) => <>[]Follows(r)

(* "Routes relay-pushed EVENT frames to the correct callback by sub-id":   *)
(* an event of the data subscription reaches the data source.              *)
RoutedBySubscription ==
  [][\A r \in Relays :
       wire[r] # None /\ wire'[r] = None /\ up'[r] => (wire[r].id = "data" => heard')]_vars
=============================================================================
