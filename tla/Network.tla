------------------------------- MODULE Network -------------------------------
(***************************************************************************)
(* The Wi-Fi station (components/wifi/wifi.cpp), the coordinator that      *)
(* brings the provisioning portal up and down (network_coordinator.cpp),   *)
(* the portal's verification of new credentials (provisioning_server.cpp)  *)
(* and the outage watchdog (wifi_guard.cpp).                               *)
(*                                                                         *)
(* Four actors share the atomics of class Wifi: the driver, which queues   *)
(* events; the event task, which handles them one by one and sleeps two    *)
(* seconds before it retries; the portal's HTTP task, which verifies a     *)
(* candidate by joining it; and the main task, whose pass samples the      *)
(* connection twice, with blocking work between the two.                   *)
(*                                                                         *)
(* A network stands for a name and a password; `reachable' are those that  *)
(* would let the clock in now.                                             *)
(***************************************************************************)
EXTENDS Naturals, Sequences, FiniteSets

CONSTANTS
  Networks,
  None,        \* no network
  Worlds,      \* the saved network, the reachable ones, the calls the driver may refuse
  kSubmits,    \* bound: forms sent to the portal
  kOutages     \* bound: times a network changes or a link breaks

Refusable == {"set_config", "set_mode", "start_ap"}

ASSUME NetworkAssumption ==
  /\ None \notin Networks
  /\ kSubmits \in Nat /\ kOutages \in Nat
  /\ Worlds \subseteq [saved : Networks \cup {None}, reachable : SUBSET Networks,
                       refuses : SUBSET Refusable]

VARIABLES
  creds,       \* net/ssid and net/pw in NVS
  refuses,     \* the calls of the driver that may return an error
  reachable,
  wifi,        \* the atomics of class Wifi
  radio,       \* the driver: what it is configured for, its link, its events
  event_task,  \* "idle", or "delay" before a retry
  http,        \* the portal's handler: [doing, ssid]
  main,        \* the main task's pass: [doing, connected: its first sample]
  coord,       \* NetworkCoordinator's flags, and which of its deadlines are over
  buttons,     \* FinishBoot has run to its end
  watch,       \* OutageWatchdog; unseen: a whole limit without seeing a link (history)
  submits, outages

tasks == <<event_task, http, main, coord, buttons, watch>>
world == <<creds, refuses, reachable>>
bounds == <<submits, outages>>
vars == <<world, wifi, radio, tasks, bounds>>

Terminal == "refused"      \* reasons 201 to 205
Transient == "left"        \* every other reason
Connected == wifi.state = "connected"

-----------------------------------------------------------------------------
(* The driver. *)

Down(r) == ~r.joining /\ r.joined = None

(* esp_wifi_connect: nothing while it joins or has joined. *)
EspConnect(r) == IF Down(r) THEN [r EXCEPT !.joining = TRUE] ELSE r

LosesLink(r, reason) ==
  [r EXCEPT !.joining = FALSE, !.joined = None, !.events = Append(@, reason)]

(* esp_wifi_disconnect *)
EspDisconnect(r) == IF Down(r) THEN r ELSE LosesLink(r, Transient)

(* To join takes longer than resume_saved takes between its two calls. *)
MayEnd == radio.joining /\ http.doing # "resume"

Joins ==
  /\ MayEnd /\ radio.config \in reachable
  /\ radio' = [radio EXCEPT !.joining = FALSE, !.joined = radio.config,
                            !.events = Append(@, "got_ip")]
  /\ UNCHANGED <<world, wifi, tasks, bounds>>

FailsToJoin ==
  /\ MayEnd /\ radio.config \notin reachable
  /\ \E reason \in {Terminal, Transient} : radio' = LosesLink(radio, reason)
  /\ UNCHANGED <<world, wifi, tasks, bounds>>

(* A network goes, and the link to it, or it comes back. *)
NetworkChanges(n) ==
  /\ outages < kOutages
  /\ reachable' = IF n \in reachable THEN reachable \ {n} ELSE reachable \cup {n}
  /\ radio' = IF radio.joined = n THEN LosesLink(radio, Transient) ELSE radio
  /\ outages' = outages + 1
  /\ UNCHANGED <<creds, refuses, wifi, tasks, submits>>

-----------------------------------------------------------------------------
(* Class Wifi.  Each operator gives the station and the driver after it.   *)

ApplyStaConfigAndConnect(w, r, n) ==
  [wifi |-> [w EXCEPT !.last_reason = "none", !.state = "connecting"],
   radio |-> EspConnect([r EXCEPT !.config = n])]

Takes(event) ==
  /\ event_task = "idle" /\ radio.events # <<>> /\ Head(radio.events) = event
  /\ radio' = [radio EXCEPT !.events = Tail(@)]
  /\ UNCHANGED <<world, http, main, coord, buttons, watch, bounds>>

(* Mutant: the retry is gated on the mode, as it was before the flag. *)
RetriesOutsideAp == wifi.sta_auto_retry /\ ~wifi.ap_mode

WantsRetry == wifi.sta_auto_retry

(* OnEvent, WIFI_EVENT_STA_DISCONNECTED: the flag is read before the delay. *)
OnDisconnected(reason) ==
  /\ Takes(reason)
  /\ wifi' = [wifi EXCEPT !.last_reason = reason, !.state = "disconnected"]
  /\ event_task' = IF WantsRetry THEN "delay" ELSE "idle"

Retry ==
  /\ event_task = "delay"
  /\ wifi' = [wifi EXCEPT !.state = "connecting"]
  /\ radio' = EspConnect(radio)
  /\ event_task' = "idle"
  /\ UNCHANGED <<world, http, main, coord, buttons, watch, bounds>>

(* OnEvent, IP_EVENT_STA_GOT_IP *)
OnGotIp ==
  /\ Takes("got_ip")
  /\ wifi' = [wifi EXCEPT !.state = "connected"]
  /\ UNCHANGED event_task

EventTask == OnDisconnected(Terminal) \/ OnDisconnected(Transient) \/ Retry \/ OnGotIp

-----------------------------------------------------------------------------
(* Boot: InitNetwork, with saved credentials or with the portal alone. *)

FreshStation(saved) ==
  LET wifi0 == [state |-> "idle", last_reason |-> "none",
                sta_auto_retry |-> saved # None, ap_mode |-> saved = None]
      radio0 == [config |-> None, joining |-> FALSE, joined |-> None, events |-> <<>>]
  IN IF saved = None THEN [wifi |-> wifi0, radio |-> radio0]
     ELSE ApplyStaConfigAndConnect(wifi0, radio0, saved)

IdleHttp == [doing |-> "idle", ssid |-> None]
FreshPass == [doing |-> "sample", connected |-> FALSE]
FreshCoord == [ap_up |-> FALSE, connected_once |-> FALSE, boot_finalized |-> FALSE,
               grace_over |-> FALSE, boot_due |-> FALSE]
FreshWatch == [was_connected |-> FALSE, outage |-> "none", unseen |-> FALSE]

Init ==
  /\ \E w \in Worlds : creds = w.saved /\ refuses = w.refuses /\ reachable = w.reachable
  /\ wifi = FreshStation(creds).wifi /\ radio = FreshStation(creds).radio
  /\ event_task = "idle" /\ http = IdleHttp
  /\ main = FreshPass /\ coord = FreshCoord /\ buttons = FALSE /\ watch = FreshWatch
  /\ submits = 0 /\ outages = 0

(* esp_restart: RAM is lost, NVS and the world stay. *)
RestartWith(saved) ==
  /\ creds' = saved
  /\ wifi' = FreshStation(saved).wifi /\ radio' = FreshStation(saved).radio
  /\ event_task' = "idle" /\ http' = IdleHttp
  /\ main' = FreshPass /\ coord' = FreshCoord /\ buttons' = FALSE /\ watch' = FreshWatch
  /\ UNCHANGED <<refuses, reachable, bounds>>

-----------------------------------------------------------------------------
(* The portal's HTTP task: HandleWifi, with TryConnect inside. *)

HttpOnly == UNCHANGED <<world, event_task, main, coord, buttons, watch, outages>>
HttpGoes(step) == http' = [http EXCEPT !.doing = step]
PortalUp == wifi.ap_mode /\ main.doing # "teardown"

(* The form arrives; the background retry is paused. *)
Submit(n) ==
  /\ PortalUp /\ http = IdleHttp /\ submits < kSubmits
  /\ http' = [doing |-> "apply", ssid |-> n]
  /\ wifi' = [wifi EXCEPT !.sta_auto_retry = FALSE]
  /\ submits' = submits + 1
  /\ HttpOnly /\ UNCHANGED radio

(* The driver refuses the candidate: an early return. *)
ApplyRefused ==
  /\ http.doing = "apply" /\ "set_config" \in refuses
  /\ http' = IdleHttp
  /\ HttpOnly /\ UNCHANGED <<wifi, radio, submits>>

ApplyCandidate ==
  /\ http.doing = "apply"
  /\ LET after == ApplyStaConfigAndConnect(wifi, radio, http.ssid)
     IN wifi' = after.wifi /\ radio' = after.radio
  /\ HttpGoes("poll")
  /\ HttpOnly /\ UNCHANGED submits

(* on_save: the candidate becomes the saved network, and the clock restarts. *)
PollSucceeds ==
  /\ http.doing = "poll" /\ Connected
  /\ RestartWith(http.ssid)

(* A terminal reason, or fifteen seconds without an answer: resume_saved   *)
(* disconnects first.                                                      *)
PollFails ==
  /\ http.doing = "poll"
  /\ radio' = EspDisconnect(radio)
  /\ HttpGoes("resume")
  /\ HttpOnly /\ UNCHANGED <<wifi, submits>>

(* Mutant: the flag stays as the pause left it. *)
NotRearmed == wifi

Rearmed == [wifi EXCEPT !.sta_auto_retry = TRUE]

HadRetryTarget == creds # None

ResumeSaved ==
  /\ http.doing = "resume" /\ HadRetryTarget
  /\ LET after == ApplyStaConfigAndConnect(Rearmed, radio, creds)
     IN \/ wifi' = after.wifi /\ radio' = after.radio
        \/ "set_config" \in refuses /\ wifi' = Rearmed /\ UNCHANGED radio
  /\ http' = IdleHttp
  /\ HttpOnly /\ UNCHANGED submits

ResumeNothing ==
  /\ http.doing = "resume" /\ ~HadRetryTarget
  /\ wifi' = [wifi EXCEPT !.state = "idle"]
  /\ http' = IdleHttp
  /\ HttpOnly /\ UNCHANGED <<radio, submits>>

HttpTask == ApplyRefused \/ ApplyCandidate \/ PollSucceeds \/ PollFails
            \/ ResumeSaved \/ ResumeNothing

-----------------------------------------------------------------------------
(* The main task: NetworkCoordinator::Tick, then OutageWatchdog::Tick. *)

MainOnly == UNCHANGED <<world, radio, event_task, http, bounds>>
MainGoes(step) == main' = [main EXCEPT !.doing = step]

(* Mutant: the portal comes down only after the first connection was noted. *)
TornDownAfterWiring(connected) ==
  coord.ap_up /\ connected /\ coord.connected_once

ShouldTeardownAp(connected) == coord.ap_up /\ connected

(* Without saved credentials there is no coordinator. *)
Sample ==
  /\ main.doing = "sample"
  /\ main' = [connected |-> Connected,
              doing |-> IF creds = None THEN "watchdog"
                        ELSE IF ShouldTeardownAp(Connected) THEN "teardown"
                        ELSE "first_connect"]
  /\ MainOnly /\ UNCHANGED <<wifi, coord, buttons, watch>>

(* StopProvisioningPortal waits for the handler that runs. *)
Teardown ==
  /\ main.doing = "teardown" /\ http = IdleHttp
  /\ \/ wifi' = [wifi EXCEPT !.ap_mode = FALSE]
     \/ "set_mode" \in refuses /\ UNCHANGED wifi
  /\ coord' = [coord EXCEPT !.ap_up = FALSE]
  /\ MainGoes("first_connect")
  /\ MainOnly /\ UNCHANGED <<buttons, watch>>

(* The fetch of the currencies blocks in here. *)
FirstConnect ==
  /\ main.doing = "first_connect"
  /\ coord' = IF main.connected THEN [coord EXCEPT !.connected_once = TRUE] ELSE coord
  /\ MainGoes("finish")
  /\ MainOnly /\ UNCHANGED <<wifi, buttons, watch>>

FinishesBoot == coord.connected_once /\ ~coord.boot_finalized /\ coord.boot_due

ShouldStartFallbackAp ==
  ~coord.connected_once /\ ~coord.ap_up /\ ~main.connected /\ coord.grace_over

(* FinishBoot returns early while the portal is up. *)
FinishBoot ==
  /\ main.doing = "finish" /\ FinishesBoot
  /\ coord' = [coord EXCEPT !.boot_finalized = TRUE]
  /\ buttons' = ~wifi.ap_mode
  /\ MainGoes("watchdog")
  /\ MainOnly /\ UNCHANGED <<wifi, watch>>

StartPortal ==
  /\ main.doing = "finish" /\ ShouldStartFallbackAp
  /\ coord' = [coord EXCEPT !.ap_up = TRUE]
  /\ wifi' = [wifi EXCEPT !.ap_mode = TRUE]
  /\ MainGoes("watchdog")
  /\ MainOnly /\ UNCHANGED <<buttons, watch>>

(* The access point, its web server or its name server does not start:     *)
(* ESP_ERROR_CHECK aborts, and the clock restarts.                         *)
StartPortalAborts ==
  /\ main.doing = "finish" /\ ShouldStartFallbackAp /\ "start_ap" \in refuses
  /\ RestartWith(creds)

NothingToFinish ==
  /\ main.doing = "finish" /\ ~FinishesBoot /\ ~ShouldStartFallbackAp
  /\ MainGoes("watchdog")
  /\ MainOnly /\ UNCHANGED <<wifi, coord, buttons, watch>>

(* The second sample.  The watchdog is skipped while the portal is up. *)
(* Mutant: the test for the portal is inverted. *)
RebootsInPortal == wifi.ap_mode /\ ~Connected /\ watch.outage = "over"

ShouldOutageReboot == ~wifi.ap_mode /\ ~Connected /\ watch.outage = "over"

(* Mutant: a link does not clear the stamp. *)
StampKept == [watch EXCEPT !.was_connected = TRUE, !.unseen = FALSE]

SeesLink == [was_connected |-> TRUE, outage |-> "none", unseen |-> FALSE]

WatchdogTick ==
  /\ main.doing = "watchdog" /\ ~ShouldOutageReboot
  /\ watch' = IF wifi.ap_mode THEN watch
              ELSE IF Connected THEN SeesLink
              ELSE IF watch.was_connected /\ watch.outage = "none"
                   THEN [watch EXCEPT !.outage = "counting"]
              ELSE watch
  /\ MainGoes("sample")
  /\ MainOnly /\ UNCHANGED <<wifi, coord, buttons>>

OutageReboot ==
  /\ main.doing = "watchdog" /\ ShouldOutageReboot
  /\ RestartWith(creds)

MainTask == Sample \/ Teardown \/ FirstConnect \/ FinishBoot \/ StartPortal
            \/ StartPortalAborts \/ NothingToFinish \/ WatchdogTick \/ OutageReboot

-----------------------------------------------------------------------------
(* Time: each deadline may pass at any moment after it was set. *)

ClockOnly == UNCHANGED <<world, wifi, radio, event_task, http, main, buttons, bounds>>

(* The twenty seconds the saved network gets. *)
GraceEnds ==
  /\ creds # None /\ ~coord.connected_once /\ ~coord.grace_over
  /\ coord' = [coord EXCEPT !.grace_over = TRUE]
  /\ ClockOnly /\ UNCHANGED watch

(* The first block height has come, or thirty seconds have passed. *)
BootComesDue ==
  /\ coord.connected_once /\ ~coord.boot_due
  /\ coord' = [coord EXCEPT !.boot_due = TRUE]
  /\ ClockOnly /\ UNCHANGED watch

(* wifiRebootMin minutes since the stamp. *)
OutageLimitPasses ==
  /\ watch.outage = "counting"
  /\ watch' = [watch EXCEPT !.outage = "over", !.unseen = TRUE]
  /\ ClockOnly /\ UNCHANGED coord

TimePasses == GraceEnds \/ BootComesDue \/ OutageLimitPasses

Next ==
  \/ Joins \/ FailsToJoin \/ EventTask \/ HttpTask \/ MainTask \/ TimePasses
  \/ \E n \in Networks : NetworkChanges(n) \/ Submit(n)

Spec == Init /\ [][Next]_vars

(* The tasks are scheduled, an attempt to join ends, and time goes on.     *)
(* Nothing makes a user submit, a network come back or a link break.       *)
FairSpec ==
  /\ Spec
  /\ WF_vars(Joins) /\ WF_vars(FailsToJoin) /\ WF_vars(EventTask)
  /\ WF_vars(HttpTask) /\ WF_vars(MainTask)
  /\ WF_vars(GraceEnds) /\ WF_vars(BootComesDue) /\ WF_vars(OutageLimitPasses)

-----------------------------------------------------------------------------
(* Properties. *)

Events == {Terminal, Transient, "got_ip"}

(* The domains of the variables; the driver never joins without a network. *)
TypeOK ==
  /\ creds \in Networks \cup {None} /\ refuses \subseteq Refusable /\ reachable \subseteq Networks
  /\ wifi \in [state : {"idle", "connecting", "connected", "disconnected"},
               last_reason : {"none", Terminal, Transient},
               sta_auto_retry : BOOLEAN, ap_mode : BOOLEAN]
  /\ radio \in [config : Networks \cup {None}, joining : BOOLEAN,
                joined : Networks \cup {None}, events : Seq(Events)]
  /\ radio.joining => radio.config # None
  /\ event_task \in {"idle", "delay"}
  /\ http \in [doing : {"idle", "apply", "poll", "resume"}, ssid : Networks \cup {None}]
  /\ main \in [doing : {"sample", "teardown", "first_connect", "finish", "watchdog"},
               connected : BOOLEAN]
  /\ coord \in [ap_up : BOOLEAN, connected_once : BOOLEAN, boot_finalized : BOOLEAN,
                grace_over : BOOLEAN, boot_due : BOOLEAN]
  /\ buttons \in BOOLEAN
  /\ watch \in [was_connected : BOOLEAN, outage : {"none", "counting", "over"},
                unseen : BOOLEAN]
  /\ submits \in 0..kSubmits /\ outages \in 0..kOutages

(* Once the coordinator has latched the end of the boot, the tail of it has *)
(* run: FinishBoot did not find the portal still up, which would leave the *)
(* clock without buttons for good (network_coordinator.cpp:32-34).         *)
ButtonsComeUp == coord.boot_finalized => buttons

(* The background retry of the saved network is off only while a candidate *)
(* is being verified (wifi.cpp:134-137).                                   *)
RetryResumes == creds # None /\ http = IdleHttp => wifi.sta_auto_retry

(* The watchdog restarts the clock only after a whole limit in which it    *)
(* never saw the link (wifi_guard.cpp:71-72).                              *)
OutageIsContinuous == [][OutageReboot => watch.unseen]_vars

(* ESP_ERROR_CHECK in StartProvisioningPortal never aborts. *)
PortalStarts == "start_ap" \notin refuses

(* A saved network that stays reachable is joined again, whatever was      *)
(* submitted meanwhile, and the portal goes down with it                   *)
(* (provisioning_fallback.hpp:14-15).                                      *)
SavedNetworkReturns ==
  PortalStarts /\ <>[](creds \in reachable) => <>[](Connected /\ ~wifi.ap_mode)

(* When the watchdog has seen the link and the saved network is gone for   *)
(* good, the clock ends up with the portal: the restart leads there        *)
(* (provisioning_fallback.hpp:20-22).                                      *)
PortalWhenGone ==
  (PortalStarts /\ watch.was_connected /\ [](creds \notin reachable)) ~> wifi.ap_mode
=============================================================================
