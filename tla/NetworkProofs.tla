---------------------------- MODULE NetworkProofs ----------------------------
(***************************************************************************)
(* What TLAPS proves about Network, for any networks, worlds and bounds:   *)
(* every variable keeps its type; the watchdog restarts the clock only in  *)
(* a continuous outage; where the driver takes every configuration, the    *)
(* retry of the saved network is always resumed; and where it takes every  *)
(* change of mode, the end of the boot never meets the portal.             *)
(***************************************************************************)
EXTENDS Network, TLAPS

-----------------------------------------------------------------------------
(* Types. *)

Wifis == [state : {"idle", "connecting", "connected", "disconnected"},
          last_reason : {"none", Terminal, Transient},
          sta_auto_retry : BOOLEAN, ap_mode : BOOLEAN]
Radios == [config : Networks \cup {None}, joining : BOOLEAN,
           joined : Networks \cup {None}, events : Seq(Events)]
RadioOK(r) == r \in Radios /\ (r.joining => r.config # None)

(* A call of the driver keeps its type; to connect needs a configuration. *)
LEMMA ConnectTyped ==
  ASSUME NEW r \in Radios, r.config # None
  PROVE  EspConnect(r) \in Radios /\ RadioOK(EspConnect(r))
  BY DEF EspConnect, Radios, RadioOK, Down

LEMMA LosesLinkTyped ==
  ASSUME NEW r \in Radios, NEW reason \in Events
  PROVE  RadioOK(LosesLink(r, reason))
<1>1. Append(r.events, reason) \in Seq(Events)
  BY DEF Radios
<1> QED
  BY <1>1 DEF LosesLink, RadioOK, Radios

LEMMA DisconnectTyped ==
  ASSUME NEW r, RadioOK(r)
  PROVE  RadioOK(EspDisconnect(r))
  BY LosesLinkTyped DEF EspDisconnect, RadioOK, Events

LEMMA ApplyTyped ==
  ASSUME NEW w \in Wifis, NEW r \in Radios, NEW n \in Networks
  PROVE  /\ ApplyStaConfigAndConnect(w, r, n).wifi \in Wifis
         /\ RadioOK(ApplyStaConfigAndConnect(w, r, n).radio)
<1> DEFINE c == [r EXCEPT !.config = n]
<1>1. c \in Radios /\ c.config # None
  BY NetworkAssumption DEF Radios
<1>2. RadioOK(EspConnect(c))
  BY <1>1, ConnectTyped
<1> QED
  BY <1>2 DEF ApplyStaConfigAndConnect, Wifis

LEMMA FreshTyped ==
  ASSUME NEW saved \in Networks \cup {None}
  PROVE  /\ FreshStation(saved).wifi \in Wifis
         /\ RadioOK(FreshStation(saved).radio)
<1> DEFINE w == [state |-> "idle", last_reason |-> "none",
                 sta_auto_retry |-> saved # None, ap_mode |-> saved = None]
           r == [config |-> None, joining |-> FALSE, joined |-> None, events |-> <<>>]
<1>1. w \in Wifis
  BY DEF Wifis
<1>2. r \in Radios /\ RadioOK(r)
  BY DEF Radios, RadioOK
<1>3. CASE saved = None
  <2>1. FreshStation(saved) = [wifi |-> w, radio |-> r]
    BY <1>3 DEF FreshStation
  <2> QED BY <2>1, <1>1, <1>2
<1>4. CASE saved # None
  <2>1. FreshStation(saved) = ApplyStaConfigAndConnect(w, r, saved)
    BY <1>4 DEF FreshStation
  <2> QED BY <2>1, <1>1, <1>2, <1>4, ApplyTyped
<1> QED BY <1>3, <1>4

(* Apply and a fresh start leave or set the two flags that matter below. *)
LEMMA ApplyFlags ==
  ASSUME NEW w \in Wifis, NEW r \in Radios, NEW n \in Networks
  PROVE  LET after == ApplyStaConfigAndConnect(w, r, n).wifi
         IN after.ap_mode = w.ap_mode /\ after.sta_auto_retry = w.sta_auto_retry
  BY DEF ApplyStaConfigAndConnect, Wifis

LEMMA FreshFlags ==
  ASSUME NEW saved \in Networks \cup {None}
  PROVE  /\ FreshStation(saved).wifi.ap_mode = (saved = None)
         /\ FreshStation(saved).wifi.sta_auto_retry = (saved # None)
<1> DEFINE w == [state |-> "idle", last_reason |-> "none",
                 sta_auto_retry |-> saved # None, ap_mode |-> saved = None]
           r == [config |-> None, joining |-> FALSE, joined |-> None, events |-> <<>>]
<1>1. w \in Wifis /\ r \in Radios
  BY DEF Wifis, Radios
<1>2. CASE saved = None
  BY <1>2 DEF FreshStation
<1>3. CASE saved # None
  <2>1. FreshStation(saved) = ApplyStaConfigAndConnect(w, r, saved)
    BY <1>3 DEF FreshStation
  <2>2. /\ FreshStation(saved).wifi.ap_mode = w.ap_mode
        /\ FreshStation(saved).wifi.sta_auto_retry = w.sta_auto_retry
    BY <2>1, <1>1, <1>3, ApplyFlags
  <2> QED BY <2>2
<1> QED BY <1>2, <1>3

-----------------------------------------------------------------------------
(* The type invariant and what it rests on: the driver does nothing before *)
(* it was given a network, and a handler that runs has a candidate.        *)

DriverConfigured ==
  radio.config = None =>
    /\ radio.events = <<>> /\ ~radio.joining /\ radio.joined = None
    /\ event_task = "idle"
CandidateNamed == http.doing # "idle" => http.ssid \in Networks

Https == [doing : {"idle", "apply", "poll", "resume"}, ssid : Networks \cup {None}]
Mains == [doing : {"sample", "teardown", "first_connect", "finish", "watchdog"},
          connected : BOOLEAN]
Coords == [ap_up : BOOLEAN, connected_once : BOOLEAN, boot_finalized : BOOLEAN,
           grace_over : BOOLEAN, boot_due : BOOLEAN]
Watches == [was_connected : BOOLEAN, outage : {"none", "counting", "over"},
            unseen : BOOLEAN]

Typed ==
  /\ creds \in Networks \cup {None} /\ refuses \subseteq Refusable /\ reachable \subseteq Networks
  /\ wifi \in Wifis /\ RadioOK(radio)
  /\ event_task \in {"idle", "delay"} /\ http \in Https /\ main \in Mains
  /\ coord \in Coords /\ buttons \in BOOLEAN /\ watch \in Watches
  /\ submits \in 0..kSubmits /\ outages \in 0..kOutages
TInv == Typed /\ DriverConfigured /\ CandidateNamed

LEMMA TInvTypes == TInv => TypeOK
  BY DEF TInv, Typed, TypeOK, RadioOK, Wifis, Radios, Https, Mains, Coords, Watches

(* A configured driver keeps DriverConfigured whatever else happens. *)
LEMMA FreshDriver ==
  ASSUME NEW saved \in Networks \cup {None}
  PROVE  FreshStation(saved).radio.config = None =>
           /\ FreshStation(saved).radio.events = <<>>
           /\ ~FreshStation(saved).radio.joining
           /\ FreshStation(saved).radio.joined = None
<1>1. CASE saved = None
  BY <1>1 DEF FreshStation
<1>2. CASE saved # None
  BY <1>2, NetworkAssumption DEF FreshStation, ApplyStaConfigAndConnect, EspConnect, Down
<1> QED BY <1>1, <1>2

LEMMA TInvInit == Init => TInv
<1> SUFFICES ASSUME Init PROVE TInv
  OBVIOUS
<1>1. creds \in Networks \cup {None} /\ refuses \subseteq Refusable /\ reachable \subseteq Networks
  BY NetworkAssumption DEF Init
<1>2. wifi \in Wifis /\ RadioOK(radio)
  BY <1>1, FreshTyped DEF Init
<1>3. DriverConfigured
  BY <1>1, FreshDriver DEF Init, DriverConfigured
<1>4. /\ event_task \in {"idle", "delay"} /\ http \in Https /\ main \in Mains
      /\ coord \in Coords /\ buttons \in BOOLEAN /\ watch \in Watches
  BY DEF Init, IdleHttp, FreshPass, FreshCoord, FreshWatch, Https, Mains, Coords, Watches
<1>5. submits \in 0..kSubmits /\ outages \in 0..kOutages
  BY NetworkAssumption DEF Init
<1>6. CandidateNamed
  BY DEF Init, IdleHttp, CandidateNamed
<1> QED BY <1>1, <1>2, <1>3, <1>4, <1>5, <1>6 DEF TInv, Typed

LEMMA TInvRestart ==
  ASSUME TInv, NEW saved \in Networks \cup {None}, RestartWith(saved)
  PROVE  TInv'
<1>1. creds' \in Networks \cup {None} /\ wifi' \in Wifis /\ RadioOK(radio')
  BY FreshTyped DEF RestartWith
<1>2. DriverConfigured'
  BY FreshDriver DEF RestartWith, DriverConfigured
<1>3. /\ event_task' \in {"idle", "delay"} /\ http' \in Https /\ main' \in Mains
      /\ coord' \in Coords /\ buttons' \in BOOLEAN /\ watch' \in Watches
      /\ CandidateNamed'
  BY DEF RestartWith, IdleHttp, FreshPass, FreshCoord, FreshWatch, Https, Mains, Coords,
         Watches, CandidateNamed
<1>4. /\ refuses' \subseteq Refusable /\ reachable' \subseteq Networks
      /\ submits' \in 0..kSubmits /\ outages' \in 0..kOutages
  BY DEF TInv, Typed, RestartWith, bounds
<1> QED BY <1>1, <1>2, <1>3, <1>4 DEF TInv, Typed, RadioOK

(* A handler's domain after it goes on. *)
LEMMA HttpGoesTyped ==
  ASSUME http \in Https, CandidateNamed, http.doing # "idle",
         NEW step \in {"poll", "resume"}, HttpGoes(step)
  PROVE  http' \in Https /\ CandidateNamed'
  BY DEF Https, CandidateNamed, HttpGoes

LEMMA IdleHttpTyped ==
  ASSUME http' = IdleHttp
  PROVE  http' \in Https /\ CandidateNamed'
  BY DEF Https, CandidateNamed, IdleHttp

LEMMA MainGoesTyped ==
  ASSUME main \in Mains,
         NEW step \in {"sample", "teardown", "first_connect", "finish", "watchdog"},
         MainGoes(step)
  PROVE  main' \in Mains
  BY DEF Mains, MainGoes

(* The driver and the event task. *)
LEMMA TInvDriver ==
  ASSUME TInv, NEW n \in Networks,
         Joins \/ FailsToJoin \/ NetworkChanges(n) \/ EventTask
  PROVE  TInv'
<1> USE DEF TInv, Typed
<1>1. CASE Joins
  <2>1. Append(radio.events, "got_ip") \in Seq(Events) /\ radio.config \in Networks
    BY <1>1 DEF Joins, RadioOK, Radios, Events
  <2>2. RadioOK(radio') /\ DriverConfigured'
    BY <1>1, <2>1, NetworkAssumption DEF Joins, RadioOK, Radios, DriverConfigured
  <2> QED
    BY <1>1, <2>2 DEF Joins, world, tasks, bounds, CandidateNamed, RadioOK
<1>2. CASE FailsToJoin
  <2>1. PICK reason \in {Terminal, Transient} : radio' = LosesLink(radio, reason)
    BY <1>2 DEF FailsToJoin
  <2>2. RadioOK(radio')
    BY <2>1, LosesLinkTyped DEF Events, RadioOK
  <2>3. radio'.config = radio.config /\ radio.config # None
    BY <1>2, <2>1 DEF FailsToJoin, MayEnd, LosesLink, RadioOK, Radios
  <2> QED
    BY <1>2, <2>2, <2>3 DEF FailsToJoin, world, tasks, bounds, CandidateNamed, RadioOK,
                            DriverConfigured
<1>3. CASE NetworkChanges(n)
  <2>1. reachable' \subseteq Networks /\ outages' \in 0..kOutages
    BY <1>3, NetworkAssumption DEF NetworkChanges
  <2>2. CASE radio.joined = n
    <3>1. radio' = LosesLink(radio, Transient)
      BY <1>3, <2>2 DEF NetworkChanges
    <3>2. RadioOK(radio')
      BY <3>1, LosesLinkTyped DEF Events, RadioOK
    <3>3. radio'.config = radio.config /\ radio.config # None
      BY <2>2, <3>1, NetworkAssumption DEF LosesLink, RadioOK, Radios, DriverConfigured
    <3> QED
      BY <1>3, <2>1, <3>2, <3>3 DEF NetworkChanges, tasks, CandidateNamed, RadioOK,
                                    DriverConfigured
  <2>3. CASE radio.joined # n
    BY <1>3, <2>1, <2>3 DEF NetworkChanges, tasks, CandidateNamed, RadioOK,
                            DriverConfigured
  <2> QED BY <2>2, <2>3
<1>4. ASSUME NEW event, Takes(event)
      PROVE  /\ RadioOK(radio') /\ radio'.config = radio.config /\ radio.config # None
             /\ UNCHANGED <<creds, refuses, reachable, http, main, coord, buttons, watch,
                            submits, outages>>
  <2>1. radio.events # <<>> /\ radio.events \in Seq(Events)
    BY <1>4 DEF Takes, RadioOK, Radios
  <2>2. Tail(radio.events) \in Seq(Events)
    BY <2>1
  <2> QED
    BY <1>4, <2>1, <2>2 DEF Takes, RadioOK, Radios, DriverConfigured, world, bounds
<1>5. ASSUME NEW reason \in {Terminal, Transient}, OnDisconnected(reason)
      PROVE  TInv'
  <2>1. wifi' \in Wifis /\ event_task' \in {"idle", "delay"}
    BY <1>5 DEF OnDisconnected, Wifis
  <2> QED
    BY <1>4, <1>5, <2>1 DEF OnDisconnected, CandidateNamed, DriverConfigured, RadioOK
<1>6. CASE Retry
  <2>1. wifi' \in Wifis
    BY <1>6 DEF Retry, Wifis
  <2>2. RadioOK(radio') /\ radio.config # None /\ radio'.config = radio.config
    BY <1>6, ConnectTyped DEF Retry, DriverConfigured, RadioOK, EspConnect, Radios
  <2> QED
    BY <1>6, <2>1, <2>2 DEF Retry, CandidateNamed, DriverConfigured, world, bounds, RadioOK
<1>7. CASE OnGotIp
  <2>1. wifi' \in Wifis /\ event_task' = event_task
    BY <1>7 DEF OnGotIp, Wifis
  <2> QED
    BY <1>4, <1>7, <2>1 DEF OnGotIp, CandidateNamed, DriverConfigured, RadioOK
<1> QED
  BY <1>1, <1>2, <1>3, <1>5, <1>6, <1>7 DEF EventTask

(* The handler of the portal. *)
LEMMA TInvHttp ==
  ASSUME TInv, NEW n \in Networks, Submit(n) \/ HttpTask
  PROVE  TInv'
<1> USE DEF TInv, Typed
<1>1. CASE Submit(n)
  <2>1. wifi' \in Wifis
    BY <1>1 DEF Submit, Wifis
  <2>2. http' \in Https /\ CandidateNamed'
    BY <1>1 DEF Submit, Https, CandidateNamed
  <2>3. submits' \in 0..kSubmits
    BY <1>1, NetworkAssumption DEF Submit
  <2> QED
    BY <1>1, <2>1, <2>2, <2>3 DEF Submit, HttpOnly, world, DriverConfigured, RadioOK
<1>2. CASE ApplyRefused
  BY <1>2, IdleHttpTyped DEF ApplyRefused, HttpOnly, world, DriverConfigured, RadioOK
<1>3. ASSUME NEW w \in Wifis, NEW m \in Networks,
             wifi' = ApplyStaConfigAndConnect(w, radio, m).wifi,
             radio' = ApplyStaConfigAndConnect(w, radio, m).radio
      PROVE  wifi' \in Wifis /\ RadioOK(radio') /\ radio'.config # None
  <2>1. wifi' \in Wifis /\ RadioOK(radio')
    BY <1>3, ApplyTyped DEF RadioOK
  <2>2. radio'.config # None
    BY <1>3, NetworkAssumption DEF ApplyStaConfigAndConnect, EspConnect, RadioOK, Radios
  <2> QED BY <2>1, <2>2
<1>4. CASE ApplyCandidate
  <2>1. http.ssid \in Networks /\ http.doing # "idle"
    BY <1>4 DEF ApplyCandidate, CandidateNamed
  <2>2. wifi' \in Wifis /\ RadioOK(radio') /\ radio'.config # None
    BY <1>3, <1>4, <2>1 DEF ApplyCandidate
  <2>3. http' \in Https /\ CandidateNamed'
    BY <1>4, <2>1, HttpGoesTyped DEF ApplyCandidate
  <2> QED
    BY <1>4, <2>2, <2>3 DEF ApplyCandidate, HttpOnly, world, DriverConfigured, RadioOK
<1>5. CASE PollSucceeds
  BY <1>5, TInvRestart DEF PollSucceeds, Https
<1>6. CASE PollFails
  <2>1. RadioOK(radio') /\ radio'.config = radio.config
    BY <1>6, DisconnectTyped DEF PollFails, EspDisconnect, LosesLink, RadioOK, Radios
  <2>2. DriverConfigured'
    BY <1>6, <2>1 DEF PollFails, DriverConfigured, EspDisconnect, Down, HttpOnly
  <2>3. http' \in Https /\ CandidateNamed'
    BY <1>6, HttpGoesTyped DEF PollFails
  <2> QED
    BY <1>6, <2>1, <2>2, <2>3 DEF PollFails, HttpOnly, world, RadioOK
<1>7. CASE ResumeSaved
  <2>1. creds \in Networks /\ Rearmed \in Wifis
    BY <1>7 DEF ResumeSaved, HadRetryTarget, Rearmed, Wifis
  <2>2. http' \in Https /\ CandidateNamed'
    BY <1>7, IdleHttpTyped DEF ResumeSaved
  <2>3. wifi' \in Wifis /\ RadioOK(radio') /\ DriverConfigured'
    <3>1. CASE /\ wifi' = ApplyStaConfigAndConnect(Rearmed, radio, creds).wifi
               /\ radio' = ApplyStaConfigAndConnect(Rearmed, radio, creds).radio
      BY <1>3, <2>1, <3>1 DEF DriverConfigured
    <3>2. CASE wifi' = Rearmed /\ UNCHANGED radio
      BY <1>7, <2>1, <3>2 DEF ResumeSaved, HttpOnly, DriverConfigured, RadioOK
    <3> QED BY <1>7, <3>1, <3>2 DEF ResumeSaved
  <2> QED
    BY <1>7, <2>2, <2>3 DEF ResumeSaved, HttpOnly, world, RadioOK
<1>8. CASE ResumeNothing
  <2>1. wifi' \in Wifis
    BY <1>8 DEF ResumeNothing, Wifis
  <2> QED
    BY <1>8, <2>1, IdleHttpTyped DEF ResumeNothing, HttpOnly, world, DriverConfigured,
                                     RadioOK
<1> QED
  BY <1>1, <1>2, <1>4, <1>5, <1>6, <1>7, <1>8 DEF HttpTask

(* The main task and the clock. *)
LEMMA TInvMain ==
  ASSUME TInv, MainTask \/ TimePasses
  PROVE  TInv'
<1> USE DEF TInv, Typed
<1>1. CASE OutageReboot \/ StartPortalAborts
  BY <1>1, TInvRestart DEF OutageReboot, StartPortalAborts
<1>2. ASSUME MainOnly, main' \in Mains, wifi' \in Wifis, coord' \in Coords,
             buttons' \in BOOLEAN, watch' \in Watches
      PROVE  TInv'
  BY <1>2 DEF MainOnly, world, bounds, DriverConfigured, CandidateNamed, RadioOK
<1>3. CASE Sample
  <2>1. main' \in Mains
    BY <1>3 DEF Sample, Mains, Connected
  <2> QED BY <1>2, <1>3, <2>1 DEF Sample
<1>4. CASE Teardown
  <2>1. wifi' \in Wifis /\ coord' \in Coords
    BY <1>4 DEF Teardown, Wifis, Coords
  <2> QED BY <1>2, <1>4, <2>1, MainGoesTyped DEF Teardown
<1>5. CASE FirstConnect
  <2>1. coord' \in Coords
    BY <1>5 DEF FirstConnect, Coords
  <2> QED BY <1>2, <1>5, <2>1, MainGoesTyped DEF FirstConnect
<1>6. CASE FinishBoot
  <2>1. coord' \in Coords /\ buttons' \in BOOLEAN
    BY <1>6 DEF FinishBoot, Coords
  <2> QED BY <1>2, <1>6, <2>1, MainGoesTyped DEF FinishBoot
<1>7. CASE StartPortal
  <2>1. wifi' \in Wifis /\ coord' \in Coords
    BY <1>7 DEF StartPortal, Wifis, Coords
  <2> QED BY <1>2, <1>7, <2>1, MainGoesTyped DEF StartPortal
<1>8. CASE NothingToFinish
  BY <1>2, <1>8, MainGoesTyped DEF NothingToFinish
<1>9. CASE WatchdogTick
  <2>1. watch' \in Watches
    BY <1>9 DEF WatchdogTick, SeesLink, Watches
  <2> QED BY <1>2, <1>9, <2>1, MainGoesTyped DEF WatchdogTick
<1>10. CASE TimePasses
  <2>1. coord' \in Coords /\ watch' \in Watches /\ ClockOnly
    BY <1>10 DEF TimePasses, GraceEnds, BootComesDue, OutageLimitPasses, Coords, Watches
  <2> QED
    BY <2>1 DEF ClockOnly, world, bounds, DriverConfigured, CandidateNamed, RadioOK
<1> QED
  BY <1>1, <1>3, <1>4, <1>5, <1>6, <1>7, <1>8, <1>9, <1>10 DEF MainTask

LEMMA TInvNext == TInv /\ [Next]_vars => TInv'
<1> SUFFICES ASSUME TInv, [Next]_vars PROVE TInv'
  OBVIOUS
<1>1. CASE UNCHANGED vars
  BY <1>1 DEF vars, world, tasks, bounds, TInv, Typed, DriverConfigured, CandidateNamed,
              RadioOK
<1>2. CASE \E n \in Networks : NetworkChanges(n) \/ Submit(n)
  BY <1>2, TInvDriver, TInvHttp
<1>3. CASE HttpTask \/ MainTask \/ TimePasses
  <2>1. CASE HttpTask
    <3>1. http.doing # "idle" => \E n \in Networks : TRUE
      BY DEF TInv, CandidateNamed
    <3>2. http.doing # "idle"
      BY <2>1 DEF HttpTask, ApplyRefused, ApplyCandidate, PollSucceeds, PollFails,
                  ResumeSaved, ResumeNothing
    <3> QED BY <2>1, <3>1, <3>2, TInvHttp
  <2> QED BY <1>3, <2>1, TInvMain
<1>4. CASE Joins \/ FailsToJoin \/ EventTask
  <2>1. radio.config \in Networks
    BY <1>4 DEF TInv, Typed, DriverConfigured, RadioOK, Radios, Joins, FailsToJoin,
                EventTask, MayEnd, OnDisconnected, OnGotIp, Retry, Takes
  <2> QED BY <1>4, <2>1, TInvDriver
<1> QED
  BY <1>1, <1>2, <1>3, <1>4 DEF Next

(* Every variable of the network keeps its type, and the driver never      *)
(* joins without a network, for any networks, worlds and bounds.           *)
THEOREM TypesKept == Spec => []TypeOK
<1>1. TInv /\ [Next]_vars => TInv'
  BY TInvNext
<1> QED
  BY <1>1, TInvInit, TInvTypes, PTL DEF Spec

-----------------------------------------------------------------------------
(* The watchdog: an outage that is over passed unseen, and only such a one *)
(* restarts the clock.                                                     *)

OInv == watch.outage = "over" => watch.unseen

LEMMA OInvNext == TInv /\ OInv /\ [Next]_vars => OInv'
<1> SUFFICES ASSUME TInv, OInv, [Next]_vars PROVE OInv'
  OBVIOUS
<1>1. ASSUME UNCHANGED watch PROVE OInv'
  BY <1>1 DEF OInv
<1>2. CASE UNCHANGED vars
  BY <1>1, <1>2 DEF vars, tasks
<1>3. ASSUME NEW saved, RestartWith(saved) PROVE OInv'
  BY <1>3 DEF RestartWith, FreshWatch, OInv
<1>4. CASE \E n \in Networks : NetworkChanges(n) \/ Submit(n)
  BY <1>1, <1>4 DEF NetworkChanges, Submit, HttpOnly, tasks
<1>5. CASE Joins \/ FailsToJoin \/ EventTask
  BY <1>1, <1>5 DEF Joins, FailsToJoin, EventTask, OnDisconnected, OnGotIp, Retry, Takes,
                    tasks
<1>6. CASE HttpTask
  BY <1>1, <1>3, <1>6 DEF HttpTask, ApplyRefused, ApplyCandidate, PollSucceeds, PollFails,
                          ResumeSaved, ResumeNothing, HttpOnly
<1>7. CASE WatchdogTick
  BY <1>7 DEF WatchdogTick, SeesLink, OInv, TInv, Typed, Watches
<1>8. CASE MainTask /\ ~WatchdogTick
  BY <1>1, <1>3, <1>8 DEF MainTask, Sample, Teardown, FirstConnect, FinishBoot, StartPortal,
                          StartPortalAborts, NothingToFinish, OutageReboot
<1>9. CASE TimePasses
  BY <1>9 DEF TimePasses, GraceEnds, BootComesDue, OutageLimitPasses, OInv, TInv, Typed,
              Watches
<1> QED
  BY <1>2, <1>4, <1>5, <1>6, <1>7, <1>8, <1>9 DEF Next

(* The watchdog restarts the clock only after a whole limit in which it    *)
(* never saw the link, for any networks, worlds and bounds.                *)
THEOREM RestartsOnlyInOutage == Spec => OutageIsContinuous
<1>1. Init => OInv
  BY DEF Init, FreshWatch, OInv
<1>2. OInv => [OutageReboot => watch.unseen]_vars
  BY DEF OInv, OutageReboot, ShouldOutageReboot
<1> QED
  BY <1>1, <1>2, TInvInit, TInvNext, OInvNext, PTL DEF Spec, OutageIsContinuous

-----------------------------------------------------------------------------
(* Where the driver takes every configuration, the retry; where it takes   *)
(* every change of mode, the end of the boot.  The portal of the           *)
(* coordinator is up only before the first connection; a pass that has     *)
(* sampled the connection has taken it down before it notes the first      *)
(* connection.                                                             *)

TakesConfig == \A w \in Worlds : "set_config" \notin w.refuses
TakesMode == \A w \in Worlds : "set_mode" \notin w.refuses

RefusesAsInWorld == \E w \in Worlds : refuses = w.refuses

PortalKnown == wifi.ap_mode /\ creds # None => coord.ap_up
PortalBeforeFirst ==
  /\ coord.ap_up => ~coord.connected_once
  /\ main.doing = "first_connect" /\ main.connected => ~coord.ap_up
NoCoordinator ==
  creds = None => ~coord.connected_once /\ main.doing \in {"sample", "watchdog"}

PInv == /\ RefusesAsInWorld
        /\ "set_config" \notin refuses => RetryResumes
        /\ "set_mode" \notin refuses => ButtonsComeUp /\ PortalKnown
        /\ PortalBeforeFirst /\ NoCoordinator

LEMMA PInvInit == Init => PInv
<1> SUFFICES ASSUME Init PROVE PInv
  OBVIOUS
<1>1. creds \in Networks \cup {None} /\ RefusesAsInWorld
  BY NetworkAssumption DEF Init, RefusesAsInWorld
<1>2. wifi.ap_mode = (creds = None) /\ wifi.sta_auto_retry = (creds # None)
  BY <1>1, FreshFlags DEF Init
<1> QED
  BY <1>1, <1>2 DEF Init, PInv, RetryResumes, ButtonsComeUp, PortalKnown, PortalBeforeFirst,
                    NoCoordinator, FreshCoord, FreshPass

LEMMA PInvRestart ==
  ASSUME PInv, NEW saved \in Networks \cup {None}, RestartWith(saved)
  PROVE  PInv'
<1>1. wifi'.ap_mode = (saved = None) /\ wifi'.sta_auto_retry = (saved # None)
  BY FreshFlags DEF RestartWith
<1> QED
  BY <1>1 DEF RestartWith, PInv, RefusesAsInWorld, RetryResumes, ButtonsComeUp, PortalKnown, PortalBeforeFirst,
              NoCoordinator, FreshCoord, FreshPass

(* A step of another task that keeps both flags, or resumes the retry.     *)
LEMMA PInvElsewhere ==
  ASSUME PInv, UNCHANGED <<creds, refuses, main, coord, buttons>>,
         wifi'.ap_mode = wifi.ap_mode,
         "set_config" \notin refuses /\ creds # None /\ http' = IdleHttp => wifi'.sta_auto_retry
  PROVE  PInv'
  BY DEF PInv, RefusesAsInWorld, RetryResumes, ButtonsComeUp, PortalKnown, PortalBeforeFirst, NoCoordinator

LEMMA PInvOthers ==
  ASSUME TInv, PInv, NEW n \in Networks,
         \/ Joins \/ FailsToJoin \/ NetworkChanges(n) \/ EventTask
         \/ Submit(n) \/ HttpTask
  PROVE  PInv'
<1> USE DEF TInv, Typed
<1>1. CASE Joins \/ FailsToJoin \/ NetworkChanges(n)
  BY <1>1, PInvElsewhere DEF Joins, FailsToJoin, NetworkChanges, world, tasks, PInv,
                             RetryResumes
<1>2. CASE EventTask
  <2>1. /\ wifi'.ap_mode = wifi.ap_mode /\ wifi'.sta_auto_retry = wifi.sta_auto_retry
        /\ UNCHANGED <<creds, refuses, http, main, coord, buttons>>
    BY <1>2 DEF EventTask, OnDisconnected, Retry, OnGotIp, Takes, Wifis, world
  <2> QED BY <2>1, PInvElsewhere DEF PInv, RetryResumes
<1>3. CASE Submit(n)
  <2>1. wifi'.ap_mode = wifi.ap_mode /\ http' # IdleHttp
    BY <1>3 DEF Submit, Wifis, IdleHttp
  <2> QED BY <1>3, <2>1, PInvElsewhere DEF Submit, HttpOnly, world
<1>4. CASE ApplyRefused
  BY <1>4, PInvElsewhere DEF ApplyRefused, HttpOnly, world
<1>5. CASE ApplyCandidate
  <2>1. http.ssid \in Networks
    BY <1>5 DEF ApplyCandidate, CandidateNamed
  <2>2. wifi'.ap_mode = wifi.ap_mode /\ http' # IdleHttp
    BY <1>5, <2>1, ApplyFlags DEF ApplyCandidate, HttpGoes, IdleHttp, RadioOK, Https
  <2> QED BY <1>5, <2>2, PInvElsewhere DEF ApplyCandidate, HttpOnly, world
<1>6. CASE PollSucceeds
  BY <1>6, PInvRestart DEF PollSucceeds, Https
<1>7. CASE PollFails
  <2>1. http' # IdleHttp
    BY <1>7 DEF PollFails, HttpGoes, IdleHttp, Https
  <2> QED BY <1>7, <2>1, PInvElsewhere DEF PollFails, HttpOnly, world
<1>8. CASE ResumeSaved
  <2>1. creds \in Networks /\ Rearmed \in Wifis
    BY <1>8 DEF ResumeSaved, HadRetryTarget, Rearmed, Wifis
  <2>2. wifi' \in {ApplyStaConfigAndConnect(Rearmed, radio, creds).wifi, Rearmed}
    BY <1>8 DEF ResumeSaved
  <2>3. wifi'.ap_mode = Rearmed.ap_mode /\ wifi'.sta_auto_retry = Rearmed.sta_auto_retry
    BY <2>1, <2>2, ApplyFlags DEF RadioOK
  <2>4. Rearmed.ap_mode = wifi.ap_mode /\ Rearmed.sta_auto_retry
    BY DEF Rearmed, Wifis
  <2> QED BY <1>8, <2>3, <2>4, PInvElsewhere DEF ResumeSaved, HttpOnly, world
<1>9. CASE ResumeNothing
  <2>1. wifi'.ap_mode = wifi.ap_mode /\ creds = None
    BY <1>9 DEF ResumeNothing, HadRetryTarget, Wifis
  <2> QED BY <1>9, <2>1, PInvElsewhere DEF ResumeNothing, HttpOnly, world
<1> QED
  BY <1>1, <1>2, <1>3, <1>4, <1>5, <1>6, <1>7, <1>8, <1>9 DEF HttpTask

LEMMA PInvMain ==
  ASSUME TInv, PInv, MainTask \/ TimePasses
  PROVE  PInv'
<1> USE DEF TInv, Typed
<1>1. CASE OutageReboot \/ StartPortalAborts
  BY <1>1, PInvRestart DEF OutageReboot, StartPortalAborts
<1>2. CASE Sample
  BY <1>2 DEF Sample, ShouldTeardownAp, MainOnly, world, PInv, RefusesAsInWorld, RetryResumes, ButtonsComeUp,
              PortalKnown, PortalBeforeFirst, NoCoordinator
<1>3. CASE Teardown
  <2>1. /\ "set_mode" \notin refuses => wifi'.ap_mode = FALSE
        /\ wifi'.sta_auto_retry = wifi.sta_auto_retry
        /\ coord'.ap_up = FALSE /\ coord'.connected_once = coord.connected_once
        /\ coord'.boot_finalized = coord.boot_finalized
    BY <1>3 DEF Teardown, Wifis, Coords
  <2>2. main'.doing = "first_connect" /\ creds # None
    BY <1>3 DEF Teardown, MainGoes, Mains, PInv, NoCoordinator
  <2> QED
    BY <1>3, <2>1, <2>2 DEF Teardown, MainOnly, world, PInv, RefusesAsInWorld, RetryResumes, ButtonsComeUp,
                            PortalKnown, PortalBeforeFirst, NoCoordinator
<1>4. CASE FirstConnect
  <2>1. main'.doing = "finish" /\ creds # None
    BY <1>4 DEF FirstConnect, MainGoes, Mains, PInv, NoCoordinator
  <2>2. /\ coord'.ap_up = coord.ap_up /\ coord'.boot_finalized = coord.boot_finalized
        /\ coord'.connected_once = (coord.connected_once \/ main.connected)
    BY <1>4 DEF FirstConnect, Coords, Mains
  <2> QED
    BY <1>4, <2>1, <2>2 DEF FirstConnect, MainOnly, world, PInv, RefusesAsInWorld, RetryResumes,
                            ButtonsComeUp, PortalKnown, PortalBeforeFirst, NoCoordinator
<1>5. CASE FinishBoot
  <2>1. main'.doing = "watchdog" /\ creds # None
    BY <1>5 DEF FinishBoot, MainGoes, Mains, PInv, NoCoordinator
  <2>2. /\ coord.connected_once /\ ~coord.ap_up
        /\ "set_mode" \notin refuses => ~wifi.ap_mode
    BY <1>5, <2>1 DEF FinishBoot, FinishesBoot, PInv, PortalBeforeFirst, PortalKnown, Wifis
  <2>3. coord'.ap_up = coord.ap_up /\ coord'.connected_once = coord.connected_once
    BY <1>5 DEF FinishBoot, Coords
  <2> QED
    BY <1>5, <2>1, <2>2, <2>3 DEF FinishBoot, MainOnly, world, PInv, RefusesAsInWorld, RetryResumes,
                                  ButtonsComeUp, PortalKnown, PortalBeforeFirst,
                                  NoCoordinator
<1>6. CASE StartPortal
  <2>1. main'.doing = "watchdog" /\ creds # None
    BY <1>6 DEF StartPortal, MainGoes, Mains, PInv, NoCoordinator
  <2>2. /\ coord'.ap_up = TRUE /\ coord'.connected_once = coord.connected_once
        /\ coord'.boot_finalized = coord.boot_finalized /\ ~coord.connected_once
        /\ wifi'.sta_auto_retry = wifi.sta_auto_retry
    BY <1>6 DEF StartPortal, ShouldStartFallbackAp, Coords, Wifis
  <2> QED
    BY <1>6, <2>1, <2>2 DEF StartPortal, MainOnly, world, PInv, RefusesAsInWorld, RetryResumes, ButtonsComeUp,
                            PortalKnown, PortalBeforeFirst, NoCoordinator
<1>7. CASE NothingToFinish \/ WatchdogTick
  <2>1. main'.doing \in {"sample", "watchdog"} /\ UNCHANGED <<wifi, coord, buttons>>
    BY <1>7 DEF NothingToFinish, WatchdogTick, MainGoes, Mains
  <2>2. MainOnly
    BY <1>7 DEF NothingToFinish, WatchdogTick
  <2> QED
    BY <2>1, <2>2 DEF MainOnly, world, PInv, RefusesAsInWorld, RetryResumes, ButtonsComeUp, PortalKnown,
                      PortalBeforeFirst, NoCoordinator
<1>8. CASE TimePasses
  <2>1. /\ ClockOnly /\ coord'.ap_up = coord.ap_up
        /\ coord'.connected_once = coord.connected_once
        /\ coord'.boot_finalized = coord.boot_finalized
    BY <1>8 DEF TimePasses, GraceEnds, BootComesDue, OutageLimitPasses, Coords
  <2> QED
    BY <2>1 DEF ClockOnly, world, PInv, RefusesAsInWorld, RetryResumes, ButtonsComeUp, PortalKnown,
                PortalBeforeFirst, NoCoordinator
<1> QED
  BY <1>1, <1>2, <1>3, <1>4, <1>5, <1>6, <1>7, <1>8 DEF MainTask

LEMMA PInvNext == TInv /\ PInv /\ [Next]_vars => PInv'
<1> SUFFICES ASSUME TInv, PInv, [Next]_vars PROVE PInv'
  OBVIOUS
<1>1. CASE UNCHANGED vars
  BY <1>1 DEF vars, world, tasks, PInv, RefusesAsInWorld, RetryResumes, ButtonsComeUp, PortalKnown,
              PortalBeforeFirst, NoCoordinator
<1>2. CASE \E n \in Networks : NetworkChanges(n) \/ Submit(n)
  BY <1>2, PInvOthers
<1>3. CASE MainTask \/ TimePasses
  BY <1>3, PInvMain
<1>4. CASE HttpTask
  <2>1. http.ssid \in Networks
    BY <1>4 DEF TInv, CandidateNamed, HttpTask, ApplyRefused, ApplyCandidate, PollSucceeds,
                PollFails, ResumeSaved, ResumeNothing
  <2> QED BY <1>4, <2>1, PInvOthers
<1>5. CASE Joins \/ FailsToJoin \/ EventTask
  <2>1. radio.config \in Networks
    BY <1>5 DEF TInv, Typed, DriverConfigured, RadioOK, Radios, Joins, FailsToJoin,
                EventTask, MayEnd, OnDisconnected, OnGotIp, Retry, Takes
  <2> QED BY <1>5, <2>1, PInvOthers
<1> QED
  BY <1>1, <1>2, <1>3, <1>4, <1>5 DEF Next

(* If the driver takes every configuration, the background retry of the    *)
(* saved network is off only while a candidate is being verified, whatever *)
(* else it refuses.                                                        *)
THEOREM RetryIsResumed == TakesConfig /\ Spec => []RetryResumes
<1> SUFFICES ASSUME TakesConfig PROVE Spec => []RetryResumes
  OBVIOUS
<1>1. PInv => RetryResumes
  BY DEF PInv, RefusesAsInWorld, TakesConfig
<1> QED
  BY <1>1, TInvInit, TInvNext, PInvInit, PInvNext, PTL DEF Spec

(* If the driver takes every change of mode, the end of the boot never     *)
(* finds the portal up: a clock that finished its boot has its buttons,    *)
(* even if a candidate's configuration was refused.                        *)
THEOREM BootEndsWithButtons == TakesMode /\ Spec => []ButtonsComeUp
<1> SUFFICES ASSUME TakesMode PROVE Spec => []ButtonsComeUp
  OBVIOUS
<1>1. PInv => ButtonsComeUp
  BY DEF PInv, RefusesAsInWorld, TakesMode
<1> QED
  BY <1>1, TInvInit, TInvNext, PInvInit, PInvNext, PTL DEF Spec
=============================================================================
