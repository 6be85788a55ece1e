# A TLA+ model of the BTClock v4 firmware

BTClock v4 is an ESP32-S3 firmware that shows Bitcoin data on seven e-paper panels. This directory holds
TLA+ modules for the parts of it in which several tasks, connections or long sequences of calls meet, the
TLC configurations that check them on small instances, and proofs checked by TLAPS.

Paths below are relative to `src/`; `init_*.cpp` are in `main/app/boot`. `PROJECT.json` names, for every
definition, the lines it stands for, and for every hazard of the code the line where it bites.

Contents: 1 inventory, 2 plan, 3 modules, 4 runs, 5 bounds, 6 fairness, 7 proofs, 8 what is left out,
9 where code and documents disagree.

## 1. Inventory

### How the parts interact

    data sources  --Report-->  DataHub  --notify-->  main task  --owns-->  ScreenManager --> panels
    zap relays, wallet worker  --flag, notify-->     (event loop)
    HTTP task   --command queue, MarkDirty-->        |   |
    button task --button queue-->                    |   +--> Wi-Fi coordinator, outage watchdog
    OTA task    --SetOtaOverlay, flag, notify-->     +--> LED task (block flash)
    OTA task, main task  --StartAll, StopAll-->  data sources
    HTTP task   --RefreshZapListenerSettings-->  zap listeners

Everything meets in one task. `RunEventLoop` owns the screen manager; the other tasks reach it through
the data hub's snapshot, four flags, two queues, a task notification - and two methods, `MarkDirty` and
`SetOtaOverlay`, that they call directly. A paint takes seconds, because seven panels are refreshed one
after the other, so anything may happen during one. Around it the network parts each have a socket or
event task of their own, and are started and stopped from elsewhere.

### Components

**Screen manager** (`main/app/screen_manager.cpp`, `screen_slot_map.hpp`, `rotation_plan.hpp`) - modelled.
State: slot, currency list, rotation plan and cursor, three notification latches (custom text, zap,
wallet payment), debug and update overlays, rotation age, pause, two dirty flags, the last-rendered
shadows. Operations: navigation, jumps by slot, kind or currency, notifications, auto-rotation, rebuild,
rendering. Hard: some twenty methods in any order; a rebuild swaps the layout under the slot; overlays
displace each other. Correct when the cursor follows the slot, a change of view always leads to a
repaint, a rebuild keeps the screen as long as its currency is listed, notifications come down.

**Settings** (`components/settings/settings_api.cpp`, `nostr_config.cpp`) - partly: the fields that matter
to rotation and relay budget. State: NVS keys. Operation: PATCH, which validates and writes one field
after the other. Hard: fields that constrain each other, a rebuild deferred to another task. Correct when
the rotation is what the settings ask for and an accepted body keeps the cross-field invariants.

**Painting** (`Render`, `ShouldRender`, the cell diffs of `main/screens`) - partly: without pixels and
refresh policy. State: panels, shadows, price throttle. Hard: screens share shadows; one rule decides
whether a repaint is due, another what it shows. Correct when a screen with nothing due is current.

**Data hub** (`components/data_core/hub.cpp`) - partly: snapshot, merge rule, report-then-notify, and, in the
modules of the sources, starting and stopping. Correct when heights never go back on the panels.

**Event loop** (`main/app/event_loop.cpp`, `control_command_drain.cpp`, `block_event_policy.hpp`) - partly:
without heartbeat and output devices. Hard: one notification counter shared by all tasks and cleared in
one take, one flag served per pass, marks set by other tasks during a paint. Correct when it never sleeps
on news, serves every flag, flashes blocks in order, leaves the update overlay alone.

**Notification listeners** - partly, as tasks that raise a flag and then notify.

**Wallet client** (`components/nwc/src/client.cpp`, `queue.cpp`, `init_nwc.cpp`) - partly: from `Start()` on.
State: one outstanding request (method and id), encryption, a bounded notice queue, a ring of seen
payments. Relay task, worker and main task all call in. Hard: requests displace each other, responses are
lost or late, every payment is noticed twice and listed again at boot. Correct when a payment is announced
once, none that was queued goes missing and the balance catches up.

**Mining pools and Bitaxe pollers** (`components/mining_pool_common/src/pool_base.cpp`,
`components/bitaxe/src/bitaxe_source.cpp`) - partly: the start and stop handshake. State: task handle,
hub pointer, stop flag, binary semaphore. Hard: `Stop()` gives up after twelve seconds and forgets a task
that is still there. Correct when a source that was stopped falls silent and one that was started polls.

**Nostr relays and zap listener** (`components/nostr/src/relay_client.cpp`, `subscription_manager.cpp`,
`zap_listener.cpp`, `nostr_data_source.cpp`, `init_zap_listener.cpp`) - partly: without parsing and
signatures. State: per relay a connection, a map of subscriptions, one event callback, a listener; 64
remembered receipts for all. Hard: several relays publish one receipt; the listeners may ride a data
source's socket and manager; keys, restarts and updates take them down from other tasks. Correct when a
receipt is announced once, every subscription reaches a relay that is connected, and no listener outlives
what it borrowed.

**Wi-Fi, provisioning, coordinator, watchdog** (`components/wifi/wifi.cpp`,
`components/webserver/provisioning_server.cpp`, `main/app/network_coordinator.cpp`,
`main/io/wifi_guard.cpp`) - partly. State: atomics of class `Wifi`, the driver's link and its event queue,
the coordinator's latches, the outage stamp. Hard: the event task's delayed retry, the portal's
verification of a candidate and events of an earlier attempt meet on one radio. Correct when the boot
ends with buttons, a saved network that stays is joined, one that is gone leads to the portal.

Not modelled:

- **BTClock relay source, mempool.space and Kraken source**: two sockets, a staleness probe and a REST
  fallback. Their reports, in any order, are in `Painting` and `EventLoop`; their connections are not.
- **Firmware update** (`components/ota`): download and verification against the flash. The pre-flash hook
  and the update overlay are in `EventLoop`, the shutdown of relays and sources in `ZapListener`.
- **Buttons**: one task counting 20 ms samples of four keys. `EventLoop` takes any click at any time.
- **Control server, authentication, server-sent events**: request handling in the HTTP task.
- **LEDs, frontlight, do-not-disturb**: effect queues of output devices, a comparison of times of day.
- **Proxy transport, TLS gate**: a byte-level handshake in one task, a semaphore.
- **Storage, time zone, metrics; boot wiring, factory reset**: wrappers, and code run once in one task.
- **Layouts and formatting, e-paper and I2C drivers, fonts, QR, signatures**: pure conversions, hardware
  access, vendored code and generated tables.

## 2. Plan

Written, in this order, the most important behaviour first:

1. `SlotMap`, `RotationPlan`, `ScreenMethods`, `ScreenManager`: the display state machine.
2. `ScreenSettings`, `SettingsPatch`: from a PATCH to the rotation.
3. `DataHub`, `ScreenPainting`, `Painting`: what is really on the panels.
4. `EventLoop`: the tasks around the manager.
5. `NwcClient`, the first of the network components; `AnnounceOnce`, what it implements.
6. `ZapListener`, which implements `AnnounceOnce` as well.
7. `PollTask`: the handshake of the polled sources.
8. `Network`: Wi-Fi, portal, coordinator and watchdog.
9. The proof modules, one for each component; the settings' are proved with the screen manager's, whose
   assumptions on lists and plans they discharge.

Left, in the order of what they would add: the BTClock source with its probe task and staleness rule,
the update's download and rollback, the hand-over of command payloads between HTTP and main task, button
timing, and a proof that a step of `EventLoop` is a step or stutter of `Painting` (a paint as one step).

## 3. Modules

| module | code | state |
|---|---|---|
| `SlotMap` | layout of the cycle: slots, API ids, kinds under a number of currencies | - |
| `RotationPlan` | `BuildRotationSequence`, `ResumeSlot` | - |
| `ScreenMethods` | every method of `ScreenManager` as an operator on a record of its fields | - |
| `ScreenManager` | those methods under their callers | `sm`, `hidden` |
| `ScreenSettings` | `is_enabled`, the rotation the settings ask for, what GET lists | - |
| `SettingsPatch` | `ApplyPatch`, the deferred rebuild, a reboot | `nvs`, `live`, `pending`, `answer` |
| `DataHub` | snapshot, `Merge`, height validation | - |
| `ScreenPainting` | `Render`, `ShouldRender`, cell diffs, shadows | - |
| `Painting` | manager and panels under data, navigation, preferences | `sm`, `pt`, `snap`, `time`, `prefs` |
| `EventLoop` | the main task step by step, the tasks that wake it | `pc` and seventeen more |
| `AnnounceOnce` | abstract: events are announced after they exist, each at most once | `published`, `times` |
| `NwcClient` | the wallet client and its three tasks, the wallet and the relay | `client`, `ring`, `queue`, `task`, ... |
| `PollTask` | a polled source, its poll tasks, the tasks that start and stop it | `task_`, `hub_`, `stop_`, `done_`, ... |
| `ZapListener` | relays, subscriptions, listeners; keys, restart, update | `up`, `reqs`, `subs`, `listener`, `ws`, `caller`, ... |
| `Network` | driver, event task, portal, main task's pass, time | `wifi`, `radio`, `http`, `main`, `coord`, `watch`, ... |

Each `MC*` module instantiates one of them for TLC. Eight modules hold proofs: `ScreenMethodsProofs` (lemmas
on the methods and on what a paint leaves, used by three others), `ScreenManagerProofs` (the manager and the
settings), `EventLoopProofs`, `PaintingProofs`, `NwcClientProofs`, `PollTaskProofs`, `ZapListenerProofs`, `NetworkProofs`.

`ScreenMethods` is the heart: `ScreenManager`, `Painting` and `EventLoop` use the same operators, so a method
is translated once. The three differ in grain:

- `ScreenManager` calls every method at any time, with no guard the caller does not have; an action is
  named `Do` + the method.
- `Painting` adds the panels. A paint is one step. The panels record the view, the preferences and the
  value of the frame; a cell diff over panels that do not show what the shadow says gives the view
  `Mixed`. A *world* says what a device meets: plans, data, samples, times, preferences.
- `EventLoop` splits the main task's pass (`pc`: top, take, serve, painting). What will be on the panels is
  settled when painting starts, the dirty flags are cleared when it ends, and other tasks act in
  between. `owed` holds the tasks between their change of shared state and their notification.

`SettingsPatch` represents a body by its scalar fields in the client's order, then the composite fields in
the order the handler looks them up. The fields that do not touch rotation or relays are represented by
one that never validates (`malformed`).

In `NwcClient`, noting a request's method and noting its id are two steps, since encryption and signing -
hundreds of milliseconds - lie between; so are matching a response and using it, and the worker's test
whether it may ask and its asking. Ids are only compared with the noted one, so a wire event says
whether it belongs to the request noted last. A balance is the set of payments it counts. `due` and
`announced` are history variables.

In `PollTask`, each line of `Start()` and `Stop()` that another task can see is a step of an owner; handles
are names that may be used again. `given_up` counts the `Stop()` calls that stopped waiting.

In `ZapListener`, a relay's socket task copies the subscriptions and sends them in two steps, and a callback
is a step of its own, since it verifies a signature. `caller` is the one task that changes keys, restarts
the sources or prepares an update in a given world; its programs (stop the listeners, free them, build
them; stop and start the sources) go relay by relay. Use of a freed listener either finds the memory
intact or ends in `panicked`.

In `Network`, the driver queues events and the event task handles one after the other, sleeping two seconds
before a retry; the portal applies a candidate, polls, and resumes the saved network in separate steps;
the main task samples the connection twice in a pass. Three deadlines pass as actions: grace, boot, outage.

## 4. Runs

| run | shows |
|---|---|
| `screen` | all methods in all orders over two currency lists and their plans: one notification latch at a time (`OneNotification`); the cursor points at the slot on screen (`CursorInSync`); each change of view leaves a repaint pending (`RepaintPending`); a rebuild keeps kind and currency, and leads to slot 0 from a currency slot exactly when the currency is gone or the slot's old number lies outside the new layout (`RebuildKeepsScreen`; the comment knows only the first exception, see section 9). Left alone, notifications come down (`NotificationExpires`) and rotation visits every visible planned slot again and again (`RotationVisits`). |
| `settings_patch` | bodies of every kind in every order: the plan is exactly the enabled screens the order names, in that order (`PlanIsExact`), none that GET hides (`RotationShowsListedScreens`); slots, API ids and kinds agree (`ApiRoundTrip`); a reboot resumes inside the plan (`ResumeLands`); an accepted body that changes the rotation queues a rebuild, or for the wallet switch asks for a reboot (`PatchRebuildsOrReboots`; the pool's name is `pool_change` below), and with entries of one URL never exceeds the relay budget (`AcceptedPatchKeepsRelayBudget`). |
| `painting` | on a device that has heard its data, a screen with nothing due shows the current value in the current preferences, whatever shadows are shared (`SettledShowsCurrent`); handling a data push settles the screen (`RenderSettles`); heights never go back (`HeightNeverRegresses`). |
| `event_loop` | the main task never blocks on news the panels do not show, but for a price the throttle holds back and the time (`NoLostWakeup`), flashes blocks in ascending order (`FlashesAscend`), and nothing in flight but the debug overlay paints over the update overlay (`OtaOverlayStays`). When news stops the panels become and stay current (`EventuallyCurrent`) and flags are served (`FlagsServed`), as long as the main task's passes go on to its flags now and then: a command or a click ends a pass before. |
| `wallet` | the client implements `AnnounceOnce` (`AnnouncesOnce`), and no payment whose notice found room in the queue goes missing (`NoticeKept`). Once the connection holds, the hub ends up with the wallet's balance, however requests displaced each other before (`BalanceCatchesUp`). |
| `poll_task` | every poll task is answered for by the `Stop()` to come or by one that gave up (`PollersAccounted`); a `Stop()` that did not give up is final (`StopIsFinal`); a started source polls (`PollsWhenStarted`), a stopped one falls silent, tasks given up on included (`FallsSilent`). |
| `zaps` | the listeners of all relays together implement `AnnounceOnce` (`AnnouncesOnce`); a connected relay has been asked for every subscription (`SelfHeals`) and, from its next reconnection on, for the keys that a refresh put in use (`FollowsKeys`); a refresh comes to its end with the saved keys in use (`RefreshInstalls`); an update frees no manager a listener still needs (`BorrowersStopFirst`). |
| `network` | the boot ends with buttons (`ButtonsComeUp`); the retry is off only while a candidate is verified (`RetryResumes`); the watchdog fires in continuous outages only (`OutageIsContinuous`); where the portal can start, a network that stays is joined and the portal goes down (`SavedNetworkReturns`), and one that is gone leads to the portal (`PortalWhenGone`). |

The runs of `EventLoop`, `NwcClient` and `ZapListener` check their `TypeOK` as well.

Four runs show a disagreement between the code and one of its own comments; each is a finding in
`PROJECT.json`:

| run | disagreement |
|---|---|
| `pool_change` | the estimated earnings are in the rotation with some pools only, but `miningPoolName` is none of the keys that queue a rebuild (`control_server.cpp:3144`), though such a PATCH "picks up on the next rotation step without a reboot" (`init_screen_manager.cpp:245`). Shown by `PoolChangeIsLive`. |
| `zap_keys` | followed keys are stored under the plural name, whichever form the body has, and the hook that refreshes the listeners waits for the singular name or a gate (`control_server.cpp:3207`), though it is there "so the new pubkey / gates take effect without a reboot" (`control_server.hpp:451`). Shown by `FollowsSavedKeys`. |
| `shared_socket` | a manager holds one event callback; the zap listener that rides a Nostr data source replaces it and drops what is not its own (`zap_listener.cpp:28`), though the header says the manager "routes relay-pushed EVENT frames to the correct callback by sub-id". With `dataSource` 2 and zaps on, the clock loses everything its Nostr source receives; a BTClock relay source wired next to it still reports. |
| `retry_lost` | when the driver refuses the candidate's configuration, `TryConnect` returns with the background retry off (`wifi.cpp:131`), though the retry is to be resumed "on every non-success exit" (`wifi.cpp:134`). The saved network is not tried again. |

Each property of a passing run has a mutant: a definition with a plausible mistake in it, under which the
same run finds the property violated.

## 5. Bounds

- `screen`: `RotatePeriod` and `OverlayTimeout` are 1 tick: a deadline is pending, due or absent, and every
  method can come on either side of it; the code compares ages only with these two. Lists [USD, EUR] and
  [EUR]: growth, shrinkage, a currency that moves and one that disappears. Plans: pool earnings, which can be
  hidden, the fee rate, whose slot number moves with the list, and the single-slot fallback. `JumpSlots` reaches the currency
  region and past the end of the shorter layout.
- `settings_patch`: about twenty bodies (`MCBodies`), every field alone and those combinations whose
  validation reads another field. A relay entry is one URL (`UrlsPerEntry` = 1), as the budget needs
  (section 9). `pool_change` uses the same bodies.
- `painting`: three worlds whose screens share a shadow, the throttle or a fee field; two values of each
  datum, since shadows are only compared for equality and two are enough to differ. A sample stands for a
  formatted string. Every world is `Informed`: the hub holds a height, a fee and all prices, and SNTP has
  landed, before the first screen, and `blockFeeDec` is on. Section 9 says what goes wrong
  outside. The module asserts `Informed`, so TLC evaluates it.
- `event_loop`: heights 1, 2 and 4 around `kCatchUpJumpBlocks` = 1; `ActorSets` says which tasks meet: two of
  them besides the main task, since each works alone on the notification, which the main task clears; the
  pairs include the two that may end every pass early, HTTP commands and buttons. `Worlds` combines them
  with settings and plans: blocks take the screen only where a zap or the update overlay is about, and a
  price, whose repaints wait for the throttle, is in the rotation only where zaps or a preference are. None
  of the three changes in a behaviour, so the constraint cuts no behaviour short. The hub has heard its
  data before the first screen, so that the initial states are `Calm` but for those with a preference
  patched (section 7). Queues hold one element; the main task drains them before anything else.
- `wallet`: two payments, of which p settles first (`InOrder`), a queue of one, a ring of two, both encryptions;
  SNTP lands at any time, the first step included. `FewEvents` = two events on the wire, three for one payment
  of a NIP-04 wallet: the queue overflows, twins meet, the list fetched at boot meets a live notice.
  `OneEpoch`: a second payment, and one announced before SNTP lands and again after it (section 9), are left
  out while the clock is not set. `MaxExchanges` = 1 keeps timer and reconnection from piling up requests; equal
  events of displaced requests count as one.
- `poll_task`: one owner, the main task, which stops and restarts; three handles; `TwoGivenUp`, so that two
  stragglers and a new task live together.
- `zaps`: two relays, two receipts, two key lists, kCap = 2. A world is one relay whose keys change (own or
  ridden socket; `zap_keys` has these alone), two relays under an update (own or ridden), or one ridden
  relay under a restart.
- `network`: a home and a guest network, one submitted form (`kSubmits`), two outages (`kOutages`). A clock
  that knows its home, one that does and whose portal may fail to start, and one that knows nothing and
  whose driver may refuse a configuration.

No run uses symmetry. `wallet` and `poll_task` check liveness under their constraints: for behaviours with few
events on the wire at a time, and with at most two `Stop()` calls that gave up; a behaviour in which
they give up for ever is not covered. The deadlock check is off only in the
`ZapListener` runs, where the device may really stop: an update ends in a reboot, a use of freed memory in
a panic.

## 6. Fairness

- `ScreenManager`: `WF(Tick)` (time passes), `WF(DoAutoRotate)` (the loop polls `MaybeAutoRotate` every
  second at the latest). The liveness properties say "from some point on undisturbed": a user who
  keeps pressing buttons may hold a notification off, which the code intends.
- `EventLoop`: `MainTaskRuns`, infinitely many steps of the main task. It stands for weak fairness because the
  task has a step in every state: some branch of the pass is always open. It is justified because the
  task blocks only in `ulTaskNotifyTake` with a one-second timeout and the e-paper waits have timeouts.
  `NotifierRuns`, which is `WF(Notify)` with the guard of `Notify` written out, and
  `WF(on_settings_patched)`: a task that has changed shared state reaches its next line.
  `WF(Tick)`. Nothing is assumed of sources, users or updates. A pass that takes a command or a click ends
  there (`continue`), so `EventuallyCurrent` and `FlagsServed` are about behaviours whose passes get to
  the serving of news (`PassesServe`), or of flags (`PassesServeFlags`: outside the debug overlay), again
  and again. `PausesLetPassesServe` proves that they do once the user pauses. `FlagsServed` says of a
  payment only that it is served unless a zap comes: zaps outrank payments.
- `NwcClient`: weak fairness of each step of a task, of the timer, and of a wallet that answers what reaches
  it. None for delivery: `BalanceCatchesUp` assumes instead that from some point on the connection
  holds and that an exchange ends within a timer period (15 s at least), and that INFO came at some
  time.
- `PollTask`: weak fairness of each owner's and each task's steps (`OwnerRuns`, `TaskRuns`: WF with the guards
  written out): both are scheduled, and a request ends because its socket times out. Nobody is made to start or stop. One timing assumption is a guard: a poll
  task without a request under way answers the stop flag within the twelve seconds, as it sleeps one
  second at a time.
- `ZapListener`: weak fairness of each socket task and of the calling task's program. No relay is assumed to
  answer or a link to hold; `FollowsKeys` speaks of relays that go down again and again, and needs no
  fairness.
- `Network`: weak fairness of the event task, the HTTP task, the main task, of an attempt's end
  and of the three deadlines. Nothing makes a user submit, a network come back or a link break. One timing
  assumption is a guard: an attempt does not end between the two driver calls of `resume_saved`
  (`MayEnd`), which are microseconds apart.

## 7. Proofs

All theorems hold for every value of the constants that satisfies the named assumptions of the modules
(non-empty lists of codes, plans of slots of their layout - what `BuildRotationSequence` returns, by
`LivePlansFit` below - positive periods, and the domains of the worlds).

**Screen manager.** `Good(m)` - types, at most one notification latched, cursor in sync - is kept by every
method: one lemma per method in `ScreenMethodsProofs`, with the library facts about remainders and least
elements stated once. The cursor alone is not inductive: it is recomputed by scanning the plan for the
slot, which finds an index only if plan and slot are well typed; exclusiveness is needed where navigation
leaves one overlay and would otherwise uncover the other. Theorems `InductiveInvariant`, `TypesHold`,
`NotificationsExclusive`, `CursorStaysInSync`, `ViewChangesAreRepainted` (the action property
`RepaintPending`), `RebuildsKeepTheScreen`.

**Settings.** `PatchInv`: NVS holds settings of the right types, whose order names no screen twice. It is kept
field by field through a PATCH, refused ones included, which keep what they wrote before the bad field
(`SettingsStayGood`). The layout is read both ways, slot to API id and back, for any number of currencies
(`ApiIdsRoundTrip`). What `BuildRotationSequence` computes is a flattened list
of lists, one for each turn of its loop, and the library flattens by a recursive function. The induction this
takes has no rule the provers can use; the lemma `UpTo` does it for a set of indices, from a least
counterexample, and `RecursionHasValue` gives the value of each turn. A rank that increases along the
flattened list then says that the order is kept and no slot comes twice: `RotationIsExact`, `RotationIsListed`, `RebootLandsInRotation`. What a PATCH has touched bounds what it
changed: `PatchesRebuildOrReboot` (`PatchRebuildsOrReboots`); the relay count follows the order of the
fields: `RelayBudgetHolds`, of entries of one URL (`UrlsPerEntry` = 1).
`LivePlansFit` closes the circle: the lists and plans handed to the screen manager are those its theorems
assume (`CurrencyListsAssumption`, `PlansAssumption`). Assumed of the constants: what the JSON of a body can
be (`BodiesAssumption`, `DefaultCurrencyAssumption`).

**Event loop.** `LInv` = `Good(sm)`, the control state, *Heights* (no block above the hub's is flashed, and a
flash under way lies between the last one and the hub's) and *Panels* (what a paint under way will leave).
`TypeCorrect`, `AnnouncedInOrder` (`FlashesAscend`), `UpdateOwnsPanels` (`OtaOverlayStays`).

`NoWakeupIsLost` (`NoLostWakeup`) is about a `Calm` device: its hub has heard height, fee and prices before the
first screen, no preference is patched while it paints, and flagged payments are shown. Section 9 says
what happens to the others. Its invariant `CInv` has two halves. With neither the update nor the debug overlay up,
the panels show the current screen with the value in its shadow, or the paint that will make it so is under
way; only then may a repaint still be asked for. And that value is the hub's (`Fresh`), or news is *coming*: a
source is between its report and its notification, the notification is pending, or the pass that took it
has not ended. A pass that took the notification and leaves for another screen paints that
one with the hub's data of the moment, so no branch of the pass drops it. When the main task blocks
with nothing left to take, no news is coming, so what is shown is the hub's. Prices and the clock are left
out of `Fresh`: the throttle holds a price back, and the clock's time changes unannounced.

Liveness: `EveryFlagIsServed` (`FlagsServed`) and `PanelsCatchUp` (`EventuallyCurrent`, of a `Calm` device).
The provers know nothing of `ENABLED`, hence of `WF`; where the fairness is stated as infinitely many steps, or
a guard that fails again and again, the temporal prover takes it. The lemmas say what one step of the main
task, or of another, does to a flag and to the news; the theorems go by stages. Once sources are quiet and
the notifiers have run, the last notification is pending and nothing follows it; a pass that serves takes it;
the paint it begins ends; and the calm device's invariant says that panels without news coming are current.

**Painting.** `HeightsNeverGoBack` needs only that a height on the panels is at most the hub's (`HInv`). The
other two rest on `SInv`, of informed worlds: while no repaint is forced, the value on the panels is the one
in the current screen's shadow. Comparing snapshot with shadow then compares it with the panels, and a
cell diff against the shadow is a diff against what the cells hold. Shadows are shared, so a screen may
find another's value in its own; every change of screen forces the next paint, which the lemmas on what
each method *asks* state. `SettledPanelsAreCurrent`, `PushesSettle` (hypothesis `Informed`).

**Wallet client.** `ImplementsAnnounceOnce` (hypotheses `HoldsAll`, the ring holds every payment, and
`ClockSet`): the ring holds exactly the announced payments, each once, and whatever is queued, on the wire or in
a task's hands has settled (`AInv`). `TypeCorrect` and `NoticesKept` need neither hypothesis (`KInv`):
what the ring holds was announced, and a client that is ready knows the wallet's encryption, so it drops
only notices whose twin is sent too.

**Zap listener.** `ImplementsAnnounceOnce` (hypothesis `HoldsAll`: the window holds every receipt), by `RInv`:
only published receipts travel, the window holds exactly the notified ones. For any window, `DInv`: what
the device's fields may hold, what the calling task's program has done so far, which manager a listener
borrows, which subscriptions are in the map, and that a connected relay has them or is about to be asked.
`TypeCorrect`, `SubscriptionsHeal` (`SelfHeals`), `BorrowersAreStopped` (`BorrowersStopFirst`).
`KeysAreFollowed` (`FollowsKeys`): after a refresh the manager's map has the keys in use, installed relay by relay
(`Patched`), and REQs are sent again only over a connection; so a relay that is down has yet to be asked for
the keys in use, and from there on no step asks it for others (`FollowingStays`). Of saved keys for which
no refresh was run it says nothing: `zap_keys`.

**Poll task.** `TypeCorrect` for any owners; `PollersAreAccounted` and `StopIsFinalForOneOwner` for one owner
(the device has two, see section 9), from where the owner is while a handle is kept. The count of live
tasks uses the library's facts on cardinality.
Liveness: `StoppedFallsSilent` (`FallsSilent`) for two owners, or one: while the flag stays up no owner reaches
the creation of a task, one already there leaves it once, and each task left goes from request to loop to
exit. `StartedHasPoller` and `StartedSourcePolls` (`PollsWhenStarted`) for one owner; with two, a source may
end up started under the flag of the other's `Stop()`. Which task polls depends on when the source was left
alone, so the theorem takes the tasks' fairness as `AllTasksRun`, [] of `TaskRuns` for all tasks: the same
formula as in `FairSpec`, since each `TaskRuns(t)` holds always if it holds once, but the provers cannot
move the [] over the quantifier, and TLC does not accept it outside.

**Network.** `TypesKept`; `RestartsOnlyInOutage` (`OutageIsContinuous`); with a driver that takes every
configuration (`TakesConfig`; `retry_lost` shows why) `RetryIsResumed` (`RetryResumes`), and with one that takes
every change of mode (`TakesMode`) `BootEndsWithButtons` (`ButtonsComeUp`), from `PInv`: with a network saved, the portal is up only while the coordinator knows
it, and only before the first connection is noted.

Only model-checked: six liveness properties whose argument counts - ticks of a timeout
(`NotificationExpires`), entries of a plan (`RotationVisits`), queued events and attempts
(`SavedNetworkReturns`, `PortalWhenGone`), requests and payments (`BalanceCatchesUp`), relays left to a program
(`RefreshInstalls`) - since no installed prover has a rule of induction for temporal formulas. Every other
property of a passing run is the subject of a theorem.

## 8. What the models leave out

- The rotation without a plan (`AdvancePastSkipped` over the whole layout): boot and every rebuild
  install a plan.
- A PATCH is one step: the HTTP server handles one request at a time, and the main task reads NVS only in
  the rebuild, which is queued afterwards. The command queue is taken to have
  room for it: the hook waits 50 ms for a place and ignores that a queue of eight is full
  (`init_control_api.cpp:304`), so a rebuild posted behind eight commands, during a paint, is lost.
- Rendered text. Painting keeps which datum a cell shows; the price throttle is a boolean; full refreshes
  are not told from partial ones.
- `EventLoop` starts after the first frame (`FinishBoot`). The drained commands are represented by a
  navigation and a custom text. No heartbeat, do-not-disturb and network ticks, which do not touch the
  manager.
- `NwcClient`: `Start()` itself, including an INFO that arrives before `state_` is set
  (`client.cpp:206-210`); the unsynchronised `std::string` assignments, each taken as atomic though two tasks may
  be inside one; payments without a hash; the passing of the 120 s window, but not the jump of the clock
  when SNTP lands; the balance kept in NVS; the path on which the relay does not start.
- `PollTask`: which pool is chosen, at boot, and what an answer holds.
- `ZapListener`: signatures, fragments of frames, the order of a data source's events, a relay that
  cannot be started; one task at a time calls in.
- `Network`: scans, transmit power, the `wpTimeout` of a portal without credentials, LED feedback; a clock that fails to
  start its portal or station while it boots (`ESP_ERROR_CHECK`), which only boots again.

The map covers about one line in twenty of the tree, because half of the tree is vendored or
generated (secp256k1 and its tables, fonts, QR, a WebAssembly tool) and much of the rest is drivers,
formatting, request handling and wiring (section 1), sequential code without an order of events to
explore.

## 9. Where code and documents disagree

Besides the four findings of section 4, modelling met these. They are not runs of their own.

Display
- On EUR of [USD, EUR], a change of the list to [EUR] drops the user to slot 0, as `slot_ >= n` is tested before
  the currency is looked up (`screen_manager.cpp:307`), though a rebuild should not drop the user "unless
  the code disappears from the new list" (`:288`). `RebuildKeepsScreen` states it, and
  `RebuildsKeepTheScreen` proves that there is no other exception.
- A jump to a price screen whose price has not arrived paints nothing yet clears the flags; the late
  price is diffed against the previous screen's cells (`screen_manager.cpp:1041`, `:781`).
- *Next* on an overlay can move the slot, if the slot is hidden or no longer in the plan
  (`screen_manager.cpp:473`).
- The API navigates under the debug overlay, the buttons do not (`screen_manager.hpp:184`).
- The debug button paints over the update overlay (`event_loop.cpp:203`, `screen_manager.hpp:171`);
  `OtaOverlayStays` allows it this.
- Without SNTP the clock screen repaints on each push (`screen_manager.cpp:633`); the turn of a minute does
  not wake the loop (`event_loop.cpp:534`).
- With `blockFeeDec` off, the test whether a fee repaint is due reads another field than the paint
  (`screen_manager.cpp:620`): it repaints endlessly or shows a stale fee.

Event loop
- A mark set during a paint is cleared when the paint ends (`screen_manager.cpp:1041`,
  `init_control_api.cpp:170`): the new preference waits for the next push or rotation. `NoLostWakeup` is
  therefore about devices without an active `settings` task; `EventuallyCurrent` is checked with it, and holds
  because the rotation repaints; it is proved of a calm device only.
- A command or a click ends the pass (`event_loop.cpp:132` ff.): a user who sends one for every pass keeps the
  loop from flags and data for as long, hence the hypotheses of `EventuallyCurrent` and `FlagsServed`.
- With `nwcShowNotify` off, serving the payment flag uses up the wake-up of the balance reported with it
  (`event_loop.cpp:423`, `docs/SETTINGS.md:281`).
- With `timerSeconds` zero, overlays never come down (`event_loop.cpp:453`, `docs/HANDBOOK.md:1086`).
- The flash of a new block can precede its paint (`event_loop.cpp:555`, `:491`).
- Stealing focus takes the screen from a custom text (`block_event_policy.hpp:41`, `event_loop.cpp:502`).

Settings
- A PATCH rejected late leaves its earlier writes without running their hooks (`control_server.cpp:2971`). With
  four relays stored, a body that enables the wallet and carries a shorter list with a bad entry is
  answered 400 after the wallet was enabled (`settings_api.cpp:631`), against the "relay-budget invariant"
  (`:1015`). `AcceptedPatchKeepsRelayBudget` therefore speaks of accepted bodies, from a device within the budget.
- Relay entries are counted, joined by commas and split again when read (`settings_api.cpp:1012`,
  `nostr_config.cpp:21`): an entry of two URLs counts once and connects twice, against the same invariant.
  `RelayBudgetHolds` therefore assumes `UrlsPerEntry` = 1; with more, `AcceptedPatchKeepsRelayBudget` fails.
- A reorder that does not name every listed screen is accepted if its length fits
  (`settings_api.cpp:1131`, `docs/SETTINGS.md:77`).
- An emptied relay list falls back to the legacy relay (`settings_api.cpp:1037`, `:958`).

Wallet
- The header calls the client single-threaded (`components/nwc/include/nwc/client.hpp:22`); main task
  and worker call in as well.
- A payment is announced again when SNTP sets the clock after its notice (`client.cpp:441`), or
  when a list of up to twenty transactions pushes it out of the ring of eight.
- While no id is noted, any late response is taken (`client.cpp:375`).
- The main task's poll does not yield to an outstanding `list_transactions`, as the worker's does
  (`event_loop.cpp:398`): the list fetched at boot - payments made while the device was off - can be
  thrown away and is not asked for again (`init_nwc.cpp:269`). The worker tests that no list is
  outstanding and then asks; a list requested in between is orphaned in the same way.

Sources and relays
- "We stop every data source" (`init_control_api.cpp:583`) makes the update task a second owner of the
  sources, next to the main task, which is to keep their life "single-threaded"
  (`control_command_drain.cpp:106`). An update that meets a restart breaks `PollersAccounted` and
  `StopIsFinal`: two `Stop()` calls wait for one signal, or a source is started behind the update's back.
- A REQ copied before a change of keys may be sent after the new one; the old filter stays until the
  next reconnection (`subscription_manager.cpp:52`). `FollowsKeys` therefore promises no more.
- `RefreshZapListenerSettings` stops and frees every listener (`init_zap_listener.cpp:319-321`) while a socket
  task may be in its callback.
- Callers "MUST tear down their subscription before this source does" (`nostr_data_source.hpp:57`);
  `kRestartDataSources` frees the manager under a started listener that rides it
  (`main/sources/sources.cpp:90` takes the listener's life for safe).
- A failed upload reboots as a failed download does, though uploads are said to "implicitly recover"
  (`init_control_api.cpp:683`).

Network
- "Verify association BEFORE persisting" (`provisioning_server.cpp:278`): the verification polls one state
  (`wifi.cpp:150`), which an address event of the previous network may raise after the candidate was
  applied; credentials nobody tried are then saved. A stale disconnect may reject a good candidate.
- The reason shown to the user is read after `resume_saved` has reset it (`wifi.cpp:103`,
  `provisioning_server.cpp:294`).
- An outage after the first connection leads to the portal only through the watchdog's restart, which
  `wifiRebootMin` zero switches off; and the watchdog counts only outages of a link it has itself seen
  (`provisioning_fallback.hpp:20`, `wifi_guard.cpp:71`).
- `WaitForConnected` and its count of strikes have no caller (`wifi_guard.cpp:16`).
- `resume_saved` ignores a refused configuration; a refused change of mode at the portal's teardown leaves
  the portal up, and the boot ends without buttons. Hence `TakesConfig` and `TakesMode`.
- Where the access point, its web server or its name server does not start, `StartProvisioningPortal` aborts
  and the clock restarts (`init_network.cpp:49`, `:73`, `:78`) into the same grace period. Hence `PortalStarts`
  in `SavedNetworkReturns` and `PortalWhenGone`.
