--------------------------- MODULE SettingsPatch ----------------------------
(***************************************************************************)
(* PATCH /api/settings (ApplyPatch in components/settings/settings_api.cpp *)
(* and the change hooks in components/webserver/control_server.cpp): the   *)
(* fields of a body are validated and written to NVS one after the other,  *)
(* a bad one ends the request with 400, and the hooks of an accepted one   *)
(* defer the rotation rebuild to the main task.                            *)
(*                                                                         *)
(* A body is a record: its scalar fields in the client's order, then the   *)
(* composite fields the handler looks up by name, each "absent" or not.    *)
(***************************************************************************)
EXTENDS ScreenSettings

CONSTANTS
  Bodies,        \* the bodies a client may send
  Pools,         \* the pool names the PATCH accepts
  UrlsPerEntry   \* the most URLs one relay entry holds, separated by commas

(* A scalar as the parser takes it: a value of another type is malformed.  *)
ScalarFields ==
  [key : {"miningPoolStats", "bitaxeEnabled", "nwcEnabled"}, value : BOOLEAN]
  \cup [key : {"miningPoolName"}, value : STRING]
  \cup [key : {"nostrRelay"}, value : 0 .. UrlsPerEntry]
  \cup [key : {"malformed"}, value : BOOLEAN]

ASSUME UrlsAssumption == UrlsPerEntry \in Nat \ {0}

(* A relay list has count entries; joined by commas and split again they   *)
(* make urls of them, each entry at least one.                             *)
ASSUME BodiesAssumption ==
  \A body \in Bodies :
    /\ body.scalars \in Seq(ScalarFields)
    /\ body.actCurrencies.codes \in Seq(STRING)
    /\ body.nostrRelays.count \in Nat
    /\ body.nostrRelays.urls \in body.nostrRelays.count .. UrlsPerEntry * body.nostrRelays.count
    /\ body.screens.ids \in Seq(Int)
    /\ body.screens.on \subseteq Int /\ body.screens.off \subseteq Int

VARIABLES
  nvs,       \* the persisted settings
  live,      \* [currencies, plan] the screen manager runs on
  pending,   \* a kRebuildScreens command is queued
  answer     \* of the last request: "none", "200", "reboot" (rebootRequired) or "400"

patchVars == <<nvs, live, pending, answer>>

(* What NVS holds of them. *)
Settings ==
  [screenOrder : Seq(ApiIds), visible : SUBSET Int,
   miningPoolStats : BOOLEAN, miningPoolName : Pools,
   bitaxeEnabled : BOOLEAN, nwcEnabled : BOOLEAN,
   actCurrencies : Seq(STRING), nostrRelay : 0 .. UrlsPerEntry, nostrRelays : Nat]

kMaxNostrRelays == 4

(* Relays are kept as the number of URLs their text splits into:           *)
(* nostrRelays of the list, nostrRelay of the legacy one-relay slot the    *)
(* readers fall back to (a public relay on a fresh device).                *)
StoredUrls(s) == IF s.nostrRelays = 0 THEN s.nostrRelay ELSE s.nostrRelays

(* The relays the device opens (ReadRelayUrls): the list is cut at the     *)
(* limit, the legacy slot is one relay whatever its text.                  *)
RelayCount(s) ==
  CASE s.nostrRelays > kMaxNostrRelays -> kMaxNostrRelays
    [] s.nostrRelays \in 1 .. kMaxNostrRelays -> s.nostrRelays
    [] OTHER -> IF s.nostrRelay = 0 THEN 0 ELSE 1

RelayBudgetOK(s) == RelayCount(s) + (IF s.nwcEnabled THEN 1 ELSE 0) <= kMaxNostrRelays

LiveOf(s) == [currencies |-> Currencies(s), plan |-> PlanOf(s)]

-----------------------------------------------------------------------------
(* A request in progress: the settings as written so far, the keys that    *)
(* changed, and whether it is still going.                                 *)

Started(s) == [nvs |-> s, touched |-> {}, ok |-> TRUE]

Reject(p) == [p EXCEPT !.ok = FALSE]

Write(p, key, value) ==
  IF p.nvs[key] = value THEN p
  ELSE [p EXCEPT !.nvs[key] = value, !.touched = @ \cup {key}]

(* Enabling the wallet takes a relay connection of its own.  A list in the *)
(* body is counted by its entries, the stored one by its URLs.             *)
WalletFits(p, body) ==
  (IF body.nostrRelays.given THEN body.nostrRelays.count ELSE StoredUrls(p.nvs)) + 1
    <= kMaxNostrRelays

(* One scalar field, in the client's order. *)
ApplyScalar(p, field, body) ==
  IF ~p.ok THEN p
  ELSE IF \/ field.key = "malformed"
          \/ field.key = "miningPoolName" /\ field.value \notin Pools
          \/ field.key = "nwcEnabled" /\ field.value /\ ~WalletFits(p, body)
  THEN Reject(p)
  ELSE Write(p, field.key, field.value)

ApplyScalars(p, body) ==
  LET after[i \in 0 .. Len(body.scalars)] ==
        IF i = 0 THEN p ELSE ApplyScalar(after[i - 1], body.scalars[i], body)
  IN  after[Len(body.scalars)]

ApplyCurrencies(p, body) ==
  IF ~p.ok \/ ~body.actCurrencies.given THEN p
  ELSE IF body.actCurrencies.bad THEN Reject(p)
  ELSE Write(p, "actCurrencies", body.actCurrencies.codes)

(* The legacy one-relay field is mirrored into the list unless the body    *)
(* carries the list too.                                                   *)
MirrorLegacyRelay(p, body) ==
  IF p.ok /\ ~body.nostrRelays.given
     /\ \E i \in DOMAIN body.scalars : body.scalars[i].key = "nostrRelay"
  THEN Write(p, "nostrRelays", p.nvs.nostrRelay)
  ELSE p

(* Mutant: the list is checked against the limit without the wallet. *)
ApplyRelaysNoWallet(p, body) ==
  IF ~p.ok \/ ~body.nostrRelays.given THEN p
  ELSE IF body.nostrRelays.bad \/ body.nostrRelays.count > kMaxNostrRelays THEN Reject(p)
  ELSE Write(p, "nostrRelays", body.nostrRelays.urls)

(* The limit is held against the entries; what is stored is their text.    *)
ApplyRelays(p, body) ==
  LET n == body.nostrRelays.count
      wallet == IF p.nvs.nwcEnabled THEN 1 ELSE 0
  IN  IF ~p.ok \/ ~body.nostrRelays.given THEN p
      ELSE IF body.nostrRelays.bad \/ n + wallet > kMaxNostrRelays THEN Reject(p)
      ELSE Write(p, "nostrRelays", body.nostrRelays.urls)

(* A reorder names distinct known screens, as many as GET lists or as many *)
(* as there are.  The list is taken from the settings before the request.  *)
ReorderOK(ids, before) ==
  /\ IsInjective(ids)
  /\ Range(ids) \subseteq ApiIds
  /\ Len(ids) \in {Cardinality(Catalogue(before)), Cardinality(ApiIds)}

(* Some entries carry an order, or all of them do, or none; then the       *)
(* visibility switches.                                                    *)
ApplyScreens(p, body, before) ==
  LET screens == body.screens
      ordered == IF screens.order = "all" THEN Write(p, "screenOrder", screens.ids) ELSE p
  IN  IF ~p.ok \/ ~screens.given THEN p
      ELSE IF \/ screens.order = "some"
              \/ screens.order = "all" /\ ~ReorderOK(screens.ids, before)
      THEN Reject(p)
      ELSE Write(ordered, "visible",
                 (ordered.nvs.visible \cup screens.on) \ screens.off)

ApplyDnd(p, body) == IF p.ok /\ body.dnd = "out of range" THEN Reject(p) ELSE p

ApplyPatch(s, body) ==
  LET scalars    == ApplyScalars(Started(s), body)
      currencies == ApplyCurrencies(scalars, body)
      relays     == ApplyRelays(MirrorLegacyRelay(currencies, body), body)
  IN  ApplyDnd(ApplyScreens(relays, body, s), body)

(* Mutant: the feature switches are left out. *)
RebuildKeysOrderOnly == {"screenOrder", "visible", "actCurrencies"}

(* The keys whose change rebuilds the rotation. *)
RebuildKeys ==
  {"screenOrder", "visible", "actCurrencies", "miningPoolStats", "bitaxeEnabled"}

(* The keys that take effect at the next boot: the answer says so. *)
BootOnlyKeys == {"nwcEnabled", "nostrRelay", "nostrRelays"}

-----------------------------------------------------------------------------
PatchInit ==
  \E pool \in Pools, list \in {b.actCurrencies.codes : b \in Bodies} :
    /\ nvs = FactorySettings(pool, list)
    /\ live = LiveOf(nvs)
    /\ pending = FALSE
    /\ answer = "none"

Patch(body) ==
  LET p == ApplyPatch(nvs, body)
  IN  /\ nvs' = p.nvs
      /\ answer' = IF ~p.ok THEN "400"
                   ELSE IF p.touched \cap BootOnlyKeys # {} THEN "reboot" ELSE "200"
      /\ pending' = (pending \/ (p.ok /\ p.touched \cap RebuildKeys # {}))
      /\ UNCHANGED live

(* The main task drains kRebuildScreens: it reads the settings afresh. *)
RebuildScreens ==
  /\ pending
  /\ live' = LiveOf(nvs)
  /\ pending' = FALSE
  /\ UNCHANGED <<nvs, answer>>

Reboot ==
  /\ live' = LiveOf(nvs)
  /\ pending' = FALSE
  /\ answer' = "none"
  /\ UNCHANGED nvs

PatchNext == (\E body \in Bodies : Patch(body)) \/ RebuildScreens \/ Reboot

PatchSpec == PatchInit /\ [][PatchNext]_patchVars

-----------------------------------------------------------------------------
(* Properties. *)

Accepted == answer' \in {"200", "reboot"}

(* An accepted PATCH that changes the plan queues its rebuild; where only  *)
(* the boot-only wallet switch changes it, the answer asks for the reboot  *)
(* that builds the plan afresh.  The pool's name is left out here: see     *)
(* PoolChangeIsLive.                                                       *)
PatchRebuildsOrReboots ==
  [][LET samePool == [nvs' EXCEPT !.miningPoolName = nvs.miningPoolName]
         same     == [samePool EXCEPT !.nwcEnabled = nvs.nwcEnabled]
     IN  Accepted =>
           /\ LiveOf(same) # LiveOf(nvs) => pending'
           /\ LiveOf(samePool) # LiveOf(same) => answer' = "reboot"]_patchVars

(* A PATCH of the pool's name takes effect without a reboot, as the code   *)
(* around the rotation says of it: one that changes the plan, from a       *)
(* rotation that was up to date, queues the rebuild.  It fails: the        *)
(* estimated earnings come and go with the pool, and its name is none of   *)
(* RebuildKeys.                                                            *)
PoolChangeIsLive ==
  [][/\ Accepted /\ live = LiveOf(nvs)
     /\ LiveOf([nvs EXCEPT !.miningPoolName = nvs'.miningPoolName]) # LiveOf(nvs)
     => pending']_patchVars

(* The data relays and the wallet's own stay inside kMaxNostrRelays: an    *)
(* accepted PATCH never takes the device over it, whatever fields it       *)
(* combines.  It holds of entries of one URL each (UrlsPerEntry = 1).      *)
AcceptedPatchKeepsRelayBudget ==
  [][Accepted /\ RelayBudgetOK(nvs) => RelayBudgetOK(nvs')]_patchVars

(* The rotation is exactly what the settings ask for: every slot of an     *)
(* enabled screen the order names (all of them without an order), nothing  *)
(* else, and slot 0 alone when that is nothing.                            *)
PlanIsComplete ==
  LET n == Len(Currencies(nvs))
      InOrder(id) == nvs.screenOrder = <<>> \/ id \in Range(nvs.screenOrder)
      wanted == {s \in Slots(n) : IsEnabled(nvs, ApiIdForSlot(s, n))
                                  /\ InOrder(ApiIdForSlot(s, n))}
  IN  Range(PlanOf(nvs)) = (IF wanted = {} THEN {0} ELSE wanted)

(* It follows the user's order, a currency screen's slots one after the    *)
(* other in the order of the currencies; no slot comes twice.              *)
PlanKeepsOrder ==
  LET n == Len(Currencies(nvs))
      plan == PlanOf(nvs)
      rank(s) == IF nvs.screenOrder = <<>> THEN s
                 ELSE CHOOSE k \in DOMAIN nvs.screenOrder :
                        nvs.screenOrder[k] = ApiIdForSlot(s, n)
  IN  \A i, j \in DOMAIN plan : i < j =>
        \/ rank(plan[i]) < rank(plan[j])
        \/ rank(plan[i]) = rank(plan[j]) /\ plan[i] < plan[j]

(* Together they leave one rotation: there is no other sequence of slots   *)
(* with these members in this order.                                       *)
PlanIsExact == PlanIsComplete /\ PlanKeepsOrder

(* The rotation shows no screen that GET hides - the pool's daily earnings *)
(* apart, which the skip predicate walks past.                             *)
RotationShowsListedScreens ==
  LET n == Len(Currencies(nvs))
  IN  \A s \in Range(PlanOf(nvs)) : ApiIdForSlot(s, n) \in Catalogue(nvs) \cup {71}

(* Showing a screen by the api id /api/status reports for it lands on the  *)
(* very slot it was read from, and the renderer's reading of a slot agrees *)
(* with the API's: two slots share a kind exactly when they share an id.   *)
ApiRoundTrip ==
  LET n == Len(Currencies(nvs))
  IN  /\ \A s \in Slots(n) : SlotForApiId(ApiIdForSlot(s, n), n, CurrencyIndex(s)) = s
      /\ \A s, t \in Slots(n) :
           (KindForSlot(s, n) = KindForSlot(t, n)) <=> (ApiIdForSlot(s, n) = ApiIdForSlot(t, n))

(* A reboot resumes on a screen of the rotation or on the fee rate, on the *)
(* persisted one whenever the rotation still has it.                       *)
ResumeLands ==
  LET n == Len(Currencies(nvs))
      plan == PlanOf(nvs)
  IN  \A saved \in Slots(n + 1) \cup {NoSlot} :
        LET s == ResumeSlot(saved, n, plan)
        IN  /\ s \in Range(plan) \cup {SlotCount(n) - 1}
            /\ saved \in Range(plan) => s = saved
=============================================================================
