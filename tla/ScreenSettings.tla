--------------------------- MODULE ScreenSettings ---------------------------
(***************************************************************************)
(* The settings that shape the rotation, and the plan the firmware derives *)
(* from them at boot (InitScreenManager) and again when a PATCH touches    *)
(* them (kRebuildScreens).  The settings live in NVS as one record:        *)
(*   screenOrder       api ids in the user's order, <<>> when never set    *)
(*   visible           the api ids whose screen<id>Visible is true         *)
(*   miningPoolStats, bitaxeEnabled, nwcEnabled   feature switches         *)
(*   miningPoolName    the configured pool                                 *)
(*   actCurrencies     the active currency codes                           *)
(* and, because the wallet shares its relays, nostrRelay and nostrRelays.  *)
(***************************************************************************)
EXTENDS RotationPlan, FiniteSets

CONSTANTS
  DefaultCurrency,   \* shown when actCurrencies is empty
  DailyPools,        \* the pools that publish daily earnings
  EstimatingPools    \* the pools that publish an earnings projection

ASSUME DefaultCurrencyAssumption == DefaultCurrency \in STRING

ApiIds == {AgnosticApiId[s] : s \in DOMAIN AgnosticApiId}
          \cup {PerCurrencyApiId[o] : o \in DOMAIN PerCurrencyApiId}
          \cup {FeeRateApiId}

(* Everything but the wallet balance is visible unless switched off. *)
DefaultVisible == ApiIds \ {90}

(* Mutant: the estimated earnings are not tied to the pool's capability. *)
IsEnabledAnyPool(cfg, id) ==
  /\ id \in {70, 71, 72} => cfg.miningPoolStats
  /\ id \in {80, 81} => cfg.bitaxeEnabled
  /\ id = 90 => cfg.nwcEnabled
  /\ id \in cfg.visible

(* A screen is on when it is visible and the feature behind it is on. *)
IsEnabled(cfg, id) ==
  /\ id \in {70, 71, 72} => cfg.miningPoolStats
  /\ id = 72 => cfg.miningPoolName \in EstimatingPools
  /\ id \in {80, 81} => cfg.bitaxeEnabled
  /\ id = 90 => cfg.nwcEnabled
  /\ id \in cfg.visible

EnabledIds(cfg) == {id \in ApiIds : IsEnabled(cfg, id)}

Currencies(cfg) ==
  IF cfg.actCurrencies = <<>> THEN <<DefaultCurrency>> ELSE cfg.actCurrencies

PlanOf(cfg) ==
  BuildRotationSequence(cfg.screenOrder, EnabledIds(cfg), Len(Currencies(cfg)))

(* The settings of a fresh device. *)
FactorySettings(pool, list) ==
  [screenOrder |-> <<>>, visible |-> DefaultVisible,
   miningPoolStats |-> FALSE, miningPoolName |-> pool,
   bitaxeEnabled |-> FALSE, nwcEnabled |-> FALSE,
   actCurrencies |-> list, nostrRelay |-> 1, nostrRelays |-> 0]

-----------------------------------------------------------------------------
(* The catalogue GET /api/settings shows: ids whose feature or pool        *)
(* capability is off are left out.                                         *)
CapabilityHidden(cfg) ==
  {id \in {71} : cfg.miningPoolName \notin DailyPools}
  \cup {id \in {72} : cfg.miningPoolName \notin EstimatingPools}

FeatureHidden(cfg) ==
  (IF cfg.miningPoolStats THEN {} ELSE {70, 71, 72})
  \cup (IF cfg.bitaxeEnabled THEN {} ELSE {80, 81})
  \cup (IF cfg.nwcEnabled THEN {} ELSE {90})

Catalogue(cfg) == ApiIds \ (CapabilityHidden(cfg) \cup FeatureHidden(cfg))
=============================================================================
