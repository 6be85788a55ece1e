\* PATCH /api/settings: rotation, relay budget and rebuilds.
SPECIFICATION PatchSpec
CONSTANTS
  Bodies <- MCBodies
  Pools = {"solo", "pplns"}
  UrlsPerEntry = 1
  DefaultCurrency = "USD"
  DailyPools = {"pplns"}
  EstimatingPools = {"pplns"}
INVARIANTS
  PlanIsExact
  RotationShowsListedScreens
  ApiRoundTrip
  ResumeLands
PROPERTIES
  PatchRebuildsOrReboots
  AcceptedPatchKeepsRelayBudget
