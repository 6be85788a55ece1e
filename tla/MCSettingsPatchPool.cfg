\* A change of pool against the running rotation.
SPECIFICATION PatchSpec
CONSTANTS
  Bodies <- MCBodies
  Pools = {"solo", "pplns"}
  UrlsPerEntry = 1
  DefaultCurrency = "USD"
  DailyPools = {"pplns"}
  EstimatingPools = {"pplns"}
PROPERTIES
  PoolChangeIsLive
