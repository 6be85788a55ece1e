\* The main task against each pair of other tasks.
SPECIFICATION FairSpec
CONSTANTS
  CurrencyLists <- MCLists
  Plans <- MCPlans
  JumpSlots <- NoJump
  RotatePeriod = 1
  OverlayTimeout = 1
  ActorSets <- Meetings
  Samples <- Priced
  InitialData <- First
  Times <- OneTime
  Prefs <- Looks
  Settings <- StealOrNot
  BootPrefs <- Plain
  SavedHeights <- Saved
  kCatchUpJumpBlocks = 1
INVARIANTS TypeOK NoLostWakeup
PROPERTIES FlashesAscend OtaOverlayStays EventuallyCurrent FlagsServed
CONSTRAINT Worlds
