\* The display state machine, every method in any order, and what the
\* passing of time must bring about.
SPECIFICATION FairSpec
CONSTANTS
  CurrencyLists <- MCCurrencyLists
  Plans <- MCPlans
  JumpSlots = {12, 15}
  RotatePeriod = 1
  OverlayTimeout = 1
INVARIANTS
  OneNotification
  CursorInSync
PROPERTIES
  RepaintPending
  RebuildKeepsScreen
  NotificationExpires
  RotationVisits
