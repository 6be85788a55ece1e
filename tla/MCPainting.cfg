SPECIFICATION Spec
CONSTANTS
  CurrencyLists <- MCLists
  Plans <- MCPlans
  JumpSlots <- MCSlots
  RotatePeriod = 1
  OverlayTimeout = 1
  Worlds <- MCWorlds
INVARIANTS SettledShowsCurrent
PROPERTIES RenderSettles HeightNeverRegresses
