SPECIFICATION FairSpec
CONSTANTS
  home = home
  guest = guest
  None = None
  Networks <- TwoNetworks
  Worlds <- MCWorlds
  kSubmits = 1
  kOutages = 2
INVARIANTS ButtonsComeUp RetryResumes
PROPERTIES OutageIsContinuous SavedNetworkReturns PortalWhenGone
