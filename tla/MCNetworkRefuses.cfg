SPECIFICATION Spec
CONSTANTS
  home = home
  guest = guest
  None = None
  Networks <- TwoNetworks
  Worlds <- RefusingWorlds
  kSubmits = 1
  kOutages = 2
INVARIANT RetryResumes
