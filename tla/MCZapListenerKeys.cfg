SPECIFICATION FairSpec
CONSTANTS
  r1 = r1
  r2 = r2
  k1 = k1
  k2 = k2
  None = None
  Relays <- TwoRelays
  Zaps <- TwoZaps
  Keys <- TwoKeys
  Worlds <- PatchWorlds
  kCap = 2
PROPERTIES FollowsSavedKeys
CHECK_DEADLOCK FALSE
