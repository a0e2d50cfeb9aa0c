SPECIFICATION Spec
CONSTANTS
  MaxList = 2
  MaxPosts = 1
  MaxTroubles = 2
  MaxEpoch = 2
  Admits = {}
INVARIANTS SettledIsCurrent ParkedIsTransient
PROPERTIES Converges
