SPECIFICATION FairSpec
CONSTANTS
  MaxVersion = 3
  Window = 3
  MaxBackups = 2
  MaxMade = 4
  MaxFastCrashes = 3
  MaxMessages = 2
  BadVersions = {1}
  Admits = {}
  PowerLossAt = {"fork", "apply.rm", "apply.moveCurrent", "roll.clear", "clear.unlink"}
INVARIANTS RollbackTargetExact NeverNewerSchema StatusTruthful AppOnDisk UnconfirmedKept
PROPERTIES ImplementsContract UpdateResolves BadReleaseRetires
