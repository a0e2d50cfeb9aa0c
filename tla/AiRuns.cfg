SPECIFICATION Spec
SYMMETRY Alike
CONSTANTS
  Runs = {r1, r2}
  Searches = {s1}
  Old = {c0}
  RunHold = 2
  SearchHold = 1
  Daily = 1
  Weekly = 1
  WeekLength = 2
  MaxDay = 1
  TopUpKeys = {k1}
  TopUp = 3
  MaxRounds = 2
  Admits = {}
INVARIANTS Solvent ChargeCollected HoldsAreOwned OneActiveRun CancelHeard
