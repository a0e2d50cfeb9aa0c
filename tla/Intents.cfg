SPECIFICATION IntentSpec
CONSTANTS
  Devices = {a, b}
  Kinds = {"flag", "read"}
  None = None
  MaxStamp = 2
  MaxSeq = 2
  MaxWrites = 2
  MaxLosses = 2
  Admits = {}
INVARIANTS NoIntentLost 
CHECK_DEADLOCK FALSE
