SPECIFICATION Spec
CONSTANTS
  Calls = {c1, out}
  LogoutCall = out
  Groups = {g}
  None = None
  MaxSockets = 2
  MaxEvents = 2
  Admits = {}
INVARIANTS GateOpens ChannelsCurrent PendingBelongs CallsUnderway
CHECK_DEADLOCK FALSE
