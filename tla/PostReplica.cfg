SPECIFICATION ReplicaSpec
CONSTANTS
  MaxPosts = 3
  MaxRevision = 4
  Opening = 2
  PageSize = 1
  RangeLimit = 1
  Keep = 2
  Jobs = {j1}
  Replies = {2}
  Long = {3}
  Admits = {}
INVARIANTS CursorSound EndSound SumSound WindowClosed
