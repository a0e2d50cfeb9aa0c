SPECIFICATION Spec
SYMMETRY Alike
CONSTANTS
  Tabs = {a, b}
  ExtentSize = 2
  Batch = 1
  MaxSize = 3
  MaxMade = 2
  Kinds = {"read", "replace", "write", "grow", "shrink", "delete"}
  Admits = {}
  None = None
INVARIANTS GenerationComplete ReadsWhole
PROPERTIES ImplementsContract
