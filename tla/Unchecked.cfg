SPECIFICATION ModuleSpec
CONSTANTS
  Listed = {m1}
  Builtin = {m1, m2}
  Fallback = Fallback
  Setting = {s1}
  ModuleRefreshMax = 1
  SaveMax = 1
  None = None
  Person = {p}
  Waits = TRUE
CHECK_DEADLOCK FALSE
PROPERTY LoadedBeforeSaved
