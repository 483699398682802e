SPECIFICATION PanelSpec
CONSTANTS
  Node = {n1, n2}
  Attr = {a1}
  Result = {r1}
  Label = {l1, l2}
  Dictionary = {l1}
  Unseen = Unseen
  Player = {p}
  None = None
  RefreshMax = 2
  LastCommand = 2
  Word = {home, pay}
  Default <- MCDefault
  ListMax = 2
  p = p
  q = q
  fa = fa
  fb = fb
  home = home
  pay = pay
  Person = {p, q}
  Waits = TRUE
  Lists <- MCLists
  LoadMax = 1
  File = {fa, fb}
  Preferred = fa
  NoFile = NoFile
  FirstContent <- MCFirstContent
  LastContent = 3
  LastLoad = 2
  Listed = {m1}
  Builtin = {m1, m2}
  Fallback = Fallback
  Setting = {s1}
  ModuleRefreshMax = 2
  SaveMax = 1
  LastDraftRow = 3
  LastLine = 4
  PasteMax = 3
  Limits = {0, 2, 3}
  Moments = {0, 600, 20000}
  Skews <- MCSkews
  Offsets = {0, 10800}
  KillMax = 2
  RowMax = 4
  LastToken = 8
  DepthMax = 2
  Aux = {"kills"}
  LastRow = 1
  ReadMax = 2
  ObjectId = {box, crate}
  Blank = Blank
  Missing = Missing
CHECK_DEADLOCK FALSE
INVARIANT PanelTypeOK
INVARIANT EnglishIsComplete
INVARIANT NoLostUpdate
INVARIANT ActionsReachTitled
INVARIANT DeletesOwnItems
INVARIANT GivenIsNotOffered
INVARIANT NoForeignConfig
INVARIANT IndexKeepsItsRow
INVARIANT RowsAppearOnce
INVARIANT OneEventPerKill
INVARIANT StatsAreTrue
INVARIANT ClearedStaysCleared
INVARIANT CheckedIsCalled
INVARIANT OrderGetsWhatIsShown
INVARIANT WholeRowsAreSaved
PROPERTY NoLineLost
