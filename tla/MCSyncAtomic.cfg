SPECIFICATION Spec
CONSTANTS
  Runs = {r1, r2}
  Contents <- MCContents
  Views <- MCViews
  Modes = {m644, m640}
  DefaultMode = m644
  TempMode = m600
  NoFile = NoFile
  Torn = Torn
  NoView = NoView
  Merged <- MCMerged
  Refuses <- MCRefuses
  Pending <- MCPending
  FlockWorks = TRUE
  HumanWaits = TRUE
  NoName = NoName
  Unreadable = Unreadable
  Policy = "fail"
SYMMETRY Symmetry
PROPERTY ImplementsAtomicSync
