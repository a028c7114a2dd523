SPECIFICATION Spec
CONSTANTS
  Runs = {r1, r2, r3}
  Contents <- SmallContents
  Views <- MCViews
  Modes = {m644}
  DefaultMode = m644
  TempMode = m600
  NoFile = NoFile
  Torn = Torn
  NoView = NoView
  Merged <- MCMerged
  Refuses <- MCRefuses
  Pending <- MCPending
  FlockWorks = TRUE
  HumanWaits = TRUE
  NoName = NoName
  Unreadable = Unreadable
  Policy = "preserve"
SYMMETRY Symmetry
INVARIANT TypeOK
INVARIANT WriterAlone
INVARIANT PathWhole
INVARIANT FreshSnapshot
INVARIANT CheckVerdict
INVARIANT NothingLost
INVARIANT NoLitter
INVARIANT NoStaleLock
