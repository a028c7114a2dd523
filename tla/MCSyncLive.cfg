SPECIFICATION Spec
CONSTANTS
  Runs = {r1, r2}
  Contents <- SmallContents
  Views <- SteadyViews
  Modes = {m644}
  DefaultMode = m644
  TempMode = m600
  NoFile = NoFile
  Torn = Torn
  NoView = NoView
  Merged <- MCMerged
  Refuses <- MCRefuses
  Pending <- MCPending
  FlockWorks = TRUE
  HumanWaits = FALSE
  NoName = NoName
  Unreadable = Unreadable
  Policy = "preserve"
INVARIANT SavedBeforeBackupSurvives
PROPERTY RunsEnd
