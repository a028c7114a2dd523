SPECIFICATION Spec
CONSTANTS
  NoFlags = NoFlags
  Nothing = Nothing
  HandWritten = HandWritten
  Unreadable = Unreadable
  MaxMoves = 2
  Hosts <- MCHosts
  SourceID <- MCSourceID
  Words <- MCWords
  ReservedWords = {"widget", "widgets"}
  Containers <- MCContainers
  InitialDockers <- MCInitialDockers
  InitialFiles <- MCInitialFiles
  FlagSets <- MCFlagSets
  Answering <- MCAnswering
  NameOrder <- MCNameOrder
  GroupOrder <- MCGroupOrder
  IdOrder <- MCIdOrder
  Hash <- MCHash
INVARIANT AdviceWorks
INVARIANT StdoutIsFreshMerge
INVARIANT ReportDeterministic
INVARIANT DashboardIsInspected
INVARIANT WidgetsIntact
PROPERTY IrrelevantChangesInert
PROPERTY OthersListsKept
