SPECIFICATION FleetSpec
CONSTANTS
  HostLists <- MCHostLists
  NoAddress = NoAddress
  Lower <- MCLower
  EnvDaemon = "nas"
  Daemons = {"nas", "pi"}
  Containers <- MCContainers
  GroupOrder <- MCGroupOrder
  NameOrder <- MCNameOrder
  IdOrder <- MCIdOrder
  NoName = NoName
  Unreadable = Unreadable
  IdText <- MCIdText
  ServiceIds <- MCServiceIds
  Hash <- MCHash
PROPERTY AnswersAreKept
PROPERTY OutageKeepsFile
PROPERTY QuietRunsReportNothing
