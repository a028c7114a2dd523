SPECIFICATION Spec
CONSTANTS
  HostLists <- MCHostLists
  NoAddress = NoAddress
  Lower <- MCLower
  EnvDaemon = "nas"
  Daemons = {"nas", "pi"}
  Containers <- MCContainers
  GroupOrder <- MCGroupOrder
  NameOrder <- MCNameOrder
  IdOrder <- MCIdOrder
INVARIANT TypeOK
INVARIANT SlotsComplete
INVARIANT FailuresIsolated
INVARIANT InOrder
PROPERTY AnswersIgnoreListingOrder
PROPERTY CommandEnds
