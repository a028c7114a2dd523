SPECIFICATION Spec
CONSTANTS
  NonString = NonString
  Unreadable = Unreadable
  Files <- MCFiles
  ServiceSets <- MCServiceSets
  GroupOrder <- MCGroupOrder
  ServiceOrder <- MCServiceOrder
  Hash <- MCHash
INVARIANT AgreesWithMerge
INVARIANT SurroundingsKept
INVARIANT Readable
INVARIANT ColumnsSound
CHECK_DEADLOCK FALSE
