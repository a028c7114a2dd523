SPECIFICATION Spec
CONSTANTS
  Format = "named"
  GroupOrder <- MCGroupOrder
  ServiceOrder <- MCServiceOrder
  Hash <- MCHash
  NoName = NoName
  Unreadable = Unreadable
  Ids = {"jelly"}
  Groups = {"Media", "Tools"}
  Bodies = {"x", "y"}
  Starts <- MCStarts
  Copies = TRUE
  MaxEdits = 2
INVARIANT Idempotent
INVARIANT InSync
PROPERTY HandWrittenUntouched
PROPERTY ReportIsTrue
