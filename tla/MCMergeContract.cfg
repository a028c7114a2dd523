SPECIFICATION Spec
CONSTANTS
  Format = "homepage"
  GroupOrder <- MCGroupOrder
  ServiceOrder <- MCServiceOrder
  Hash <- MCHash
  NoName = NoName
  Unreadable = Unreadable
  Ids = {"jelly"}
  Groups = {"Media", "Tools"}
  Bodies = {"x", "y"}
  Starts <- MCStarts
  Copies = FALSE
  MaxEdits = 2
PROPERTY KeepsContract
