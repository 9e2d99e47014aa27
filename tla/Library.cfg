CONSTANTS
  Requests = {p, q}
  Files = {"f", "g", "h"}
  Names = {"a", "b"}
  UserTags = {"ai"}
  AiTag = "ai"
  Ext <- MCExt
  Source = "src"
  FirstRows <- MCFirstRows
  Arrivals <- MCArrivals
  MaxRequests = 3
  MaxFaults = 1
  None = None
SYMMETRY Swap
SPECIFICATION Spec
INVARIANTS EntriesOfLive EntryFits SystemTagsFit
PROPERTY PurgedFromTrash
CHECK_DEADLOCK FALSE
