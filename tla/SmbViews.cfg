CONSTANTS
  Requests = {p, q}
  Files = {"f", "g", "h"}
  Tags = {"t", "u"}
  Series = {"s", "z"}
  Before <- MCBefore
  FirstFiles = {"f", "g"}
  FirstTags = {"t", "u"}
  FirstSeries = {"s", "z"}
  FirstLinks <- MCLinks
  FirstMembers <- MCMembers
  Arrivals <- MCArrivals
  Orders = {15}
  MaxRequests = 3
  MaxFaults = 1
  None = None
SYMMETRY Swap
SPECIFICATION Spec
INVARIANTS TypeOK PlacesKept OwnerUnlessDeserted OrderKept
PROPERTY ReorderAddsNobody
CHECK_DEADLOCK FALSE
