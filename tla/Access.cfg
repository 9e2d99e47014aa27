CONSTANTS
  Requests = {p, q}
  Users = {u, v}
  FilterIds = {"i", "j"}
  Names = {n1, n2}
  Definitions <- MCDefinitions
  Tokens = {"t"}
  Lifetimes = {1}
  MaxRequests = 3
  MaxTime = 2
  None = None
  Groups = {g}
  Anonymous = Anonymous
  Files = {"f", "h"}
  FirstFiles <- MCFirstFiles
  Needs = {"WRITE"}
  Offers <- MCOffers
  TopPriority = 1
  Facts <- MCFacts
  QueryLimit = 1
SYMMETRY Swap
SPECIFICATION Spec
INVARIANTS AnswersFit OwnerKeepsAccess FiltersKept TokenEnds
CHECK_DEADLOCK FALSE
