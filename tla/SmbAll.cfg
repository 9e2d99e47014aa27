SPECIFICATION Spec
CONSTANTS
  Clients = {"a", "b"}
  Ids = {1, 2, 3}
  Texts <- MCTexts
  Hidden <- MCHidden
  Metas <- MCMetas
  Dirs = {"a.sb", "b.sb"}
  FirstId = 1
  FirstText = "doc"
  Programs <- MCPrograms
  MaxFaults = 1
  Root = "/"
  None = None
INVARIANTS TypeOK NothingVanishes SavesArrive HeadIsLatest MetadataNotStored
CHECK_DEADLOCK FALSE
