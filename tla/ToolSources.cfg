SPECIFICATION Spec
CONSTANTS
  Runs = {r1, r2}
  r1 = r1
  r2 = r2
  HasWorkspace = {r1}
  McpTools <- MCMcpTools
  Catalogs <- MCCatalogs
  TTL = 1
  Statuses <- MCStatuses
  NoOne = NoOne
  MaxConnects = 2
  MaxTime = 1
INVARIANTS SessionsAccounted RoutesStay CatalogIsFresh
PROPERTY RunsEnd
CHECK_DEADLOCK FALSE
