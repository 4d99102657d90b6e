CONSTANTS
  Routes <- MCRoutes
  Paths <- MCPaths
  MaxChanges = 6
  Middleware = {"request id", "cors", "timeout", "logger", "recovery", "twice", "abort", "coded"}
  Endpoints = {"auto", "coded", "redirect", "error", "stream", "no content", "file", "static", "resp"}
  MaxHandlers = 3
  Requests = 2
  Services <- MCServices
  Operations <- MCOperations
  Contents <- MCContents
  MaxSets = 3
  MaxSOAPCalls = 2
  Goroutines = {g1, g2, g3}
  Clients = {1, 2}
  MaxCalls = 4
SPECIFICATION Spec
CHECK_DEADLOCK FALSE
INVARIANTS
  RightRoute
  RunsInOrder
  NothingLeaks
  ResponseArrives
  CallTruthful
  GeneratedFits
  SettingsSound
