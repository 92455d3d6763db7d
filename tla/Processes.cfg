SPECIFICATION ProcessSpec
CONSTANTS
  Conns = {k1}
  NoConn = NoConn
  Slots = {s0}
  NoSlot = NoSlot
  MaxBatch = 1
  OutboxSize = 2
  MaxCalls = 4
  InputPages = 1
  OutputPages = 1
  MaxLinks = 2
  MaxShmSteps = 2
  MaxFaults = 1
  Parts = {"http", "runner", "transports"}
  DependsOn <- RuntimeDependsOn
  Model = "runner"
  Edge = "http"
  BoundsInLoop = TRUE
  MaxRequests = 2
  MayRaise = TRUE
  World = 2
  FormsGroup = TRUE
  MaxRounds = 2
  MaxDeaths = 1
  Errors = {"A", "B"}
INVARIANTS ClientKnowsGeneration LinkHolds ServiceWindsDown RanksAgree
PROPERTIES CallsComplete ShutdownEnds
CHECK_DEADLOCK FALSE
