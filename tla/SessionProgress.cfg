SPECIFICATION ProgressSpec
CONSTANTS
  ConnIds = {c1}
  SystemId = sys
  Tracks = {}
  Transports = {}
  Nobody = Nobody
  OrphanTimeout = TRUE
  MaxSessions = 2
  MaxStoreSessions = 2
  StepCount = 2
  SaveQueue = 1
  MaxReports = 3
  MaxSent = 1
  MaxSaveFaults = 1
INVARIANT StepsAreKept
PROPERTIES SessionEnds SavesHappen
CHECK_DEADLOCK FALSE
