SPECIFICATION Spec
CONSTANTS
  c1 = c1
  c2 = c2
  ConnIds = {c1, c2}
  SystemId = sys
  Tracks = {cam}
  Transports = {webrtc}
  Nobody = Nobody
  OrphanTimeout = TRUE
  MaxSessions = 2
SYMMETRY ConnSymmetry
INVARIANTS
  TypeOK
  RegistryAgrees
  ReadyIsClean
  SessionIsAttended
PROPERTIES
  TerminatedIsFinal
  OldStartingInputIsHarmless
  ImplementsOccupancy
