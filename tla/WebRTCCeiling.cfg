SPECIFICATION AcceptorSpec
CONSTANTS
  c1 = c1
  c2 = c2
  ConnIds = {c1, c2}
  SystemId = sys
  Tracks = {}
  Transports = {webrtc}
  Webrtc = webrtc
  Nobody = Nobody
  OrphanTimeout = TRUE
  MaxSessions = 1
  MaxOffers = 2
  MaxConnections = 1
  NegotiationTimeout = TRUE
SYMMETRY IdSymmetry
CHECK_DEADLOCK FALSE
INVARIANTS
  CeilingHolds
