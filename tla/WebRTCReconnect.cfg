SPECIFICATION AcceptorFairSpec
CONSTANTS
  c1 = c1
  c2 = c2
  ConnIds = {c1}
  SystemId = sys
  Tracks = {}
  Transports = {webrtc}
  Webrtc = webrtc
  Nobody = Nobody
  OrphanTimeout = TRUE
  MaxSessions = 2
  MaxOffers = 3
  MaxConnections = 0
  NegotiationTimeout = TRUE
CHECK_DEADLOCK FALSE
INVARIANTS
  AcceptorHolds
PROPERTIES
  PinSurvivesReconnect
  HalfOpenEnds
