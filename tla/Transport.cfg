SPECIFICATION TransportSpec
CONSTANTS
  MaxEarly = 1
  MaxFrames = 2
  QueueDepth = 2
  Depths = {1}
  QueueMax = 1
  AudioMax = 1
  Chunks = {1, 2}
  MaxEmitted = 2
  MaxFlushes = 1
  OutTracks = {"cam", "mic"}
  Requesters = {"loop", "model"}
  MaxRequests = 3
  MaxFailures = 1
  RoomDepth = 1
  PumpMax = 1
  MaxRoomFrames = 3
  MaxCuts = 1
  Offers <- ClientOffers
  OutMids = {"v", "w"}
  MaxCandidates = 1
  MaxPauses = 2
INVARIANTS WireIsOrdered MediaPlays PausesSettle RoomEndsQuiet
PROPERTIES ProducerReturns NegotiationIsSound
CHECK_DEADLOCK FALSE
