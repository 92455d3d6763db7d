SPECIFICATION KitSpec
CONSTANTS
  Identities = {"ann"}
  Chosen = {k}
  MaxRooms = 2
  MaxSessions = 2
  Participants = {"ann", "bob"}
  Others = {"web"}
  Inputs = {"mic", "cam"}
  StreamInput = "mic"
  Tracks = {"ann1", "ann2", "bob1", "bobcam"}
  Owner <- TrackOwner
  Target <- TrackTarget
  FrameSamples = 2
  MaxStreams = 2
  MaxBytes = 4
  Channels = {"data", "control"}
  MaxPacket = 2
  MaxStreamed = 3
  MaxInbound = 5
  MaxOpenStreams = 2
  MaxArrivals = 4
  Payloads = {"m1", "m2", "r1", "r2"}
  Sends = {"m1", "m2"}
  MaxOutbox = 1
  MaxPending = 1
  Attempts = 2
  Requests = {"q1"}
INVARIANTS RoomHolds InboundHolds OutboxDelivers
PROPERTY EndedIsLeft
CHECK_DEADLOCK FALSE
