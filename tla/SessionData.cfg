SPECIFICATION DataSpec
CONSTANTS
  c1 = c1
  MaxRecordings = 2
  FeedDepth = 2
  Segment = 1
  MaxChunks = 2
  MaxClips = 1
  MaxStuck = 1
  MaxPipeSessions = 2
  MaxJoins = 3
  MaxPushes = 3
  FrameBound = 2
  Consumers = {c1}
  HistoryLimit = 2
  SubscriberLimit = 2
  MaxEvents = 5
  MaxWires = 2
  MintedIds = {"m"}
  ChosenIds = {"x"}
  Sizes = {1, 2}
  Puts = {1, 2}
  Commands = {1}
  MaxUploadSessions = 2
  StatConns = {c1}
  MaxStatSessions = 2
  MaxStatFrames = 2
  MaxTimings = 2
  MaxReadings = 2
  MaxSamples = 2
  Wires = {"a", "b"}
  Requests = {1}
  MaxReplySessions = 2
  MaxNotices = 2
  Declared <- Declarations
  SentFor <- SentValues
  MaxSteps = 2
  MaxCalls = 2
  StepRequests <- MediaRequests
  Bundles <- MediaBundles
  MaxLen = 2
  MaxFrames = 3
  MaxAudio = 4
  MaxStepCalls = 2
INVARIANTS RecordingIsServed JournalIsExact UploadsArrive ExchangesHold
CHECK_DEADLOCK FALSE
