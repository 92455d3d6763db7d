SPECIFICATION Spec
CONSTANTS
  StepRequests = {r1}
  Commands = {}
  SteppedKinds = {TRUE, FALSE}
  Limits = {0, 1}
  Seeds = {TRUE, FALSE}
  Hooked = TRUE
  Capacity = 1
  MaxSessions = 2
  MaxJoins = 2
  MaxSteps = 2
  MaxHops = 1
  MaxBacklog = 5
CHECK_DEADLOCK FALSE
INVARIANTS
  StepStaysInItsSession
  StopsAtItsSteps
