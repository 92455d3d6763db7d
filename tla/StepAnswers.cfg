SPECIFICATION FairSpec
CONSTANTS
  StepRequests = {r1}
  Commands = {c1}
  SteppedKinds = {TRUE, FALSE}
  Limits = {1}
  Seeds = {TRUE}
  Hooked = FALSE
  Capacity = 0
  MaxSessions = 2
  MaxJoins = 1
  MaxSteps = 1
  MaxHops = 1
  MaxBacklog = 3
CHECK_DEADLOCK FALSE
INVARIANT AtMostOneAnswer
PROPERTY EveryMessageAnswered
