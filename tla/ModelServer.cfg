SPECIFICATION Spec
CONSTANTS
  k1 = k1
  k2 = k2
  s0 = s0
  s1 = s1
  Conns = {k1, k2}
  NoConn = NoConn
  Slots = {s0, s1}
  NoSlot = NoSlot
  MaxBatch = 2
  OutboxSize = 2
  MaxCalls = 2
SYMMETRY LinkAndSlotSymmetry
CHECK_DEADLOCK FALSE
INVARIANTS
  AnsweredOnce
  SlotsHold
