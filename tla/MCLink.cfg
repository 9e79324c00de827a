\* Whole and torn frames, pipelined by hosts that gave up, up to the cap.
SPECIFICATION LiveLink
CONSTANTS
  Base = 2
  PrefixLen = 2
  Weight <- MCWeight
  MaxRxFrame = 2
  Chunk = 3
  Room = 2
  MaxCalls = 3
  Bodies <- MCBodies
  Response <- MCResponse
CHECK_DEADLOCK FALSE
INVARIANTS
  LinkTypeOK
  ServedAsSent
  FrameAwaited
  CallsPaired
PROPERTY
  CallReturns
