SPECIFICATION LockSpec
CONSTANTS
  Processes <- MCThree
  OneStart = TRUE
  Nobody = Nobody
  p1 = p1
  p2 = p2
  p3 = p3
INVARIANT OneWorker
PROPERTY RefusedByWorker
CHECK_DEADLOCK FALSE
