SPECIFICATION SelectSpec
CONSTANTS
  Props <- TwoProps
  Values = {0, 1, 2}
  MaxDevices = 3
  Garbage <- NoPointer
INVARIANTS LoopInv FirstMatch
CHECK_DEADLOCK FALSE
