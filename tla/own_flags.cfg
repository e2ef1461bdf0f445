CONSTANTS
  BufferCapacity = 2
  FirstTick <- BeforeZero
  RealTick = 0
  LastTick = 3
SPECIFICATION Spec
INVARIANTS PeeksItsTick OwnFlagsOnce
CHECK_DEADLOCK FALSE
