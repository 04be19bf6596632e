SPECIFICATION Spec
CONSTANTS
  MaxEntities = 2
  Listed = 1
  Unit = 30
  TimeMax = 3
PROPERTY MemoryOutlivesActiveWindow
CHECK_DEADLOCK FALSE
