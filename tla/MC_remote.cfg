CONSTANTS
  BackflushCycles = 2
  DescaleCycles = 1
  RinseCycles = 1
  QueueCapacity = 2
  SensorBacklog = 1
  ClientsWait = FALSE
  Commands = {"powerOn", "powerOff", "backflush", "stop", "manual"}
  Switches = {"steam", "brew"}
SPECIFICATION Spec
INVARIANTS TypeOK OffIsInert SwitchingIsDry CoroutineIsOwn
PROPERTIES NoRequestDropped ImplementsModes
