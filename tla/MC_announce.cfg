CONSTANTS
  BackflushCycles = 1
  DescaleCycles = 1
  RinseCycles = 1
  QueueCapacity = 3
  SensorBacklog = 1
  ClientsWait = TRUE
  Commands = {"powerOn", "manual"}
  Switches = {"power"}
SPECIFICATION Spec
INVARIANTS AnnouncedHasName
