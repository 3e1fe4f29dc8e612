CONSTANTS
  BackflushCycles = 1
  DescaleCycles = 2
  RinseCycles = 2
  QueueCapacity = 3
  SensorBacklog = 1
  ClientsWait = TRUE
  Commands = {"powerOn", "descale", "stop", "manual", "status", "settings"}
  Switches = {"steam", "brew"}
SPECIFICATION Spec
INVARIANTS NoOrphanOutput SetPointsAreFresh EndedProgrammeLeaves
