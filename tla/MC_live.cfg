CONSTANTS
  BackflushCycles = 1
  DescaleCycles = 1
  RinseCycles = 1
  QueueCapacity = 2
  SensorBacklog = 1
  ClientsWait = FALSE
  Commands = {"powerOn", "powerOff"}
  Switches = {"power", "steam"}
SPECIFICATION FairSpec
PROPERTIES  RemoteOffHonoured PowerSwitchSeen
