SPECIFICATION BoardFairSpec
CONSTANTS
  Fields = {temp, time}
  Values = {v0, v1}
  DefaultValue = v0
  Announcements = 2
INVARIANTS
  FlashIsQuiet
  InForceIsStored
  ToldIsInForce
PROPERTY
  HangsEnd
