SPECIFICATION PartsSpec
CONSTANTS
  Period = 18
  Pass = 2
  Sleep = 4
  Round = 6
  Hold = 1
  Writing = 2
  PanicPass = 4
  MaxValue = 3
  Requests = {0, 2, 4}
  MaxPulses = 3
  HeatingGain = 2
  DeadlineTicks = 3
  MaxTemp = 4
  MaxShots = 2
  StartCapacity = 3
  TareSteps = 5
  BuildYears = {2024}
  LastDay = 49710
  Sods = {0, 3661, 23295, 86399}
  WordBits = 14
  NativeIds = {10, 11}
  MaxCounted = 12
  MaxTied = 100
  MaxFields = 3
  OutMessages <- OutgoingMessages
  InMessages <- IncomingMessages
  SizeSaid <- SizesSaid
  Numbers = {0, 1}
INVARIANTS
  OnlyAHangBites
  HangsAreNoticed
  OffIsOff
  PulsesFollowDemand
  ClicksAreCountedOnce
  RunawayVerdict
  RestingSwitchIsKnown
  ShotsAreLogged
  QueueSurvivesStart
  WeighedAfterTare
  CalendarAgrees
  WireCarriesFields
  ReflectionAgrees
  ClassicAgrees
CHECK_DEADLOCK FALSE
