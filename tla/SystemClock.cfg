SPECIFICATION ClockSpec
CONSTANTS
  Word <- MCWord
  Thousand = 5
  Rate = 5
  Settle = 3
  LoopTicks = 2
INVARIANT
  SettlesInTime
PROPERTIES
  NotResetEarly
  AlarmOnTime
