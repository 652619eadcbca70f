SPECIFICATION PartSpec
CONSTANTS
  SAMPLES = 2
  TIME_1S_BY_100MS = 2
  TIME_2S_BY_100MS = 3
  TIME_3S_BY_100MS = 2
  Levels <- MCLevels
  MINUTES = 2
  HOURS = 2
  MAX_IR_CODE = 2
  Triggers <- MCTriggers
  MaxQuiet = 3
  LastYear = 2105
  DAYS = 2
  Times <- MCTimes
  TIME_20MS_BY_10MS = 2
  TIME_1S_BY_10MS = 10
  MaxOthers = 3
  SCHED_QUEUE_SIZE = 5
INVARIANTS
  CalendarIsGregorian
  ClockKeepsTime
PROPERTIES
  NoAlarmMissed
  OnlyDueRings
  SensingPutsItsGrade
  WindowPassedOver
  TimesOutOncePerQuiet
