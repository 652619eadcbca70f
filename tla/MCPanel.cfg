SPECIFICATION PartSpec
CONSTANTS
  MAX_CONN_PARAMS_UPDATE_COUNT = 3
  MaxEvents = 3
  KEY_1CLICK_COUNT = 2
  KEY_1_5SEC_COUNT = 4
  KEY_3SEC_COUNT = 5
  KEY_SHORTERROR_COUNT = 7
  UINT16 = 12
  MaxSets = 4
CHECK_DEADLOCK FALSE
INVARIANTS
  AgreesWithStack
  ResetOnlyLateOrRefused
PROPERTIES
  PanelGoesOn
  HoldErasesOnce
  PatternPlaysOut
