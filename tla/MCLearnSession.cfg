SPECIFICATION Spec
CONSTANTS
  sig = sig
  IDs <- MCIDs
  Codes <- MCCodes
  MaxCode = 1
  TIME_5S_BY_100MS = 2
  TIME_2S_BY_100MS = 1
INVARIANTS
  TypeOK
  StoredSignalIsFresh
PROPERTIES
  NoSuccessAfterFail
  FrameGivenBack
  LearnAnswered
  ScanStops
  EraseServed
