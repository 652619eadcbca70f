SPECIFICATION Spec
CONSTANTS
  RAW_BUFFER_LENGTH <- MCLength
  RECORD_GAP_TICKS <- MCGap
  UINT16_MAX_CUSTOM <- MCMaxTick
INVARIANTS
  TypeOK
  MarkWriteInBounds
  OverflowReport
PROPERTY ReceiverPromise
