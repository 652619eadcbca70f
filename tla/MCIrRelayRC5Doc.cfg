CONSTANTS
  Keys <- BurstKeys
  Pauses = {400, 30000}
  RepeatPauses = {400}
  Phases = {0, 25}
  Excesses = {10, 50}
  MaxFrames = 2
SPECIFICATION Spec
CHECK_DEADLOCK FALSE
INVARIANTS
  RC5HasItsBits
