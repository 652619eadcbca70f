SPECIFICATION Spec
CONSTANTS
  MAX_IR_CODE = 2
  SCHED_QUEUE_SIZE = 2
  TrigIDs = {1, 2, 3}
  Texts <- MCTexts
  Digits = {0, 9}
  MaxWrites = 4
INVARIANTS
  IDsAreUnique
  TriggerIsAsSent
  CommandsInOrder
