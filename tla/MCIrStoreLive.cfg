SPECIFICATION Spec
CONSTANTS
  sig = sig
  IDs <- MCIDs
  Codes <- MCCodes
  MaxCode = 1
  QueueSize = 3
  MaxRetries = 1
PROPERTIES
  SaveEnds
