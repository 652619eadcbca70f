SPECIFICATION Spec
CONSTANTS
  sig = sig
  IDs <- MCIDs
  Codes <- MCCodes
  MaxCode = 2
  QueueSize = 3
  MaxRetries = 0
INVARIANTS
  TypeOK
  WriteOnErased
PROPERTIES
  RestartKeepsCodes
  RestartKeepsTriggers
  SaveIsDurable
