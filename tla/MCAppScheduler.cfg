SPECIFICATION Spec
CONSTANTS
  e1 = e1
  e2 = e2
  long = long
  Events <- MCEvents
  LongEvents <- MCLong
  QueueSize = 3
  Nesting = 2
INVARIANTS
  TypeOK
  HandlerDataStable
PROPERTIES
  QueuePromise
  HeadIsHandled
