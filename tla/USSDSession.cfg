SPECIFICATION Spec
CONSTANTS
  Phones = {alice}
  Inputs <- MCInputs
  Value <- MCValue
  NoSession = nosession
  MaxSessions = 2
  MaxQueued = 2
  RepliesMayBeLost = TRUE
  CommitsMayFail = TRUE
INVARIANTS
  PendingOrderIsComplete
  QueuedOnce
  OneActiveSession
PROPERTIES
  QueuedAsAsked
  ExpiredStaysExpired
CHECK_DEADLOCK FALSE
