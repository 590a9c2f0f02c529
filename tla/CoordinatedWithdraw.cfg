SPECIFICATION FairSpec
CONSTANTS
  n1 = n1
  n2 = n2
  n3 = n3
  first = first
  second = second
  NoCall = nocall
  NoRequest = norequest
  Nodes <- MCNodes
  Calls <- TwoCalls
  Coordinator <- MCCoordinator
  Amount <- MCAmount
  Request <- MCRequest
  Deposits <- MCDeposits
  InitialBalance = 2
  MaxEvents = 2
CHECK_DEADLOCK FALSE
INVARIANTS
  ReservationsHold
  AppliedOnlyWhenDecided
  OneEventPerRequest
  AccountLockIsGuarded
  PromisesAreCovered
PROPERTIES
  CallsReturn
  ImplementsAtomicCommit
