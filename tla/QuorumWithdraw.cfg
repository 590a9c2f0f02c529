SPECIFICATION FairSpec
CONSTANTS
  n1 = n1
  n2 = n2
  first = first
  second = second
  retry = retry
  NoCall = nocall
  NoRequest = norequest
  Nodes <- MCNodes
  Calls <- MCCalls
  Kind <- MCKind
  Home <- MCHome
  Amount <- MCAmount
  Request <- MCRequest
  Deposits <- MCDeposits
  NodeHash <- MCNodeHash
  InitialBalance = 2
  Slots = 5
  MaxTime = 2
  MaxPerMs = 0
CHECK_DEADLOCK FALSE
INVARIANTS
  RefusedOnlyAsDuplicate
  CheckpointCoversOwnEvents
  OneEventPerRequest
  AccountLockTellsTheCall
PROPERTIES
  CallsReturn
