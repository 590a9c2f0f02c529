SPECIFICATION FairSpec
CONSTANTS
  Servers <- MCServers
  Accounts <- MCAccounts
  Phones <- MCPhones
  UnknownPhone = unknown
  Seeded <- MCSeeded
  SeededPhone <- MCSeededPhone
  Amounts <- MCAmounts
  BatchSize = 2
  MaxTime = 2
  MaxOps <- MCOps
  ClocksAgree = FALSE
  MayFail = TRUE
INVARIANTS
  ReplicaHoldsLastWrite
PROPERTIES
  OperationsArrive
CHECK_DEADLOCK FALSE
