SPECIFICATION Spec
CONSTANTS
  Servers <- TwoServers
  Accounts <- OneAccount
  Phones <- MCPhones
  UnknownPhone = unknown
  Seeded <- SameSeeded
  SeededPhone <- SameSeededPhone
  Amounts <- MCAmounts
  BatchSize = 2
  MaxTime = 2
  MaxOps <- TwoOps
  ClocksAgree = TRUE
  MayFail = FALSE
INVARIANTS
  ServersAgreeWhenQuiet
CHECK_DEADLOCK FALSE
