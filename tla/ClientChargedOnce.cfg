SPECIFICATION Spec
CONSTANTS
  Servers <- MCServers
  DefaultUrls <- MCDefaultUrls
  Routes <- MCRoutes
  Listings <- MCListings
  HasAccount = {"s1"}
  Funds = 2
  Operations = {"referenced", "plain"}
  Reference <- MCReference
  NoReference = "none"
  MaxRetries = 2
  MaxPolls = 2
  MaxLate = 1
  MaxCrashes = 1
  Nothing = Nothing
  NoOperation = NoOperation
CHECK_DEADLOCK FALSE
INVARIANTS
  ReferenceChargedOnce
