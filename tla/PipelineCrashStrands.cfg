SPECIFICATION FairSpec
CONSTANTS
  alice = alice
  bob = bob
  NoAccount = nobody
  NoJob = nojob
  Accounts <- MCAccounts
  InitialBalance <- MCInitialBalance
  Submissions <- MCSubmissions
  RequestIds <- MCRequestIds
  TxIds <- MCTxIds
  InLeg <- MCInLeg
  PeerBalances <- MCPeerBalances
  MaxJournal = 1
PROPERTIES
  EveryRequestResolves
