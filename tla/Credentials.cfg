CONSTANTS
  None = None
  alice = alice
  bob = bob
  Accounts <- TwoAccounts
  MaxSessions = 2
  MaxTokens = 2
  MaxFaults = 2
SPECIFICATION FairSpec
INVARIANTS SessionAsWanted ActiveIsStored
PROPERTIES LossHasCause DeadSessionIsClosed
