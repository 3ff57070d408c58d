CONSTANTS
  None = None
  alice = alice
  bob = bob
  task = task
  old = old
  Accounts <- TwoAccounts
  Items <- OneTask
  Home <- HomeBob
  MaxVersion = 1
  MaxQueue = 1
  MaxLate = 0
  MaxFaults = 1
SPECIFICATION HandOverSpec
INVARIANT UploadIsMarked
PROPERTY KeepsContract
