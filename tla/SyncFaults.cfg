CONSTANTS
  None = None
  alice = alice
  bob = bob
  task = task
  old = old
  Accounts <- OneAccount
  Items <- ImportedTask
  Home <- HomeImported
  MaxVersion = 1
  MaxQueue = 1
  MaxLate = 0
  MaxFaults = 1
SPECIFICATION Spec
INVARIANTS CleanMeansSynced SyncedIsTrue NoForeignUpload
