CONSTANTS
  None = None
  alice = alice
  bob = bob
  task = task
  old = old
  Accounts <- OneAccount
  Items <- OneTask
  Home <- HomeAlice
  MaxVersion = 1
  MaxQueue = 1
  MaxLate = 0
  MaxFaults = 0
SPECIFICATION Spec
PROPERTIES RestoreKeepsNewEdits
