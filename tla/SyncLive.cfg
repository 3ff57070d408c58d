CONSTANTS
  None = None
  alice = alice
  bob = bob
  task = task
  old = old
  Accounts <- OneAccount
  Items <- OneTask
  Home <- HomeAlice
  MaxVersion = 2
  MaxQueue = 1
  MaxLate = 1
  MaxFaults = 1
SPECIFICATION WorkingDiskSpec
INVARIANTS NoBlindOverwrite SyncingIsRunning EditsAreScheduled
PROPERTIES EditsSurvive EditsSettle
