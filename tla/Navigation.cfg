CONSTANTS
  alice = alice
  Accounts = {alice, bob}
  Items = {i1}
  Dues = {d1}
  None = None
  Limit = 2
  MaxIds = 1
  MaxGens = 2
  MaxEdits = 1
  MaxFaults = 1
  MaxCrashes = 1
  MaxTroubles = 3
SPECIFICATION AliceSpec
INVARIANTS TargetIsRight RestIsServed
PROPERTIES ConsumedIsLocated ClickIsServed
CHECK_DEADLOCK FALSE
