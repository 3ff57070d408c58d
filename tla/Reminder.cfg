CONSTANTS
  Accounts = {alice}
  Items = {i1}
  Dues = {d1, d2}
  None = None
  Limit = 2
  MaxIds = 3
  HistoryLimit = 1
  MaxGens = 2
  MaxEdits = 4
  MaxFaults = 1
SPECIFICATION FairSpec
CHECK_DEADLOCK FALSE
INVARIANTS MarkMeansReminded OneRoutePerTarget
PROPERTIES RoutesAreKept ServedStaysServed DueIsReminded
