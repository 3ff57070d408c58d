CONSTANTS
  Absent = Absent
  Unreadable = Unreadable
  None = None
  Found = {1}
  MaxUpsets = 2
SPECIFICATION FairSpec
INVARIANTS PanelIsCurrent RestIsCurrent
PROPERTIES NeverBack SettingsAreKept ViewConverges
CHECK_DEADLOCK FALSE
