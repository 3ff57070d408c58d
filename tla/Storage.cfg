CONSTANTS
  None = None
  Absent = Absent
  Unreadable = Unreadable
  a = a
  b = b
  c = c
  d1 = d1
  Ids <- ThreeIds
  Dues <- OneDue
  Clouds <- OneCloud
  Foreign <- Others
  HistoryLimit = 2
  MaxEdits = 2
  MaxUpsets = 1
SPECIFICATION Spec
INVARIANTS MemoryIsSaved BackupIsGood HistoryIsSound
PROPERTIES CommitsAreAtomic UnreadableIsKept
