CONSTANTS
  None = None
  c1 = c1
  c2 = c2
  Contents <- TwoContents
  Empty = c1
  MaxImports = 2
  MaxSources = 1
  MaxFaults = 2
SPECIFICATION Spec
PROPERTY WritesBlocked
