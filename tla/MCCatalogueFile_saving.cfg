SPECIFICATION FairSpec
CONSTANTS
  Items = {a, b}
  NoItem = NoItem
  Savers = {s1, s2}
  Inodes = {i1, i2, i3, i4}
  NoFile = NoFile
  MaxChanges = 3
  MaxCrashes = 1
  MaxFailures = 1
  MaxBadReads = 1
INVARIANTS
  FileSound
  CleanMeansSaved
  AckedDurable
PROPERTIES
  ImplementsStore
  SavesComplete
