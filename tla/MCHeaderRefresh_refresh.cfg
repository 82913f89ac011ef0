SPECIFICATION FairSpec
CONSTANTS
  Readers = {r1, r2}
  NoCount = {3}
  MaxVersion = 3
  MaxReadFailures = 1
  MaxHashFailures = 1
INVARIANTS
  FieldsFresh
PROPERTIES
  FieldsCatchUp
