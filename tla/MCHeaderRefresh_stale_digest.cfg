SPECIFICATION Spec
CONSTANTS
  Readers = {r1}
  NoCount = {}
  MaxVersion = 3
  MaxReadFailures = 0
  MaxHashFailures = 1
INVARIANTS
  DigestFreshOrEmpty
