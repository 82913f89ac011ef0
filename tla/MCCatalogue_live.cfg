SPECIFICATION FairSpec
CONSTANTS
  gemma = gemma
  Gemma = Gemma
  qwen = qwen
  dots = dots
  model = model
  mmproj = mmproj
  NoName = NoName
  NoBase = NoBase
  Names = {gemma}
  Slugs = {1}
  SlugOf <- MCSlugOf
  Bases = {model}
  Projectors = {}
  Planners = {p1}
  Walkers = {w1, w2}
  Renamers = {}
  Overlap = {"delete", "held", "slow"}
  MaxPlans = 2
  MaxRenames = 0
  MaxDeletes = 1
  MaxExpiries = 1
PROPERTIES
  ExpiredReservationResolved
  LandedFileCommitted
