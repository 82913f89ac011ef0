SPECIFICATION Spec
CONSTANTS
  gemma = gemma
  Gemma = Gemma
  qwen = qwen
  dots = dots
  model = model
  mmproj = mmproj
  NoName = NoName
  NoBase = NoBase
  Names = {gemma, Gemma, qwen, dots}
  Slugs <- MCSlugs
  SlugOf <- MCSlugOf
  Bases = {model}
  Projectors = {}
  Planners = {p1, p2}
  Walkers = {w1}
  Renamers = {r1}
  Overlap = {"delete", "rename", "merge", "held", "slow", "io"}
  MaxPlans = 2
  MaxRenames = 2
  MaxDeletes = 1
  MaxExpiries = 1
INVARIANTS
  TypeOK
  SlugIdentifiesGroup
PROPERTIES
  WholeGroupRenamed
