SPECIFICATION Spec
CONSTANTS
  gemma = gemma
  Gemma = Gemma
  qwen = qwen
  dots = dots
  model = model
  mmproj = mmproj
  NoName = NoName
  NoBase = NoBase
  Names = {gemma}
  Slugs <- MCSlugs
  SlugOf <- MCSlugOf
  Bases = {model}
  Projectors = {}
  Planners = {p1}
  Walkers = {w1}
  Renamers = {}
  Overlap = {"delete"}
  MaxPlans = 2
  MaxRenames = 0
  MaxDeletes = 1
  MaxExpiries = 0
INVARIANTS
  FlightCatalogued
