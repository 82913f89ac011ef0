SPECIFICATION Spec
CONSTANTS
  gemma = gemma
  Gemma = Gemma
  qwen = qwen
  dots = dots
  model = model
  mmproj = mmproj
  NoName = NoName
  NoBase = NoBase
  Names = {gemma, Gemma, qwen}
  Slugs <- MCSlugs
  SlugOf <- MCSlugOf
  Bases = {model, mmproj}
  Projectors = {mmproj}
  Planners = {p1, p2}
  Walkers = {w1}
  Renamers = {r1}
  Overlap = {"io"}
  MaxPlans = 2
  MaxRenames = 1
  MaxDeletes = 1
  MaxExpiries = 0
INVARIANTS
  BundleCatalogued
  GroupInOneDir
  FlightCatalogued
PROPERTIES
  PresentFileKeepsEntry
