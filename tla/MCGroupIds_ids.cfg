SPECIFICATION Spec
CONSTANTS
  gemma = gemma
  Gemma = Gemma
  phi = phi
  qwen = qwen
  model = model
  mmproj = mmproj
  c1 = c1
  c2 = c2
  NoName = NoName
  NoBase = NoBase
  Names = {gemma, Gemma, phi, qwen}
  Slugs <- MCSlugs
  SlugOf <- MCSlugOf
  Bases = {model, mmproj}
  Projectors = {mmproj}
  Clients = {c1, c2}
  Overlap = {}
  MaxInstalls = 3
  MaxRenames = 2
  MaxDeletes = 1
SYMMETRY MCSymmetry
INVARIANTS
  PublishedResolves
  HeldIdNeverWrong
  FilesOfOneModel
PROPERTIES
  DeleteHitsTarget
