SPECIFICATION MCSpec
CONSTANTS
  own = own
  dir = dir
  other = other
  WorkerCount = 2
  Reporting = {1}
  Instances = {own, dir, other}
  Files <- MCFiles
  Named <- MCNamed
  Doomed <- MCDoomed
  Spread = {own, dir}
  MaxJobs = 1
  Pages = {p1, p2}
  Queries = {"q1", "q2"}
  Repos = {m1, m2}
  Cap = 1
  MaxCalls = 3
  Inits = {1, 2}
  Requests = {r1, r2}
  MaxPixelTokens = 4
  ImageFloor = 2
  ImageDefault = 3
  AudioDefault = 5
  DefaultCap = 24
  FallbackParams = 7
  ActiveParams = 2
  TotalParams = 5
  Patches = {1, 2, 3}
  Merges = {1, 4}
  Side = 14
  Texts = {3, 22, 40}
  Caps = {0, 16}
  MaxParts = 2
  Paths <- MCPaths
  TypeOf <- MCTypeOf
  Projector <- MCProjector
  Published <- MCPublished
  Configs <- MCConfigs
  Contents <- MCContents
  Stored = {1, 2}
  Names = {"A", "B"}
  Headers <- MCHeaders
  Listable <- MCListable
  Word = 16
  KvMax = 3
  TensorMax = 2
  DimMax = 2
  Sizes = {0, 2, 5}
  Labels = {0, 3}
  Counts = {2, 4}
  Finals <- MCFinals
  MaxReplies = 2
SYMMETRY Symmetry
INVARIANTS
  AllTypesOK
  AnsweredMeansEvicted
  SeesOneInit
  PricedInFull
  PagingSound
  SubmittedAsWished
  LoadsAsNamed
  ViewsSound
  CountsSound
  ReadersAgree
  ReadsHonest
PROPERTIES
  JobsSpared
  StaysInitialised
  PricesSound
CHECK_DEADLOCK FALSE
