SPECIFICATION Spec
CONSTANTS
  r = r
  a = a
  b = b
  Ids = {r, a, b}
  Root = r
  Parent <- StarParent
  Shorts = {1, 2}
  RootNode = 1
  Files = {f1, f2, f3}
  NoFile = NoFile
  Handles = {h1, h2}
  Threads = {t1, t2}
  Client = Client
  Nobody = Nobody
  Openings = {{}, {r, a}}
  ReadOnly = FALSE
  MaxCacheSize = 1
  MaxVersion = 2
  MaxCalls = 4
SYMMETRY Interchangeable
INVARIANTS
  TypeOK
  UserCountExact
  PinnedFilesLive
  CallbackTargetsLive
  CacheIndexCoherent
  WriteSizeExact
  NoLostUpdate
  ChildFilesKnown
  DestroyedIsStored
PROPERTIES
  DeletedOnlyWhenStored
  FlushStoresAll
CHECK_DEADLOCK FALSE
