SPECIFICATION FairSpec
CONSTANTS
  r = r
  a = a
  b = b
  Ids = {r, a}
  Root = r
  Parent <- StarParent
  Shorts = {1}
  RootNode = 1
  Files = {f1, f2}
  NoFile = NoFile
  Handles = {h1, h2}
  Threads = {t1, t2}
  Client = Client
  Nobody = Nobody
  Openings = {{r}}
  ReadOnly = FALSE
  MaxCacheSize = 1
  MaxVersion = 2
  MaxCalls = 4
PROPERTIES
  EvictCallbackReturns
CHECK_DEADLOCK FALSE
