SPECIFICATION FairSpec
CONSTANTS
  r = r
  a = a
  b = b
  Ids = {r, a}
  Root = r
  Parent <- StarParent
  Shorts = {1}
  RootNode = 1
  Files = {f1, f2}
  NoFile = NoFile
  Handles = {h1, h2}
  Threads = {t1, t2, t3}
  Client = Client
  Nobody = Nobody
  Openings = {{}, {r, a}}
  ReadOnly = FALSE
  MaxCacheSize = 10
  MaxVersion = 1
  MaxCalls = 3
PROPERTIES
  CallReturns
CHECK_DEADLOCK FALSE
