SPECIFICATION FairSpec
CONSTANTS
  old = old
  new1 = new1
  new2 = new2
  Pods <- MCPods
  Latest <- MCLatest
  Newest = 4
  MaxFaults = 3
  None = None
INVARIANTS
  HistoryTrue
  ServesKnownSchema
PROPERTIES
  RestartsServe
