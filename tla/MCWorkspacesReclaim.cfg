SPECIFICATION FairSpec
CONSTANTS
  Users = {u}
  Sources = {doc}
  Fonts = {}
  Staged = {st}
  Requests = {r1}
  Tools = {"put_file", "compile_typst"}
  Deletable = {}
  FileTTL = 1
  LinkTTL = 1
  MaxClock = 2
  MaxFaults = 1
  None = None
PROPERTIES
  ExpiredLinksDeleted
  ScratchReclaimed
