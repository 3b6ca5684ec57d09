SPECIFICATION Spec
CONSTANTS
  Users = {u}
  Sources = {doc}
  Fonts = {face}
  Staged = {st}
  Requests = {r1}
  Tools = {"delete_file", "compile_typst"}
  Deletable = {u}
  FileTTL = 1
  LinkTTL = 2
  MaxClock = 2
  MaxFaults = 0
  None = None
PROPERTIES
  NothingElseLost
  ServableLinksKept
  LegacyLinksKeepFiles
