SPECIFICATION FairSpec
CONSTANTS
  Users = {u}
  Sources = {doc}
  Fonts = {}
  Staged = {st}
  Requests = {r1}
  Tools = {"put_file", "delete_file", "compile_typst", "download"}
  Deletable = {}
  FileTTL = 1
  LinkTTL = 2
  MaxClock = 2
  MaxFaults = 1
  None = None
PROPERTIES
  UsersMeasured
