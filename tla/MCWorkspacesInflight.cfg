SPECIFICATION Spec
CONSTANTS
  Users = {u}
  Sources = {doc}
  Fonts = {face}
  Staged = {st}
  Requests = {r1, r2}
  Tools = {"put_file", "delete_file", "compile_typst", "download"}
  Deletable = {u}
  FileTTL = 1
  LinkTTL = 2
  MaxClock = 2
  MaxFaults = 1
  None = None
SYMMETRY RequestSymmetry
INVARIANTS
  DeletedLinksGone
