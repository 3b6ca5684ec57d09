SPECIFICATION Spec
CONSTANTS
  Docs = {d1}
  Drafts = {"a", "b"}
  Broken = {"b"}
  Requests = {q1, q2}
  Operations = {"put_file", "read_page", "delete_file"}
  Budgets = {1}
  workspaceBudgetBytes = 2
  maxInputBytes = 1
  MaxSize = 4
  MaxClock = 2
  MaxFaults = 1
  None = None
INVARIANTS
  StaleNeverFresh
SYMMETRY Symmetry
