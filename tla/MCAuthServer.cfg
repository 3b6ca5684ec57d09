SPECIFICATION Spec
CONSTANTS
  ClientIds = {c1, c2}
  SessionIds = {s1, s2}
  CodeIds = {k1, k2}
  KeyIds = {t1, t2}
  Accounts = {alice, root}
  Admins = {root}
  Allowlist = {}
  Challenges = {ch1, ch2}
  Exchanges = {x1, x2}
  ClientTTL = 1
  SessionTTL = 1
  CodeTTL = 1
  MaxUserRows = 3
  NoRow = NoRow
SYMMETRY IdSymmetry
INVARIANTS
  OneCodePerSession
  OneTokenPerCode
  TokenNamesSigner
  NoDanglingRows
  TokenAnswersRequest
  ExchangedClientsKept
