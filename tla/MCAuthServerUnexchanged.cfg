SPECIFICATION FairSpec
CONSTANTS
  ClientIds = {c1}
  SessionIds = {s1}
  CodeIds = {k1}
  KeyIds = {t1}
  Accounts = {alice}
  Admins = {}
  Allowlist = {}
  Challenges = {ch1, ch2}
  Exchanges = {x1}
  ClientTTL = 1
  SessionTTL = 1
  CodeTTL = 1
  MaxUserRows = 1
  NoRow = NoRow
PROPERTIES
  UnexchangedClientsPruned
