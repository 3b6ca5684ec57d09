SPECIFICATION Spec
CONSTANTS
  Accounts = {alice, bob}
  Logins = {al, bo, cy}
  Slugs = {acme, docs}
  NsIds = {n1, n2}
  SignIns = {h1, h2}
  Administrator = Administrator
  None = None
SYMMETRY IdSymmetry
INVARIANTS
  RowsNeedNamespace
  OnePrimaryName
  PersonalNamesOwn
PROPERTIES
  NamesStay
  OwnersStay
