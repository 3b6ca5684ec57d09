SPECIFICATION Spec
CONSTANTS
  Accounts = {alice, bob}
  Logins = {al, bo}
  Slugs = {acme}
  NsIds = {n1}
  SignIns = {h1}
  Administrator = Administrator
  None = None
PROPERTIES
  DeletedUsersForgotten
