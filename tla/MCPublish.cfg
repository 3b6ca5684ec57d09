SPECIFICATION Spec
CONSTANTS
  amy = amy
  ben = ben
  own = own
  org = org
  house = house
  pkg = pkg
  toml = toml
  lib = lib
  good = good
  uses = uses
  bad = bad
  torn = torn
  Users = {amy}
  Namespaces = {house, own, org}
  Builtin = house
  Names = {pkg}
  Versions = {1, 2}
  Files = {toml, lib}
  Manifest = toml
  Contents = {good, uses, torn}
  Torn = torn
  Broken = {torn}
  Imports <- MCImports
  Role <- MCRole
  House <- MCHouse
  Bundled <- MCBundled
  Requests = {r1, r2}
  MaxEdits = 1
  MaxFaults = 1
  Missing = Missing
  None = None
SYMMETRY RequestSymmetry
INVARIANTS
  PublishedAsChecked
  SeedFillsGaps
  PublishedKeepsCompiling
PROPERTIES
  SettledVersionsStay
CHECK_DEADLOCK FALSE
