SPECIFICATION Spec
CONSTANTS
  amy = amy
  ben = ben
  own = own
  org = org
  house = house
  pkg = pkg
  toml = toml
  lib = lib
  good = good
  uses = uses
  bad = bad
  torn = torn
  Users = {amy}
  Namespaces = {house, own}
  Builtin = house
  Names = {pkg}
  Versions = {1, 2}
  Files = {toml, lib}
  Manifest = toml
  Contents = {good, bad, torn}
  Torn = torn
  Broken = {bad, torn}
  Imports <- MCImports
  Role <- MCRole
  House <- MCHouse
  Bundled <- MCBundled
  Requests = {r1, r2}
  MaxEdits = 1
  MaxFaults = 0
  Missing = Missing
  None = None
SYMMETRY RequestSymmetry
PROPERTIES
  VersionsImmutable
CHECK_DEADLOCK FALSE
