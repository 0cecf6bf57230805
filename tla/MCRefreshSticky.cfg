SPECIFICATION FirstSpec
CONSTANTS
  Refresher = {r1}
  Version = {v1, v2}
  Commit <- MCShortCommit
  Path <- MCPath
  Manifest = toml
  Root = lib
  RustSource <- MCRustSource
  MappingInput <- MCMappingInput
  Blob <- MCBlob
  NoBlob = NoBlob
  NoSnapshot = NoSnapshot
  Inventory <- MCShortInventory
  Mods <- MCMods
  CrateOf <- MCCrateOf
  MaxEntries = 9
  MaxScans = 1
  MaxRuns = 3
  toml = toml
  lib = lib
  modA = modA
  modB = modB
  doc = doc
  m1 = m1
  m2 = m2
  l1 = l1
  l2 = l2
  a1 = a1
  a2 = a2
  a3 = a3
  b1 = b1
  d1 = d1
  d2 = d2
INVARIANTS
  RepeatIsNoChange
CHECK_DEADLOCK FALSE
