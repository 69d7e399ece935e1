CONSTANTS
  Callers = {c1, c2, c3}
  Revisions <- MCRevisions
  NoRevision = NoRevision
  Broken = Broken
  MaxDamage = 1
  Publishers = {p1, p2, p3}
  Publications = {x1, x2}
  TimingFileNames = {"words", "captions"}
  Keepers = {k1}
  Catalog <- MCCatalog
  Renders <- MCRenders
  Roots = {3}
  Instants = {1}
  HardLimit = 5
  MaxShelfFaults = 1
  MaxRuns = 3
  MaxTrashed = 0
  Users = {u1, u2, u3}
  Keys = {"key"}
  Entries <- MCEntries
  MaxCacheFaults = 1
  Cleaners = {d1, d2}
  Inventories <- MCInventories
  Policies <- MCPolicies
  MaxTransactions = 2
  MaxCleanFaults = 1
  Clerks = {"clerk"}
  Declarations <- MCDeclarations
  Binding = "r1"
  Waves <- MCWaves
  MaxDataBytes = 16
  MaxRewrites = 2
  Manifest <- MCManifest
  AssetInputs <- MCAssetInputs
  AssetPolicies <- MCAssetPolicies
  Usages <- MCUsages
  IdOrders <- MCOrders
  MaxLogged = 1
SPECIFICATION StoresSpec
INVARIANTS
  WhatIsNamedVerifies
  NothingIsMislaid
  LimitsHold
  CatalogHolds
  RecordingsAreSound
PROPERTIES
  NothingIsLost
CHECK_DEADLOCK FALSE
