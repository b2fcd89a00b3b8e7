\* Any number of crashes, half-written metadata, uninitialised sizes.
SPECIFICATION SharedSpec
CONSTANTS
  BlockNull = 4
  MaxKey = 3
  DataCapacity = 1
  BlockWords = 6
  MaxBlocks = 3
  StaleMax = 1
  TornMeta = TRUE
  Garbage = Garbage
  Contents <- MCContents
INVARIANTS StoreTypeOK StoreInv NewIdIsFresh LookupFindsEveryId ListedBlocksAreWhole
PROPERTIES LiveBlocksUntouched SnapshotStays
