CONSTANTS
  systems = systems
  listings = listings
  Files = {systems, listings}
  Needed = {systems, listings}
  Order <- MCOrder
  Format <- MCFormat
  ErrorPages = TRUE
  MaxVersion = 2
  Horizon = 2
  NoSnapshot = NoSnapshot
SPECIFICATION FairSpec
INVARIANTS
  TypeOK
  FilesAreWhole
  SnapshotIsCurrent
PROPERTIES
  LatestIsServed
CHECK_DEADLOCK FALSE
