SPECIFICATION FairSpec
CONSTANTS
  Absent = Absent
  Environments <- AnyEnvironment
  NsLag = FALSE
  MaxClaims = 2
  MaxTampers = 1
  MaxFaults = 1
  MaxRestarts = 1
  MaxRebuilds = 1
  MaxTroubles = 1
  MaxLag = 1
INVARIANTS TypeOK RoleGoesWithClaim ReadyMeansCreated
PROPERTIES BucketOutlivesClaim StorageSettles StorageReleased
CHECK_DEADLOCK FALSE
