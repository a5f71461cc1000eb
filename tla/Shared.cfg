SPECIFICATION FairSpec
CONSTANTS
  Homes = {h1, h2}
  NoLabel = NoLabel
  Absent = Absent
  NsLag = FALSE
  MaxClaims = 4
  MaxTampers = 2
  MaxRestarts = 1
  MaxLag = 2
INVARIANTS TypeOK OwnerHoldsNamespace
PROPERTIES EachDeletionCompletes LastClaimOwnsNamespace
CHECK_DEADLOCK FALSE
