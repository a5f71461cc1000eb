SPECIFICATION Spec
CONSTANTS
  None = None
  Specs <- EditedSpecs
  MaxLag = 1
INVARIANTS TypeOK OnlyPublicIsPublic KeepsServing
