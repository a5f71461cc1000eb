SPECIFICATION Spec
CONSTANTS
  Specs <- AllSpecs
  NoHPA = NoHPA
  MaxLag = 1
INVARIANTS HPABoundsValid
PROPERTIES NeverFight PublicFloor
