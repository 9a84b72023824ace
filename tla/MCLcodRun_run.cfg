CONSTANTS
  Proc = {p1, p2}
  Nobody = Nobody
  World <- MCWorld
SYMMETRY Symmetry
SPECIFICATION Spec
INVARIANTS
  TypeOK
  PartsAreUnfinished
  LockBeforeRun
  EarlyCancelRunsNothing
PROPERTIES
  SpoiledByFaultsOnly
  InstalledForGood
