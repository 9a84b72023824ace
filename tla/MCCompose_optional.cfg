SPECIFICATION Spec
CONSTANTS
  Block <- MCBlock
  SlotName <- MCSlotName
  Programs <- OptionalPrograms
  Main = "Main"
  MaxItems = 2
  MaxIterations = 2
  MaxTags = 2
INVARIANTS
  NotRanMeansMissing
