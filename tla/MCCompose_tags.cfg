SPECIFICATION Spec
CONSTANTS
  Block <- MCBlock
  SlotName <- MCSlotName
  Programs <- LogPrograms
  Main = "Main"
  MaxItems = 2
  MaxIterations = 2
  MaxTags = 2
INVARIANTS
  TagsRestored
