SPECIFICATION FairSpec
CONSTANTS
  Block <- MCBlock
  SlotName <- MCSlotName
  Programs <- FlowPrograms
  Main = "Main"
  MaxItems = 2
  MaxIterations = 2
  MaxTags = 2
INVARIANTS
  TypeOK
  SlotDiscipline
  ScopeBalance
  TagsKept
  LoopBounds
  CancellationKept
PROPERTIES
  CancelEndsRun
  FinallyRuns
  LoopsContainSignals
