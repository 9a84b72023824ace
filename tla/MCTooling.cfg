SPECIFICATION PartsSpec
CONSTANTS
  Content <- MCContent
  Limit <- MCLimit
  NoLimit = NoLimit
  MaxStreams = 1
  MaxEmpty = 2
  a = a
  b = b
  c = c
  axiom = axiom
  fileA = fileA
  fileB = fileB
  fieldA = fieldA
  fieldB = fieldB
  ka = ka
  kb = kb
  k = k
  Dep <- MCDep
  Skipped <- MCSkipped
  Root = Root
  Descriptor <- MCDescriptor
  Requires <- MCRequires
  Unreadable = Unreadable
  Gone = Gone
  NoKey = NoKey
  Unusable = Unusable
  SourceMaps <- MCSourceMaps
  MaxEdits = 1
  Item <- MCItem
  Key <- MCKey
  MaxItems = 2
  MaxChildren = 1
  MaxLimit = 2
  SpecLogLimit = 2
  MaxNesting = 3
  Field <- MCField
  NoObject = NoObject
  MaxMessages = 2
  MaxTools = 2
  MaxTime = 2
INVARIANTS
  TypeOK
  Conserved
  TypesOK
  ResolvesWhole
  SearchSound
  LoggerNotReentered
  SpecLogBounded
  PatchMerged
  MessagesKept
PROPERTIES
  ChunkingInvisible
  ReadersFinish
  CyclesAreReal
  ResolutionEnds
  CancelStopsSearch
