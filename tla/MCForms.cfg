SPECIFICATION Spec
CONSTANTS
  HEAP_WORDS = 30
  MAX_FORMS = 3
  GROWTH = 20
  MAX_INTENTS = 1
  Names <- MCNames
  DimNames <- MCDims
  Lengths <- MCLengths
  EditSizes <- MCEditSizes
  MaxSize = 18
  MaxSteps = 7
  PkgMarker = ".p"
  PkgForms <- MCPkgForms
  PkgLength = 4
  HexName = "a.hex"
  HexHeader = 8
INVARIANTS TypeOK HeapIntact BuffersOwned SafeCommands NoLeak ProgramsReadOnly
CHECK_DEADLOCK FALSE
