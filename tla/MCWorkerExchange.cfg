CONSTANTS
  RequestSize = 2
  ClaimSize = 2
  Limit <- MCLimit
  Capacity = 2
  Chunk = 2
  Scripts <- MCScripts
SPECIFICATION Spec
INVARIANTS TypeOK ClaimIsWhole BlameIsEarned NothingLeftBehind
PROPERTY Implements
