SPECIFICATION Spec
CONSTANTS
  medium = medium
  small = small
  original = original
  None = None
  Source <- MCSource
  Category <- MCCategory
  Queues <- MCQueues
  Priority <- MCPriority
  Variations = {medium, small}
  Original = original
  Optimized = {medium, small}
  Skipped = {}
  ModifiesOriginal = FALSE
  PublicItems = {medium, small}
  Nodes = {n1, n2}
  Activates = TRUE
  Deletes = {}
  Requested = {}
  MayFail = TRUE
SYMMETRY NodeSymmetry
INVARIANTS OneWriter NothingLost PublicOnlyIfActivated
CHECK_DEADLOCK FALSE
