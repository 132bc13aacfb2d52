SPECIFICATION FairSpec
CONSTANTS
  medium = medium
  small = small
  original = original
  None = None
  Variations = {medium, small}
  Original = original
  Source <- MCSource
  Category <- MCCategory
  Queues <- MCQueues
  Priority <- MCPriority
  Optimized = {}
  Skipped = {}
  ModifiesOriginal = FALSE
  PublicItems = {medium, small}
  Nodes = {n1}
  Activates = FALSE
  Deletes = {}
  Requested = {medium, small}
  MayFail = FALSE
PROPERTY RequestAnswered
CHECK_DEADLOCK FALSE
