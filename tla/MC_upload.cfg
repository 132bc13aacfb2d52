SPECIFICATION FairSpec
CONSTANTS
  medium = medium
  small = small
  original = original
  None = None
  Source <- MCSource
  Category <- MCCategory
  Queues <- MCQueues
  Priority <- MCPriority
  Variations = {medium, small}
  Original = original
  Optimized = {original, medium, small}
  Skipped = {small}
  ModifiesOriginal = TRUE
  PublicItems = {medium}
  Nodes = {n1, n2}
  Activates = FALSE
  Deletes = {}
  Requested = {small}
  MayFail = FALSE
INVARIANTS TypeOK ProcessedCompletely GetFinds
PROPERTIES EventuallyProcessed
CHECK_DEADLOCK FALSE
