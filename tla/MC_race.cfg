SPECIFICATION FairSpec
CONSTANTS
  medium = medium
  small = small
  original = original
  None = None
  Source <- MCSource
  Category <- MCCategory
  Queues <- MCQueues
  Priority <- MCPriority
  Variations = {medium, small}
  Original = original
  Optimized = {}
  Skipped = {}
  ModifiesOriginal = FALSE
  PublicItems = {medium, small}
  Nodes = {n1}
  Activates = TRUE
  Deletes = {"api", "parent"}
  Requested = {}
  MayFail = FALSE
PROPERTIES DerivationSpec EventuallyQuiet
INVARIANT QuietDeleteIsClean
CHECK_DEADLOCK FALSE
