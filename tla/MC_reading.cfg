SPECIFICATION ReadingSpec
CONSTANTS
  Game = game
  Releases = {r1}
  Backglass = backglass
  Medium = medium
  Author = author
  Copies = {0, 1}
  Readers = {u1}
  Anon = anon
  Misses = {m1}
  Writers = {w1}
  Handlers <- AllHandlers
  None = None
  VptFiles = {"v1", "v2", "v3"}
  Owner <- MCOwner
  Streams <- MCStreams
  Bytes <- MCBytes
  Empty = Empty
  ball = ball
  bell = bell
  wall = wall
  title = title
  other = other
  Entries <- MCEntries
  Filters <- MCFilters
  Visitors <- MCVisitors
  Stocks <- MCStocks
  PerPages = {0, 1}
  MaxChanges = 2
  Anybody = Anybody
INVARIANTS StaleOnlyIfExcused Findable MatchesByContent WalkSeesAll
CHECK_DEADLOCK FALSE
