SPECIFICATION Spec
CONSTANTS
  None = None
  Absent = Absent
  Unset = Unset
  Parts = {"rotation"}
  Games = {g1}
  Roms = {r1}
  GameRequests = {q1}
  Releases = {e1}
  Backglasses = {b1}
  Numbers = {n1}
  Handlers = {h1}
  Uploads = {f1}
  Singles = {d1}
  Versioned = {rel}
  Tasks = {t1}
  TableIds = {f1}
  Offers <- MCOffers
  Builds = {v1}
  Compats <- MCCompats
  Editors = {w1}
  MaxSaves = 1
  Posts = {p1}
  MaxParts = 2
  VersionIds = {v1}
  VersionNames = {m1}
  FirstName = m1
  Edits = {w1}
  MaxRevision = 1
  MaxDownloads = 1
INVARIANT RollbackRestores
CHECK_DEADLOCK FALSE
