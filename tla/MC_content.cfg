SPECIFICATION Spec
CONSTANTS
  None = None
  Absent = Absent
  Unset = Unset
  Parts = {"catalogue", "attachments", "uploads", "versions", "tables", "rotation"}
  Games = {g1, g2}
  Roms = {r1}
  GameRequests = {q1}
  Releases = {e1}
  Backglasses = {b1}
  Numbers = {n1}
  Handlers = {h1, h2}
  Uploads = {g1, g2}
  Singles = {d1, d2}
  Versioned = {rel}
  Tasks = {h1, h2}
  TableIds = {g1, g2}
  Offers <- MCOffers
  Builds = {g1, g2}
  Compats <- MCCompats
  Editors = {h1, h2}
  MaxSaves = 2
  Posts = {p1}
  MaxParts = 2
  VersionIds = {v1, v2, v3}
  VersionNames = {m1, m2}
  FirstName = m1
  Edits = {h1, h2}
  MaxRevision = 2
  MaxDownloads = 1
SYMMETRY Sym
INVARIANTS NoDanglingGame GamesFound FilesAccounted VersionsKept ImageAsAccepted UploadAnswered TablesConsistent ShownAsAsked
CHECK_DEADLOCK FALSE
