SPECIFICATION Spec
CONSTANTS
  author = author
  None = None
  Releases = {r1}
  Backglasses = {b1}
  Users = {author, moderator}
  Moderators = {moderator}
  AutoApprovers = {moderator}
  Authors <- MCAuthors
  Restricted = {b1}
  Requests = {q1, q2, q3}
SYMMETRY RequestSymmetry
INVARIANTS ReleasesCounted HistoryExplains ListedIsViewable CommentsConsistent
CHECK_DEADLOCK FALSE
