SPECIFICATION Spec
CONSTANTS
  Users = {u1, u2}
  None = None
  Merges = {m1}
  Entities = {g1, g2}
  Model <- MCModel
  Values = {1, 2}
  RateRequests = {r1, r2}
  OldRatings = {o1}
  StarRequests = {r1, r2}
  OldStars = {p1}
SYMMETRY CommunitySymmetry
INVARIANTS AverageCurrent StarsAgree VotesHold
CHECK_DEADLOCK FALSE
