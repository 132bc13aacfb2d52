SPECIFICATION Spec
CONSTANTS
  None = None
  Users = {u1, u2, u3}
  Emails = {e1, e2}
  ProviderIds = {i1}
  Requests = {q1, q2}
  MaxRequests = 3
SYMMETRY IdentitySymmetry
INVARIANTS ValidatedIsVouched
CHECK_DEADLOCK FALSE
