SPECIFICATION Spec
CONSTANTS
  Member = {m1}
  Browser = {b1, b2}
  Request = {r1, r2}
  Sid = {s1, s2, s3}
  Credential = {c1, c2}
  Proof = {p1}
  MaxRequests = 3
  MaxFaults = 1
  NULL = NULL
SYMMETRY Symmetry
INVARIANTS PasskeyKept SignedInIsListed StepUpServesInTurn
PROPERTY SignInRotates
CHECK_DEADLOCK FALSE
