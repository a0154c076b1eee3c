SPECIFICATION MCSpec
CONSTANTS
  m1 = m1  s1 = s1  s2 = s2
  Member = {m1}
  Scheduler = {s1, s2}
  MemberOf <- OneMember
  Worker = {w1}
  Visit = {v1}
  Rule <- Rules
  LastDay = 2
  JobBudget = 2
  SignInBudget = 1
  Attempts = 2
  MaxUpsets = 2
  NULL = NULL
INVARIANTS NoDuplicates NothingSkipped
PROPERTY CatchesUp
