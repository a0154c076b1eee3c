SPECIFICATION Spec
CONSTANTS
  m1 = m1  m2 = m2  c1 = c1  c2 = c2
  Member = {m1, m2}
  Client = {c1, c2}
  ClientOf <- OneEach
  PoolSize = 2
  Quota <- SmallQuotas
  NULL = NULL
PROPERTY ConnectionsReturn
CHECK_DEADLOCK FALSE
