SPECIFICATION Spec
CONSTANTS
  a1 = a1  a2 = a2  a3 = a3  b1 = b1  b2 = b2
  o1 = o1  o2 = o2  o3 = o3  old = old  new = new
  Client = {p1, p2}
  Account = {a1, a2, a3}
  Bank = {b1, b2}
  Operation = {o1, o2, o3, o4, o5, o6, o7}
  Content = {old, new}
  BankOf <- Banks
  Initial <- Tables
  NULL = NULL
  Request <- AnyRequest
INVARIANT PairsMirror
PROPERTY RequestsEnd
CHECK_DEADLOCK FALSE
