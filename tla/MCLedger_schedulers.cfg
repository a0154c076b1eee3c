SPECIFICATION Spec
CONSTANTS
  m1 = m1  m2 = m2  b1 = b1  b2 = b2  a1 = a1  a2 = a2  a3 = a3  eur = eur
  Member = {m1}
  Bank = {b1, b2}
  Account = {a1, a2}
  Operation = {o1, o2}
  Scheduler = {s1}
  Currency = {eur}
  Content = {c1}
  Entry <- DebitEntries
  Opening = {NULL, "credit"}
  OwnerOf <- OneOwner
  BankOf <- TwoBanks
  CurrencyOf <- OneCurrency
  NULL = NULL
SYMMETRY Symmetry
INVARIANT NoDeletedTarget
PROPERTIES DeletedBooksFrozen OpeningBalanceKept
CHECK_DEADLOCK FALSE
