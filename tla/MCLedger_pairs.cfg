SPECIFICATION Spec
CONSTANTS
  m1 = m1  m2 = m2  b1 = b1  b2 = b2  a1 = a1  a2 = a2  a3 = a3  eur = eur
  Member = {m1}
  Bank = {b1}
  Account = {a1, a2, a3}
  Operation = {o1, o2, o3}
  Scheduler = {}
  Currency = {eur}
  Content = {c1}
  Entry <- TransferEntries
  Opening = {NULL}
  OwnerOf <- OneOwner
  BankOf <- OneBank
  CurrencyOf <- OneCurrency
  NULL = NULL
SYMMETRY OneBankSymmetry
INVARIANTS PairsMirror PairingComplete MirrorsUnshared TransferEndsMatch
PROPERTIES ClosedBooksFollowCounterpart KeepsBooks
CHECK_DEADLOCK FALSE
