SPECIFICATION MCSpec
CONSTANTS
  Member = {"m1", "m2"}
  Client = {c1, c2}
  ClientOf <- OneMember
  PoolSize = 3
  Quota <- SmallQuotas
  Email = {"e1", "e2", "e3"}
  FirstEmail <- FirstAddresses
  ATTEMPTS = 1
  MaxRequests = 3
  Request = {"r1", "r2"}
  Key = {"ip"}
  Dimensions <- OneKey
  Points <- OnePoint
  Duration = 2
  STRIKE_RESET = 3
  MAX_BLOCK = 4
  MaxUploads = 4
  MAX_PENDING_IMPORTS = 2
  Rule <- Rules
  Day <- Days
  Ceiling = 3
  Far <- FarDay
  FileRow <- FileRows
  Recordable <- RecordedRows
  NewName = "cafe"
  MaxRows = 2
  MaxRecorded = 2
  MaxImports = 1
  Id = {1, 2, 3}
  Entry <- Entries
  Account = {"current", "savings", "dollars"}
  CurrencyOf <- Currencies
  Report <- Reports
  Window <- Windows
  MAX_PERIODS = 3
  MaxWrites = 1
  MaxFaults = 1
  NULL = NULL
  ALL = ALL
  Other = Other
INVARIANTS
  WithinQuota
  NoDrift
  EachTakenOnce ReferencesComeFirst ImportedOnce
  AddressesUnique
  StrikesAreForgotten
  UploadsLimited
PROPERTIES
  CreationsEnd
  NextIsMade BacklogIsCounted
  ChartEndsAtBalance DistributionAddsUp
  LockoutsCutByOvertaken
  LatestChangeWins RegistrationsAnswered
CHECK_DEADLOCK FALSE
