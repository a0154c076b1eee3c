SPECIFICATION MCSpec
CONSTANTS
  i1 = i1  i2 = i2  a1 = a1  a2 = a2  r1 = r1  l1 = l1  l2 = l2
  Client = {c1, c2}
  Import = {i1, i2}
  Account = {a1, a2}
  Target <- Targets
  Entered <- EnteredBefore
  Row = {r1}
  Label = {l1, l2}
  MaxCorrections = 1
  Choice <- AskedChoices
  MaxOperation = 3
  MaxPreview = 2
  MaxEdits = 1
  MaxFaults = 2
  Labels = {"none", "k1"}
  NoEdit = "none"
  Picked = {"transfer", "other"}
  Suggested = "other"
  Matches <- MayMatch
  MaxRuns = 2
  NULL = NULL
INVARIANTS LockIsOwned CorrectionsWithinQuota OutcomeIsRecorded ConfirmsWhatIsShown
PROPERTIES RecordedOnce NoDuplicateEntry
SYMMETRY Symmetry
CHECK_DEADLOCK FALSE
