SPECIFICATION FairSpec
CONSTANTS
  r1 = r1
  r2 = r2
  NoRequest = NoRequest
  Requests = {r1, r2}
  Filenames = {"a.epub", "b.epub"}
  Operations = {"create", "edit", "cover", "update", "delete", "archive"}
  Times = {1}
  Retention = 2
  DefaultRetention = 1
  MaxAccepted = 4
  MaxFaults = 1
  MaxLapses = 0
  MaxCrashes = 1
CHECK_DEADLOCK FALSE
INVARIANTS Ledger PublishesOnItsBase HistoryIsBounded
PROPERTIES OnlyOldRowsArePruned RequestsEnd
