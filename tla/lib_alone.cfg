SPECIFICATION Spec
CONSTANTS
  r1 = r1
  r2 = r2
  NoRequest = NoRequest
  Requests = {r1}
  Filenames = {"a.epub", "b.epub"}
  Operations = {"create", "edit", "cover", "restore", "update", "delete", "archive", "open"}
  Times = {1}
  Retention = 1
  DefaultRetention = 2
  MaxAccepted = 5
  MaxFaults = 2
  MaxLapses = 1
  MaxCrashes = 0
CHECK_DEADLOCK FALSE
INVARIANTS PreviewsAreKept NoOrphans RestIsReadable
