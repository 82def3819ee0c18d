SPECIFICATION Spec
CONSTANTS
  r1 = r1
  r2 = r2
  NoRequest = NoRequest
  Requests = {r1, r2}
  Filenames = {"a.epub", "b.epub"}
  Operations = {"create", "edit", "cover", "restore", "archive", "open"}
  Times = {1, 3}
  Retention = 1
  DefaultRetention = 1
  MaxAccepted = 5
  MaxFaults = 0
  MaxLapses = 0
  MaxCrashes = 0
CHECK_DEADLOCK FALSE
SYMMETRY Slots
INVARIANTS PreviewsFollowTexts CurrentIsReadable HistoryIsReadable
PROPERTIES DownloadIsWhole VersionedText
