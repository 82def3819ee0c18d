SPECIFICATION Spec
CONSTANTS
  r1 = r1
  r2 = r2
  LegacyDatabases <- MCLegacyDatabases
  Requests <- MCRequests
  Passwords <- MCPasswords
  Configs <- MCConfigs
  AccessTTL = 1
  RefreshTTL = 2
  MaxTime = 3
  MaxSessions = 2
  MaxStarts = 2
SYMMETRY Slots
CHECK_DEADLOCK FALSE
INVARIANTS SchemaIsRecorded MigratedData OldPasswordsOpenNothing AccessEndsWithSession
PROPERTIES RestartKeepsAccounts
