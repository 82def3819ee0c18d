SPECIFICATION Spec
CONSTANTS
  Uploads <- MCUploads
  Titles <- MCTitles
  DollarTitles <- MCDollarTitles
  Sources <- MCSources
  Pictures <- MCPictures
  MaxEntries = 7
  MaxEdits = 3
CHECK_DEADLOCK FALSE
INVARIANTS TypeOK PreviewMatchesPackage
PROPERTIES RowMirrorsThePackage EditsReadBack OthersKeepTheirText ChaptersFollowTheEdit RefusedEditsAreUndone NavigationFollowsTitles
