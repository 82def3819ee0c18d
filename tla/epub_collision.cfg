SPECIFICATION Spec
CONSTANTS
  Uploads <- CollidingUploads
  Titles <- MCTitles
  DollarTitles <- MCDollarTitles
  Sources <- MCSources
  Pictures <- MCPictures
  MaxEntries = 7
  MaxEdits = 3
CHECK_DEADLOCK FALSE
PROPERTY NewChaptersAreCollisionSafe
