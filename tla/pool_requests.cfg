SPECIFICATION FairSpec
CONSTANTS
  Slots = {s1, s2}
  Nobody = Nobody
  MaxRows = 2
INVARIANTS HolderNeverWaits EndedHoldNothing NothingWithoutUser
PROPERTIES EveryRequestEnds
