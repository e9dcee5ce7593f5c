SPECIFICATION FairSpec
CONSTANTS
  Urls <- MCUrls
  Keys <- MCKeys
  Tasks = {1, 2, 3}
  Refs <- MCRefs
  Classes <- MCClasses
  MaxCalls = 1
  MaxMoves = 1
CHECK_DEADLOCK FALSE
INVARIANTS
  OneConnection
  AnnouncedArrives
PROPERTIES
  RevocationsPass
