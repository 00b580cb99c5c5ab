SPECIFICATION FairRoomSpec
CONSTANTS
  settings = settings sync = sync list = list w1 = w1 room = room
  Tables = {settings, sync}
  Queries = {list}
  Reads <- ReadsSettings
  Writers = {w1, room}
  MaxWrites = 1
  MaxUpdates = 2
  MaxStarts = 2
INVARIANTS
  StaleIsAnnounced
PROPERTIES
  DetailsAreShown
CHECK_DEADLOCK FALSE
