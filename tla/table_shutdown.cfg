SPECIFICATION TabSpec
CONSTANTS
  Names = {"a", "b"}
  Joined = {"b"}
  Followers = {"b"}
  Slots = {1, 2}
  MaxIds = 3
  MaxObjects = 3
  MaxBoots = 1
  MaxRequests = 4
PROPERTY ShutdownKeepsDump
CHECK_DEADLOCK FALSE
