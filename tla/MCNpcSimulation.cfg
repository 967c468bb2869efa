SPECIFICATION NpcSpec
CONSTANTS
  NNpcs = 2
  Player = player
  Nobody = nobody
  DayLength = 5
  ClearHysteresis = 1
  NpcPatience = 2
  EncounterReset = 3
  AvoidancePatience = 4
  OffsetDistance = 1
  MaxTime = 6
  MaxSets = 1
  MaxStops = 1
  Followed = {2}
  Settings <- MCSettings
INVARIANT DelayIsLived NoLongWait
CHECK_DEADLOCK FALSE
