SPECIFICATION RoomsSpec
CONSTANTS
  Clients = {c1, c2}
  Worlds = {ma00, mfsy}
  NoWorld = NoWorld
  MaxReports = 4
SYMMETRY Symmetry
INVARIANTS RoommatesAreTold RoomIsShown
CHECK_DEADLOCK FALSE
