SPECIFICATION FairSpec
CONSTANTS
  c1 = c1  c2 = c2
  ma00 = ma00  mfsy = mfsy
  base1 = base1  dynamic1 = dynamic1  dynamic2 = dynamic2
  Clients = {c1, c2}
  NoClient = NoClient
  Worlds = {ma00, mfsy}
  NoWorld = NoWorld
  BaseForklifts = {base1}
  DynamicForklifts = {dynamic1}
  NoVehicle = NoVehicle
  EmptyID = EmptyID
  Home <- MCHome
  ExpiringWorlds = {ma00}
  SpawnLimit <- MCSpawnLimit
  Lifetime = 1
  MaxTime = 2
INVARIANTS OwnerDrives ShownOwnerIsReal
PROPERTIES WorldStays NoEarlyRemoval DrivingIsExclusive AbandonedIsCollected BaseComesBack
