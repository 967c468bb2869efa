SPECIFICATION FairSpec
CONSTANTS
  c1 = c1  c2 = c2
  ma00 = ma00  elsewhere = elsewhere
  job1 = job1  job4 = job4  job5 = job5
  spawn1 = spawn1
  Clients = {c1, c2}
  NoClient = NoClient
  Worlds = {ma00, elsewhere}
  NoWorld = NoWorld
  BaseCrates = {job1}
  MoreCrates = {job4, job5}
  Spawns = {spawn1}
  NoSpawn = NoSpawn
  SpawnOf <- MCSpawnOf
  SpawnWorld <- MCSpawnWorld
  ClaimRelease = 1
  AutoRight = 1
  Replenish = 1
  CleanupAge = 1
  Threshold = 1
  MaxTime = 2
INVARIANTS ContactKeepsClaim SpawnHasOneCrate
PROPERTIES GraceIsKept OrphanIsFreed TakenIsReplaced
