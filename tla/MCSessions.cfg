SPECIFICATION FairSpec
CONSTANTS
  a1 = a1  a2 = a2  a3 = a3
  ryo = ryo
  Clients = {a1, a2, a3}
  Characters = {ryo}
  Guest = Guest
  Character <- MCCharacter
  NoClient = NoClient
  MaxClients = 1
INVARIANTS LatestIsActive SupersededIsTold
PROPERTY OneConnectionPerCharacter
CHECK_DEADLOCK FALSE
