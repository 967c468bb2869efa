SPECIFICATION ChatFairSpec
CONSTANTS
  NClients = 2
  Discord = 0
  NoHistory = NoHistory
  MaxMessages = 2
  LastTime = 2
  HistoryLimit = 1
  MinuteLimit = 2
  MinuteWindow = 2
  BurstLimit = 1
  BurstWindow = 1
  QueueSize = 1
  Attempts = 2
INVARIANTS HistoryMeetsLive SendersAreInOrder
PROPERTY EverythingEnds
CHECK_DEADLOCK FALSE
