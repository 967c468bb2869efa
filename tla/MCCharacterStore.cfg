SPECIFICATION FairSpec
CONSTANTS
  NCalls = 3
  Ops <- MCOps
  Items <- MCItems
  MaxStack <- MCMaxStack
  MaxHP <- MCMaxHP
  Start <- MCStart
INVARIANT LedgerAgrees ChargedOnce SavesAreKept
PROPERTY EveryCallEnds
CHECK_DEADLOCK FALSE
