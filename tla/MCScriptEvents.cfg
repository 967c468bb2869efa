SPECIFICATION Spec
CONSTANTS
  c1 = c1  c2 = c2
  gate = gate  story = story
  Conns = {c1, c2}
  Versions = {gate, story}
  Priority <- MCPriority
  NoVersion = NoVersion
  InitYen = 1
  Lease = 1
  MaxRuns = 2
  MaxEffects = 1
  MaxTime = 1
  MaxCrashes = 1
SYMMETRY Symmetry
INVARIANTS EffectsOnce StoryIsFresh SessionIsOwned
CHECK_DEADLOCK FALSE
