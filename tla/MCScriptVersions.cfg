SPECIFICATION Spec
CONSTANTS
  p1 = p1  p2 = p2
  greeting = greeting  farewell = farewell  broken = broken
  Scripts = {s1}
  Sources = {greeting, farewell, broken}
  Valid = {greeting, farewell}
  NoSource = NoSource
  Requests = {p1, p2}
  MaxVersions = 3
  MaxRevision = 2
SYMMETRY Symmetry
INVARIANTS ServedIsReviewed IndexesMatch
PROPERTY EditsAreSeen
