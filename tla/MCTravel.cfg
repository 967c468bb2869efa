SPECIFICATION Spec
CONSTANTS
  c1 = c1
  street = street  shop = shop  cellar = cellar  house = house
  shopDoor = shopDoor  cellarDoor = cellarDoor  houseDoor = houseDoor
  near = near  far = far
  q1 = q1  q2 = q2  a1 = a1  a2 = a2
  Clients = {c1}
  Worlds = {street, shop, cellar, house}
  NoWorld = NoWorld
  Positions = {near, far}
  Rules = {shopDoor, cellarDoor, houseDoor}
  Source <- MCSource
  Destination <- MCDestination
  InRange <- MCInRange
  AlwaysAccessible = {house}
  Day = 2
  DayBoundary <- MCDayBoundary
  Opens <- MCOpens
  Closes <- MCCloses
  Lifetime <- MCLifetime
  RequestIDs = {q1, q2}
  Authorizations = {a1, a2}
  NoRule = NoRule
  NoID = NoID
  NoPosition = NoPosition
  MaxTime = 2
SYMMETRY Symmetry
INVARIANTS EntriesAreAuthorized ArrivalIsOnTheWay ClosedLeavesNothing
PROPERTIES NotPutBack
