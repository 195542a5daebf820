CONSTANTS
  a = a
  b = b
  c = c
  v = v
  w = w
  x = x
  y = y
  z = z
  NoItem = NoItem
  NoAgent = NoAgent
  Items = {v, w, x, y, z}
  Agents = {a, b}
  Request <- TreeRequest
  Held <- NothingHeld
  Humans = {}
  Adjudicators = {}
  Party <- OwnParty
  TTLs = {1}
  LeaseMaxAge = 1
  MaxChildren = 7
  MaxDepth = 3
  ClaimsKept = 2
  MaxAttempt = 1
  MaxFailures = 0
SPECIFICATION Spec
PROPERTIES
  NothingStartsEarly
  ContainersFollowSteps
SYMMETRY AnyAgent
