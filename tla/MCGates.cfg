CONSTANTS
  a = a
  b = b
  c = c
  v = v
  w = w
  x = x
  y = y
  z = z
  NoItem = NoItem
  NoAgent = NoAgent
  Items = {v, w, x, y, z}
  Agents = {a, b, c}
  Request <- GateRequest
  Held <- WorkersHeld
  Humans = {a}
  Adjudicators = {}
  Party <- PartyOfA
  TTLs = {2}
  LeaseMaxAge = 2
  MaxChildren = 1
  MaxDepth = 3
  ClaimsKept = 2
  MaxAttempt = 3
  MaxFailures = 2
SPECIFICATION FairSpec
INVARIANTS  LadderClimbedAfresh VerdictFromOutside
PROPERTIES   HoldingsEnd
