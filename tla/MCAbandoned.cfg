CONSTANTS
  b = b
  c = c
  w = w
  x = x
  y = y
  x0 = x0
  x1 = x1
  x2 = x2
  y0 = y0
  y1 = y1
  y2 = y2
  NoItem = NoItem
  NoAgent = NoAgent
  Items = {x, x0, x1}
  Agents = {b, c}
  Request <- AbandonedRequest
  Held <- RoutingHeld
  Humans = {}
  Adjudicators = {}
  Party <- OwnParty
  TTLs = {1}
  LeaseMaxAge = 1
  MaxChildren = 1
  MaxDepth = 3
  ClaimsKept = 2
  MaxAttempt = 1
  MaxFailures = 1
  Vehicle <- RoutingVehicle
  Grace = 1
SPECIFICATION FairRoutingSpec
PROPERTIES OffersFollowGates ParkedEnds
