CONSTANTS
  p = p
  q = q
  A = A
  B = B
  s2 = s2
  adm = adm
  NoActor = NoActor
  Hub = Hub
  Steps = {s2}
  Gated = {s2}
  Actors = {p, q}
  Stores = {A, B}
  SpeaksFor <- TwoStores
  Filer = A
  Binding <- BoundToP
  Admins = {adm}
  MaxEpoch = 3
  MaxAttempt = 3
  MaxFailures = 1
SPECIFICATION OwnershipSpec
INVARIANTS StepsAreFreed
PROPERTIES TransfersAreKept AnswersAreTheOwners
CHECK_DEADLOCK FALSE
