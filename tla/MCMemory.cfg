CONSTANTS
  ann = ann  bot = bot  acme = acme  public = public  team = team  w1 = w1  w2 = w2
  Levels = 2  Public = public
  Ids = {1, 2}  Published = {2}  Callers = {w1, w2}  Actors = {ann, bot}  Humans = {ann}
  HubGrants <- AcmeGrants  ActorClearance <- Holders  Labels <- OneLabel  HubLabels <- HighLabel
  Spaces <- Places  Contents = {"a"}  Hubs = {"here", "there"}  Self = "here"
  Traces = {"t1"}  Backends = {"jsonl", "postgres", "sqlite"}
  MaxVersion = 2  MaxStrength = 2  MaxAge = 1  MaxFaults = 1
  AgeScale = 1  ColdThreshold = 1  InitialStrength = 2  SuccessGain = 1  RatingGain = 1
  RatingDownDivisor = 2  ReviveStrength = 2  ProbationSuccesses = 1  ReplayBatch = 1
SPECIFICATION MemorySpec
SYMMETRY Symmetry
INVARIANTS CreditedOnce
PROPERTIES HistoryStands
CHECK_DEADLOCK FALSE
