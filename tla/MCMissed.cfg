CONSTANTS
  r1 = r1  p1 = p1  w1 = w1  w2 = w2  x1 = x1  x2 = x2  j1 = j1
  j2 = j2  a1 = a1  a2 = a2  src = src  lib = lib  ui = ui  dot = dot
  up = up  none = none  e1 = e1  e2 = e2  k1 = k1  c1 = c1  c2 = c2
  a0 = a0  y1 = y1  y2 = y2  o1 = o1  o2 = o2  g1 = g1  g2 = g2
  run = run  s1 = s1  s2 = s2  s3 = s3  h1 = h1  h2 = h2
  Parts = {"following"}
  Backends = {"sqlite"}
  Readers = {r1}  Pruners = {p1}
  Events <- FeedEvents  Windows = {2}  PageSize = 2  MaxSeq = 3
  Walled = {"memory"}  Cleared = {}
  Scoped = {"digest"}  Children = {}
  Transport = {}  KeyKinds = {"key"}
  Passes = {w1}  Notified = {"gate"}  MaxFaults = 1
  Artifacts = {x1, x2}  Refused = {}  Snaps = {1, 2}  UriOf <- SnapUri
  Jobs = {j1}  Posting = {j1}  Looking = {}
  MaxVersion = 2  MaxTrouble = 1
  Actors = {a1, a2}  Repos = {"repo"}  Leases = {1, 2}  Requests <- PathSets
  Dot = dot  DotDot = up  Empty = none
  Envelopes = {e1, e2}  Keys = {k1}  Carriers = {c1, c2}
  KeyOf <- EnvKey  NonceOf <- EnvNonce  Approves <- EnvApproves
  Fresh = 0  Grace = 1  Skew = 1  MaxTime = 2  MaxCuts = 1
  Procs = {a0}  Syncs = {y1}  MaxEdits = 2  MaxDeaths = 1
  Openers = {o1, o2}  Newest = 4  Columns = {2, 4}  Upgrade = 3  Knows <- Releases
  Legacy = {g1, g2}  Unreadable = {g2}  MaxKills = 1
  Items = {run, s1, s2}  ItemParent <- StepsOf  NoParent = none  Runs = {run}
  Standing = {run, s1}  Hands = {h1, h2}  MaxLosses = 1
  Calls = {1, 2, 3}  Publishing = {1}  Summers = {1, 2}  MaxQuits = 1
SPECIFICATION FairRegistrySpec
PROPERTIES MissIsClosed
CHECK_DEADLOCK FALSE
