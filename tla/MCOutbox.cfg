CONSTANTS
  k = k
  m = m
  f = f
  d = d
  e = e
  Lines = {k, m}
  Fragments = {f}
  Raw = {m}
  Keyed = {k}
  Drainers = {d, e}
  MaxFaults = 2
SPECIFICATION FairOutboxSpec
INVARIANTS NothingPushedVanishes  EffectsAreExcused
 
CHECK_DEADLOCK FALSE
