CONSTANTS
  p1 = p1  p2 = p2  s1 = s1  s2 = s2  bad1 = bad1  bad2 = bad2  good = good
  run = run  upstream = upstream
  Authored <- ThreeOrBoth  Pinned <- Two  Parts = {"authoring"}
  Asops = {p1, p2}  Taught = p1  Steps = {s1, s2}  Lessons = {bad1, bad2, good}  StepOf <- LearnedAt
  Good = {good}  Bodies <- Written  Writers = {"ann", "bot"}  Persons = {"ann", "bob"}  Passes = {"bot"}
  MaxMistakes = 1  Backends <- Postgres  MaxVersion <- Numbered  MaxTears = 0  MaxDeaths = 0
  Engines = {"engine"}  MaxAdoptions = 2  MaxManifests = 2
  Nodes = {1, 2, 3, 4, 5}  Run = run  ParentOf <- Places  After <- Order  Blockers = {upstream}
SPECIFICATION ProceduresSpec
PROPERTY VersionsStand
CHECK_DEADLOCK FALSE
