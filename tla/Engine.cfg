SPECIFICATION EngineSpec
CONSTANTS
  None = none
  Torn = torn
  Workers = {w1, w2}
  Keys = {k1, k2}
  Reports = {r1, r2, r3}
  MaxFaults = 2
  ModelWorkers = {m1}
  MaxGen = 4
  BadLimit = 3
  Interfaces = {i1, i2, i3}
  LineReports <- SomeReports
  MaxReports = 4
  MaxDecisions = 2
  ToggleWorkers = {t1, t2}
  Handler = h
  MaxEvents = 3
SYMMETRY Sym
INVARIANTS TypeOK EngineTypeOK AdamIsModels DownAtOnce SharedOut FewRoundsMore
PROPERTIES LatestSpec BackOnlyLate
CHECK_DEADLOCK FALSE
