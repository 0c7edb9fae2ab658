SPECIFICATION Spec
CONSTANTS
  w1 = w1
  w2 = w2
  t1 = t1
  t2 = t2
  t3 = t3
  t4 = t4
  o1 = o1
  r1 = r1
  a1 = a1
  Opens = {o1}
  Redirects = {}
  Bulk = bulk
  Addrs = {a1}
  NoAddr = noaddr
  Workers = {w1, w2}
  Threads = {t1, t2, t3, t4}
  Home <- Homes
  Requests <- SomeRequests
  Casts <- SomeCasts
  MaxFaults = 1
SYMMETRY Sym
INVARIANTS TypeOK SavedIsShown
CHECK_DEADLOCK FALSE
