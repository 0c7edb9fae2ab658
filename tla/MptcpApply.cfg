SPECIFICATION Spec
CONSTANTS
  v1 = v1
  v2 = v2
  h1 = h1
  h2 = h2
  w1 = w1
  N = 5
  Params = {4}
  Optional = {3}
  Values = {v1, v2}
  Old = old
  Current = v1
  None = none
  Handlers = {h1, h2}
  Workers = {w1}
  Requests <- SomeRequests
  MaxFaults = 2
  Casts <- SomeCasts
  Boots <- SomeBoots
SYMMETRY Sym
INVARIANTS TypeOK ErrorRestores DoneApplies SavedIsLive
PROPERTY AppliesAtomically
