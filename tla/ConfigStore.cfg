SPECIFICATION Spec
CONSTANTS
  p = p
  a = a
  u1 = u1
  u2 = u2
  n1 = n1
  s1 = s1
  s2 = s2
  t1 = t1
  t2 = t2
  t3 = t3
  Unset = Unset
  Primary = p
  Admin = a
  Names = {p, a, u1, u2}
  Notes = {n1}
  Serials = {s1, s2}
  Requests <- SomeRequests
  MaxId = 4
  MaxErr = 1
  Threads = {t1, t2}
SYMMETRY Sym
INVARIANTS TypeOK WholeUnlessExposed IdsStayUnique PrimaryStays
PROPERTIES BrokenIsKept StoreSpec
CHECK_DEADLOCK FALSE
