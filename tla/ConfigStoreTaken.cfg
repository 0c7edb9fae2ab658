SPECIFICATION Spec
CONSTANTS
  p = p
  a = a
  u1 = u1
  u2 = u2
  n1 = n1
  s1 = s1
  s2 = s2
  t1 = t1
  t2 = t2
  t3 = t3
  Unset = Unset
  Primary = p
  Admin = a
  Names = {p, a, u1, u2}
  Notes = {n1}
  Serials = {s1, s2}
  Requests <- TakenNameRequests
  MaxId = 4
  MaxErr = 1
  Threads = {t1, t2}
INVARIANTS PrimaryStays
CHECK_DEADLOCK FALSE
