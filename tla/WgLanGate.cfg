SPECIFICATION Spec
CONSTANTS
  Lans = {l1, l2}
  Callers = {a1}
  Timer = tm
  Tunnels = {"none", "plain", "mqvpn"}
SYMMETRY Sym
INVARIANTS TypeOK OpenIsSaved Settled
PROPERTIES PublishedIsReady
