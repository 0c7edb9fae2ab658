SPECIFICATION Spec
CONSTANTS
  Lans = {l1}
  Callers = {a1}
  Timer = tm
  Tunnels = {"none", "plain", "mqvpn"}
INVARIANTS FailureShutsGate
