SPECIFICATION FairSpec
CONSTANTS
  Lans = {l1}
  Callers = {a1}
  Timer = tm
  Tunnels = {"none", "mqvpn"}
PROPERTIES UnsavedIsShut AllowedIsRestored OnlyAllowOpens
