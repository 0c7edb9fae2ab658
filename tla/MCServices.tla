----------------------------- MODULE MCServices -----------------------------
(* Small instances of the modules about the services of the VPS: a behaviour  *)
(* is about XRay's port forwards, about users being added and removed, about  *)
(* one service's configuration or about the VXLAN tunnels.  The four keep     *)
(* nothing in common; a variable of another part is None, XRay's stay as they *)
(* began.                                                                     *)
EXTENDS XrayPorts, TLC

CONSTANTS
    h1, h2, p1, p2, s1, s2, a1, a2, l1,
    FewFaults,
    u1, u2, NewUsers, NewUserAsks, LastId, LastPort, MaxAdds, SomeFaults,
    ServicePorts, Settings, Wants,
    UserIds, Vnis, UdpPorts, DefaultPort, Addrs, Ulas, TunnelRequests

VARIABLES
    part,
    users, disk, pki, daemon, dirty, stray, adds,
    service, shut, met, run, ports, record, asked,
    saved, vpn, dev, six, sixin4, overlaps,
    conf, task, aside, hits

usersVars == <<users, disk, pki, daemon, dirty, stray, adds>>
serviceVars == <<service, shut, met, run, ports, record, asked>>
vxlanVars == <<saved, vpn, dev, six, sixin4, overlaps>>

Sym == Permutations(Handlers)

\* The second name begins with the first.
LongerNames == [u \in NewUsers |-> IF u = u1 THEN {u2} ELSE {}]

\* Nothing asked for; a userid or a port that may be the other user's; public
\* addresses without a port and with one.
Asking(id, port, ips) == [id |-> id, port |-> port, ips |-> ips]

SomeAdds == {Asking(None, 0, ips) : ips \in BOOLEAN}
            \cup {Asking(3, 0, FALSE), Asking(None, 1, FALSE), Asking(None, 1, TRUE)}

P == INSTANCE Provision WITH
       Users <- NewUsers, Longer <- LongerNames, Adds <- NewUserAsks, MaxFaults <- SomeFaults, job <- task, faults <- hits

\* What the theorems about the users assume holds of this instance.
ASSUME ProvisionConstants == P!ConstantsOK

\* A service is asked for another port; the ones without a port, and some others,
\* for another setting.
Portless == {"wireguard", "mlvpn", "softethervpn"}

Doc(p, s) == [port |-> p, rest |-> s]

SomeWants ==
    [s \in {"shadowsocks", "shadowsocks_go", "openvpn", "wireguard", "mlvpn", "mqvpn",
            "glorytun", "dsvpn", "softethervpn"} |->
        {Doc(p1, s1)} \cup (IF s \in Portless THEN {} ELSE {Doc(p2, s1)})
          \cup (IF s \in Portless \cup {"mqvpn", "shadowsocks"} THEN {Doc(p1, s2)} ELSE {})]

C == INSTANCE ServiceConfig WITH
       Ports <- ServicePorts, MaxFaults <- FewFaults,
       file <- conf, live <- run, open <- ports, account <- record, requests <- asked,
       job <- task, apart <- aside, faults <- hits

\* What the theorems about a service's configuration assume holds of this instance.
ASSUME ServiceConstants == C!ConstantsOK

\* The first user sends a few requests, the second one of every kind.
Ask(route, u, on, vni, port, force) ==
    [route |-> route, user |-> u, on |-> on, vni |-> vni, port |-> port, force |-> force]

Tell(u, addr, ula) == [route |-> "vpnips", user |-> u, addr |-> addr, ula |-> ula]

VxlanRequests ==
    {Tell(0, a1, None), Tell(1, a1, l1), Tell(1, a2, None)}
    \cup {Ask("vxlan", 1, on, None, port, FALSE) : on \in BOOLEAN, port \in {4789, 5000}}
    \cup {Ask("vxlan_user", 1, TRUE, None, None, FALSE), Ask("vxlan_user", 1, None, 1, None, TRUE),
          Ask("vxlan", 0, TRUE, None, None, FALSE), Ask("vxlan", 0, FALSE, None, None, FALSE)}

V == INSTANCE Vxlan WITH
       Users <- UserIds, Ports <- UdpPorts, Requests <- TunnelRequests, MaxTroubles <- FewFaults,
       file <- conf, job <- task, apart <- aside, faults <- hits

\* What the theorems about the tunnels assume holds of these requests.
ASSUME VxlanConstants == V!ConstantsOK

\* XRay: two users want the same port, as a forward or as a redirection.
Xray(kind, u, port, on) == [kind |-> kind, user |-> u, port |-> port, on |-> on]

XrayRequests ==
    {Xray(kind, u, 80, FALSE) : kind \in {"add", "del"}, u \in {"first", "second"}}
    \cup {Xray("add", "first", 81, FALSE), Xray("resync", None, 0, FALSE)}
    \cup {Xray(kind, "second", 80, FALSE) : kind \in {"redir", "unredir"}}
    \cup {Xray("set", None, 0, on) : on \in BOOLEAN}

NoUsers ==
    /\ users = None /\ disk = None /\ pki = None /\ daemon = None
    /\ dirty = None /\ stray = None /\ adds = None

NoService ==
    /\ service = None /\ shut = None /\ met = None /\ run = None
    /\ ports = None /\ record = None /\ asked = None

NoVxlan ==
    /\ saved = None /\ vpn = None /\ dev = None /\ six = None /\ sixin4 = None /\ overlaps = None

ServicesInit ==
    /\ Init
    /\ \/ /\ part = "xray" /\ NoUsers /\ NoService /\ NoVxlan
          /\ conf = None /\ task = None /\ aside = None /\ hits = None
       \/ part = "users" /\ P!Init /\ conf = None /\ aside = None /\ NoService /\ NoVxlan
       \/ part = "service" /\ C!Init /\ NoUsers /\ NoVxlan
       \/ part = "vxlan" /\ V!Init /\ NoUsers /\ NoService

ServicesNext ==
    \/ part = "xray" /\ Next
       /\ UNCHANGED <<part, usersVars, serviceVars, vxlanVars, conf, task, aside, hits>>
    \/ part = "users" /\ P!Next /\ UNCHANGED <<part, vars, serviceVars, vxlanVars, conf, aside>>
    \/ part = "service" /\ C!Next /\ UNCHANGED <<part, vars, usersVars, vxlanVars>>
    \/ part = "vxlan" /\ V!Next /\ UNCHANGED <<part, vars, usersVars, serviceVars>>

ServicesSpec ==
    ServicesInit
    /\ [][ServicesNext]_<<part, vars, usersVars, serviceVars, vxlanVars, conf, task, aside, hits>>

----------------------------------------------------------------------------
(* The properties of Provision, ServiceConfig and Vxlan *)

ServicesTypeOK ==
    /\ TypeOK
    /\ part = "users" => P!TypeOK
    /\ part = "service" => C!TypeOK
    /\ part = "vxlan" => V!TypeOK

NamesAgree == part = "users" => P!NamesAgree

KeysAgree == part = "users" => P!KeysAgree

RunsItsFiles == part = "service" => C!RunsItsFiles

ListensOpen == part = "service" => C!ListensOpen

SavedIsRun == part = "service" => C!SavedIsRun

PairsDiffer == part = "vxlan" => V!PairsDiffer

DeviceShows == part = "vxlan" => V!DeviceShows
=============================================================================
