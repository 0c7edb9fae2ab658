-------------------------------- MODULE Vxlan --------------------------------
(***************************************************************************)
(* Per-user VXLAN and 6in4 tunnels.  A request of a router or of the       *)
(* administrator is checked against one reading of the configuration,      *)
(* saved, and rendered from later readings; POST /vpnips, which learns     *)
(* the addresses of the VPN the tunnels run over, renders them too.  The   *)
(* kernel refuses a second device with the VNI and the port of another.    *)
(* A unit is restarted only if its file has changed, and whether it        *)
(* started is not looked at.                                               *)
(*                                                                         *)
(* Mode, MTU, the tunnels' own addresses and the option that turns 6in4    *)
(* off are left out.                                                       *)
(***************************************************************************)
EXTENDS Naturals, FiniteSets

CONSTANTS
    Handlers,     \* threads serving requests, of all workers
    Users,        \* by userid
    None,
    Vnis, Ports,
    DefaultPort,  \* 4789
    Addrs,        \* addresses that a VPN gives its two ends
    Ulas,         \* prefixes that a router may announce with them
    Requests,     \* what is sent: route, user, and on, vni, port, force, or addr, ula
    MaxTroubles   \* bound on requests that begin while another is served, on
                  \* cut-offs and on failing units, together

VARIABLES
    saved,    \* user -> its `vxlan' in omr-admin-config.json, or None
    vpn,      \* user -> what is saved of the two addresses of its VPN and its ULA
    file,     \* user -> its file in omr-vxlan/, or None
    dev,      \* user -> its VXLAN device in the kernel, or None
    six,      \* user -> its file in omr-6in4/, or None
    sixin4,   \* user -> what its 6in4 tunnel runs with, or None
    job,      \* job[h]: the request of a handler
    apart,    \* <<user, tunnel>>: those that a fault or an overlap may have set apart
    overlaps, \* requests that have begun while another was served
    faults

vars == <<saved, vpn, file, dev, six, sixin4, job, apart, overlaps, faults>>

HalfWritten == [torn |-> TRUE]

Configs == [on : BOOLEAN, vni : Vnis, port : Ports]

Devices == [vni : Vnis, port : Ports, addr : Addrs]

Sixin4s == [addr : Addrs, ula : Ulas \cup {None}]

VpnData == {"remote", "local", "ula"}

\* The order they are saved in.
Rank == [remote |-> 1, local |-> 2, ula |-> 3]

Tunnels == {"vxlan", "sixin4"}

\* The requests, and the defaults of a user, are about VNIs, ports and addresses.
ConstantsOK ==
    /\ MaxTroubles \in Nat
    /\ Users \subseteq Nat /\ (\A u \in Users : u + 1 \in Vnis) /\ DefaultPort \in Ports
    /\ None \notin Addrs \cup Ulas \cup Configs \cup Devices \cup Sixin4s \cup {HalfWritten}
    /\ \A r \in Requests :
         /\ r.user \in Users
         /\ \/ r.route = "vpnips" /\ r.addr \in Addrs /\ r.ula \in Ulas \cup {None}
            \/ /\ r.route \in {"vxlan", "vxlan_user"} /\ r.on \in BOOLEAN \cup {None}
               /\ r.vni \in Vnis \cup {None} /\ r.port \in Ports \cup {None}

Idle == [at |-> "idle", req |-> None, cfg |-> None, todo |-> {}, had |-> FALSE, alone |-> FALSE]

Steps == {"merge", "check", "save", "read", "learn", "six", "up",
          "conf", "write", "start", "stop", "remove"}

TypeOK ==
    /\ saved \in [Users -> Configs \cup {None}]
    /\ vpn \in [Users -> [remote : Addrs \cup {None}, local : Addrs \cup {None},
                          ula : Ulas \cup {None}]]
    /\ file \in [Users -> Devices \cup {None, HalfWritten}]
    /\ dev \in [Users -> Devices \cup {None}]
    /\ six \in [Users -> Sixin4s \cup {None, HalfWritten}]
    /\ sixin4 \in [Users -> Sixin4s \cup {None}]
    /\ job \in [Handlers -> [at : Steps, req : Requests, cfg : Configs \cup {None},
                             todo : SUBSET VpnData, had : BOOLEAN, alone : BOOLEAN] \cup {Idle}]
    /\ apart \in SUBSET (Users \X Tunnels)
    /\ overlaps \in 0..MaxTroubles
    /\ faults \in 0..MaxTroubles

Init ==
    /\ saved = [u \in Users |-> None]
    /\ vpn = [u \in Users |-> [remote |-> None, local |-> None, ula |-> None]]
    /\ file = [u \in Users |-> None]
    /\ dev = [u \in Users |-> None]
    /\ six = [u \in Users |-> None]
    /\ sixin4 = [u \in Users |-> None]
    /\ job = [h \in Handlers |-> Idle]
    /\ apart = {}
    /\ overlaps = 0
    /\ faults = 0

----------------------------------------------------------------------------

get_vxlan_config(u) ==
    IF saved[u] = None THEN [on |-> FALSE, vni |-> u + 1, port |-> DefaultPort] ELSE saved[u]

Given(x, otherwise) == IF x = None THEN otherwise ELSE x

_merge_vxlan_config(r) ==
    LET c == get_vxlan_config(r.user) IN
      [on |-> Given(r.on, c.on), vni |-> Given(r.vni, c.vni), port |-> Given(r.port, c.port)]

SameVni(u, c) == {v \in Users \ {u} : get_vxlan_config(v).vni = c.vni}

SamePort(u, c) == {v \in SameVni(u, c) : get_vxlan_config(v).port = c.port}

\* A faulty check: a user that is enabled without a new VNI or port is not checked.
RefusedUnassigned(r, c) ==
    LET clash == SamePort(r.user, c) # {}
        assigning == r.vni # None \/ r.port # None
    IN  IF r.route = "vxlan" THEN clash /\ c.on
        ELSE \/ clash /\ assigning
             \/ SameVni(r.user, c) \ SamePort(r.user, c) # {} /\ r.vni # None /\ ~r.force

\* The router's own request is checked when it enables; the administrator's also
\* when it assigns, and it must say that it means to share a VNI.
Refused(r, c) ==
    LET clash == SamePort(r.user, c) # {}
        assigning == r.vni # None \/ r.port # None
    IN  IF r.route = "vxlan" THEN clash /\ c.on
        ELSE \/ clash /\ (assigning \/ c.on)
             \/ SameVni(r.user, c) \ SamePort(r.user, c) # {} /\ r.vni # None /\ ~r.force

----------------------------------------------------------------------------

User(h) == job[h].req.user

\* Requests have overlapped, or one was cut off.
Crossed == overlaps > 0 \/ faults > 0

Busy(h) == job[h] # Idle

Goto(h, step) == job' = [job EXCEPT ![h].at = step]

End(h) == job' = [job EXCEPT ![h] = Idle]

\* Requests under way for the same user are no longer alone.
Begin(h, r) ==
    /\ ~Busy(h)
    /\ LET others == {g \in Handlers : Busy(g)}
           same == {g \in others : User(g) = r.user}
       IN  /\ overlaps' = IF others = {} THEN overlaps ELSE overlaps + 1
           /\ overlaps' + faults <= MaxTroubles
           /\ apart' = IF same # {} THEN apart \cup ({r.user} \X Tunnels) ELSE apart
           /\ job' = [g \in Handlers |->
                        IF g = h THEN [Idle EXCEPT !.at = IF r.route = "vpnips" THEN "read" ELSE "merge",
                                                   !.req = r, !.alone = same = {}]
                        ELSE IF g \in same THEN [job[g] EXCEPT !.alone = FALSE]
                        ELSE job[g]]
    /\ UNCHANGED <<saved, vpn, file, dev, six, sixin4, faults>>

Merge(h) ==
    /\ job[h].at = "merge"
    /\ job' = [job EXCEPT ![h].at = "check", ![h].cfg = _merge_vxlan_config(job[h].req)]
    /\ UNCHANGED <<saved, vpn, file, dev, six, sixin4, apart, overlaps, faults>>

Check(h) ==
    /\ job[h].at = "check"
    /\ IF Refused(job[h].req, job[h].cfg) THEN End(h) ELSE Goto(h, "save")
    /\ UNCHANGED <<saved, vpn, file, dev, six, sixin4, apart, overlaps, faults>>

Save(h) ==
    /\ job[h].at = "save"
    /\ saved' = [saved EXCEPT ![User(h)] = job[h].cfg]
    /\ job' = [job EXCEPT ![h].at = "conf", ![h].cfg = None]
    /\ UNCHANGED <<vpn, file, dev, six, sixin4, apart, overlaps, faults>>

----------------------------------------------------------------------------
(* POST /vpnips *)

\* What the request would change of what is saved.
Differing(r) ==
    LET v == vpn[r.user] IN
      {d \in {"remote"} : v.remote # r.addr} \cup {d \in {"local"} : v.local # r.addr}
        \cup {d \in {"ula"} : r.ula \notin {None, v.ula}}

\* What is to be saved, and whether the user has a VXLAN configuration, is
\* remembered from here.  A router that announces nothing new is sent away.
ReadAll(h) ==
    /\ job[h].at = "read"
    /\ LET r == job[h].req IN
         IF Differing(r) = {} /\ r.ula # None THEN End(h)
         ELSE job' = [job EXCEPT ![h].at = IF Differing(r) = {} THEN "six" ELSE "learn",
                                 ![h].todo = Differing(r),
                                 ![h].had = saved[User(h)] # None]
    /\ UNCHANGED <<saved, vpn, file, dev, six, sixin4, apart, overlaps, faults>>

\* One saving after the other, of what differed when ReadAll looked.
SaveVpn(h) ==
    /\ job[h].at = "learn"
    /\ LET d == CHOOSE x \in job[h].todo : \A y \in job[h].todo : Rank[x] <= Rank[y] IN
         /\ vpn' = [vpn EXCEPT ![User(h)][d] = IF d = "ula" THEN job[h].req.ula ELSE job[h].req.addr]
         /\ job' = [job EXCEPT ![h].at = IF job[h].todo = {d} THEN "six" ELSE "learn", ![h].todo = @ \ {d}]
    /\ UNCHANGED <<saved, file, dev, six, sixin4, apart, overlaps, faults>>

OnToVxlan(h) == IF job[h].had THEN Goto(h, "conf") ELSE End(h)

\* The file has what the request says, a ULA too only if it says one.
WriteSixin4(h) ==
    /\ job[h].at = "six"
    /\ LET f == [addr |-> job[h].req.addr, ula |-> job[h].req.ula] IN
         /\ six' = [six EXCEPT ![User(h)] = f]
         /\ IF f # six[User(h)] THEN Goto(h, "up") ELSE OnToVxlan(h)
    /\ UNCHANGED <<saved, vpn, file, dev, sixin4, apart, overlaps, faults>>

\* The unit is restarted; its script fails on half a file.
RestartSixin4(h) ==
    /\ job[h].at = "up"
    /\ LET u == User(h) IN
         /\ sixin4' = [sixin4 EXCEPT ![u] = IF six[u] = HalfWritten THEN None ELSE six[u]]
         /\ apart' = IF job[h].alone THEN apart \ {<<u, "sixin4">>} ELSE apart
    /\ OnToVxlan(h)
    /\ UNCHANGED <<saved, vpn, file, dev, six, overlaps, faults>>

----------------------------------------------------------------------------
(* write_vxlan_conf *)

\* A faulty ReadConf: the file of a disabled user goes before its unit is stopped.
ReadConfUnstopped(h) ==
    /\ job[h].at = "conf"
    /\ LET c == get_vxlan_config(User(h)) IN
         IF c.on THEN job' = [job EXCEPT ![h].at = "write", ![h].cfg = c]
         ELSE IF file[User(h)] # None THEN Goto(h, "remove")
         ELSE End(h)
    /\ UNCHANGED <<saved, vpn, file, dev, six, sixin4, apart, overlaps, faults>>

ReadConf(h) ==
    /\ job[h].at = "conf"
    /\ LET c == get_vxlan_config(User(h)) IN
         IF c.on THEN job' = [job EXCEPT ![h].at = "write", ![h].cfg = c]
         ELSE IF file[User(h)] # None THEN Goto(h, "stop")
         ELSE End(h)
    /\ UNCHANGED <<saved, vpn, file, dev, six, sixin4, apart, overlaps, faults>>

Known(u) == vpn[u].remote # None /\ vpn[u].local # None

Rendered(u, c) == [vni |-> c.vni, port |-> c.port, addr |-> vpn[u].remote]

WriteConf(h) ==
    /\ job[h].at = "write"
    /\ LET u == User(h) IN
         IF Known(u)
         THEN LET f == Rendered(u, job[h].cfg) IN
                /\ file' = [file EXCEPT ![u] = f]
                /\ IF f # file[u] THEN job' = [job EXCEPT ![h].at = "start", ![h].cfg = None] ELSE End(h)
         ELSE End(h) /\ UNCHANGED file
    /\ UNCHANGED <<saved, vpn, dev, six, sixin4, apart, overlaps, faults>>

\* The unit's script: without a file it does nothing.
Taken(u, f) == \E v \in Users \ {u} : dev[v] # None /\ dev[v].vni = f.vni /\ dev[v].port = f.port

\* A refusal counts as a fault's consequence only after one or an overlap.
StartUnit(h) ==
    /\ job[h].at = "start"
    /\ LET u == User(h)
           f == file[u]
       IN  /\ dev' = IF f = None THEN dev
                     ELSE [dev EXCEPT ![u] = IF f = HalfWritten \/ Taken(u, f) THEN None ELSE f]
           /\ apart' = IF dev'[u] # f THEN (IF Crossed THEN apart \cup {<<u, "vxlan">>} ELSE apart)
                       ELSE IF job[h].alone THEN apart \ {<<u, "vxlan">>} ELSE apart
    /\ End(h)
    /\ UNCHANGED <<saved, vpn, file, six, sixin4, overlaps, faults>>

StopUnit(h) ==
    /\ job[h].at = "stop"
    /\ dev' = IF file[User(h)] = None THEN dev ELSE [dev EXCEPT ![User(h)] = None]
    /\ Goto(h, "remove")
    /\ UNCHANGED <<saved, vpn, file, six, sixin4, apart, overlaps, faults>>

RemoveConf(h) ==
    /\ job[h].at = "remove"
    /\ file' = [file EXCEPT ![User(h)] = None]
    /\ apart' = IF job[h].alone /\ dev[User(h)] = None THEN apart \ {<<User(h), "vxlan">>} ELSE apart
    /\ End(h)
    /\ UNCHANGED <<saved, vpn, dev, six, sixin4, overlaps, faults>>

\* A unit fails, or times out, before or after it has taken down what there was;
\* the request goes on.
UnitFails(h) ==
    /\ faults + overlaps < MaxTroubles
    /\ faults' = faults + 1
    /\ LET u == User(h) IN
         \/ /\ job[h].at = "up"
            /\ sixin4' \in {sixin4, [sixin4 EXCEPT ![u] = None]}
            /\ apart' = apart \cup {<<u, "sixin4">>}
            /\ OnToVxlan(h) /\ UNCHANGED dev
         \/ /\ job[h].at = "start"
            /\ dev' \in {dev, [dev EXCEPT ![u] = None]}
            /\ apart' = apart \cup {<<u, "vxlan">>}
            /\ End(h) /\ UNCHANGED sixin4
         \/ /\ job[h].at = "stop"
            /\ apart' = apart \cup {<<u, "vxlan">>}
            /\ Goto(h, "remove") /\ UNCHANGED <<dev, sixin4>>
    /\ UNCHANGED <<saved, vpn, file, six, overlaps>>

\* Killed, or an exception; the files are written in place.
CutOff(h) ==
    /\ Busy(h)
    /\ faults + overlaps < MaxTroubles
    /\ faults' = faults + 1
    /\ file' \in {file} \cup (IF job[h].at = "write" /\ Known(User(h))
                              THEN {[file EXCEPT ![User(h)] = HalfWritten]} ELSE {})
    /\ six' \in {six} \cup (IF job[h].at = "six" THEN {[six EXCEPT ![User(h)] = HalfWritten]} ELSE {})
    /\ apart' = apart \cup ({User(h)} \X Tunnels)
    /\ End(h)
    /\ UNCHANGED <<saved, vpn, dev, sixin4, overlaps>>

Next ==
    \E h \in Handlers :
        \/ \E r \in Requests : Begin(h, r)
        \/ Merge(h) \/ Check(h) \/ Save(h)
        \/ ReadAll(h) \/ SaveVpn(h)
        \/ WriteSixin4(h) \/ RestartSixin4(h)
        \/ ReadConf(h) \/ WriteConf(h) \/ StartUnit(h) \/ StopUnit(h) \/ RemoveConf(h)
        \/ UnitFails(h) \/ CutOff(h)

Spec == Init /\ [][Next]_vars

----------------------------------------------------------------------------
(* Properties *)

\* While requests are served one after the other, whatever they ask, no two
\* enabled users have the same VNI and port, which the kernel refuses: also the
\* users who are disabled, and checked less, do not get there by several steps.
PairsDiffer ==
    ~Crossed => \A u, v \in Users :
        LET c == get_vxlan_config(u)
            d == get_vxlan_config(v)
        IN  u # v /\ c.on /\ d.on => <<c.vni, c.port>> # <<d.vni, d.port>>

Wanted(u) ==
    IF get_vxlan_config(u).on /\ Known(u) THEN Rendered(u, get_vxlan_config(u)) ELSE None

AddrOf(f) == IF f = None THEN None ELSE f.addr

\* Between a user's requests its device is what the configuration says, over the
\* VPN addresses learned last, and gone when it is disabled; and its 6in4 tunnel
\* runs with its file, which has those addresses.  Requests for other users, even
\* overlapping ones, do not change that.  Except after its own requests
\* overlapped, were cut off or had a unit fail, or the kernel refused the device
\* because of such: only a request that changes the file and then starts the unit
\* repairs that.  The same request sent again does not: a router that announces
\* its ULA is sent away, and otherwise the file is found unchanged.
DeviceShows ==
    \A u \in {v \in Users : \A h \in Handlers : Busy(h) => User(h) # v} :
        /\ <<u, "vxlan">> \notin apart => dev[u] = Wanted(u)
        /\ <<u, "sixin4">> \notin apart =>
             six[u] # HalfWritten /\ sixin4[u] = six[u] /\ AddrOf(six[u]) = vpn[u].remote
=============================================================================
