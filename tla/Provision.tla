------------------------------ MODULE Provision ------------------------------
(***************************************************************************)
(* Adding and removing users across the VPN and proxy services: one        *)
(* administrator's requests, one at a time, each a walk over the services  *)
(* that a kill or an exception may end after any step, and the repair that *)
(* a starting worker does from Shadowsocks-go's user list.                 *)
(*                                                                         *)
(* An account is what a service keeps for a user: by the user's name, by   *)
(* its port (Shadowsocks) or by its userid (Glorytun, DSVPN).  A request   *)
(* may name the port and the userid itself, another user's too; asking for *)
(* the installation's own port or userid is left out.                      *)
(***************************************************************************)
EXTENDS Integers, Sequences, FiniteSets, FiniteSetsExt

CONSTANTS
    Users,      \* the names an administrator adds
    Longer,     \* user -> the other names that begin with its name
    None,
    Adds,       \* what a request to add a user may ask for
    LastId,     \* bound on the userids handed out
    LastPort,   \* bound on the Shadowsocks ports handed out
    MaxAdds,    \* bound on the requests to add a user
    MaxFaults   \* bound on requests cut off and calls a daemon does not hear

VARIABLES
    users,   \* the configuration: user -> its record, or None
    disk,    \* the services' files; "openvpn": the certificates it can hand out and revoke
    pki,     \* the other certificates: revoked, no longer listed, accepted again
    daemon,  \* what the daemons with a control interface hold in memory
    job,     \* the request being served
    dirty,   \* users whose accounts by name may disagree with the configuration
    stray,   \* users who may own ports or userids that no record names
    adds,    \* requests to add a user, counted for the bound
    faults

vars == <<users, disk, pki, daemon, job, dirty, stray, adds, faults>>

----------------------------------------------------------------------------

Ids == 3..LastId
Ports == 0..LastPort

NameFiles == {"openvpn", "v2ray", "xray", "mqvpn"}
KeyFiles == {"shadowsocks", "glorytun_tcp", "glorytun_udp", "dsvpn"}
Daemons == {"ssgo", "mqvpn", "softether"}

Records == [id : Ids, port : Ports, ips : BOOLEAN]

\* None is nobody's name and nobody's record, and the bounds are numbers.
ConstantsOK ==
    /\ None \notin Users \cup Records
    /\ Longer \in [Users -> SUBSET Users]
    /\ Adds \subseteq [id : Ids \cup {None}, port : Ports, ips : BOOLEAN]
    /\ LastId \in Nat /\ LastPort \in Nat /\ MaxAdds \in Nat /\ MaxFaults \in Nat

\* userid 0's Shadowsocks port is there from the installation.
Taken == [port |-> 0, who |-> None]

\* A faulty AddPlan: the certificate is built after the proxies have the user.
AddPlanCertLate == <<"shadowsocks", "ssgo", "v2ray", "openvpn", "xray", "config",
                     "glorytun_tcp", "glorytun_udp", "dsvpn", "mqvpn", "softether">>

\* The order in which the two handlers visit the services.
AddPlan == <<"openvpn", "shadowsocks", "ssgo", "v2ray", "xray", "config",
             "glorytun_tcp", "glorytun_udp", "dsvpn", "mqvpn", "softether">>

RemovePlan == <<"shadowsocks", "ssgo", "v2ray", "xray", "config", "openvpn",
                "glorytun_tcp", "glorytun_udp", "dsvpn", "mqvpn", "softether">>

Plan(op) == IF op = "add" THEN AddPlan ELSE RemovePlan

Idle == [op |-> "none", user |-> None, at |-> 1, rec |-> None, lost |-> FALSE]

Serving ==
    [op : {"add", "remove"}, user : Users, at : 1..Len(AddPlan), rec : Records, lost : BOOLEAN]

TypeOK ==
    /\ users \in [Users -> Records \cup {None}]
    /\ \A f \in NameFiles : disk[f] \in SUBSET Users
    /\ disk["shadowsocks"] \in SUBSET [port : Ports, who : Users \cup {None}]
    /\ \A f \in KeyFiles \ {"shadowsocks"} : disk[f] \in SUBSET [id : Ids, who : Users]
    /\ pki \in [revoked : SUBSET Users, lost : SUBSET Users,
                loose : SUBSET Users, again : SUBSET Users]
    /\ daemon \in [Daemons -> SUBSET Users]
    /\ job \in Serving \cup {Idle}
    /\ dirty \in SUBSET Users
    /\ stray \in SUBSET Users
    /\ adds \in 0..MaxAdds
    /\ faults \in 0..MaxFaults

Init ==
    /\ users = [u \in Users |-> None]
    /\ disk = [f \in NameFiles \cup KeyFiles |-> IF f = "shadowsocks" THEN {Taken} ELSE {}]
    /\ pki = [revoked |-> {}, lost |-> {}, loose |-> {}, again |-> {}]
    /\ daemon = [d \in Daemons |-> {}]
    /\ job = Idle
    /\ dirty = {}
    /\ stray = {}
    /\ adds = 0
    /\ faults = 0

----------------------------------------------------------------------------
(* What the functions of each service do to its file. *)

NextPort == 1 + Max({a.port : a \in disk["shadowsocks"]})

\* A port that is taken is written over.
add_ss_user(port, u) ==
    {a \in disk["shadowsocks"] : a.port # port} \cup {[port |-> port, who |-> u]}

remove_ss_user(port) == {a \in disk["shadowsocks"] : a.port # port}

v2ray_add_user(u) == disk["v2ray"] \cup {u}

xray_add_user(u) == disk["xray"] \cup {u}

v2ray_del_user(u) == disk["v2ray"] \ {u}

xray_del_user(u) == disk["xray"] \ {u}

\* A tunnel of that userid is written over.
Tunnel(f, id, u) == {a \in disk[f] : a.id # id} \cup {[id |-> id, who |-> u]}

NoTunnel(f, id) == {a \in disk[f] : a.id # id}

add_glorytun_tcp(id, u) == Tunnel("glorytun_tcp", id, u)

remove_glorytun_tcp(id) == NoTunnel("glorytun_tcp", id)

\* The key is a copy of the TCP tunnel's.
add_glorytun_udp(id, u) == Tunnel("glorytun_udp", id, u)

remove_glorytun_udp(id) == NoTunnel("glorytun_udp", id)

add_dsvpn(id, u) == Tunnel("dsvpn", id, u)

remove_dsvpn(id) == NoTunnel("dsvpn", id)

----------------------------------------------------------------------------
(* Requests *)

\* A faulty NextId: the highest userid a second time.
NextIdTaken == Max({3} \cup {users[u].id : u \in {v \in Users : users[v] # None}})

NextId == 1 + Max({2} \cup {users[u].id : u \in {v \in Users : users[v] # None}})

\* The other users whose records have that userid: a request that asks for it
\* writes over the tunnels of all of them.
SameId(u, id) == {v \in Users \ {u} : users[v] # None /\ users[v].id = id}

\* Nothing asks whether the name, the userid or the port is taken; id None and
\* port 0 stand for none given.
StartAdd(u, ask) ==
    LET userid == IF ask.id = None THEN NextId ELSE ask.id
        same == IF ask.id = None THEN {} ELSE SameId(u, ask.id)
    IN
    /\ job = Idle
    /\ adds < MaxAdds
    /\ adds' = adds + 1
    /\ userid \in Ids
    /\ ask.port = 0 => NextPort + 1 \in Ports
    /\ job' = [op |-> "add", user |-> u, at |-> 1, lost |-> FALSE,
               rec |-> [ask EXCEPT !.id = userid]]
    /\ stray' = IF same = {} THEN stray ELSE stray \cup same \cup {u}
    /\ UNCHANGED <<users, disk, pki, daemon, dirty, faults>>

StartRemove(u) ==
    /\ job = Idle
    /\ users[u] # None
    /\ job' = [op |-> "remove", user |-> u, at |-> 1, rec |-> users[u], lost |-> FALSE]
    /\ UNCHANGED <<users, disk, pki, daemon, dirty, stray, adds, faults>>

At(op, s) == job.op = op /\ Plan(op)[job.at] = s

OnDisk(f, accounts) == disk' = [disk EXCEPT ![f] = accounts]

\* A faulty Onward: one step past the plan's last.
OnwardTooFar(lost) ==
    /\ job' = [job EXCEPT !.at = @ + 1, !.lost = @ \/ lost]
    /\ faults' = IF lost THEN faults + 1 ELSE faults
    /\ UNCHANGED dirty

\* The plan's last step answers; what was not heard leaves the user dirty.
Onward(lost) ==
    /\ IF job.at < Len(Plan(job.op))
       THEN /\ job' = [job EXCEPT !.at = @ + 1, !.lost = @ \/ lost]
            /\ UNCHANGED dirty
       ELSE /\ job' = Idle
            /\ dirty' = IF job.lost \/ lost THEN dirty \cup {job.user}
                        ELSE IF job.op = "remove" THEN dirty \ {job.user} ELSE dirty
    /\ faults' = IF lost THEN faults + 1 ELSE faults

\* The name's entries in index.txt go before its certificate is built, and with
\* them those of every name that begins with it; its own files go too.  A
\* certificate that was revoked is then no longer listed, one that was valid is
\* out of any revocation's reach.
DropEntries ==
    LET dropped == {job.user} \cup Longer[job.user] IN
    pki' = [revoked |-> pki.revoked \ dropped,
            lost |-> pki.lost \cup (pki.revoked \cap dropped),
            loose |-> pki.loose \cup ({job.user} \cap disk["openvpn"]),
            again |-> pki.again \cup (dropped \cap (pki.revoked \cup disk["openvpn"]))]

BuildCertificate ==
    /\ At("add", "openvpn")
    /\ DropEntries
    /\ OnDisk("openvpn", disk["openvpn"] \cup {job.user})
    /\ Onward(FALSE)
    /\ UNCHANGED <<users, daemon, stray, adds>>

\* A user added a second time has lost its certificate's files then.
CertificateFails ==
    /\ At("add", "openvpn")
    /\ DropEntries
    /\ OnDisk("openvpn", disk["openvpn"] \ {job.user})
    /\ job' = Idle
    /\ dirty' = IF users[job.user] = None THEN dirty ELSE dirty \cup {job.user}
    /\ UNCHANGED <<users, daemon, stray, adds, faults>>

\* The other users whose records name that port.
Named(port) == {v \in Users \ {job.user} : users[v] # None /\ users[v].port = port}

\* With a public address the port kept for the record is one too high.  Who is
\* given a port that another's record names is no longer alone on it, nor is
\* the other.
AddShadowsocks ==
    LET port == IF job.rec.port = 0 THEN NextPort ELSE job.rec.port
        kept == IF job.rec.ips THEN port + 1 ELSE port
        named == Named(port) \cup Named(kept)
    IN
    /\ At("add", "shadowsocks")
    /\ ~(job.rec.ips /\ job.rec.port # 0)
    /\ OnDisk("shadowsocks", add_ss_user(port, job.user))
    /\ job' = [job EXCEPT !.at = @ + 1, !.rec.port = kept]
    /\ stray' = stray \cup named
                \cup (IF job.rec.ips \/ users[job.user] # None \/ named # {} THEN {job.user} ELSE {})
    /\ UNCHANGED <<users, pki, daemon, dirty, adds, faults>>

\* A port that was given comes back as a string: adding one to it, for the next
\* public address, is an exception.
GivenPortFails ==
    /\ At("add", "shadowsocks")
    /\ job.rec.ips /\ job.rec.port # 0
    /\ OnDisk("shadowsocks", add_ss_user(job.rec.port, job.user))
    /\ job' = Idle
    /\ dirty' = dirty \cup {job.user}
    /\ stray' = stray \cup Named(job.rec.port) \cup {job.user}
    /\ UNCHANGED <<users, pki, daemon, adds, faults>>

\* Public addresses leave out Shadowsocks-go and V2Ray.
Skipped(s) == job.op = "add" /\ job.rec.ips /\ s \in {"ssgo", "v2ray"}

Skip ==
    /\ job # Idle
    /\ Skipped(Plan(job.op)[job.at])
    /\ Onward(FALSE)
    /\ UNCHANGED <<users, disk, pki, daemon, stray, adds>>

AddToFile(f) ==
    /\ At("add", f)
    /\ ~Skipped(f)
    /\ OnDisk(f, [v2ray |-> v2ray_add_user(job.user),
                  xray |-> xray_add_user(job.user),
                  glorytun_tcp |-> add_glorytun_tcp(job.rec.id, job.user),
                  glorytun_udp |-> add_glorytun_udp(job.rec.id, job.user),
                  dsvpn |-> add_dsvpn(job.rec.id, job.user)][f])
    /\ Onward(FALSE)
    /\ UNCHANGED <<users, pki, daemon, stray, adds>>

RemoveFromFile(f) ==
    /\ At("remove", f)
    /\ OnDisk(f, [shadowsocks |-> remove_ss_user(job.rec.port),
                  v2ray |-> v2ray_del_user(job.user),
                  xray |-> xray_del_user(job.user),
                  glorytun_tcp |-> remove_glorytun_tcp(job.rec.id),
                  glorytun_udp |-> remove_glorytun_udp(job.rec.id),
                  dsvpn |-> remove_dsvpn(job.rec.id)][f])
    /\ Onward(FALSE)
    /\ UNCHANGED <<users, pki, daemon, stray, adds>>

\* Without its files nothing is revoked.  The new list is made from index.txt:
\* a revoked certificate that is no longer there is accepted again.
RevokeCertificate ==
    /\ At("remove", "openvpn")
    /\ pki' = [pki EXCEPT !.revoked = @ \cup ({job.user} \cap disk["openvpn"]),
                          !.lost = {},
                          !.loose = @ \cup pki.lost]
    /\ OnDisk("openvpn", disk["openvpn"] \ {job.user})
    /\ Onward(FALSE)
    /\ UNCHANGED <<users, daemon, stray, adds>>

Save ==
    /\ job # Idle
    /\ At(job.op, "config")
    /\ users' = [users EXCEPT ![job.user] = IF job.op = "add" THEN job.rec ELSE None]
    /\ Onward(FALSE)
    /\ UNCHANGED <<disk, pki, daemon, stray, adds>>

----------------------------------------------------------------------------
(* Daemons: a call that times out or is refused is only logged. *)

\* What the daemon holds after a call, heard or not.
Call(d, after, lost) ==
    /\ lost => faults < MaxFaults
    /\ daemon' = IF lost THEN daemon ELSE [daemon EXCEPT ![d] = after]

add_ss_go_user(lost) == Call("ssgo", daemon["ssgo"] \cup {job.user}, lost)

remove_ss_go_user(lost) == Call("ssgo", daemon["ssgo"] \ {job.user}, lost)

add_softether_user(lost) == Call("softether", daemon["softether"] \cup {job.user}, lost)

remove_softether_user(lost) == Call("softether", daemon["softether"] \ {job.user}, lost)

AddToDaemon(s, lost) ==
    /\ At("add", s)
    /\ ~Skipped(s)
    /\ IF s = "ssgo" THEN add_ss_go_user(lost) ELSE add_softether_user(lost)
    /\ Onward(lost)
    /\ UNCHANGED <<users, disk, pki, stray, adds>>

RemoveFromDaemon(s, lost) ==
    /\ At("remove", s)
    /\ IF s = "ssgo" THEN remove_ss_go_user(lost) ELSE remove_softether_user(lost)
    /\ Onward(lost)
    /\ UNCHANGED <<users, disk, pki, stray, adds>>

\* A name in the file is left alone; one the daemon does not take is kept.
add_mqvpn(u, lost) ==
    /\ Call("mqvpn", daemon["mqvpn"] \cup {u}, lost)
    /\ OnDisk("mqvpn", disk["mqvpn"] \cup {u})

AddMqvpn(lost) ==
    /\ At("add", "mqvpn")
    /\ IF job.user \in disk["mqvpn"]
       THEN ~lost /\ UNCHANGED <<disk, daemon>>
       ELSE add_mqvpn(job.user, lost)
    /\ Onward(lost)
    /\ UNCHANGED <<users, pki, stray, adds>>

remove_mqvpn(lost) ==
    /\ At("remove", "mqvpn")
    /\ Call("mqvpn", daemon["mqvpn"] \ {job.user}, lost)
    /\ OnDisk("mqvpn", disk["mqvpn"] \ {job.user})
    /\ Onward(lost)
    /\ UNCHANGED <<users, pki, stray, adds>>

----------------------------------------------------------------------------
(* Faults and restarts *)

\* Killed, or an exception answered with a 500.
CutOff ==
    /\ job # Idle
    /\ faults < MaxFaults
    /\ faults' = faults + 1
    /\ job' = Idle
    /\ dirty' = dirty \cup {job.user}
    /\ stray' = stray \cup {job.user}
    /\ UNCHANGED <<users, disk, pki, daemon, adds>>

\* A worker starts: who is in Shadowsocks-go's list is added to XRay and MQVPN.
sync_ss_go_users ==
    /\ job = Idle
    /\ daemon["ssgo"] \ (disk["xray"] \cap disk["mqvpn"]) # {}
    /\ disk' = [disk EXCEPT !["xray"] = @ \cup daemon["ssgo"],
                            !["mqvpn"] = @ \cup daemon["ssgo"]]
    /\ daemon' = [daemon EXCEPT !["mqvpn"] = @ \cup (daemon["ssgo"] \ disk["mqvpn"])]
    /\ UNCHANGED <<users, pki, job, dirty, stray, adds, faults>>

\* The MQVPN daemon restarts and reads its file.
MqvpnRestarts ==
    /\ daemon["mqvpn"] # disk["mqvpn"]
    /\ daemon' = [daemon EXCEPT !["mqvpn"] = disk["mqvpn"]]
    /\ UNCHANGED <<users, disk, pki, job, dirty, stray, adds, faults>>

Next ==
    \/ \E u \in Users, ask \in Adds : StartAdd(u, ask)
    \/ \E u \in Users : StartRemove(u)
    \/ BuildCertificate
    \/ CertificateFails
    \/ AddShadowsocks
    \/ GivenPortFails
    \/ Skip
    \/ \E f \in {"v2ray", "xray", "glorytun_tcp", "glorytun_udp", "dsvpn"} : AddToFile(f)
    \/ \E f \in (NameFiles \cup KeyFiles) \ {"openvpn", "mqvpn"} : RemoveFromFile(f)
    \/ RevokeCertificate
    \/ Save
    \/ \E s \in {"ssgo", "softether"}, lost \in BOOLEAN : AddToDaemon(s, lost)
    \/ \E s \in {"ssgo", "softether"}, lost \in BOOLEAN : RemoveFromDaemon(s, lost)
    \/ \E lost \in BOOLEAN : AddMqvpn(lost)
    \/ \E lost \in BOOLEAN : remove_mqvpn(lost)
    \/ CutOff
    \/ sync_ss_go_users
    \/ MqvpnRestarts

Spec == Init /\ [][Next]_vars

----------------------------------------------------------------------------
(* Properties *)

\* The services that know a user by name.
Homes(u) == {f \in NameFiles : u \in disk[f]} \cup {d \in Daemons : u \in daemon[d]}

AllHomes == NameFiles \cup Daemons

\* Every service agrees with the configuration about who has an account: a
\* request refused for its certificate leaves none, requests for other users and
\* restarts disturb none, and a removal that runs to its end repairs what went
\* wrong before.  What can go wrong: a request for the user cut off, or ended by
\* a port given along with public addresses; a call a daemon missed; a user
\* added a second time whose certificate fails.  A removed user has no
\* certificate the server accepts either, unless adding its name again, or a
\* name it begins with, dropped its entry (add_user, remove_user,
\* sync_ss_go_users).
NamesAgree ==
    \A u \in Users \ dirty :
        job.user # u =>
            IF users[u] = None THEN Homes(u) = {} /\ (u \in pki.loose => u \in pki.again)
            ELSE AllHomes \ (IF users[u].ips THEN {"ssgo", "v2ray"} ELSE {}) \subseteq Homes(u)

\* A user owns exactly the port and the userid of its record, whatever requests
\* for others do, unless it was added twice, given public addresses, cut off,
\* or its port or userid is one that another's record names as well: asked for
\* in the request, or the port kept one too high for public addresses, which
\* removing that user withdraws (add_ss_user, the tunnel functions).
KeysAgree ==
    \A u \in Users \ stray, f \in KeyFiles :
        job.user # u =>
            {a \in disk[f] : a.who = u} =
                IF users[u] = None THEN {}
                ELSE IF f = "shadowsocks" THEN {[port |-> users[u].port, who |-> u]}
                ELSE {[id |-> users[u].id, who |-> u]}
=============================================================================
