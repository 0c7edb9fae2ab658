------------------------------ MODULE XrayPorts ------------------------------
(***************************************************************************)
(* XRay's configuration file and the port forwards in it.  Three kinds of  *)
(* handlers rewrite the file: the forwards over the reverse channel, which *)
(* validate a copy, rename it over the file and put the old text back when *)
(* XRay does not restart; the redirections and the settings, which write   *)
(* in place.  The first kind also keeps the public ports out of the bulk   *)
(* DNAT (rpf_dnat_bypass) and opens them; a starting worker renders that   *)
(* chain from the file.                                                    *)
(*                                                                         *)
(* A forward is a user and a public port; destinations are left out.       *)
(***************************************************************************)
EXTENDS Naturals, FiniteSets

CONSTANTS
    Handlers,     \* threads serving requests, of all workers
    Users,
    None, Torn,
    Requests,     \* what is asked: kind, user, port, on
    MaxRequests,  \* bound on requests and workers' starts
    MaxFaults     \* bound on cut-offs and failing commands

VARIABLES
    file,     \* /etc/xray/xray-server.json
    live,     \* the configuration XRay runs
    chain,    \* the ports in rpf_dnat_bypass
    open,     \* what shorewall_add_port has opened: forwards, and Https
    account,  \* whether the record of the user who sets it says Reality is on
    job,      \* job[h]: the request of a handler
    apart,    \* what faults and overlaps may have set apart
    requests, faults

vars == <<file, live, chain, open, account, job, apart, requests, faults>>

Https == <<"vless-reality", 443>>

Forwards == {<<r.user, r.port>> : r \in {q \in Requests : q.user # None}}

\* clients: those of the reverse channel's listener, which is there for them.
Docs == [redir : SUBSET Forwards, rpf : SUBSET Forwards, clients : SUBSET Users, reality : BOOLEAN]

\* A request about a port names its user; a torn text does not parse.  Forwards
\* are opened under names of their own, which Reality's port does not have.
RequestsOK ==
    /\ Requests \subseteq [kind : {"add", "del", "redir", "unredir", "set", "resync"},
                           user : Users \cup {None}, port : Nat, on : BOOLEAN]
    /\ None \notin Users
    /\ \A r \in Requests : r.user = None <=> r.kind \in {"set", "resync"}
    /\ Torn \notin Docs
    /\ {"live", "chain", "account", "vless-reality"} \cap Users = {}
    /\ MaxRequests \in Nat /\ MaxFaults \in Nat

ASSUME RequestsAssumption == RequestsOK

Live == <<"live", 0>>
Chain == <<"chain", 0>>
Account == <<"account", 0>>

Things == {Live, Chain, Account, Https} \cup Forwards

Idle == [at |-> "idle", req |-> None, data |-> None, before |-> None, alone |-> FALSE, back |-> FALSE]

Steps == {"read", "test", "replace", "truncate", "dump", "gone", "compare", "save", "port",
          "restart", "sync", "open"}

TypeOK ==
    /\ file \in Docs \cup {Torn}
    /\ live \in Docs
    /\ \A p \in chain : \E f \in Forwards : f[2] = p
    /\ open \in SUBSET (Forwards \cup {Https})
    /\ account \in BOOLEAN
    /\ job \in [Handlers -> [at : Steps, req : Requests, data : Docs \cup {None}, before : Docs \cup {None},
                             alone : BOOLEAN, back : BOOLEAN] \cup {Idle}]
    /\ apart \in SUBSET Things
    /\ requests \in 0..MaxRequests
    /\ faults \in 0..MaxFaults

Shipped == [redir |-> {}, rpf |-> {}, clients |-> {}, reality |-> FALSE]

Init ==
    /\ file = Shipped
    /\ live = Shipped
    /\ chain = {}
    /\ open = {}
    /\ account = FALSE
    /\ job = [h \in Handlers |-> Idle]
    /\ apart = {}
    /\ requests = 0
    /\ faults = 0

----------------------------------------------------------------------------
(* What the requests make of a configuration *)

\* The port is any other inbound's.
InUse(d, f) == \E g \in (d.rpf \ {f}) \cup d.redir : g[2] = f[2]

_xray_rpf_set(d, f) == [d EXCEPT !.rpf = @ \cup {f}, !.clients = @ \cup {f[1]}]

\* A faulty _xray_rpf_remove: the client goes with the first of its forwards.
_xray_rpf_removeClient(d, f) == [d EXCEPT !.rpf = @ \ {f}, !.clients = @ \ {f[1]}]

\* The client goes with the last of its forwards.
_xray_rpf_remove(d, f) ==
    LET rest == d.rpf \ {f} IN
      [d EXCEPT !.rpf = rest, !.clients = IF \E g \in rest : g[1] = f[1] THEN @ ELSE @ \ {f[1]}]

\* Nothing asks whether the port is in use.
xray_add_port(d, f) == [d EXCEPT !.redir = @ \cup {f}]

xray_del_port(d, f) == [d EXCEPT !.redir = @ \ {f}]

_render_xray_rpf_bypass(d) == {f[2] : f \in d.rpf}

----------------------------------------------------------------------------

At(h, step) == job[h].at = step

Req(h) == job[h].req

Forward(h) == <<Req(h).user, Req(h).port>>

Rpf(h) == Req(h).kind \in {"add", "del"}

Goto(h, step) == job' = [job EXCEPT ![h].at = step]

End(h) == job' = [job EXCEPT ![h] = Idle]

Fault == faults < MaxFaults /\ faults' = faults + 1

\* A request alone brings T in line.
Joined(h, T) == apart' = IF job[h].alone THEN apart \ T ELSE apart

Begin(h, r) ==
    /\ job[h] = Idle
    /\ requests < MaxRequests
    /\ requests' = requests + 1
    /\ LET alone == \A g \in Handlers : job[g] = Idle IN
         /\ job' = [g \in Handlers |->
                      IF g = h THEN [Idle EXCEPT !.at = "read", !.req = r, !.alone = alone]
                      ELSE IF job[g] = Idle THEN Idle ELSE [job[g] EXCEPT !.alone = FALSE]]
         /\ apart' = IF alone THEN apart ELSE Things
    /\ chain' \in IF r.kind = "resync" THEN {chain, {}} ELSE {chain}
    /\ UNCHANGED <<file, live, open, account, faults>>

\* What the handler makes of the file it has read.
Made(h) ==
    CASE Req(h).kind = "add" -> _xray_rpf_set(file, Forward(h))
      [] Req(h).kind = "del" -> _xray_rpf_remove(file, Forward(h))
      [] Req(h).kind = "redir" -> xray_add_port(file, Forward(h))
      [] Req(h).kind = "unredir" -> xray_del_port(file, Forward(h))
      [] Req(h).kind = "set" -> [file EXCEPT !.reality = Req(h).on]

\* A port in use, a forward that is not there, a file that does not parse.
Refused(h) ==
    \/ file = Torn
    \/ Req(h).kind = "add" /\ InUse(file, Forward(h))
    \/ Req(h).kind = "del" /\ Forward(h) \notin file.rpf

\* An added forward that is there already is only opened again, unless its place
\* in the text changes.
Read(h) ==
    /\ At(h, "read") /\ Req(h).kind # "resync"
    /\ IF Refused(h) THEN End(h)
       ELSE \E step \in IF ~Rpf(h) THEN {"truncate"}
                        ELSE {"test"} \cup (IF Made(h) = file THEN {"open"} ELSE {}) :
              job' = [job EXCEPT ![h].before = file, ![h].data = Made(h), ![h].at = step]
    /\ UNCHANGED <<file, live, chain, open, account, apart, requests, faults>>

\* _nft_resync_all: what cannot be read has no forwards.
ReadForChain(h) ==
    /\ At(h, "read") /\ Req(h).kind = "resync"
    /\ job' = [job EXCEPT ![h].at = "sync", ![h].data = IF file = Torn THEN Shipped ELSE file]
    /\ UNCHANGED <<file, live, chain, open, account, apart, requests, faults>>

\* xray run -test
Test(h, valid) ==
    /\ At(h, "test")
    /\ IF valid THEN Goto(h, "replace") ELSE End(h)
    /\ UNCHANGED <<file, live, chain, open, account, apart, requests, faults>>

\* Whoever has the file open writes to the one that is gone.
Replace(h) ==
    /\ At(h, "replace")
    /\ file' = job[h].data
    /\ job' = [g \in Handlers |-> IF g = h THEN [job[h] EXCEPT !.at = "restart"]
                                  ELSE IF At(g, "dump") THEN [job[g] EXCEPT !.at = "gone"]
                                  ELSE job[g]]
    /\ UNCHANGED <<live, chain, open, account, apart, requests, faults>>

Truncate(h) ==
    /\ At(h, "truncate")
    /\ file' = Torn
    /\ Goto(h, "dump")
    /\ UNCHANGED <<live, chain, open, account, apart, requests, faults>>

\* After the dump: a redirection compares with the file, the settings are saved,
\* a forward that was put back has XRay restart.
AfterDump(h) ==
    Goto(h, IF Rpf(h) THEN "restart" ELSE IF Req(h).kind = "set" THEN "save" ELSE "compare")

\* Two texts may be mixed.
Dump(h) ==
    /\ At(h, "dump") \/ At(h, "gone")
    /\ file' \in IF At(h, "gone") THEN {file}
                 ELSE IF file # Torn \/ \E g \in Handlers \ {h} : At(g, "dump") THEN {job[h].data, Torn}
                 ELSE {job[h].data}
    /\ AfterDump(h)
    /\ UNCHANGED <<live, chain, open, account, apart, requests, faults>>

\* Another layout of the same text is another checksum.
Compare(h) ==
    /\ At(h, "compare")
    /\ Goto(h, "restart") \/ (file = job[h].before /\ End(h))
    /\ UNCHANGED <<file, live, chain, open, account, apart, requests, faults>>

Save(h) ==
    /\ At(h, "save")
    /\ account' = job[h].data.reality
    /\ Joined(h, {Account})
    /\ IF job[h].data = job[h].before THEN End(h) ELSE Goto(h, "port")
    /\ UNCHANGED <<file, live, chain, open, requests, faults>>

\* Reality's port, opened or closed when that is new.
RealityPort(h) ==
    /\ At(h, "port")
    /\ open' = IF Req(h).on THEN open \cup {Https} ELSE open \ {Https}
    /\ Joined(h, {Https})
    /\ Goto(h, "restart")
    /\ UNCHANGED <<file, live, chain, account, requests, faults>>

\* XRay runs what is there by then; from a file that does not parse it does not
\* start, which is the old process' end, not modelled.
Restart(h) ==
    /\ At(h, "restart")
    /\ IF file # Torn THEN live' = file /\ Joined(h, {Live}) ELSE UNCHANGED <<live, apart>>
    /\ IF Rpf(h) /\ ~job[h].back THEN Goto(h, "sync") ELSE End(h)
    /\ UNCHANGED <<file, chain, open, account, requests, faults>>

\* A faulty RestartFails: the old text is not put back.
RestartFailsForward(h) ==
    /\ At(h, "restart")
    /\ Fault
    /\ End(h)
    /\ apart' = IF Rpf(h) THEN apart ELSE apart \cup {Live}
    /\ UNCHANGED <<file, live, chain, open, account, requests>>

\* Only a forward minds: it puts the old text back and tries once more.
RestartFails(h) ==
    /\ At(h, "restart")
    /\ Fault
    /\ IF Rpf(h) /\ ~job[h].back
       THEN /\ job' = [job EXCEPT ![h].at = "truncate", ![h].data = job[h].before, ![h].back = TRUE]
            /\ UNCHANGED apart
       ELSE /\ End(h)
            /\ apart' = apart \cup {Live}
    /\ UNCHANGED <<file, live, chain, open, account, requests>>

\* _nft_sync_xray_rpf renders what the handler holds; what nft says of it is not
\* looked at.
Sync(h, refused) ==
    /\ At(h, "sync")
    /\ IF refused
       THEN Fault /\ apart' = apart \cup {Chain} /\ UNCHANGED chain
       ELSE chain' = _render_xray_rpf_bypass(job[h].data) /\ Joined(h, {Chain}) /\ UNCHANGED faults
    /\ IF Rpf(h) THEN Goto(h, "open") ELSE End(h)
    /\ UNCHANGED <<file, live, open, account, requests>>

\* shorewall_add_port, shorewall_del_port
Open(h) ==
    /\ At(h, "open")
    /\ open' = IF Req(h).kind = "add" THEN open \cup {Forward(h)} ELSE open \ {Forward(h)}
    /\ Joined(h, {Forward(h)})
    /\ End(h)
    /\ UNCHANGED <<file, live, chain, account, requests, faults>>

\* What the rest of the request would have brought in line.
Left(h) ==
    IF Req(h).kind = "resync" THEN {Chain} ELSE
    CASE At(h, "open") -> {Forward(h)}
      [] At(h, "sync") -> {Chain, Forward(h)}
      [] At(h, "restart") -> IF Rpf(h) /\ ~job[h].back THEN {Live, Chain, Forward(h)} ELSE {Live}
      [] At(h, "truncate") /\ job[h].back -> {Live, Chain, Forward(h)}
      [] At(h, "compare") -> {Live}
      [] At(h, "save") -> {Account, Live, Https}
      [] At(h, "port") -> {Live, Https}
      [] OTHER -> {}

\* Killed, or an exception; cut off while it dumps, the file does not parse.
CutOff(h) ==
    /\ job[h] # Idle
    /\ Fault
    /\ apart' = apart \cup Left(h)
    /\ End(h)
    /\ UNCHANGED <<file, live, chain, open, account, requests>>

Next ==
    \E h \in Handlers :
        \/ \E r \in Requests : Begin(h, r)
        \/ Read(h) \/ ReadForChain(h)
        \/ \E valid \in BOOLEAN : Test(h, valid)
        \/ Replace(h) \/ Truncate(h) \/ Dump(h) \/ Compare(h)
        \/ Save(h) \/ RealityPort(h) \/ Restart(h) \/ RestartFails(h)
        \/ \E refused \in BOOLEAN : Sync(h, refused)
        \/ Open(h)
        \/ CutOff(h)

Spec == Init /\ [][Next]_vars

----------------------------------------------------------------------------
(* Properties *)

AtRest == \A h \in Handlers : job[h] = Idle

\* Between requests XRay runs what its file says, the chain keeps exactly the
\* forwarded ports out of the DNAT, those and Reality's are open, and the record
\* says whether Reality is on.  Each of these may fail only since the request
\* that had still to see to it was cut off, a restart that nothing undoes or nft
\* failed, or requests overlapped, until one served alone has seen to it: an
\* error answer leaves no trace (_xray_rpf_write's rollback).
XrayAgrees ==
    AtRest /\ file # Torn =>
        /\ Live \notin apart => live = file
        /\ Chain \notin apart => chain = _render_xray_rpf_bypass(file)
        /\ Account \notin apart => account = file.reality
        /\ \A f \in (Forwards \cup {Https}) \ apart :
             f \in open <=> IF f = Https THEN file.reality ELSE f \in file.rpf

\* Whatever overlaps, fails or is put back: in what XRay runs and in what the
\* next request starts from, no two users forward the same port, and the reverse
\* channel's listener knows exactly the users who forward one.
ForwardsFit ==
    \A d \in {live, file} \ {Torn} :
        /\ \A f, g \in d.rpf : f[2] = g[2] => f = g
        /\ d.clients = {f[1] : f \in d.rpf}
=============================================================================
