---------------------------- MODULE ServiceConfig ----------------------------
(***************************************************************************)
(* The handlers that rewrite a VPN or proxy service's own files: each      *)
(* takes a checksum, writes, takes another, restarts the service only when *)
(* the two differ, and opens the port.  Handlers run in threads of several *)
(* workers, without a lock; they are cut off, and restarts fail.           *)
(*                                                                         *)
(* A handler is the sequence of its steps.  One behaviour is about one     *)
(* service: the services share nothing here.                               *)
(***************************************************************************)
EXTENDS Naturals, Sequences, FiniteSets

CONSTANTS
    Handlers,     \* threads at work for the service
    None, Torn,
    Ports,        \* two at least
    Settings,     \* everything else a file says
    Wants,        \* Wants[s]: what service s is asked to run with, by itself or a request
    MaxRequests,  \* bound on requests
    MaxFaults     \* bound on cut-offs and failing restarts

VARIABLES
    service,   \* the service this behaviour is about
    file,      \* part of its configuration -> what is on disk
    live,      \* part -> what the running service read
    open,      \* the ports opened for it
    account,   \* what the user's record in omr-admin-config.json keeps
    job,       \* job[h]: the request of a handler
    apart,     \* parts whose file may differ from what the service runs
    shut,      \* the port the service listens on may not be open
    met,       \* the last request met another, was cut off, or was refused a part
    requests, faults

vars == <<service, file, live, open, account, job, apart, shut, met, requests, faults>>

----------------------------------------------------------------------------
(* The handlers as sequences of steps *)

Read(p) == [do |-> "read", part |-> p]
Write(p) == [do |-> "write", part |-> p]
Compare(p) == [do |-> "compare", part |-> p]

\* If the last two checksums differed.
Restart(p) == [do |-> "restart", part |-> p]
OpenIfChanged == [do |-> "open_if_changed", part |-> "conf"]

Open == [do |-> "open", part |-> "conf"]

\* Open the new port and close the old one, if they differ.
Move == [do |-> "move", part |-> "conf"]

\* modif_config_user
Save(p) == [do |-> "save", part |-> p]

\* A call to the running service.
Tell(p) == [do |-> "tell", part |-> p]

\* A faulty shadowsocks: the second checksum is taken before the file is written.
shadowsocksEarly ==
    <<Read("conf"), Save("conf"), Compare("conf"), Write("conf"), Restart("conf"), OpenIfChanged>>

shadowsocks ==
    <<Read("conf"), Save("conf"), Write("conf"), Compare("conf"), Restart("conf"), OpenIfChanged>>

shadowsocks_go == shadowsocks

openvpn == <<Read("conf"), Write("conf"), Compare("conf"), Restart("conf"), OpenIfChanged>>

wireguard == openvpn

mlvpn == <<Read("conf"), Write("conf"), Compare("conf"), Restart("conf")>>

\* A faulty mqvpn_set_config: the port is moved only when the service restarts.
mqvpn_set_configOpenLast ==
    <<Read("conf"), Write("conf"), Compare("conf"), Restart("conf")>>

mqvpn_set_config ==
    <<Read("conf"), Write("conf"), Compare("conf"), Move, Restart("conf")>>

\* The TCP service and the UDP service, each with its file.
glorytun ==
    <<Read("conf"), Write("key"), Write("conf"), Compare("conf"), Restart("conf"),
      Read("udp"), Write("udp"), Compare("udp"), Restart("udp"), Open>>

dsvpn == <<Write("conf"), Read("key"), Write("key"), Compare("key"), Restart("key"), Open>>

softethervpn == <<Tell("conf"), Tell("key"), Save("key")>>

Services == {"shadowsocks", "shadowsocks_go", "openvpn", "wireguard", "mlvpn", "mqvpn",
             "glorytun", "dsvpn", "softethervpn"}

Plan ==
    CASE service = "shadowsocks" -> shadowsocks
      [] service = "shadowsocks_go" -> shadowsocks_go
      [] service = "openvpn" -> openvpn
      [] service = "wireguard" -> wireguard
      [] service = "mlvpn" -> mlvpn
      [] service = "mqvpn" -> mqvpn_set_config
      [] service = "glorytun" -> glorytun
      [] service = "dsvpn" -> dsvpn
      [] service = "softethervpn" -> softethervpn

Parts == {"conf", "udp", "key"}

\* What a restart has the service read: Glorytun's two services share the key.
ReadBy(p) == CASE service = "dsvpn" -> {"conf", "key"}
               [] service = "glorytun" /\ p = "conf" -> {"conf", "key"}
               [] OTHER -> {p}

\* A file opened with 'w' is empty until it is dumped; the other handlers move
\* a finished copy into its place.
InPlace(p) == p = "key" \/ service \in {"shadowsocks", "shadowsocks_go", "mqvpn", "mlvpn"}

----------------------------------------------------------------------------

Docs == [port : Ports, rest : Settings]

\* None and Torn are nobody's configuration, and the bounds are numbers.
ConstantsOK ==
    /\ None # Torn /\ None \notin Docs /\ Torn \notin Docs
    /\ \A s \in Services : Wants[s] \subseteq Docs
    /\ MaxRequests \in Nat /\ MaxFaults \in Nat

\* WireGuard's handler keeps the port, MLVPN's and SoftEther's know of none.
FixedPort == service \in {"wireguard", "mlvpn", "softethervpn"}

Idle == [at |-> 0, want |-> None, before |-> None, old |-> None, changed |-> FALSE]

TypeOK ==
    /\ service \in Services
    /\ file \in [Parts -> Docs \cup {Torn}]
    /\ live \in [Parts -> Docs]
    /\ open \in SUBSET Ports
    /\ account \in Docs
    /\ \A h \in Handlers :
         job[h] = Idle \/ (job[h].at \in 1..Len(Plan) /\ job[h].want \in Docs)
    /\ apart \in SUBSET Parts
    /\ shut \in BOOLEAN
    /\ met \in BOOLEAN
    /\ requests \in 0..MaxRequests
    /\ faults \in 0..MaxFaults

\* As installed: running what is on disk, its port open.
Init ==
    /\ service \in Services
    /\ \E d \in Wants[service] :
         /\ file = [p \in Parts |-> d]
         /\ live = [p \in Parts |-> d]
         /\ open = {d.port}
         /\ account = d
    /\ job = [h \in Handlers |-> Idle]
    /\ apart = {}
    /\ shut = FALSE
    /\ met = FALSE
    /\ requests = 0
    /\ faults = 0

Step(h) == Plan[job[h].at]

At(h, do) == job[h] # Idle /\ Step(h).do = do

\* The step after the last is the answer.
Next1(h, j) ==
    job' = [job EXCEPT ![h] = IF j.at = Len(Plan) THEN Idle ELSE [j EXCEPT !.at = @ + 1]]

Onward(h) == Next1(h, job[h])

Begin(h, want) ==
    /\ job[h] = Idle
    /\ requests < MaxRequests
    /\ FixedPort => want.port = account.port
    /\ requests' = requests + 1
    /\ met' = (\E g \in Handlers : job[g] # Idle)
    /\ job' = [job EXCEPT ![h] = [Idle EXCEPT !.at = 1, !.want = want]]
    /\ UNCHANGED <<service, file, live, open, account, apart, shut, faults>>

\* A file that does not parse ends the request with an error, Shadowsocks-libev's
\* after the port is saved; the key files are only written.
DoRead(h) ==
    /\ At(h, "read")
    /\ LET p == Step(h).part IN
         IF file[p] = Torn /\ p = "conf"
         THEN /\ job' = [job EXCEPT ![h] = Idle]
              /\ account' = IF service = "shadowsocks" THEN job[h].want ELSE account
              /\ met' = TRUE
         ELSE /\ Next1(h, [job[h] EXCEPT !.before = file[p],
                                         !.old = IF p = "conf" THEN file[p].port ELSE None])
              /\ UNCHANGED <<account, met>>
    /\ UNCHANGED <<service, file, live, open, apart, shut, requests, faults>>

\* Whether the handler writes over something else than what it read: what it
\* compares its own file with is then not what the service runs.
WritesOver(h, p) == job[h].before # None /\ file[p] # job[h].before

DoWrite(h) ==
    /\ At(h, "write")
    /\ LET p == Step(h).part IN
         /\ file' = [file EXCEPT ![p] = job[h].want]
         /\ apart' = IF WritesOver(h, p) \/ file[p] = Torn THEN apart \cup Parts
                     ELSE IF Restart(p) \in {Plan[i] : i \in DOMAIN Plan}
                     THEN apart ELSE apart \cup {p}
         /\ shut' = (shut \/ WritesOver(h, p))
    /\ Onward(h)
    /\ UNCHANGED <<service, live, open, account, met, requests, faults>>

DoCompare(h) ==
    /\ At(h, "compare")
    /\ Next1(h, [job[h] EXCEPT !.changed = job[h].before # file[Step(h).part]])
    /\ UNCHANGED <<service, file, live, open, account, apart, shut, met, requests, faults>>

\* The restarted service reads what is there by then; a file that does not parse
\* keeps it from starting, which is the old service's end, not modelled.
DoRestart(h) ==
    /\ At(h, "restart")
    /\ LET R == ReadBy(Step(h).part) IN
         IF job[h].changed /\ \A p \in R : file[p] # Torn
         THEN /\ live' = [p \in Parts |-> IF p \in R THEN file[p] ELSE live[p]]
              /\ apart' = apart \ R
         ELSE UNCHANGED <<live, apart>>
    /\ Onward(h)
    /\ UNCHANGED <<service, file, open, account, shut, met, requests, faults>>

\* systemctl fails or times out; check=False lets the request go on.
RestartFails(h) ==
    /\ At(h, "restart") /\ job[h].changed
    /\ faults < MaxFaults
    /\ faults' = faults + 1
    /\ apart' = apart \cup Parts
    /\ Onward(h)
    /\ UNCHANGED <<service, file, live, open, account, shut, met, requests>>

\* The port the service listens on is open for good once it is its file's, too.
DoOpen(h) ==
    /\ At(h, "open") \/ At(h, "open_if_changed")
    /\ IF Step(h).do = "open" \/ job[h].changed
       THEN /\ open' = open \cup {job[h].want.port}
            /\ shut' = (shut /\ ~(live["conf"] = file["conf"] /\ live["conf"].port \in open'))
       ELSE UNCHANGED <<open, shut>>
    /\ Onward(h)
    /\ UNCHANGED <<service, file, live, account, apart, met, requests, faults>>

DoMove(h) ==
    /\ At(h, "move")
    /\ open' = IF job[h].old = job[h].want.port THEN open
               ELSE (open \cup {job[h].want.port}) \ {job[h].old}
    /\ shut' = (shut \/ file["conf"] # job[h].want)
    /\ Onward(h)
    /\ UNCHANGED <<service, file, live, account, apart, met, requests, faults>>

DoSave(h) ==
    /\ At(h, "save")
    /\ account' = job[h].want
    /\ Onward(h)
    /\ UNCHANGED <<service, file, live, open, apart, shut, met, requests, faults>>

\* The service takes the setting or not; without its answer the request ends, but
\* nobody looks at the answer: one that refuses the setting counts as any other.
\* SoftEther keeps its own files.
DoTell(h, heard, answered) ==
    /\ At(h, "tell")
    /\ LET p == Step(h).part IN
         /\ IF heard
            THEN /\ live' = [live EXCEPT ![p] = job[h].want]
                 /\ file' = [file EXCEPT ![p] = job[h].want]
            ELSE UNCHANGED <<live, file>>
         /\ IF answered
            THEN Onward(h) /\ met' = (met \/ (p = "key" /\ ~heard))
            ELSE job' = [job EXCEPT ![h] = Idle] /\ met' = TRUE
    /\ UNCHANGED <<service, open, account, apart, shut, requests, faults>>

\* An exception or a kill ends the request, at a write perhaps half way.
CutOff(h) ==
    /\ job[h] # Idle
    /\ faults < MaxFaults
    /\ faults' = faults + 1
    /\ file' \in {file} \cup (IF Step(h).do = "write" /\ InPlace(Step(h).part)
                              THEN {[file EXCEPT ![Step(h).part] = Torn]} ELSE {})
    /\ job' = [job EXCEPT ![h] = Idle]
    /\ apart' = apart \cup Parts
    /\ shut' = TRUE
    /\ met' = TRUE
    /\ UNCHANGED <<service, live, open, account, requests>>

Next ==
    \E h \in Handlers :
        \/ \E want \in Wants[service] : Begin(h, want)
        \/ DoRead(h) \/ DoWrite(h) \/ DoCompare(h) \/ DoRestart(h) \/ RestartFails(h)
        \/ DoOpen(h) \/ DoMove(h) \/ DoSave(h)
        \/ \E heard, answered \in BOOLEAN : DoTell(h, heard, answered)
        \/ CutOff(h)

Spec == Init /\ [][Next]_vars

----------------------------------------------------------------------------
(* Properties *)

AtRest == \A h \in Handlers : job[h] = Idle

\* A service runs what its files say, unless a request for it was cut off, its
\* restart failed, or a request wrote over what another had written since it
\* read (the checksums are of the wrong files then: the last writer may find
\* its own file unchanged and not restart); a later restart joins them again.
\* A part whose change restarts nothing, DSVPN's port and Glorytun's key, is
\* apart from the moment it is written.
RunsItsFiles ==
    AtRest => \A p \in Parts \ apart : live[p] = file[p]

\* Unless a request was cut off or two met, the port in a service's file is open,
\* for the restart that is to come when one has failed; and so is the port the
\* service listens on, unless it is still its old one because a restart failed
\* or DSVPN's port was changed alone.  The handlers open a new port before or
\* after the restart; MQVPN's closes the old one before it, and a restart that
\* then fails leaves the service listening behind a closed port.
ListensOpen ==
    AtRest /\ ~shut =>
        /\ "conf" \notin apart => live["conf"].port \in open
        /\ ~FixedPort => file["conf"].port \in open

\* What the router is told to connect with, Shadowsocks' port and SoftEther's
\* password in the user's record, is what the service runs with: after a
\* request that was served alone to its end, whatever went wrong before.  Except
\* when SoftEther answered that it refuses the password: the handler saves it
\* all the same, and only a request that is taken makes the two agree again.
SavedIsRun ==
    AtRest /\ ~met /\ apart = {} =>
        /\ service \in {"shadowsocks", "shadowsocks_go"} => account = live["conf"]
        /\ service = "softethervpn" => account = live["key"]
=============================================================================
