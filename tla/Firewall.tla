------------------------------ MODULE Firewall ------------------------------
(***************************************************************************)
(* The nftables engine: the chains user_accept, user_dnat, client2client   *)
(* and ct_helpers of table inet omr, rendered from omr-admin-config.json.  *)
(* A handler writes its change into the file (modif_config_user or         *)
(* set_global_param, each a reading and a write) and then renders what it  *)
(* reads next; each chain is replaced by a transaction of its own.  A      *)
(* (re)load of the ruleset empties the chains and asks systemd to restart  *)
(* the service, whose workers render everything as they start.             *)
(*                                                                         *)
(* Of the configuration there is what IPv4 rules are rendered from, for    *)
(* one user; a firewall entry is its key.  How the file itself may break   *)
(* is the subject of ConfigStore: here a text is whole again after each    *)
(* dump.  The chains gre_snat and dscp_mark and OpenVPN's client-to-client *)
(* line are left out.                                                      *)
(***************************************************************************)
EXTENDS Integers

CONSTANTS
    Opens,      \* keys of ACCEPT entries of fw_ports
    Redirects,  \* keys of DNAT entries
    Bulk,       \* the rules of the bulk redirect
    Addrs,      \* tunnel addresses of the router (vpnremoteip)
    NoAddr,     \* not known yet
    Workers,    \* the uvicorn workers
    Threads,    \* their handler threads
    Home,       \* Home[t]: the worker of thread t
    Requests,   \* Requests[t]: those that routers and administrators send to thread t
    Casts,      \* who takes part: sets of workers with threads of theirs
    MaxFaults   \* bound: reloads, deaths of a worker, refusals by nft

Procs == Workers \cup Threads
Keys  == Opens \cup Redirects

Docs == [ports : SUBSET Keys, addr : Addrs \cup {NoAddr},
         bulk : BOOLEAN, c2c : BOOLEAN, sip : BOOLEAN]

\* "other" stands for each handler that writes a key nothing is rendered from,
\* /vpnips with the address that is saved already included.
AllRequests ==
    [op : {"add", "del"}, key : Keys] \cup [op : {"addr"}, addr : Addrs]
      \cup [op : {"bulk", "c2c", "sip"}, on : BOOLEAN] \cup [op : {"other"}]

ASSUME FirewallAssumption ==
    /\ Opens \cap Redirects = {} /\ Bulk \notin Keys
    /\ NoAddr \notin Addrs
    /\ Workers \cap Threads = {} /\ Home \in [Threads -> Workers]
    /\ Requests \in [Threads -> SUBSET AllRequests]
    /\ \A cast \in Casts : cast \subseteq Procs /\ \A t \in cast \cap Threads : Home[t] \in cast
    /\ MaxFaults \in Nat

VARIABLES
    conf,       \* the last document dumped into the file
    text,       \* whether the file parses: "whole", or "empty" during a write
    table,      \* whether the base ruleset is loaded
    chain,      \* the contents of the chains
    pc,         \* pc[p]: where thread or worker p is
    job,        \* job[p]: what it knows
    restart,    \* a restart of the service is queued
    faults,     \* how many faults there were
    apart       \* history: chains that may differ from the configuration

vars == <<conf, text, table, chain, pc, job, restart, faults, apart>>

Ports  == {"accept", "dnat"}
Chains == Ports \cup {"c2c", "sip"}

Empty == [accept |-> {}, dnat |-> {}, c2c |-> FALSE, sip |-> FALSE]

ShippedDoc == [ports |-> {}, addr |-> NoAddr, bulk |-> FALSE, c2c |-> FALSE, sip |-> FALSE]

\* Mutant: a redirection is rendered before the tunnel address is known.
RenderUnaddressed(d) ==
    [accept |-> d.ports \cap Opens,
     dnat   |-> {<<k, d.addr>> : k \in (d.ports \cap Redirects)
                                       \cup (IF d.bulk THEN {Bulk} ELSE {})},
     c2c    |-> d.c2c,
     sip    |-> d.sip]

\* A redirection without a tunnel address is not rendered.
Render(d) ==
    [accept |-> d.ports \cap Opens,
     dnat   |-> {<<k, d.addr>> : k \in IF d.addr = NoAddr THEN {}
                    ELSE (d.ports \cap Redirects) \cup (IF d.bulk THEN {Bulk} ELSE {})},
     c2c    |-> d.c2c,
     sip    |-> d.sip]

Steps == {"absent", "idle", "read", "write", "dump", "more",
          "down", "boot", "serving",
          "sync", "accept", "dnat", "c2csync", "c2c", "sip"}

\* req: the request; ports: the new fw_ports, from the handler's first reading;
\* doc: the latest reading; sip: the SIP flag to apply; wrote: the writes done;
\* fresh: which of doc and sip are still what the file has, no write since.
NoJob == [req |-> [op |-> "other"], ports |-> {}, doc |-> ShippedDoc,
          sip |-> FALSE, wrote |-> 0, fresh |-> {}]

TypeOK ==
    /\ conf \in Docs /\ text \in {"whole", "empty"}
    /\ table \in BOOLEAN /\ restart \in BOOLEAN
    /\ chain \in [accept : SUBSET Opens, dnat : SUBSET ((Redirects \cup {Bulk}) \X Addrs),
                  c2c : BOOLEAN, sip : BOOLEAN]
    /\ pc \in [Procs -> Steps]
    /\ job \in [Procs -> [req : AllRequests, ports : SUBSET Keys, doc : Docs,
                          sip : BOOLEAN, wrote : 0..3, fresh : SUBSET {"doc", "sip"}]]
    /\ faults \in 0..MaxFaults
    /\ apart \subseteq Chains

\* The package is installed and started before or after the base ruleset.
Init ==
    /\ conf = ShippedDoc /\ text = "whole"
    /\ table \in BOOLEAN /\ chain = Empty
    /\ \E cast \in Casts :
         pc = [p \in Procs |-> IF p \notin cast THEN "absent"
                               ELSE IF p \in Workers THEN "down" ELSE "idle"]
    /\ job = [p \in Procs |-> NoJob]
    /\ restart = FALSE /\ faults = 0 /\ apart = {}

Goto(p, label) == pc' = [pc EXCEPT ![p] = label]

Go(p, label, j) == Goto(p, label) /\ job' = [job EXCEPT ![p] = j]

\* The handler ends.
Leave(t) == Go(t, "idle", NoJob)

Fault == faults < MaxFaults /\ faults' = faults + 1

----------------------------------------------------------------------------
(* A handler saves its change *)

\* _fw_port_add ends here for an entry that is there, _fw_port_del for one that
\* is not, and /vpnips goes on as "other" with the address it has.
Request(t, r) ==
    /\ pc[t] = "idle" /\ pc[Home[t]] = "serving"
    /\ r.op \in {"add", "del", "addr"} => text = "whole"
    /\ r.op = "add" => r.key \notin conf.ports
    /\ r.op = "del" => r.key \in conf.ports
    /\ r.op = "addr" => r.addr # conf.addr
    /\ Go(t, "read", [NoJob EXCEPT !.req = r,
            !.ports = CASE r.op = "add" -> conf.ports \cup {r.key}
                        [] r.op = "del" -> conf.ports \ {r.key}
                        [] OTHER -> {}])
    /\ UNCHANGED <<conf, text, table, chain, restart, faults, apart>>

\* The document a write leaves, from the reading j.doc.
Changed(j, d) ==
    CASE j.req.op \in {"add", "del"}          -> [d EXCEPT !.ports = j.ports]
      [] j.req.op = "addr" /\ j.wrote = 0     -> [d EXCEPT !.addr = j.req.addr]
      [] j.req.op = "bulk"                    -> [d EXCEPT !.bulk = j.req.on]
      [] j.req.op = "c2c"                     -> [d EXCEPT !.c2c = j.req.on]
      [] j.req.op = "sip"                     -> [d EXCEPT !.sip = j.req.on]
      [] OTHER                                -> d

\* Whether the write changes a key nothing is rendered from.
Beside(j) == j.req.op = "other" \/ (j.req.op = "addr" /\ j.wrote > 0)

\* Mutant: _fw_port_del renders nothing.
ThenIdle(j) ==
    CASE j.req.op \in {"add", "bulk"}    -> "sync"
      [] j.req.op = "addr"               -> "more"
      [] j.req.op = "c2c"                -> "c2csync"
      [] j.req.op = "sip"                -> "sip"
      [] j.req.op \in {"other", "del"}   -> "idle"

\* Where a handler goes when it has saved its change.
Then(j) ==
    CASE j.req.op \in {"add", "del", "bulk"} -> "sync"
      [] j.req.op = "addr"                   -> "more"
      [] j.req.op = "c2c"                    -> "c2csync"
      [] j.req.op = "sip"                    -> "sip"
      [] j.req.op = "other"                  -> "idle"

\* What a handler still needs when it has saved its change.
Saved(j) == IF j.req.op = "sip" THEN [NoJob EXCEPT !.sip = j.req.on, !.fresh = j.fresh]
                                ELSE NoJob

\* The chains a handler renders.
Renders(r) ==
    CASE r.op \in {"add", "del", "bulk", "addr"} -> Ports
      [] r.op \in {"c2c", "sip"}                 -> {r.op}
      [] r.op = "other"                          -> {}

Read(t) ==
    /\ pc[t] = "read"
    /\ text = "whole"
    /\ LET j == [job[t] EXCEPT !.doc = conf, !.fresh = {"doc", "sip"}] IN
         \/ /\ Beside(j) \/ Changed(j, conf) # conf
            /\ Go(t, "write", j)
         \/ /\ ~Beside(j) /\ Changed(j, conf) = conf
            /\ Go(t, Then(j), IF j.req.op = "addr" THEN j ELSE Saved(j))
    /\ UNCHANGED <<conf, text, table, chain, restart, faults, apart>>

\* set_global_param finds the file unreadable, and its caller goes on.
ReadNothing(t) ==
    /\ pc[t] = "read"
    /\ text # "whole"
    /\ job[t].req.op \in {"bulk", "c2c", "sip"}
    /\ Go(t, Then(job[t]), Saved(job[t]))
    /\ UNCHANGED <<conf, text, table, chain, restart, faults, apart>>

\* json.load or backup_config raises, or /vpnips's other files: the handler
\* ends, and renders nothing of what it may have saved.
Raises(t) ==
    /\ \/ pc[t] = "read" /\ text # "whole" /\ job[t].req.op \notin {"bulk", "c2c", "sip"}
       \/ pc[t] \in {"write", "more"}
    /\ apart' = IF job[t].wrote > 0 THEN apart \cup Renders(job[t].req) ELSE apart
    /\ Leave(t)
    /\ UNCHANGED <<conf, text, table, chain, restart, faults>>

Truncate(t) ==
    /\ pc[t] = "write"
    /\ text' = "empty"
    /\ Goto(t, "dump")
    /\ UNCHANGED <<conf, table, chain, job, restart, faults, apart>>

\* A write from an old reading undoes what was saved since, and the handler
\* renders its own chains only.
Dump(t) ==
    LET j == job[t] IN
    /\ pc[t] = "dump"
    /\ conf' = Changed(j, j.doc)
    /\ text' = "whole"
    /\ apart' = IF "doc" \in j.fresh THEN apart ELSE apart \cup (Chains \ Renders(j.req))
    /\ Goto(t, Then(j))
    /\ job' = [p \in Procs |->
                 IF p # t THEN [job[p] EXCEPT !.fresh = {}]
                 ELSE IF Then(j) = "more" THEN [j EXCEPT !.wrote = @ + 1, !.fresh = {}]
                 ELSE Saved([j EXCEPT !.fresh = {"sip"}])]
    /\ UNCHANGED <<table, chain, restart, faults>>

\* /vpnips may save the local address and the ULA too before it renders.
More(t) ==
    /\ pc[t] = "more"
    /\ \/ job[t].wrote < 3 /\ Goto(t, "read")
       \/ Goto(t, "sync")
    /\ UNCHANGED <<conf, text, table, chain, job, restart, faults, apart>>

----------------------------------------------------------------------------
(* Rendering, by a handler or by a starting worker *)

\* What comes after the port chains, client2client and ct_helpers: a worker goes
\* on with the flag it read first.
Forget(p, label) == Go(p, label, [NoJob EXCEPT !.sip = job[p].sip, !.fresh = job[p].fresh \ {"doc"}])

AfterPorts(p) == IF p \in Workers THEN Forget(p, "c2csync") ELSE Leave(p)

AfterC2c(p) == IF p \in Workers THEN Forget(p, "sip") ELSE Leave(p)
AfterSip(p) == IF p \in Workers THEN Go(p, "serving", NoJob) ELSE Leave(p)

\* _nft_sync_ports reads the file, and gives up if it does not parse.
SyncPorts(p) ==
    /\ pc[p] = "sync"
    /\ IF text = "whole"
       THEN /\ Go(p, "accept", [job[p] EXCEPT !.doc = conf, !.fresh = @ \cup {"doc"}])
            /\ UNCHANGED apart
       ELSE /\ AfterPorts(p)
            /\ apart' = apart \cup Ports
    /\ UNCHANGED <<conf, text, table, chain, restart, faults>>

\* _nft_sync_client2client takes a file that does not parse for a disabled flag.
SyncC2c(p) ==
    /\ pc[p] = "c2csync"
    /\ Go(p, "c2c", IF text = "whole"
                    THEN [job[p] EXCEPT !.doc = conf, !.fresh = @ \cup {"doc"}]
                    ELSE [job[p] EXCEPT !.doc = [conf EXCEPT !.c2c = FALSE],
                                        !.fresh = @ \ {"doc"}])
    /\ UNCHANGED <<conf, text, table, chain, restart, faults, apart>>

\* A chain shows what was read; it is as saved if that reading is still good.
Shows(c, fresh) == apart' = IF fresh THEN apart \ {c} ELSE apart \cup {c}

ApplyAccept(p) ==
    /\ pc[p] = "accept" /\ table
    /\ chain' = [chain EXCEPT !.accept = Render(job[p].doc).accept]
    /\ Shows("accept", "doc" \in job[p].fresh)
    /\ Goto(p, "dnat")
    /\ UNCHANGED <<conf, text, table, job, restart, faults>>

ApplyDnat(p) ==
    /\ pc[p] = "dnat" /\ table
    /\ chain' = [chain EXCEPT !.dnat = Render(job[p].doc).dnat]
    /\ Shows("dnat", "doc" \in job[p].fresh)
    /\ AfterPorts(p)
    /\ UNCHANGED <<conf, text, table, restart, faults>>

ApplyC2c(p) ==
    /\ pc[p] = "c2c" /\ table
    /\ chain' = [chain EXCEPT !.c2c = Render(job[p].doc).c2c]
    /\ Shows("c2c", "doc" \in job[p].fresh)
    /\ AfterC2c(p)
    /\ UNCHANGED <<conf, text, table, restart, faults>>

\* /sipalg applies the flag it was sent, a worker the one it read first.
ApplySip(p) ==
    /\ pc[p] = "sip" /\ table
    /\ chain' = [chain EXCEPT !.sip = job[p].sip]
    /\ Shows("sip", "sip" \in job[p].fresh)
    /\ AfterSip(p)
    /\ UNCHANGED <<conf, text, table, restart, faults>>

\* nft refuses a transaction, as it must without the table: the result is
\* logged, and user_dnat is not tried when user_accept was refused.
NftFails(p) ==
    /\ pc[p] \in Chains
    /\ \/ ~table /\ UNCHANGED faults
       \/ table /\ Fault
    /\ apart' = apart \cup (IF pc[p] = "accept" THEN Ports ELSE {pc[p]})
    /\ CASE pc[p] \in Ports -> AfterPorts(p)
         [] pc[p] = "c2c"   -> AfterC2c(p)
         [] pc[p] = "sip"   -> AfterSip(p)
    /\ UNCHANGED <<conf, text, table, chain, restart>>

----------------------------------------------------------------------------
(* The service and the ruleset *)

\* Importing the module parses the file, and fails on a text that does not.
Start(w) ==
    /\ pc[w] = "down"
    /\ text = "whole"
    /\ Goto(w, "boot")
    /\ UNCHANGED <<conf, text, table, chain, job, restart, faults, apart>>

\* _nft_resync_all: without the base table there is nothing to render into.
Resync(w) ==
    /\ pc[w] = "boot"
    /\ Go(w, IF table THEN "sync" ELSE "serving",
          IF table THEN [NoJob EXCEPT !.sip = text = "whole" /\ conf.sip,
                                      !.fresh = IF text = "whole" THEN {"sip"} ELSE {}]
                   ELSE NoJob)
    /\ UNCHANGED <<conf, text, table, chain, restart, faults, apart>>

Present == {p \in Procs : pc[p] # "absent"}

\* Workers W die with their threads.
Die(W) ==
    LET gone == {p \in Present : p \in W \/ (p \in Threads /\ Home[p] \in W)} IN
    /\ pc' = [p \in Procs |-> IF p \notin gone THEN pc[p]
                          ELSE IF p \in W THEN "down" ELSE "idle"]
    /\ job' = [p \in Procs |-> IF p \in gone THEN NoJob ELSE job[p]]

WorkerDies(w) ==
    /\ pc[w] \notin {"down", "absent"}
    /\ Fault
    /\ Die({w})
    /\ UNCHANGED <<conf, text, table, chain, restart, apart>>

\* Mutant: nftables.service without the drop-in.
LoadQuietly ==
    /\ IF table THEN Fault ELSE UNCHANGED faults
    /\ table' = TRUE
    /\ chain' = Empty
    /\ UNCHANGED <<conf, text, pc, job, restart, apart>>

\* nftables.service starts or reloads: the chains start empty, and its drop-in
\* queues a try-restart of omr-admin.
LoadRuleset ==
    /\ IF table THEN Fault ELSE UNCHANGED faults
    /\ table' = TRUE
    /\ chain' = Empty
    /\ restart' = TRUE
    /\ UNCHANGED <<conf, text, pc, job, apart>>

Restart ==
    /\ restart
    /\ restart' = FALSE
    /\ Die(Workers)
    /\ UNCHANGED <<conf, text, table, chain, faults, apart>>

Serve(t) ==
    Read(t) \/ ReadNothing(t) \/ Raises(t) \/ Truncate(t) \/ Dump(t) \/ More(t)

Apply(p) ==
    \/ SyncPorts(p) \/ SyncC2c(p) \/ ApplyAccept(p) \/ ApplyDnat(p)
    \/ ApplyC2c(p) \/ ApplySip(p) \/ NftFails(p)

Next ==
    \/ \E t \in Threads : Serve(t) \/ \E r \in Requests[t] : Request(t, r)
    \/ \E p \in Procs : Apply(p)
    \/ \E w \in Workers : Start(w) \/ Resync(w) \/ WorkerDies(w)
    \/ LoadRuleset \/ Restart

Spec == Init /\ [][Next]_vars

\* Fairness: a handler comes to its end, systemd and uvicorn start what has
\* died, a queued restart and the first load of the ruleset take place.
FairSpec ==
    /\ Spec
    /\ \A t \in Threads : WF_vars(Serve(t))
    /\ \A p \in Procs : WF_vars(Apply(p))
    /\ \A w \in Workers : WF_vars(Start(w) \/ Resync(w))
    /\ WF_vars(Restart) /\ WF_vars(~table /\ LoadRuleset)

----------------------------------------------------------------------------
(* Properties *)

\* Nobody is at work on the configuration or the chains.
Quiet ==
    /\ text = "whole" /\ table /\ ~restart
    /\ \A p \in Present : pc[p] = IF p \in Workers THEN "serving" ELSE "idle"

\* Between requests the firewall shows what is saved, after every sequence of
\* requests, reloads and restarts, except for chains whose latest rendering
\* failed, was overtaken by a write, or was not the business of the handler
\* that wrote.
SavedIsShown ==
    Quiet => \A c \in Chains \ apart : chain[c] = Render(conf)[c]

\* "An identical entry already present means nothing to write or resync": what
\* is saved is in its chain, when nobody is at work and nothing has failed.
PresentIsShown ==
    Quiet /\ faults = 0 =>
        /\ conf.ports \cap Opens \subseteq chain.accept
        /\ conf.addr # NoAddr =>
             \A k \in conf.ports \cap Redirects : <<k, conf.addr>> \in chain.dnat

\* When the saved configuration stays as it is, the firewall comes to show it,
\* whatever reloads and deaths there were: no chain stays empty because the
\* service started before the ruleset or was not told of a reload.
ShownAtLast ==
    \A d \in Docs :
        <>[](conf = d /\ text = "whole")
          => <>[](\A c \in Chains \ apart : chain[c] = Render(d)[c])
=============================================================================
