----------------------------- MODULE WgLanGate -----------------------------
(***************************************************************************)
(* wg-remote-lan-route: the gate between road-warrior WireGuard clients    *)
(* and the router's LANs.  A timer runs the helper every 30 s, the API     *)
(* runs it to allow or deny access.  A run takes a file lock, decides from *)
(* the saved permission, the synchronised configuration and the tunnel     *)
(* what the gate should be, and changes the MQVPN server's routes, policy  *)
(* table 24612, its rule and the nftables set by one external command at a *)
(* time.  Any of them may fail, and the API kills a helper after 10 s.     *)
(*                                                                         *)
(* Of the configuration and the daemon only the primary user's LAN         *)
(* prefixes are kept.  The GUI set, changed in the same nft transactions,  *)
(* and the --dry-run mode, which changes nothing, are left out.            *)
(***************************************************************************)
CONSTANTS
    Lans,       \* the router's LAN prefixes
    Callers,    \* helper processes the API starts
    Timer,      \* the helper process of the timer
    Tunnels     \* what may lead to the router: nothing, an MQVPN device ("mqvpn"),
                \* the device of another VPN ("plain")

Procs == Callers \cup {Timer}

ASSUME GateAssumption ==
    /\ Timer \notin Callers
    /\ "none" \in Tunnels /\ Tunnels \subseteq {"none", "plain", "mqvpn"}

VARIABLES
    saved,      \* whether the state file says "allow" (absent: deny)
    ruleset,    \* whether NFT_RULESET is installed
    gate,       \* the nftables set wg_remote_lan_v4
    routes,     \* the routes of policy table 24612
    rule,       \* whether the policy rule is there
    cfg,        \* the synchronised configuration, as the helper parses it
    tunnel,     \* what `ip route get' answers for the router's address; "none" also
                \* when the WireGuard interface is down
    mqroutes,   \* the primary user's routes in the MQVPN server
    mqready,    \* the MQVPN server answers, with one session of that user
    lock,       \* the processes that hold the lock: none or one
    pc,         \* pc[p]: where process p is
    job,        \* job[p]: what p has decided
    steady,     \* history: since the holder of the lock decided, the
                \* configuration, the tunnel and MQVPN have not changed
    moved,      \* history: which of its preparations the latest holder lost: the
                \* routes, with the tunnel, or MQVPN's, which restarted or was told
                \* of another configuration than the one it decided from
    faulted     \* history: the latest run to hold the lock was killed, or failed
                \* while cleaning up

env   == <<cfg, tunnel, mqroutes, mqready, ruleset>>
nets  == <<gate, routes, rule>>
hist  == <<steady, moved, faulted>>
vars  == <<saved, gate, routes, rule, env, lock, pc, job, hist>>

Steps == {"idle", "wait", "decide", "mq", "prune", "add", "rule", "publish",
          "mqall", "save", "close", "clear", "badclose", "badclear",
          "unsave", "failclose", "failclear"}

\* The states in which a helper is between flock and the lock's release.
Inside(p) == pc[p] \notin {"idle", "wait"}

NoJob == [act |-> "none", on |-> FALSE, lans |-> {}, via |-> "none", left |-> {}]

Jobs == [act  : {"none", "refresh", "allow", "deny"},
         on   : BOOLEAN,            \* enabled
         lans : SUBSET Lans,        \* networks
         via  : Tunnels,            \* device
         left : SUBSET Lans]        \* what the loop at hand has still to do

\* remote is whether the router has a tunnel address.  Malformed is a text that
\* does not parse, or has values the helper refuses.
Malformed == [ok |-> FALSE, remote |-> FALSE, lans |-> {}]

Configs == [ok : {TRUE}, remote : BOOLEAN, lans : SUBSET Lans] \cup {Malformed}

\* Types; one process at most holds the lock.
TypeOK ==
    /\ saved \in BOOLEAN /\ ruleset \in BOOLEAN
    /\ gate \in SUBSET Lans /\ routes \in SUBSET Lans /\ rule \in BOOLEAN
    /\ cfg \in Configs /\ tunnel \in Tunnels
    /\ mqroutes \in SUBSET Lans /\ mqready \in BOOLEAN
    /\ lock \in {{}} \cup {{p} : p \in Procs}
    /\ pc \in [Procs -> Steps]
    /\ job \in [Procs -> Jobs]
    /\ steady \in BOOLEAN /\ moved \in SUBSET {"tunnel", "mqroutes"} /\ faulted \in BOOLEAN

Init ==
    /\ saved = FALSE /\ ruleset \in BOOLEAN
    /\ gate = {} /\ routes = {} /\ rule = FALSE
    /\ cfg = [ok |-> TRUE, remote |-> FALSE, lans |-> {}] /\ tunnel = "none"
    /\ mqroutes = {} /\ mqready = FALSE
    /\ lock = {}
    /\ pc = [p \in Procs |-> "idle"]
    /\ job = [p \in Procs |-> NoJob]
    /\ steady = TRUE /\ moved = {} /\ faulted = FALSE

Goto(p, label) == pc' = [pc EXCEPT ![p] = label]

\* The process ends and its lock goes with it.
Leave(p) ==
    /\ Goto(p, "idle")
    /\ job' = [job EXCEPT ![p] = NoJob]
    /\ lock' = lock \ {p}

\* After the last change: an explicit allow or deny is saved.
Finish(p) ==
    IF job[p].act = "refresh" THEN Leave(p)
                              ELSE Goto(p, "save") /\ UNCHANGED <<job, lock>>

----------------------------------------------------------------------------
(* One run of the helper *)

Call(p, act) ==
    /\ pc[p] = "idle"
    /\ act = "refresh" <=> p = Timer
    /\ Goto(p, "wait")
    /\ job' = [job EXCEPT ![p] = [NoJob EXCEPT !.act = act]]
    /\ UNCHANGED <<saved, nets, env, lock, hist>>

\* Mutant: no flock.
AcquireNothing(p) ==
    /\ pc[p] = "wait"
    /\ Goto(p, "decide")
    /\ lock' = lock \cup {p}
    /\ steady' = TRUE /\ moved' = {} /\ faulted' = FALSE
    /\ UNCHANGED <<saved, nets, env, job>>

Acquire(p) ==
    /\ pc[p] = "wait"
    /\ lock = {}
    /\ Goto(p, "decide")
    /\ lock' = {p}
    /\ steady' = TRUE /\ moved' = {} /\ faulted' = FALSE
    /\ UNCHANGED <<saved, nets, env, job>>

Enabled(p) == job[p].act = "allow" \/ (job[p].act # "deny" /\ saved)

\* The LANs to let in: configured_lan returns none without a router address,
\* and none is allowed without a tunnel to it.
AllowedNow(p) ==
    IF Enabled(p) /\ cfg.remote /\ tunnel # "none" THEN cfg.lans ELSE {}

\* Mutant: MQVPN is not told before its LANs are published.
DecideUnregistered(p) ==
    LET allowed == AllowedNow(p)
        clears  == ~ruleset \/ allowed = {}
    IN  /\ pc[p] = "decide"
        /\ cfg.ok
        /\ job[p].act = "allow" => allowed # {} /\ ruleset
        /\ Goto(p, IF ~ruleset THEN "clear" ELSE IF allowed = {} THEN "close" ELSE "prune")
        /\ job' = [job EXCEPT ![p] = [@ EXCEPT
                     !.on = Enabled(p), !.lans = allowed, !.via = tunnel,
                     !.left = IF clears THEN {} ELSE routes \ allowed]]
        /\ UNCHANGED <<saved, nets, env, lock, hist>>

\* Mutant: a refresh that finds access denied has nothing to do.
DecideQuiet(p) ==
    LET allowed == AllowedNow(p)
        clears  == ~ruleset \/ allowed = {}
    IN  /\ pc[p] = "decide"
        /\ cfg.ok
        /\ job[p].act = "allow" => allowed # {} /\ ruleset
        /\ IF job[p].act = "refresh" /\ ~Enabled(p) THEN Leave(p)
           ELSE /\ Goto(p, IF ~ruleset THEN "clear" ELSE IF allowed = {} THEN "close"
                           ELSE IF tunnel = "mqvpn" THEN "mq" ELSE "prune")
                /\ job' = [job EXCEPT ![p] = [@ EXCEPT
                     !.on = Enabled(p), !.lans = allowed, !.via = tunnel,
                     !.left = IF clears \/ tunnel = "mqvpn" THEN {} ELSE routes \ allowed]]
                /\ UNCHANGED lock
        /\ UNCHANGED <<saved, nets, env, hist>>

\* reconcile up to the first command, for a configuration that parses.
Decide(p) ==
    LET allowed == AllowedNow(p)
        clears  == ~ruleset \/ allowed = {}
    IN  /\ pc[p] = "decide"
        /\ cfg.ok
        /\ job[p].act = "allow" => allowed # {} /\ ruleset
        /\ Goto(p, IF ~ruleset THEN "clear" ELSE IF allowed = {} THEN "close"
                   ELSE IF tunnel = "mqvpn" THEN "mq" ELSE "prune")
        /\ job' = [job EXCEPT ![p] = [@ EXCEPT
                     !.on = Enabled(p), !.lans = allowed, !.via = tunnel,
                     !.left = IF clears \/ tunnel = "mqvpn" THEN {} ELSE routes \ allowed]]
        /\ UNCHANGED <<saved, nets, env, lock, hist>>

\* Malformed synchronised state revokes what was allowed, then raises.
DecideMalformed(p) ==
    /\ pc[p] = "decide"
    /\ ~cfg.ok
    /\ Goto(p, IF ruleset THEN "badclose" ELSE "unsave")
    /\ UNCHANGED <<saved, nets, env, lock, job, hist>>

\* An allow that has nothing to open, or no firewall to open, raises.
DecideRefuses(p) ==
    /\ pc[p] = "decide"
    /\ cfg.ok
    /\ job[p].act = "allow" /\ (AllowedNow(p) = {} \/ ~ruleset)
    /\ Goto(p, "unsave")
    /\ UNCHANGED <<saved, nets, env, lock, job, hist>>

\* sync_mqvpn_routes(require_primary=True): reads the configuration again,
\* registers the LANs it finds there and checks the answer against them, not
\* against the LANs about to be published.
RegisterPrimary(p) ==
    /\ pc[p] = "mq"
    /\ mqready /\ cfg.ok
    /\ mqroutes' = cfg.lans
    /\ Goto(p, "prune")
    /\ job' = [job EXCEPT ![p].left = routes \ job[p].lans]
    /\ moved' = IF cfg.lans = job[p].lans THEN moved ELSE moved \cup {"mqroutes"}
    /\ UNCHANGED <<saved, nets, cfg, tunnel, mqready, ruleset, lock, steady, faulted>>

\* Mutant: routes that are no longer wanted stay.
PruneNothing(p) ==
    /\ pc[p] = "prune"
    /\ job' = [job EXCEPT ![p].left = job[p].lans]
    /\ Goto(p, "add")
    /\ UNCHANGED <<saved, nets, env, lock, hist>>

\* `ip route del' of the routes that are no longer wanted.
Prune(p) ==
    /\ pc[p] = "prune"
    /\ \/ \E l \in job[p].left \cap routes :
             /\ routes' = routes \ {l}
             /\ job' = [job EXCEPT ![p].left = @ \ {l}]
             /\ UNCHANGED pc
       \/ /\ job[p].left = {}
          /\ job' = [job EXCEPT ![p].left = job[p].lans]
          /\ Goto(p, "add")
          /\ UNCHANGED routes
    /\ UNCHANGED <<saved, gate, rule, env, lock, hist>>

\* `ip route replace'.
AddRoutes(p) ==
    /\ pc[p] = "add"
    /\ \/ \E l \in job[p].left :
             /\ routes' = routes \cup {l}
             /\ job' = [job EXCEPT ![p].left = @ \ {l}]
             /\ UNCHANGED pc
       \/ /\ job[p].left = {}
          /\ Goto(p, "rule")
          /\ UNCHANGED <<job, routes>>
    /\ UNCHANGED <<saved, gate, rule, env, lock, hist>>

\* Mutant: a rule that is there already means there is nothing left to do.
AddRuleOnce(p) ==
    /\ pc[p] = "rule"
    /\ rule' = TRUE
    /\ IF rule THEN Finish(p) ELSE Goto(p, "publish") /\ UNCHANGED <<job, lock>>
    /\ UNCHANGED <<saved, gate, routes, env, hist>>

AddRule(p) ==
    /\ pc[p] = "rule"
    /\ rule' = TRUE
    /\ Goto(p, "publish")
    /\ UNCHANGED <<saved, gate, routes, env, lock, job, hist>>

Publish(p) ==
    /\ pc[p] = "publish"
    /\ gate' = job[p].lans
    /\ IF job[p].via = "mqvpn" THEN Finish(p)
                               ELSE Goto(p, "mqall") /\ UNCHANGED <<job, lock>>
    /\ UNCHANGED <<saved, routes, rule, env, hist>>

\* sync_mqvpn_routes without require_primary: its failures are only logged.
RegisterAll(p) ==
    /\ pc[p] = "mqall"
    /\ mqroutes' \in {mqroutes} \cup (IF cfg.ok THEN {cfg.lans} ELSE {})
    /\ Finish(p)
    /\ UNCHANGED <<saved, nets, cfg, tunnel, mqready, ruleset, hist>>

Save(p) ==
    /\ pc[p] = "save"
    /\ saved' = job[p].on
    /\ Leave(p)
    /\ UNCHANGED <<nets, env, hist>>

\* sync_nft with no LAN, in the three places that call it.
Close(p) ==
    /\ pc[p] \in {"close", "badclose", "failclose"}
    /\ gate' = {}
    /\ Goto(p, CASE pc[p] = "close" -> "clear"
                 [] pc[p] = "badclose" -> "badclear"
                 [] pc[p] = "failclose" -> "failclear")
    /\ UNCHANGED <<saved, routes, rule, env, lock, job, hist>>

\* clear_policy_routes: the routes one by one, then the rule.
ClearRoute(p) ==
    /\ pc[p] \in {"clear", "badclear", "failclear"}
    /\ \E l \in routes : routes' = routes \ {l}
    /\ UNCHANGED <<saved, gate, rule, env, lock, pc, job, hist>>

ClearRule(p) ==
    /\ pc[p] \in {"clear", "badclear", "failclear"}
    /\ routes = {}
    /\ rule' = FALSE
    /\ CASE pc[p] = "clear" -> Goto(p, "mqall") /\ UNCHANGED <<job, lock>>
         [] pc[p] = "badclear" -> Goto(p, "unsave") /\ UNCHANGED <<job, lock>>
         [] pc[p] = "failclear" -> Leave(p)
    /\ UNCHANGED <<saved, gate, routes, env, hist>>

----------------------------------------------------------------------------
(* What can go wrong in it *)

\* Mutant: a failed run only withdraws the permission.
UnsaveOnly(p) ==
    /\ pc[p] = "unsave"
    /\ saved' = FALSE
    /\ Leave(p)
    /\ UNCHANGED <<nets, env, hist>>

\* A command of reconcile, or saving the state, raises.  MQVPN's answer may
\* still be refused once it has taken the routes.
Fails(p) ==
    /\ pc[p] \in {"decide", "mq", "prune", "add", "rule", "publish", "save",
                  "close", "clear", "badclose", "badclear"}
    /\ Goto(p, "unsave")
    /\ mqroutes' \in {mqroutes} \cup (IF pc[p] = "mq" /\ cfg.ok THEN {cfg.lans} ELSE {})
    /\ UNCHANGED <<saved, nets, cfg, tunnel, mqready, ruleset, lock, job, hist>>

\* The handler of a failed run withdraws the permission before anything else.
Unsave(p) ==
    /\ pc[p] = "unsave"
    /\ saved' = FALSE
    /\ Goto(p, IF ruleset THEN "failclose" ELSE "failclear")
    /\ UNCHANGED <<nets, env, lock, job, hist>>

\* The handler itself raises: nothing after set_lan_access is tried then, and
\* the routes are still cleared when nft fails.
CleanupFails(p) ==
    /\ pc[p] \in {"unsave", "failclose", "failclear"}
    /\ IF pc[p] = "failclose" THEN Goto(p, "failclear") /\ UNCHANGED <<job, lock>>
                              ELSE Leave(p)
    /\ faulted' = TRUE
    /\ UNCHANGED <<saved, nets, env, steady, moved>>

\* The API's timeout kills the helper it started; the kernel drops its lock.
Killed(p) ==
    /\ p \in Callers
    /\ pc[p] # "idle"
    /\ Leave(p)
    /\ faulted' = (faulted \/ Inside(p))
    /\ UNCHANGED <<saved, nets, env, steady, moved>>

----------------------------------------------------------------------------
(* The rest of the VPS *)

\* POST /lan and /vpnips write the configuration; it does not parse while one
\* of them is between its open and its dump.
Reconfigure ==
    /\ cfg' \in Configs \ {cfg}
    /\ steady' = FALSE
    /\ UNCHANGED <<saved, nets, tunnel, mqroutes, mqready, ruleset, lock, pc, job, moved, faulted>>

\* The tunnel or the WireGuard interface changes; the kernel drops the routes
\* through a device that goes.
TunnelChanges ==
    /\ tunnel' \in Tunnels \ {tunnel}
    /\ routes' \in {routes, {}}
    /\ steady' = FALSE
    /\ moved' = moved \cup {"tunnel"}
    /\ UNCHANGED <<saved, gate, rule, cfg, mqroutes, mqready, ruleset, lock, pc, job, faulted>>

\* The MQVPN server restarts and forgets, or the router's session comes back.
MqvpnChanges ==
    /\ mqready' = ~mqready
    /\ mqroutes' = IF mqready' THEN mqroutes ELSE {}
    /\ steady' = FALSE
    /\ moved' = moved \cup {"mqroutes"}
    /\ UNCHANGED <<saved, nets, cfg, tunnel, ruleset, lock, pc, job, faulted>>

\* `flush ruleset' on a reload of nftables: both sets start empty.
ReloadFirewall ==
    /\ ruleset /\ gate # {}
    /\ gate' = {}
    /\ UNCHANGED <<saved, routes, rule, env, lock, pc, job, hist>>

InstallFirewall ==
    /\ ~ruleset
    /\ ruleset' = TRUE
    /\ UNCHANGED <<saved, nets, cfg, tunnel, mqroutes, mqready, lock, pc, job, hist>>

Run(p) ==
    \/ Acquire(p) \/ Decide(p) \/ DecideMalformed(p) \/ DecideRefuses(p)
    \/ RegisterPrimary(p) \/ Prune(p) \/ AddRoutes(p) \/ AddRule(p) \/ Publish(p)
    \/ RegisterAll(p) \/ Save(p) \/ Close(p) \/ ClearRoute(p) \/ ClearRule(p)
    \/ Unsave(p)

Environment ==
    Reconfigure \/ TunnelChanges \/ MqvpnChanges \/ ReloadFirewall \/ InstallFirewall

Next ==
    \/ \E p \in Procs, act \in {"refresh", "allow", "deny"} : Call(p, act)
    \/ \E p \in Procs : Run(p) \/ Fails(p) \/ CleanupFails(p) \/ Killed(p)
    \/ Environment

Spec == Init /\ [][Next]_vars

\* Fairness: systemd calls the timer's helper again and again and never kills
\* it; a helper that holds the lock comes to the end of each command, one way
\* or the other; the kernel does not pass a waiting helper over for ever; and
\* removing the state file and closing the set do not fail every single time.
Moves(p) == Run(p) \/ Fails(p) \/ CleanupFails(p)

FairSpec ==
    /\ Spec
    /\ WF_vars(Call(Timer, "refresh"))
    /\ \A p \in Procs : WF_vars(Moves(p))
    /\ SF_vars(Acquire(Timer)) /\ SF_vars(Unsave(Timer)) /\ SF_vars(Close(Timer))

----------------------------------------------------------------------------
(* Safety *)

\* Between runs an open gate is a saved permission, whatever failed on the
\* way, unless the latest run was killed or could not clean up.
OpenIsSaved == lock = {} /\ gate # {} /\ ~faulted => saved

\* Once a run has ended and the world has not changed under it, an open gate
\* shows exactly the LANs of the configuration, the policy table holds their
\* routes and no other, the rule leads to it and an MQVPN server knows them.
Settled ==
    lock = {} /\ steady /\ ~faulted /\ gate # {} =>
        /\ cfg.ok /\ cfg.remote /\ tunnel # "none"
        /\ gate = cfg.lans /\ routes = gate /\ rule
        /\ tunnel = "mqvpn" => mqroutes = gate

\* LANs enter the gate only when the rule and their routes are there and, behind
\* MQVPN, the server's routes ("Publish the allowed LANs only after their routes
\* are ready"), whatever the configuration did meanwhile, but for what was lost
\* after it was made ready: the routes, when the tunnel changed since the helper
\* decided, and the server's, when it or the tunnel changed, or when
\* sync_mqvpn_routes read and registered another configuration than the one
\* decided from.  "Register and verify the primary user's LAN prefixes before
\* publishing" does not hold then: the server knows the new LANs and the gate
\* lets in the old ones, until the next run.
PublishedIsReady ==
    [][gate' \ gate # {} =>
         /\ rule
         /\ "tunnel" \in moved \/ gate' \subseteq routes
         /\ tunnel = "mqvpn" => moved # {} \/ gate' \subseteq mqroutes]_vars

\* A shut gate opens only while access is saved as allowed, or by an allow: a
\* refresh that overlaps a deny does not undo it.
OnlyAllowOpens ==
    [][gate = {} /\ gate' # {} =>
         saved \/ \E p \in lock : job[p].act = "allow"]_vars

\* "A failed allow or timer refresh must not leave an open gate" (a run killed
\* by the API's timeout does).
FailureShutsGate == lock = {} /\ gate # {} => saved

----------------------------------------------------------------------------
(* Liveness *)

\* A gate that is open without a permission is shut, or permitted, in the end.
UnsavedIsShut == gate # {} /\ ~saved ~> gate = {} \/ saved

\* While access stays allowed and possible, the gate shows the LANs again and
\* again, however often a reload of the firewall empties it.
AllowedIsRestored ==
    \A lans \in SUBSET Lans :
        <>[](/\ saved /\ ruleset
             /\ cfg = [ok |-> TRUE, remote |-> TRUE, lans |-> lans]
             /\ tunnel # "none" /\ (tunnel = "mqvpn" => mqready))
        => []<>(gate = lans)
=============================================================================
