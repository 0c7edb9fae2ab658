---------------------------- MODULE WgLanGateProofs ----------------------------
(***************************************************************************)
(* Theorems about WgLanGate, for any LANs and any number of helpers that   *)
(* the API starts.                                                         *)
(***************************************************************************)
EXTENDS WgLanGate, TLAPS

----------------------------------------------------------------------------
(* Types *)

LEMMA ConfiguredLans ==
  ASSUME TypeOK
  PROVE  cfg.lans \in SUBSET Lans
<1>1. CASE cfg = Malformed
  BY <1>1 DEF Malformed
<1>2. CASE cfg \in [ok : {TRUE}, remote : BOOLEAN, lans : SUBSET Lans]
  BY <1>2
<1>3. QED
  BY <1>1, <1>2 DEF TypeOK, Configs

LEMMA NoJobIsJob == NoJob \in Jobs
  BY GateAssumption DEF NoJob, Jobs

LEMMA LeaveTypes ==
  ASSUME TypeOK, NEW p \in Procs, Leave(p)
  PROVE  /\ lock' \in {{}} \cup {{q} : q \in Procs}
         /\ pc' \in [Procs -> Steps]
         /\ job' \in [Procs -> Jobs]
<1>1. lock' \in {{}} \cup {{q} : q \in Procs}
  <2>1. CASE lock = {}
    BY <2>1 DEF Leave
  <2>2. ASSUME NEW q \in Procs, lock = {q} PROVE lock' \in {{}, {q}}
    BY <2>2 DEF Leave
  <2>3. QED
    BY <2>1, <2>2 DEF TypeOK
<1>2. pc' \in [Procs -> Steps] /\ job' \in [Procs -> Jobs]
  BY NoJobIsJob DEF Leave, Goto, TypeOK, Steps
<1>3. QED
  BY <1>1, <1>2

LEMMA FinishTypes ==
  ASSUME TypeOK, NEW p \in Procs, Finish(p)
  PROVE  /\ lock' \in {{}} \cup {{q} : q \in Procs}
         /\ pc' \in [Procs -> Steps]
         /\ job' \in [Procs -> Jobs]
  BY LeaveTypes DEF Finish, Goto, TypeOK, Steps

\* What a run does before it decides, and deciding.
LEMMA DecidingTypes ==
  ASSUME TypeOK, NEW p \in Procs, NEW act \in {"refresh", "allow", "deny"},
         \/ Call(p, act) \/ Acquire(p) \/ Decide(p) \/ DecideMalformed(p) \/ DecideRefuses(p)
  PROVE  TypeOK'
<1>1. CASE Call(p, act)
  <2>1. [NoJob EXCEPT !.act = act] \in Jobs
    BY GateAssumption DEF NoJob, Jobs
  <2>2. QED
    BY <1>1, <2>1 DEF Call, Goto, TypeOK, Steps, nets, env, hist
<1>2. CASE Acquire(p)
  BY <1>2 DEF Acquire, Goto, TypeOK, Steps, nets, env
<1>3. CASE Decide(p)
  <2> DEFINE allowed == AllowedNow(p)
             left == IF (~ruleset \/ allowed = {}) \/ tunnel = "mqvpn" THEN {} ELSE routes \ allowed
             j == [job[p] EXCEPT !.on = Enabled(p), !.lans = allowed, !.via = tunnel, !.left = left]
  <2>1. allowed \in SUBSET Lans
    BY ConfiguredLans DEF AllowedNow
  <2>2. left \in SUBSET Lans
    BY DEF TypeOK
  <2>3. Enabled(p) \in BOOLEAN
    BY DEF Enabled
  <2>4. j \in Jobs
    <3>1. job[p] \in Jobs /\ tunnel \in Tunnels
      BY DEF TypeOK
    <3> HIDE DEF allowed, left
    <3>2. QED
      BY <2>1, <2>2, <2>3, <3>1 DEF Jobs
  <2>5. job' = [job EXCEPT ![p] = j]
    BY <1>3 DEF Decide
  <2> HIDE DEF j
  <2>6. job' \in [Procs -> Jobs]
    BY <2>4, <2>5 DEF TypeOK
  <2>7. pc' \in [Procs -> Steps]
    BY <1>3 DEF Decide, Goto, TypeOK, Steps
  <2>8. QED
    BY <1>3, <2>6, <2>7 DEF Decide, TypeOK, nets, env, hist
<1>4. CASE DecideMalformed(p)
  BY <1>4 DEF DecideMalformed, Goto, TypeOK, Steps, nets, env, hist
<1>5. CASE DecideRefuses(p)
  BY <1>5 DEF DecideRefuses, Goto, TypeOK, Steps, nets, env, hist
<1>6. QED
  BY <1>1, <1>2, <1>3, <1>4, <1>5

\* A loop's set of LANs is changed.
LEMMA LeftTypes ==
  ASSUME TypeOK, NEW p \in Procs, NEW left \in SUBSET Lans
  PROVE  /\ [job[p] EXCEPT !.left = left] \in Jobs
         /\ [job EXCEPT ![p] = [job[p] EXCEPT !.left = left]] \in [Procs -> Jobs]
<1>1. job[p] \in Jobs
  BY DEF TypeOK
<1>2. [job[p] EXCEPT !.left = left] \in Jobs
  BY <1>1 DEF Jobs
<1>3. QED
  BY <1>2 DEF TypeOK

\* The way to an open gate.
LEMMA OpeningTypes ==
  ASSUME TypeOK, NEW p \in Procs,
         \/ RegisterPrimary(p) \/ Prune(p) \/ AddRoutes(p) \/ AddRule(p) \/ Publish(p)
         \/ RegisterAll(p) \/ Save(p)
  PROVE  TypeOK'
<1>0. job[p].lans \in SUBSET Lans /\ job[p].left \in SUBSET Lans /\ job[p].on \in BOOLEAN
  BY DEF TypeOK, Jobs
<1>1. CASE RegisterPrimary(p)
  <2>1. cfg.lans \in SUBSET Lans
    BY ConfiguredLans
  <2>2. job' \in [Procs -> Jobs]
    BY <1>1, LeftTypes DEF RegisterPrimary, TypeOK
  <2>3. QED
    BY <1>1, <2>1, <2>2 DEF RegisterPrimary, Goto, TypeOK, Steps, nets, hist
<1>2. CASE Prune(p)
  <2>1. ASSUME NEW l \in job[p].left \cap routes,
               routes' = routes \ {l}, job' = [job EXCEPT ![p].left = @ \ {l}], UNCHANGED pc
        PROVE  TypeOK'
    <3>1. job' \in [Procs -> Jobs]
      BY <1>0, <2>1, LeftTypes
    <3>2. QED
      BY <1>2, <2>1, <3>1 DEF Prune, TypeOK, env, hist
  <2>2. ASSUME job' = [job EXCEPT ![p].left = job[p].lans], Goto(p, "add"), UNCHANGED routes
        PROVE  TypeOK'
    <3>1. job' \in [Procs -> Jobs]
      BY <1>0, <2>2, LeftTypes
    <3>2. QED
      BY <1>2, <2>2, <3>1 DEF Prune, Goto, TypeOK, Steps, env, hist
  <2>3. QED
    BY <1>2, <2>1, <2>2 DEF Prune
<1>3. CASE AddRoutes(p)
  <2>1. ASSUME NEW l \in job[p].left,
               routes' = routes \cup {l}, job' = [job EXCEPT ![p].left = @ \ {l}], UNCHANGED pc
        PROVE  TypeOK'
    <3>1. job' \in [Procs -> Jobs]
      BY <1>0, <2>1, LeftTypes
    <3>2. QED
      BY <1>0, <1>3, <2>1, <3>1 DEF AddRoutes, TypeOK, env, hist
  <2>2. ASSUME Goto(p, "rule"), UNCHANGED <<job, routes>>
        PROVE  TypeOK'
    BY <1>3, <2>2 DEF AddRoutes, Goto, TypeOK, Steps, env, hist
  <2>3. QED
    BY <1>3, <2>1, <2>2 DEF AddRoutes
<1>4. CASE AddRule(p)
  BY <1>4 DEF AddRule, Goto, TypeOK, Steps, env, hist
<1>5. CASE Publish(p)
  <2>1. /\ lock' \in {{}} \cup {{q} : q \in Procs}
        /\ pc' \in [Procs -> Steps]
        /\ job' \in [Procs -> Jobs]
    BY <1>5, FinishTypes DEF Publish, Goto, TypeOK, Steps
  <2>2. QED
    BY <1>0, <1>5, <2>1 DEF Publish, TypeOK, env, hist
<1>6. CASE RegisterAll(p)
  <2>1. mqroutes' \in SUBSET Lans
    BY <1>6, ConfiguredLans DEF RegisterAll, TypeOK
  <2>2. QED
    BY <1>6, <2>1, FinishTypes DEF RegisterAll, TypeOK, nets, hist
<1>7. CASE Save(p)
  BY <1>0, <1>7, LeaveTypes DEF Save, TypeOK, nets, env, hist
<1>8. QED
  BY <1>1, <1>2, <1>3, <1>4, <1>5, <1>6, <1>7

\* Shutting the gate, failing, being killed.
LEMMA ShuttingTypes ==
  ASSUME TypeOK, NEW p \in Procs,
         \/ Close(p) \/ ClearRoute(p) \/ ClearRule(p)
         \/ Unsave(p) \/ Fails(p) \/ CleanupFails(p) \/ Killed(p)
  PROVE  TypeOK'
<1>1. CASE Close(p)
  BY <1>1 DEF Close, Goto, TypeOK, Steps, env, hist
<1>2. CASE ClearRoute(p)
  BY <1>2 DEF ClearRoute, TypeOK, env, hist
<1>3. CASE ClearRule(p)
  <2>1. /\ lock' \in {{}} \cup {{q} : q \in Procs}
        /\ pc' \in [Procs -> Steps]
        /\ job' \in [Procs -> Jobs]
    BY <1>3, LeaveTypes DEF ClearRule, Goto, TypeOK, Steps
  <2>2. QED
    BY <1>3, <2>1 DEF ClearRule, TypeOK, env, hist
<1>4. CASE Unsave(p)
  BY <1>4 DEF Unsave, Goto, TypeOK, Steps, nets, env, hist
<1>5. CASE Fails(p)
  <2>1. mqroutes' \in SUBSET Lans
    BY <1>5, ConfiguredLans DEF Fails, TypeOK
  <2>2. QED
    BY <1>5, <2>1 DEF Fails, Goto, TypeOK, Steps, nets, hist
<1>6. CASE CleanupFails(p)
  <2>1. /\ lock' \in {{}} \cup {{q} : q \in Procs}
        /\ pc' \in [Procs -> Steps]
        /\ job' \in [Procs -> Jobs]
    BY <1>6, LeaveTypes DEF CleanupFails, Goto, TypeOK, Steps
  <2>2. QED
    BY <1>6, <2>1 DEF CleanupFails, TypeOK, nets, env
<1>7. CASE Killed(p)
  <2>1. faulted' \in BOOLEAN
    BY <1>7 DEF Killed, Inside, TypeOK
  <2>2. QED
    BY <1>7, <2>1, LeaveTypes DEF Killed, TypeOK, nets, env
<1>8. QED
  BY <1>1, <1>2, <1>3, <1>4, <1>5, <1>6, <1>7

LEMMA EnvironmentTypes ==
  ASSUME TypeOK, Environment
  PROVE  TypeOK'
<1>1. CASE Reconfigure
  BY <1>1 DEF Reconfigure, TypeOK, nets
<1>2. CASE TunnelChanges
  BY <1>2 DEF TunnelChanges, TypeOK
<1>3. CASE MqvpnChanges
  <2>1. mqready' \in BOOLEAN /\ mqroutes' \in SUBSET Lans
    BY <1>3 DEF MqvpnChanges, TypeOK
  <2>2. QED
    BY <1>3, <2>1 DEF MqvpnChanges, TypeOK, nets
<1>4. CASE ReloadFirewall
  BY <1>4 DEF ReloadFirewall, TypeOK, env, hist
<1>5. CASE InstallFirewall
  BY <1>5 DEF InstallFirewall, TypeOK, nets, hist
<1>6. QED
  BY <1>1, <1>2, <1>3, <1>4, <1>5 DEF Environment

LEMMA NextTypes == TypeOK /\ [Next]_vars => TypeOK'
<1> SUFFICES ASSUME TypeOK, [Next]_vars PROVE TypeOK'
  OBVIOUS
<1>1. ASSUME NEW p \in Procs, NEW act \in {"refresh", "allow", "deny"}, Call(p, act) PROVE TypeOK'
  BY <1>1, DecidingTypes
<1>2. ASSUME NEW p \in Procs, Run(p) PROVE TypeOK'
  BY <1>2, DecidingTypes, OpeningTypes, ShuttingTypes DEF Run
<1>3. ASSUME NEW p \in Procs, Fails(p) \/ CleanupFails(p) \/ Killed(p) PROVE TypeOK'
  BY <1>3, ShuttingTypes
<1>4. CASE Environment
  BY <1>4, EnvironmentTypes
<1>5. CASE UNCHANGED vars
  BY <1>5 DEF vars, env, hist, TypeOK
<1>6. QED
  BY <1>1, <1>2, <1>3, <1>4, <1>5 DEF Next

LEMMA InitTypes == Init => TypeOK
<1> SUFFICES ASSUME Init PROVE TypeOK
  OBVIOUS
<1>1. cfg \in Configs
  BY DEF Init, Configs
<1>2. pc \in [Procs -> Steps] /\ job \in [Procs -> Jobs]
  BY NoJobIsJob DEF Init, Steps
<1>3. QED
  BY <1>1, <1>2, GateAssumption DEF Init, TypeOK

\* The variables keep their types, and at most one helper holds the lock.
THEOREM TypeCorrect == Spec => []TypeOK
  BY InitTypes, NextTypes, PTL DEF Spec
----------------------------------------------------------------------------
(* What the holder of the lock has made of the gate so far *)

\* The holder lets LANs in because it was told to or because that is saved.
Permits(p) == job[p].on /\ (job[p].act = "allow" \/ saved)

\* What it decided is what the world is like.
AsDecided(p) ==
    /\ cfg.ok /\ cfg.remote /\ tunnel # "none"
    /\ job[p].lans = cfg.lans /\ job[p].via = tunnel

Opening == {"mq", "prune", "add", "rule", "publish"}

\* The holder is on the way to an open gate; its routes come first.
OnTheWay(p) ==
    pc[p] \in Opening =>
        /\ ruleset /\ Permits(p)
        /\ steady => AsDecided(p)
        /\ pc[p] = "prune" => routes \ job[p].lans \subseteq job[p].left
        /\ pc[p] = "add" => routes \subseteq job[p].lans /\ job[p].left \subseteq job[p].lans
        /\ "tunnel" \notin moved => job[p].via = tunnel
        /\ pc[p] = "add" /\ "tunnel" \notin moved => job[p].lans \ routes \subseteq job[p].left
        /\ pc[p] \in {"rule", "publish"} /\ "tunnel" \notin moved => routes = job[p].lans
        /\ pc[p] = "publish" => rule
        /\ pc[p] # "mq" /\ moved = {} /\ tunnel = "mqvpn" => mqroutes = job[p].lans

\* What Settled says of an open gate.
Shown ==
    /\ cfg.ok /\ cfg.remote /\ tunnel # "none"
    /\ gate = cfg.lans /\ routes = gate /\ rule
    /\ tunnel = "mqvpn" => mqroutes = gate

\* The gate is as the holder wants it.
Done(p) ==
    pc[p] \in {"mqall", "save"} /\ gate # {} => Permits(p) /\ (steady => Shown)

\* The holder has shut the gate, or could not.
Shutting(p) ==
    /\ pc[p] \in {"clear", "badclear"} => gate = {}
    /\ pc[p] = "failclear" => gate = {} \/ faulted

Phase(p) == OnTheWay(p) /\ Done(p) /\ Shutting(p)

LockIsInside == \A p \in Procs : p \in lock <=> Inside(p)

Unruled == ~ruleset => gate = {}

\* Nobody holds the lock.
Rested == lock = {} /\ gate # {} /\ ~faulted => saved /\ (steady => Shown)

\* A world that has kept still has taken nothing away.
Kept == steady => moved = {}

GateInv == TypeOK /\ LockIsInside /\ Unruled /\ Kept /\ Rested /\ \A p \in lock : Phase(p)

LEMMA InitGate == Init => GateInv
<1> SUFFICES ASSUME Init PROVE GateInv
  OBVIOUS
<1>1. TypeOK
  BY InitTypes
<1>2. lock = {} /\ gate = {} /\ \A p \in Procs : pc[p] = "idle"
  BY DEF Init
<1>3. QED
  BY <1>1, <1>2 DEF Init, GateInv, LockIsInside, Inside, Unruled, Kept, Rested

\* The holder is the only one.
LEMMA Holder ==
  ASSUME GateInv, NEW p \in Procs, Inside(p)
  PROVE  lock = {p} /\ Phase(p)
  BY DEF GateInv, LockIsInside, TypeOK

LEMMA KeptStays ==
  ASSUME GateInv, [Next]_vars
  PROVE  Kept'
<1>0. Kept
  BY DEF GateInv
<1>1. ASSUME NEW p \in Procs, NEW act, Call(p, act) PROVE Kept'
  BY <1>0, <1>1 DEF Call, Kept, hist
<1>2. ASSUME NEW p \in Procs, Run(p) PROVE Kept'
  <2>1. CASE RegisterPrimary(p)
    <3>1. pc[p] = "mq" /\ Inside(p)
      BY <2>1 DEF RegisterPrimary, Inside
    <3>2. steady => cfg.lans = job[p].lans
      BY <3>1, Holder DEF Phase, OnTheWay, Opening, AsDecided
    <3>3. QED
      BY <1>0, <2>1, <3>2 DEF RegisterPrimary, Kept
  <2>2. CASE Acquire(p)
    BY <2>2 DEF Acquire, Kept
  <2>3. CASE ~RegisterPrimary(p) /\ ~Acquire(p)
    <3>1. UNCHANGED hist
      BY <1>2, <2>3 DEF Run, Decide, DecideMalformed, DecideRefuses, Prune, AddRoutes,
           AddRule, Publish, RegisterAll, Save, Close, ClearRoute, ClearRule, Unsave
    <3>2. QED
      BY <1>0, <3>1 DEF Kept, hist
  <2>4. QED
    BY <2>1, <2>2, <2>3
<1>3. ASSUME NEW p \in Procs, Fails(p) \/ CleanupFails(p) \/ Killed(p) PROVE Kept'
  BY <1>0, <1>3 DEF Fails, CleanupFails, Killed, Kept, hist
<1>4. CASE Environment
  BY <1>0, <1>4 DEF Environment, Reconfigure, TunnelChanges, MqvpnChanges, ReloadFirewall,
                    InstallFirewall, Kept, hist
<1>5. CASE UNCHANGED vars
  BY <1>0, <1>5 DEF vars, hist, Kept
<1>6. QED
  BY <1>1, <1>2, <1>3, <1>4, <1>5 DEF Next

\* The holder keeps the lock.
LEMMA StayGate ==
  ASSUME GateInv, TypeOK', Kept', NEW p \in Procs, Inside(p), Inside(p)', Phase(p)', Unruled',
         UNCHANGED lock, \A q \in Procs \ {p} : pc'[q] = pc[q]
  PROVE  GateInv'
<1>1. lock = {p} /\ lock' = {p}
  BY Holder
<1>2. LockIsInside'
  BY <1>1 DEF GateInv, LockIsInside, Inside
<1>3. Rested'
  BY <1>1 DEF Rested
<1>4. QED
  BY <1>1, <1>2, <1>3 DEF GateInv

\* The holder leaves.
LEMMA LeaveGate ==
  ASSUME GateInv, TypeOK', Kept', NEW p \in Procs, Inside(p), Leave(p), Unruled',
         gate' # {} /\ ~faulted' => saved' /\ (steady' => Shown')
  PROVE  GateInv'
<1>1. lock = {p} /\ lock' = {}
  BY Holder DEF Leave
<1>2. /\ pc'[p] = "idle"
      /\ \A q \in Procs \ {p} : pc'[q] = pc[q]
  BY DEF Leave, Goto, GateInv, TypeOK
<1>3. LockIsInside'
  BY <1>1, <1>2 DEF GateInv, LockIsInside, Inside
<1>4. Rested'
  BY DEF Rested
<1>5. QED
  BY <1>1, <1>3, <1>4 DEF GateInv

\* A helper that does not hold the lock moves without it.
LEMMA OutsideGate ==
  ASSUME GateInv, TypeOK', Kept', NEW p \in Procs, ~Inside(p), ~Inside(p)',
         UNCHANGED <<saved, nets, env, lock, steady, moved>>, faulted' = faulted,
         \A q \in Procs \ {p} : pc'[q] = pc[q] /\ job'[q] = job[q]
  PROVE  GateInv'
<1>1. p \notin lock
  BY DEF GateInv, LockIsInside
<1>2. LockIsInside'
  BY <1>1 DEF GateInv, LockIsInside, Inside
<1>3. Unruled' /\ Kept' /\ Rested'
  BY DEF GateInv, Unruled, Kept, Rested, Shown, nets, env
<1>4. ASSUME NEW q \in lock PROVE Phase(q)'
  <2>1. q \in Procs /\ Phase(q) /\ pc'[q] = pc[q] /\ job'[q] = job[q]
    BY <1>1, <1>4 DEF GateInv, TypeOK
  <2>2. QED
    BY <2>1 DEF Phase, OnTheWay, Permits, AsDecided, Done, Shown, Shutting, nets, env
<1>5. QED
  BY <1>2, <1>3, <1>4 DEF GateInv

LEMMA DecidingGate ==
  ASSUME GateInv, TypeOK', Kept', NEW p \in Procs, NEW act \in {"refresh", "allow", "deny"},
         \/ Call(p, act) \/ Acquire(p) \/ Decide(p) \/ DecideMalformed(p) \/ DecideRefuses(p)
  PROVE  GateInv'
<1>0. TypeOK /\ pc \in [Procs -> Steps] /\ job \in [Procs -> Jobs] /\ Unruled
  BY DEF GateInv, TypeOK
<1>1. CASE Call(p, act)
  <2>1. ~Inside(p) /\ ~Inside(p)'
    BY <1>0, <1>1 DEF Call, Goto, Inside
  <2>2. QED
    BY <1>0, <1>1, <2>1, OutsideGate DEF Call, Goto, hist
<1>2. CASE Acquire(p)
  <2>1. pc'[p] = "decide" /\ \A q \in Procs \ {p} : pc'[q] = pc[q]
    BY <1>0, <1>2 DEF Acquire, Goto
  <2>2. Phase(p)'
    BY <2>1 DEF Phase, OnTheWay, Opening, Done, Shutting
  <2>3. lock = {} /\ lock' = {p}
    BY <1>2 DEF Acquire
  <2>4. LockIsInside'
    BY <2>1, <2>3 DEF GateInv, LockIsInside, Inside
  <2>5. Unruled' /\ Rested'
    BY <1>0, <1>2, <2>3 DEF Acquire, Unruled, Rested, nets, env
  <2>6. QED
    BY <2>2, <2>3, <2>4, <2>5 DEF GateInv
<1>3. CASE Decide(p)
  <2> DEFINE allowed == AllowedNow(p)
             s == IF ~ruleset THEN "clear" ELSE IF allowed = {} THEN "close"
                  ELSE IF tunnel = "mqvpn" THEN "mq" ELSE "prune"
             left == IF (~ruleset \/ allowed = {}) \/ tunnel = "mqvpn" THEN {} ELSE routes \ allowed
  <2>1. /\ pc[p] = "decide" /\ cfg.ok
        /\ job[p].act = "allow" => allowed # {} /\ ruleset
        /\ pc' = [pc EXCEPT ![p] = s]
        /\ job' = [job EXCEPT ![p] = [job[p] EXCEPT
                     !.on = Enabled(p), !.lans = allowed, !.via = tunnel, !.left = left]]
        /\ UNCHANGED <<saved, nets, env, lock, hist>>
    BY <1>3 DEF Decide, Goto
  <2>2. pc'[p] = s /\ \A q \in Procs \ {p} : pc'[q] = pc[q]
    BY <1>0, <2>1
  <2>3. /\ job'[p].on = Enabled(p) /\ job'[p].lans = allowed
        /\ job'[p].via = tunnel /\ job'[p].left = left /\ job'[p].act = job[p].act
    BY <1>0, <2>1 DEF Jobs
  <2>4. Inside(p) /\ Inside(p)'
    BY <2>1, <2>2 DEF Inside
  <2>5. OnTheWay(p)'
    <3> SUFFICES ASSUME s \in {"mq", "prune"} PROVE OnTheWay(p)'
      BY <2>2 DEF OnTheWay, Opening
    <3>1. ruleset /\ allowed # {}
      OBVIOUS
    <3>2. Enabled(p) /\ cfg.remote /\ tunnel # "none" /\ allowed = cfg.lans
      BY <3>1 DEF AllowedNow
    <3>3. Permits(p)'
      BY <2>1, <2>3, <3>2 DEF Permits, Enabled
    <3>4. AsDecided(p)'
      BY <2>1, <2>3, <3>2 DEF AsDecided, env
    <3>5. s = "prune" => left = routes \ allowed /\ tunnel # "mqvpn"
      BY <3>1
    <3>6. s = "mq" \/ s = "prune"
      OBVIOUS
    <3> HIDE DEF s, allowed, left
    <3>7. QED
      BY <2>1, <2>2, <2>3, <3>1, <3>3, <3>4, <3>5, <3>6 DEF OnTheWay, Opening, nets, env
  <2>6. Done(p)' /\ Shutting(p)'
    BY <1>0, <2>1, <2>2 DEF Done, Shutting, Unruled, nets, env
  <2>7. Unruled'
    BY <1>0, <2>1 DEF Unruled, nets, env
  <2>8. QED
    BY <2>1, <2>2, <2>4, <2>5, <2>6, <2>7, StayGate DEF Phase
<1>4. CASE DecideMalformed(p)
  <2>1. /\ pc'[p] \in {"badclose", "unsave"} /\ \A q \in Procs \ {p} : pc'[q] = pc[q]
        /\ Inside(p)
    BY <1>0, <1>4 DEF DecideMalformed, Goto, Inside
  <2>2. Phase(p)' /\ Inside(p)'
    BY <2>1 DEF Phase, OnTheWay, Opening, Done, Shutting, Inside
  <2>3. QED
    BY <1>0, <1>4, <2>1, <2>2, StayGate DEF DecideMalformed, Unruled, nets, env
<1>5. CASE DecideRefuses(p)
  <2>1. /\ pc'[p] = "unsave" /\ \A q \in Procs \ {p} : pc'[q] = pc[q]
        /\ Inside(p)
    BY <1>0, <1>5 DEF DecideRefuses, Goto, Inside
  <2>2. Phase(p)' /\ Inside(p)'
    BY <2>1 DEF Phase, OnTheWay, Opening, Done, Shutting, Inside
  <2>3. QED
    BY <1>0, <1>5, <2>1, <2>2, StayGate DEF DecideRefuses, Unruled, nets, env
<1>6. QED
  BY <1>1, <1>2, <1>3, <1>4, <1>5
\* The holder goes from one step to another inside.
LEMMA GotoGate ==
  ASSUME GateInv, NEW p \in Procs, NEW s \in Steps \ {"idle", "wait"}, Inside(p), Goto(p, s)
  PROVE  /\ pc'[p] = s /\ Inside(p)'
         /\ \A q \in Procs \ {p} : pc'[q] = pc[q]
  BY DEF GateInv, TypeOK, Goto, Inside

\* A finished refresh leaves, an allow or a deny has still to be saved.
LEMMA FinishGate ==
  ASSUME GateInv, TypeOK', Kept', NEW p \in Procs, Inside(p), Finish(p), Unruled',
         UNCHANGED <<saved, cfg, tunnel, hist>>,
         gate' # {} => Permits(p) /\ (steady => Shown')
  PROVE  GateInv'
<1>1. CASE job[p].act = "refresh"
  BY <1>1, LeaveGate DEF Finish, Permits, hist
<1>2. CASE job[p].act # "refresh"
  <2>1. Goto(p, "save") /\ UNCHANGED <<job, lock>>
    BY <1>2 DEF Finish
  <2>2. pc'[p] = "save" /\ Inside(p)' /\ \A q \in Procs \ {p} : pc'[q] = pc[q]
    BY <2>1, GotoGate DEF Steps
  <2>3. Phase(p)'
    BY <2>1, <2>2 DEF Phase, OnTheWay, Opening, Done, Shutting, Permits, hist
  <2>4. QED
    BY <2>1, <2>2, <2>3, StayGate
<1>3. QED
  BY <1>1, <1>2

LEMMA RoutesGate ==
  ASSUME GateInv, TypeOK', Kept', NEW p \in Procs, RegisterPrimary(p) \/ Prune(p) \/ AddRoutes(p) \/ AddRule(p)
  PROVE  GateInv'
<1> DEFINE lans == job[p].lans
<1>0. /\ job \in [Procs -> Jobs] /\ pc \in [Procs -> Steps] /\ job[p] \in Jobs
      /\ Unruled
  BY DEF GateInv, TypeOK
<1>1. Inside(p) /\ pc[p] \in {"mq", "prune", "add", "rule"}
  BY DEF RegisterPrimary, Prune, AddRoutes, AddRule, Inside
<1>2. /\ ruleset /\ Permits(p) /\ (steady => AsDecided(p))
      /\ OnTheWay(p)
  BY <1>1, Holder DEF Phase, OnTheWay, Opening
<1>3. ASSUME NEW left \in SUBSET Lans, job' = [job EXCEPT ![p].left = left]
      PROVE  /\ job'[p].left = left /\ job'[p].lans = lans /\ job'[p].on = job[p].on
             /\ job'[p].act = job[p].act /\ job'[p].via = job[p].via
  BY <1>0, <1>3 DEF Jobs
<1>4. CASE RegisterPrimary(p)
  <2>1. /\ pc[p] = "mq" /\ mqroutes' = cfg.lans /\ Goto(p, "prune")
        /\ job' = [job EXCEPT ![p].left = routes \ lans]
        /\ moved' = IF cfg.lans = lans THEN moved ELSE moved \cup {"mqroutes"}
        /\ UNCHANGED <<saved, nets, cfg, tunnel, mqready, ruleset, lock, steady, faulted>>
    BY <1>4 DEF RegisterPrimary
  <2>2. pc'[p] = "prune" /\ Inside(p)' /\ \A q \in Procs \ {p} : pc'[q] = pc[q]
    BY <1>1, <2>1, GotoGate DEF Steps
  <2>3. routes \ lans \in SUBSET Lans
    BY DEF GateInv, TypeOK
  <2>4. /\ job'[p].left = routes \ lans /\ job'[p].lans = lans /\ job'[p].on = job[p].on
        /\ job'[p].act = job[p].act /\ job'[p].via = job[p].via
    BY <1>3, <2>1, <2>3
  <2>5. Permits(p)' /\ (steady' => AsDecided(p)')
    BY <1>2, <2>1, <2>4 DEF Permits, AsDecided, hist
  <2>6. steady' => mqroutes' = job'[p].lans
    BY <1>2, <2>1, <2>4 DEF AsDecided, hist
  <2>7. Phase(p)'
    BY <1>2, <2>1, <2>2, <2>4, <2>5, <2>6 DEF Phase, OnTheWay, Opening, Done, Shutting, nets
  <2>8. QED
    BY <1>0, <1>1, <2>1, <2>2, <2>7, StayGate DEF Unruled, nets
<1>5. CASE Prune(p)
  <2>1. pc[p] = "prune" /\ UNCHANGED <<saved, gate, rule, env, lock, hist>>
    BY <1>5 DEF Prune
  <2>2. routes \ lans \subseteq job[p].left
    BY <1>2, <2>1 DEF OnTheWay, Opening
  <2>3. /\ moved = {} /\ tunnel = "mqvpn" => mqroutes = lans
        /\ "tunnel" \notin moved => job[p].via = tunnel
    BY <1>2, <2>1 DEF OnTheWay, Opening
  <2>4. ASSUME NEW l \in job[p].left \cap routes,
               routes' = routes \ {l}, job' = [job EXCEPT ![p].left = @ \ {l}], UNCHANGED pc
        PROVE  GateInv'
    <3>1. job[p].left \ {l} \in SUBSET Lans
      BY <1>0 DEF Jobs
    <3>2. /\ job'[p].left = job[p].left \ {l} /\ job'[p].lans = lans /\ job'[p].on = job[p].on
          /\ job'[p].act = job[p].act /\ job'[p].via = job[p].via
      BY <1>3, <2>4, <3>1
    <3>3. Permits(p)' /\ (steady' => AsDecided(p)')
      BY <1>2, <2>1, <3>2 DEF Permits, AsDecided, hist, env
    <3>4. Phase(p)'
      BY <1>2, <2>1, <2>2, <2>3, <2>4, <3>2, <3>3
      DEF Phase, OnTheWay, Opening, Done, Shutting, env, hist
    <3>5. Inside(p)'
      BY <1>1, <2>4 DEF Inside
    <3>6. QED
      BY <1>0, <1>1, <2>1, <2>4, <3>4, <3>5, StayGate DEF Unruled, env
  <2>5. ASSUME job[p].left = {}, job' = [job EXCEPT ![p].left = lans], Goto(p, "add"), UNCHANGED routes
        PROVE  GateInv'
    <3>1. lans \in SUBSET Lans
      BY <1>0 DEF Jobs
    <3>2. /\ job'[p].left = lans /\ job'[p].lans = lans /\ job'[p].on = job[p].on
          /\ job'[p].act = job[p].act /\ job'[p].via = job[p].via
      BY <1>3, <2>5, <3>1
    <3>3. Permits(p)' /\ (steady' => AsDecided(p)')
      BY <1>2, <2>1, <3>2 DEF Permits, AsDecided, hist, env
    <3>4. pc'[p] = "add" /\ Inside(p)' /\ \A q \in Procs \ {p} : pc'[q] = pc[q]
      BY <1>1, <2>5, GotoGate DEF Steps
    <3>5. routes \subseteq lans
      BY <2>2, <2>5
    <3>6. Phase(p)'
      BY <1>2, <2>1, <2>3, <2>5, <3>2, <3>3, <3>4, <3>5
      DEF Phase, OnTheWay, Opening, Done, Shutting, env, hist
    <3>7. QED
      BY <1>0, <1>1, <2>1, <3>4, <3>6, StayGate DEF Unruled, env
  <2>6. QED
    BY <1>5, <2>4, <2>5 DEF Prune
<1>6. CASE AddRoutes(p)
  <2>1. pc[p] = "add" /\ UNCHANGED <<saved, gate, rule, env, lock, hist>>
    BY <1>6 DEF AddRoutes
  <2>2. /\ routes \subseteq lans /\ job[p].left \subseteq lans
        /\ "tunnel" \notin moved => lans \ routes \subseteq job[p].left /\ job[p].via = tunnel
        /\ moved = {} /\ tunnel = "mqvpn" => mqroutes = lans
    BY <1>2, <2>1 DEF OnTheWay, Opening
  <2>3. ASSUME NEW l \in job[p].left,
               routes' = routes \cup {l}, job' = [job EXCEPT ![p].left = @ \ {l}], UNCHANGED pc
        PROVE  GateInv'
    <3>1. job[p].left \ {l} \in SUBSET Lans
      BY <1>0 DEF Jobs
    <3>2. /\ job'[p].left = job[p].left \ {l} /\ job'[p].lans = lans /\ job'[p].on = job[p].on
          /\ job'[p].act = job[p].act /\ job'[p].via = job[p].via
      BY <1>3, <2>3, <3>1
    <3>3. Permits(p)' /\ (steady' => AsDecided(p)')
      BY <1>2, <2>1, <3>2 DEF Permits, AsDecided, hist, env
    <3>4. Phase(p)'
      BY <1>2, <2>1, <2>2, <2>3, <3>2, <3>3
      DEF Phase, OnTheWay, Opening, Done, Shutting, env, hist
    <3>5. Inside(p)'
      BY <1>1, <2>3 DEF Inside
    <3>6. QED
      BY <1>0, <1>1, <2>1, <2>3, <3>4, <3>5, StayGate DEF Unruled, env
  <2>4. ASSUME job[p].left = {}, Goto(p, "rule"), UNCHANGED <<job, routes>>
        PROVE  GateInv'
    <3>1. pc'[p] = "rule" /\ Inside(p)' /\ \A q \in Procs \ {p} : pc'[q] = pc[q]
      BY <1>1, <2>4, GotoGate DEF Steps
    <3>2. Permits(p)' /\ (steady' => AsDecided(p)')
      BY <1>2, <2>1, <2>4 DEF Permits, AsDecided, hist, env
    <3>3. "tunnel" \notin moved => routes = lans
      BY <2>2, <2>4
    <3>4. Phase(p)'
      BY <1>2, <2>1, <2>2, <2>4, <3>1, <3>2, <3>3
      DEF Phase, OnTheWay, Opening, Done, Shutting, env, hist
    <3>5. QED
      BY <1>0, <1>1, <2>1, <3>1, <3>4, StayGate DEF Unruled, env
  <2>5. QED
    BY <1>6, <2>3, <2>4 DEF AddRoutes
<1>7. CASE AddRule(p)
  <2>1. /\ pc[p] = "rule" /\ rule' = TRUE /\ Goto(p, "publish")
        /\ UNCHANGED <<saved, gate, routes, env, lock, job, hist>>
    BY <1>7 DEF AddRule
  <2>2. /\ "tunnel" \notin moved => routes = lans /\ job[p].via = tunnel
        /\ moved = {} /\ tunnel = "mqvpn" => mqroutes = lans
    BY <1>2, <2>1 DEF OnTheWay, Opening
  <2>3. pc'[p] = "publish" /\ Inside(p)' /\ \A q \in Procs \ {p} : pc'[q] = pc[q]
    BY <1>1, <2>1, GotoGate DEF Steps
  <2>4. Permits(p)' /\ (steady' => AsDecided(p)')
    BY <1>2, <2>1 DEF Permits, AsDecided, hist, env
  <2>5. Phase(p)'
    BY <1>2, <2>1, <2>2, <2>3, <2>4 DEF Phase, OnTheWay, Opening, Done, Shutting, env, hist
  <2>6. QED
    BY <1>0, <1>1, <2>1, <2>3, <2>5, StayGate DEF Unruled, env
<1>8. QED
  BY <1>4, <1>5, <1>6, <1>7

\* When LANs enter the gate, everything else is there, or was lost again.
LEMMA PublishedGate ==
  ASSUME GateInv, NEW p \in Procs, Publish(p)
  PROVE  /\ Inside(p) /\ ruleset /\ Permits(p) /\ rule
         /\ "tunnel" \notin moved => gate' \subseteq routes
         /\ moved = {} /\ tunnel = "mqvpn" => gate' \subseteq mqroutes
         /\ steady => Shown'
<1>1. pc[p] = "publish" /\ gate' = job[p].lans /\ UNCHANGED <<saved, routes, rule, env, hist>>
  BY DEF Publish
<1>2. Inside(p)
  BY <1>1 DEF Inside
<1>3. OnTheWay(p) /\ Kept
  BY <1>2, Holder DEF Phase, GateInv
<1>4. /\ ruleset /\ Permits(p)
      /\ steady => AsDecided(p)
      /\ "tunnel" \notin moved => routes = job[p].lans
      /\ rule
      /\ moved = {} /\ tunnel = "mqvpn" => mqroutes = job[p].lans
  BY <1>1, <1>3 DEF OnTheWay, Opening
<1>5. steady => moved = {}
  BY <1>3 DEF Kept
<1>6. steady => Shown'
  BY <1>1, <1>4, <1>5 DEF Shown, AsDecided, env
<1>7. QED
  BY <1>1, <1>2, <1>4, <1>6

LEMMA PublishingGate ==
  ASSUME GateInv, TypeOK', Kept', NEW p \in Procs, Publish(p) \/ RegisterAll(p) \/ Save(p)
  PROVE  GateInv'
<1>0. Unruled
  BY DEF GateInv
<1>1. CASE Publish(p)
  <2>1. /\ Inside(p) /\ ruleset /\ Permits(p)
        /\ steady => Shown'
    BY <1>1, PublishedGate
  <2>2. UNCHANGED <<saved, env, hist>> /\ Unruled'
    BY <1>1, <2>1 DEF Publish, Unruled, env
  <2>3. CASE job[p].via = "mqvpn"
    BY <1>1, <2>1, <2>2, <2>3, FinishGate DEF Publish, env
  <2>4. CASE job[p].via # "mqvpn"
    <3>1. Goto(p, "mqall") /\ UNCHANGED <<job, lock>>
      BY <1>1, <2>4 DEF Publish
    <3>2. pc'[p] = "mqall" /\ Inside(p)' /\ \A q \in Procs \ {p} : pc'[q] = pc[q]
      BY <2>1, <3>1, GotoGate DEF Steps
    <3>3. Phase(p)'
      BY <2>1, <2>2, <3>1, <3>2 DEF Phase, OnTheWay, Opening, Done, Shutting, Permits, hist
    <3>4. QED
      BY <2>1, <2>2, <3>1, <3>2, <3>3, StayGate
  <2>5. QED
    BY <2>3, <2>4
<1>2. CASE RegisterAll(p)
  <2>1. /\ pc[p] = "mqall" /\ mqroutes' \in {mqroutes, cfg.lans} /\ Finish(p)
        /\ UNCHANGED <<saved, nets, cfg, tunnel, mqready, ruleset, hist>>
    BY <1>2 DEF RegisterAll
  <2>2. Inside(p)
    BY <2>1 DEF Inside
  <2>3. gate # {} => Permits(p) /\ (steady => Shown)
    BY <2>1, <2>2, Holder DEF Phase, Done
  <2>4. gate' # {} => Permits(p) /\ (steady => Shown')
    BY <2>1, <2>3 DEF Shown, nets
  <2>5. Unruled'
    BY <1>0, <2>1 DEF Unruled, nets
  <2>6. QED
    BY <2>1, <2>2, <2>4, <2>5, FinishGate
<1>3. CASE Save(p)
  <2>1. /\ pc[p] = "save" /\ saved' = job[p].on /\ Leave(p) /\ UNCHANGED <<nets, env, hist>>
    BY <1>3 DEF Save
  <2>2. Inside(p)
    BY <2>1 DEF Inside
  <2>3. gate # {} => Permits(p) /\ (steady => Shown)
    BY <2>1, <2>2, Holder DEF Phase, Done
  <2>4. gate' # {} => saved' /\ (steady' => Shown')
    BY <2>1, <2>3 DEF Permits, Shown, nets, env, hist
  <2>5. Unruled'
    BY <1>0, <2>1 DEF Unruled, nets, env
  <2>6. QED
    BY <2>1, <2>2, <2>4, <2>5, LeaveGate
<1>4. QED
  BY <1>1, <1>2, <1>3
LEMMA ShuttingGate ==
  ASSUME GateInv, TypeOK', Kept', NEW p \in Procs, Close(p) \/ ClearRoute(p) \/ ClearRule(p)
  PROVE  GateInv'
<1>0. Unruled /\ pc \in [Procs -> Steps]
  BY DEF GateInv, TypeOK
<1>1. Inside(p)
  BY DEF Close, ClearRoute, ClearRule, Inside
<1>2. Shutting(p)
  BY <1>1, Holder DEF Phase
<1>3. CASE Close(p)
  <2>1. /\ gate' = {} /\ pc'[p] \in {"clear", "badclear", "failclear"}
        /\ \A q \in Procs \ {p} : pc'[q] = pc[q]
        /\ UNCHANGED lock
    BY <1>0, <1>3 DEF Close, Goto
  <2>2. Phase(p)' /\ Inside(p)' /\ Unruled'
    BY <2>1 DEF Phase, OnTheWay, Opening, Done, Shutting, Inside, Unruled
  <2>3. QED
    BY <1>1, <2>1, <2>2, StayGate
<1>4. CASE ClearRoute(p)
  <2>1. /\ pc[p] \in {"clear", "badclear", "failclear"}
        /\ UNCHANGED <<gate, env, lock, pc, hist>>
    BY <1>4 DEF ClearRoute
  <2>2. Phase(p)' /\ Inside(p)' /\ Unruled'
    BY <1>0, <1>2, <2>1 DEF Phase, OnTheWay, Opening, Done, Shutting, Inside, Unruled, env, hist
  <2>3. QED
    BY <1>1, <2>1, <2>2, StayGate
<1>5. CASE ClearRule(p)
  <2>1. Unruled' /\ UNCHANGED <<saved, gate, hist>>
    BY <1>0, <1>5 DEF ClearRule, Unruled, env
  <2>2. ASSUME NEW s \in {"mqall", "unsave"}, Goto(p, s), UNCHANGED <<job, lock>>,
               s = "mqall" => pc[p] = "clear"
        PROVE  GateInv'
    <3>1. pc'[p] = s /\ Inside(p)' /\ \A q \in Procs \ {p} : pc'[q] = pc[q]
      BY <1>1, <2>2, GotoGate DEF Steps
    <3>2. s = "mqall" => gate' = {}
      BY <1>2, <2>1, <2>2 DEF Shutting
    <3>3. Phase(p)'
      BY <3>1, <3>2 DEF Phase, OnTheWay, Opening, Done, Shutting
    <3>4. QED
      BY <1>1, <2>1, <2>2, <3>1, <3>3, StayGate
  <2>3. ASSUME pc[p] = "failclear", Leave(p) PROVE GateInv'
    <3>1. gate' # {} /\ ~faulted' => FALSE
      BY <1>2, <2>1, <2>3 DEF Shutting, hist
    <3>2. QED
      BY <1>1, <2>1, <2>3, <3>1, LeaveGate
  <2>4. \/ pc[p] = "clear" /\ Goto(p, "mqall") /\ UNCHANGED <<job, lock>>
        \/ pc[p] = "badclear" /\ Goto(p, "unsave") /\ UNCHANGED <<job, lock>>
        \/ pc[p] = "failclear" /\ Leave(p)
    BY <1>5 DEF ClearRule
  <2>5. QED
    BY <2>2, <2>3, <2>4
<1>6. QED
  BY <1>3, <1>4, <1>5

LEMMA FailingGate ==
  ASSUME GateInv, TypeOK', Kept', NEW p \in Procs,
         Unsave(p) \/ Fails(p) \/ CleanupFails(p) \/ Killed(p)
  PROVE  GateInv'
<1>0. Unruled /\ pc \in [Procs -> Steps] /\ job \in [Procs -> Jobs] /\ faulted \in BOOLEAN
  BY DEF GateInv, TypeOK
<1>1. CASE Unsave(p)
  <2>1. /\ Inside(p) /\ UNCHANGED lock
        /\ pc'[p] = IF ruleset THEN "failclose" ELSE "failclear"
        /\ \A q \in Procs \ {p} : pc'[q] = pc[q]
        /\ UNCHANGED <<gate, ruleset>>
    BY <1>0, <1>1 DEF Unsave, Goto, Inside, nets, env
  <2>2. Phase(p)' /\ Inside(p)' /\ Unruled'
    BY <1>0, <2>1 DEF Phase, OnTheWay, Opening, Done, Shutting, Inside, Unruled
  <2>3. QED
    BY <1>1, <2>1, <2>2, StayGate
<1>2. CASE Fails(p)
  <2>1. /\ Inside(p) /\ UNCHANGED lock
        /\ pc'[p] = "unsave"
        /\ \A q \in Procs \ {p} : pc'[q] = pc[q]
        /\ UNCHANGED <<gate, ruleset>>
    BY <1>0, <1>2 DEF Fails, Goto, Inside, nets
  <2>2. Phase(p)' /\ Inside(p)' /\ Unruled'
    BY <1>0, <2>1 DEF Phase, OnTheWay, Opening, Done, Shutting, Inside, Unruled
  <2>3. QED
    BY <2>1, <2>2, StayGate
<1>3. CASE CleanupFails(p)
  <2>1. Inside(p) /\ faulted' /\ Unruled'
    BY <1>0, <1>3 DEF CleanupFails, Inside, Unruled, nets, env
  <2>2. CASE pc[p] = "failclose"
    <3>1. Goto(p, "failclear") /\ UNCHANGED <<job, lock>>
      BY <1>3, <2>2 DEF CleanupFails
    <3>2. pc'[p] = "failclear" /\ Inside(p)' /\ \A q \in Procs \ {p} : pc'[q] = pc[q]
      BY <2>1, <3>1, GotoGate DEF Steps
    <3>3. Phase(p)'
      BY <2>1, <3>2 DEF Phase, OnTheWay, Opening, Done, Shutting
    <3>4. QED
      BY <2>1, <3>1, <3>2, <3>3, StayGate
  <2>3. CASE pc[p] # "failclose"
    BY <1>3, <2>1, <2>3, LeaveGate DEF CleanupFails
  <2>4. QED
    BY <2>2, <2>3
<1>4. CASE Killed(p)
  <2>1. Unruled' /\ Leave(p) /\ UNCHANGED <<saved, nets, env, steady, moved>>
    BY <1>0, <1>4 DEF Killed, Unruled, nets, env
  <2>2. CASE Inside(p)
    BY <1>4, <2>1, <2>2, LeaveGate DEF Killed
  <2>3. CASE ~Inside(p)
    <3>1. p \notin lock
      BY <2>3 DEF GateInv, LockIsInside
    <3>2. UNCHANGED lock /\ faulted' = faulted
      BY <1>0, <1>4, <2>3, <3>1 DEF Killed, Leave
    <3>3. /\ ~Inside(p)'
          /\ \A q \in Procs \ {p} : pc'[q] = pc[q] /\ job'[q] = job[q]
      BY <1>0, <2>1 DEF Leave, Goto, Inside
    <3>4. QED
      BY <2>1, <2>3, <3>2, <3>3, OutsideGate
  <2>4. QED
    BY <2>2, <2>3
<1>5. QED
  BY <1>1, <1>2, <1>3, <1>4

LEMMA EnvironmentGate ==
  ASSUME GateInv, TypeOK', Kept', Environment
  PROVE  GateInv'
<1>1. UNCHANGED <<saved, rule, lock, pc, job, faulted>>
  BY DEF Environment, Reconfigure, TunnelChanges, MqvpnChanges, ReloadFirewall,
         InstallFirewall, nets, hist
<1>2. LockIsInside'
  BY <1>1 DEF GateInv, LockIsInside, Inside
<1>3. CASE Reconfigure \/ TunnelChanges \/ MqvpnChanges
  <2>1. /\ ~steady' /\ UNCHANGED <<gate, ruleset>> /\ routes' \subseteq routes
        /\ "tunnel" \notin moved' => "tunnel" \notin moved /\ UNCHANGED <<tunnel, routes>>
        /\ moved' = {} => moved = {} /\ UNCHANGED <<tunnel, routes, mqroutes>>
    BY <1>3 DEF Reconfigure, TunnelChanges, MqvpnChanges, nets
  <2>2. Unruled' /\ Rested'
    BY <1>1, <2>1 DEF GateInv, Unruled, Rested
  <2>3. ASSUME NEW p \in lock PROVE Phase(p)'
    <3>1. Phase(p)
      BY <2>3 DEF GateInv
    <3>2. QED
      BY <1>1, <2>1, <3>1 DEF Phase, OnTheWay, Opening, Permits, Done, Shutting
  <2>4. QED
    BY <1>1, <1>2, <2>2, <2>3 DEF GateInv
<1>4. CASE ReloadFirewall
  <2>1. gate' = {} /\ UNCHANGED <<routes, env, steady, moved>>
    BY <1>4 DEF ReloadFirewall, hist
  <2>2. Unruled' /\ Rested'
    BY <2>1 DEF Unruled, Rested
  <2>3. ASSUME NEW p \in lock PROVE Phase(p)'
    <3>1. Phase(p)
      BY <2>3 DEF GateInv
    <3>2. QED
      BY <1>1, <2>1, <3>1 DEF Phase, OnTheWay, Opening, Permits, AsDecided, Done, Shutting, env
  <2>4. QED
    BY <1>1, <1>2, <2>2, <2>3 DEF GateInv
<1>5. CASE InstallFirewall
  <2>1. ruleset' /\ UNCHANGED <<gate, routes, cfg, tunnel, mqroutes, steady, moved>>
    BY <1>5 DEF InstallFirewall, nets, hist
  <2>2. Unruled' /\ Rested'
    BY <1>1, <2>1 DEF GateInv, Unruled, Rested, Shown
  <2>3. ASSUME NEW p \in lock PROVE Phase(p)'
    <3>1. Phase(p)
      BY <2>3 DEF GateInv
    <3>2. QED
      BY <1>1, <2>1, <3>1 DEF Phase, OnTheWay, Opening, Permits, AsDecided, Done, Shown, Shutting
  <2>4. QED
    BY <1>1, <1>2, <2>2, <2>3 DEF GateInv
<1>6. QED
  BY <1>3, <1>4, <1>5 DEF Environment

LEMMA NextGate == GateInv /\ [Next]_vars => GateInv'
<1> SUFFICES ASSUME GateInv, [Next]_vars PROVE GateInv'
  OBVIOUS
<1>0. TypeOK' /\ Kept'
  BY NextTypes, KeptStays DEF GateInv
<1>1. ASSUME NEW p \in Procs, NEW act \in {"refresh", "allow", "deny"}, Call(p, act) PROVE GateInv'
  BY <1>0, <1>1, DecidingGate
<1>2. ASSUME NEW p \in Procs, Run(p) PROVE GateInv'
  <2>1. CASE Acquire(p) \/ Decide(p) \/ DecideMalformed(p) \/ DecideRefuses(p)
    BY <1>0, <2>1, DecidingGate
  <2>2. CASE RegisterPrimary(p) \/ Prune(p) \/ AddRoutes(p) \/ AddRule(p)
    BY <1>0, <2>2, RoutesGate
  <2>3. CASE Publish(p) \/ RegisterAll(p) \/ Save(p)
    BY <1>0, <2>3, PublishingGate
  <2>4. CASE Close(p) \/ ClearRoute(p) \/ ClearRule(p)
    BY <1>0, <2>4, ShuttingGate
  <2>5. CASE Unsave(p)
    BY <1>0, <2>5, FailingGate
  <2>6. QED
    BY <1>2, <2>1, <2>2, <2>3, <2>4, <2>5 DEF Run
<1>3. ASSUME NEW p \in Procs, Fails(p) \/ CleanupFails(p) \/ Killed(p) PROVE GateInv'
  BY <1>0, <1>3, FailingGate
<1>4. CASE Environment
  BY <1>0, <1>4, EnvironmentGate
<1>5. CASE UNCHANGED vars
  BY <1>0, <1>5 DEF vars, env, hist, GateInv, LockIsInside, Inside, Unruled, Rested, Phase,
                    OnTheWay, Opening, Permits, AsDecided, Done, Shown, Shutting
<1>6. QED
  BY <1>1, <1>2, <1>3, <1>4, <1>5 DEF Next

\* Only publishing lets LANs in.
LEMMA OnlyPublishOpens ==
  ASSUME [Next]_vars, gate' \ gate # {}
  PROVE  \E p \in Procs : Publish(p)
<1>1. ASSUME NEW p \in Procs, NEW act, Call(p, act) PROVE gate' = gate
  BY <1>1 DEF Call, nets
<1>2. ASSUME NEW p \in Procs, Run(p), ~Publish(p) PROVE gate' \subseteq gate
  BY <1>2 DEF Run, Acquire, Decide, DecideMalformed, DecideRefuses, RegisterPrimary, Prune,
              AddRoutes, AddRule, RegisterAll, Save, Close, ClearRoute, ClearRule, Unsave, nets
<1>3. ASSUME NEW p \in Procs, Fails(p) \/ CleanupFails(p) \/ Killed(p) PROVE gate' = gate
  BY <1>3 DEF Fails, CleanupFails, Killed, nets
<1>4. CASE Environment
  BY <1>4 DEF Environment, Reconfigure, TunnelChanges, MqvpnChanges, ReloadFirewall,
              InstallFirewall, nets
<1>5. CASE UNCHANGED vars
  BY <1>5 DEF vars
<1>6. QED
  BY <1>1, <1>2, <1>3, <1>4, <1>5 DEF Next

----------------------------------------------------------------------------
(* Theorems *)

\* Between runs an open gate is a saved permission, whatever failed on the way,
\* unless the latest run was killed or could not clean up.
THEOREM GateOpenIsSaved == Spec => []OpenIsSaved
<1>1. GateInv => OpenIsSaved
  BY DEF GateInv, Rested, OpenIsSaved
<1>2. QED
  BY InitGate, NextGate, <1>1, PTL DEF Spec

\* Once a run has ended in a steady world, an open gate shows exactly the LANs of
\* the configuration, and their routes, the rule and MQVPN's routes are there.
THEOREM GateSettles == Spec => []Settled
<1>1. GateInv => Settled
  BY DEF GateInv, Rested, Shown, Settled
<1>2. QED
  BY InitGate, NextGate, <1>1, PTL DEF Spec

\* LANs enter the gate only when the rule is there, their routes unless the tunnel
\* changed since the helper decided, and MQVPN's unless one of both changed or
\* sync_mqvpn_routes registered another configuration than the one decided from.
THEOREM GateOpensReady == Spec => PublishedIsReady
<1>1. GateInv /\ [Next]_vars =>
        [gate' \ gate # {} =>
           /\ rule
           /\ "tunnel" \in moved \/ gate' \subseteq routes
           /\ tunnel = "mqvpn" => moved # {} \/ gate' \subseteq mqroutes]_vars
  <2> SUFFICES ASSUME GateInv, [Next]_vars, gate' \ gate # {}
               PROVE  /\ rule
                      /\ "tunnel" \in moved \/ gate' \subseteq routes
                      /\ tunnel = "mqvpn" => moved # {} \/ gate' \subseteq mqroutes
    OBVIOUS
  <2>1. PICK p \in Procs : Publish(p)
    BY OnlyPublishOpens
  <2>2. QED
    BY <2>1, PublishedGate
<1>2. QED
  BY InitGate, NextGate, <1>1, PTL DEF Spec, PublishedIsReady

\* A shut gate opens only while access is saved as allowed, or by an allow.
THEOREM GateOpensAllowed == Spec => OnlyAllowOpens
<1>1. GateInv /\ [Next]_vars =>
        [gate = {} /\ gate' # {} => saved \/ \E p \in lock : job[p].act = "allow"]_vars
  <2> SUFFICES ASSUME GateInv, [Next]_vars, gate = {}, gate' # {}
               PROVE  saved \/ \E p \in lock : job[p].act = "allow"
    OBVIOUS
  <2>1. PICK p \in Procs : Publish(p)
    BY OnlyPublishOpens
  <2>2. Inside(p) /\ Permits(p)
    BY <2>1, PublishedGate
  <2>3. QED
    BY <2>2, Holder DEF Permits
<1>2. QED
  BY InitGate, NextGate, <1>1, PTL DEF Spec, OnlyAllowOpens
=============================================================================
