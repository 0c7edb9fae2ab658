------------------------------ MODULE VxlanProofs ------------------------------
(***************************************************************************)
(* Theorems about Vxlan, for any handlers, users, VNIs, ports and bounds.  *)
(***************************************************************************)
EXTENDS Vxlan, TLAPS

Shapes ==
    /\ DOMAIN saved = Users
    /\ DOMAIN job = Handlers
    /\ \A h \in Handlers : DOMAIN job[h] = {"at", "req", "cfg", "todo", "had", "alone"}
    /\ overlaps \in Nat /\ faults \in Nat

OneAtATime == ~Crossed => \A g, h \in Handlers : Busy(g) /\ Busy(h) => g = h

\* What a request is about to save has been checked against what is still saved.
Free(h) == job[h].cfg.on => SamePort(User(h), job[h].cfg) = {}

CheckedIsFree == ~Crossed => \A h \in Handlers : job[h].at = "save" => Free(h)

VxlanInv == Shapes /\ OneAtATime /\ CheckedIsFree /\ PairsDiffer

LEMMA NotRefusedIsFree ==
  ASSUME NEW r, NEW c, ~Refused(r, c), c.on
  PROVE  SamePort(r.user, c) = {}
  BY DEF Refused

LEMMA InitVxlan == Init => VxlanInv
<1> SUFFICES ASSUME Init PROVE VxlanInv
  OBVIOUS
<1>1. Shapes
  BY DEF Init, Shapes, Idle
<1>2. OneAtATime /\ CheckedIsFree
  BY DEF Init, OneAtATime, CheckedIsFree, Busy, Idle
<1>3. \A u \in Users : ~get_vxlan_config(u).on
  BY DEF Init, get_vxlan_config
<1>4. QED
  BY <1>1, <1>2, <1>3 DEF VxlanInv, PairsDiffer

\* One request changes its own record only, and saves nothing.
LEMMA OwnStep ==
  ASSUME VxlanInv, NEW h \in Handlers, Busy(h), UNCHANGED <<saved, overlaps>>,
         faults' = faults \/ faults' = faults + 1,
         DOMAIN job' = Handlers, DOMAIN job'[h] = {"at", "req", "cfg", "todo", "had", "alone"},
         \A g \in Handlers \ {h} : job'[g] = job[g],
         job'[h].at = "save" => Free(h)'
  PROVE  VxlanInv'
<1>1. Shapes'
  BY DEF VxlanInv, Shapes
<1>2. Crossed' \/ (Crossed' = Crossed)
  BY DEF VxlanInv, Shapes, Crossed
<1>3. ~Crossed' => ~Crossed
  BY DEF VxlanInv, Shapes, Crossed
<1>4. OneAtATime'
  BY <1>3 DEF VxlanInv, OneAtATime, Busy
<1>5. ASSUME ~Crossed', NEW g \in Handlers, job'[g].at = "save" PROVE Free(g)'
  <2>1. CASE g = h
    BY <1>5, <2>1
  <2>2. CASE g # h
    BY <1>3, <1>5, <2>2 DEF VxlanInv, CheckedIsFree, Free, SamePort, SameVni, User, get_vxlan_config
  <2>3. QED
    BY <2>1, <2>2
<1>6. CheckedIsFree'
  BY <1>5 DEF CheckedIsFree
<1>7. PairsDiffer'
  BY <1>3 DEF VxlanInv, PairsDiffer, get_vxlan_config
<1>8. QED
  BY <1>1, <1>4, <1>6, <1>7 DEF VxlanInv

LEMMA BeginVxlan ==
  ASSUME VxlanInv, NEW h \in Handlers, NEW r \in Requests, Begin(h, r)
  PROVE  VxlanInv'
<1> DEFINE others == {g \in Handlers : Busy(g)}
           same == {g \in others : User(g) = r.user}
           j == [Idle EXCEPT !.at = IF r.route = "vpnips" THEN "read" ELSE "merge",
                             !.req = r, !.alone = same = {}]
<1>1. /\ UNCHANGED <<saved, faults>>
      /\ overlaps' = IF others = {} THEN overlaps ELSE overlaps + 1
      /\ job' = [g \in Handlers |-> IF g = h THEN j
                                    ELSE IF g \in same THEN [job[g] EXCEPT !.alone = FALSE]
                                    ELSE job[g]]
  BY DEF Begin
<1>2. DOMAIN j = {"at", "req", "cfg", "todo", "had", "alone"} /\ j.at # "save"
  BY DEF Idle
<1> HIDE DEF j
<1>3. \A g \in Handlers : DOMAIN [job[g] EXCEPT !.alone = FALSE] = {"at", "req", "cfg", "todo", "had", "alone"}
  BY DEF VxlanInv, Shapes
<1>4. Shapes'
  BY <1>1, <1>2, <1>3 DEF VxlanInv, Shapes
<1>5. ~Crossed' => others = {} /\ ~Crossed
  BY <1>1 DEF VxlanInv, Shapes, Crossed
<1>6. ~Crossed' => \A g \in Handlers \ {h} : job'[g] = job[g] /\ ~Busy(g)
  BY <1>1, <1>5
<1>7. OneAtATime'
  BY <1>6 DEF OneAtATime, Busy
<1>8. CheckedIsFree'
  <2>1. job'[h] = j
    BY <1>1
  <2>2. ~Crossed' => \A g \in Handlers \ {h} : job'[g] = Idle
    BY <1>6 DEF Busy
  <2>3. QED
    BY <1>2, <2>1, <2>2 DEF CheckedIsFree, Idle
<1>9. PairsDiffer'
  BY <1>1, <1>5 DEF VxlanInv, PairsDiffer, get_vxlan_config
<1>10. QED
  BY <1>4, <1>7, <1>8, <1>9 DEF VxlanInv

LEMMA CheckVxlan ==
  ASSUME VxlanInv, NEW h \in Handlers, Check(h)
  PROVE  VxlanInv'
<1>1. job[h].at = "check" /\ UNCHANGED <<saved, overlaps, faults>>
  BY DEF Check
<1>2. Busy(h)
  BY <1>1 DEF Busy, Idle
<1>3. CASE Refused(job[h].req, job[h].cfg)
  <2>1. job' = [job EXCEPT ![h] = Idle]
    BY <1>3 DEF Check, End
  <2>2. DOMAIN Idle = {"at", "req", "cfg", "todo", "had", "alone"} /\ Idle.at # "save"
    BY DEF Idle
  <2>3. QED
    BY <1>1, <1>2, <2>1, <2>2, OwnStep DEF VxlanInv, Shapes
<1>4. CASE ~Refused(job[h].req, job[h].cfg)
  <2>1. job' = [job EXCEPT ![h] = [job[h] EXCEPT !.at = "save"]]
    BY <1>4 DEF Check, Goto
  <2>2. /\ DOMAIN job' = Handlers /\ \A g \in Handlers \ {h} : job'[g] = job[g]
        /\ DOMAIN job'[h] = {"at", "req", "cfg", "todo", "had", "alone"}
        /\ job'[h].cfg = job[h].cfg /\ job'[h].req = job[h].req
    BY <2>1 DEF VxlanInv, Shapes
  <2>3. job[h].cfg.on => SamePort(job[h].req.user, job[h].cfg) = {}
    BY <1>4, NotRefusedIsFree
  <2>4. Free(h)'
    BY <1>1, <2>2, <2>3 DEF Free, User, SamePort, SameVni, get_vxlan_config
  <2>5. QED
    BY <1>1, <1>2, <2>2, <2>4, OwnStep
<1>5. QED
  BY <1>3, <1>4

LEMMA SaveVxlan ==
  ASSUME VxlanInv, NEW h \in Handlers, Save(h)
  PROVE  VxlanInv'
<1>0. PICK c, u : c = job[h].cfg /\ u = User(h)
  OBVIOUS
<1>1. /\ job[h].at = "save"
      /\ saved' = [saved EXCEPT ![u] = c]
      /\ job' = [job EXCEPT ![h].at = "conf", ![h].cfg = None]
      /\ UNCHANGED <<overlaps, faults>>
  BY <1>0 DEF Save
<1>2. /\ job'[h].at # "save" /\ DOMAIN job'[h] = {"at", "req", "cfg", "todo", "had", "alone"}
      /\ DOMAIN job' = Handlers
      /\ \A g \in Handlers \ {h} : job'[g] = job[g]
  BY <1>1 DEF VxlanInv, Shapes
<1>3. Shapes'
  BY <1>1, <1>2 DEF VxlanInv, Shapes
<1>4. Crossed' = Crossed
  BY <1>1 DEF Crossed
<1>5. Busy(h)
  BY <1>1 DEF Busy, Idle
<1>6. OneAtATime'
  BY <1>2, <1>4, <1>5 DEF VxlanInv, OneAtATime, Busy
<1>7. ~Crossed => \A g \in Handlers \ {h} : job[g] = Idle
  BY <1>5 DEF VxlanInv, OneAtATime, Busy
<1>8. CheckedIsFree'
  BY <1>2, <1>4, <1>7 DEF CheckedIsFree, Idle
<1>9. ASSUME ~Crossed PROVE PairsDiffer'
  <2>1. c.on => SamePort(u, c) = {}
    BY <1>0, <1>1, <1>9 DEF VxlanInv, CheckedIsFree, Free
  <2>2. \A v \in Users \ {u} : get_vxlan_config(v)' = get_vxlan_config(v)
    BY <1>1 DEF VxlanInv, Shapes, get_vxlan_config
  <2>3. u \in Users => saved'[u] = c
    BY <1>1 DEF VxlanInv, Shapes
  <2>4. ASSUME NEW v \in Users \ {u}, u \in Users, get_vxlan_config(u)'.on, get_vxlan_config(v).on
        PROVE  <<get_vxlan_config(u)'.vni, get_vxlan_config(u)'.port>>
                 # <<get_vxlan_config(v).vni, get_vxlan_config(v).port>>
    <3>1. get_vxlan_config(u)' = c
      BY <2>3, <2>4 DEF get_vxlan_config
    <3>2. v \notin SamePort(u, c)
      BY <2>1, <2>4, <3>1
    <3>3. QED
      BY <3>1, <3>2 DEF SamePort, SameVni
  <2>5. QED
    BY <1>9, <2>2, <2>4 DEF VxlanInv, PairsDiffer
<1>10. PairsDiffer'
  BY <1>4, <1>9 DEF PairsDiffer
<1>11. QED
  BY <1>3, <1>6, <1>8, <1>10 DEF VxlanInv

\* Everything else neither checks nor saves a tunnel's configuration.
LEMMA OtherVxlan ==
  ASSUME VxlanInv, NEW h \in Handlers,
         \/ Merge(h) \/ ReadAll(h) \/ SaveVpn(h) \/ WriteSixin4(h) \/ RestartSixin4(h)
         \/ ReadConf(h) \/ WriteConf(h) \/ StartUnit(h) \/ StopUnit(h) \/ RemoveConf(h)
         \/ UnitFails(h) \/ CutOff(h)
  PROVE  VxlanInv'
<1>1. Busy(h) /\ UNCHANGED <<saved, overlaps>> /\ (faults' = faults \/ faults' = faults + 1)
  <2>1. CASE UnitFails(h)
    BY <2>1 DEF UnitFails, Busy, Idle
  <2>2. CASE CutOff(h)
    BY <2>2 DEF CutOff
  <2>3. CASE ~UnitFails(h) /\ ~CutOff(h)
    <3>1. UNCHANGED <<saved, overlaps, faults>>
      BY <2>3 DEF Merge, ReadAll, SaveVpn, WriteSixin4, RestartSixin4, ReadConf, WriteConf,
                  StartUnit, StopUnit, RemoveConf
    <3>2. job[h].at \in Steps
      BY <2>3 DEF Merge, ReadAll, SaveVpn, WriteSixin4, RestartSixin4, ReadConf, WriteConf,
                  StartUnit, StopUnit, RemoveConf, Steps
    <3>3. QED
      BY <3>1, <3>2 DEF Busy, Idle, Steps
  <2>4. QED
    BY <2>1, <2>2, <2>3
<1>2. PICK j : /\ job' = [job EXCEPT ![h] = j]
               /\ DOMAIN j = {"at", "req", "cfg", "todo", "had", "alone"} /\ j.at # "save"
  <2>1. DOMAIN job[h] = {"at", "req", "cfg", "todo", "had", "alone"}
    BY DEF VxlanInv, Shapes
  <2>2. DOMAIN Idle = {"at", "req", "cfg", "todo", "had", "alone"} /\ Idle.at # "save"
    BY DEF Idle
  <2>3. CASE Merge(h)
    <3> DEFINE j == [job[h] EXCEPT !.at = "check", !.cfg = _merge_vxlan_config(job[h].req)]
    <3>1. job' = [job EXCEPT ![h] = j]
      BY <2>3 DEF Merge, VxlanInv, Shapes
    <3>2. DOMAIN j = {"at", "req", "cfg", "todo", "had", "alone"} /\ j.at # "save"
      BY <2>1
    <3>3. QED
      BY <3>1, <3>2
  <2>4. CASE ReadAll(h)
    <3> DEFINE todo == Differing(job[h].req)
               j == [job[h] EXCEPT !.at = IF todo = {} THEN "six" ELSE "learn", !.todo = todo,
                                   !.had = saved[User(h)] # None]
    <3>1. job' = [job EXCEPT ![h] = j] \/ job' = [job EXCEPT ![h] = Idle]
      BY <2>4 DEF ReadAll, End, VxlanInv, Shapes
    <3>2. DOMAIN j = {"at", "req", "cfg", "todo", "had", "alone"} /\ j.at # "save"
      BY <2>1
    <3>3. QED
      BY <2>2, <3>1, <3>2
  <2>5. CASE SaveVpn(h)
    <3> PICK d : job' = [job EXCEPT ![h].at = IF job[h].todo = {d} THEN "six" ELSE "learn",
                                    ![h].todo = @ \ {d}]
      BY <2>5 DEF SaveVpn
    <3> DEFINE j == [job[h] EXCEPT !.at = IF job[h].todo = {d} THEN "six" ELSE "learn",
                                   !.todo = job[h].todo \ {d}]
    <3>1. job' = [job EXCEPT ![h] = j]
      BY DEF VxlanInv, Shapes
    <3>2. DOMAIN j = {"at", "req", "cfg", "todo", "had", "alone"} /\ j.at # "save"
      BY <2>1
    <3>3. QED
      BY <3>1, <3>2
  <2>6. CASE WriteSixin4(h) \/ RestartSixin4(h) \/ UnitFails(h) \/ StopUnit(h)
    <3>1. (\E s \in {"up", "conf", "remove"} : Goto(h, s)) \/ End(h)
      BY <2>6 DEF WriteSixin4, RestartSixin4, OnToVxlan, UnitFails, StopUnit
    <3>2. QED
      BY <2>1, <2>2, <3>1 DEF Goto, End
  <2>7. CASE ReadConf(h)
    BY <2>1, <2>2, <2>7 DEF ReadConf, Goto, End
  <2>8. CASE WriteConf(h)
    BY <2>1, <2>2, <2>8 DEF WriteConf, End
  <2>9. CASE StartUnit(h) \/ RemoveConf(h) \/ CutOff(h)
    BY <2>2, <2>9 DEF StartUnit, RemoveConf, CutOff, End
  <2>10. QED
    BY <2>3, <2>4, <2>5, <2>6, <2>7, <2>8, <2>9
<1>3. /\ DOMAIN job' = Handlers /\ job'[h] = j
      /\ \A g \in Handlers \ {h} : job'[g] = job[g]
  BY <1>2 DEF VxlanInv, Shapes
<1>4. QED
  BY <1>1, <1>2, <1>3, OwnStep

LEMMA NextVxlan == VxlanInv /\ [Next]_vars => VxlanInv'
<1> SUFFICES ASSUME VxlanInv, [Next]_vars PROVE VxlanInv'
  OBVIOUS
<1>1. CASE UNCHANGED vars
  BY <1>1 DEF vars, VxlanInv, Shapes, OneAtATime, CheckedIsFree, PairsDiffer, Crossed, Busy, Free,
              User, SamePort, SameVni, get_vxlan_config
<1>2. QED
  BY <1>1, BeginVxlan, CheckVxlan, SaveVxlan, OtherVxlan DEF Next

----------------------------------------------------------------------------
(* Types *)

Records == [at : Steps, req : Requests, cfg : Configs \cup {None},
            todo : SUBSET VpnData, had : BOOLEAN, alone : BOOLEAN]

Learning == {"read", "learn", "six", "up"}

\* A request that is at a step of its route, with what it needs there.
JobFits(j) ==
    /\ j \in Records
    /\ j.at \in Learning => j.req.route = "vpnips"
    /\ j.at \in {"merge", "check"} => j.req.route # "vpnips"
    /\ j.at \in {"check", "save", "write"} => j.cfg \in Configs
    /\ j.at = "learn" => j.todo # {}

TypeInv == TypeOK /\ \A h \in Handlers : job[h] = Idle \/ JobFits(job[h])

VpnTypes == [remote : Addrs \cup {None}, local : Addrs \cup {None}, ula : Ulas \cup {None}]

LEMMA ConfigTypes ==
  ASSUME ConstantsOK, TypeInv, NEW u \in Users
  PROVE  get_vxlan_config(u) \in Configs
<1>1. saved[u] \in Configs \cup {None} /\ u + 1 \in Vnis /\ DefaultPort \in Ports
  BY DEF ConstantsOK, TypeInv, TypeOK
<1>2. [on |-> FALSE, vni |-> u + 1, port |-> DefaultPort] \in Configs
  BY <1>1 DEF Configs
<1>3. QED
  BY <1>1, <1>2 DEF get_vxlan_config

LEMMA RequestTypes ==
  ASSUME ConstantsOK, NEW r \in Requests
  PROVE  /\ r.user \in Users
         /\ r.route = "vpnips" => r.addr \in Addrs /\ r.ula \in Ulas \cup {None}
         /\ r.route # "vpnips" => /\ r.on \in BOOLEAN \cup {None}
                                  /\ r.vni \in Vnis \cup {None} /\ r.port \in Ports \cup {None}
  BY DEF ConstantsOK

LEMMA MergeTypes ==
  ASSUME ConstantsOK, TypeInv, NEW r \in Requests, r.route # "vpnips"
  PROVE  _merge_vxlan_config(r) \in Configs
<1> DEFINE c == get_vxlan_config(r.user)
<1>1. /\ c.on \in BOOLEAN /\ c.vni \in Vnis /\ c.port \in Ports
      /\ r.on \in BOOLEAN \cup {None} /\ r.vni \in Vnis \cup {None} /\ r.port \in Ports \cup {None}
  BY RequestTypes, ConfigTypes DEF Configs
<1> HIDE DEF c
<1>2. /\ Given(r.on, c.on) \in BOOLEAN /\ Given(r.vni, c.vni) \in Vnis
      /\ Given(r.port, c.port) \in Ports
  BY <1>1 DEF Given
<1>3. QED
  BY <1>2 DEF _merge_vxlan_config, Configs, c

\* Somebody at work.
LEMMA AtWork ==
  ASSUME ConstantsOK, TypeInv, NEW h \in Handlers, Busy(h)
  PROVE  /\ JobFits(job[h]) /\ job[h] \in Records /\ job[h].req \in Requests
         /\ User(h) \in Users /\ job[h].at \in Steps
<1>1. JobFits(job[h])
  BY DEF TypeInv, Busy
<1>2. job[h] \in Records /\ job[h].req \in Requests /\ job[h].at \in Steps
  BY <1>1 DEF JobFits, Records
<1>3. QED
  BY <1>1, <1>2, RequestTypes DEF User

LEMMA AtIsBusy ==
  ASSUME NEW h \in Handlers, job[h].at \in Steps
  PROVE  Busy(h)
  BY DEF Busy, Idle, Steps

LEMMA JobStep ==
  ASSUME TypeInv, NEW h \in Handlers, NEW j, j = Idle \/ JobFits(j), job' = [job EXCEPT ![h] = j]
  PROVE  /\ job' \in [Handlers -> Records \cup {Idle}] /\ job'[h] = j
         /\ \A g \in Handlers \ {h} : job'[g] = job[g]
         /\ \A g \in Handlers : job'[g] = Idle \/ JobFits(job'[g])
<1>1. job \in [Handlers -> Records \cup {Idle}] /\ j \in Records \cup {Idle}
  BY DEF TypeInv, TypeOK, Records, JobFits
<1>2. /\ job'[h] = j /\ \A g \in Handlers \ {h} : job'[g] = job[g]
      /\ job' \in [Handlers -> Records \cup {Idle}]
  BY <1>1
<1>3. QED
  BY <1>2 DEF TypeInv

\* What Goto makes of a record.
LEMMA GotoFits ==
  ASSUME TypeInv, NEW h \in Handlers, JobFits(job[h]), NEW s \in Steps, Goto(h, s),
         s \in Learning => job[h].at \in Learning,
         s \notin {"merge", "check", "write", "learn"}, s = "save" => job[h].at = "check"
  PROVE  /\ JobFits(job'[h]) /\ job'[h] # Idle
         /\ job'[h].at = s /\ job'[h].req = job[h].req /\ job'[h].cfg = job[h].cfg
         /\ job'[h].had = job[h].had /\ job'[h].alone = job[h].alone
         /\ \A g \in Handlers \ {h} : job'[g] = job[g]
         /\ \A g \in Handlers : job'[g] = Idle \/ JobFits(job'[g])
         /\ job' \in [Handlers -> Records \cup {Idle}]
<1> DEFINE j == [job[h] EXCEPT !.at = s]
<1>1. job' = [job EXCEPT ![h] = j]
  BY DEF Goto
<1>2. /\ j \in Records /\ j.at = s /\ j.req = job[h].req /\ j.cfg = job[h].cfg
      /\ j.had = job[h].had /\ j.alone = job[h].alone
  BY DEF JobFits, Records
<1> HIDE DEF j
<1>3. JobFits(j)
  BY <1>2 DEF JobFits
<1>4. j # Idle
  BY <1>2 DEF Idle, Steps
<1>5. QED
  BY <1>1, <1>2, <1>3, <1>4, JobStep

LEMMA EndFits ==
  ASSUME TypeInv, NEW h \in Handlers, End(h)
  PROVE  /\ job'[h] = Idle /\ \A g \in Handlers \ {h} : job'[g] = job[g]
         /\ \A g \in Handlers : job'[g] = Idle \/ JobFits(job'[g])
         /\ job' \in [Handlers -> Records \cup {Idle}]
  BY JobStep DEF End

----------------------------------------------------------------------------
(* What a user's tunnels show *)

Mine(u) == {h \in Handlers : Busy(h) /\ User(h) = u}

InLine(u) == <<u, "vxlan">> \notin apart => file[u] = dev[u] /\ dev[u] = Wanted(u)

\* The unit has seen the file, which may not be the latest.
Seen(u) == <<u, "vxlan">> \notin apart => file[u] = dev[u]

\* Its unit has seen the file, whatever addresses that has.
SixSeen(u) == <<u, "sixin4">> \notin apart => six[u] # HalfWritten /\ sixin4[u] = six[u]

Sixin4InLine(u) == SixSeen(u) /\ (<<u, "sixin4">> \notin apart => AddrOf(six[u]) = vpn[u].remote)

Asked(r) == [addr |-> r.addr, ula |-> r.ula]

\* Where the only request of its user is.
Phase(h) ==
    LET u == User(h)
        c == get_vxlan_config(u)
    IN  CASE job[h].at \in {"merge", "check", "save", "read"} ->
               InLine(u) /\ Sixin4InLine(u)
          [] job[h].at \in {"learn", "six", "up"} ->
               /\ Seen(u)
               /\ job[h].had <=> saved[u] # None
               /\ saved[u] = None => InLine(u)
               /\ (job[h].at = "learn" /\ "remote" \in job[h].todo) \/ vpn[u].remote = job[h].req.addr
               /\ IF job[h].at = "up" THEN six[u] = Asked(job[h].req) ELSE SixSeen(u)
          [] job[h].at = "conf" -> Seen(u) /\ Sixin4InLine(u)
          [] job[h].at = "write" -> Seen(u) /\ Sixin4InLine(u) /\ c.on /\ job[h].cfg = c
          [] job[h].at = "start" ->
               c.on /\ Known(u) /\ file[u] = Rendered(u, c) /\ Sixin4InLine(u)
          [] job[h].at = "stop" -> ~c.on /\ file[u] # None /\ Sixin4InLine(u)
          [] job[h].at = "remove" ->
               ~c.on /\ (<<u, "vxlan">> \notin apart => dev[u] = None) /\ Sixin4InLine(u)
          [] OTHER -> FALSE

\* Before both addresses are known there is neither a file nor a device; requests
\* of the same user set its tunnels apart; between them the tunnels are in line.
UserInv(u) ==
    /\ ~Known(u) => file[u] = None /\ dev[u] = None
    /\ \A h \in Mine(u) : IF job[h].alone THEN Phase(h) /\ Mine(u) = {h}
                                          ELSE {u} \X Tunnels \subseteq apart
    /\ Mine(u) = {} => InLine(u) /\ Sixin4InLine(u)

ShowInv == (~Crossed => apart = {}) /\ \A u \in Users : UserInv(u)

\* What a user's tunnels show depends on what is kept of that user.
LEMMA SameShow ==
  ASSUME NEW u, saved'[u] = saved[u], vpn'[u] = vpn[u], file'[u] = file[u], dev'[u] = dev[u],
         six'[u] = six[u], sixin4'[u] = sixin4[u],
         \A t \in Tunnels : <<u, t>> \in apart' <=> <<u, t>> \in apart
  PROVE  /\ InLine(u)' <=> InLine(u)
         /\ Seen(u)' <=> Seen(u)
         /\ SixSeen(u)' <=> SixSeen(u)
         /\ Sixin4InLine(u)' <=> Sixin4InLine(u)
         /\ Known(u)' <=> Known(u)
         /\ get_vxlan_config(u)' = get_vxlan_config(u)
         /\ \A c : [vni |-> c.vni, port |-> c.port, addr |-> vpn'[u].remote] = Rendered(u, c)
<1>1. get_vxlan_config(u)' = get_vxlan_config(u) /\ (Known(u)' <=> Known(u))
  BY DEF get_vxlan_config, Known
<1>2. \A c : [vni |-> c.vni, port |-> c.port, addr |-> vpn'[u].remote] = Rendered(u, c)
  BY DEF Rendered
<1>3. Wanted(u)' = Wanted(u)
  BY <1>1 DEF Wanted, Rendered
<1>4. QED
  BY <1>1, <1>2, <1>3 DEF InLine, Seen, SixSeen, Sixin4InLine, AddrOf, Tunnels

LEMMA OtherUsers ==
  ASSUME NEW u, UserInv(u),
         saved'[u] = saved[u], vpn'[u] = vpn[u], file'[u] = file[u], dev'[u] = dev[u],
         six'[u] = six[u], sixin4'[u] = sixin4[u],
         \A t \in Tunnels : <<u, t>> \in apart' <=> <<u, t>> \in apart,
         \A g \in Handlers : job'[g] = job[g] \/ (g \notin Mine(u) /\ g \notin Mine(u)')
  PROVE  UserInv(u)'
<1>1. /\ InLine(u)' <=> InLine(u)
      /\ Seen(u)' <=> Seen(u)
      /\ SixSeen(u)' <=> SixSeen(u)
      /\ Sixin4InLine(u)' <=> Sixin4InLine(u)
      /\ Known(u)' <=> Known(u)
      /\ get_vxlan_config(u)' = get_vxlan_config(u)
      /\ \A c : [vni |-> c.vni, port |-> c.port, addr |-> vpn'[u].remote] = Rendered(u, c)
  BY SameShow
<1>2. \A g \in Handlers : job'[g] = job[g] => (g \in Mine(u)' <=> g \in Mine(u))
  BY DEF Mine, Busy, User
<1>3. Mine(u)' = Mine(u)
  <2>1. \A g \in Handlers : g \in Mine(u)' <=> g \in Mine(u)
    BY <1>2
  <2>2. QED
    BY <2>1 DEF Mine
<1>4. ASSUME NEW g \in Mine(u)
      PROVE  job'[g] = job[g] /\ (Phase(g)' <=> Phase(g))
  <2>1. job'[g] = job[g] /\ User(g) = u /\ User(g)' = u
    BY <1>3, <1>4 DEF Mine
  <2>2. User(g)' = User(g) /\ job[g] = job'[g] /\ get_vxlan_config(u)' = get_vxlan_config(u)
    BY <1>1, <2>1
  <2>3. CASE job[g].at \in {"learn", "six", "up"}
    BY <1>1, <2>1, <2>2, <2>3 DEF Phase
  <2>4. CASE job[g].at \notin {"learn", "six", "up"}
    BY <1>1, <2>1, <2>2, <2>4 DEF Phase, Rendered, Tunnels
  <2>5. QED
    BY <2>3, <2>4
<1>5. {u} \X Tunnels \subseteq apart => {u} \X Tunnels \subseteq apart'
  OBVIOUS
<1>6. QED
  BY <1>1, <1>3, <1>4, <1>5 DEF UserInv

\* A step of a request changes what is kept of its user only.
LEMMA UserStep ==
  ASSUME ShowInv, NEW h \in Handlers, Busy(h), NEW u \in Users, u = User(h),
         \A g \in Handlers \ {h} : job'[g] = job[g],
         job'[h] # Idle => job'[h].req = job[h].req /\ job'[h].alone = job[h].alone,
         \A v \in Users \ {u} :
           /\ saved'[v] = saved[v] /\ vpn'[v] = vpn[v] /\ file'[v] = file[v] /\ dev'[v] = dev[v]
           /\ six'[v] = six[v] /\ sixin4'[v] = sixin4[v]
           /\ \A t \in Tunnels : <<v, t>> \in apart' <=> <<v, t>> \in apart,
         ~Crossed' => apart' = {},
         ~Known(u)' => file'[u] = None /\ dev'[u] = None,
         ~job[h].alone => \A t \in Tunnels : <<u, t>> \in apart => <<u, t>> \in apart',
         job[h].alone /\ job'[h] = Idle => InLine(u)' /\ Sixin4InLine(u)',
         job[h].alone /\ job'[h] # Idle => Phase(h)'
  PROVE  ShowInv'
<1>1. ASSUME NEW v \in Users \ {u} PROVE UserInv(v)'
  <2>1. h \notin Mine(v) /\ h \notin Mine(v)'
    BY <1>1 DEF Mine, Busy, User
  <2>2. UserInv(v)
    BY <1>1 DEF ShowInv
  <2>3. QED
    BY <1>1, <2>1, <2>2, OtherUsers
<1>2. UserInv(u) /\ h \in Mine(u)
  BY DEF ShowInv, Mine
<1>3. Mine(u)' = IF job'[h] = Idle THEN Mine(u) \ {h} ELSE Mine(u)
  <2>1. \A g \in Handlers \ {h} : g \in Mine(u)' <=> g \in Mine(u)
    BY DEF Mine, Busy, User
  <2>2. h \in Mine(u)' <=> job'[h] # Idle
    BY DEF Mine, Busy, User
  <2>3. Mine(u) \subseteq Handlers /\ Mine(u)' \subseteq Handlers
    BY DEF Mine
  <2>4. QED
    BY <1>2, <2>1, <2>2, <2>3
<1>4. UserInv(u)'
  <2>1. CASE job[h].alone
    <3>1. Mine(u) = {h}
      BY <1>2, <2>1 DEF UserInv
    <3>2. CASE job'[h] = Idle
      <4>1. Mine(u)' = {}
        BY <1>3, <3>1, <3>2
      <4>2. QED
        BY <2>1, <3>2, <4>1 DEF UserInv
    <3>3. CASE job'[h] # Idle
      <4>1. Mine(u)' = {h} /\ job'[h].alone
        BY <1>3, <2>1, <3>1, <3>3
      <4>2. QED
        BY <2>1, <3>3, <4>1 DEF UserInv
    <3>4. QED
      BY <3>2, <3>3
  <2>2. CASE ~job[h].alone
    <3>1. {u} \X Tunnels \subseteq apart
      BY <1>2, <2>2 DEF UserInv
    <3>2. \A t \in Tunnels : <<u, t>> \in apart'
      BY <2>2, <3>1
    <3>3. {u} \X Tunnels \subseteq apart'
      BY <3>2
    <3>4. \A g \in Mine(u) : ~job[g].alone
      BY <1>2, <2>2 DEF UserInv
    <3>5. \A g \in Mine(u)' : ~job'[g].alone
      <4>1. ASSUME NEW g \in Mine(u)' PROVE ~job'[g].alone
        <5>1. CASE g = h
          <6>1. job'[h] # Idle
            BY <4>1, <5>1 DEF Mine, Busy
          <6>2. QED
            BY <2>2, <5>1, <6>1
        <5>2. CASE g # h
          <6>1. g \in Mine(u) /\ job'[g] = job[g]
            BY <1>3, <4>1, <5>2 DEF Mine
          <6>2. QED
            BY <3>4, <6>1
        <5>3. QED
          BY <5>1, <5>2
      <4>2. QED
        BY <4>1
    <3>6. InLine(u)' /\ Sixin4InLine(u)'
      BY <3>2 DEF InLine, SixSeen, Sixin4InLine, Tunnels
    <3>7. QED
      BY <3>3, <3>5, <3>6 DEF UserInv
  <2>3. QED
    BY <2>1, <2>2
<1>5. QED
  BY <1>1, <1>4 DEF ShowInv

----------------------------------------------------------------------------
(* Every step keeps the tunnels in line *)

TunnelsInv == TypeInv /\ ShowInv

LEMMA TypeIs ==
  ASSUME TypeInv
  PROVE  /\ saved \in [Users -> Configs \cup {None}] /\ vpn \in [Users -> VpnTypes]
         /\ file \in [Users -> Devices \cup {None, HalfWritten}]
         /\ dev \in [Users -> Devices \cup {None}]
         /\ six \in [Users -> Sixin4s \cup {None, HalfWritten}]
         /\ sixin4 \in [Users -> Sixin4s \cup {None}]
         /\ job \in [Handlers -> Records \cup {Idle}]
         /\ apart \in SUBSET (Users \X Tunnels)
         /\ overlaps \in 0..MaxTroubles /\ faults \in 0..MaxTroubles
  BY DEF TypeInv, TypeOK, VpnTypes, Records

LEMMA TypeIsNext ==
  ASSUME saved' \in [Users -> Configs \cup {None}], vpn' \in [Users -> VpnTypes],
         file' \in [Users -> Devices \cup {None, HalfWritten}],
         dev' \in [Users -> Devices \cup {None}],
         six' \in [Users -> Sixin4s \cup {None, HalfWritten}],
         sixin4' \in [Users -> Sixin4s \cup {None}],
         job' \in [Handlers -> Records \cup {Idle}],
         \A g \in Handlers : job'[g] = Idle \/ JobFits(job'[g]),
         apart' \in SUBSET (Users \X Tunnels),
         overlaps' \in 0..MaxTroubles, faults' \in 0..MaxTroubles
  PROVE  TypeInv'
  BY DEF TypeInv, TypeOK, VpnTypes, Records, JobFits

\* What is known of a request at a step of its own.
LEMMA AtStep ==
  ASSUME ConstantsOK, TunnelsInv, NEW h \in Handlers, job[h].at \in Steps
  PROVE  /\ Busy(h) /\ JobFits(job[h]) /\ job[h] \in Records /\ User(h) \in Users
         /\ job[h].req \in Requests
         /\ job[h].alone => Phase(h)
         /\ ~Known(User(h)) => file[User(h)] = None /\ dev[User(h)] = None
         /\ ~Crossed => apart = {}
<1>1. Busy(h) /\ TypeInv /\ ShowInv
  BY AtIsBusy DEF TunnelsInv
<1>2. UserInv(User(h)) /\ h \in Mine(User(h))
  BY <1>1, AtWork DEF ShowInv, Mine
<1>3. QED
  BY <1>1, <1>2, AtWork DEF UserInv, ShowInv

\* A step that changes nothing but the request itself.
LEMMA JobOnly ==
  ASSUME ConstantsOK, TunnelsInv, NEW h \in Handlers, job[h].at \in Steps,
         UNCHANGED <<saved, vpn, file, dev, six, sixin4, apart, overlaps, faults>>,
         NEW j, j = Idle \/ JobFits(j), job' = [job EXCEPT ![h] = j],
         j # Idle => j.req = job[h].req /\ j.alone = job[h].alone,
         job[h].alone /\ j = Idle => InLine(User(h)) /\ Sixin4InLine(User(h)),
         job[h].alone /\ j # Idle => Phase(h)'
  PROVE  TunnelsInv'
<1>1. Busy(h) /\ TypeInv /\ ShowInv
  BY AtStep DEF TunnelsInv
<1>2. /\ job' \in [Handlers -> Records \cup {Idle}] /\ job'[h] = j
      /\ \A g \in Handlers \ {h} : job'[g] = job[g]
      /\ \A g \in Handlers : job'[g] = Idle \/ JobFits(job'[g])
  BY <1>1, JobStep
<1>3. TypeInv'
  BY <1>1, <1>2, TypeIs, TypeIsNext
<1>4. PICK u \in Users : u = User(h)
  BY <1>1, AtWork
<1>5. /\ InLine(u)' <=> InLine(u)
      /\ Sixin4InLine(u)' <=> Sixin4InLine(u)
      /\ Known(u)' <=> Known(u)
  BY SameShow
<1>6. ~Crossed' => apart' = {}
  BY <1>1 DEF ShowInv, Crossed
<1>7. ~Known(u)' => file'[u] = None /\ dev'[u] = None
  BY <1>1, <1>5 DEF ShowInv, UserInv
<1>8. ShowInv'
  BY <1>1, <1>2, <1>4, <1>5, <1>6, <1>7, UserStep
<1>9. QED
  BY <1>3, <1>8 DEF TunnelsInv

LEMMA MergeKeeps ==
  ASSUME ConstantsOK, TunnelsInv, NEW h \in Handlers, Merge(h)
  PROVE  TunnelsInv'
<1> DEFINE c == _merge_vxlan_config(job[h].req)
           j == [job[h] EXCEPT !.at = "check", !.cfg = c]
<1>1. /\ job[h].at = "merge" /\ {"merge", "check"} \subseteq Steps
      /\ job' = [job EXCEPT ![h].at = "check", ![h].cfg = c]
      /\ UNCHANGED <<saved, vpn, file, dev, six, sixin4, apart, overlaps, faults>>
  BY DEF Merge, Steps
<1>2. /\ JobFits(job[h]) /\ job[h] \in Records /\ job[h].req \in Requests
      /\ job[h].alone => Phase(h)
      /\ job[h].req.route # "vpnips" /\ TypeInv
  BY <1>1, AtStep DEF JobFits, TunnelsInv
<1>3. c \in Configs
  BY <1>2, MergeTypes
<1> HIDE DEF c
<1>4. job' = [job EXCEPT ![h] = j]
  BY <1>1, <1>2, TypeIs
<1>5. j \in Records /\ j.at = "check" /\ j.req = job[h].req /\ j.alone = job[h].alone /\ j.cfg = c
  BY <1>1, <1>2, <1>3 DEF Records
<1> HIDE DEF j
<1>6. JobFits(j)
  BY <1>2, <1>3, <1>5 DEF JobFits, Learning
<1>7. job'[h] = j
  BY <1>2, <1>4, TypeIs
<1>8. job[h].alone => Phase(h)'
  <2>1. PICK u : u = User(h)
    OBVIOUS
  <2>2. User(h)' = u
    BY <1>5, <1>7, <2>1 DEF User
  <2>3. InLine(u)' <=> InLine(u)
    BY <1>1, SameShow
  <2>4. Sixin4InLine(u)' <=> Sixin4InLine(u)
    BY <1>1, SameShow
  <2>5. QED
    BY <1>1, <1>2, <1>5, <1>7, <2>1, <2>2, <2>3, <2>4 DEF Phase
<1>9. j # Idle /\ job[h].at \in Steps
  BY <1>1, <1>5 DEF Idle
<1>10. QED
  BY <1>1, <1>4, <1>5, <1>6, <1>8, <1>9, JobOnly

LEMMA CheckKeeps ==
  ASSUME ConstantsOK, TunnelsInv, NEW h \in Handlers, Check(h)
  PROVE  TunnelsInv'
<1>1. /\ job[h].at = "check" /\ {"check", "save"} \subseteq Steps
      /\ UNCHANGED <<saved, vpn, file, dev, six, sixin4, apart, overlaps, faults>>
      /\ End(h) \/ Goto(h, "save")
  BY DEF Check, Steps
<1>2. /\ JobFits(job[h]) /\ job[h] \in Records /\ TypeInv
      /\ job[h].alone => InLine(User(h)) /\ Sixin4InLine(User(h))
  BY <1>1, AtStep DEF TunnelsInv, Phase
<1>3. CASE End(h)
  BY <1>1, <1>2, <1>3, JobOnly DEF End
<1>4. CASE Goto(h, "save")
  <2> DEFINE j == [job[h] EXCEPT !.at = "save"]
  <2>1. job' = [job EXCEPT ![h] = j]
    BY <1>4 DEF Goto
  <2>2. /\ JobFits(job'[h]) /\ job'[h] # Idle /\ job'[h].at = "save" /\ job'[h].req = job[h].req
        /\ job'[h].alone = job[h].alone
    BY <1>1, <1>2, <1>4, GotoFits DEF Learning
  <2>3. job'[h] = j
    BY <1>2, <2>1, TypeIs
  <2> HIDE DEF j
  <2>4. PICK u : u = User(h)
    OBVIOUS
  <2>5. User(h)' = u
    BY <2>2, <2>4 DEF User
  <2>6. (InLine(u)' <=> InLine(u)) /\ (Sixin4InLine(u)' <=> Sixin4InLine(u))
    BY <1>1, SameShow
  <2>7. job[h].alone => Phase(h)'
    BY <1>2, <2>2, <2>4, <2>5, <2>6 DEF Phase
  <2>8. QED
    BY <1>1, <1>2, <2>1, <2>2, <2>3, <2>7, JobOnly
<1>5. QED
  BY <1>1, <1>3, <1>4

LEMMA ReadAllKeeps ==
  ASSUME ConstantsOK, TunnelsInv, NEW h \in Handlers, ReadAll(h)
  PROVE  TunnelsInv'
<1>1. PICK u, todo, had : u = User(h) /\ todo = Differing(job[h].req) /\ had = (saved[u] # None)
  OBVIOUS
<1> DEFINE j == [job[h] EXCEPT !.at = IF todo = {} THEN "six" ELSE "learn", !.todo = todo, !.had = had]
<1>2. /\ job[h].at = "read" /\ {"read", "learn", "six"} \subseteq Steps /\ job[h].at \in Steps
      /\ End(h) \/ job' = [job EXCEPT ![h].at = IF todo = {} THEN "six" ELSE "learn",
                                      ![h].todo = todo, ![h].had = had]
      /\ UNCHANGED <<saved, vpn, file, dev, six, sixin4, apart, overlaps, faults>>
  BY <1>1 DEF ReadAll, Steps
<1>3. /\ JobFits(job[h]) /\ job[h] \in Records /\ TypeInv /\ job[h].req.route = "vpnips"
      /\ job[h].alone => InLine(u) /\ Sixin4InLine(u)
  BY <1>1, <1>2, AtStep DEF JobFits, Learning, TunnelsInv, Phase
<1>4. CASE End(h)
  BY <1>1, <1>2, <1>3, <1>4, JobOnly DEF End
<1>5. CASE ~End(h)
  <2>1. job' = [job EXCEPT ![h] = j]
    BY <1>2, <1>3, <1>5, TypeIs
  <2>2. had \in BOOLEAN /\ todo \in SUBSET VpnData
    BY <1>1 DEF Differing, VpnData
  <2>3. /\ j \in Records /\ j.at = (IF todo = {} THEN "six" ELSE "learn")
        /\ j.req = job[h].req /\ j.alone = job[h].alone /\ j.todo = todo /\ j.had = had
    BY <1>2, <1>3, <2>2 DEF Records
  <2> HIDE DEF j
  <2>4. JobFits(j) /\ j # Idle
    BY <1>3, <2>3 DEF JobFits, Learning, Idle
  <2>5. job'[h] = j
    BY <1>3, <2>1, TypeIs
  <2>6. User(h)' = u
    BY <1>1, <2>3, <2>5 DEF User
  <2>7. "remote" \notin todo => vpn[u].remote = j.req.addr
    BY <1>1, <2>3 DEF Differing, User
  <2>8. (InLine(u)' <=> InLine(u)) /\ (SixSeen(u)' <=> SixSeen(u)) /\ (InLine(u) => Seen(u)')
    BY <1>2, SameShow DEF InLine, Seen
  <2>9. job[h].alone => Phase(h)'
    <3>1. job'[h].had <=> saved'[u] # None
      BY <1>1, <1>2, <2>3, <2>5
    <3>2. (job'[h].at = "learn" /\ "remote" \in job'[h].todo) \/ vpn'[u].remote = job'[h].req.addr
      BY <1>2, <2>3, <2>5, <2>7
    <3>3. job[h].alone => InLine(u)' /\ Seen(u)' /\ SixSeen(u)'
      BY <1>3, <2>8 DEF Sixin4InLine
    <3>4. job'[h].at \in {"learn", "six"}
      BY <2>3, <2>5
    <3>5. QED
      BY <2>6, <3>1, <3>2, <3>3, <3>4 DEF Phase
  <2>10. QED
    BY <1>1, <1>2, <2>1, <2>3, <2>4, <2>9, JobOnly
<1>6. QED
  BY <1>4, <1>5

LEMMA SaveKeeps ==
  ASSUME ConstantsOK, TunnelsInv, NEW h \in Handlers, Save(h)
  PROVE  TunnelsInv'
<1>1. PICK u, c : u = User(h) /\ c = job[h].cfg
  OBVIOUS
<1> DEFINE j == [job[h] EXCEPT !.at = "conf", !.cfg = None]
<1>2. /\ job[h].at = "save" /\ {"save", "conf"} \subseteq Steps /\ job[h].at \in Steps
      /\ saved' = [saved EXCEPT ![u] = c]
      /\ job' = [job EXCEPT ![h].at = "conf", ![h].cfg = None]
      /\ UNCHANGED <<vpn, file, dev, six, sixin4, apart, overlaps, faults>>
  BY <1>1 DEF Save, Steps
<1>3. /\ JobFits(job[h]) /\ job[h] \in Records /\ TypeInv /\ ShowInv /\ Busy(h) /\ u \in Users
      /\ job[h].alone => InLine(u) /\ Sixin4InLine(u)
      /\ ~Known(u) => file[u] = None /\ dev[u] = None
      /\ ~Crossed => apart = {}
  BY <1>1, <1>2, AtStep DEF TunnelsInv, Phase
<1>4. c \in Configs
  BY <1>1, <1>2, <1>3 DEF JobFits
<1>5. job' = [job EXCEPT ![h] = j]
  BY <1>2, <1>3, TypeIs
<1>6. j \in Records /\ j.at = "conf" /\ j.req = job[h].req /\ j.alone = job[h].alone
  BY <1>2, <1>3 DEF Records
<1> HIDE DEF j
<1>7. JobFits(j)
  BY <1>6 DEF JobFits, Learning
<1>8. j # Idle
  BY <1>6 DEF Idle
<1>9. /\ job' \in [Handlers -> Records \cup {Idle}] /\ job'[h] = j
      /\ \A g \in Handlers \ {h} : job'[g] = job[g]
      /\ \A g \in Handlers : job'[g] = Idle \/ JobFits(job'[g])
  BY <1>3, <1>5, <1>7, JobStep
<1>10. saved' \in [Users -> Configs \cup {None}] /\ \A v \in Users \ {u} : saved'[v] = saved[v]
  BY <1>2, <1>3, <1>4, TypeIs
<1>11. TypeInv'
  BY <1>2, <1>3, <1>9, <1>10, TypeIs, TypeIsNext
<1>12. Known(u)' <=> Known(u)
  BY <1>2 DEF Known
<1>13. job[h].alone => Phase(h)'
  <2>1. User(h)' = u
    BY <1>1, <1>6, <1>9 DEF User
  <2>2. (Seen(u)' <=> Seen(u)) /\ (Sixin4InLine(u)' <=> Sixin4InLine(u))
    BY <1>2 DEF Seen, SixSeen, Sixin4InLine
  <2>3. InLine(u) => Seen(u)
    BY DEF InLine, Seen
  <2>4. QED
    BY <1>3, <1>6, <1>9, <2>1, <2>2, <2>3 DEF Phase
<1>14. ~Crossed' => apart' = {}
  BY <1>2, <1>3 DEF Crossed
<1>15. \A v \in Users \ {u} : /\ vpn'[v] = vpn[v] /\ file'[v] = file[v] /\ dev'[v] = dev[v]
                              /\ six'[v] = six[v] /\ sixin4'[v] = sixin4[v]
                              /\ \A t \in Tunnels : <<v, t>> \in apart' <=> <<v, t>> \in apart
  BY <1>2
<1>16. ~Known(u)' => file'[u] = None /\ dev'[u] = None
  BY <1>2, <1>3, <1>12
<1>17. \A t \in Tunnels : <<u, t>> \in apart => <<u, t>> \in apart'
  BY <1>2
<1>18. ShowInv'
  BY <1>1, <1>3, <1>6, <1>8, <1>9, <1>10, <1>13, <1>14, <1>15, <1>16, <1>17, UserStep
<1>19. QED
  BY <1>11, <1>18 DEF TunnelsInv

\* Who has saved no configuration wants no device.
LEMMA NoneSaved ==
  ASSUME NEW u, saved[u] = None
  PROVE  Wanted(u) = None
  BY DEF Wanted, get_vxlan_config

LEMMA FirstRank ==
  ASSUME NEW S \in SUBSET VpnData, S # {}
  PROVE  \E x \in S : \A y \in S : Rank[x] <= Rank[y]
<1>0. Rank["remote"] = 1 /\ Rank["local"] = 2 /\ Rank["ula"] = 3
  BY DEF Rank
<1>1. CASE "remote" \in S
  BY <1>0, <1>1 DEF VpnData
<1>2. CASE "remote" \notin S /\ "local" \in S
  BY <1>0, <1>2 DEF VpnData
<1>3. CASE "remote" \notin S /\ "local" \notin S
  <2>1. S = {"ula"}
    BY <1>3 DEF VpnData
  <2>2. QED
    BY <1>0, <2>1
<1>4. QED
  BY <1>1, <1>2, <1>3

LEMMA SaveVpnKeeps ==
  ASSUME ConstantsOK, TunnelsInv, NEW h \in Handlers, SaveVpn(h)
  PROVE  TunnelsInv'
<1>1. PICK u, todo, d : /\ u = User(h) /\ todo = job[h].todo
                        /\ d = CHOOSE x \in todo : \A y \in todo : Rank[x] <= Rank[y]
  OBVIOUS
<1>2. PICK a : a = IF d = "ula" THEN job[h].req.ula ELSE job[h].req.addr
  OBVIOUS
<1> DEFINE j == [job[h] EXCEPT !.at = IF todo = {d} THEN "six" ELSE "learn", !.todo = todo \ {d}]
<1>3. /\ job[h].at = "learn" /\ {"learn", "six"} \subseteq Steps /\ job[h].at \in Steps
      /\ vpn' = [vpn EXCEPT ![u] = [vpn[u] EXCEPT ![d] = a]]
      /\ job' = [job EXCEPT ![h].at = IF todo = {d} THEN "six" ELSE "learn", ![h].todo = @ \ {d}]
      /\ UNCHANGED <<saved, file, dev, six, sixin4, apart, overlaps, faults>>
  BY <1>1, <1>2 DEF SaveVpn, Steps
<1>4. /\ JobFits(job[h]) /\ job[h] \in Records /\ TypeInv /\ ShowInv /\ Busy(h) /\ u \in Users
      /\ job[h].alone => /\ Seen(u) /\ SixSeen(u) /\ (saved[u] = None => InLine(u))
                         /\ job[h].had <=> saved[u] # None
                         /\ "remote" \in todo \/ vpn[u].remote = job[h].req.addr
      /\ ~Known(u) => file[u] = None /\ dev[u] = None
      /\ ~Crossed => apart = {}
      /\ job[h].req \in Requests
  BY <1>1, <1>3, AtStep DEF TunnelsInv, Phase
<1>5. todo \in SUBSET VpnData /\ todo # {}
  BY <1>1, <1>3, <1>4 DEF JobFits, Records
<1>6. d \in todo /\ d \in VpnData
  BY <1>1, <1>5, FirstRank
<1>7. /\ job[h].req.addr \in Addrs /\ job[h].req.addr # None
      /\ job[h].req.ula \in Ulas \cup {None} /\ job[h].req.route = "vpnips"
  BY <1>3, <1>4, RequestTypes DEF JobFits, Learning, ConstantsOK
<1>8. /\ vpn' \in [Users -> VpnTypes] /\ \A v \in Users \ {u} : vpn'[v] = vpn[v]
      /\ vpn'[u].remote = (IF d = "remote" THEN job[h].req.addr ELSE vpn[u].remote)
      /\ vpn'[u].local = (IF d = "local" THEN job[h].req.addr ELSE vpn[u].local)
  <2>1. vpn \in [Users -> VpnTypes] /\ vpn[u] \in VpnTypes
    BY <1>4, TypeIs
  <2>2. CASE d = "remote"
    BY <1>2, <1>3, <1>4, <1>7, <2>1, <2>2 DEF VpnTypes
  <2>3. CASE d = "local"
    BY <1>2, <1>3, <1>4, <1>7, <2>1, <2>3 DEF VpnTypes
  <2>4. CASE d = "ula"
    BY <1>2, <1>3, <1>4, <1>7, <2>1, <2>4 DEF VpnTypes
  <2>5. QED
    BY <1>6, <2>2, <2>3, <2>4 DEF VpnData
<1>9. job' = [job EXCEPT ![h] = j]
  BY <1>1, <1>3, <1>4, TypeIs
<1>10. /\ j \in Records /\ j.at = (IF todo = {d} THEN "six" ELSE "learn") /\ j.req = job[h].req
       /\ j.alone = job[h].alone /\ j.had = job[h].had /\ j.todo = todo \ {d}
  BY <1>3, <1>4, <1>5 DEF Records
<1> HIDE DEF j
<1>11. JobFits(j) /\ j # Idle
  <2>1. todo # {d} => todo \ {d} # {}
    BY <1>6
  <2>2. QED
    BY <1>4, <1>7, <1>10, <2>1 DEF JobFits, Learning, Idle
<1>12. /\ job' \in [Handlers -> Records \cup {Idle}] /\ job'[h] = j
       /\ \A g \in Handlers \ {h} : job'[g] = job[g]
       /\ \A g \in Handlers : job'[g] = Idle \/ JobFits(job'[g])
  BY <1>4, <1>9, <1>11, JobStep
<1>13. TypeInv'
  BY <1>3, <1>4, <1>8, <1>12, TypeIs, TypeIsNext
<1>14. Known(u) => Known(u)'
  BY <1>7, <1>8 DEF Known
<1>15. job[h].alone => Phase(h)'
  <2>1. User(h)' = u
    BY <1>1, <1>10, <1>12 DEF User
  <2>2. (Seen(u)' <=> Seen(u)) /\ (SixSeen(u)' <=> SixSeen(u))
    BY <1>3 DEF Seen, SixSeen
  <2>3. saved[u] = None => (InLine(u) => InLine(u)')
    <3>1. saved[u] = None => Wanted(u) = None
      BY NoneSaved
    <3>2. saved'[u] = None => Wanted(u)' = None
      BY DEF Wanted, get_vxlan_config
    <3>3. QED
      BY <1>3, <3>1, <3>2 DEF InLine
  <2>4. "remote" \in todo \/ vpn[u].remote = job[h].req.addr =>
          "remote" \in todo \ {d} \/ vpn'[u].remote = j.req.addr
    BY <1>8, <1>10
  <2>5. "remote" \in todo \ {d} => j.at = "learn"
    BY <1>10
  <2>6. j.at \in {"learn", "six"}
    BY <1>10
  <2>7. QED
    BY <1>3, <1>4, <1>10, <1>12, <2>1, <2>2, <2>3, <2>4, <2>5, <2>6 DEF Phase
<1>16. ~Crossed' => apart' = {}
  BY <1>3, <1>4 DEF Crossed
<1>17. \A v \in Users \ {u} : /\ saved'[v] = saved[v] /\ file'[v] = file[v] /\ dev'[v] = dev[v]
                              /\ six'[v] = six[v] /\ sixin4'[v] = sixin4[v]
                              /\ \A t \in Tunnels : <<v, t>> \in apart' <=> <<v, t>> \in apart
  BY <1>3
<1>18. ~Known(u)' => file'[u] = None /\ dev'[u] = None
  BY <1>3, <1>4, <1>14
<1>19. \A t \in Tunnels : <<u, t>> \in apart => <<u, t>> \in apart'
  BY <1>3
<1>20. ShowInv'
  BY <1>1, <1>4, <1>8, <1>10, <1>11, <1>12, <1>15, <1>16, <1>17, <1>18, <1>19, UserStep
<1>21. QED
  BY <1>13, <1>20 DEF TunnelsInv

\* What a request writes about a tunnel is whole.
LEMMA AskedIsWhole ==
  ASSUME ConstantsOK, NEW r \in Requests, r.route = "vpnips"
  PROVE  /\ Asked(r) \in Sixin4s /\ Asked(r) # None /\ Asked(r) # HalfWritten
         /\ AddrOf(Asked(r)) = r.addr
<1>1. Asked(r) \in Sixin4s /\ Asked(r).addr = r.addr
  BY RequestTypes DEF Asked, Sixin4s
<1>2. Asked(r) # None
  BY <1>1 DEF ConstantsOK
<1>3. Asked(r) # HalfWritten
  <2>1. DOMAIN Asked(r) = {"addr", "ula"} /\ DOMAIN HalfWritten = {"torn"}
    BY DEF Asked, HalfWritten
  <2>2. "addr" # "torn"
    OBVIOUS
  <2>3. QED
    BY <2>1, <2>2
<1>4. QED
  BY <1>1, <1>2, <1>3 DEF AddrOf

\* A request that has done with the 6in4 tunnel goes on, or is over.
LEMMA OnToVxlanFits ==
  ASSUME ConstantsOK, TypeInv, NEW h \in Handlers, JobFits(job[h]), OnToVxlan(h)
  PROVE  /\ job' \in [Handlers -> Records \cup {Idle}]
         /\ \A g \in Handlers \ {h} : job'[g] = job[g]
         /\ \A g \in Handlers : job'[g] = Idle \/ JobFits(job'[g])
         /\ job'[h] # Idle => /\ job'[h].at = "conf" /\ job'[h].req = job[h].req
                              /\ job'[h].alone = job[h].alone
         /\ job'[h] = Idle <=> ~job[h].had
<1>1. "conf" \in Steps /\ "conf" \notin Learning
  BY DEF Steps, Learning
<1>2. CASE job[h].had
  BY <1>1, <1>2, GotoFits DEF OnToVxlan
<1>3. CASE ~job[h].had
  BY <1>3, EndFits DEF OnToVxlan
<1>4. QED
  BY <1>2, <1>3

LEMMA WriteSixin4Keeps ==
  ASSUME ConstantsOK, TunnelsInv, NEW h \in Handlers, WriteSixin4(h)
  PROVE  TunnelsInv'
<1>1. PICK u, f : u = User(h) /\ f = Asked(job[h].req)
  OBVIOUS
<1>2. /\ job[h].at = "six" /\ {"six", "up"} \subseteq Steps /\ job[h].at \in Steps
      /\ six' = [six EXCEPT ![u] = f]
      /\ IF f # six[u] THEN Goto(h, "up") ELSE OnToVxlan(h)
      /\ UNCHANGED <<saved, vpn, file, dev, sixin4, apart, overlaps, faults>>
  BY <1>1 DEF WriteSixin4, Steps, Asked
<1>3. /\ JobFits(job[h]) /\ job[h] \in Records /\ TypeInv /\ ShowInv /\ Busy(h) /\ u \in Users
      /\ job[h].alone => /\ Seen(u) /\ SixSeen(u) /\ vpn[u].remote = job[h].req.addr
                         /\ job[h].had <=> saved[u] # None
                         /\ saved[u] = None => InLine(u)
      /\ ~Known(u) => file[u] = None /\ dev[u] = None
      /\ ~Crossed => apart = {}
      /\ job[h].req \in Requests
  BY <1>1, <1>2, AtStep DEF TunnelsInv, Phase
<1>4. f \in Sixin4s /\ f # HalfWritten /\ AddrOf(f) = job[h].req.addr
  BY <1>1, <1>2, <1>3, AskedIsWhole DEF JobFits, Learning
<1>5. CASE f = six[u]
  <2>1. six' = six
    BY <1>2, <1>3, <1>5, TypeIs
  <2>2. OnToVxlan(h)
    BY <1>2, <1>5
  <2>3. /\ job' \in [Handlers -> Records \cup {Idle}]
        /\ \A g \in Handlers \ {h} : job'[g] = job[g]
        /\ \A g \in Handlers : job'[g] = Idle \/ JobFits(job'[g])
        /\ job'[h] # Idle => /\ job'[h].at = "conf" /\ job'[h].req = job[h].req
                             /\ job'[h].alone = job[h].alone
        /\ job'[h] = Idle <=> ~job[h].had
    BY <1>3, <2>2, OnToVxlanFits
  <2>4. TypeInv'
    BY <1>2, <1>3, <2>1, <2>3, TypeIs, TypeIsNext
  <2>5. /\ InLine(u)' <=> InLine(u)
        /\ Seen(u)' <=> Seen(u)
        /\ Sixin4InLine(u)' <=> Sixin4InLine(u)
        /\ Known(u)' <=> Known(u)
    BY <1>2, <2>1, SameShow
  <2>6. job[h].alone => Sixin4InLine(u)'
    BY <1>3, <1>4, <1>5, <2>5 DEF Sixin4InLine
  <2>7. job[h].alone /\ job'[h] = Idle => InLine(u)' /\ Sixin4InLine(u)'
    BY <1>3, <2>3, <2>5, <2>6
  <2>8. job'[h] # Idle => User(h)' = u
    BY <1>1, <2>3 DEF User
  <2>9. job[h].alone /\ job'[h] # Idle => Phase(h)'
    BY <1>3, <2>3, <2>5, <2>6, <2>8 DEF Phase
  <2>10. ~Crossed' => apart' = {}
    BY <1>2, <1>3 DEF Crossed
  <2>11. ~Known(u)' => file'[u] = None /\ dev'[u] = None
    BY <1>2, <1>3, <2>5
  <2>12. \A v \in Users \ {u} : /\ saved'[v] = saved[v] /\ vpn'[v] = vpn[v] /\ file'[v] = file[v]
                                /\ dev'[v] = dev[v] /\ six'[v] = six[v] /\ sixin4'[v] = sixin4[v]
                                /\ \A t \in Tunnels : <<v, t>> \in apart' <=> <<v, t>> \in apart
    BY <1>2, <2>1
  <2>13. \A t \in Tunnels : <<u, t>> \in apart => <<u, t>> \in apart'
    BY <1>2
  <2>14. ShowInv'
    BY <1>1, <1>3, <2>3, <2>7, <2>9, <2>10, <2>11, <2>12, <2>13, UserStep
  <2>15. QED
    BY <2>4, <2>14 DEF TunnelsInv
<1>6. CASE f # six[u]
  <2>1. Goto(h, "up")
    BY <1>2, <1>6
  <2>2. /\ job'[h].at = "up" /\ job'[h] # Idle /\ job'[h].req = job[h].req
        /\ job'[h].had = job[h].had /\ job'[h].alone = job[h].alone
        /\ \A g \in Handlers \ {h} : job'[g] = job[g]
        /\ \A g \in Handlers : job'[g] = Idle \/ JobFits(job'[g])
        /\ job' \in [Handlers -> Records \cup {Idle}]
    BY <1>2, <1>3, <2>1, GotoFits DEF Learning
  <2>3. /\ six' \in [Users -> Sixin4s \cup {None, HalfWritten}] /\ six'[u] = f
        /\ \A v \in Users \ {u} : six'[v] = six[v]
    BY <1>2, <1>3, <1>4, TypeIs
  <2>4. TypeInv'
    BY <1>2, <1>3, <2>2, <2>3, TypeIs, TypeIsNext
  <2>5. (Seen(u)' <=> Seen(u)) /\ (InLine(u)' <=> InLine(u)) /\ (Known(u)' <=> Known(u))
    BY <1>2 DEF Seen, InLine, Wanted, Known, Rendered, get_vxlan_config
  <2>6. User(h)' = u /\ Asked(job'[h].req) = f
    BY <1>1, <2>2 DEF User
  <2>7. job[h].alone => Phase(h)'
    BY <1>2, <1>3, <2>2, <2>3, <2>5, <2>6 DEF Phase, Asked
  <2>8. ~Crossed' => apart' = {}
    BY <1>2, <1>3 DEF Crossed
  <2>9. ~Known(u)' => file'[u] = None /\ dev'[u] = None
    BY <1>2, <1>3, <2>5
  <2>10. \A v \in Users \ {u} : /\ saved'[v] = saved[v] /\ vpn'[v] = vpn[v] /\ file'[v] = file[v]
                                /\ dev'[v] = dev[v] /\ sixin4'[v] = sixin4[v]
                                /\ \A t \in Tunnels : <<v, t>> \in apart' <=> <<v, t>> \in apart
    BY <1>2
  <2>11. \A t \in Tunnels : <<u, t>> \in apart => <<u, t>> \in apart'
    BY <1>2
  <2>12. ShowInv'
    BY <1>1, <1>3, <2>2, <2>3, <2>7, <2>8, <2>9, <2>10, <2>11, UserStep
  <2>13. QED
    BY <2>4, <2>12 DEF TunnelsInv
<1>7. QED
  BY <1>5, <1>6

LEMMA RestartSixin4Keeps ==
  ASSUME ConstantsOK, TunnelsInv, NEW h \in Handlers, RestartSixin4(h)
  PROVE  TunnelsInv'
<1>1. PICK u : u = User(h)
  OBVIOUS
<1>2. /\ job[h].at = "up" /\ job[h].at \in Steps
      /\ sixin4' = [sixin4 EXCEPT ![u] = IF six[u] = HalfWritten THEN None ELSE six[u]]
      /\ apart' = IF job[h].alone THEN apart \ {<<u, "sixin4">>} ELSE apart
      /\ OnToVxlan(h)
      /\ UNCHANGED <<saved, vpn, file, dev, six, overlaps, faults>>
  BY <1>1 DEF RestartSixin4, Steps
<1>3. /\ JobFits(job[h]) /\ job[h] \in Records /\ TypeInv /\ ShowInv /\ Busy(h) /\ u \in Users
      /\ job[h].alone => /\ Seen(u) /\ vpn[u].remote = job[h].req.addr
                         /\ six[u] = Asked(job[h].req)
                         /\ job[h].had <=> saved[u] # None
                         /\ saved[u] = None => InLine(u)
      /\ ~Known(u) => file[u] = None /\ dev[u] = None
      /\ ~Crossed => apart = {}
      /\ job[h].req \in Requests
  BY <1>1, <1>2, AtStep DEF TunnelsInv, Phase
<1>4. /\ job' \in [Handlers -> Records \cup {Idle}]
      /\ \A g \in Handlers \ {h} : job'[g] = job[g]
      /\ \A g \in Handlers : job'[g] = Idle \/ JobFits(job'[g])
      /\ job'[h] # Idle => /\ job'[h].at = "conf" /\ job'[h].req = job[h].req
                           /\ job'[h].alone = job[h].alone
      /\ job'[h] = Idle <=> ~job[h].had
  BY <1>2, <1>3, OnToVxlanFits
<1>5. /\ sixin4' \in [Users -> Sixin4s \cup {None}]
      /\ sixin4'[u] = IF six[u] = HalfWritten THEN None ELSE six[u]
      /\ \A v \in Users \ {u} : sixin4'[v] = sixin4[v]
  <2>1. sixin4 \in [Users -> Sixin4s \cup {None}] /\ six[u] \in Sixin4s \cup {None, HalfWritten}
    BY <1>3, TypeIs
  <2>2. QED
    BY <1>2, <1>3, <2>1
<1>6. apart' \in SUBSET (Users \X Tunnels)
  BY <1>2, <1>3, TypeIs
<1>7. TypeInv'
  BY <1>2, <1>3, <1>4, <1>5, <1>6, TypeIs, TypeIsNext
<1>8. /\ <<u, "vxlan">> \in apart' <=> <<u, "vxlan">> \in apart
      /\ \A v \in Users \ {u} : \A t \in Tunnels : <<v, t>> \in apart' <=> <<v, t>> \in apart
  BY <1>2
<1>9. (Seen(u)' <=> Seen(u)) /\ (InLine(u)' <=> InLine(u)) /\ (Known(u)' <=> Known(u))
  BY <1>2, <1>8 DEF Seen, InLine, Wanted, Known, Rendered, get_vxlan_config
<1>10. job[h].alone => Sixin4InLine(u)'
  <2>1. /\ Asked(job[h].req) # HalfWritten
        /\ AddrOf(Asked(job[h].req)) = job[h].req.addr
    BY <1>2, <1>3, AskedIsWhole DEF JobFits, Learning
  <2>2. job[h].alone => six'[u] # HalfWritten /\ sixin4'[u] = six'[u] /\ AddrOf(six'[u]) = vpn'[u].remote
    BY <1>2, <1>3, <1>5, <2>1
  <2>3. QED
    BY <2>2 DEF SixSeen, Sixin4InLine, AddrOf
<1>11. job[h].alone /\ job'[h] = Idle => InLine(u)' /\ Sixin4InLine(u)'
  BY <1>3, <1>4, <1>9, <1>10
<1>12. job[h].alone /\ job'[h] # Idle => Phase(h)'
  <2>1. job'[h] # Idle => User(h)' = u
    BY <1>1, <1>4 DEF User
  <2>2. QED
    BY <1>3, <1>4, <1>9, <1>10, <2>1 DEF Phase
<1>13. ~Crossed' => apart' = {}
  BY <1>2, <1>3 DEF Crossed
<1>14. \A v \in Users \ {u} : /\ saved'[v] = saved[v] /\ vpn'[v] = vpn[v] /\ file'[v] = file[v]
                              /\ dev'[v] = dev[v] /\ six'[v] = six[v]
  BY <1>2
<1>15. ~Known(u)' => file'[u] = None /\ dev'[u] = None
  BY <1>2, <1>3, <1>9
<1>16. ~job[h].alone => \A t \in Tunnels : <<u, t>> \in apart => <<u, t>> \in apart'
  BY <1>2
<1>17. ShowInv'
  BY <1>1, <1>3, <1>4, <1>5, <1>8, <1>11, <1>12, <1>13, <1>14, <1>15, <1>16, UserStep
<1>18. QED
  BY <1>7, <1>17 DEF TunnelsInv

LEMMA ReadConfKeeps ==
  ASSUME ConstantsOK, TunnelsInv, NEW h \in Handlers, ReadConf(h)
  PROVE  TunnelsInv'
<1>1. PICK u, c : u = User(h) /\ c = get_vxlan_config(u)
  OBVIOUS
<1>2. /\ job[h].at = "conf" /\ {"conf", "write", "stop"} \subseteq Steps /\ job[h].at \in Steps
      /\ IF c.on THEN job' = [job EXCEPT ![h].at = "write", ![h].cfg = c]
         ELSE IF file[u] # None THEN Goto(h, "stop")
         ELSE End(h)
      /\ UNCHANGED <<saved, vpn, file, dev, six, sixin4, apart, overlaps, faults>>
  BY <1>1 DEF ReadConf, Steps
<1>3. /\ JobFits(job[h]) /\ job[h] \in Records /\ TypeInv /\ u \in Users
      /\ job[h].alone => Seen(u) /\ Sixin4InLine(u)
  BY <1>1, <1>2, AtStep DEF TunnelsInv, Phase
<1>4. c \in Configs
  BY <1>1, <1>3, ConfigTypes
<1>5. /\ InLine(u)' <=> InLine(u)
      /\ Seen(u)' <=> Seen(u)
      /\ Sixin4InLine(u)' <=> Sixin4InLine(u)
      /\ get_vxlan_config(u)' = c
  BY <1>1, <1>2, SameShow
<1>6. CASE c.on
  <2> DEFINE j == [job[h] EXCEPT !.at = "write", !.cfg = c]
  <2>1. job' = [job EXCEPT ![h] = j]
    BY <1>2, <1>3, <1>6, TypeIs
  <2>2. j \in Records /\ j.at = "write" /\ j.req = job[h].req /\ j.alone = job[h].alone /\ j.cfg = c
    BY <1>2, <1>3, <1>4 DEF Records
  <2> HIDE DEF j
  <2>3. JobFits(j)
    BY <1>4, <2>2 DEF JobFits, Learning
  <2>4. j # Idle
    BY <2>2 DEF Idle
  <2>5. job'[h] = j
    BY <1>3, <2>1, TypeIs
  <2>6. User(h)' = u
    BY <1>1, <2>2, <2>5 DEF User
  <2>7. job[h].alone => Phase(h)'
    BY <1>3, <1>5, <1>6, <2>2, <2>5, <2>6 DEF Phase
  <2>8. QED
    BY <1>2, <2>1, <2>2, <2>3, <2>4, <2>7, JobOnly
<1>7. CASE ~c.on /\ file[u] # None
  <2> DEFINE j == [job[h] EXCEPT !.at = "stop"]
  <2>1. job' = [job EXCEPT ![h] = j] /\ Goto(h, "stop")
    BY <1>2, <1>7 DEF Goto
  <2>2. /\ JobFits(job'[h]) /\ job'[h] # Idle /\ job'[h].at = "stop" /\ job'[h].req = job[h].req
        /\ job'[h].alone = job[h].alone
    BY <1>2, <1>3, <2>1, GotoFits DEF Learning
  <2>3. job'[h] = j
    BY <1>3, <2>1, TypeIs
  <2> HIDE DEF j
  <2>4. User(h)' = u
    BY <1>1, <2>2 DEF User
  <2>5. job[h].alone => Phase(h)'
    BY <1>2, <1>3, <1>5, <1>7, <2>2, <2>4 DEF Phase
  <2>6. QED
    BY <1>2, <2>1, <2>2, <2>3, <2>5, JobOnly
<1>8. CASE ~c.on /\ file[u] = None
  <2>1. job' = [job EXCEPT ![h] = Idle]
    BY <1>2, <1>8 DEF End
  <2>2. job[h].alone => InLine(u)
    <3>1. Wanted(u) = None
      BY <1>1, <1>8 DEF Wanted
    <3>2. QED
      BY <1>3, <1>8, <3>1 DEF InLine, Seen
  <2>3. QED
    BY <1>1, <1>2, <1>3, <2>1, <2>2, JobOnly
<1>9. QED
  BY <1>6, <1>7, <1>8

LEMMA WriteConfKeeps ==
  ASSUME ConstantsOK, TunnelsInv, NEW h \in Handlers, WriteConf(h)
  PROVE  TunnelsInv'
<1>1. PICK u, c, f : u = User(h) /\ c = job[h].cfg /\ f = Rendered(u, c)
  OBVIOUS
<1>2. /\ job[h].at = "write" /\ {"write", "start"} \subseteq Steps /\ job[h].at \in Steps
      /\ IF Known(u)
         THEN /\ file' = [file EXCEPT ![u] = f]
              /\ IF f # file[u] THEN job' = [job EXCEPT ![h].at = "start", ![h].cfg = None] ELSE End(h)
         ELSE End(h) /\ UNCHANGED file
      /\ UNCHANGED <<saved, vpn, dev, six, sixin4, apart, overlaps, faults>>
  BY <1>1 DEF WriteConf, Steps
<1>3. /\ JobFits(job[h]) /\ job[h] \in Records /\ TypeInv /\ ShowInv /\ Busy(h) /\ u \in Users
      /\ job[h].alone => /\ Seen(u) /\ Sixin4InLine(u) /\ get_vxlan_config(u) = c /\ c.on
      /\ ~Known(u) => file[u] = None /\ dev[u] = None
      /\ ~Crossed => apart = {}
  BY <1>1, <1>2, AtStep DEF TunnelsInv, Phase
<1>4. c \in Configs
  BY <1>1, <1>2, <1>3 DEF JobFits
<1>5. Known(u) => f \in Devices
  <2>1. vpn[u].remote \in Addrs \cup {None}
    BY <1>3, TypeIs DEF VpnTypes
  <2>2. QED
    BY <1>1, <1>4, <2>1 DEF Known, Rendered, Devices, Configs
<1>6. /\ file' \in [Users -> Devices \cup {None, HalfWritten}]
      /\ \A v \in Users \ {u} : file'[v] = file[v]
      /\ Known(u) => file'[u] = f
      /\ ~Known(u) => file' = file
  BY <1>2, <1>3, <1>5, TypeIs
<1>7. /\ job' \in [Handlers -> Records \cup {Idle}]
      /\ \A g \in Handlers \ {h} : job'[g] = job[g]
      /\ \A g \in Handlers : job'[g] = Idle \/ JobFits(job'[g])
      /\ job'[h] # Idle => /\ job'[h].at = "start" /\ job'[h].req = job[h].req
                           /\ job'[h].alone = job[h].alone
                           /\ Known(u)
      /\ job'[h] = Idle => ~Known(u) \/ f = file[u]
  <2>1. CASE End(h)
    <3>1. ~Known(u) \/ f = file[u]
      <4> DEFINE j == [job[h] EXCEPT !.at = "start", !.cfg = None]
      <4>1. ASSUME Known(u), f # file[u] PROVE FALSE
        <5>1. job' = [job EXCEPT ![h] = j]
          BY <1>2, <1>3, <4>1, TypeIs
        <5>2. j.at = "start"
          BY <1>2, <1>3 DEF Records
        <5> HIDE DEF j
        <5>3. job'[h] = j
          BY <1>3, <5>1, TypeIs
        <5>4. QED
          BY <1>3, <2>1, <5>2, <5>3, EndFits DEF Idle
      <4>2. QED
        BY <4>1
    <3>2. QED
      BY <1>3, <2>1, <3>1, EndFits
  <2>2. CASE ~End(h)
    <3> DEFINE j == [job[h] EXCEPT !.at = "start", !.cfg = None]
    <3>1. job' = [job EXCEPT ![h] = j] /\ Known(u)
      BY <1>2, <1>3, <2>2, TypeIs
    <3>2. j \in Records /\ j.at = "start" /\ j.req = job[h].req /\ j.alone = job[h].alone
      BY <1>2, <1>3 DEF Records
    <3> HIDE DEF j
    <3>3. JobFits(j)
      BY <3>2 DEF JobFits, Learning
    <3>4. j # Idle
      BY <3>2 DEF Idle
    <3>5. QED
      BY <1>3, <3>1, <3>2, <3>3, <3>4, JobStep
  <2>3. QED
    BY <2>1, <2>2
<1>8. TypeInv'
  BY <1>2, <1>3, <1>6, <1>7, TypeIs, TypeIsNext
<1>9. /\ Known(u)' <=> Known(u)
      /\ Sixin4InLine(u)' <=> Sixin4InLine(u)
      /\ get_vxlan_config(u)' = get_vxlan_config(u)
      /\ Wanted(u)' = Wanted(u)
      /\ <<u, "vxlan">> \in apart' <=> <<u, "vxlan">> \in apart
  BY <1>2 DEF Known, SixSeen, Sixin4InLine, get_vxlan_config, Wanted, Rendered
<1>10. job[h].alone /\ job'[h] = Idle => InLine(u)' /\ Sixin4InLine(u)'
  <2>1. CASE Known(u)
    <3>1. job[h].alone => Wanted(u) = f
      BY <1>1, <1>3, <2>1 DEF Wanted
    <3>2. QED
      BY <1>2, <1>3, <1>6, <1>7, <1>9, <2>1, <3>1 DEF InLine, Seen
  <2>2. CASE ~Known(u)
    <3>1. Wanted(u) = None
      BY <2>2 DEF Wanted
    <3>2. QED
      BY <1>2, <1>3, <1>6, <1>9, <2>2, <3>1 DEF InLine
  <2>3. QED
    BY <2>1, <2>2
<1>11. job[h].alone /\ job'[h] # Idle => Phase(h)'
  <2>1. job'[h] # Idle => User(h)' = u
    BY <1>1, <1>7 DEF User
  <2>2. [vni |-> c.vni, port |-> c.port, addr |-> vpn'[u].remote] = f
    BY <1>1, <1>2 DEF Rendered
  <2>3. QED
    BY <1>3, <1>6, <1>7, <1>9, <2>1, <2>2 DEF Phase, Rendered
<1>12. ~Crossed' => apart' = {}
  BY <1>2, <1>3 DEF Crossed
<1>13. \A v \in Users \ {u} : /\ saved'[v] = saved[v] /\ vpn'[v] = vpn[v] /\ dev'[v] = dev[v]
                              /\ six'[v] = six[v] /\ sixin4'[v] = sixin4[v]
                              /\ \A t \in Tunnels : <<v, t>> \in apart' <=> <<v, t>> \in apart
  BY <1>2
<1>14. ~Known(u)' => file'[u] = None /\ dev'[u] = None
  BY <1>2, <1>3, <1>6, <1>9
<1>15. \A t \in Tunnels : <<u, t>> \in apart => <<u, t>> \in apart'
  BY <1>2
<1>16. ShowInv'
  BY <1>1, <1>3, <1>6, <1>7, <1>10, <1>11, <1>12, <1>13, <1>14, <1>15, UserStep
<1>17. QED
  BY <1>8, <1>16 DEF TunnelsInv

\* While requests come one at a time the kernel takes the device: every other
\* device is what its user's configuration says, and those differ.
LEMMA NotTaken ==
  ASSUME ConstantsOK, TunnelsInv, VxlanInv, ~Crossed, NEW h \in Handlers, job[h].at = "start"
  PROVE  /\ dev \in [Users -> Devices \cup {None}]
         /\ file[User(h)] # None /\ file[User(h)] # HalfWritten
         /\ ~Taken(User(h), file[User(h)])
<1>1. PICK u, c : u = User(h) /\ c = get_vxlan_config(u)
  OBVIOUS
<1>2. job[h].at \in Steps
  BY DEF Steps
<1>3. /\ Busy(h) /\ u \in Users /\ apart = {} /\ TypeInv /\ ShowInv
  BY <1>1, <1>2, AtStep DEF TunnelsInv
<1>4. job[h].alone
  <2>1. UserInv(u) /\ h \in Mine(u)
    BY <1>1, <1>3 DEF ShowInv, Mine
  <2>2. ~job[h].alone => {u} \X Tunnels \subseteq apart
    BY <2>1 DEF UserInv
  <2>3. <<u, "vxlan">> \in {u} \X Tunnels
    BY DEF Tunnels
  <2>4. QED
    BY <1>3, <2>2, <2>3
<1>5. c.on /\ Known(u) /\ file[u] = Rendered(u, c)
  BY <1>1, <1>2, <1>4, AtStep DEF Phase
<1>6. c \in Configs /\ vpn[u].remote \in Addrs
  BY <1>1, <1>3, <1>5, ConfigTypes, TypeIs DEF Known, VpnTypes
<1>7. file[u] \in Devices
  BY <1>5, <1>6 DEF Rendered, Devices, Configs
<1>8. file[u] # None
  BY <1>7 DEF ConstantsOK
<1>9. file[u] # HalfWritten
  <2>1. DOMAIN file[u] = {"vni", "port", "addr"}
    BY <1>5 DEF Rendered
  <2>2. DOMAIN HalfWritten = {"torn"}
    BY DEF HalfWritten
  <2>3. "vni" # "torn"
    OBVIOUS
  <2>4. QED
    BY <2>1, <2>2, <2>3
<1>10. ASSUME NEW v \in Users \ {u}, dev[v] # None, dev[v].vni = file[u].vni, dev[v].port = file[u].port
       PROVE  FALSE
  <2>1. PICK d : d = get_vxlan_config(v)
    OBVIOUS
  <2>2. Mine(v) = {}
    BY <1>1, <1>3, <1>10 DEF VxlanInv, OneAtATime, Mine
  <2>3. dev[v] = Wanted(v)
    BY <1>3, <1>10, <2>2 DEF ShowInv, UserInv, InLine
  <2>4. d.on /\ dev[v] = Rendered(v, d)
    BY <1>10, <2>1, <2>3 DEF Wanted
  <2>5. d.vni = c.vni /\ d.port = c.port
    BY <1>5, <1>10, <2>4 DEF Rendered
  <2>6. QED
    BY <1>1, <1>3, <1>5, <1>10, <2>1, <2>4, <2>5 DEF VxlanInv, PairsDiffer
<1>11. ~Taken(u, file[u])
  BY <1>10 DEF Taken
<1>12. QED
  BY <1>1, <1>3, <1>8, <1>9, <1>11, TypeIs

LEMMA StartUnitKeeps ==
  ASSUME ConstantsOK, TunnelsInv, VxlanInv, NEW h \in Handlers, StartUnit(h)
  PROVE  TunnelsInv'
<1>1. PICK u, f : u = User(h) /\ f = file[u]
  OBVIOUS
<1>2. /\ job[h].at = "start" /\ job[h].at \in Steps
      /\ dev' = IF f = None THEN dev
                ELSE [dev EXCEPT ![u] = IF f = HalfWritten \/ Taken(u, f) THEN None ELSE f]
      /\ apart' = IF dev'[u] # f THEN (IF Crossed THEN apart \cup {<<u, "vxlan">>} ELSE apart)
                  ELSE IF job[h].alone THEN apart \ {<<u, "vxlan">>} ELSE apart
      /\ End(h)
      /\ UNCHANGED <<saved, vpn, file, six, sixin4, overlaps, faults>>
  BY <1>1 DEF StartUnit, Steps
<1>3. /\ TypeInv /\ ShowInv /\ Busy(h) /\ u \in Users
      /\ job[h].alone => /\ get_vxlan_config(u).on /\ Known(u) /\ Sixin4InLine(u)
                         /\ f = Rendered(u, get_vxlan_config(u))
      /\ ~Known(u) => f = None /\ dev[u] = None
      /\ ~Crossed => apart = {}
  BY <1>1, <1>2, AtStep DEF TunnelsInv, Phase
<1>4. /\ job'[h] = Idle /\ job' \in [Handlers -> Records \cup {Idle}]
      /\ \A g \in Handlers \ {h} : job'[g] = job[g]
      /\ \A g \in Handlers : job'[g] = Idle \/ JobFits(job'[g])
  BY <1>2, <1>3, EndFits
<1>5. /\ dev \in [Users -> Devices \cup {None}]
      /\ f \in Devices \cup {None, HalfWritten}
      /\ apart \in SUBSET (Users \X Tunnels)
  BY <1>1, <1>3, TypeIs
<1>6. /\ dev' \in [Users -> Devices \cup {None}]
      /\ \A v \in Users \ {u} : dev'[v] = dev[v]
      /\ f = None => dev' = dev
  BY <1>2, <1>5
<1>7. apart' \in SUBSET (Users \X Tunnels)
  BY <1>2, <1>3, <1>5 DEF Tunnels
<1>8. TypeInv'
  BY <1>2, <1>3, <1>4, <1>6, <1>7, TypeIs, TypeIsNext
<1>9. /\ Known(u)' <=> Known(u)
      /\ Wanted(u)' = Wanted(u)
      /\ <<u, "sixin4">> \in apart' <=> <<u, "sixin4">> \in apart
  BY <1>2 DEF Known, get_vxlan_config, Wanted, Rendered
<1>10. ~Crossed => dev'[u] = f
  <2>1. ASSUME ~Crossed PROVE f # None /\ f # HalfWritten /\ ~Taken(u, f)
    BY <1>1, <1>2, <2>1, NotTaken
  <2>2. QED
    BY <1>2, <1>3, <1>5, <2>1
<1>11. job[h].alone => InLine(u)' /\ Sixin4InLine(u)'
  <2>1. job[h].alone => Wanted(u) = f
    BY <1>3 DEF Wanted
  <2>2. <<u, "vxlan">> \notin apart' => dev'[u] = f
    BY <1>2, <1>10
  <2>3. file'[u] = f
    BY <1>1, <1>2
  <2>4. job[h].alone => InLine(u)'
    BY <1>9, <2>1, <2>2, <2>3 DEF InLine
  <2>5. Sixin4InLine(u) => Sixin4InLine(u)'
    BY <1>2, <1>9 DEF SixSeen, Sixin4InLine
  <2>6. QED
    BY <1>3, <2>4, <2>5
<1>12. ~Crossed' => apart' = {}
  BY <1>2, <1>3 DEF Crossed
<1>13. \A v \in Users \ {u} : /\ saved'[v] = saved[v] /\ vpn'[v] = vpn[v] /\ file'[v] = file[v]
                              /\ six'[v] = six[v] /\ sixin4'[v] = sixin4[v]
                              /\ \A t \in Tunnels : <<v, t>> \in apart' <=> <<v, t>> \in apart
  BY <1>2
<1>14. ~Known(u)' => file'[u] = None /\ dev'[u] = None
  BY <1>1, <1>2, <1>3, <1>6, <1>9
<1>15. ~job[h].alone => \A t \in Tunnels : <<u, t>> \in apart => <<u, t>> \in apart'
  BY <1>2
<1>16. ShowInv'
  BY <1>1, <1>3, <1>4, <1>6, <1>11, <1>12, <1>13, <1>14, <1>15, UserStep
<1>17. QED
  BY <1>8, <1>16 DEF TunnelsInv

LEMMA StopUnitKeeps ==
  ASSUME ConstantsOK, TunnelsInv, NEW h \in Handlers, StopUnit(h)
  PROVE  TunnelsInv'
<1>1. PICK u : u = User(h)
  OBVIOUS
<1>2. /\ job[h].at = "stop" /\ {"stop", "remove"} \subseteq Steps /\ job[h].at \in Steps
      /\ dev' = IF file[u] = None THEN dev ELSE [dev EXCEPT ![u] = None]
      /\ Goto(h, "remove")
      /\ UNCHANGED <<saved, vpn, file, six, sixin4, apart, overlaps, faults>>
  BY <1>1 DEF StopUnit, Steps
<1>3. /\ JobFits(job[h]) /\ TypeInv /\ ShowInv /\ Busy(h) /\ u \in Users
      /\ job[h].alone => ~get_vxlan_config(u).on /\ file[u] # None /\ Sixin4InLine(u)
      /\ ~Known(u) => file[u] = None /\ dev[u] = None
      /\ ~Crossed => apart = {}
  BY <1>1, <1>2, AtStep DEF TunnelsInv, Phase
<1>4. /\ JobFits(job'[h]) /\ job'[h] # Idle
      /\ job'[h].at = "remove" /\ job'[h].req = job[h].req /\ job'[h].alone = job[h].alone
      /\ \A g \in Handlers \ {h} : job'[g] = job[g]
      /\ \A g \in Handlers : job'[g] = Idle \/ JobFits(job'[g])
      /\ job' \in [Handlers -> Records \cup {Idle}]
  BY <1>2, <1>3, GotoFits DEF Learning
<1>5. /\ dev' \in [Users -> Devices \cup {None}] /\ \A v \in Users \ {u} : dev'[v] = dev[v]
      /\ file[u] # None => dev'[u] = None
      /\ file[u] = None => dev' = dev
  BY <1>2, <1>3, TypeIs
<1>6. TypeInv'
  BY <1>2, <1>3, <1>4, <1>5, TypeIs, TypeIsNext
<1>7. /\ Known(u)' <=> Known(u)
      /\ Sixin4InLine(u)' <=> Sixin4InLine(u)
      /\ get_vxlan_config(u)' = get_vxlan_config(u)
  BY <1>2 DEF Known, SixSeen, Sixin4InLine, get_vxlan_config
<1>8. job[h].alone => Phase(h)'
  <2>1. User(h)' = u
    BY <1>1, <1>4 DEF User
  <2>2. QED
    BY <1>3, <1>4, <1>5, <1>7, <2>1 DEF Phase
<1>9. ~Crossed' => apart' = {}
  BY <1>2, <1>3 DEF Crossed
<1>10. \A v \in Users \ {u} : /\ saved'[v] = saved[v] /\ vpn'[v] = vpn[v] /\ file'[v] = file[v]
                              /\ six'[v] = six[v] /\ sixin4'[v] = sixin4[v]
                              /\ \A t \in Tunnels : <<v, t>> \in apart' <=> <<v, t>> \in apart
  BY <1>2
<1>11. ~Known(u)' => file'[u] = None /\ dev'[u] = None
  BY <1>2, <1>3, <1>5, <1>7
<1>12. \A t \in Tunnels : <<u, t>> \in apart => <<u, t>> \in apart'
  BY <1>2
<1>13. ShowInv'
  BY <1>1, <1>3, <1>4, <1>5, <1>8, <1>9, <1>10, <1>11, <1>12, UserStep
<1>14. QED
  BY <1>6, <1>13 DEF TunnelsInv

LEMMA RemoveConfKeeps ==
  ASSUME ConstantsOK, TunnelsInv, NEW h \in Handlers, RemoveConf(h)
  PROVE  TunnelsInv'
<1>1. PICK u : u = User(h)
  OBVIOUS
<1>2. /\ job[h].at = "remove" /\ job[h].at \in Steps
      /\ file' = [file EXCEPT ![u] = None]
      /\ apart' = IF job[h].alone /\ dev[u] = None THEN apart \ {<<u, "vxlan">>} ELSE apart
      /\ End(h)
      /\ UNCHANGED <<saved, vpn, dev, six, sixin4, overlaps, faults>>
  BY <1>1 DEF RemoveConf, Steps
<1>3. /\ TypeInv /\ ShowInv /\ Busy(h) /\ u \in Users
      /\ job[h].alone => /\ ~get_vxlan_config(u).on /\ Sixin4InLine(u)
                         /\ <<u, "vxlan">> \notin apart => dev[u] = None
      /\ ~Known(u) => file[u] = None /\ dev[u] = None
      /\ ~Crossed => apart = {}
  BY <1>1, <1>2, AtStep DEF TunnelsInv, Phase
<1>4. /\ job'[h] = Idle /\ job' \in [Handlers -> Records \cup {Idle}]
      /\ \A g \in Handlers \ {h} : job'[g] = job[g]
      /\ \A g \in Handlers : job'[g] = Idle \/ JobFits(job'[g])
  BY <1>2, <1>3, EndFits
<1>5. /\ file' \in [Users -> Devices \cup {None, HalfWritten}] /\ file'[u] = None
      /\ \A v \in Users \ {u} : file'[v] = file[v]
  BY <1>2, <1>3, TypeIs
<1>6. apart' \in SUBSET (Users \X Tunnels)
  BY <1>2, <1>3, TypeIs
<1>7. TypeInv'
  BY <1>2, <1>3, <1>4, <1>5, <1>6, TypeIs, TypeIsNext
<1>8. /\ Known(u)' <=> Known(u)
      /\ Wanted(u)' = Wanted(u)
      /\ <<u, "sixin4">> \in apart' <=> <<u, "sixin4">> \in apart
  BY <1>2 DEF Known, get_vxlan_config, Wanted, Rendered
<1>9. job[h].alone => InLine(u)' /\ Sixin4InLine(u)'
  <2>1. job[h].alone => Wanted(u) = None
    BY <1>3 DEF Wanted
  <2>2. job[h].alone => InLine(u)'
    BY <1>2, <1>3, <1>5, <1>8, <2>1 DEF InLine
  <2>3. Sixin4InLine(u) => Sixin4InLine(u)'
    BY <1>2, <1>8 DEF SixSeen, Sixin4InLine
  <2>4. QED
    BY <1>3, <2>2, <2>3
<1>10. ~Crossed' => apart' = {}
  BY <1>2, <1>3 DEF Crossed
<1>11. \A v \in Users \ {u} : /\ saved'[v] = saved[v] /\ vpn'[v] = vpn[v] /\ dev'[v] = dev[v]
                              /\ six'[v] = six[v] /\ sixin4'[v] = sixin4[v]
                              /\ \A t \in Tunnels : <<v, t>> \in apart' <=> <<v, t>> \in apart
  BY <1>2
<1>12. ~Known(u)' => file'[u] = None /\ dev'[u] = None
  BY <1>2, <1>3, <1>5, <1>8
<1>13. ~job[h].alone => \A t \in Tunnels : <<u, t>> \in apart => <<u, t>> \in apart'
  BY <1>2
<1>14. ShowInv'
  BY <1>1, <1>3, <1>4, <1>5, <1>9, <1>10, <1>11, <1>12, <1>13, UserStep
<1>15. QED
  BY <1>7, <1>14 DEF TunnelsInv

LEMMA CutOffKeeps ==
  ASSUME ConstantsOK, TunnelsInv, NEW h \in Handlers, CutOff(h)
  PROVE  TunnelsInv'
<1>1. PICK u : u = User(h)
  OBVIOUS
<1>2. /\ Busy(h) /\ faults + overlaps < MaxTroubles /\ faults' = faults + 1
      /\ \/ file' = file
         \/ job[h].at = "write" /\ Known(u) /\ file' = [file EXCEPT ![u] = HalfWritten]
      /\ six' = six \/ six' = [six EXCEPT ![u] = HalfWritten]
      /\ apart' = apart \cup ({u} \X Tunnels)
      /\ End(h)
      /\ UNCHANGED <<saved, vpn, dev, sixin4, overlaps>>
  BY <1>1 DEF CutOff
<1>3. TypeInv /\ ShowInv /\ u \in Users /\ UserInv(u) /\ faults \in 0..MaxTroubles
  BY <1>1, <1>2, AtWork, TypeIs DEF TunnelsInv, ShowInv
<1>4. /\ job'[h] = Idle /\ job' \in [Handlers -> Records \cup {Idle}]
      /\ \A g \in Handlers \ {h} : job'[g] = job[g]
      /\ \A g \in Handlers : job'[g] = Idle \/ JobFits(job'[g])
  BY <1>2, <1>3, EndFits
<1>5. /\ file' \in [Users -> Devices \cup {None, HalfWritten}]
      /\ \A v \in Users \ {u} : file'[v] = file[v]
      /\ ~Known(u) => file' = file
      /\ six' \in [Users -> Sixin4s \cup {None, HalfWritten}]
      /\ \A v \in Users \ {u} : six'[v] = six[v]
  BY <1>2, <1>3, TypeIs
<1>6. apart' \in SUBSET (Users \X Tunnels) /\ \A t \in Tunnels : <<u, t>> \in apart'
  BY <1>2, <1>3, TypeIs
<1>7. faults' \in 0..MaxTroubles /\ faults' > 0
  BY <1>2, <1>3, TypeIs DEF ConstantsOK
<1>8. TypeInv'
  BY <1>2, <1>3, <1>4, <1>5, <1>6, <1>7, TypeIs, TypeIsNext
<1>9. Known(u)' <=> Known(u)
  BY <1>2 DEF Known
<1>10. InLine(u)' /\ Sixin4InLine(u)'
  BY <1>6 DEF InLine, SixSeen, Sixin4InLine, Tunnels
<1>11. Crossed'
  BY <1>7 DEF Crossed
<1>12. \A v \in Users \ {u} : /\ saved'[v] = saved[v] /\ vpn'[v] = vpn[v] /\ dev'[v] = dev[v]
                              /\ sixin4'[v] = sixin4[v]
                              /\ \A t \in Tunnels : <<v, t>> \in apart' <=> <<v, t>> \in apart
  BY <1>2
<1>13. ~Known(u)' => file'[u] = None /\ dev'[u] = None
  BY <1>2, <1>3, <1>5, <1>9 DEF UserInv
<1>14. ShowInv'
  BY <1>1, <1>2, <1>3, <1>4, <1>5, <1>6, <1>10, <1>11, <1>12, <1>13, UserStep
<1>15. QED
  BY <1>8, <1>14 DEF TunnelsInv

LEMMA UnitFailsKeeps ==
  ASSUME ConstantsOK, TunnelsInv, NEW h \in Handlers, UnitFails(h)
  PROVE  TunnelsInv'
<1>1. PICK u : u = User(h)
  OBVIOUS
<1>2. /\ faults + overlaps < MaxTroubles /\ faults' = faults + 1
      /\ UNCHANGED <<saved, vpn, file, six, overlaps>>
      /\ job[h].at \in {"up", "start", "stop"} /\ job[h].at \in Steps /\ "remove" \in Steps
  BY DEF UnitFails, Steps
<1>3. /\ JobFits(job[h]) /\ TypeInv /\ ShowInv /\ Busy(h) /\ u \in Users /\ job[h].req \in Requests
      /\ job[h].alone => Phase(h)
      /\ ~Known(u) => file[u] = None /\ dev[u] = None
  BY <1>1, <1>2, AtStep DEF TunnelsInv
<1>4. faults' \in 0..MaxTroubles /\ faults' > 0
  BY <1>2, <1>3, TypeIs DEF ConstantsOK
<1>5. Crossed'
  BY <1>4 DEF Crossed
<1>6. (Known(u)' <=> Known(u)) /\ get_vxlan_config(u)' = get_vxlan_config(u)
  BY <1>2 DEF Known, get_vxlan_config
<1>7. CASE job[h].at = "up"
  <2>1. /\ \/ sixin4' = sixin4
           \/ sixin4' = [sixin4 EXCEPT ![u] = None]
        /\ apart' = apart \cup {<<u, "sixin4">>}
        /\ OnToVxlan(h) /\ UNCHANGED dev
    BY <1>1, <1>7 DEF UnitFails
  <2>2. /\ job' \in [Handlers -> Records \cup {Idle}]
        /\ \A g \in Handlers \ {h} : job'[g] = job[g]
        /\ \A g \in Handlers : job'[g] = Idle \/ JobFits(job'[g])
        /\ job'[h] # Idle => /\ job'[h].at = "conf" /\ job'[h].req = job[h].req
                             /\ job'[h].alone = job[h].alone
        /\ job'[h] = Idle <=> ~job[h].had
    BY <1>3, <2>1, OnToVxlanFits
  <2>3. /\ sixin4' \in [Users -> Sixin4s \cup {None}]
        /\ \A v \in Users \ {u} : sixin4'[v] = sixin4[v]
    BY <1>3, <2>1, TypeIs
  <2>4. apart' \in SUBSET (Users \X Tunnels)
    BY <1>3, <2>1, TypeIs DEF Tunnels
  <2>5. TypeInv'
    BY <1>2, <1>3, <1>4, <2>1, <2>2, <2>3, <2>4, TypeIs, TypeIsNext
  <2>6. /\ <<u, "vxlan">> \in apart' <=> <<u, "vxlan">> \in apart
        /\ \A v \in Users \ {u} : \A t \in Tunnels : <<v, t>> \in apart' <=> <<v, t>> \in apart
    BY <2>1
  <2>7. (Seen(u)' <=> Seen(u)) /\ (InLine(u)' <=> InLine(u)) /\ Sixin4InLine(u)'
    BY <1>2, <2>1, <2>6 DEF Seen, InLine, SixSeen, Sixin4InLine, Wanted, Known, Rendered,
                            get_vxlan_config
  <2>8. job[h].alone => Seen(u) /\ (job[h].had <=> saved[u] # None) /\ (saved[u] = None => InLine(u))
    BY <1>1, <1>3, <1>7 DEF Phase
  <2>9. job[h].alone /\ job'[h] = Idle => InLine(u)' /\ Sixin4InLine(u)'
    BY <2>2, <2>7, <2>8
  <2>10. job'[h] # Idle => User(h)' = u
    BY <1>1, <2>2 DEF User
  <2>11. job[h].alone /\ job'[h] # Idle => Phase(h)'
    BY <2>2, <2>7, <2>8, <2>10 DEF Phase
  <2>12. \A v \in Users \ {u} : /\ saved'[v] = saved[v] /\ vpn'[v] = vpn[v] /\ file'[v] = file[v]
                                /\ dev'[v] = dev[v] /\ six'[v] = six[v]
    BY <1>2, <2>1
  <2>13. ~Known(u)' => file'[u] = None /\ dev'[u] = None
    BY <1>2, <1>3, <1>6, <2>1
  <2>14. \A t \in Tunnels : <<u, t>> \in apart => <<u, t>> \in apart'
    BY <2>1
  <2>15. ShowInv'
    BY <1>1, <1>3, <1>5, <2>2, <2>3, <2>6, <2>9, <2>11, <2>12, <2>13, <2>14, UserStep
  <2>16. QED
    BY <2>5, <2>15 DEF TunnelsInv
<1>8. CASE job[h].at = "start"
  <2>1. /\ \/ dev' = dev
           \/ dev' = [dev EXCEPT ![u] = None]
        /\ apart' = apart \cup {<<u, "vxlan">>}
        /\ End(h) /\ UNCHANGED sixin4
    BY <1>1, <1>8 DEF UnitFails
  <2>2. /\ job'[h] = Idle /\ job' \in [Handlers -> Records \cup {Idle}]
        /\ \A g \in Handlers \ {h} : job'[g] = job[g]
        /\ \A g \in Handlers : job'[g] = Idle \/ JobFits(job'[g])
    BY <1>3, <2>1, EndFits
  <2>3. /\ dev' \in [Users -> Devices \cup {None}]
        /\ \A v \in Users \ {u} : dev'[v] = dev[v]
        /\ dev[u] = None => dev'[u] = None
    BY <1>3, <2>1, TypeIs
  <2>4. apart' \in SUBSET (Users \X Tunnels)
    BY <1>3, <2>1, TypeIs DEF Tunnels
  <2>5. TypeInv'
    BY <1>2, <1>3, <1>4, <2>1, <2>2, <2>3, <2>4, TypeIs, TypeIsNext
  <2>6. /\ <<u, "sixin4">> \in apart' <=> <<u, "sixin4">> \in apart
        /\ <<u, "vxlan">> \in apart'
        /\ \A v \in Users \ {u} : \A t \in Tunnels : <<v, t>> \in apart' <=> <<v, t>> \in apart
    BY <2>1
  <2>7. InLine(u)' /\ (Sixin4InLine(u)' <=> Sixin4InLine(u))
    BY <1>2, <2>1, <2>6 DEF InLine, SixSeen, Sixin4InLine, AddrOf
  <2>8. job[h].alone => InLine(u)' /\ Sixin4InLine(u)'
    BY <1>1, <1>3, <1>8, <2>7 DEF Phase
  <2>9. \A v \in Users \ {u} : /\ saved'[v] = saved[v] /\ vpn'[v] = vpn[v] /\ file'[v] = file[v]
                               /\ six'[v] = six[v] /\ sixin4'[v] = sixin4[v]
    BY <1>2, <2>1
  <2>10. ~Known(u)' => file'[u] = None /\ dev'[u] = None
    BY <1>2, <1>3, <1>6, <2>3
  <2>11. \A t \in Tunnels : <<u, t>> \in apart => <<u, t>> \in apart'
    BY <2>1
  <2>12. ShowInv'
    BY <1>1, <1>3, <1>5, <2>2, <2>3, <2>6, <2>8, <2>9, <2>10, <2>11, UserStep
  <2>13. QED
    BY <2>5, <2>12 DEF TunnelsInv
<1>9. CASE job[h].at = "stop"
  <2>1. /\ apart' = apart \cup {<<u, "vxlan">>}
        /\ Goto(h, "remove") /\ UNCHANGED <<dev, sixin4>>
    BY <1>1, <1>9 DEF UnitFails
  <2>2. /\ job'[h] # Idle /\ job'[h].at = "remove" /\ job'[h].req = job[h].req
        /\ job'[h].alone = job[h].alone
        /\ \A g \in Handlers \ {h} : job'[g] = job[g]
        /\ \A g \in Handlers : job'[g] = Idle \/ JobFits(job'[g])
        /\ job' \in [Handlers -> Records \cup {Idle}]
    BY <1>2, <1>3, <2>1, GotoFits DEF Learning
  <2>3. apart' \in SUBSET (Users \X Tunnels)
    BY <1>3, <2>1, TypeIs DEF Tunnels
  <2>4. TypeInv'
    BY <1>2, <1>3, <1>4, <2>1, <2>2, <2>3, TypeIs, TypeIsNext
  <2>5. /\ <<u, "sixin4">> \in apart' <=> <<u, "sixin4">> \in apart
        /\ <<u, "vxlan">> \in apart'
        /\ \A v \in Users \ {u} : \A t \in Tunnels : <<v, t>> \in apart' <=> <<v, t>> \in apart
    BY <2>1
  <2>6. Sixin4InLine(u)' <=> Sixin4InLine(u)
    BY <1>2, <2>1, <2>5 DEF SixSeen, Sixin4InLine, AddrOf
  <2>7. User(h)' = u
    BY <1>1, <2>2 DEF User
  <2>8. job[h].alone => ~get_vxlan_config(u).on /\ Sixin4InLine(u)
    BY <1>1, <1>3, <1>9 DEF Phase
  <2>9. job[h].alone => Phase(h)'
    BY <1>6, <2>2, <2>5, <2>6, <2>7, <2>8 DEF Phase
  <2>10. \A v \in Users \ {u} : /\ saved'[v] = saved[v] /\ vpn'[v] = vpn[v] /\ file'[v] = file[v]
                                /\ dev'[v] = dev[v] /\ six'[v] = six[v] /\ sixin4'[v] = sixin4[v]
    BY <1>2, <2>1
  <2>11. ~Known(u)' => file'[u] = None /\ dev'[u] = None
    BY <1>2, <1>3, <1>6, <2>1
  <2>12. \A t \in Tunnels : <<u, t>> \in apart => <<u, t>> \in apart'
    BY <2>1
  <2>13. ShowInv'
    BY <1>1, <1>3, <1>5, <2>2, <2>5, <2>9, <2>10, <2>11, <2>12, UserStep
  <2>14. QED
    BY <2>4, <2>13 DEF TunnelsInv
<1>10. QED
  BY <1>2, <1>7, <1>8, <1>9

LEMMA BeginKeeps ==
  ASSUME ConstantsOK, TunnelsInv, NEW h \in Handlers, NEW r \in Requests, Begin(h, r)
  PROVE  TunnelsInv'
<1> DEFINE others == {g \in Handlers : Busy(g)}
           same == {g \in others : User(g) = r.user}
           j == [Idle EXCEPT !.at = IF r.route = "vpnips" THEN "read" ELSE "merge",
                             !.req = r, !.alone = same = {}]
<1>1. PICK u \in Users : u = r.user
  BY RequestTypes
<1>2. /\ ~Busy(h)
      /\ overlaps' = IF others = {} THEN overlaps ELSE overlaps + 1
      /\ overlaps' + faults <= MaxTroubles
      /\ apart' = IF same # {} THEN apart \cup ({u} \X Tunnels) ELSE apart
      /\ job' = [g \in Handlers |-> IF g = h THEN j
                                    ELSE IF g \in same THEN [job[g] EXCEPT !.alone = FALSE]
                                    ELSE job[g]]
      /\ UNCHANGED <<saved, vpn, file, dev, six, sixin4, faults>>
  BY <1>1 DEF Begin
<1>3. same = Mine(u)
  BY <1>1 DEF Mine
<1>4. /\ j \in Records /\ j.req = r /\ j.alone \in BOOLEAN /\ (j.alone <=> same = {})
      /\ j.at = IF r.route = "vpnips" THEN "read" ELSE "merge"
  BY DEF Idle, Records, Steps
<1> HIDE DEF j
<1>5. JobFits(j)
  BY <1>4 DEF JobFits, Learning
<1>6. j # Idle
  BY <1>4 DEF Idle
<1>7. TypeInv /\ ShowInv
  BY DEF TunnelsInv
<1>8. ASSUME NEW g \in same
      PROVE  /\ JobFits([job[g] EXCEPT !.alone = FALSE])
             /\ [job[g] EXCEPT !.alone = FALSE].req = job[g].req
             /\ ~[job[g] EXCEPT !.alone = FALSE].alone
             /\ [job[g] EXCEPT !.alone = FALSE].at \in Steps
  <2> DEFINE k == [job[g] EXCEPT !.alone = FALSE]
  <2>1. JobFits(job[g]) /\ job[g] \in Records
    BY <1>7, AtWork
  <2>2. /\ k \in Records /\ k.at = job[g].at /\ k.req = job[g].req /\ k.cfg = job[g].cfg /\ ~k.alone
        /\ k.todo = job[g].todo
    BY <2>1 DEF Records
  <2> HIDE DEF k
  <2>3. JobFits(k)
    BY <2>1, <2>2 DEF JobFits
  <2>4. k.at \in Steps
    BY <2>2 DEF Records
  <2>5. QED
    BY <2>2, <2>3, <2>4 DEF k
<1>9. /\ job'[h] = j
      /\ \A g \in same \ {h} : job'[g] = [job[g] EXCEPT !.alone = FALSE]
      /\ \A g \in Handlers \ ({h} \cup same) : job'[g] = job[g]
      /\ h \notin same
  BY <1>2
<1>10. \A g \in Handlers : job'[g] = Idle \/ JobFits(job'[g])
  BY <1>5, <1>7, <1>8, <1>9 DEF TypeInv
<1>11. job' \in [Handlers -> Records \cup {Idle}]
  BY <1>2, <1>10 DEF JobFits
<1>12. overlaps' \in 0..MaxTroubles
  BY <1>2, <1>7, TypeIs DEF ConstantsOK
<1>13. apart' \in SUBSET (Users \X Tunnels)
  BY <1>1, <1>2, <1>7, TypeIs
<1>14. TypeInv'
  BY <1>2, <1>7, <1>10, <1>11, <1>12, <1>13, TypeIs, TypeIsNext
<1>15. ~Crossed' => apart' = {}
  <2>1. ~Crossed' => others = {} /\ ~Crossed
    BY <1>2, <1>7, TypeIs DEF Crossed
  <2>2. QED
    BY <1>2, <1>7, <2>1 DEF ShowInv
<1>16. ASSUME NEW v \in Users \ {u} PROVE UserInv(v)'
  <2>1. \A t \in Tunnels : <<v, t>> \in apart' <=> <<v, t>> \in apart
    BY <1>2, <1>16
  <2>2. h \notin Mine(v) /\ h \notin Mine(v)'
    BY <1>1, <1>2, <1>4, <1>9, <1>16 DEF Mine, Busy, User
  <2>3. \A g \in same : g \notin Mine(v) /\ g \notin Mine(v)'
    BY <1>1, <1>8, <1>9, <1>16 DEF Mine, User
  <2>4. \A g \in Handlers : job'[g] = job[g] \/ (g \notin Mine(v) /\ g \notin Mine(v)')
    BY <1>9, <2>2, <2>3
  <2>5. UserInv(v)
    BY <1>7, <1>16 DEF ShowInv
  <2>6. QED
    BY <1>2, <2>1, <2>4, <2>5, OtherUsers
<1>17. UserInv(u)
  BY <1>7 DEF ShowInv
<1>18. Known(u)' <=> Known(u)
  BY <1>2 DEF Known
<1>19. h \in Mine(u)' /\ User(h)' = u
  BY <1>1, <1>4, <1>6, <1>9 DEF Mine, Busy, User
<1>20. Mine(u)' = same \cup {h}
  <2>1. \A g \in same : g \in Mine(u)'
    <3>1. ASSUME NEW g \in same PROVE g \in Mine(u)'
      <4>1. job'[g] = [job[g] EXCEPT !.alone = FALSE]
        BY <1>9
      <4>2. job'[g].at \in Steps /\ job'[g].req = job[g].req
        BY <1>8, <4>1
      <4>3. job'[g] # Idle
        BY <4>2 DEF Idle, Steps
      <4>4. QED
        BY <1>1, <4>2, <4>3 DEF Mine, Busy, User
    <3>2. QED
      BY <3>1
  <2>2. \A g \in Handlers \ ({h} \cup same) : g \notin Mine(u)'
    BY <1>3, <1>9 DEF Mine, Busy, User
  <2>3. Mine(u)' \subseteq Handlers
    BY DEF Mine
  <2>4. QED
    BY <1>19, <2>1, <2>2, <2>3
<1>21. UserInv(u)'
  <2>1. CASE same = {}
    <3>1. InLine(u) /\ Sixin4InLine(u)
      BY <1>3, <1>17, <2>1 DEF UserInv
    <3>2. InLine(u)' /\ Sixin4InLine(u)'
      BY <1>2, <2>1, <3>1, SameShow
    <3>3. Phase(h)'
      BY <1>4, <1>9, <1>19, <3>2 DEF Phase
    <3>4. Mine(u)' = {h} /\ job'[h].alone
      BY <1>4, <1>9, <1>20, <2>1
    <3>5. QED
      BY <1>2, <1>17, <1>18, <3>3, <3>4 DEF UserInv
  <2>2. CASE same # {}
    <3>1. {u} \X Tunnels \subseteq apart'
      BY <1>2, <2>2
    <3>2. \A g \in Mine(u)' : ~job'[g].alone
      BY <1>4, <1>8, <1>9, <1>20, <2>2
    <3>3. QED
      BY <1>2, <1>17, <1>18, <1>20, <3>1, <3>2 DEF UserInv
  <2>3. QED
    BY <2>1, <2>2
<1>22. QED
  BY <1>14, <1>15, <1>16, <1>21 DEF TunnelsInv, ShowInv

LEMMA InitTunnels == ConstantsOK /\ Init => TunnelsInv
<1> SUFFICES ASSUME ConstantsOK, Init PROVE TunnelsInv
  OBVIOUS
<1>1. TypeInv
  BY DEF Init, TypeInv, TypeOK, ConstantsOK
<1>2. \A u \in Users : Mine(u) = {} /\ ~Known(u) /\ file[u] = None /\ dev[u] = None
  BY DEF Init, Mine, Busy, Known
<1>3. \A u \in Users : InLine(u) /\ Sixin4InLine(u)
  <2>1. None # HalfWritten
    BY DEF ConstantsOK
  <2>2. QED
    BY <2>1 DEF Init, InLine, SixSeen, Sixin4InLine, AddrOf, Wanted, get_vxlan_config
<1>4. ~Crossed => apart = {}
  BY DEF Init
<1>5. QED
  BY <1>1, <1>2, <1>3, <1>4 DEF TunnelsInv, ShowInv, UserInv

LEMMA StillTunnels ==
  ASSUME TunnelsInv, UNCHANGED vars
  PROVE  TunnelsInv'
<1>1. TypeInv'
  BY TypeIs, TypeIsNext DEF TunnelsInv, TypeInv, vars
<1>2. \A u \in Users : UserInv(u)'
  <2>1. ASSUME NEW u \in Users PROVE UserInv(u)'
    BY <2>1, OtherUsers DEF TunnelsInv, ShowInv, vars
  <2>2. QED
    BY <2>1
<1>3. ~Crossed' => apart' = {}
  BY DEF TunnelsInv, ShowInv, Crossed, vars
<1>4. QED
  BY <1>1, <1>2, <1>3 DEF TunnelsInv, ShowInv

LEMMA NextTunnels == ConstantsOK /\ VxlanInv /\ TunnelsInv /\ [Next]_vars => TunnelsInv'
<1> SUFFICES ASSUME ConstantsOK, VxlanInv, TunnelsInv, [Next]_vars PROVE TunnelsInv'
  OBVIOUS
<1>1. CASE UNCHANGED vars
  BY <1>1, StillTunnels
<1>2. ASSUME NEW h \in Handlers, NEW r \in Requests, Begin(h, r) PROVE TunnelsInv'
  BY <1>2, BeginKeeps
<1>3. ASSUME NEW h \in Handlers, Merge(h) \/ Check(h) \/ Save(h) PROVE TunnelsInv'
  BY <1>3, MergeKeeps, CheckKeeps, SaveKeeps
<1>4. ASSUME NEW h \in Handlers,
             ReadAll(h) \/ SaveVpn(h) \/ WriteSixin4(h) \/ RestartSixin4(h)
      PROVE  TunnelsInv'
  BY <1>4, ReadAllKeeps, SaveVpnKeeps, WriteSixin4Keeps, RestartSixin4Keeps
<1>5. ASSUME NEW h \in Handlers,
             ReadConf(h) \/ WriteConf(h) \/ StartUnit(h) \/ StopUnit(h) \/ RemoveConf(h)
      PROVE  TunnelsInv'
  BY <1>5, ReadConfKeeps, WriteConfKeeps, StartUnitKeeps, StopUnitKeeps, RemoveConfKeeps
<1>6. ASSUME NEW h \in Handlers, UnitFails(h) \/ CutOff(h) PROVE TunnelsInv'
  BY <1>6, UnitFailsKeeps, CutOffKeeps
<1>7. QED
  BY <1>1, <1>2, <1>3, <1>4, <1>5, <1>6 DEF Next

----------------------------------------------------------------------------
(* The theorems *)

\* Requests served one after the other never give two enabled users the same VNI
\* and port.
THEOREM PairsStayDifferent == Spec => []PairsDiffer
<1>1. VxlanInv => PairsDiffer
  BY DEF VxlanInv
<1>2. QED
  BY InitVxlan, NextVxlan, <1>1, PTL DEF Spec

LEMMA TunnelsStayInLine == ASSUME ConstantsOK PROVE Spec => [](VxlanInv /\ TunnelsInv)
<1>1. Init => VxlanInv /\ TunnelsInv
  BY InitVxlan, InitTunnels
<1>2. VxlanInv /\ TunnelsInv /\ [Next]_vars => (VxlanInv /\ TunnelsInv)'
  BY NextVxlan, NextTunnels
<1>3. QED
  BY <1>1, <1>2, PTL DEF Spec

\* Every variable has its type, and requests and faults stay within their bounds.
THEOREM TypeCorrect == ASSUME ConstantsOK PROVE Spec => []TypeOK
<1>1. VxlanInv /\ TunnelsInv => TypeOK
  BY DEF TunnelsInv, TypeInv
<1>2. QED
  BY <1>1, TunnelsStayInLine, PTL

LEMMA TunnelsShow == TunnelsInv => DeviceShows
<1> SUFFICES ASSUME TunnelsInv, NEW u \in Users, \A h \in Handlers : Busy(h) => User(h) # u
             PROVE  /\ <<u, "vxlan">> \notin apart => dev[u] = Wanted(u)
                    /\ <<u, "sixin4">> \notin apart =>
                         six[u] # HalfWritten /\ sixin4[u] = six[u] /\ AddrOf(six[u]) = vpn[u].remote
  BY DEF DeviceShows
<1>1. Mine(u) = {} /\ UserInv(u)
  BY DEF Mine, TunnelsInv, ShowInv
<1>2. QED
  BY <1>1 DEF UserInv, InLine, SixSeen, Sixin4InLine

\* Between the requests of a user, its VXLAN device is what the saved
\* configuration says, over the VPN addresses that were learned last, and its
\* 6in4 tunnel runs with its file and has those addresses, except after a fault or
\* an overlap of that user's requests set them apart.
THEOREM DevicesShow == ASSUME ConstantsOK PROVE Spec => []DeviceShows
<1>1. QED
  BY TunnelsStayInLine, TunnelsShow, PTL
=============================================================================
