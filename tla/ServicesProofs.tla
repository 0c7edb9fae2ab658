---------------------------- MODULE ServicesProofs ----------------------------
(***************************************************************************)
(* Theorems about XrayPorts and ServiceConfig, for any handlers, users,    *)
(* ports and bounds, and about the behaviours of MCServices.               *)
(***************************************************************************)
EXTENDS MCServices, Sequences, TLAPS

\* A configuration in which the forwards fit.
Fits(d) ==
    /\ \A f, g \in d.rpf : f[2] = g[2] => f = g
    /\ d.clients = {f[1] : f \in d.rpf}

Fitting == {d \in Docs : Fits(d)}

\* The steps of a request that may still write, or put back, what it holds.
Writing == {"test", "replace", "truncate", "dump", "gone", "compare", "save", "port", "restart"}

JobsOK ==
    /\ job \in [Handlers -> [at : Steps, req : Requests, data : Docs \cup {None}, before : Docs \cup {None},
                             alone : BOOLEAN, back : BOOLEAN] \cup {Idle}]
    /\ \A h \in Handlers : job[h].at \in Writing => job[h].data \in Fitting /\ job[h].before \in Fitting

FitInv ==
    /\ file \in Fitting \cup {Torn}
    /\ live \in Fitting
    /\ JobsOK

----------------------------------------------------------------------------
(* Configurations *)

LEMMA SetFits ==
  ASSUME NEW d \in Fitting, NEW u \in Users, NEW p \in Nat, <<u, p>> \in Forwards,
         ~InUse(d, <<u, p>>)
  PROVE  _xray_rpf_set(d, <<u, p>>) \in Fitting
<1> DEFINE f == <<u, p>>
           e == _xray_rpf_set(d, f)
<1>1. /\ d \in Docs /\ Fits(d)
      /\ d.rpf \in SUBSET Forwards /\ d.clients \in SUBSET Users
  BY DEF Fitting, Docs
<1>2. /\ e \in Docs
      /\ e.rpf = d.rpf \cup {f} /\ e.clients = d.clients \cup {u}
  BY <1>1 DEF _xray_rpf_set, Docs
<1>3. \A g \in d.rpf : g[2] = p => g = f
  BY DEF InUse
<1> HIDE DEF e
<1>4. \A g, k \in e.rpf : g[2] = k[2] => g = k
  BY <1>1, <1>2, <1>3 DEF Fits
<1>5. e.clients = {g[1] : g \in e.rpf}
  BY <1>1, <1>2 DEF Fits
<1>6. QED
  BY <1>2, <1>4, <1>5 DEF e, Fitting, Fits

LEMMA RemoveFits ==
  ASSUME NEW d \in Fitting, NEW f
  PROVE  _xray_rpf_remove(d, f) \in Fitting
<1> DEFINE e == _xray_rpf_remove(d, f)
           rest == d.rpf \ {f}
<1>1. /\ d \in Docs /\ Fits(d)
      /\ d.rpf \in SUBSET Forwards /\ d.clients \in SUBSET Users
  BY DEF Fitting, Docs
<1>2. /\ e \in Docs
      /\ e.rpf = rest
      /\ e.clients = IF \E g \in rest : g[1] = f[1] THEN d.clients ELSE d.clients \ {f[1]}
  BY <1>1 DEF _xray_rpf_remove, Docs
<1> HIDE DEF e
<1>3. \A g, k \in e.rpf : g[2] = k[2] => g = k
  BY <1>1, <1>2 DEF Fits
<1>4. e.clients = {g[1] : g \in e.rpf}
  <2>1. d.clients = {g[1] : g \in d.rpf}
    BY <1>1 DEF Fits
  <2>2. QED
    BY <1>2, <2>1
<1>5. QED
  BY <1>2, <1>3, <1>4 DEF e, Fitting, Fits

\* The redirections and the settings leave the forwards alone.
LEMMA OthersFit ==
  ASSUME NEW d \in Fitting, NEW f \in Forwards, NEW on \in BOOLEAN
  PROVE  /\ xray_add_port(d, f) \in Fitting
         /\ xray_del_port(d, f) \in Fitting
         /\ [d EXCEPT !.reality = on] \in Fitting
<1>1. d \in Docs /\ Fits(d)
  BY DEF Fitting
<1>2. xray_add_port(d, f) \in Fitting
  BY <1>1 DEF xray_add_port, Docs, Fitting, Fits
<1>3. xray_del_port(d, f) \in Fitting
  BY <1>1 DEF xray_del_port, Docs, Fitting, Fits
<1>4. [d EXCEPT !.reality = on] \in Fitting
  BY <1>1 DEF Docs, Fitting, Fits
<1>5. QED
  BY <1>2, <1>3, <1>4

LEMMA ShippedFits == Shipped \in Fitting
  BY DEF Shipped, Fitting, Fits, Docs

LEMMA MadeFits ==
  ASSUME RequestsOK, NEW h \in Handlers, Req(h) \in Requests, Req(h).kind # "resync",
         file \in Fitting, ~Refused(h)
  PROVE  Made(h) \in Fitting
<1> DEFINE r == Req(h)
<1>1. /\ r \in Requests
      /\ r.kind \in {"add", "del", "redir", "unredir", "set"}
      /\ r.port \in Nat /\ r.on \in BOOLEAN
      /\ r.kind # "set" => r.user \in Users
  BY DEF RequestsOK
<1>2. r.kind # "set" => Forward(h) = <<r.user, r.port>> /\ Forward(h) \in Forwards
  BY <1>1 DEF Forward, Forwards, RequestsOK
<1>3. CASE r.kind = "add"
  <2>1. ~InUse(file, Forward(h))
    BY <1>3 DEF Refused
  <2>2. QED
    BY <1>1, <1>2, <1>3, <2>1, SetFits DEF Made
<1>4. CASE r.kind = "del"
  BY <1>4, RemoveFits DEF Made
<1>5. CASE r.kind = "redir"
  BY <1>2, <1>5, OthersFit DEF Made
<1>6. CASE r.kind = "unredir"
  BY <1>2, <1>6, OthersFit DEF Made
<1>7. CASE r.kind = "set"
  <2>1. [file EXCEPT !.reality = r.on] \in Fitting
    <3>1. file \in Docs /\ Fits(file)
      BY DEF Fitting
    <3>2. QED
      BY <1>1, <3>1 DEF Docs, Fitting, Fits
  <2>2. QED
    BY <1>7, <2>1 DEF Made
<1>8. QED
  BY <1>1, <1>3, <1>4, <1>5, <1>6, <1>7

----------------------------------------------------------------------------
(* Requests *)

\* A request goes on, holding what it held.
LEMMA GotoJobs ==
  ASSUME JobsOK, NEW h \in Handlers, NEW s \in Steps, job[h].at \in Steps, Goto(h, s),
         s \in Writing => job[h].at \in Writing
  PROVE  JobsOK'
<1>1. job[h] \in [at : Steps, req : Requests, data : Docs \cup {None}, before : Docs \cup {None},
                  alone : BOOLEAN, back : BOOLEAN]
  BY DEF JobsOK, Idle, Steps
<1>2. [job[h] EXCEPT !.at = s] \in [at : Steps, req : Requests, data : Docs \cup {None},
                                    before : Docs \cup {None}, alone : BOOLEAN, back : BOOLEAN]
  BY <1>1
<1>3. job' = [job EXCEPT ![h] = [job[h] EXCEPT !.at = s]]
  BY DEF Goto
<1>4. /\ job'[h].at = s /\ job'[h].data = job[h].data /\ job'[h].before = job[h].before
      /\ \A g \in Handlers \ {h} : job'[g] = job[g]
  BY <1>1, <1>3 DEF JobsOK
<1>5. QED
  BY <1>2, <1>3, <1>4 DEF JobsOK

LEMMA EndJobs ==
  ASSUME JobsOK, NEW h \in Handlers, End(h)
  PROVE  JobsOK'
  BY DEF JobsOK, End, Idle, Writing
LEMMA BeginFits ==
  ASSUME FitInv, NEW h \in Handlers, NEW r \in Requests, Begin(h, r)
  PROVE  FitInv'
<1> DEFINE alone == \A g \in Handlers : job[g] = Idle
           j == [Idle EXCEPT !.at = "read", !.req = r, !.alone = alone]
<1>1. job' = [g \in Handlers |-> IF g = h THEN j
                                 ELSE IF job[g] = Idle THEN Idle ELSE [job[g] EXCEPT !.alone = FALSE]]
  BY DEF Begin
<1>2. alone \in BOOLEAN
  OBVIOUS
<1> HIDE DEF alone
<1>3. /\ j \in [at : Steps, req : Requests, data : Docs \cup {None}, before : Docs \cup {None},
                alone : BOOLEAN, back : BOOLEAN]
      /\ j.at = "read"
  BY <1>2 DEF Idle, Steps
<1> HIDE DEF j
<1>4. ASSUME NEW g \in Handlers, job[g] # Idle
      PROVE  /\ [job[g] EXCEPT !.alone = FALSE]
                  \in [at : Steps, req : Requests, data : Docs \cup {None}, before : Docs \cup {None},
                       alone : BOOLEAN, back : BOOLEAN]
             /\ [job[g] EXCEPT !.alone = FALSE].at = job[g].at
             /\ [job[g] EXCEPT !.alone = FALSE].data = job[g].data
             /\ [job[g] EXCEPT !.alone = FALSE].before = job[g].before
  <2>1. job[g] \in [at : Steps, req : Requests, data : Docs \cup {None}, before : Docs \cup {None},
                    alone : BOOLEAN, back : BOOLEAN]
    BY <1>4 DEF FitInv, JobsOK
  <2>2. QED
    BY <2>1
<1>5. job' \in [Handlers -> [at : Steps, req : Requests, data : Docs \cup {None}, before : Docs \cup {None},
                             alone : BOOLEAN, back : BOOLEAN] \cup {Idle}]
  BY <1>1, <1>3, <1>4
<1>6. ASSUME NEW g \in Handlers, job'[g].at \in Writing
      PROVE  job'[g].data \in Fitting /\ job'[g].before \in Fitting
  <2>1. g # h /\ job[g] # Idle
    BY <1>1, <1>3, <1>6 DEF Writing, Idle
  <2>2. job'[g] = [job[g] EXCEPT !.alone = FALSE]
    BY <1>1, <2>1
  <2>3. job[g].at \in Writing /\ job'[g].data = job[g].data /\ job'[g].before = job[g].before
    BY <1>4, <1>6, <2>1, <2>2
  <2>4. QED
    BY <2>3 DEF FitInv, JobsOK
<1>7. QED
  BY <1>5, <1>6 DEF Begin, FitInv, JobsOK

LEMMA ReadFits ==
  ASSUME RequestsOK, FitInv, NEW h \in Handlers, Read(h)
  PROVE  FitInv'
<1>1. At(h, "read") /\ Req(h).kind # "resync" /\ UNCHANGED <<file, live>>
  BY DEF Read
<1>2. CASE Refused(h)
  BY <1>1, <1>2, EndJobs DEF Read, FitInv
<1>3. CASE ~Refused(h)
  <2>1. file \in Fitting
    BY <1>3 DEF FitInv, Refused
  <2>2. job[h] \in [at : Steps, req : Requests, data : Docs \cup {None}, before : Docs \cup {None},
                    alone : BOOLEAN, back : BOOLEAN]
    BY <1>1 DEF FitInv, JobsOK, At, Idle
  <2>3. Made(h) \in Fitting
    BY <1>1, <1>3, <2>1, <2>2, MadeFits DEF Req
  <2>4. PICK s \in {"truncate", "test", "open"} :
           job' = [job EXCEPT ![h].before = file, ![h].data = Made(h), ![h].at = s]
    BY <1>3 DEF Read
  <2> DEFINE j == [job[h] EXCEPT !.before = file, !.data = Made(h), !.at = s]
  <2>5. job' = [job EXCEPT ![h] = j]
    BY <2>2, <2>4 DEF FitInv, JobsOK
  <2>6. /\ j \in [at : Steps, req : Requests, data : Docs \cup {None}, before : Docs \cup {None},
                  alone : BOOLEAN, back : BOOLEAN]
        /\ j.data \in Fitting /\ j.before \in Fitting
    BY <2>1, <2>2, <2>3 DEF Fitting, Steps
  <2> HIDE DEF j
  <2>7. JobsOK'
    BY <2>5, <2>6 DEF FitInv, JobsOK
  <2>8. QED
    BY <1>1, <2>7 DEF FitInv
<1>4. QED
  BY <1>2, <1>3

LEMMA ReadForChainFits ==
  ASSUME FitInv, NEW h \in Handlers, ReadForChain(h)
  PROVE  FitInv'
<1> DEFINE d == IF file = Torn THEN Shipped ELSE file
           j == [job[h] EXCEPT !.at = "sync", !.data = d]
<1>1. At(h, "read") /\ UNCHANGED <<file, live>> /\ job' = [job EXCEPT ![h].at = "sync", ![h].data = d]
  BY DEF ReadForChain
<1>2. job[h] \in [at : Steps, req : Requests, data : Docs \cup {None}, before : Docs \cup {None},
                  alone : BOOLEAN, back : BOOLEAN]
  BY <1>1 DEF FitInv, JobsOK, At, Idle
<1>3. d \in Docs
  BY ShippedFits DEF FitInv, Fitting
<1> HIDE DEF d
<1>4. job' = [job EXCEPT ![h] = j]
  BY <1>1, <1>2 DEF FitInv, JobsOK
<1>5. /\ j \in [at : Steps, req : Requests, data : Docs \cup {None}, before : Docs \cup {None},
                alone : BOOLEAN, back : BOOLEAN]
      /\ j.at = "sync"
  BY <1>2, <1>3 DEF Steps
<1> HIDE DEF j
<1>6. JobsOK'
  BY <1>4, <1>5 DEF FitInv, JobsOK, Writing
<1>7. QED
  BY <1>1, <1>6 DEF FitInv

\* A forward's file replaces the old one; who was dumping into that goes on.
LEMMA ReplaceFits ==
  ASSUME FitInv, NEW h \in Handlers, Replace(h)
  PROVE  FitInv'
<1> DEFINE Records == [at : Steps, req : Requests, data : Docs \cup {None}, before : Docs \cup {None},
                       alone : BOOLEAN, back : BOOLEAN]
<1>1. job[h].at = "replace" /\ file' = job[h].data /\ UNCHANGED live
  BY DEF Replace, At
<1>2. job' = [g \in Handlers |-> IF g = h THEN [job[h] EXCEPT !.at = "restart"]
                                 ELSE IF At(g, "dump") THEN [job[g] EXCEPT !.at = "gone"]
                                 ELSE job[g]]
  BY DEF Replace
<1>3. job[h].data \in Fitting
  BY <1>1 DEF FitInv, JobsOK, Writing
<1>4. ASSUME NEW g \in Handlers, NEW s \in {"restart", "gone"}, job[g].at \in {"replace", "dump"}
      PROVE  /\ [job[g] EXCEPT !.at = s] \in Records
             /\ [job[g] EXCEPT !.at = s].data \in Fitting
             /\ [job[g] EXCEPT !.at = s].before \in Fitting
  <2>1. job[g] \in Records
    BY <1>4 DEF FitInv, JobsOK, Idle
  <2>2. job[g].data \in Fitting /\ job[g].before \in Fitting
    BY <1>4 DEF FitInv, JobsOK, Writing
  <2>3. QED
    BY <2>1, <2>2 DEF Steps
<1>5. job' \in [Handlers -> Records \cup {Idle}]
  BY <1>1, <1>2, <1>4 DEF FitInv, JobsOK, At
<1>6. ASSUME NEW g \in Handlers, job'[g].at \in Writing
      PROVE  job'[g].data \in Fitting /\ job'[g].before \in Fitting
  <2>1. CASE g = h
    BY <1>1, <1>2, <1>4, <2>1
  <2>2. CASE g # h /\ At(g, "dump")
    BY <1>2, <1>4, <2>2 DEF At
  <2>3. CASE g # h /\ ~At(g, "dump")
    BY <1>2, <1>6, <2>3 DEF FitInv, JobsOK
  <2>4. QED
    BY <2>1, <2>2, <2>3
<1>7. QED
  BY <1>1, <1>3, <1>5, <1>6 DEF FitInv, JobsOK

LEMMA WriteFits ==
  ASSUME FitInv, NEW h \in Handlers, Truncate(h) \/ Dump(h)
  PROVE  FitInv'
<1>1. job[h].at \in Writing /\ job[h].at \in Steps /\ UNCHANGED live
  BY DEF Truncate, Dump, At, Writing, Steps
<1>2. job[h].data \in Fitting
  BY <1>1 DEF FitInv, JobsOK
<1>3. file' \in Fitting \cup {Torn}
  BY <1>2 DEF Truncate, Dump, FitInv
<1>4. JobsOK'
  <2>1. PICK s \in {"dump", "restart", "save", "compare"} : Goto(h, s)
    BY DEF Truncate, Dump, AfterDump
  <2>2. QED
    BY <1>1, <2>1, GotoJobs DEF FitInv, Writing, Steps
<1>5. QED
  BY <1>1, <1>3, <1>4 DEF FitInv

\* What a request does besides writing the file.
LEMMA OtherStepsFit ==
  ASSUME FitInv, NEW h \in Handlers, NEW b \in BOOLEAN,
         \/ Test(h, b) \/ Compare(h) \/ Save(h) \/ RealityPort(h)
         \/ Sync(h, b) \/ Open(h) \/ CutOff(h)
  PROVE  FitInv'
<1>1. UNCHANGED <<file, live>>
  BY DEF Test, Compare, Save, RealityPort, Sync, Open, CutOff
<1>2. \/ End(h)
      \/ \E s \in Steps : Goto(h, s) /\ job[h].at \in Steps /\ (s \in Writing => job[h].at \in Writing)
  BY DEF Test, Compare, Save, RealityPort, Sync, Open, CutOff, At, Steps, Writing
<1>3. JobsOK'
  BY <1>2, EndJobs, GotoJobs DEF FitInv
<1>4. QED
  BY <1>1, <1>3 DEF FitInv

LEMMA RestartFits ==
  ASSUME FitInv, NEW h \in Handlers, Restart(h)
  PROVE  FitInv'
<1>1. job[h].at = "restart" /\ UNCHANGED file
  BY DEF Restart, At
<1>2. live' \in Fitting
  BY DEF Restart, FitInv
<1>3. End(h) \/ Goto(h, "sync")
  BY DEF Restart
<1>4. JobsOK'
  BY <1>1, <1>3, EndJobs, GotoJobs DEF FitInv, Steps, Writing
<1>5. QED
  BY <1>1, <1>2, <1>4 DEF FitInv

\* What is put back is what the request had read.
LEMMA RestartFailsFits ==
  ASSUME FitInv, NEW h \in Handlers, RestartFails(h)
  PROVE  FitInv'
<1> DEFINE Records == [at : Steps, req : Requests, data : Docs \cup {None}, before : Docs \cup {None},
                       alone : BOOLEAN, back : BOOLEAN]
           j == [job[h] EXCEPT !.at = "truncate", !.data = job[h].before, !.back = TRUE]
<1>1. job[h].at = "restart" /\ UNCHANGED <<file, live>>
  BY DEF RestartFails, At
<1>2. job[h] \in Records /\ job[h].before \in Fitting
  BY <1>1 DEF FitInv, JobsOK, Idle, Writing
<1>3. CASE End(h)
  BY <1>1, <1>3, EndJobs DEF FitInv
<1>4. CASE job' = [job EXCEPT ![h].at = "truncate", ![h].data = job[h].before, ![h].back = TRUE]
  <2>1. job' = [job EXCEPT ![h] = j]
    BY <1>2, <1>4 DEF FitInv, JobsOK
  <2>2. j \in Records /\ j.data \in Fitting /\ j.before \in Fitting
    BY <1>2 DEF Steps
  <2> HIDE DEF j
  <2>3. JobsOK'
    BY <2>1, <2>2 DEF FitInv, JobsOK
  <2>4. QED
    BY <1>1, <2>3 DEF FitInv
<1>5. QED
  BY <1>3, <1>4 DEF RestartFails

LEMMA InitFits == Init => FitInv
  BY ShippedFits DEF Init, FitInv, JobsOK, Idle, Writing

LEMMA NextFits ==
  ASSUME RequestsOK
  PROVE  FitInv /\ [Next]_vars => FitInv'
<1> SUFFICES ASSUME FitInv, [Next]_vars PROVE FitInv'
  OBVIOUS
<1>1. ASSUME NEW h \in Handlers, NEW r \in Requests, Begin(h, r) PROVE FitInv'
  BY <1>1, BeginFits
<1>2. ASSUME NEW h \in Handlers, Read(h) \/ ReadForChain(h) PROVE FitInv'
  BY <1>2, ReadFits, ReadForChainFits
<1>3. ASSUME NEW h \in Handlers, Replace(h) PROVE FitInv'
  BY <1>3, ReplaceFits
<1>4. ASSUME NEW h \in Handlers, Truncate(h) \/ Dump(h) PROVE FitInv'
  BY <1>4, WriteFits
<1>5. ASSUME NEW h \in Handlers, Restart(h) PROVE FitInv'
  BY <1>5, RestartFits
<1>6. ASSUME NEW h \in Handlers, RestartFails(h) PROVE FitInv'
  BY <1>6, RestartFailsFits
<1>7. ASSUME NEW h \in Handlers, NEW b \in BOOLEAN, Test(h, b) \/ Sync(h, b) PROVE FitInv'
  BY <1>7, OtherStepsFit
<1>8. ASSUME NEW h \in Handlers, Compare(h) \/ Save(h) \/ RealityPort(h) \/ Open(h) \/ CutOff(h)
      PROVE  FitInv'
  BY <1>8, OtherStepsFit
<1>9. CASE UNCHANGED vars
  BY <1>9 DEF vars, FitInv, JobsOK
<1>10. QED
  BY <1>1, <1>2, <1>3, <1>4, <1>5, <1>6, <1>7, <1>8, <1>9 DEF Next

----------------------------------------------------------------------------
(* A request that is served alone, and what it has still to bring in line *)

\* All but X and what is apart is in line with d.
AgreesBut(X, d) ==
    /\ Live \notin apart \cup X => live = d
    /\ Chain \notin apart \cup X => chain = _render_xray_rpf_bypass(d)
    /\ Account \notin apart \cup X => account = d.reality
    /\ Https \notin apart \cup X => (Https \in open <=> d.reality)
    /\ \A f \in Forwards \ (apart \cup X) : f \in open <=> f \in d.rpf

FileAgreesBut(X) == file # Torn => AgreesBut(X, file)

\* e differs from d in what handler h was asked to change, at most.
Near(h, e, d) ==
    /\ Req(h).kind # "set" => e.reality = d.reality
    /\ \A f \in Forwards : ~(Rpf(h) /\ f = Forward(h)) => (f \in e.rpf <=> f \in d.rpf)
    /\ ~Rpf(h) => e.rpf = d.rpf

\* What h has made is what it was asked for.
Asked(h) ==
    /\ Near(h, job[h].data, job[h].before)
    /\ Req(h).kind = "set" => job[h].data.reality = Req(h).on
    /\ Rpf(h) => (Forward(h) \in job[h].data.rpf <=> Req(h).kind = "add")

\* Where h is in its work when nobody else is at work.
Phase(h) ==
    LET j == job[h] IN
    CASE j.at = "read" ->
           ~j.back /\ FileAgreesBut(IF Req(h).kind = "resync" THEN {Chain} ELSE {})
      [] j.at \in {"test", "replace"} ->
           Rpf(h) /\ ~j.back /\ Asked(h) /\ file = j.before /\ AgreesBut({}, j.before)
      [] j.at = "truncate" ->
           /\ Req(h).kind # "resync" /\ AgreesBut({}, j.before)
           /\ IF Rpf(h) THEN j.back /\ j.data = j.before /\ file # Torn /\ Near(h, file, j.before)
                        ELSE ~j.back /\ Asked(h) /\ file = j.before
      [] j.at = "dump" ->
           /\ Req(h).kind # "resync" /\ AgreesBut({}, j.before) /\ file = Torn
           /\ IF Rpf(h) THEN j.back /\ j.data = j.before ELSE Asked(h)
      [] j.at = "restart" ->
           /\ Req(h).kind # "resync" /\ file = j.data
           /\ IF Rpf(h) /\ ~j.back THEN Asked(h) /\ AgreesBut({}, j.before)
                                   ELSE AgreesBut({Live}, file)
      [] j.at = "compare" ->
           /\ Req(h).kind \in {"redir", "unredir"} /\ file = j.data
           /\ Asked(h) /\ AgreesBut({}, j.before)
      [] j.at = "save" ->
           Req(h).kind = "set" /\ file = j.data /\ Asked(h) /\ AgreesBut({}, j.before)
      [] j.at = "port" ->
           /\ Req(h).kind = "set" /\ file = j.data /\ file.reality = Req(h).on
           /\ AgreesBut({Live, Https}, file)
      [] j.at = "sync" ->
           IF Rpf(h) THEN /\ ~j.back /\ file = j.data /\ file # Torn
                          /\ Forward(h) \in file.rpf <=> Req(h).kind = "add"
                          /\ AgreesBut({Chain, Forward(h)}, file)
           ELSE /\ Req(h).kind = "resync"
                /\ file # Torn => j.data = file /\ AgreesBut({Chain}, file)
      [] j.at = "open" ->
           /\ Rpf(h) /\ file = j.data /\ file # Torn
           /\ Forward(h) \in file.rpf <=> Req(h).kind = "add"
           /\ AgreesBut({Forward(h)}, file)
      [] OTHER -> FALSE

\* Requests that overlap set everything apart; one that is served alone is in its
\* phase; between requests the file is what everything agrees with.
AgreeInv ==
    /\ \A h \in Handlers : job[h] # Idle =>
         IF job[h].alone THEN Phase(h) /\ \A g \in Handlers \ {h} : job[g] = Idle
                         ELSE Things \subseteq apart
    /\ AtRest => FileAgreesBut({})

Records == [at : Steps, req : Requests, data : Docs \cup {None}, before : Docs \cup {None},
            alone : BOOLEAN, back : BOOLEAN]

\* What may be out of line once h has changed the file.
Touched(h) ==
    IF Rpf(h) THEN {Live, Chain, Forward(h)}
    ELSE IF Req(h).kind = "set" THEN {Live, Account, Https} ELSE {Live}

\* The names of the things differ.
LEMMA Labels ==
  ASSUME RequestsOK
  PROVE  /\ Live \notin Forwards /\ Chain \notin Forwards
         /\ Account \notin Forwards /\ Https \notin Forwards
         /\ Live # Chain /\ Live # Account /\ Live # Https
         /\ Chain # Account /\ Chain # Https /\ Account # Https
<1>1. ASSUME NEW f \in Forwards PROVE f[1] \in Users
  <2>1. PICK r \in {q \in Requests : q.user # None} : f = <<r.user, r.port>>
    BY <1>1 DEF Forwards
  <2>2. r.user \in Users
    BY <2>1 DEF RequestsOK
  <2>3. QED
    BY <2>1, <2>2
<1>2. /\ Live[1] \notin Users /\ Chain[1] \notin Users
      /\ Account[1] \notin Users /\ Https[1] \notin Users
  BY DEF RequestsOK, Live, Chain, Account, Https
<1>3. /\ Live # Chain /\ Live # Account /\ Live # Https
      /\ Chain # Account /\ Chain # Https /\ Account # Https
  BY DEF Live, Chain, Account, Https
<1>4. QED
  BY <1>1, <1>2, <1>3

\* Somebody at work.
LEMMA Busy ==
  ASSUME RequestsOK, FitInv, NEW h \in Handlers, job[h] # Idle
  PROVE  /\ job[h] \in Records /\ job[h].at \in Steps /\ Req(h) \in Requests
         /\ Req(h).kind \in {"add", "del", "redir", "unredir", "set", "resync"}
         /\ Req(h).kind \notin {"set", "resync"} => Forward(h) \in Forwards
<1>1. job[h] \in Records
  BY DEF FitInv, JobsOK, Records
<1>2. Req(h) \in Requests /\ job[h].at \in Steps
  BY <1>1 DEF Req, Records
<1>3. /\ Req(h).kind \in {"add", "del", "redir", "unredir", "set", "resync"}
      /\ Req(h).kind \notin {"set", "resync"} => Req(h).user # None
  BY <1>2 DEF RequestsOK
<1>4. QED
  BY <1>1, <1>2, <1>3 DEF Forward, Forwards

\* Nobody idle is at a step.
LEMMA AtIsBusy ==
  ASSUME NEW h \in Handlers, job[h].at \in Steps
  PROVE  job[h] # Idle
  BY DEF Idle, Steps

LEMMA GotoIs ==
  ASSUME job \in [Handlers -> Records \cup {Idle}], NEW h \in Handlers, job[h] \in Records,
         NEW s \in Steps, Goto(h, s)
  PROVE  /\ job'[h] # Idle /\ job'[h].at = s /\ job'[h].req = job[h].req
         /\ job'[h].data = job[h].data /\ job'[h].before = job[h].before
         /\ job'[h].alone = job[h].alone /\ job'[h].back = job[h].back
         /\ \A g \in Handlers \ {h} : job'[g] = job[g]
<1> DEFINE j == [job[h] EXCEPT !.at = s]
<1>1. job' = [job EXCEPT ![h] = j]
  BY DEF Goto
<1>2. /\ j.at = s /\ j.req = job[h].req /\ j.data = job[h].data /\ j.before = job[h].before
      /\ j.alone = job[h].alone /\ j.back = job[h].back
  BY DEF Records
<1> HIDE DEF j
<1>3. job'[h] = j /\ \A g \in Handlers \ {h} : job'[g] = job[g]
  BY <1>1
<1>4. j # Idle
  BY <1>2 DEF Idle, Steps
<1>5. QED
  BY <1>2, <1>3, <1>4

LEMMA EndIs ==
  ASSUME job \in [Handlers -> Records \cup {Idle}], NEW h \in Handlers, End(h)
  PROVE  job'[h] = Idle /\ \A g \in Handlers \ {h} : job'[g] = job[g]
  BY DEF End

\* A request that overlaps others leaves everything apart; of one served alone it
\* is enough to know its next phase, or that all agrees in the end.
LEMMA OwnStepAgrees ==
  ASSUME AgreeInv, NEW h \in Handlers, job[h] # Idle,
         \A g \in Handlers \ {h} : /\ job'[g] = Idle <=> job[g] = Idle
                                   /\ job'[g].alone = job[g].alone,
         job'[h] # Idle => job'[h].alone = job[h].alone,
         ~job[h].alone => apart \subseteq apart',
         job[h].alone /\ job'[h] = Idle => FileAgreesBut({})',
         job[h].alone /\ job'[h] # Idle => Phase(h)'
  PROVE  AgreeInv'
<1>1. CASE job[h].alone
  <2>1. \A g \in Handlers \ {h} : job'[g] = Idle
    BY <1>1 DEF AgreeInv
  <2>2. QED
    BY <1>1, <2>1 DEF AgreeInv, AtRest
<1>2. CASE ~job[h].alone
  <2>1. Things \subseteq apart'
    BY <1>2 DEF AgreeInv
  <2>2. FileAgreesBut({})'
    BY <2>1 DEF FileAgreesBut, AgreesBut, Things
  <2>3. ASSUME NEW g \in Handlers \ {h}, job[g] # Idle PROVE ~job[g].alone
    BY <2>3 DEF AgreeInv
  <2>4. QED
    BY <1>2, <2>1, <2>2, <2>3 DEF AgreeInv
<1>3. QED
  BY <1>1, <1>2

\* What agrees with the old text agrees with the new one, but for what the request
\* is still to bring in line.
LEMMA NearAgrees ==
  ASSUME RequestsOK, NEW h \in Handlers, NEW e, NEW d, Near(h, e, d), AgreesBut({}, d),
         Req(h).kind \in {"add", "del", "redir", "unredir", "set"}
  PROVE  AgreesBut(Touched(h), e)
<1>1. CASE Rpf(h)
  <2>1. /\ e.reality = d.reality /\ Touched(h) = {Live, Chain, Forward(h)}
        /\ \A f \in Forwards : f # Forward(h) => (f \in e.rpf <=> f \in d.rpf)
    BY <1>1 DEF Near, Touched, Rpf
  <2>2. QED
    BY <2>1 DEF AgreesBut
<1>2. CASE ~Rpf(h) /\ Req(h).kind = "set"
  <2>1. e.rpf = d.rpf /\ Touched(h) = {Live, Account, Https}
    BY <1>2 DEF Near, Touched
  <2>2. QED
    BY <2>1 DEF AgreesBut, _render_xray_rpf_bypass
<1>3. CASE ~Rpf(h) /\ Req(h).kind # "set"
  <2>1. e.rpf = d.rpf /\ e.reality = d.reality /\ Touched(h) = {Live}
    BY <1>3 DEF Near, Touched
  <2>2. QED
    BY <2>1 DEF AgreesBut, _render_xray_rpf_bypass
<1>4. QED
  BY <1>1, <1>2, <1>3

LEMMA MadeIsAsked ==
  ASSUME RequestsOK, NEW h \in Handlers, Req(h) \in Requests, Req(h).kind # "resync",
         file \in Docs
  PROVE  /\ Near(h, Made(h), file)
         /\ Req(h).kind = "set" => Made(h).reality = Req(h).on
         /\ Rpf(h) => (Forward(h) \in Made(h).rpf <=> Req(h).kind = "add")
<1> DEFINE r == Req(h)
           f == Forward(h)
<1>1. r.kind \in {"add", "del", "redir", "unredir", "set"}
  BY DEF RequestsOK
<1>2. CASE r.kind = "add"
  <2>1. Made(h) = [file EXCEPT !.rpf = @ \cup {f}, !.clients = @ \cup {f[1]}] /\ Rpf(h)
    BY <1>2 DEF Made, _xray_rpf_set, Rpf
  <2>2. Made(h).rpf = file.rpf \cup {f} /\ Made(h).reality = file.reality
    BY <2>1 DEF Docs
  <2>3. QED
    BY <1>2, <2>1, <2>2 DEF Near
<1>3. CASE r.kind = "del"
  <2>1. Made(h) = _xray_rpf_remove(file, f) /\ Rpf(h)
    BY <1>3 DEF Made, Rpf
  <2>2. Made(h).rpf = file.rpf \ {f} /\ Made(h).reality = file.reality
    BY <2>1 DEF Docs, _xray_rpf_remove
  <2>3. QED
    BY <1>3, <2>1, <2>2 DEF Near
<1>4. CASE r.kind \in {"redir", "unredir"}
  <2>1. Made(h) \in {xray_add_port(file, f), xray_del_port(file, f)} /\ ~Rpf(h)
    BY <1>4 DEF Made, Rpf
  <2>2. Made(h).rpf = file.rpf /\ Made(h).reality = file.reality
    BY <2>1 DEF Docs, xray_add_port, xray_del_port
  <2>3. QED
    BY <1>4, <2>1, <2>2 DEF Near
<1>5. CASE r.kind = "set"
  <2>1. Made(h) = [file EXCEPT !.reality = r.on] /\ ~Rpf(h)
    BY <1>5 DEF Made, Rpf
  <2>2. Made(h).rpf = file.rpf /\ Made(h).reality = r.on
    BY <2>1 DEF Docs
  <2>3. QED
    BY <1>5, <2>1, <2>2 DEF Near
<1>6. QED
  BY <1>1, <1>2, <1>3, <1>4, <1>5

----------------------------------------------------------------------------
(* Every step keeps the agreement *)

\* What is known of a request at its step.
LEMMA AtStep ==
  ASSUME RequestsOK, FitInv, AgreeInv, NEW h \in Handlers, job[h].at \in Steps
  PROVE  /\ job[h] # Idle /\ job[h] \in Records /\ Req(h) \in Requests
         /\ job \in [Handlers -> Records \cup {Idle}]
         /\ Req(h).kind \in {"add", "del", "redir", "unredir", "set", "resync"}
         /\ Req(h).kind \notin {"set", "resync"} => Forward(h) \in Forwards
         /\ job[h].alone => Phase(h)
         /\ job[h].at \in Writing => /\ job[h].data \in Docs /\ job[h].data # Torn
                                     /\ job[h].before \in Docs /\ job[h].before # Torn
         /\ file \in Docs \cup {Torn} /\ Torn \notin Docs
<1>1. job[h] # Idle
  BY AtIsBusy
<1>2. job[h].at \in Writing => job[h].data \in Docs /\ job[h].before \in Docs
  BY DEF FitInv, JobsOK, Fitting
<1>3. Torn \notin Docs /\ file \in Docs \cup {Torn}
  BY DEF RequestsOK, FitInv, Fitting
<1>4. job[h].alone => Phase(h)
  BY <1>1 DEF AgreeInv
<1>5. job \in [Handlers -> Records \cup {Idle}]
  BY DEF FitInv, JobsOK, Records
<1>6. QED
  BY <1>1, <1>2, <1>3, <1>4, <1>5, Busy

\* A step of a request that goes on, and one that ends it.
LEMMA GoesOn ==
  ASSUME RequestsOK, FitInv, AgreeInv, NEW h \in Handlers, job[h].at \in Steps,
         NEW s \in Steps, Goto(h, s),
         ~job[h].alone => apart \subseteq apart', job[h].alone => Phase(h)'
  PROVE  AgreeInv'
<1>1. /\ job[h] # Idle /\ job[h] \in Records /\ job \in [Handlers -> Records \cup {Idle}]
  BY AtStep
<1>2. /\ job'[h] # Idle /\ job'[h].alone = job[h].alone
      /\ \A g \in Handlers \ {h} : job'[g] = job[g]
  BY <1>1, GotoIs
<1>3. QED
  BY <1>1, <1>2, OwnStepAgrees

LEMMA Ends ==
  ASSUME RequestsOK, FitInv, AgreeInv, NEW h \in Handlers, job[h].at \in Steps,
         End(h),
         ~job[h].alone => apart \subseteq apart', job[h].alone => FileAgreesBut({})'
  PROVE  AgreeInv'
<1>1. /\ job[h] # Idle /\ job \in [Handlers -> Records \cup {Idle}]
  BY AtStep
<1>2. job'[h] = Idle /\ \A g \in Handlers \ {h} : job'[g] = job[g]
  BY <1>1, EndIs
<1>3. QED
  BY <1>1, <1>2, OwnStepAgrees

LEMMA BeginAgrees ==
  ASSUME RequestsOK, FitInv, AgreeInv, NEW h \in Handlers, NEW r \in Requests, Begin(h, r)
  PROVE  AgreeInv'
<1> DEFINE alone == \A g \in Handlers : job[g] = Idle
           j == [Idle EXCEPT !.at = "read", !.req = r, !.alone = alone]
<1>1. /\ job' = [g \in Handlers |-> IF g = h THEN j
                                    ELSE IF job[g] = Idle THEN Idle ELSE [job[g] EXCEPT !.alone = FALSE]]
      /\ apart' = IF alone THEN apart ELSE Things
      /\ chain' \in IF r.kind = "resync" THEN {chain, {}} ELSE {chain}
      /\ UNCHANGED <<file, live, open, account>>
  BY DEF Begin
<1>2. alone \in BOOLEAN
  OBVIOUS
<1>3. CASE alone
  <2> HIDE DEF alone
  <2>1. j.at = "read" /\ j.req = r /\ j.alone = alone /\ ~j.back
    BY <1>2 DEF Idle
  <2> HIDE DEF j
  <2>2. \A g \in Handlers \ {h} : job'[g] = Idle
    BY <1>1, <1>3 DEF alone
  <2>3. job'[h] = j /\ Req(h)' = r
    BY <1>1, <2>1 DEF Req
  <2>4. FileAgreesBut({})
    BY <1>3 DEF AgreeInv, AtRest, alone
  <2>5. FileAgreesBut(IF r.kind = "resync" THEN {Chain} ELSE {})'
    <3>1. CASE r.kind = "resync"
      BY <1>1, <1>3, <2>4, <3>1 DEF FileAgreesBut, AgreesBut
    <3>2. CASE r.kind # "resync"
      BY <1>1, <1>3, <2>4, <3>2 DEF FileAgreesBut, AgreesBut
    <3>3. QED
      BY <3>1, <3>2
  <2>6. Phase(h)'
    BY <2>1, <2>3, <2>5 DEF Phase
  <2>7. j # Idle
    BY <2>1 DEF Idle
  <2>8. QED
    BY <1>1, <1>3, <2>1, <2>2, <2>3, <2>6, <2>7 DEF AgreeInv, AtRest
<1>4. CASE ~alone
  <2>1. apart' = Things
    BY <1>1, <1>4
  <2>2. FileAgreesBut({})'
    BY <2>1 DEF FileAgreesBut, AgreesBut, Things
  <2>3. j.alone = FALSE
    BY <1>2, <1>4 DEF Idle
  <2> HIDE DEF j, alone
  <2>4. ASSUME NEW g \in Handlers, job'[g] # Idle PROVE job'[g].alone = FALSE
    <3>1. CASE g = h
      BY <1>1, <2>3, <3>1
    <3>2. CASE g # h
      <4>1. job[g] # Idle /\ job'[g] = [job[g] EXCEPT !.alone = FALSE]
        BY <1>1, <2>4, <3>2
      <4>2. job[g] \in Records
        BY <4>1, Busy
      <4>3. QED
        BY <4>1, <4>2 DEF Records
    <3>3. QED
      BY <3>1, <3>2
  <2>5. QED
    BY <2>1, <2>2, <2>4 DEF AgreeInv
<1>5. QED
  BY <1>3, <1>4

LEMMA ReadAgrees ==
  ASSUME RequestsOK, FitInv, AgreeInv, NEW h \in Handlers, Read(h)
  PROVE  AgreeInv'
<1>1. /\ job[h].at = "read" /\ "read" \in Steps /\ Req(h).kind # "resync"
      /\ UNCHANGED <<file, live, chain, open, account, apart>>
  BY DEF Read, At, Steps
<1>2. /\ job[h] # Idle /\ job[h] \in Records /\ job \in [Handlers -> Records \cup {Idle}]
      /\ file \in Docs \cup {Torn} /\ Req(h) \in Requests
      /\ Req(h).kind \in {"add", "del", "redir", "unredir", "set"}
  BY <1>1, AtStep
<1>3. job[h].alone => FileAgreesBut({}) /\ ~job[h].back
  BY <1>1, AtStep DEF Phase
<1>4. CASE Refused(h)
  <2>1. End(h)
    BY <1>4 DEF Read
  <2>2. QED
    BY <1>1, <1>2, <1>3, <2>1, Ends DEF FileAgreesBut, AgreesBut
<1>5. CASE ~Refused(h)
  <2>1. PICK s \in Steps :
          /\ job' = [job EXCEPT ![h].before = file, ![h].data = Made(h), ![h].at = s]
          /\ IF Rpf(h) THEN s = "test" \/ (s = "open" /\ Made(h) = file) ELSE s = "truncate"
    BY <1>5 DEF Read, Steps
  <2>2. file \in Docs /\ file # Torn
    BY <1>2, <1>5 DEF Refused
  <2> DEFINE j == [job[h] EXCEPT !.before = file, !.data = Made(h), !.at = s]
  <2>3. job' = [job EXCEPT ![h] = j]
    BY <1>2, <2>1
  <2>4. /\ j.at = s /\ j.before = file /\ j.data = Made(h) /\ j.req = job[h].req
        /\ j.alone = job[h].alone /\ j.back = job[h].back
    BY <1>2 DEF Records
  <2> HIDE DEF j
  <2>5. job'[h] = j /\ \A g \in Handlers \ {h} : job'[g] = job[g]
    BY <2>3, <1>2
  <2>6. Req(h)' = Req(h) /\ Forward(h)' = Forward(h) /\ (Rpf(h)' <=> Rpf(h))
    BY <2>4, <2>5 DEF Req, Forward, Rpf
  <2>7. j # Idle
    BY <2>4 DEF Idle, Steps
  <2>8. /\ Near(h, Made(h), file)
        /\ Req(h).kind = "set" => Made(h).reality = Req(h).on
        /\ Rpf(h) => (Forward(h) \in Made(h).rpf <=> Req(h).kind = "add")
    BY <1>1, <1>2, <2>2, MadeIsAsked
  <2>9. Asked(h)'
    BY <2>4, <2>5, <2>6, <2>8 DEF Asked, Near
  <2>10. job[h].alone => AgreesBut({}, file)' /\ ~job[h].back
    BY <1>1, <1>3, <2>2 DEF FileAgreesBut, AgreesBut
  <2>11. ASSUME job[h].alone PROVE Phase(h)'
    <3>1. CASE s = "test"
      BY <1>1, <2>1, <2>4, <2>5, <2>6, <2>9, <2>10, <2>11, <3>1 DEF Phase, AgreesBut
    <3>2. CASE s = "truncate"
      <4>1. ~Rpf(h)
        BY <2>1, <3>2
      <4>2. QED
        BY <1>1, <2>4, <2>5, <2>6, <2>9, <2>10, <2>11, <3>2, <4>1 DEF Phase, AgreesBut
    <3>3. CASE s = "open"
      <4>1. Rpf(h) /\ Made(h) = file
        BY <2>1, <3>3
      <4>2. AgreesBut({Forward(h)}, file)'
        BY <2>10, <2>11 DEF AgreesBut
      <4>3. QED
        BY <1>1, <2>2, <2>4, <2>5, <2>6, <2>8, <3>3, <4>1, <4>2 DEF Phase
    <3>4. QED
      BY <2>1, <3>1, <3>2, <3>3
  <2>12. QED
    BY <1>1, <1>2, <2>4, <2>5, <2>7, <2>11, OwnStepAgrees
<1>6. QED
  BY <1>4, <1>5

LEMMA ReadForChainAgrees ==
  ASSUME RequestsOK, FitInv, AgreeInv, NEW h \in Handlers, ReadForChain(h)
  PROVE  AgreeInv'
<1> DEFINE d == IF file = Torn THEN Shipped ELSE file
           j == [job[h] EXCEPT !.at = "sync", !.data = d]
<1>1. /\ job[h].at = "read" /\ "read" \in Steps /\ Req(h).kind = "resync"
      /\ job' = [job EXCEPT ![h].at = "sync", ![h].data = d]
      /\ UNCHANGED <<file, live, chain, open, account, apart>>
  BY DEF ReadForChain, At, Steps
<1>2. /\ job[h] # Idle /\ job[h] \in Records /\ job \in [Handlers -> Records \cup {Idle}]
  BY <1>1, AtStep
<1>3. job[h].alone => FileAgreesBut({Chain})
  BY <1>1, AtStep DEF Phase
<1>4. file # Torn => d = file
  OBVIOUS
<1> HIDE DEF d
<1>5. job' = [job EXCEPT ![h] = j]
  BY <1>1, <1>2
<1>6. j.at = "sync" /\ j.data = d /\ j.req = job[h].req /\ j.alone = job[h].alone
  BY <1>2 DEF Records
<1> HIDE DEF j
<1>7. job'[h] = j /\ \A g \in Handlers \ {h} : job'[g] = job[g]
  BY <1>2, <1>5
<1>8. Req(h)' = Req(h) /\ ~Rpf(h)' /\ j # Idle
  BY <1>1, <1>6, <1>7 DEF Req, Rpf, Idle
<1>9. job[h].alone => Phase(h)'
  BY <1>1, <1>3, <1>4, <1>6, <1>7, <1>8 DEF Phase, FileAgreesBut, AgreesBut
<1>10. QED
  BY <1>1, <1>2, <1>6, <1>7, <1>8, <1>9, OwnStepAgrees

\* A request that goes on is the same request, holding what it held.
LEMMA GoesOnSame ==
  ASSUME RequestsOK, FitInv, AgreeInv, NEW h \in Handlers, job[h].at \in Steps,
         NEW s \in Steps, Goto(h, s)
  PROVE  /\ job'[h].at = s /\ job'[h].data = job[h].data /\ job'[h].before = job[h].before
         /\ job'[h].back = job[h].back
         /\ Req(h)' = Req(h) /\ Forward(h)' = Forward(h) /\ (Rpf(h)' <=> Rpf(h))
         /\ Asked(h)' <=> Asked(h)
<1>1. /\ job'[h].at = s /\ job'[h].data = job[h].data /\ job'[h].before = job[h].before
      /\ job'[h].back = job[h].back /\ job'[h].req = job[h].req
  BY AtStep, GotoIs
<1>2. Req(h)' = Req(h) /\ Forward(h)' = Forward(h) /\ (Rpf(h)' <=> Rpf(h))
  BY <1>1 DEF Req, Forward, Rpf
<1>3. Asked(h)' <=> Asked(h)
  BY <1>1, <1>2 DEF Asked, Near
<1>4. QED
  BY <1>1, <1>2, <1>3

LEMMA TestAgrees ==
  ASSUME RequestsOK, FitInv, AgreeInv, NEW h \in Handlers, NEW valid \in BOOLEAN, Test(h, valid)
  PROVE  AgreeInv'
<1>1. /\ job[h].at = "test" /\ {"test", "replace"} \subseteq Steps
      /\ UNCHANGED <<file, live, chain, open, account, apart>>
  BY DEF Test, At, Steps
<1>2. /\ job[h].alone => /\ Rpf(h) /\ ~job[h].back /\ Asked(h) /\ file = job[h].before
                         /\ AgreesBut({}, job[h].before)
  BY <1>1, AtStep DEF Phase
<1>3. CASE valid
  <2>1. Goto(h, "replace")
    BY <1>3 DEF Test
  <2>2. job[h].alone => Phase(h)'
    BY <1>1, <1>2, <2>1, GoesOnSame DEF Phase, AgreesBut
  <2>3. QED
    BY <1>1, <1>2, <2>1, <2>2, GoesOn
<1>4. CASE ~valid
  <2>1. End(h)
    BY <1>4 DEF Test
  <2>2. QED
    BY <1>1, <1>2, <2>1, Ends DEF FileAgreesBut, AgreesBut
<1>5. QED
  BY <1>3, <1>4

LEMMA ReplaceAgrees ==
  ASSUME RequestsOK, FitInv, AgreeInv, NEW h \in Handlers, Replace(h)
  PROVE  AgreeInv'
<1> DEFINE j == [job[h] EXCEPT !.at = "restart"]
<1>1. /\ job[h].at = "replace" /\ "replace" \in Steps /\ file' = job[h].data
      /\ job' = [g \in Handlers |-> IF g = h THEN j
                                    ELSE IF At(g, "dump") THEN [job[g] EXCEPT !.at = "gone"]
                                    ELSE job[g]]
      /\ UNCHANGED <<live, chain, open, account, apart>>
  BY DEF Replace, At, Steps
<1>2. /\ job[h] # Idle /\ job[h] \in Records /\ job \in [Handlers -> Records \cup {Idle}]
      /\ Req(h).kind \in {"add", "del", "redir", "unredir", "set", "resync"}
      /\ job[h].alone => /\ Rpf(h) /\ ~job[h].back /\ Asked(h)
                         /\ AgreesBut({}, job[h].before)
  BY <1>1, AtStep DEF Phase
<1>3. /\ j.at = "restart" /\ j.data = job[h].data /\ j.before = job[h].before
      /\ j.req = job[h].req /\ j.alone = job[h].alone /\ j.back = job[h].back
  BY <1>2 DEF Records
<1> HIDE DEF j
<1>4. job'[h] = j /\ j # Idle
  BY <1>1, <1>3 DEF Idle
<1>5. ASSUME NEW g \in Handlers \ {h}
      PROVE  /\ job'[g] = Idle <=> job[g] = Idle
             /\ job'[g].alone = job[g].alone
  <2>1. CASE At(g, "dump")
    <3>1. job[g] \in Records /\ job[g] # Idle
      BY <1>2, <2>1 DEF At, Idle
    <3>2. job'[g] = [job[g] EXCEPT !.at = "gone"]
      BY <1>1, <2>1
    <3>3. job'[g].alone = job[g].alone /\ job'[g].at = "gone"
      BY <3>1, <3>2 DEF Records
    <3>4. QED
      BY <3>1, <3>3 DEF Idle
  <2>2. CASE ~At(g, "dump")
    BY <1>1, <2>2
  <2>3. QED
    BY <2>1, <2>2
<1>6. Req(h)' = Req(h) /\ Forward(h)' = Forward(h) /\ (Rpf(h)' <=> Rpf(h))
  BY <1>3, <1>4 DEF Req, Forward, Rpf
<1>7. Asked(h)' <=> Asked(h)
  BY <1>3, <1>4, <1>6 DEF Asked, Near
<1>8. job[h].alone => Phase(h)'
  <2>1. SUFFICES ASSUME job[h].alone PROVE Phase(h)'
    OBVIOUS
  <2>2. Req(h).kind # "resync"
    BY <1>2, <2>1 DEF Rpf
  <2>3. QED
    BY <1>1, <1>2, <1>3, <1>4, <1>6, <1>7, <2>1, <2>2 DEF Phase, AgreesBut
<1>9. QED
  BY <1>1, <1>2, <1>3, <1>4, <1>5, <1>8, OwnStepAgrees

LEMMA TruncateAgrees ==
  ASSUME RequestsOK, FitInv, AgreeInv, NEW h \in Handlers, Truncate(h)
  PROVE  AgreeInv'
<1>1. /\ job[h].at = "truncate" /\ {"truncate", "dump"} \subseteq Steps
      /\ file' = Torn /\ Goto(h, "dump")
      /\ UNCHANGED <<live, chain, open, account, apart>>
  BY DEF Truncate, At, Steps
<1>2. /\ job[h].alone => /\ Req(h).kind # "resync" /\ AgreesBut({}, job[h].before)
                         /\ IF Rpf(h) THEN job[h].back /\ job[h].data = job[h].before
                                      ELSE Asked(h)
  BY <1>1, AtStep DEF Phase
<1>3. job[h].alone => Phase(h)'
  BY <1>1, <1>2, GoesOnSame DEF Phase, AgreesBut
<1>4. QED
  BY <1>1, <1>2, <1>3, GoesOn

LEMMA DumpAgrees ==
  ASSUME RequestsOK, FitInv, AgreeInv, NEW h \in Handlers, Dump(h)
  PROVE  AgreeInv'
<1> DEFINE s == IF Rpf(h) THEN "restart" ELSE IF Req(h).kind = "set" THEN "save" ELSE "compare"
<1>1. /\ job[h].at \in {"dump", "gone"} /\ job[h].at \in Steps /\ s \in Steps /\ Goto(h, s)
      /\ UNCHANGED <<live, chain, open, account, apart>>
  BY DEF Dump, AfterDump, At, Steps
<1>2. /\ Req(h).kind \in {"add", "del", "redir", "unredir", "set", "resync"}
      /\ job[h].alone =>
           /\ job[h].at = "dump" /\ file = Torn
           /\ Req(h).kind # "resync" /\ AgreesBut({}, job[h].before)
           /\ IF Rpf(h) THEN job[h].back /\ job[h].data = job[h].before ELSE Asked(h)
  BY <1>1, AtStep DEF Phase
<1>3. ASSUME job[h].alone PROVE Phase(h)'
  <2>1. \A g \in Handlers \ {h} : job[g] = Idle
    BY <1>1, <1>3, AtIsBusy DEF AgreeInv
  <2>2. \A g \in Handlers \ {h} : ~At(g, "dump")
    BY <2>1 DEF At, Idle
  <2>3. file' = job[h].data
    BY <1>2, <1>3, <2>2 DEF Dump, At
  <2>4. CASE Rpf(h)
    <3>1. AgreesBut({Live}, job[h].before)
      BY <1>2, <1>3 DEF AgreesBut
    <3>2. QED
      BY <1>1, <1>2, <1>3, <2>3, <2>4, <3>1, GoesOnSame DEF Phase, AgreesBut
  <2>5. CASE ~Rpf(h)
    <3>1. Req(h).kind \in {"redir", "unredir", "set"}
      BY <1>2, <1>3, <2>5 DEF Rpf
    <3>2. QED
      BY <1>1, <1>2, <1>3, <2>3, <2>5, <3>1, GoesOnSame DEF Phase, AgreesBut
  <2>6. QED
    BY <2>4, <2>5
<1>4. QED
  BY <1>1, <1>2, <1>3, GoesOn

LEMMA CompareAgrees ==
  ASSUME RequestsOK, FitInv, AgreeInv, NEW h \in Handlers, Compare(h)
  PROVE  AgreeInv'
<1>1. /\ job[h].at = "compare" /\ {"compare", "restart"} \subseteq Steps
      /\ UNCHANGED <<file, live, chain, open, account, apart>>
      /\ Goto(h, "restart") \/ (file = job[h].before /\ End(h))
  BY DEF Compare, At, Steps
<1>2. /\ job[h].alone => /\ Req(h).kind \in {"redir", "unredir"} /\ file = job[h].data
                         /\ Asked(h) /\ AgreesBut({}, job[h].before)
  BY <1>1, AtStep DEF Phase
<1>3. CASE Goto(h, "restart")
  <2>1. ASSUME job[h].alone PROVE Phase(h)'
    <3>1. ~Rpf(h) /\ Touched(h) = {Live}
      BY <1>2, <2>1 DEF Rpf, Touched
    <3>2. AgreesBut({Live}, file)
      BY <1>2, <2>1, <3>1, NearAgrees DEF Asked
    <3>3. QED
      BY <1>1, <1>2, <1>3, <2>1, <3>1, <3>2, GoesOnSame DEF Phase, AgreesBut
  <2>2. QED
    BY <1>1, <1>2, <1>3, <2>1, GoesOn
<1>4. CASE file = job[h].before /\ End(h)
  BY <1>1, <1>2, <1>4, Ends DEF FileAgreesBut, AgreesBut
<1>5. QED
  BY <1>1, <1>3, <1>4

LEMMA JoinedGrows ==
  ASSUME NEW h \in Handlers, NEW T, Joined(h, T)
  PROVE  ~job[h].alone => apart \subseteq apart'
  BY DEF Joined

LEMMA SaveAgrees ==
  ASSUME RequestsOK, FitInv, AgreeInv, NEW h \in Handlers, Save(h)
  PROVE  AgreeInv'
<1>1. /\ job[h].at = "save" /\ {"save", "port"} \subseteq Steps
      /\ UNCHANGED <<file, live, chain, open>>
      /\ account' = job[h].data.reality /\ Joined(h, {Account})
      /\ IF job[h].data = job[h].before THEN End(h) ELSE Goto(h, "port")
  BY DEF Save, At, Steps
<1>2. /\ job[h].alone => /\ Req(h).kind = "set" /\ file = job[h].data
                         /\ Asked(h) /\ AgreesBut({}, job[h].before)
  BY <1>1, AtStep DEF Phase
<1>3. ~job[h].alone => apart \subseteq apart'
  BY <1>1, <1>2, JoinedGrows
<1>4. job[h].alone => apart' = apart \ {Account}
  BY <1>1 DEF Joined
<1>5. CASE job[h].data = job[h].before
  <2>1. End(h)
    BY <1>1, <1>5
  <2>2. job[h].alone => FileAgreesBut({})'
    BY <1>1, <1>2, <1>4, <1>5, Labels DEF FileAgreesBut, AgreesBut
  <2>3. QED
    BY <1>1, <1>3, <2>1, <2>2, Ends
<1>6. CASE job[h].data # job[h].before
  <2>1. Goto(h, "port")
    BY <1>1, <1>6
  <2>2. ASSUME job[h].alone PROVE Phase(h)'
    <3>1. Touched(h) = {Live, Account, Https}
      BY <1>2, <2>2 DEF Touched, Rpf
    <3>2. AgreesBut({Live, Account, Https}, file)
      BY <1>2, <2>2, <3>1, NearAgrees DEF Asked
    <3>3. AgreesBut({Live, Https}, file)'
      BY <1>1, <1>2, <1>4, <2>2, <3>2, Labels DEF AgreesBut
    <3>4. file.reality = Req(h).on
      BY <1>2, <2>2 DEF Asked
    <3>5. QED
      BY <1>1, <1>2, <2>1, <2>2, <3>3, <3>4, GoesOnSame DEF Phase
  <2>3. QED
    BY <1>1, <1>3, <2>1, <2>2, GoesOn
<1>7. QED
  BY <1>5, <1>6

LEMMA RealityPortAgrees ==
  ASSUME RequestsOK, FitInv, AgreeInv, NEW h \in Handlers, RealityPort(h)
  PROVE  AgreeInv'
<1>1. /\ job[h].at = "port" /\ {"port", "restart"} \subseteq Steps
      /\ UNCHANGED <<file, live, chain, account>>
      /\ open' = IF Req(h).on THEN open \cup {Https} ELSE open \ {Https}
      /\ Joined(h, {Https}) /\ Goto(h, "restart")
  BY DEF RealityPort, At, Steps
<1>2. /\ job[h].alone => /\ Req(h).kind = "set" /\ file = job[h].data
                         /\ file.reality = Req(h).on /\ AgreesBut({Live, Https}, file)
  BY <1>1, AtStep DEF Phase
<1>3. ~job[h].alone => apart \subseteq apart'
  BY <1>1, <1>2, JoinedGrows
<1>4. ASSUME job[h].alone PROVE Phase(h)'
  <2>1. apart' = apart \ {Https}
    BY <1>1, <1>4 DEF Joined
  <2>2. AgreesBut({Live}, file)'
    BY <1>1, <1>2, <1>4, <2>1, Labels DEF AgreesBut
  <2>3. ~Rpf(h)
    BY <1>2, <1>4 DEF Rpf
  <2>4. QED
    BY <1>1, <1>2, <1>4, <2>2, <2>3, GoesOnSame DEF Phase
<1>5. QED
  BY <1>1, <1>3, <1>4, GoesOn

LEMMA RestartAgrees ==
  ASSUME RequestsOK, FitInv, AgreeInv, NEW h \in Handlers, Restart(h)
  PROVE  AgreeInv'
<1>1. /\ job[h].at = "restart" /\ {"restart", "sync"} \subseteq Steps
      /\ UNCHANGED <<file, chain, open, account>>
      /\ IF file # Torn THEN live' = file /\ Joined(h, {Live}) ELSE UNCHANGED <<live, apart>>
      /\ IF Rpf(h) /\ ~job[h].back THEN Goto(h, "sync") ELSE End(h)
  BY DEF Restart, At, Steps
<1>2. /\ job[h].data # Torn
      /\ job[h].alone =>
           /\ Req(h).kind # "resync" /\ file = job[h].data
           /\ IF Rpf(h) /\ ~job[h].back THEN Asked(h) /\ AgreesBut({}, job[h].before)
                                        ELSE AgreesBut({Live}, file)
  BY <1>1, AtStep DEF Phase, Writing
<1>3. ~job[h].alone => apart \subseteq apart'
  BY <1>1, <1>2, JoinedGrows
<1>4. job[h].alone => file # Torn /\ live' = file /\ apart' = apart \ {Live}
  BY <1>1, <1>2 DEF Joined
<1>5. CASE Rpf(h) /\ ~job[h].back
  <2>1. Goto(h, "sync")
    BY <1>1, <1>5
  <2>2. ASSUME job[h].alone PROVE Phase(h)'
    <3>1. Touched(h) = {Live, Chain, Forward(h)} /\ Req(h).kind \in {"add", "del"}
      BY <1>5 DEF Touched, Rpf
    <3>2. AgreesBut({Live, Chain, Forward(h)}, file)
      BY <1>2, <1>5, <2>2, <3>1, NearAgrees DEF Asked
    <3>3. AgreesBut({Chain, Forward(h)}, file)'
      <4>1. Forward(h)' = Forward(h)
        BY <1>1, <2>1, GoesOnSame
      <4>2. QED
        BY <1>1, <1>4, <2>2, <3>2, <4>1, Labels DEF AgreesBut
    <3>4. Forward(h) \in file.rpf <=> Req(h).kind = "add"
      BY <1>2, <1>5, <2>2 DEF Asked
    <3>5. QED
      BY <1>1, <1>2, <1>4, <1>5, <2>1, <2>2, <3>3, <3>4, GoesOnSame DEF Phase
  <2>3. QED
    BY <1>1, <1>3, <2>1, <2>2, GoesOn
<1>6. CASE ~(Rpf(h) /\ ~job[h].back)
  <2>1. End(h)
    BY <1>1, <1>6
  <2>2. job[h].alone => FileAgreesBut({})'
    BY <1>1, <1>2, <1>4, <1>6, Labels DEF FileAgreesBut, AgreesBut
  <2>3. QED
    BY <1>1, <1>3, <2>1, <2>2, Ends
<1>7. QED
  BY <1>5, <1>6

LEMMA RestartFailsAgrees ==
  ASSUME RequestsOK, FitInv, AgreeInv, NEW h \in Handlers, RestartFails(h)
  PROVE  AgreeInv'
<1>1. /\ job[h].at = "restart" /\ "restart" \in Steps
      /\ UNCHANGED <<file, live, chain, open, account>>
  BY DEF RestartFails, At, Steps
<1>2. /\ job[h].data # Torn /\ job[h].before \in Docs
      /\ job[h] # Idle /\ job[h] \in Records /\ job \in [Handlers -> Records \cup {Idle}]
      /\ job[h].alone =>
           /\ Req(h).kind # "resync" /\ file = job[h].data
           /\ IF Rpf(h) /\ ~job[h].back THEN Asked(h) /\ AgreesBut({}, job[h].before)
                                        ELSE AgreesBut({Live}, file)
  BY <1>1, AtStep DEF Phase, Writing
<1>3. CASE Rpf(h) /\ ~job[h].back
  <2> DEFINE j == [job[h] EXCEPT !.at = "truncate", !.data = job[h].before, !.back = TRUE]
  <2>1. /\ job' = [job EXCEPT ![h].at = "truncate", ![h].data = job[h].before, ![h].back = TRUE]
        /\ UNCHANGED apart
    BY <1>3 DEF RestartFails
  <2>2. job' = [job EXCEPT ![h] = j]
    BY <1>2, <2>1
  <2>3. /\ j.at = "truncate" /\ j.data = job[h].before /\ j.before = job[h].before
        /\ j.req = job[h].req /\ j.alone = job[h].alone /\ j.back
    BY <1>2 DEF Records
  <2> HIDE DEF j
  <2>4. job'[h] = j /\ j # Idle /\ \A g \in Handlers \ {h} : job'[g] = job[g]
    BY <1>2, <2>2, <2>3 DEF Idle
  <2>5. Req(h)' = Req(h) /\ Forward(h)' = Forward(h) /\ (Rpf(h)' <=> Rpf(h))
    BY <2>3, <2>4 DEF Req, Forward, Rpf
  <2>6. ASSUME job[h].alone PROVE Phase(h)'
    <3>1. Near(h, file, job[h].before) /\ AgreesBut({}, job[h].before) /\ file # Torn
      BY <1>2, <1>3, <2>6 DEF Asked
    <3>2. Near(h, file, job[h].before)'
      BY <1>1, <2>3, <2>4, <2>5, <3>1 DEF Near
    <3>3. AgreesBut({}, job[h].before)'
      BY <1>1, <2>1, <2>3, <2>4, <3>1 DEF AgreesBut
    <3>4. QED
      BY <1>1, <1>2, <1>3, <2>3, <2>4, <2>5, <2>6, <3>1, <3>2, <3>3 DEF Phase
  <2>7. QED
    BY <1>2, <2>1, <2>3, <2>4, <2>6, OwnStepAgrees
<1>4. CASE ~(Rpf(h) /\ ~job[h].back)
  <2>1. End(h) /\ apart' = apart \cup {Live}
    BY <1>4 DEF RestartFails
  <2>2. job[h].alone => FileAgreesBut({})'
    BY <1>1, <1>2, <1>4, <2>1 DEF FileAgreesBut, AgreesBut
  <2>3. QED
    BY <1>1, <2>1, <2>2, Ends
<1>5. QED
  BY <1>3, <1>4

LEMMA SyncAgrees ==
  ASSUME RequestsOK, FitInv, AgreeInv, NEW h \in Handlers, NEW refused \in BOOLEAN,
         Sync(h, refused)
  PROVE  AgreeInv'
<1>1. /\ job[h].at = "sync" /\ {"sync", "open"} \subseteq Steps
      /\ UNCHANGED <<file, live, open, account>>
      /\ IF refused THEN apart' = apart \cup {Chain} /\ UNCHANGED chain
         ELSE chain' = _render_xray_rpf_bypass(job[h].data) /\ Joined(h, {Chain})
      /\ IF Rpf(h) THEN Goto(h, "open") ELSE End(h)
  BY DEF Sync, At, Steps
<1>2. /\ job[h].alone =>
           IF Rpf(h) THEN /\ ~job[h].back /\ file = job[h].data /\ file # Torn
                          /\ Forward(h) \in file.rpf <=> Req(h).kind = "add"
                          /\ AgreesBut({Chain, Forward(h)}, file)
                     ELSE file # Torn => job[h].data = file /\ AgreesBut({Chain}, file)
  BY <1>1, AtStep DEF Phase
<1>3. ~job[h].alone => apart \subseteq apart'
  BY <1>1, JoinedGrows
<1>4. job[h].alone => \/ apart' = apart \cup {Chain} /\ chain' = chain
                      \/ apart' = apart \ {Chain} /\ chain' = _render_xray_rpf_bypass(job[h].data)
  BY <1>1 DEF Joined
<1>5. CASE Rpf(h)
  <2>1. Goto(h, "open")
    BY <1>1, <1>5
  <2>2. ASSUME job[h].alone PROVE Phase(h)'
    <3>1. Forward(h)' = Forward(h)
      BY <1>1, <2>1, GoesOnSame
    <3>2. AgreesBut({Chain, Forward(h)}, file) /\ file = job[h].data
      BY <1>2, <1>5, <2>2
    <3>3. AgreesBut({Forward(h)}, file)'
      BY <1>1, <1>4, <2>2, <3>1, <3>2, Labels DEF AgreesBut
    <3>4. QED
      BY <1>1, <1>2, <1>5, <2>1, <2>2, <3>3, GoesOnSame DEF Phase
  <2>3. QED
    BY <1>1, <1>3, <2>1, <2>2, GoesOn
<1>6. CASE ~Rpf(h)
  <2>1. End(h)
    BY <1>1, <1>6
  <2>2. job[h].alone => FileAgreesBut({})'
    BY <1>1, <1>2, <1>4, <1>6, Labels DEF FileAgreesBut, AgreesBut
  <2>3. QED
    BY <1>1, <1>3, <2>1, <2>2, Ends
<1>7. QED
  BY <1>5, <1>6

LEMMA OpenAgrees ==
  ASSUME RequestsOK, FitInv, AgreeInv, NEW h \in Handlers, Open(h)
  PROVE  AgreeInv'
<1>1. /\ job[h].at = "open" /\ "open" \in Steps
      /\ UNCHANGED <<file, live, chain, account>>
      /\ open' = IF Req(h).kind = "add" THEN open \cup {Forward(h)} ELSE open \ {Forward(h)}
      /\ Joined(h, {Forward(h)}) /\ End(h)
  BY DEF Open, At, Steps
<1>2. /\ Req(h).kind \notin {"set", "resync"} => Forward(h) \in Forwards
      /\ job[h].alone => /\ Rpf(h) /\ AgreesBut({Forward(h)}, file)
                         /\ Forward(h) \in file.rpf <=> Req(h).kind = "add"
  BY <1>1, AtStep DEF Phase
<1>3. ~job[h].alone => apart \subseteq apart'
  BY <1>1, <1>2, JoinedGrows
<1>4. ASSUME job[h].alone PROVE FileAgreesBut({})'
  <2>1. apart' = apart \ {Forward(h)} /\ Forward(h) \in Forwards
    BY <1>1, <1>2, <1>4 DEF Joined, Rpf
  <2>2. AgreesBut({}, file)'
    BY <1>1, <1>2, <1>4, <2>1, Labels DEF AgreesBut
  <2>3. QED
    BY <2>2 DEF FileAgreesBut
<1>5. QED
  BY <1>1, <1>3, <1>4, Ends

\* Where a request that is served alone may be cut off, what it leaves out of line
\* is what it would have brought in line.
LEMMA LeftIsEnough ==
  ASSUME RequestsOK, FitInv, AgreeInv, NEW h \in Handlers, job[h].at \in Steps, job[h].alone
  PROVE  FileAgreesBut(Left(h))
<1>1. /\ Phase(h) /\ Req(h).kind \in {"add", "del", "redir", "unredir", "set", "resync"}
  BY AtStep
<1>2. CASE job[h].at = "read"
  BY <1>1, <1>2 DEF Phase, Left, At, FileAgreesBut, AgreesBut
<1>3. CASE job[h].at \in {"test", "replace"}
  <2>1. Req(h).kind # "resync" /\ AgreesBut({}, file)
    BY <1>1, <1>3 DEF Phase, Rpf
  <2>2. QED
    BY <1>3, <2>1 DEF Left, At, FileAgreesBut, AgreesBut
<1>4. CASE job[h].at = "truncate"
  <2>1. Req(h).kind # "resync" /\ AgreesBut({}, job[h].before)
    BY <1>1, <1>4 DEF Phase
  <2>2. CASE Rpf(h)
    <3>1. job[h].back /\ Near(h, file, job[h].before)
      BY <1>1, <1>4, <2>2 DEF Phase
    <3>2. AgreesBut(Touched(h), file)
      BY <1>1, <2>1, <3>1, NearAgrees
    <3>3. Left(h) = Touched(h)
      BY <1>4, <2>1, <2>2, <3>1 DEF Left, At, Touched
    <3>4. QED
      BY <3>2, <3>3 DEF FileAgreesBut
  <2>3. CASE ~Rpf(h)
    <3>1. ~job[h].back /\ file = job[h].before
      BY <1>1, <1>4, <2>3 DEF Phase
    <3>2. Left(h) = {}
      BY <1>4, <2>1, <3>1 DEF Left, At
    <3>3. QED
      BY <2>1, <3>1, <3>2 DEF FileAgreesBut
  <2>4. QED
    BY <2>2, <2>3
<1>5. CASE job[h].at = "dump"
  BY <1>1, <1>5 DEF Phase, FileAgreesBut
<1>6. CASE job[h].at = "restart"
  <2>1. Req(h).kind # "resync" /\ file = job[h].data
    BY <1>1, <1>6 DEF Phase
  <2>2. CASE Rpf(h) /\ ~job[h].back
    <3>1. Near(h, file, job[h].before) /\ AgreesBut({}, job[h].before)
      BY <1>1, <1>6, <2>1, <2>2 DEF Phase, Asked
    <3>2. AgreesBut(Touched(h), file)
      BY <1>1, <2>1, <3>1, NearAgrees
    <3>3. Left(h) = Touched(h)
      BY <1>6, <2>1, <2>2 DEF Left, At, Touched
    <3>4. QED
      BY <3>2, <3>3 DEF FileAgreesBut
  <2>3. CASE ~(Rpf(h) /\ ~job[h].back)
    <3>1. AgreesBut({Live}, file)
      BY <1>1, <1>6, <2>3 DEF Phase
    <3>2. Left(h) = {Live}
      BY <1>6, <2>1, <2>3 DEF Left, At
    <3>3. QED
      BY <3>1, <3>2 DEF FileAgreesBut
  <2>4. QED
    BY <2>2, <2>3
<1>7. CASE job[h].at \in {"compare", "save"}
  <2>1. /\ Req(h).kind \in {"redir", "unredir", "set"} /\ ~Rpf(h)
        /\ job[h].at = "save" <=> Req(h).kind = "set"
        /\ Near(h, file, job[h].before) /\ AgreesBut({}, job[h].before)
    BY <1>1, <1>7 DEF Phase, Asked, Rpf
  <2>2. AgreesBut(Touched(h), file)
    BY <1>1, <2>1, NearAgrees
  <2>3. Left(h) = Touched(h)
    BY <1>7, <2>1 DEF Left, At, Touched
  <2>4. QED
    BY <2>2, <2>3 DEF FileAgreesBut
<1>8. CASE job[h].at = "port"
  BY <1>1, <1>8 DEF Phase, Left, At, FileAgreesBut
<1>9. CASE job[h].at = "sync"
  <2>1. CASE Rpf(h)
    <3>1. AgreesBut({Chain, Forward(h)}, file) /\ Req(h).kind # "resync"
      BY <1>1, <1>9, <2>1 DEF Phase, Rpf
    <3>2. Left(h) = {Chain, Forward(h)}
      BY <1>9, <3>1 DEF Left, At
    <3>3. QED
      BY <3>1, <3>2 DEF FileAgreesBut
  <2>2. CASE ~Rpf(h)
    BY <1>1, <1>9, <2>2 DEF Phase, Left, FileAgreesBut
  <2>3. QED
    BY <2>1, <2>2
<1>10. CASE job[h].at = "open"
  <2>1. AgreesBut({Forward(h)}, file) /\ Req(h).kind # "resync"
    BY <1>1, <1>10 DEF Phase, Rpf
  <2>2. Left(h) = {Forward(h)}
    BY <1>10, <2>1 DEF Left, At
  <2>3. QED
    BY <2>1, <2>2 DEF FileAgreesBut
<1>11. CASE job[h].at = "gone"
  BY <1>1, <1>11 DEF Phase
<1>12. QED
  BY <1>2, <1>3, <1>4, <1>5, <1>6, <1>7, <1>8, <1>9, <1>10, <1>11 DEF Steps

LEMMA CutOffAgrees ==
  ASSUME RequestsOK, FitInv, AgreeInv, NEW h \in Handlers, CutOff(h)
  PROVE  AgreeInv'
<1>1. /\ job[h] # Idle /\ apart' = apart \cup Left(h) /\ End(h)
      /\ UNCHANGED <<file, live, chain, open, account>>
  BY DEF CutOff
<1>2. job[h].at \in Steps
  BY <1>1, Busy
<1>3. job[h].alone => FileAgreesBut({})'
  BY <1>1, <1>2, LeftIsEnough DEF FileAgreesBut, AgreesBut
<1>4. QED
  BY <1>1, <1>2, <1>3, Ends

LEMMA InitAgrees == Init => AgreeInv
<1> SUFFICES ASSUME Init PROVE AgreeInv
  OBVIOUS
<1>1. /\ \A h \in Handlers : job[h] = Idle
      /\ file = Shipped /\ live = Shipped /\ chain = {} /\ open = {} /\ account = FALSE
  BY DEF Init
<1>2. _render_xray_rpf_bypass(Shipped) = {} /\ Shipped.rpf = {} /\ Shipped.reality = FALSE
  BY DEF Shipped, _render_xray_rpf_bypass
<1>3. AgreesBut({}, file)
  BY <1>1, <1>2 DEF AgreesBut
<1>4. QED
  BY <1>1, <1>3 DEF AgreeInv, FileAgreesBut

LEMMA NextAgrees ==
  ASSUME RequestsOK
  PROVE  FitInv /\ AgreeInv /\ [Next]_vars => AgreeInv'
<1> SUFFICES ASSUME FitInv, AgreeInv, [Next]_vars PROVE AgreeInv'
  OBVIOUS
<1>1. ASSUME NEW h \in Handlers, NEW r \in Requests, Begin(h, r) PROVE AgreeInv'
  BY <1>1, BeginAgrees
<1>2. ASSUME NEW h \in Handlers,
             Read(h) \/ ReadForChain(h) \/ Replace(h) \/ Truncate(h) \/ Dump(h) \/ Compare(h)
      PROVE  AgreeInv'
  BY <1>2, ReadAgrees, ReadForChainAgrees, ReplaceAgrees, TruncateAgrees, DumpAgrees,
     CompareAgrees
<1>3. ASSUME NEW h \in Handlers,
             \/ Save(h) \/ RealityPort(h) \/ Restart(h) \/ RestartFails(h) \/ Open(h) \/ CutOff(h)
      PROVE  AgreeInv'
  BY <1>3, SaveAgrees, RealityPortAgrees, RestartAgrees, RestartFailsAgrees, OpenAgrees,
     CutOffAgrees
<1>4. ASSUME NEW h \in Handlers, NEW b \in BOOLEAN, Test(h, b) \/ Sync(h, b) PROVE AgreeInv'
  BY <1>4, TestAgrees, SyncAgrees
<1>5. CASE UNCHANGED vars
  <2>1. UNCHANGED <<file, live, chain, open, account, job, apart>>
    BY <1>5 DEF vars
  <2>2. FileAgreesBut({})' <=> FileAgreesBut({})
    BY <2>1 DEF FileAgreesBut, AgreesBut
  <2>3. ASSUME NEW h \in Handlers PROVE Phase(h)' <=> Phase(h)
    BY <2>1 DEF Phase, FileAgreesBut, AgreesBut, Asked, Near, Rpf, Req, Forward
  <2>4. QED
    BY <2>1, <2>2, <2>3 DEF AgreeInv, AtRest
<1>6. QED
  BY <1>1, <1>2, <1>3, <1>4, <1>5 DEF Next

----------------------------------------------------------------------------
(* The types of XRay's state *)

\* Only a forward's request is put back, opens a port or goes on to the chain.
KindFits(j) ==
    /\ j.at = "open" \/ j.back => j.req.kind \in {"add", "del"}
    /\ j.at = "sync" => j.req.kind \in {"add", "del", "resync"} /\ j.data \in Docs

KindsFit == \A h \in Handlers : KindFits(job[h])

StateTypes ==
    /\ \A p \in chain : \E f \in Forwards : f[2] = p
    /\ open \in SUBSET (Forwards \cup {Https})
    /\ account \in BOOLEAN
    /\ apart \in SUBSET Things
    /\ requests \in 0..MaxRequests
    /\ faults \in 0..MaxFaults

XrayTypes == FitInv /\ KindsFit /\ StateTypes

LEMMA IdleFits == KindFits(Idle)
  BY DEF KindFits, Idle

\* One request's record changes.
LEMMA OneKind ==
  ASSUME KindsFit, NEW h \in Handlers, KindFits(job'[h]), \A g \in Handlers \ {h} : job'[g] = job[g]
  PROVE  KindsFit'
  BY DEF KindsFit, KindFits

LEMMA GotoKinds ==
  ASSUME FitInv, KindsFit, NEW h \in Handlers, job[h].at \in Steps, NEW s \in Steps, Goto(h, s),
         s = "open" => Rpf(h), s = "sync" => Rpf(h) /\ job[h].data \in Docs
  PROVE  KindsFit'
<1>1. job \in [Handlers -> Records \cup {Idle}] /\ job[h] \in Records
  BY DEF FitInv, JobsOK, Records, Idle, Steps
<1>2. /\ job'[h].at = s /\ job'[h].req = job[h].req /\ job'[h].data = job[h].data
      /\ job'[h].back = job[h].back
      /\ \A g \in Handlers \ {h} : job'[g] = job[g]
  BY <1>1, GotoIs
<1>3. KindFits(job[h])
  BY DEF KindsFit
<1>4. KindFits(job'[h])
  BY <1>2, <1>3 DEF KindFits, Rpf, Req
<1>5. QED
  BY <1>2, <1>4, OneKind

LEMMA EndKinds ==
  ASSUME FitInv, KindsFit, NEW h \in Handlers, End(h)
  PROVE  KindsFit'
<1>1. job \in [Handlers -> Records \cup {Idle}]
  BY DEF FitInv, JobsOK, Records
<1>2. QED
  BY <1>1, EndIs, IdleFits, OneKind

LEMMA FaultTypes ==
  ASSUME RequestsOK, StateTypes, Fault
  PROVE  faults' \in 0..MaxFaults
  BY DEF RequestsOK, StateTypes, Fault

\* What is no port's is no user's.
LEMMA RenderTypes ==
  ASSUME NEW d \in Docs
  PROVE  \A p \in _render_xray_rpf_bypass(d) : \E f \in Forwards : f[2] = p
<1>1. d.rpf \subseteq Forwards
  BY DEF Docs
<1>2. QED
  BY <1>1 DEF _render_xray_rpf_bypass

LEMMA BeginTypes ==
  ASSUME RequestsOK, XrayTypes, NEW h \in Handlers, NEW r \in Requests, Begin(h, r)
  PROVE  KindsFit' /\ StateTypes'
<1> DEFINE alone == \A g \in Handlers : job[g] = Idle
           j == [Idle EXCEPT !.at = "read", !.req = r, !.alone = alone]
<1>1. job' = [g \in Handlers |-> IF g = h THEN j
                                 ELSE IF job[g] = Idle THEN Idle ELSE [job[g] EXCEPT !.alone = FALSE]]
  BY DEF Begin
<1>2. apart' = apart \/ apart' = Things
  BY DEF Begin
<1> HIDE DEF alone
<1>3. KindFits(j)
  BY DEF KindFits, Idle
<1> HIDE DEF j
<1>4. ASSUME NEW g \in Handlers, job[g] # Idle PROVE KindFits([job[g] EXCEPT !.alone = FALSE])
  <2>1. job[g] \in Records /\ KindFits(job[g])
    BY <1>4 DEF XrayTypes, FitInv, JobsOK, Records, KindsFit
  <2> DEFINE k == [job[g] EXCEPT !.alone = FALSE]
  <2>2. k.at = job[g].at /\ k.back = job[g].back /\ k.req = job[g].req /\ k.data = job[g].data
    BY <2>1 DEF Records
  <2> HIDE DEF k
  <2>3. KindFits(k)
    BY <2>1, <2>2 DEF KindFits
  <2>4. QED
    BY <2>3 DEF k
<1>5. ASSUME NEW g \in Handlers PROVE KindFits(job'[g])
  BY <1>1, <1>3, <1>4, IdleFits
<1>6. KindsFit'
  BY <1>5 DEF KindsFit, KindFits
<1>7. chain' \in {chain, {}} /\ UNCHANGED <<open, account, faults>>
  BY DEF Begin
<1>8. requests' \in 0..MaxRequests
  <2>1. requests < MaxRequests /\ requests' = requests + 1
    BY DEF Begin
  <2>2. requests \in 0..MaxRequests /\ MaxRequests \in Nat
    BY DEF XrayTypes, StateTypes, RequestsOK
  <2>3. QED
    BY <2>1, <2>2
<1>9. QED
  BY <1>2, <1>6, <1>7, <1>8 DEF XrayTypes, StateTypes

LEMMA ReadTypes ==
  ASSUME RequestsOK, XrayTypes, NEW h \in Handlers, Read(h)
  PROVE  KindsFit' /\ StateTypes'
<1>1. UNCHANGED <<chain, open, account, apart, requests, faults>> /\ At(h, "read") /\ Req(h).kind # "resync"
  BY DEF Read
<1>2. StateTypes'
  BY <1>1 DEF XrayTypes, StateTypes
<1>3. CASE Refused(h)
  BY <1>2, <1>3, EndKinds DEF Read, XrayTypes
<1>4. CASE ~Refused(h)
  <2>1. job[h] \in Records /\ job \in [Handlers -> Records \cup {Idle}] /\ KindFits(job[h])
    BY <1>1 DEF XrayTypes, FitInv, JobsOK, Records, At, Idle, KindsFit
  <2>2. PICK s \in {"truncate", "test", "open"} :
           /\ s = "open" => Rpf(h)
           /\ job' = [job EXCEPT ![h].before = file, ![h].data = Made(h), ![h].at = s]
    BY <1>4 DEF Read
  <2> DEFINE j == [job[h] EXCEPT !.before = file, !.data = Made(h), !.at = s]
  <2>3. job' = [job EXCEPT ![h] = j]
    BY <2>1, <2>2
  <2>4. j.at = s /\ j.req = job[h].req /\ j.back = job[h].back
    BY <2>1 DEF Records
  <2> HIDE DEF j
  <2>5. KindFits(j)
    BY <2>1, <2>2, <2>4 DEF KindFits, Rpf, Req
  <2>6. job'[h] = j /\ \A g \in Handlers \ {h} : job'[g] = job[g]
    BY <2>1, <2>3
  <2>7. QED
    BY <1>2, <2>5, <2>6, OneKind DEF XrayTypes
<1>5. QED
  BY <1>3, <1>4

LEMMA ReadForChainTypes ==
  ASSUME RequestsOK, XrayTypes, NEW h \in Handlers, ReadForChain(h)
  PROVE  KindsFit' /\ StateTypes'
<1> DEFINE d == IF file = Torn THEN Shipped ELSE file
           j == [job[h] EXCEPT !.at = "sync", !.data = d]
<1>1. /\ UNCHANGED <<chain, open, account, apart, requests, faults>> /\ At(h, "read")
      /\ Req(h).kind = "resync" /\ job' = [job EXCEPT ![h].at = "sync", ![h].data = d]
  BY DEF ReadForChain
<1>2. StateTypes'
  BY <1>1 DEF XrayTypes, StateTypes
<1>3. job[h] \in Records /\ job \in [Handlers -> Records \cup {Idle}] /\ KindFits(job[h])
  BY <1>1 DEF XrayTypes, FitInv, JobsOK, Records, At, Idle, KindsFit
<1>4. d \in Docs
  BY ShippedFits DEF XrayTypes, FitInv, Fitting
<1> HIDE DEF d
<1>5. job' = [job EXCEPT ![h] = j]
  BY <1>1, <1>3
<1>6. j.at = "sync" /\ j.data = d /\ j.req = job[h].req /\ j.back = job[h].back
  BY <1>3 DEF Records
<1> HIDE DEF j
<1>7. KindFits(j)
  BY <1>1, <1>3, <1>4, <1>6 DEF KindFits, Req
<1>8. job'[h] = j /\ \A g \in Handlers \ {h} : job'[g] = job[g]
  BY <1>3, <1>5
<1>9. QED
  BY <1>2, <1>7, <1>8, OneKind DEF XrayTypes

LEMMA ReplaceTypes ==
  ASSUME RequestsOK, XrayTypes, NEW h \in Handlers, Replace(h)
  PROVE  KindsFit' /\ StateTypes'
<1>1. UNCHANGED <<chain, open, account, apart, requests, faults>> /\ At(h, "replace")
  BY DEF Replace
<1>2. StateTypes'
  BY <1>1 DEF XrayTypes, StateTypes
<1>3. job' = [g \in Handlers |-> IF g = h THEN [job[h] EXCEPT !.at = "restart"]
                                 ELSE IF At(g, "dump") THEN [job[g] EXCEPT !.at = "gone"]
                                 ELSE job[g]]
  BY DEF Replace
<1>4. ASSUME NEW g \in Handlers, job[g].at \in {"replace", "dump"}, NEW s \in {"restart", "gone"}
      PROVE  KindFits([job[g] EXCEPT !.at = s])
  <2>1. job[g] \in Records /\ KindFits(job[g])
    BY <1>4 DEF XrayTypes, FitInv, JobsOK, Records, Idle, KindsFit
  <2> DEFINE k == [job[g] EXCEPT !.at = s]
  <2>2. k.at = s /\ k.back = job[g].back /\ k.req = job[g].req
    BY <2>1 DEF Records
  <2> HIDE DEF k
  <2>3. KindFits(k)
    BY <2>1, <2>2 DEF KindFits
  <2>4. QED
    BY <2>3 DEF k
<1>5. ASSUME NEW g \in Handlers PROVE KindFits(job'[g])
  BY <1>1, <1>3, <1>4 DEF At, XrayTypes, KindsFit
<1>6. QED
  BY <1>2, <1>5 DEF KindsFit, KindFits

\* The steps that only write the file, or test it.
LEMMA FileStepTypes ==
  ASSUME RequestsOK, XrayTypes, NEW h \in Handlers, NEW valid \in BOOLEAN,
         Test(h, valid) \/ Truncate(h) \/ Dump(h) \/ Compare(h)
  PROVE  KindsFit' /\ StateTypes'
<1>1. UNCHANGED <<chain, open, account, apart, requests, faults>> /\ job[h].at \in Steps
  BY DEF Test, Truncate, Dump, Compare, At, Steps
<1>2. StateTypes'
  BY <1>1 DEF XrayTypes, StateTypes
<1>3. End(h) \/ \E s \in Steps \ {"open", "sync"} : Goto(h, s)
  BY DEF Test, Truncate, Dump, Compare, AfterDump, Steps
<1>4. KindsFit'
  BY <1>1, <1>3, EndKinds, GotoKinds DEF XrayTypes
<1>5. QED
  BY <1>2, <1>4

LEMMA JoinedTypes ==
  ASSUME StateTypes, NEW h \in Handlers, NEW T, Joined(h, T)
  PROVE  apart' \in SUBSET Things
  BY DEF StateTypes, Joined

LEMMA SaveTypes ==
  ASSUME RequestsOK, XrayTypes, NEW h \in Handlers, Save(h)
  PROVE  KindsFit' /\ StateTypes'
<1>1. /\ UNCHANGED <<chain, open, requests, faults>> /\ job[h].at = "save" /\ Joined(h, {Account})
      /\ account' = job[h].data.reality
  BY DEF Save, At
<1>2. job[h].data \in Docs
  BY <1>1 DEF XrayTypes, FitInv, JobsOK, Writing, Fitting
<1>3. account' \in BOOLEAN
  BY <1>1, <1>2 DEF Docs
<1>4. StateTypes'
  BY <1>1, <1>3, JoinedTypes DEF XrayTypes, StateTypes
<1>5. End(h) \/ Goto(h, "port")
  BY DEF Save
<1>6. KindsFit'
  BY <1>1, <1>5, EndKinds, GotoKinds DEF XrayTypes, Steps
<1>7. QED
  BY <1>4, <1>6

LEMMA RealityPortTypes ==
  ASSUME RequestsOK, XrayTypes, NEW h \in Handlers, RealityPort(h)
  PROVE  KindsFit' /\ StateTypes'
<1>1. /\ UNCHANGED <<chain, account, requests, faults>> /\ job[h].at = "port" /\ Joined(h, {Https})
      /\ Goto(h, "restart") /\ open' \subseteq open \cup {Https}
  BY DEF RealityPort, At
<1>2. KindsFit'
  BY <1>1, GotoKinds DEF XrayTypes, Steps
<1>3. QED
  BY <1>1, <1>2, JoinedTypes DEF XrayTypes, StateTypes

LEMMA RestartTypes ==
  ASSUME RequestsOK, XrayTypes, NEW h \in Handlers, Restart(h)
  PROVE  KindsFit' /\ StateTypes'
<1>1. /\ UNCHANGED <<chain, open, account, requests, faults>> /\ job[h].at = "restart"
      /\ Joined(h, {Live}) \/ apart' = apart
  BY DEF Restart, At
<1>2. End(h) \/ (Rpf(h) /\ Goto(h, "sync"))
  BY DEF Restart
<1>3. job[h].data \in Docs
  BY <1>1 DEF XrayTypes, FitInv, JobsOK, Writing, Fitting
<1>4. KindsFit'
  BY <1>1, <1>2, <1>3, EndKinds, GotoKinds DEF XrayTypes, Steps
<1>5. QED
  BY <1>1, <1>4, JoinedTypes DEF XrayTypes, StateTypes

LEMMA RestartFailsTypes ==
  ASSUME RequestsOK, XrayTypes, NEW h \in Handlers, RestartFails(h)
  PROVE  KindsFit' /\ StateTypes'
<1>1. /\ UNCHANGED <<chain, open, account, requests>> /\ job[h].at = "restart" /\ Fault
      /\ apart' \subseteq apart \cup {Live}
  BY DEF RestartFails, At
<1>2. StateTypes'
  BY <1>1, FaultTypes DEF XrayTypes, StateTypes, Things
<1>3. CASE End(h)
  BY <1>2, <1>3, EndKinds DEF XrayTypes
<1>4. CASE ~End(h)
  <2>1. /\ Rpf(h)
        /\ job' = [job EXCEPT ![h].at = "truncate", ![h].data = job[h].before, ![h].back = TRUE]
    BY <1>4 DEF RestartFails
  <2> DEFINE j == [job[h] EXCEPT !.at = "truncate", !.data = job[h].before, !.back = TRUE]
  <2>2. job[h] \in Records /\ job \in [Handlers -> Records \cup {Idle}]
    BY <1>1 DEF XrayTypes, FitInv, JobsOK, Records, Idle
  <2>3. job' = [job EXCEPT ![h] = j]
    BY <2>1, <2>2
  <2>4. j.at = "truncate" /\ j.req = job[h].req
    BY <2>2 DEF Records
  <2> HIDE DEF j
  <2>5. KindFits(j)
    BY <2>1, <2>4 DEF KindFits, Rpf, Req
  <2>6. job'[h] = j /\ \A g \in Handlers \ {h} : job'[g] = job[g]
    BY <2>2, <2>3
  <2>7. QED
    BY <1>2, <2>5, <2>6, OneKind DEF XrayTypes
<1>5. QED
  BY <1>3, <1>4

LEMMA SyncTypes ==
  ASSUME RequestsOK, XrayTypes, NEW h \in Handlers, NEW refused \in BOOLEAN, Sync(h, refused)
  PROVE  KindsFit' /\ StateTypes'
<1>1. UNCHANGED <<open, account, requests>> /\ job[h].at = "sync"
  BY DEF Sync, At
<1>2. KindFits(job[h])
  BY DEF XrayTypes, KindsFit
<1>3. job[h].data \in Docs
  BY <1>1, <1>2 DEF KindFits
<1>4. chain' = chain \/ chain' = _render_xray_rpf_bypass(job[h].data)
  BY DEF Sync
<1>5. \A p \in chain' : \E f \in Forwards : f[2] = p
  BY <1>3, <1>4, RenderTypes DEF XrayTypes, StateTypes
<1>6. apart' = apart \cup {Chain} \/ Joined(h, {Chain})
  BY DEF Sync
<1>7. apart' \in SUBSET Things
  BY <1>6, JoinedTypes DEF XrayTypes, StateTypes, Things
<1>8. faults' \in 0..MaxFaults
  BY FaultTypes DEF Sync, XrayTypes, StateTypes
<1>9. StateTypes'
  BY <1>1, <1>5, <1>7, <1>8 DEF XrayTypes, StateTypes
<1>10. End(h) \/ (Rpf(h) /\ Goto(h, "open"))
  BY DEF Sync
<1>11. KindsFit'
  BY <1>1, <1>10, EndKinds, GotoKinds DEF XrayTypes, Steps
<1>12. QED
  BY <1>9, <1>11

LEMMA OpenTypes ==
  ASSUME RequestsOK, XrayTypes, NEW h \in Handlers, Open(h)
  PROVE  KindsFit' /\ StateTypes'
<1>1. /\ UNCHANGED <<chain, account, requests, faults>> /\ job[h].at = "open" /\ job[h] # Idle
      /\ Joined(h, {Forward(h)}) /\ End(h) /\ open' \subseteq open \cup {Forward(h)}
  BY DEF Open, At, Idle
<1>2. Req(h).kind \in {"add", "del"}
  BY <1>1 DEF XrayTypes, KindsFit, KindFits, Req
<1>3. Forward(h) \in Forwards
  BY <1>1, <1>2, Busy DEF XrayTypes
<1>4. QED
  BY <1>1, <1>3, EndKinds, JoinedTypes DEF XrayTypes, StateTypes

LEMMA CutOffTypes ==
  ASSUME RequestsOK, XrayTypes, NEW h \in Handlers, CutOff(h)
  PROVE  KindsFit' /\ StateTypes'
<1>1. /\ UNCHANGED <<chain, open, account, requests>> /\ job[h] # Idle /\ Fault /\ End(h)
      /\ apart' = apart \cup Left(h)
  BY DEF CutOff
<1>2. KindFits(job[h])
  BY DEF XrayTypes, KindsFit
<1>3. Rpf(h) => Forward(h) \in Forwards
  BY <1>1, Busy DEF XrayTypes, Rpf
<1>4. Req(h).kind # "resync" /\ (job[h].at \in {"open", "sync"} \/ job[h].back) => Rpf(h)
  BY <1>2 DEF KindFits, Rpf, Req
<1>5. Left(h) \subseteq {Live, Chain, Account, Https}
        \cup (IF Req(h).kind # "resync" /\ (job[h].at \in {"open", "sync"} \/ job[h].back \/ Rpf(h))
              THEN {Forward(h)} ELSE {})
  BY DEF Left, At
<1>6. Left(h) \subseteq Things
  BY <1>3, <1>4, <1>5 DEF Things
<1>7. StateTypes'
  BY <1>1, <1>6, FaultTypes DEF XrayTypes, StateTypes
<1>8. QED
  BY <1>1, <1>7, EndKinds DEF XrayTypes

LEMMA InitXray == RequestsOK /\ Init => XrayTypes
<1> SUFFICES ASSUME RequestsOK, Init PROVE XrayTypes
  OBVIOUS
<1>1. KindsFit
  BY IdleFits DEF Init, KindsFit
<1>2. StateTypes
  <2>1. chain = {} /\ open = {} /\ account = FALSE /\ apart = {} /\ requests = 0 /\ faults = 0
    BY DEF Init
  <2>2. MaxRequests \in Nat /\ MaxFaults \in Nat
    BY DEF RequestsOK
  <2>3. account \in BOOLEAN
    BY <2>1
  <2>4. QED
    BY <2>1, <2>2, <2>3 DEF StateTypes
<1>3. QED
  BY <1>1, <1>2, InitFits DEF XrayTypes

LEMMA NextXray ==
  ASSUME RequestsOK
  PROVE  XrayTypes /\ [Next]_vars => XrayTypes'
<1> SUFFICES ASSUME XrayTypes, [Next]_vars PROVE KindsFit' /\ StateTypes'
  BY NextFits DEF XrayTypes
<1>1. ASSUME NEW h \in Handlers, NEW r \in Requests, Begin(h, r) PROVE KindsFit' /\ StateTypes'
  BY <1>1, BeginTypes
<1>2. ASSUME NEW h \in Handlers, Read(h) \/ ReadForChain(h) \/ Replace(h)
      PROVE  KindsFit' /\ StateTypes'
  BY <1>2, ReadTypes, ReadForChainTypes, ReplaceTypes
<1>3. ASSUME NEW h \in Handlers, NEW b \in BOOLEAN, Test(h, b) PROVE KindsFit' /\ StateTypes'
  BY <1>3, FileStepTypes
<1>4. ASSUME NEW h \in Handlers, Truncate(h) \/ Dump(h) \/ Compare(h)
      PROVE  KindsFit' /\ StateTypes'
  BY <1>4, FileStepTypes
<1>5. ASSUME NEW h \in Handlers, Save(h) \/ RealityPort(h) \/ Restart(h) \/ RestartFails(h)
      PROVE  KindsFit' /\ StateTypes'
  BY <1>5, SaveTypes, RealityPortTypes, RestartTypes, RestartFailsTypes
<1>6. ASSUME NEW h \in Handlers, NEW b \in BOOLEAN, Sync(h, b) PROVE KindsFit' /\ StateTypes'
  BY <1>6, SyncTypes
<1>7. ASSUME NEW h \in Handlers, Open(h) \/ CutOff(h) PROVE KindsFit' /\ StateTypes'
  BY <1>7, OpenTypes, CutOffTypes
<1>8. CASE UNCHANGED vars
  BY <1>8 DEF vars, XrayTypes, StateTypes, KindsFit, KindFits
<1>9. QED
  BY <1>1, <1>2, <1>3, <1>4, <1>5, <1>6, <1>7, <1>8 DEF Next

LEMMA XrayTypesShow ==
  ASSUME XrayTypes
  PROVE  TypeOK
<1>1. Fitting \subseteq Docs
  BY DEF Fitting
<1>2. file \in Docs \cup {Torn} /\ live \in Docs
  BY <1>1 DEF XrayTypes, FitInv
<1>3. QED
  BY <1>2 DEF XrayTypes, FitInv, JobsOK, StateTypes, TypeOK

----------------------------------------------------------------------------
(* The theorems *)

\* Whatever overlaps, fails, is cut off or put back, no two users forward the same
\* port, and the reverse channel's listener knows exactly those who forward one.
THEOREM ForwardsStayFit == Spec => []ForwardsFit
<1>1. FitInv => ForwardsFit
  BY DEF FitInv, Fitting, Fits, ForwardsFit
<1>2. FitInv /\ [Next]_vars => FitInv'
  BY NextFits, RequestsAssumption
<1>3. QED
  BY InitFits, <1>1, <1>2, PTL DEF Spec

\* Between requests XRay runs its file, and the chain, the open ports and the record
\* say what the file says, but for what a request that was cut off, failed or
\* overlapped another has left: an error answer leaves no trace.
THEOREM AgreementIsKept == Spec => []XrayAgrees
<1>1. AgreeInv => XrayAgrees
  BY RequestsAssumption, Labels
     DEF AgreeInv, XrayAgrees, AtRest, FileAgreesBut, AgreesBut
<1>2. FitInv /\ AgreeInv /\ [Next]_vars => FitInv' /\ AgreeInv'
  BY NextFits, NextAgrees, RequestsAssumption
<1>3. QED
  BY InitFits, InitAgrees, <1>1, <1>2, PTL DEF Spec

----------------------------------------------------------------------------
(* ServiceConfig: the plans *)

Dos == {"read", "write", "compare", "restart", "open_if_changed", "open", "move", "save", "tell"}

Restarts(p) == \E i \in 1..Len(C!Plan) : C!Plan[i] = C!Restart(p)

\* Every handler reads before it writes a file that a restart depends on.
First == IF service = "dsvpn" THEN 2 ELSE IF service = "softethervpn" THEN 3 ELSE 1

\* What follows a step.
Follows(i) ==
    /\ C!Plan[i] \in [do : Dos, part : C!Parts]
    /\ C!Plan[i].do = "read" => C!Plan[i] = C!Read(C!Plan[i].part) /\ i <= 6
    /\ C!Plan[i].do = "read" /\ C!Plan[i].part = "conf" => i = 1 /\ i <= First
    /\ i = First /\ i < Len(C!Plan) => C!Plan[i].do = "read"
    /\ C!Plan[i].do = "write" /\ Restarts(C!Plan[i].part) =>
         i > First /\ i < Len(C!Plan) /\ C!Plan[i + 1] = C!Compare(C!Plan[i].part)
    /\ C!Plan[i].do = "compare" =>
         /\ i < Len(C!Plan) /\ C!Plan[i] = C!Compare(C!Plan[i].part)
         /\ C!Plan[i + 1] = C!Restart(C!Plan[i].part) \/ (C!Plan[i + 1] = C!Move /\ C!Plan[i].part = "conf")
    /\ C!Plan[i].do = "move" =>
         service = "mqvpn" /\ i = 4 /\ i < Len(C!Plan) /\ C!Plan[i] = C!Move
         /\ C!Plan[i + 1] = C!Restart("conf")
    /\ C!Plan[i].do = "restart" => C!Plan[i] = C!Restart(C!Plan[i].part)
                                 /\ (service = "glorytun" => C!Plan[i].part # "key")
                                 /\ (service = "dsvpn" => C!Plan[i].part = "key")
    /\ C!Plan[i].do = "tell" => service = "softethervpn"

LEMMA PlanShape ==
  ASSUME service \in C!Services
  PROVE  /\ Len(C!Plan) \in Nat /\ Len(C!Plan) > 2 /\ DOMAIN C!Plan = 1..Len(C!Plan)
         /\ \A i \in 1..Len(C!Plan) : Follows(i)
<1> USE DEF C!Read, C!Write, C!Compare, C!Restart, C!OpenIfChanged, C!Open, C!Move, C!Save,
            C!Tell, Dos, C!Parts, First,
            Restarts, Follows
<1>1. CASE service = "shadowsocks" \/ service = "shadowsocks_go"
  <2>1. C!Plan = <<C!Read("conf"), C!Save("conf"), C!Write("conf"), C!Compare("conf"), C!Restart("conf"),
                 C!OpenIfChanged>>
    BY <1>1 DEF C!Plan, C!shadowsocks, C!shadowsocks_go
  <2>2. QED
    BY <1>1, <2>1
<1>2. CASE service = "openvpn" \/ service = "wireguard"
  <2>1. C!Plan = <<C!Read("conf"), C!Write("conf"), C!Compare("conf"), C!Restart("conf"), C!OpenIfChanged>>
    BY <1>2 DEF C!Plan, C!openvpn, C!wireguard
  <2>2. QED
    BY <1>2, <2>1
<1>3. CASE service = "mlvpn"
  <2>1. C!Plan = <<C!Read("conf"), C!Write("conf"), C!Compare("conf"), C!Restart("conf")>>
    BY <1>3 DEF C!Plan, C!mlvpn
  <2>2. QED
    BY <1>3, <2>1
<1>4. CASE service = "mqvpn"
  <2>1. C!Plan = <<C!Read("conf"), C!Write("conf"), C!Compare("conf"), C!Move, C!Restart("conf")>>
    BY <1>4 DEF C!Plan, C!mqvpn_set_config
  <2>2. QED
    BY <1>4, <2>1
<1>5. CASE service = "glorytun"
  <2>1. C!Plan = <<C!Read("conf"), C!Write("key"), C!Write("conf"), C!Compare("conf"), C!Restart("conf"),
                 C!Read("udp"), C!Write("udp"), C!Compare("udp"), C!Restart("udp"), C!Open>>
    BY <1>5 DEF C!Plan, C!glorytun
  <2>2. QED
    BY <1>5, <2>1
<1>6. CASE service = "dsvpn"
  <2>1. C!Plan = <<C!Write("conf"), C!Read("key"), C!Write("key"), C!Compare("key"), C!Restart("key"), C!Open>>
    BY <1>6 DEF C!Plan, C!dsvpn
  <2>2. QED
    BY <1>6, <2>1
<1>7. CASE service = "softethervpn"
  <2>1. C!Plan = <<C!Tell("conf"), C!Tell("key"), C!Save("key")>>
    BY <1>7 DEF C!Plan, C!softethervpn
  <2>2. QED
    BY <1>7, <2>1
<1>8. QED
  BY <1>1, <1>2, <1>3, <1>4, <1>5, <1>6, <1>7 DEF C!Services

----------------------------------------------------------------------------
(* ServiceConfig: types *)

Works(h) == task[h] # C!Idle

Jobs == [at : Nat, want : C!Docs \cup {None}, before : C!Docs \cup {None, Torn}, old : ServicePorts \cup {None},
         changed : BOOLEAN]

JobFits(j) ==
    /\ j.at \in 1..Len(C!Plan) /\ j.want \in C!Docs
    /\ j.at > First => j.before # None

TypeInv ==
    /\ C!TypeOK
    /\ task \in [Handlers -> Jobs]
    /\ \A h \in Handlers : Works(h) => JobFits(task[h])

LEMMA IdleIs ==
  /\ C!Idle \in Jobs /\ C!Idle.at = 0 /\ C!Idle.changed = FALSE
  BY DEF C!Idle, Jobs

LEMMA BusyIs ==
  ASSUME TypeInv, NEW h \in Handlers
  PROVE  /\ task[h] \in Jobs /\ task[h].at \in Nat
         /\ Works(h) <=> task[h].at # 0
         /\ Works(h) => /\ task[h].at \in 1..Len(C!Plan) /\ task[h].want \in C!Docs
            /\ Follows(task[h].at)
                       /\ JobFits(task[h]) /\ C!Step(h) = C!Plan[task[h].at]
                       /\ Len(C!Plan) \in Nat
<1>1. task[h] \in Jobs /\ (Works(h) => JobFits(task[h]))
  BY DEF TypeInv
<1>2. service \in C!Services
  BY DEF TypeInv, C!TypeOK
<1>3. task[h].at \in Nat
  BY <1>1 DEF Jobs
<1>4. QED
  BY <1>1, <1>2, <1>3, PlanShape, IdleIs DEF Works, JobFits, C!Step

\* A handler that takes a step and goes on to the next one, or answers.
LEMMA Onwards ==
  ASSUME TypeInv, NEW h \in Handlers, Works(h), NEW j \in Jobs, JobFits(j), j.at = task[h].at,
         j.at = First /\ j.at < Len(C!Plan) => j.before # None,
         C!Next1(h, j), UNCHANGED service
  PROVE  /\ task' \in [Handlers -> Jobs]
         /\ \A g \in Handlers \ {h} : task'[g] = task[g]
         /\ \A g \in Handlers : Works(g)' => JobFits(task[g])'
         /\ j.at = Len(C!Plan) => task'[h] = C!Idle /\ ~Works(h)'
         /\ j.at < Len(C!Plan) =>
              /\ Works(h)' /\ task'[h].at = j.at + 1 /\ C!Step(h)' = C!Plan[j.at + 1]
              /\ task'[h].want = j.want /\ task'[h].before = j.before /\ task'[h].old = j.old
              /\ task'[h].changed = j.changed
<1> DEFINE k == [j EXCEPT !.at = @ + 1]
<1>1. /\ j.at \in 1..Len(C!Plan) /\ Len(C!Plan) \in Nat /\ j.want \in C!Docs
      /\ j.at > First => j.before # None
      /\ Follows(j.at)
  BY BusyIs DEF JobFits
<1>2. /\ k \in Jobs /\ k.at = j.at + 1 /\ k.want = j.want /\ k.before = j.before /\ k.old = j.old
      /\ k.changed = j.changed
  BY <1>1 DEF Jobs
<1>3. task \in [Handlers -> Jobs]
  BY DEF TypeInv
<1>4. C!Plan' = C!Plan /\ First' = First
  BY DEF C!Plan, First
<1>5. task' = [task EXCEPT ![h] = IF j.at = Len(C!Plan) THEN C!Idle ELSE k]
  BY DEF C!Next1
<1> HIDE DEF k
<1>6. task' \in [Handlers -> Jobs] /\ \A g \in Handlers \ {h} : task'[g] = task[g]
  BY <1>2, <1>3, <1>5, IdleIs
<1>7. CASE j.at = Len(C!Plan)
  <2>1. task'[h] = C!Idle
    BY <1>3, <1>5, <1>7
  <2>2. \A g \in Handlers : Works(g)' => g # h /\ Works(g) /\ task'[g] = task[g]
    BY <1>6, <2>1 DEF Works
  <2>3. QED
    BY <1>1, <1>4, <1>6, <1>7, <2>1, <2>2 DEF JobFits, Works, TypeInv
<1>8. CASE j.at # Len(C!Plan)
  <2>1. task'[h] = k
    BY <1>3, <1>5, <1>8
  <2>2. \A g \in Handlers \ {h} : Works(g)' => Works(g) /\ task'[g] = task[g]
    BY <1>6 DEF Works
  <2>3. k.at > First => k.before # None
    BY <1>1, <1>2, <1>8 DEF First
  <2>4. \A g \in Handlers : Works(g)' => JobFits(task[g])'
    BY <1>1, <1>2, <1>4, <1>8, <2>1, <2>2, <2>3 DEF JobFits, TypeInv
  <2>5. k # C!Idle
    BY <1>1, <1>2, IdleIs
  <2>6. Works(h)' /\ C!Step(h)' = C!Plan[j.at + 1]
    BY <1>2, <1>4, <2>1, <2>5 DEF Works, C!Step
  <2>7. QED
    BY <1>1, <1>2, <1>6, <1>8, <2>1, <2>4, <2>6
<1>9. QED
  BY <1>7, <1>8

\* A handler whose request ends.
LEMMA EndsAlone ==
  ASSUME TypeInv, NEW h \in Handlers, task' = [task EXCEPT ![h] = C!Idle], UNCHANGED service
  PROVE  /\ task' \in [Handlers -> Jobs]
         /\ \A g \in Handlers \ {h} : task'[g] = task[g]
         /\ \A g \in Handlers : Works(g)' => JobFits(task[g])'
         /\ task'[h] = C!Idle /\ ~Works(h)'
<1>1. task \in [Handlers -> Jobs]
  BY DEF TypeInv
<1>2. C!Plan' = C!Plan /\ First' = First
  BY DEF C!Plan, First
<1>3. /\ task' \in [Handlers -> Jobs] /\ task'[h] = C!Idle
      /\ \A g \in Handlers \ {h} : task'[g] = task[g]
  BY <1>1, IdleIs
<1>4. \A g \in Handlers : Works(g)' => g # h /\ Works(g) /\ task'[g] = task[g]
  BY <1>3 DEF Works
<1>5. QED
  BY <1>2, <1>3, <1>4 DEF JobFits, Works, TypeInv

\* The others do nothing, and what they hold stays what it has to be.
Alone(h) ==
    /\ task' \in [Handlers -> Jobs]
    /\ \A g \in Handlers \ {h} : task'[g] = task[g]
    /\ \A g \in Handlers : Works(g)' => JobFits(task[g])'

\* The handler answers, or is at its next step with the same request.
Goes(h) ==
    /\ Alone(h)
    /\ task[h].at = Len(C!Plan) => task'[h] = C!Idle /\ ~Works(h)'
    /\ task[h].at < Len(C!Plan) =>
         /\ Works(h)' /\ task'[h].at = task[h].at + 1 /\ C!Step(h)' = C!Plan[task[h].at + 1]
         /\ task'[h].want = task[h].want

\* It also has the same in hand.
Keeps(h) ==
    Works(h)' => task'[h].before = task[h].before /\ task'[h].old = task[h].old
                /\ task'[h].changed = task[h].changed

Leaves(h) == Alone(h) /\ task'[h] = C!Idle /\ ~Works(h)'

LEMMA AtIs ==
  ASSUME TypeInv, NEW h \in Handlers, NEW do, C!At(h, do)
  PROVE  /\ Works(h) /\ task[h].at \in 1..Len(C!Plan) /\ Len(C!Plan) \in Nat /\ Follows(task[h].at)
         /\ C!Step(h) = C!Plan[task[h].at] /\ C!Step(h).do = do /\ C!Step(h).part \in C!Parts
         /\ task[h] \in Jobs /\ JobFits(task[h]) /\ task[h].want \in C!Docs
         /\ do # "read" => task[h].at # First \/ task[h].at = Len(C!Plan)
<1>1. Works(h) /\ C!Step(h).do = do
  BY DEF C!At, Works
<1>2. QED
  BY <1>1, BusyIs DEF Follows

LEMMA WantStays ==
  ASSUME TypeInv, NEW h \in Handlers, Works(h), Goes(h) \/ Leaves(h)
  PROVE  Alone(h) /\ (Works(h)' => task'[h].want = task[h].want)
<1>1. task[h].at \in 1..Len(C!Plan) /\ Len(C!Plan) \in Nat
  BY BusyIs
<1>2. QED
  BY <1>1 DEF Goes, Leaves

LEMMA OnwardGoes ==
  ASSUME TypeInv, NEW h \in Handlers, NEW do, C!At(h, do), do # "read", C!Onward(h),
         UNCHANGED service
  PROVE  Goes(h) /\ Keeps(h)
<1>1. C!Next1(h, task[h])
  BY DEF C!Onward
<1>2. Works(h) /\ task[h] \in Jobs /\ JobFits(task[h]) /\ task[h].at \in 1..Len(C!Plan)
      /\ Len(C!Plan) \in Nat
      /\ ~(task[h].at = First /\ task[h].at < Len(C!Plan))
  BY AtIs
<1>3. QED
  BY <1>1, <1>2, Onwards DEF Goes, Keeps, Alone

LEMMA CompareGoes ==
  ASSUME TypeInv, NEW h \in Handlers, C!DoCompare(h)
  PROVE  /\ Goes(h)
         /\ Works(h)' /\ task'[h].before = task[h].before /\ task'[h].old = task[h].old
         /\ task'[h].changed <=> task[h].before # conf[C!Step(h).part]
<1>1. PICK c \in BOOLEAN : c <=> task[h].before # conf[C!Step(h).part]
  OBVIOUS
<1> DEFINE j == [task[h] EXCEPT !.changed = c]
<1>2. C!At(h, "compare") /\ C!Next1(h, j) /\ UNCHANGED service
  BY <1>1 DEF C!DoCompare
<1>3. Works(h) /\ task[h] \in Jobs /\ JobFits(task[h]) /\ task[h].at \in 1..Len(C!Plan)
      /\ Len(C!Plan) \in Nat
      /\ task[h].at < Len(C!Plan) /\ task[h].at # First
  BY <1>2, AtIs DEF Follows
<1>4. /\ j \in Jobs /\ j.at = task[h].at /\ j.want = task[h].want /\ j.before = task[h].before
      /\ j.old = task[h].old /\ j.changed = c
  BY <1>3 DEF Jobs
<1>5. JobFits(j)
  BY <1>3, <1>4 DEF JobFits
<1> HIDE DEF j
<1>6. QED
  BY <1>1, <1>2, <1>3, <1>4, <1>5, Onwards DEF Goes, Alone

LEMMA ReadGoes ==
  ASSUME C!ConstantsOK, TypeInv, NEW h \in Handlers, C!DoRead(h)
  PROVE  LET p == C!Step(h).part IN
         \/ /\ Leaves(h) /\ conf[p] = Torn /\ p = "conf" /\ met' = TRUE
            /\ record' = IF service = "shadowsocks" THEN task[h].want ELSE record
         \/ /\ Goes(h) /\ UNCHANGED <<record, met>> /\ ~(conf[p] = Torn /\ p = "conf")
            /\ Works(h)' => /\ task'[h].before = conf[p] /\ task'[h].changed = task[h].changed
                           /\ task'[h].old = IF p = "conf" THEN conf[p].port ELSE None
<1> DEFINE p == C!Step(h).part
           j == [task[h] EXCEPT !.before = conf[p], !.old = IF p = "conf" THEN conf[p].port ELSE None]
<1>1. C!At(h, "read") /\ UNCHANGED service
  BY DEF C!DoRead
<1>2. /\ Works(h) /\ task[h] \in Jobs /\ JobFits(task[h]) /\ task[h].at \in 1..Len(C!Plan)
         /\ Len(C!Plan) \in Nat
      /\ p \in C!Parts /\ conf[p] \in C!Docs \cup {Torn} /\ None # Torn /\ None \notin C!Docs
  BY <1>1, AtIs DEF TypeInv, C!TypeOK, C!ConstantsOK
<1>3. CASE conf[p] = Torn /\ p = "conf"
  BY <1>1, <1>2, <1>3, EndsAlone DEF C!DoRead, Leaves, Alone
<1>4. CASE ~(conf[p] = Torn /\ p = "conf")
  <2>1. C!Next1(h, j) /\ UNCHANGED <<record, met>>
    BY <1>4 DEF C!DoRead
  <2>2. p = "conf" => conf[p].port \in ServicePorts
    BY <1>2, <1>4 DEF C!Docs
  <2>3. /\ j \in Jobs /\ j.at = task[h].at /\ j.want = task[h].want /\ j.before = conf[p]
        /\ j.old = (IF p = "conf" THEN conf[p].port ELSE None) /\ j.changed = task[h].changed
    BY <1>2, <2>2 DEF Jobs
  <2>4. JobFits(j) /\ j.before # None
    BY <1>2, <2>3 DEF JobFits
  <2> HIDE DEF j
  <2>5. QED
    BY <1>1, <1>2, <1>4, <2>1, <2>3, <2>4, Onwards DEF Goes, Alone
<1>5. QED
  BY <1>3, <1>4

LEMMA BeginIs ==
  ASSUME C!ConstantsOK, TypeInv, NEW h \in Handlers, NEW want \in Wants[service], C!Begin(h, want)
  PROVE  /\ Alone(h) /\ ~Works(h) /\ Works(h)' /\ want \in C!Docs /\ task'[h].want = want
         /\ task'[h].at = 1 /\ task'[h].before = None /\ task'[h].old = None
         /\ task'[h].changed = FALSE
<1> DEFINE j == [C!Idle EXCEPT !.at = 1, !.want = want]
<1>1. want \in C!Docs /\ task[h] = C!Idle /\ task' = [task EXCEPT ![h] = j] /\ service' = service
  BY DEF C!Begin, C!ConstantsOK, TypeInv, C!TypeOK
<1>2. /\ j \in Jobs /\ j.at = 1 /\ j.want = want /\ j.before = None /\ j.old = None
         /\ j.changed = FALSE
  BY <1>1 DEF Jobs, C!Idle
<1> HIDE DEF j
<1>3. /\ task' \in [Handlers -> Jobs] /\ task'[h] = j
         /\ \A g \in Handlers \ {h} : task'[g] = task[g]
  BY <1>1, <1>2 DEF TypeInv
<1>4. C!Plan' = C!Plan /\ First' = First /\ First \in {1, 2, 3}
  BY <1>1 DEF C!Plan, First
<1>5. Len(C!Plan) \in Nat /\ Len(C!Plan) > 2
  BY PlanShape DEF TypeInv, C!TypeOK
<1>6. JobFits(task[h])'
  BY <1>1, <1>2, <1>3, <1>4, <1>5 DEF JobFits
<1>7. \A g \in Handlers : Works(g)' => JobFits(task[g])'
  BY <1>3, <1>4, <1>6 DEF JobFits, TypeInv, Works
<1>8. j # C!Idle
  BY <1>2, IdleIs
<1>9. QED
  BY <1>1, <1>2, <1>3, <1>7, <1>8 DEF Alone, Works

LEMMA TellIs ==
  ASSUME TypeInv, NEW h \in Handlers, NEW heard \in BOOLEAN, NEW answered \in BOOLEAN,
         C!DoTell(h, heard, answered)
  PROVE  /\ service = "softethervpn"
         /\ \/ Goes(h) /\ Keeps(h) /\ met' = (met \/ (C!Step(h).part = "key" /\ ~heard))
            \/ Leaves(h) /\ met' = TRUE
         /\ \/ /\ heard
               /\ run' = [run EXCEPT ![C!Step(h).part] = task[h].want]
               /\ conf' = [conf EXCEPT ![C!Step(h).part] = task[h].want]
            \/ ~heard /\ UNCHANGED <<run, conf>>
<1>1. C!At(h, "tell") /\ UNCHANGED service
  BY DEF C!DoTell
<1>2. service = "softethervpn"
  BY <1>1, AtIs DEF Follows
<1>3. CASE answered
  <2>1. C!Onward(h) /\ met' = (met \/ (C!Step(h).part = "key" /\ ~heard))
    BY <1>3 DEF C!DoTell
  <2>2. QED
    BY <1>1, <1>2, <2>1, OnwardGoes DEF C!DoTell
<1>4. CASE ~answered
  <2>1. task' = [task EXCEPT ![h] = C!Idle] /\ met' = TRUE
    BY <1>4 DEF C!DoTell
  <2>2. Leaves(h)
    BY <1>1, <2>1, EndsAlone DEF Leaves, Alone
  <2>3. QED
    BY <1>2, <2>1, <2>2 DEF C!DoTell
<1>5. QED
  BY <1>3, <1>4

LEMMA CutOffIs ==
  ASSUME TypeInv, NEW h \in Handlers, C!CutOff(h)
  PROVE  Works(h) /\ Leaves(h) /\ \A q \in C!Parts : conf'[q] = conf[q] \/ conf'[q] = Torn
<1>1. Works(h) /\ task' = [task EXCEPT ![h] = C!Idle] /\ UNCHANGED service
  BY DEF C!CutOff, Works
<1>2. conf \in [C!Parts -> C!Docs \cup {Torn}]
  BY DEF TypeInv, C!TypeOK
<1>3. QED
  BY <1>1, <1>2, EndsAlone DEF Leaves, Alone, C!CutOff

\* Types, when one handler takes a step.
LEMMA TypesKept ==
  ASSUME TypeInv, NEW h \in Handlers, Alone(h), UNCHANGED service,
         conf' \in [C!Parts -> C!Docs \cup {Torn}], run' \in [C!Parts -> C!Docs],
         ports' \in SUBSET ServicePorts,
         record' \in C!Docs, aside' \in SUBSET C!Parts, shut' \in BOOLEAN, met' \in BOOLEAN,
         asked' \in 0..MaxRequests, hits' \in 0..FewFaults
  PROVE  TypeInv'
<1>1. C!Plan' = C!Plan
  BY DEF C!Plan
<1>2. \A g \in Handlers : task'[g] = C!Idle \/ (task'[g].at \in 1..Len(C!Plan') /\ task'[g].want \in C!Docs)
  BY <1>1 DEF Alone, Works, JobFits
<1>3. QED
  BY <1>2 DEF TypeInv, C!TypeOK, Alone

LEMMA StepTypes ==
  ASSUME C!ConstantsOK, TypeInv, [C!Next]_(C!vars)
  PROVE  TypeInv'
<1>1. /\ service \in C!Services /\ conf \in [C!Parts -> C!Docs \cup {Torn}]
         /\ run \in [C!Parts -> C!Docs]
      /\ ports \in SUBSET ServicePorts /\ record \in C!Docs /\ aside \in SUBSET C!Parts
         /\ shut \in BOOLEAN
      /\ met \in BOOLEAN /\ asked \in 0..MaxRequests /\ hits \in 0..FewFaults
      /\ MaxRequests \in Nat /\ FewFaults \in Nat
  BY DEF TypeInv, C!TypeOK, C!ConstantsOK
<1>2. \A d \in C!Docs : d.port \in ServicePorts
  BY DEF C!Docs
<1>3. ASSUME NEW h \in Handlers, NEW want \in Wants[service], C!Begin(h, want) PROVE TypeInv'
  <2>1. Alone(h)
    BY <1>3, BeginIs
  <2>2. /\ UNCHANGED <<service, conf, run, ports, record, aside, shut, hits>>
        /\ asked' \in 0..MaxRequests /\ met' \in BOOLEAN
    BY <1>1, <1>3 DEF C!Begin
  <2>3. QED
    BY <1>1, <2>1, <2>2, TypesKept
<1>4. ASSUME NEW h \in Handlers, C!DoRead(h) PROVE TypeInv'
  <2>1. Alone(h) /\ record' \in C!Docs /\ met' \in BOOLEAN
    <3>1. task[h].want \in C!Docs
      BY <1>4, AtIs DEF C!DoRead
    <3>2. QED
      BY <1>1, <1>4, <3>1, ReadGoes DEF Goes, Leaves
  <2>2. UNCHANGED <<service, conf, run, ports, aside, shut, asked, hits>>
    BY <1>4 DEF C!DoRead
  <2>3. QED
    BY <1>1, <2>1, <2>2, TypesKept
<1>5. ASSUME NEW h \in Handlers, C!DoWrite(h) PROVE TypeInv'
  <2>1. C!At(h, "write") /\ C!Onward(h)
        /\ UNCHANGED <<service, run, ports, record, met, asked, hits>>
    BY <1>5 DEF C!DoWrite
  <2>2. Alone(h)
    BY <2>1, OnwardGoes DEF Goes
  <2>3. task[h].want \in C!Docs /\ C!Step(h).part \in C!Parts
    BY <2>1, AtIs
  <2>4. /\ conf' \in [C!Parts -> C!Docs \cup {Torn}] /\ aside' \in SUBSET C!Parts
           /\ shut' \in BOOLEAN
    BY <1>1, <1>5, <2>3 DEF C!DoWrite
  <2>5. QED
    BY <1>1, <2>1, <2>2, <2>4, TypesKept
<1>6. ASSUME NEW h \in Handlers, C!DoCompare(h) PROVE TypeInv'
  <2>1. Alone(h)
    BY <1>6, CompareGoes DEF Goes
  <2>2. QED
    BY <1>1, <1>6, <2>1, TypesKept DEF C!DoCompare
<1>7. ASSUME NEW h \in Handlers, C!DoRestart(h) PROVE TypeInv'
  <2>1. C!At(h, "restart") /\ C!Onward(h)
        /\ UNCHANGED <<service, conf, ports, record, shut, met, asked, hits>>
    BY <1>7 DEF C!DoRestart
  <2>2. Alone(h)
    BY <2>1, OnwardGoes DEF Goes
  <2>3. run' \in [C!Parts -> C!Docs] /\ aside' \in SUBSET C!Parts
    BY <1>1, <1>7 DEF C!DoRestart
  <2>4. QED
    BY <1>1, <2>1, <2>2, <2>3, TypesKept
<1>8. ASSUME NEW h \in Handlers, C!RestartFails(h) PROVE TypeInv'
  <2>1. C!At(h, "restart") /\ C!Onward(h)
        /\ UNCHANGED <<service, conf, run, ports, record, shut, met, asked>>
    BY <1>8 DEF C!RestartFails
  <2>2. Alone(h)
    BY <2>1, OnwardGoes DEF Goes
  <2>3. hits' \in 0..FewFaults /\ aside' \in SUBSET C!Parts
    BY <1>1, <1>8 DEF C!RestartFails
  <2>4. QED
    BY <1>1, <2>1, <2>2, <2>3, TypesKept
<1>9. ASSUME NEW h \in Handlers, C!DoOpen(h) PROVE TypeInv'
  <2>1. PICK do \in {"open", "open_if_changed"} : C!At(h, do)
    BY <1>9 DEF C!DoOpen
  <2>2. C!Onward(h) /\ UNCHANGED <<service, conf, run, record, aside, met, asked, hits>>
    BY <1>9 DEF C!DoOpen
  <2>3. Alone(h)
    BY <2>1, <2>2, OnwardGoes DEF Goes
  <2>4. task[h].want \in C!Docs
    BY <2>1, AtIs
  <2>5. ports' \in SUBSET ServicePorts /\ shut' \in BOOLEAN
    BY <1>1, <1>2, <1>9, <2>4 DEF C!DoOpen
  <2>6. QED
    BY <1>1, <2>2, <2>3, <2>5, TypesKept
<1>10. ASSUME NEW h \in Handlers, C!DoMove(h) PROVE TypeInv'
  <2>1. C!At(h, "move") /\ C!Onward(h)
        /\ UNCHANGED <<service, conf, run, record, aside, met, asked, hits>>
    BY <1>10 DEF C!DoMove
  <2>2. Alone(h)
    BY <2>1, OnwardGoes DEF Goes
  <2>3. task[h].want \in C!Docs
    BY <2>1, AtIs
  <2>4. ports' \in SUBSET ServicePorts /\ shut' \in BOOLEAN
    BY <1>1, <1>2, <1>10, <2>3 DEF C!DoMove
  <2>5. QED
    BY <1>1, <2>1, <2>2, <2>4, TypesKept
<1>11. ASSUME NEW h \in Handlers, C!DoSave(h) PROVE TypeInv'
  <2>1. C!At(h, "save") /\ C!Onward(h) /\ record' = task[h].want
        /\ UNCHANGED <<service, conf, run, ports, aside, shut, met, asked, hits>>
    BY <1>11 DEF C!DoSave
  <2>2. Alone(h) /\ task[h].want \in C!Docs
    BY <2>1, OnwardGoes, AtIs DEF Goes
  <2>3. QED
    BY <1>1, <2>1, <2>2, TypesKept
<1>12. ASSUME NEW h \in Handlers, NEW heard \in BOOLEAN, NEW answered \in BOOLEAN,
              C!DoTell(h, heard, answered)
       PROVE  TypeInv'
  <2>1. C!At(h, "tell") /\ UNCHANGED <<service, ports, record, aside, shut, asked, hits>>
    BY <1>12 DEF C!DoTell
  <2>2. task[h].want \in C!Docs
    BY <2>1, AtIs
  <2>3. Alone(h) /\ met' \in BOOLEAN /\ conf' \in [C!Parts -> C!Docs \cup {Torn}]
        /\ run' \in [C!Parts -> C!Docs]
    BY <1>1, <1>12, <2>2, TellIs DEF Goes, Leaves
  <2>4. QED
    BY <1>1, <2>1, <2>3, TypesKept
<1>13. ASSUME NEW h \in Handlers, C!CutOff(h) PROVE TypeInv'
  <2>1. Alone(h)
    BY <1>13, CutOffIs DEF Leaves
  <2>2. /\ UNCHANGED <<service, run, ports, record, asked>>
        /\ hits' \in 0..FewFaults /\ aside' \in SUBSET C!Parts /\ shut' \in BOOLEAN
           /\ met' \in BOOLEAN
        /\ conf' \in [C!Parts -> C!Docs \cup {Torn}]
    BY <1>1, <1>13 DEF C!CutOff
  <2>3. QED
    BY <1>1, <2>1, <2>2, TypesKept
<1>14. CASE UNCHANGED C!vars
  BY <1>14 DEF C!vars, TypeInv, C!TypeOK, Works, JobFits, C!Plan, First
<1>15. QED
  BY <1>3, <1>4, <1>5, <1>6, <1>7, <1>8, <1>9, <1>10, <1>11, <1>12, <1>13, <1>14 DEF C!Next

----------------------------------------------------------------------------
(* ServiceConfig: a file that does not parse *)

TornInv ==
    /\ \A r \in C!Parts : (\E q \in C!ReadBy(r) : conf[q] = Torn) => C!ReadBy(r) \subseteq aside
    /\ conf["conf"] = Torn => shut

LEMMA ReadByIs ==
  ASSUME NEW p \in C!Parts
  PROVE  /\ C!ReadBy(p) \subseteq C!Parts
         /\ service = "dsvpn" => C!ReadBy(p) = {"conf", "key"}
         /\ service = "glorytun" => C!ReadBy(p) = IF p = "conf" THEN {"conf", "key"} ELSE {p}
         /\ service \notin {"dsvpn", "glorytun"} => C!ReadBy(p) = {p}
<1>1. CASE service = "dsvpn"
  BY <1>1 DEF C!ReadBy, C!Parts
<1>2. CASE service = "glorytun"
  BY <1>2 DEF C!ReadBy, C!Parts
<1>3. CASE service \notin {"dsvpn", "glorytun"}
  BY <1>3 DEF C!ReadBy, C!Parts
<1>4. QED
  BY <1>1, <1>2, <1>3

\* No step but a cut-off leaves such a file.
LEMMA TornLess ==
  ASSUME TornInv, UNCHANGED service, \A q \in C!Parts : conf'[q] = Torn => conf[q] = Torn,
         aside \subseteq aside', shut => shut'
  PROVE  TornInv'
<1>1. \A r : C!ReadBy(r)' = C!ReadBy(r)
  BY DEF C!ReadBy
<1>2. "conf" \in C!Parts
  BY DEF C!Parts
<1>3. QED
  BY <1>1, <1>2, ReadByIs DEF TornInv

LEMMA RestartTorn ==
  ASSUME TornInv, TypeInv, NEW h \in Handlers, C!DoRestart(h)
  PROVE  TornInv'
<1>1. UNCHANGED <<service, conf, shut>> /\ \A r : C!ReadBy(r)' = C!ReadBy(r)
  BY DEF C!DoRestart, C!ReadBy
<1>2. PICK R : R = C!ReadBy(C!Step(h).part)
  OBVIOUS
<1>3. C!Step(h).part \in C!Parts /\ (service = "glorytun" => C!Step(h).part # "key")
  BY AtIs DEF C!DoRestart, Follows
<1>4. CASE aside' = aside
  BY <1>1, <1>4 DEF TornInv
<1>5. CASE aside' # aside
  <2>1. aside' = aside \ R /\ \A q \in R : conf[q] # Torn
    BY <1>2, <1>5 DEF C!DoRestart
  <2>2. \A r \in C!Parts : C!ReadBy(r) \cap R = {} \/ C!ReadBy(r) \subseteq R
    BY <1>2, <1>3, ReadByIs DEF C!Parts
  <2>3. QED
    BY <1>1, <2>1, <2>2 DEF TornInv
<1>6. QED
  BY <1>4, <1>5

LEMMA StepTorn ==
  ASSUME C!ConstantsOK, TypeInv, TornInv, [C!Next]_(C!vars)
  PROVE  TornInv'
<1>1. /\ conf \in [C!Parts -> C!Docs \cup {Torn}] /\ run \in [C!Parts -> C!Docs]
      /\ shut \in BOOLEAN /\ Torn \notin C!Docs /\ "conf" \in C!Parts
  BY DEF TypeInv, C!TypeOK, C!ConstantsOK, C!Parts
<1>2. ASSUME NEW h \in Handlers,
             \/ \E want \in Wants[service] : C!Begin(h, want)
             \/ C!DoRead(h) \/ C!DoCompare(h) \/ C!RestartFails(h) \/ C!DoMove(h) \/ C!DoSave(h)
      PROVE  TornInv'
  <2>1. UNCHANGED <<service, conf>> /\ aside \subseteq aside'
    BY <1>2 DEF C!Begin, C!DoRead, C!DoCompare, C!RestartFails, C!DoMove, C!DoSave
  <2>2. shut => shut'
    BY <1>2 DEF C!Begin, C!DoRead, C!DoCompare, C!RestartFails, C!DoMove, C!DoSave
  <2>3. QED
    BY <2>1, <2>2, TornLess
<1>3. ASSUME NEW h \in Handlers, C!DoWrite(h) PROVE TornInv'
  <2>1. task[h].want \in C!Docs
    BY <1>3, AtIs DEF C!DoWrite
  <2>2. UNCHANGED service /\ aside \subseteq aside' /\ (shut => shut')
        /\ conf' = [conf EXCEPT ![C!Step(h).part] = task[h].want]
    BY <1>3 DEF C!DoWrite
  <2>3. \A q \in C!Parts : conf'[q] = Torn => conf[q] = Torn
    BY <1>1, <2>1, <2>2
  <2>4. QED
    BY <2>2, <2>3, TornLess
<1>4. ASSUME NEW h \in Handlers, C!DoOpen(h) PROVE TornInv'
  <2>1. UNCHANGED <<service, conf, aside>>
    BY <1>4 DEF C!DoOpen
  <2>2. conf["conf"] = Torn => run["conf"] # conf["conf"]
    BY <1>1
  <2>3. conf["conf"] = Torn => shut' = shut
    BY <1>1, <1>4, <2>2 DEF C!DoOpen
  <2>4. \A r : C!ReadBy(r)' = C!ReadBy(r)
    BY <2>1 DEF C!ReadBy
  <2>5. QED
    BY <2>1, <2>3, <2>4 DEF TornInv
<1>5. ASSUME NEW h \in Handlers, NEW heard \in BOOLEAN, NEW answered \in BOOLEAN,
             C!DoTell(h, heard, answered)
      PROVE  TornInv'
  <2>1. UNCHANGED <<service, aside, shut>> /\ C!At(h, "tell")
    BY <1>5 DEF C!DoTell
  <2>2. task[h].want \in C!Docs
    BY <2>1, AtIs
  <2>3. \A q \in C!Parts : conf'[q] = Torn => conf[q] = Torn
    BY <1>1, <1>5, <2>2, TellIs
  <2>4. QED
    BY <2>1, <2>3, TornLess
<1>6. ASSUME NEW h \in Handlers, C!CutOff(h) PROVE TornInv'
  <2>1. aside' = aside \cup C!Parts /\ shut' = TRUE /\ UNCHANGED service
    BY <1>6 DEF C!CutOff
  <2>2. \A r : C!ReadBy(r)' = C!ReadBy(r)
    BY <2>1 DEF C!ReadBy
  <2>3. QED
    BY <2>1, <2>2, ReadByIs DEF TornInv
<1>7. CASE UNCHANGED C!vars
  <2>1. UNCHANGED <<service, conf, aside, shut>>
    BY <1>7 DEF C!vars
  <2>2. QED
    BY <2>1, TornLess
<1>8. QED
  BY <1>2, <1>3, <1>4, <1>5, <1>6, <1>7, RestartTorn DEF C!Next

----------------------------------------------------------------------------
(* ServiceConfig: a part that the service has yet to read *)

\* The handler will restart the service for the part.
Owes(h, p) ==
    /\ Works(h)
    /\ \/ C!Step(h) = C!Compare(p) /\ task[h].before # conf[p]
       \/ C!Step(h) = C!Restart(p) /\ task[h].changed
       \/ C!Step(h) = C!Move /\ p = "conf" /\ task[h].changed

LagInv == \A p \in C!Parts \ aside : run[p] # conf[p] => \E h \in Handlers : Owes(h, p)

LEMMA OwesStill ==
  ASSUME UNCHANGED service, NEW g, task'[g] = task[g], NEW p, conf'[p] = conf[p]
  PROVE  Owes(g, p)' <=> Owes(g, p)
<1>1. C!Plan' = C!Plan
  BY DEF C!Plan
<1>2. QED
  BY <1>1 DEF Owes, Works, C!Step

\* A step that neither writes nor reads a part, and leaves no one owing less.
LEMMA LagSame ==
  ASSUME LagInv, NEW h \in Handlers, UNCHANGED <<service, conf, run>>,
         \A g \in Handlers \ {h} : task'[g] = task[g], aside \subseteq aside',
         \A p \in C!Parts \ aside' : Owes(h, p) => Owes(h, p)'
  PROVE  LagInv'
<1> SUFFICES ASSUME NEW p \in C!Parts \ aside', run[p] # conf[p]
             PROVE  \E g \in Handlers : Owes(g, p)'
  BY DEF LagInv
<1>1. PICK g \in Handlers : Owes(g, p)
  BY DEF LagInv
<1>2. CASE g = h
  BY <1>1, <1>2
<1>3. CASE g # h
  BY <1>1, <1>3, OwesStill
<1>4. QED
  BY <1>2, <1>3

LEMMA OwesIs ==
  ASSUME NEW h, NEW p, Owes(h, p)
  PROVE  Works(h) /\ C!Step(h).do \in {"compare", "restart", "move"}
         /\ (C!Step(h).do # "move" => C!Step(h).part = p)
  BY DEF Owes, C!Compare, C!Restart, C!Move

LEMMA WriteLag ==
  ASSUME C!ConstantsOK, TypeInv, LagInv, NEW h \in Handlers, C!DoWrite(h)
  PROVE  LagInv'
<1>1. PICK w, q : w = task[h].want /\ q = C!Step(h).part
  OBVIOUS
<1>2. /\ C!At(h, "write") /\ C!Onward(h) /\ UNCHANGED <<service, run>>
      /\ conf' = [conf EXCEPT ![q] = w]
      /\ aside' = IF C!WritesOver(h, q) \/ conf[q] = Torn THEN aside \cup C!Parts
                  ELSE IF C!Restart(q) \in {C!Plan[i] : i \in DOMAIN C!Plan}
                  THEN aside ELSE aside \cup {q}
  BY <1>1 DEF C!DoWrite
<1>3. Goes(h) /\ Keeps(h)
  BY <1>2, OnwardGoes
<1>4. /\ Works(h) /\ task[h].at \in 1..Len(C!Plan) /\ Len(C!Plan) \in Nat /\ Follows(task[h].at)
      /\ JobFits(task[h]) /\ C!Step(h) = C!Plan[task[h].at] /\ C!Step(h).do = "write"
         /\ q \in C!Parts
  BY <1>1, <1>2, AtIs
<1>5. DOMAIN C!Plan = 1..Len(C!Plan) /\ DOMAIN conf = C!Parts
  BY PlanShape DEF TypeInv, C!TypeOK
<1> SUFFICES ASSUME NEW p \in C!Parts \ aside', run[p] # conf'[p]
             PROVE  \E g \in Handlers : Owes(g, p)'
  BY <1>2 DEF LagInv
<1>6. p \notin aside /\ ~C!WritesOver(h, q) /\ conf[q] # Torn
  BY <1>2
<1>7. CASE conf'[p] = conf[p]
  <2>1. PICK g \in Handlers : Owes(g, p)
    BY <1>6, <1>7 DEF LagInv
  <2>2. g # h
    BY <1>4, <2>1, OwesIs
  <2>3. QED
    BY <1>2, <1>3, <1>7, <2>1, <2>2, OwesStill DEF Goes, Alone
<1>8. CASE conf'[p] # conf[p]
  <2>1. p = q /\ conf'[p] = w
    BY <1>2, <1>5, <1>8
  <2>2. Restarts(p)
    BY <1>2, <1>5, <1>6, <2>1 DEF Restarts
  <2>3. task[h].at > First /\ task[h].at < Len(C!Plan) /\ C!Plan[task[h].at + 1] = C!Compare(p)
    BY <1>1, <1>4, <2>1, <2>2 DEF Follows
  <2>4. task[h].before = conf[p]
    BY <1>4, <1>6, <2>1, <2>3 DEF JobFits, C!WritesOver
  <2>5. Works(h)' /\ C!Step(h)' = C!Compare(p) /\ task'[h].before # conf'[p]
    BY <1>3, <1>8, <2>3, <2>4 DEF Goes, Keeps
  <2>6. Owes(h, p)'
    BY <2>5 DEF Owes, C!Compare
  <2>7. QED
    BY <2>6
<1>9. QED
  BY <1>7, <1>8

LEMMA RestartLag ==
  ASSUME C!ConstantsOK, TypeInv, TornInv, LagInv, NEW h \in Handlers, C!DoRestart(h)
  PROVE  LagInv'
<1>1. PICK q, R : q = C!Step(h).part /\ R = C!ReadBy(q)
  OBVIOUS
<1>2. C!At(h, "restart") /\ C!Onward(h) /\ UNCHANGED <<service, conf>>
  BY DEF C!DoRestart
<1>3. Goes(h) /\ Keeps(h)
  BY <1>2, OnwardGoes
<1>4. /\ Works(h) /\ C!Step(h) = C!Plan[task[h].at] /\ q \in C!Parts /\ C!Step(h) = C!Restart(q)
      /\ (service = "dsvpn" => q = "key")
  BY <1>1, <1>2, AtIs DEF Follows
<1>5. q \in R
  BY <1>1, <1>4, ReadByIs
<1>6. \A p : Owes(h, p) => p = q /\ task[h].changed
  BY <1>4 DEF Owes, C!Restart, C!Compare, C!Move
<1> SUFFICES ASSUME NEW p \in C!Parts \ aside', run'[p] # conf[p]
             PROVE  \E g \in Handlers : Owes(g, p)'
  BY <1>2 DEF LagInv
<1>7. p \notin aside /\ run[p] # conf[p] /\ (p = q => ~task[h].changed)
  <2>1. CASE task[h].changed /\ \A k \in R : conf[k] # Torn
    <3>1. /\ run' = [k \in C!Parts |-> IF k \in R THEN conf[k] ELSE run[k]]
          /\ aside' = aside \ R
      BY <1>1, <2>1 DEF C!DoRestart
    <3>2. p \notin R
      BY <3>1
    <3>3. QED
      BY <1>5, <3>1, <3>2
  <2>2. CASE ~(task[h].changed /\ \A k \in R : conf[k] # Torn)
    <3>1. run' = run /\ aside' = aside
      BY <1>1, <2>2 DEF C!DoRestart
    <3>2. task[h].changed => q \in aside
      BY <1>1, <1>4, <1>5, <2>2 DEF TornInv
    <3>3. QED
      BY <3>1, <3>2
  <2>3. QED
    BY <2>1, <2>2
<1>8. PICK g \in Handlers : Owes(g, p)
  BY <1>7 DEF LagInv
<1>9. g # h
  BY <1>6, <1>7, <1>8
<1>10. QED
  BY <1>2, <1>3, <1>8, <1>9, OwesStill DEF Goes, Alone

LEMMA TellLag ==
  ASSUME TypeInv, LagInv, NEW h \in Handlers, NEW heard \in BOOLEAN, NEW answered \in BOOLEAN,
         C!DoTell(h, heard, answered)
  PROVE  LagInv'
<1>1. C!At(h, "tell") /\ UNCHANGED <<service, aside>>
  BY DEF C!DoTell
<1>2. Alone(h) /\ C!Step(h).do = "tell"
  BY <1>1, AtIs, TellIs DEF Goes, Leaves
<1>3. DOMAIN conf = C!Parts /\ DOMAIN run = C!Parts
  BY DEF TypeInv, C!TypeOK
<1> SUFFICES ASSUME NEW p \in C!Parts \ aside, run'[p] # conf'[p]
             PROVE  \E g \in Handlers : Owes(g, p)'
  BY <1>1 DEF LagInv
<1>4. run'[p] = run[p] /\ conf'[p] = conf[p]
  BY <1>3, TellIs
<1>5. PICK g \in Handlers : Owes(g, p)
  BY <1>4 DEF LagInv
<1>6. g # h
  BY <1>2, <1>5, OwesIs
<1>7. QED
  BY <1>1, <1>2, <1>4, <1>5, <1>6, OwesStill DEF Alone

LEMMA StepLag ==
  ASSUME C!ConstantsOK, TypeInv, TornInv, LagInv, [C!Next]_(C!vars)
  PROVE  LagInv'
<1>1. ASSUME NEW h \in Handlers, NEW want \in Wants[service], C!Begin(h, want) PROVE LagInv'
  <2>1. Alone(h) /\ ~Works(h) /\ UNCHANGED <<service, conf, run, aside>>
    BY <1>1, BeginIs DEF C!Begin
  <2>2. QED
    BY <2>1, LagSame, OwesIs DEF Alone
<1>2. ASSUME NEW h \in Handlers, C!DoRead(h) PROVE LagInv'
  <2>1. C!At(h, "read") /\ UNCHANGED <<service, conf, run, aside>>
    BY <1>2 DEF C!DoRead
  <2>2. Alone(h) /\ C!Step(h).do = "read"
    BY <1>2, <2>1, AtIs, ReadGoes DEF Goes, Leaves
  <2>3. QED
    BY <2>1, <2>2, LagSame, OwesIs DEF Alone
<1>3. ASSUME NEW h \in Handlers, C!DoCompare(h) PROVE LagInv'
  <2>1. C!At(h, "compare") /\ UNCHANGED <<service, conf, run, aside>>
    BY <1>3 DEF C!DoCompare
  <2>2. PICK q : q = C!Step(h).part
    OBVIOUS
  <2>3. /\ task[h].at \in 1..Len(C!Plan) /\ task[h].at < Len(C!Plan) /\ C!Step(h) = C!Compare(q)
        /\ C!Plan[task[h].at + 1] = C!Restart(q) \/ (C!Plan[task[h].at + 1] = C!Move /\ q = "conf")
    BY <2>1, <2>2, AtIs DEF Follows
  <2>4. /\ Alone(h) /\ Works(h)' /\ C!Step(h)' = C!Plan[task[h].at + 1]
        /\ task'[h].changed <=> task[h].before # conf[q]
    BY <1>3, <2>2, <2>3, CompareGoes DEF Goes
  <2>5. ASSUME NEW p \in C!Parts, Owes(h, p) PROVE Owes(h, p)'
    <3>1. p = q /\ task[h].before # conf[q]
      BY <2>3, <2>5 DEF Owes, C!Compare, C!Restart, C!Move
    <3>2. QED
      BY <2>3, <2>4, <3>1 DEF Owes, C!Restart, C!Move
  <2>6. QED
    BY <2>1, <2>4, <2>5, LagSame DEF Alone
<1>4. ASSUME NEW h \in Handlers, C!DoMove(h) PROVE LagInv'
  <2>1. C!At(h, "move") /\ C!Onward(h) /\ UNCHANGED <<service, conf, run, aside>>
    BY <1>4 DEF C!DoMove
  <2>2. Goes(h) /\ Keeps(h)
    BY <2>1, OnwardGoes
  <2>3. /\ task[h].at \in 1..Len(C!Plan) /\ task[h].at < Len(C!Plan) /\ C!Step(h) = C!Move
        /\ C!Plan[task[h].at + 1] = C!Restart("conf")
    BY <2>1, AtIs DEF Follows
  <2>4. ASSUME NEW p \in C!Parts, Owes(h, p) PROVE Owes(h, p)'
    <3>1. p = "conf" /\ task[h].changed
      BY <2>3, <2>4 DEF Owes, C!Compare, C!Restart, C!Move
    <3>2. Works(h)' /\ C!Step(h)' = C!Restart(p) /\ task'[h].changed
      BY <2>2, <2>3, <3>1 DEF Goes, Keeps
    <3>3. QED
      BY <3>2 DEF Owes, C!Restart
  <2>5. QED
    BY <2>1, <2>2, <2>4, LagSame DEF Goes, Alone
<1>5. ASSUME NEW h \in Handlers, NEW do \in {"open", "open_if_changed", "save"}, C!At(h, do),
             C!Onward(h),
             UNCHANGED <<service, conf, run, aside>>
      PROVE  LagInv'
  <2>1. Alone(h) /\ C!Step(h).do = do
    BY <1>5, AtIs, OnwardGoes DEF Goes
  <2>2. QED
    BY <1>5, <2>1, LagSame, OwesIs DEF Alone
<1>6. ASSUME NEW h \in Handlers, C!DoOpen(h) \/ C!DoSave(h) PROVE LagInv'
  <2>1. PICK do \in {"open", "open_if_changed", "save"} : C!At(h, do)
    BY <1>6 DEF C!DoOpen, C!DoSave
  <2>2. C!Onward(h) /\ UNCHANGED <<service, conf, run, aside>>
    BY <1>6 DEF C!DoOpen, C!DoSave
  <2>3. QED
    BY <1>5, <2>1, <2>2
<1>7. ASSUME NEW h \in Handlers, C!RestartFails(h) \/ C!CutOff(h) PROVE LagInv'
  <2>1. aside' = aside \cup C!Parts
    BY <1>7 DEF C!RestartFails, C!CutOff
  <2>2. QED
    BY <2>1 DEF LagInv
<1>8. CASE UNCHANGED C!vars
  BY <1>8, OwesStill DEF C!vars, LagInv
<1>9. QED
  BY <1>1, <1>2, <1>3, <1>4, <1>6, <1>7, <1>8, WriteLag, RestartLag, TellLag DEF C!Next

----------------------------------------------------------------------------
(* ServiceConfig: the port *)

Reopeners == {"shadowsocks", "shadowsocks_go", "openvpn"}

\* How the handlers get from writing the port to opening it.
Layout(i) ==
    /\ service \in Reopeners =>
         /\ C!Plan[i].part = "conf" /\ C!Plan[i].do \notin {"open", "move", "tell"}
         /\ C!Plan[i].do = "write" => Restarts("conf")
         /\ C!Plan[i].do = "restart" => i < Len(C!Plan) /\ C!Plan[i + 1] = C!OpenIfChanged
         /\ C!Plan[i].do = "compare" => C!Plan[i + 1] = C!Restart("conf")
    /\ service = "glorytun" =>
         /\ C!Plan[i].do \in {"read", "write", "compare", "restart", "open"}
         /\ C!Plan[i].do = "write" /\ C!Plan[i].part = "conf" <=> i = 3
         /\ i = Len(C!Plan) => C!Plan[i].do = "open"
         /\ Len(C!Plan) = 10
    /\ service = "dsvpn" =>
         /\ C!Plan[i].do \in {"read", "write", "compare", "restart", "open"}
         /\ C!Plan[i].do = "write" /\ C!Plan[i].part = "conf" <=> i = 1
         /\ i = Len(C!Plan) => C!Plan[i].do = "open"
    /\ service = "mqvpn" =>
         /\ C!Plan[i].part = "conf"
         /\ C!Plan[i].do \in {"read", "write", "compare", "move", "restart"}
         /\ C!Plan[i].do = "write" => i = 2 /\ Restarts("conf")
         /\ C!Plan[i].do = "compare" => i = 3 /\ C!Plan[i + 1] = C!Move

LEMMA PlanLayout ==
  ASSUME service \in C!Services
  PROVE  \A i \in 1..Len(C!Plan) : Layout(i)
<1> USE DEF C!Read, C!Write, C!Compare, C!Restart, C!OpenIfChanged, C!Open, C!Move, C!Save,
            C!Tell, Restarts, Layout, Reopeners
<1>1. CASE service = "shadowsocks" \/ service = "shadowsocks_go"
  <2>1. C!Plan = <<C!Read("conf"), C!Save("conf"), C!Write("conf"), C!Compare("conf"), C!Restart("conf"),
                 C!OpenIfChanged>>
    BY <1>1 DEF C!Plan, C!shadowsocks, C!shadowsocks_go
  <2>2. C!Plan[5] = C!Restart("conf") /\ 5 \in 1..Len(C!Plan)
    BY <2>1
  <2>3. QED
    BY <1>1, <2>1, <2>2
<1>2. CASE service = "openvpn"
  <2>1. C!Plan = <<C!Read("conf"), C!Write("conf"), C!Compare("conf"), C!Restart("conf"), C!OpenIfChanged>>
    BY <1>2 DEF C!Plan, C!openvpn
  <2>2. C!Plan[4] = C!Restart("conf") /\ 4 \in 1..Len(C!Plan)
    BY <2>1
  <2>3. QED
    BY <1>2, <2>1, <2>2
<1>3. CASE service = "mqvpn"
  <2>1. C!Plan = <<C!Read("conf"), C!Write("conf"), C!Compare("conf"), C!Move, C!Restart("conf")>>
    BY <1>3 DEF C!Plan, C!mqvpn_set_config
  <2>2. C!Plan[5] = C!Restart("conf") /\ 5 \in 1..Len(C!Plan)
    BY <2>1
  <2>3. QED
    BY <1>3, <2>1, <2>2
<1>4. CASE service = "glorytun"
  <2>1. C!Plan = <<C!Read("conf"), C!Write("key"), C!Write("conf"), C!Compare("conf"), C!Restart("conf"),
                 C!Read("udp"), C!Write("udp"), C!Compare("udp"), C!Restart("udp"), C!Open>>
    BY <1>4 DEF C!Plan, C!glorytun
  <2>2. QED
    BY <1>4, <2>1
<1>5. CASE service = "dsvpn"
  <2>1. C!Plan = <<C!Write("conf"), C!Read("key"), C!Write("key"), C!Compare("key"), C!Restart("key"), C!Open>>
    BY <1>5 DEF C!Plan, C!dsvpn
  <2>2. QED
    BY <1>5, <2>1
<1>6. CASE service \notin Reopeners \cup {"mqvpn", "glorytun", "dsvpn"}
  BY <1>6
<1>7. QED
  BY <1>1, <1>2, <1>3, <1>4, <1>5, <1>6

\* A service whose handler keeps the port listens on it from the installation.
FixedInv ==
    C!FixedPort =>
      /\ record.port \in ports /\ run["conf"].port = record.port
      /\ conf["conf"] # Torn => conf["conf"].port = record.port
      /\ \A h \in Handlers : Works(h) => task[h].want.port = record.port

LEMMA FixedKept ==
  ASSUME FixedInv, C!FixedPort, NEW h \in Handlers, Alone(h), UNCHANGED service,
         record'.port = record.port, ports \subseteq ports', run'["conf"].port = record.port,
         Works(h)' => task'[h].want.port = record.port,
         conf'["conf"] = Torn \/ conf'["conf"].port = record.port
  PROVE  FixedInv'
<1>1. \A g \in Handlers \ {h} : Works(g)' => Works(g) /\ task'[g] = task[g]
  BY DEF Alone, Works
<1>2. QED
  BY <1>1 DEF FixedInv

LEMMA StepFixed ==
  ASSUME C!ConstantsOK, TypeInv, FixedInv, [C!Next]_(C!vars)
  PROVE  FixedInv'
<1> SUFFICES ASSUME C!FixedPort
             PROVE  FixedInv'
  <2>1. service' = service
    BY DEF C!Next, C!vars, C!Begin, C!DoRead, C!DoWrite, C!DoCompare, C!DoRestart, C!RestartFails,
           C!DoOpen, C!DoMove,
           C!DoSave, C!DoTell, C!CutOff
  <2>2. QED
    BY <2>1 DEF FixedInv, C!FixedPort
<1>1. /\ record.port \in ports /\ run["conf"].port = record.port
      /\ conf["conf"] = Torn \/ conf["conf"].port = record.port
      /\ \A h \in Handlers : Works(h) => task[h].want.port = record.port
      /\ "conf" \in C!Parts /\ DOMAIN conf = C!Parts /\ DOMAIN run = C!Parts
      /\ service # "shadowsocks" /\ service # "mqvpn"
  BY DEF FixedInv, C!FixedPort, C!Parts, TypeInv, C!TypeOK
<1>2. ASSUME NEW h \in Handlers, NEW want \in Wants[service], C!Begin(h, want) PROVE FixedInv'
  <2>1. Alone(h) /\ task'[h].want = want
    BY <1>2, BeginIs
  <2>2. UNCHANGED <<service, conf, run, ports, record>> /\ want.port = record.port
    BY <1>2 DEF C!Begin
  <2>3. QED
    BY <1>1, <2>1, <2>2, FixedKept
<1>3. ASSUME NEW h \in Handlers, C!DoRead(h) PROVE FixedInv'
  <2>1. UNCHANGED <<service, conf, run, ports>> /\ C!At(h, "read")
    BY <1>3 DEF C!DoRead
  <2>2. /\ Alone(h) /\ record' = record /\ Works(h)
        /\ Works(h)' => task'[h].want = task[h].want
    <3>1. Works(h)
      BY <2>1, AtIs
    <3>2. (Goes(h) \/ Leaves(h)) /\ record' = record
      BY <1>1, <1>3, ReadGoes
    <3>3. QED
      BY <3>1, <3>2, WantStays
  <2>3. QED
    BY <1>1, <2>1, <2>2, FixedKept
<1>4. ASSUME NEW h \in Handlers, NEW do, C!At(h, do), do # "read", C!Onward(h),
             UNCHANGED <<service, ports>>,
             record'.port = record.port, run'["conf"].port = record.port,
             conf'["conf"] = Torn \/ conf'["conf"].port = record.port
      PROVE  FixedInv'
  <2>1. Alone(h) /\ Works(h) /\ (Works(h)' => task'[h].want = task[h].want)
    BY <1>4, OnwardGoes, AtIs DEF Goes
  <2>2. QED
    BY <1>1, <1>4, <2>1, FixedKept
<1>5. ASSUME NEW h \in Handlers, C!DoWrite(h) PROVE FixedInv'
  <2>1. C!At(h, "write") /\ C!Onward(h) /\ UNCHANGED <<service, run, ports, record>>
        /\ conf' = [conf EXCEPT ![C!Step(h).part] = task[h].want]
    BY <1>5 DEF C!DoWrite
  <2>2. Works(h)
    BY <2>1, AtIs
  <2>3. conf'["conf"] = Torn \/ conf'["conf"].port = record.port
    BY <1>1, <2>1, <2>2
  <2>4. QED
    BY <1>1, <1>4, <2>1, <2>3
<1>6. ASSUME NEW h \in Handlers, C!DoCompare(h) PROVE FixedInv'
  <2>1. Alone(h) /\ Works(h) /\ (Works(h)' => task'[h].want = task[h].want)
    BY <1>6, CompareGoes, AtIs DEF Goes, C!DoCompare
  <2>2. UNCHANGED <<service, conf, run, ports, record>>
    BY <1>6 DEF C!DoCompare
  <2>3. QED
    BY <1>1, <2>1, <2>2, FixedKept
<1>7. ASSUME NEW h \in Handlers, C!DoRestart(h) PROVE FixedInv'
  <2>1. C!At(h, "restart") /\ C!Onward(h) /\ UNCHANGED <<service, conf, ports, record>>
    BY <1>7 DEF C!DoRestart
  <2>2. run'["conf"] = run["conf"] \/ (run'["conf"] = conf["conf"] /\ conf["conf"] # Torn)
    BY <1>1, <1>7 DEF C!DoRestart
  <2>3. QED
    BY <1>1, <1>4, <2>1, <2>2
<1>8. ASSUME NEW h \in Handlers, C!RestartFails(h) PROVE FixedInv'
  <2>1. C!At(h, "restart") /\ C!Onward(h) /\ UNCHANGED <<service, conf, run, ports, record>>
    BY <1>8 DEF C!RestartFails
  <2>2. QED
    BY <1>1, <1>4, <2>1
<1>9. ASSUME NEW h \in Handlers, C!DoOpen(h) PROVE FixedInv'
  <2>1. PICK do \in {"open", "open_if_changed"} : C!At(h, do)
    BY <1>9 DEF C!DoOpen
  <2>2. C!Onward(h) /\ UNCHANGED <<service, conf, run, record>> /\ ports \subseteq ports'
    BY <1>9 DEF C!DoOpen
  <2>3. Alone(h) /\ Works(h) /\ (Works(h)' => task'[h].want = task[h].want)
    BY <2>1, <2>2, OnwardGoes, AtIs DEF Goes
  <2>4. QED
    BY <1>1, <2>2, <2>3, FixedKept
<1>10. ASSUME NEW h \in Handlers, C!DoMove(h) PROVE FALSE
  BY <1>1, <1>10, AtIs DEF C!DoMove, Follows
<1>11. ASSUME NEW h \in Handlers, C!DoSave(h) PROVE FixedInv'
  <2>1. C!At(h, "save") /\ C!Onward(h)
        /\ UNCHANGED <<service, conf, run, ports>> /\ record' = task[h].want
    BY <1>11 DEF C!DoSave
  <2>2. Works(h)
    BY <2>1, AtIs
  <2>3. QED
    BY <1>1, <1>4, <2>1, <2>2
<1>12. ASSUME NEW h \in Handlers, NEW heard \in BOOLEAN, NEW answered \in BOOLEAN,
              C!DoTell(h, heard, answered)
       PROVE  FixedInv'
  <2>1. C!At(h, "tell") /\ UNCHANGED <<service, ports, record>>
    BY <1>12 DEF C!DoTell
  <2>2. Alone(h) /\ Works(h) /\ (Works(h)' => task'[h].want = task[h].want)
    <3>1. Works(h)
      BY <2>1, AtIs
    <3>2. Goes(h) \/ Leaves(h)
      BY <1>12, TellIs
    <3>3. QED
      BY <3>1, <3>2, WantStays
  <2>3. /\ run'["conf"] \in {run["conf"], task[h].want}
        /\ conf'["conf"] \in {conf["conf"], task[h].want}
    BY <1>1, <1>12, TellIs
  <2>4. QED
    BY <1>1, <2>1, <2>2, <2>3, FixedKept
<1>13. ASSUME NEW h \in Handlers, C!CutOff(h) PROVE FixedInv'
  <2>1. Alone(h) /\ ~Works(h)' /\ (conf'["conf"] = conf["conf"] \/ conf'["conf"] = Torn)
    BY <1>1, <1>13, CutOffIs DEF Leaves
  <2>2. UNCHANGED <<service, run, ports, record>>
    BY <1>13 DEF C!CutOff
  <2>3. QED
    BY <1>1, <2>1, <2>2, FixedKept
<1>14. CASE UNCHANGED C!vars
  BY <1>14 DEF C!vars, FixedInv, C!FixedPort, Works
<1>15. QED
  BY <1>2, <1>3, <1>5, <1>6, <1>7, <1>8, <1>9, <1>10, <1>11, <1>12, <1>13, <1>14 DEF C!Next

\* MQVPN's handler moves the port from the one it read.
Old(j) == j.at \in 2..4 => j.before \in C!Docs /\ j.old = j.before.port

OldInv == service = "mqvpn" => \A h \in Handlers : Old(task[h])

LEMMA OldKept ==
  ASSUME OldInv, service = "mqvpn", NEW h \in Handlers, Alone(h), UNCHANGED service, Old(task[h])'
  PROVE  OldInv'
  BY DEF OldInv, Old, Alone

LEMMA OldOnward ==
  ASSUME C!ConstantsOK, TypeInv, OldInv, service = "mqvpn", NEW h \in Handlers, NEW do, C!At(h, do),
         do # "read", UNCHANGED service, Goes(h),
         Works(h)' => task'[h].before = task[h].before /\ task'[h].old = task[h].old
  PROVE  OldInv'
<1>1. task[h].at \in 1..Len(C!Plan) /\ Len(C!Plan) \in Nat
      /\ (task[h].at # 1 \/ task[h].at = Len(C!Plan))
  BY AtIs DEF First
<1>2. CASE task[h].at = Len(C!Plan)
  <2>1. task'[h] = C!Idle
    BY <1>2 DEF Goes
  <2>2. Old(task[h])'
    BY <2>1, IdleIs DEF Old
  <2>3. QED
    BY <2>2, OldKept DEF Goes
<1>3. CASE task[h].at # Len(C!Plan)
  <2>1. Works(h)' /\ task'[h].at = task[h].at + 1
    BY <1>1, <1>3 DEF Goes
  <2>2. Old(task[h])'
    BY <1>1, <1>3, <2>1 DEF Old, OldInv
  <2>3. QED
    BY <2>2, OldKept DEF Goes
<1>4. QED
  BY <1>2, <1>3

LEMMA StepOld ==
  ASSUME C!ConstantsOK, TypeInv, OldInv, [C!Next]_(C!vars)
  PROVE  OldInv'
<1> SUFFICES ASSUME service = "mqvpn"
             PROVE  OldInv'
  <2>1. service' = service
    BY DEF C!Next, C!vars, C!Begin, C!DoRead, C!DoWrite, C!DoCompare, C!DoRestart, C!RestartFails,
           C!DoOpen, C!DoMove,
           C!DoSave, C!DoTell, C!CutOff
  <2>2. QED
    BY <2>1 DEF OldInv
<1>1. ASSUME NEW h \in Handlers, NEW want \in Wants[service], C!Begin(h, want) PROVE OldInv'
  <2>1. Alone(h) /\ task'[h].at = 1 /\ UNCHANGED service
    BY <1>1, BeginIs DEF C!Begin
  <2>2. QED
    BY <2>1, OldKept DEF Old
<1>2. ASSUME NEW h \in Handlers, C!DoRead(h) PROVE OldInv'
  <2>1. C!At(h, "read") /\ UNCHANGED service
    BY <1>2 DEF C!DoRead
  <2>2. /\ C!Step(h).part = "conf" /\ conf["conf"] \in C!Docs \cup {Torn}
        /\ task[h].at \in 1..Len(C!Plan) /\ Len(C!Plan) \in Nat
    BY <2>1, AtIs, PlanLayout DEF Layout, TypeInv, C!TypeOK, C!Parts
  <2>3. CASE Leaves(h)
    BY <2>1, <2>3, OldKept, IdleIs DEF Leaves, Old
  <2>4. CASE ~Leaves(h)
    <3>1. /\ Goes(h) /\ conf["conf"] \in C!Docs
          /\ Works(h)' => task'[h].before = conf["conf"] /\ task'[h].old = conf["conf"].port
      BY <1>2, <2>2, <2>4, ReadGoes
    <3>2. task'[h] = C!Idle \/ Works(h)'
      BY <2>2, <3>1 DEF Goes
    <3>3. QED
      BY <2>1, <3>1, <3>2, OldKept, IdleIs DEF Goes, Old
  <2>5. QED
    BY <2>3, <2>4
<1>3. ASSUME NEW h \in Handlers, NEW do, C!At(h, do), do # "read", C!Onward(h),
                                                                                                         UNCHANGED service PROVE OldInv'
  BY <1>3, OnwardGoes, OldOnward DEF Keeps
<1>4. ASSUME NEW h \in Handlers, C!DoWrite(h) PROVE OldInv'
  BY <1>3, <1>4 DEF C!DoWrite
<1>5. ASSUME NEW h \in Handlers, C!DoCompare(h) PROVE OldInv'
  <2>1. C!At(h, "compare") /\ UNCHANGED service
    BY <1>5 DEF C!DoCompare
  <2>2. QED
    BY <1>5, <2>1, CompareGoes, OldOnward
<1>6. ASSUME NEW h \in Handlers, C!DoRestart(h) \/ C!RestartFails(h) PROVE OldInv'
  BY <1>3, <1>6 DEF C!DoRestart, C!RestartFails
<1>7. ASSUME NEW h \in Handlers, C!DoOpen(h) PROVE OldInv'
  <2>1. PICK do \in {"open", "open_if_changed"} : C!At(h, do)
    BY <1>7 DEF C!DoOpen
  <2>2. C!Onward(h) /\ UNCHANGED service
    BY <1>7 DEF C!DoOpen
  <2>3. QED
    BY <1>3, <2>1, <2>2
<1>8. ASSUME NEW h \in Handlers, C!DoMove(h) \/ C!DoSave(h) PROVE OldInv'
  BY <1>3, <1>8 DEF C!DoMove, C!DoSave
<1>9. ASSUME NEW h \in Handlers, NEW heard \in BOOLEAN, NEW answered \in BOOLEAN,
             C!DoTell(h, heard, answered)
      PROVE  OldInv'
  BY <1>9, TellIs
<1>10. ASSUME NEW h \in Handlers, C!CutOff(h) PROVE OldInv'
  <2>1. Leaves(h) /\ UNCHANGED service
    BY <1>10, CutOffIs DEF C!CutOff
  <2>2. QED
    BY <2>1, OldKept, IdleIs DEF Leaves, Old
<1>11. CASE UNCHANGED C!vars
  BY <1>11 DEF C!vars, OldInv, Old
<1>12. QED
  BY <1>1, <1>2, <1>4, <1>5, <1>6, <1>7, <1>8, <1>9, <1>10, <1>11 DEF C!Next

\* The handler has written its port, or something else, and has yet to open it.
Opens(h) ==
    /\ Works(h)
    /\ \/ /\ service \in Reopeners
          /\ \/ C!Step(h) = C!Compare("conf") /\ task[h].before # conf["conf"]
             \/ C!Step(h) \in {C!Restart("conf"), C!OpenIfChanged} /\ task[h].changed
       \/ service = "glorytun" /\ task[h].at > 3
       \/ service = "dsvpn" /\ task[h].at > 1
       \/ service = "mqvpn" /\ C!Step(h) \in {C!Compare("conf"), C!Move}
          /\ task[h].old # task[h].want.port

WillOpen(port) == port \in ports \/ \E h \in Handlers : Opens(h) /\ task[h].want.port = port

OpenInv == ~C!FixedPort /\ ~shut => WillOpen(conf["conf"].port)

LEMMA OpensStill ==
  ASSUME UNCHANGED service, NEW g, task'[g] = task[g], conf'["conf"] = conf["conf"]
  PROVE  Opens(g)' <=> Opens(g)
<1>1. C!Plan' = C!Plan
  BY DEF C!Plan
<1>2. QED
  BY <1>1 DEF Opens, Works, C!Step

\* A step that leaves the file as it is and closes nothing.
LEMMA OpenSame ==
  ASSUME OpenInv, NEW h \in Handlers, Alone(h), UNCHANGED service, conf'["conf"] = conf["conf"],
         ports \subseteq ports', ~C!FixedPort /\ ~shut' => ~shut,
         ~C!FixedPort /\ ~shut' /\ Opens(h) =>
            (Opens(h)' /\ task'[h].want = task[h].want) \/ task[h].want.port \in ports'
  PROVE  OpenInv'
<1> SUFFICES ASSUME ~C!FixedPort, ~shut'
             PROVE  WillOpen(conf["conf"].port)'
  BY DEF OpenInv, C!FixedPort
<1>1. PICK port : port = conf["conf"].port
  OBVIOUS
<1>2. CASE port \in ports
  BY <1>1, <1>2 DEF WillOpen
<1>3. CASE port \notin ports
  <2>1. PICK g \in Handlers : Opens(g) /\ task[g].want.port = port
    BY <1>1, <1>3 DEF OpenInv, WillOpen
  <2>2. CASE g = h
    BY <1>1, <2>1, <2>2 DEF WillOpen
  <2>3. CASE g # h
    <3>1. task'[g] = task[g]
      BY <2>3 DEF Alone
    <3>2. QED
      BY <1>1, <2>1, <3>1, OpensStill DEF WillOpen
  <2>4. QED
    BY <2>2, <2>3
<1>4. QED
  BY <1>2, <1>3

\* What a handler that has yet to open its port is doing.
LEMMA OpensIs ==
  ASSUME TypeInv, NEW h \in Handlers, Opens(h)
  PROVE  /\ Works(h) /\ task[h].at \in 1..Len(C!Plan) /\ Len(C!Plan) \in Nat
            /\ C!Step(h) = C!Plan[task[h].at]
         /\ Follows(task[h].at) /\ Layout(task[h].at)
         /\ service \in Reopeners => C!Step(h).do \in {"compare", "restart", "open_if_changed"}
         /\ service = "mqvpn" => C!Step(h).do \in {"compare", "move"}
         /\ service \in Reopeners \cup {"glorytun", "dsvpn", "mqvpn"}
<1>1. Works(h)
  BY DEF Opens
<1>2. QED
  BY <1>1, BusyIs, PlanLayout DEF Opens, C!Compare, C!Restart, C!OpenIfChanged, C!Move, TypeInv,
         C!TypeOK, Reopeners

LEMMA ReadOpen ==
  ASSUME C!ConstantsOK, TypeInv, OpenInv, NEW h \in Handlers, C!DoRead(h)
  PROVE  OpenInv'
<1>1. C!At(h, "read") /\ UNCHANGED <<service, conf, ports, shut>>
  BY DEF C!DoRead
<1>2. Alone(h) /\ C!Step(h).do = "read"
  BY <1>1, AtIs, ReadGoes DEF Goes, Leaves
<1>3. ASSUME Opens(h) PROVE Opens(h)' /\ task'[h].want = task[h].want
  <2>1. /\ service \in {"glorytun", "dsvpn"} /\ task[h].at \in 1..Len(C!Plan) /\ Len(C!Plan) \in Nat
        /\ C!Step(h) = C!Plan[task[h].at] /\ Follows(task[h].at) /\ Layout(task[h].at)
    BY <1>2, <1>3, OpensIs
  <2>2. task[h].at > 1
    BY <1>3, <2>1 DEF Opens, Reopeners
  <2>3. C!Step(h).part # "conf" /\ task[h].at < Len(C!Plan)
    BY <1>2, <2>1, <2>2 DEF Follows, Layout
  <2>4. Goes(h)
    BY <2>3, ReadGoes
  <2>5. Works(h)' /\ task'[h].at = task[h].at + 1 /\ task'[h].want = task[h].want
    BY <2>3, <2>4 DEF Goes
  <2>6. Opens(h)'
    BY <1>1, <1>3, <2>1, <2>5 DEF Opens, Reopeners
  <2>7. QED
    BY <2>5, <2>6
<1>4. QED
  BY <1>1, <1>2, <1>3, OpenSame

LEMMA CompareOpen ==
  ASSUME C!ConstantsOK, TypeInv, OpenInv, NEW h \in Handlers, C!DoCompare(h)
  PROVE  OpenInv'
<1>1. C!At(h, "compare") /\ UNCHANGED <<service, conf, ports, shut>>
  BY DEF C!DoCompare
<1>2. /\ Goes(h) /\ Alone(h) /\ C!Step(h).do = "compare" /\ task[h].at < Len(C!Plan)
      /\ task[h].at \in 1..Len(C!Plan) /\ Len(C!Plan) \in Nat
      /\ C!Step(h) = C!Plan[task[h].at]
      /\ task'[h].old = task[h].old
      /\ task'[h].changed <=> task[h].before # conf[C!Step(h).part]
  BY <1>1, AtIs, CompareGoes DEF Goes, Follows
<1>3. Works(h)' /\ task'[h].at = task[h].at + 1 /\ C!Step(h)' = C!Plan[task[h].at + 1]
      /\ task'[h].want = task[h].want
  BY <1>2 DEF Goes
<1>4. ASSUME Opens(h) PROVE Opens(h)'
  <2>1. Layout(task[h].at)
    BY <1>4, OpensIs
  <2>2. CASE service \in Reopeners
    <3>1. C!Step(h).part = "conf" /\ C!Step(h)' = C!Restart("conf")
      BY <1>2, <1>3, <2>1, <2>2 DEF Layout
    <3>2. task[h].before # conf["conf"]
      BY <1>2, <1>4, <2>2, <3>1 DEF Opens, C!Compare, C!Restart, C!OpenIfChanged, Reopeners
    <3>3. QED
      BY <1>1, <1>2, <1>3, <2>2, <3>1, <3>2 DEF Opens
  <2>3. CASE service = "mqvpn"
    <3>1. C!Step(h)' = C!Move /\ task[h].old # task[h].want.port
      BY <1>2, <1>3, <1>4, <2>1, <2>3 DEF Layout, Opens, Reopeners
    <3>2. QED
      BY <1>1, <1>2, <1>3, <2>3, <3>1 DEF Opens
  <2>4. CASE service \in {"glorytun", "dsvpn"}
    BY <1>1, <1>2, <1>3, <1>4, <2>4 DEF Opens, Reopeners
  <2>5. QED
    BY <1>4, <2>2, <2>3, <2>4, OpensIs
<1>5. QED
  BY <1>1, <1>2, <1>3, <1>4, OpenSame

LEMMA RestartOpen ==
  ASSUME C!ConstantsOK, TypeInv, OpenInv, NEW h \in Handlers, C!DoRestart(h) \/ C!RestartFails(h)
  PROVE  OpenInv'
<1>1. C!At(h, "restart") /\ C!Onward(h) /\ UNCHANGED <<service, conf, ports, shut>>
  BY DEF C!DoRestart, C!RestartFails
<1>2. /\ Goes(h) /\ Keeps(h) /\ Alone(h) /\ C!Step(h).do = "restart"
         /\ task[h].at \in 1..Len(C!Plan)
      /\ Len(C!Plan) \in Nat /\ C!Step(h) = C!Plan[task[h].at]
  BY <1>1, AtIs, OnwardGoes DEF Goes
<1>3. ASSUME Opens(h) PROVE Opens(h)' /\ task'[h].want = task[h].want
  <2>1. Layout(task[h].at) /\ service \in Reopeners \cup {"glorytun", "dsvpn"}
    BY <1>2, <1>3, OpensIs
  <2>2. task[h].at < Len(C!Plan)
    BY <1>2, <2>1 DEF Layout, Reopeners
  <2>3. /\ Works(h)' /\ task'[h].at = task[h].at + 1 /\ C!Step(h)' = C!Plan[task[h].at + 1]
        /\ task'[h].want = task[h].want
    BY <1>2, <2>2 DEF Goes
  <2>4. CASE service \in Reopeners
    <3>1. C!Step(h)' = C!OpenIfChanged
      BY <1>2, <2>1, <2>3, <2>4 DEF Layout
    <3>2. task[h].changed
      BY <1>2, <1>3, <2>4 DEF Opens, C!Compare, C!Restart, C!OpenIfChanged, Reopeners
    <3>3. task'[h].changed
      BY <1>2, <2>3, <3>2 DEF Keeps
    <3>4. QED
      BY <1>1, <2>3, <2>4, <3>1, <3>3 DEF Opens
  <2>5. CASE service \in {"glorytun", "dsvpn"}
    BY <1>1, <1>2, <1>3, <2>3, <2>5 DEF Opens, Reopeners
  <2>6. QED
    BY <2>1, <2>4, <2>5
<1>4. QED
  BY <1>1, <1>2, <1>3, OpenSame

LEMMA OpenOpen ==
  ASSUME C!ConstantsOK, TypeInv, OpenInv, NEW h \in Handlers, C!DoOpen(h)
  PROVE  OpenInv'
<1>1. PICK do \in {"open", "open_if_changed"} : C!At(h, do)
  BY DEF C!DoOpen
<1>2. C!Onward(h) /\ UNCHANGED <<service, conf, run>> /\ ports \subseteq ports'
  BY DEF C!DoOpen
<1>3. Alone(h) /\ C!Step(h).do = do
  BY <1>1, <1>2, AtIs, OnwardGoes DEF Goes
<1>4. shut \in BOOLEAN
  BY DEF TypeInv, C!TypeOK
<1>5. CASE shut /\ ~shut'
  <2>1. run["conf"] = conf["conf"] /\ run["conf"].port \in ports'
    BY <1>4, <1>5 DEF C!DoOpen
  <2>2. QED
    BY <1>2, <2>1 DEF OpenInv, WillOpen
<1>6. CASE ~(shut /\ ~shut')
  <2>1. ASSUME Opens(h) PROVE task[h].want.port \in ports'
    <3>1. do = "open_if_changed" => service \in Reopeners
      BY <1>3, <2>1, OpensIs DEF Layout
    <3>2. do = "open_if_changed" => task[h].changed
      BY <1>3, <2>1, <3>1 DEF Opens, C!Compare, C!Restart, C!OpenIfChanged, Reopeners
    <3>3. QED
      BY <1>3, <3>2 DEF C!DoOpen
  <2>2. QED
    BY <1>2, <1>3, <1>6, <2>1, OpenSame
<1>7. QED
  BY <1>5, <1>6

LEMMA MoveOpen ==
  ASSUME C!ConstantsOK, TypeInv, OpenInv, NEW h \in Handlers, C!DoMove(h)
  PROVE  OpenInv'
<1>1. PICK w, o : w = task[h].want /\ o = task[h].old
  OBVIOUS
<1>2. /\ C!At(h, "move") /\ C!Onward(h) /\ UNCHANGED <<service, conf>>
      /\ ports' = IF o = w.port THEN ports ELSE (ports \cup {w.port}) \ {o}
  BY <1>1 DEF C!DoMove
<1>3. ~shut' => ~shut /\ conf["conf"] = w
  BY <1>1 DEF C!DoMove
<1>4. Alone(h) /\ C!Step(h).do = "move" /\ service = "mqvpn"
  BY <1>2, AtIs, OnwardGoes DEF Goes, Follows
<1>5. CASE o = w.port
  <2>1. ~Opens(h)
    BY <1>1, <1>4, <1>5 DEF Opens, Reopeners
  <2>2. QED
    BY <1>2, <1>3, <1>4, <1>5, <2>1, OpenSame
<1>6. CASE o # w.port
  <2>1. w.port \in ports'
    BY <1>2, <1>6
  <2>2. QED
    BY <1>2, <1>3, <2>1 DEF OpenInv, WillOpen
<1>7. QED
  BY <1>5, <1>6

LEMMA WriteOpen ==
  ASSUME C!ConstantsOK, TypeInv, OldInv, OpenInv, NEW h \in Handlers, C!DoWrite(h)
  PROVE  OpenInv'
<1>1. PICK w, p : w = task[h].want /\ p = C!Step(h).part
  OBVIOUS
<1>2. /\ C!At(h, "write") /\ C!Onward(h) /\ UNCHANGED <<service, ports>>
      /\ conf' = [conf EXCEPT ![p] = w] /\ shut' = (shut \/ C!WritesOver(h, p))
  BY <1>1 DEF C!DoWrite
<1>3. /\ Goes(h) /\ Keeps(h) /\ Alone(h) /\ C!Step(h).do = "write" /\ task[h].at \in 1..Len(C!Plan)
      /\ Len(C!Plan) \in Nat /\ C!Step(h) = C!Plan[task[h].at] /\ Follows(task[h].at)
         /\ Layout(task[h].at)
      /\ JobFits(task[h]) /\ DOMAIN conf = C!Parts /\ "conf" \in C!Parts /\ service \in C!Services
  BY <1>2, AtIs, OnwardGoes, PlanLayout DEF Goes, TypeInv, C!TypeOK, C!Parts
<1> SUFFICES ASSUME ~C!FixedPort, ~shut'
             PROVE  WillOpen(conf["conf"].port)'
  BY <1>2 DEF OpenInv, C!FixedPort
<1>4. ~shut /\ ~C!WritesOver(h, p)
  BY <1>2
<1>5. service \in Reopeners \cup {"glorytun", "dsvpn", "mqvpn"}
  BY <1>3 DEF C!FixedPort, C!Services, Reopeners
<1>6. ASSUME task[h].at < Len(C!Plan)
      PROVE  /\ Works(h)' /\ task'[h].at = task[h].at + 1 /\ C!Step(h)' = C!Plan[task[h].at + 1]
             /\ task'[h].want = w /\ task'[h].before = task[h].before /\ task'[h].old = task[h].old
  BY <1>1, <1>3, <1>6 DEF Goes, Keeps
<1>7. ASSUME conf'["conf"] = conf["conf"], Opens(h) => Opens(h)' /\ task'[h].want = w
      PROVE  WillOpen(conf["conf"].port)'
  <2>1. OpenInv'
    BY <1>1, <1>2, <1>3, <1>4, <1>7, OpenSame
  <2>2. QED
    BY <1>2, <2>1 DEF OpenInv, C!FixedPort
<1>8. CASE p # "conf"
  <2>1. ASSUME Opens(h) PROVE Opens(h)' /\ task'[h].want = w
    <3>1. service \in {"glorytun", "dsvpn"}
      BY <1>3, <2>1, OpensIs
    <3>2. task[h].at < Len(C!Plan)
      BY <1>3, <3>1 DEF Layout
    <3>3. QED
      BY <1>2, <1>3, <1>6, <2>1, <3>1, <3>2 DEF Opens, Reopeners
  <2>2. QED
    BY <1>2, <1>7, <1>8, <2>1
<1>9. CASE p = "conf" /\ service \in {"glorytun", "dsvpn"}
  <2>1. task[h].at < Len(C!Plan) /\ (service = "glorytun" => task[h].at = 3)
        /\ (service = "dsvpn" => task[h].at = 1)
    BY <1>1, <1>3, <1>9, PlanShape DEF Layout
  <2>2. Opens(h)'
    BY <1>2, <1>3, <1>6, <1>9, <2>1 DEF Opens
  <2>3. conf'["conf"] = w
    BY <1>2, <1>3, <1>9
  <2>4. QED
    BY <1>6, <2>1, <2>2, <2>3 DEF WillOpen
<1>10. CASE p = "conf" /\ service \in Reopeners \cup {"mqvpn"}
  <2>1. task[h].at > First /\ task[h].at < Len(C!Plan) /\ C!Plan[task[h].at + 1] = C!Compare("conf")
        /\ (service = "mqvpn" => task[h].at = 2)
    BY <1>1, <1>3, <1>10 DEF Layout, Follows
  <2>2. task[h].before = conf["conf"]
    BY <1>3, <1>4, <1>10, <2>1 DEF JobFits, C!WritesOver
  <2>3. conf'["conf"] = w
    BY <1>2, <1>3, <1>10
  <2>4. Works(h)' /\ C!Step(h)' = C!Compare("conf") /\ task'[h].want = w
        /\ task'[h].before = conf["conf"] /\ task'[h].old = task[h].old
    BY <1>6, <2>1, <2>2
  <2>5. ~Opens(h)
    BY <1>3, <1>10, OpensIs DEF Reopeners
  <2>6. CASE w = conf["conf"]
    BY <1>7, <2>3, <2>5, <2>6
  <2>7. CASE w # conf["conf"] /\ service \in Reopeners
    <3>1. Opens(h)'
      BY <1>2, <2>3, <2>4, <2>7 DEF Opens
    <3>2. QED
      BY <2>3, <2>4, <3>1 DEF WillOpen
  <2>8. CASE service = "mqvpn" /\ task[h].old # w.port
    <3>1. Opens(h)'
      BY <1>2, <2>3, <2>4, <2>8 DEF Opens
    <3>2. QED
      BY <2>3, <2>4, <3>1 DEF WillOpen
  <2>9. CASE service = "mqvpn" /\ task[h].old = w.port
    <3>1. conf["conf"].port = w.port
      BY <2>1, <2>2, <2>9 DEF OldInv, Old
    <3>2. CASE w.port \in ports
      BY <1>2, <2>3, <3>2 DEF WillOpen
    <3>3. CASE w.port \notin ports
      <4>1. PICK g \in Handlers : Opens(g) /\ task[g].want.port = w.port
        BY <1>4, <3>1, <3>3 DEF OpenInv, WillOpen
      <4>2. g # h
        BY <2>5, <4>1
      <4>3. task'[g] = task[g] /\ C!Plan' = C!Plan
        BY <1>2, <1>3, <4>2 DEF Alone, C!Plan
      <4>4. Opens(g)'
        BY <1>2, <2>9, <4>1, <4>3 DEF Opens, Works, C!Step, Reopeners
      <4>5. QED
        BY <2>3, <4>1, <4>3, <4>4 DEF WillOpen
    <3>4. QED
      BY <3>2, <3>3
  <2>10. QED
    BY <1>10, <2>6, <2>7, <2>8, <2>9
<1>11. QED
  BY <1>5, <1>8, <1>9, <1>10

LEMMA StepOpen ==
  ASSUME C!ConstantsOK, TypeInv, TornInv, OldInv, OpenInv, [C!Next]_(C!vars)
  PROVE  OpenInv'
<1>1. ASSUME NEW h \in Handlers, NEW want \in Wants[service], C!Begin(h, want) PROVE OpenInv'
  <2>1. Alone(h) /\ ~Opens(h) /\ UNCHANGED <<service, conf, ports, shut>>
    BY <1>1, BeginIs DEF C!Begin, Opens
  <2>2. QED
    BY <2>1, OpenSame
<1>2. ASSUME NEW h \in Handlers, C!DoSave(h) PROVE OpenInv'
  <2>1. C!At(h, "save") /\ C!Onward(h) /\ UNCHANGED <<service, conf, ports, shut>>
    BY <1>2 DEF C!DoSave
  <2>2. Alone(h) /\ C!Step(h).do = "save"
    BY <2>1, AtIs, OnwardGoes DEF Goes
  <2>3. ~Opens(h)
    BY <2>2, OpensIs DEF Layout
  <2>4. QED
    BY <2>1, <2>2, <2>3, OpenSame
<1>3. ASSUME NEW h \in Handlers, NEW heard \in BOOLEAN, NEW answered \in BOOLEAN,
             C!DoTell(h, heard, answered)
      PROVE  OpenInv'
  <2>1. service = "softethervpn" /\ service' = service
    BY <1>3, TellIs DEF C!DoTell
  <2>2. QED
    BY <2>1 DEF OpenInv, C!FixedPort
<1>4. ASSUME NEW h \in Handlers, C!CutOff(h) PROVE OpenInv'
  BY <1>4 DEF C!CutOff, OpenInv
<1>5. CASE UNCHANGED C!vars
  <2>1. UNCHANGED <<service, conf, ports, task, shut>>
    BY <1>5 DEF C!vars
  <2>2. \A g : Opens(g)' <=> Opens(g)
    BY <2>1, OpensStill
  <2>3. QED
    BY <2>1, <2>2 DEF OpenInv, C!FixedPort, WillOpen
<1>6. QED
  BY <1>1, <1>2, <1>3, <1>4, <1>5, ReadOpen, WriteOpen, CompareOpen, RestartOpen, OpenOpen,
         MoveOpen DEF C!Next

----------------------------------------------------------------------------
(* ServiceConfig: what the user's record says *)

Savers == {"shadowsocks", "shadowsocks_go"}

\* One request after the other, and what it has saved so far.
SaveInv == ~met =>
    /\ \A g, h \in Handlers : Works(g) /\ Works(h) => g = h
    /\ service \in Savers =>
         /\ C!AtRest => record = conf["conf"]
         /\ \A h \in Handlers : Works(h) =>
              /\ task[h].at > 2 => record = task[h].want
              /\ task[h].at > 3 => conf["conf"] = task[h].want
    /\ service = "softethervpn" =>
         /\ C!AtRest => record = run["key"]
         /\ \A h \in Handlers : Works(h) /\ task[h].at > 2 => run["key"] = task[h].want

\* Which steps save, write or tell.
Saves(i) ==
    /\ service \in Savers =>
         /\ Len(C!Plan) = 6 /\ C!Plan[i].part = "conf" /\ C!Plan[i].do # "tell"
         /\ C!Plan[i].do = "save" <=> i = 2
         /\ C!Plan[i].do = "write" <=> i = 3
    /\ service = "softethervpn" =>
         /\ Len(C!Plan) = 3 /\ C!Plan[i].do \in {"tell", "save"}
         /\ C!Plan[i].do = "save" <=> i = 3
         /\ C!Plan[i].part = "key" <=> i > 1

LEMMA PlanSaves ==
  ASSUME service \in C!Services
  PROVE  \A i \in 1..Len(C!Plan) : Saves(i)
<1> USE DEF C!Read, C!Write, C!Compare, C!Restart, C!OpenIfChanged, C!Save, C!Tell, Saves, Savers
<1>1. CASE service \in Savers
  <2>1. C!Plan = <<C!Read("conf"), C!Save("conf"), C!Write("conf"), C!Compare("conf"), C!Restart("conf"),
                 C!OpenIfChanged>>
    BY <1>1 DEF C!Plan, C!shadowsocks, C!shadowsocks_go
  <2>2. QED
    BY <1>1, <2>1
<1>2. CASE service = "softethervpn"
  <2>1. C!Plan = <<C!Tell("conf"), C!Tell("key"), C!Save("key")>>
    BY <1>2 DEF C!Plan, C!softethervpn
  <2>2. QED
    BY <1>2, <2>1
<1>3. QED
  BY <1>1, <1>2

\* The step of a request that met no other.
LEMMA SaveGoes ==
  ASSUME TypeInv, SaveInv, ~met, NEW h \in Handlers, Works(h), Goes(h), UNCHANGED service,
         service \in Savers =>
           /\ record' = IF task[h].at = 2 THEN task[h].want ELSE record
           /\ conf'["conf"] = IF task[h].at = 3 THEN task[h].want ELSE conf["conf"],
         service = "softethervpn" =>
           /\ record' = IF task[h].at = 3 THEN task[h].want ELSE record
           /\ run'["key"] = IF task[h].at = 2 THEN task[h].want ELSE run["key"]
  PROVE  SaveInv'
<1>1. \A g \in Handlers \ {h} : ~Works(g) /\ ~Works(g)' /\ task'[g] = C!Idle
  BY DEF SaveInv, Works, Goes, Alone
<1>2. task[h].at \in 1..Len(C!Plan) /\ Len(C!Plan) \in Nat /\ Saves(task[h].at)
  BY BusyIs, PlanSaves DEF TypeInv, C!TypeOK
<1>3. Works(h)' <=> task[h].at < Len(C!Plan)
  BY <1>2 DEF Goes
<1>4. Works(h)' => task'[h].at = task[h].at + 1 /\ task'[h].want = task[h].want
  BY <1>2, <1>3 DEF Goes
<1>5. C!AtRest' => ~Works(h)'
  BY DEF C!AtRest, Works
<1>6. CASE service \in Savers
  <2>1. Len(C!Plan) = 6
    BY <1>2, <1>6 DEF Saves
  <2>2. /\ task[h].at > 2 => record = task[h].want
        /\ task[h].at > 3 => conf["conf"] = task[h].want
    BY <1>6 DEF SaveInv
  <2>3. /\ task[h].at + 1 > 2 => record' = task[h].want
        /\ task[h].at + 1 > 3 => conf'["conf"] = task[h].want
    BY <1>2, <1>6, <2>2
  <2>4. C!AtRest' => record' = conf'["conf"]
    BY <1>2, <1>3, <1>5, <2>1, <2>3
  <2>5. \A g \in Handlers : Works(g)' => g = h
    BY <1>1
  <2>6. QED
    BY <1>4, <1>6, <2>3, <2>4, <2>5 DEF SaveInv, Savers
<1>7. CASE service = "softethervpn"
  <2>1. Len(C!Plan) = 3
    BY <1>2, <1>7 DEF Saves
  <2>2. task[h].at + 1 > 2 => run'["key"] = task[h].want
    BY <1>2, <1>7 DEF SaveInv
  <2>3. C!AtRest' => record' = run'["key"]
    BY <1>2, <1>3, <1>5, <1>7, <2>1, <2>2
  <2>4. \A g \in Handlers : Works(g)' => g = h
    BY <1>1
  <2>5. QED
    BY <1>4, <1>7, <2>2, <2>3, <2>4 DEF SaveInv, Savers
<1>8. CASE service \notin Savers \cup {"softethervpn"}
  BY <1>1, <1>8 DEF SaveInv
<1>9. QED
  BY <1>6, <1>7, <1>8

LEMMA StepSave ==
  ASSUME C!ConstantsOK, TypeInv, SaveInv, [C!Next]_(C!vars)
  PROVE  SaveInv'
<1>1. /\ DOMAIN conf = C!Parts /\ DOMAIN run = C!Parts /\ "conf" \in C!Parts /\ "key" \in C!Parts
      /\ met \in BOOLEAN /\ service \in C!Services
  BY DEF TypeInv, C!TypeOK, C!Parts
<1>2. ASSUME met' PROVE SaveInv'
  BY <1>2 DEF SaveInv
<1>3. ASSUME NEW h \in Handlers, NEW do, C!At(h, do)
      PROVE  Works(h) /\ C!Step(h).do = do /\ C!Step(h) = C!Plan[task[h].at] /\ Saves(task[h].at)
             /\ task[h].at \in 1..Len(C!Plan)
  BY <1>1, <1>3, AtIs, PlanSaves
<1>4. ASSUME NEW h \in Handlers, NEW want \in Wants[service], C!Begin(h, want), ~met' PROVE SaveInv'
  <2>1. \A g \in Handlers : ~Works(g)
    BY <1>4 DEF C!Begin, Works
  <2>2. Alone(h) /\ Works(h)' /\ task'[h].at = 1
    BY <1>4, BeginIs
  <2>3. \A g \in Handlers : Works(g)' => g = h
    BY <2>1, <2>2 DEF Alone, Works
  <2>4. ~C!AtRest'
    BY <2>2 DEF C!AtRest, Works
  <2>5. QED
    BY <2>2, <2>3, <2>4 DEF SaveInv
<1>5. ASSUME NEW h \in Handlers, C!DoRead(h), ~met' PROVE SaveInv'
  <2>1. C!At(h, "read") /\ UNCHANGED <<service, conf, run>>
    BY <1>5 DEF C!DoRead
  <2>2. Goes(h) /\ UNCHANGED <<record, met>>
    BY <1>5, ReadGoes
  <2>3. Works(h) /\ (service \in Savers => task[h].at \notin {2, 3}) /\ service # "softethervpn"
    BY <1>3, <2>1 DEF Saves
  <2>4. QED
    BY <1>5, <2>1, <2>2, <2>3, SaveGoes
<1>6. ASSUME NEW h \in Handlers, C!DoWrite(h), ~met' PROVE SaveInv'
  <2>1. C!At(h, "write") /\ C!Onward(h) /\ UNCHANGED <<service, run, record, met>>
        /\ conf' = [conf EXCEPT ![C!Step(h).part] = task[h].want]
    BY <1>6 DEF C!DoWrite
  <2>2. /\ Works(h) /\ Goes(h) /\ service # "softethervpn"
        /\ service \in Savers => task[h].at = 3 /\ C!Step(h).part = "conf"
    BY <1>3, <2>1, OnwardGoes DEF Saves
  <2>3. service \in Savers => conf'["conf"] = task[h].want
    BY <1>1, <2>1, <2>2
  <2>4. QED
    BY <1>6, <2>1, <2>2, <2>3, SaveGoes
<1>7. ASSUME NEW h \in Handlers, C!DoCompare(h), ~met' PROVE SaveInv'
  <2>1. C!At(h, "compare") /\ UNCHANGED <<service, conf, run, record, met>>
    BY <1>7 DEF C!DoCompare
  <2>2. Works(h) /\ (service \in Savers => task[h].at \notin {2, 3}) /\ service # "softethervpn"
    BY <1>3, <2>1 DEF Saves
  <2>3. QED
    BY <1>7, <2>1, <2>2, CompareGoes, SaveGoes
<1>8. ASSUME NEW h \in Handlers, NEW do \in {"restart", "open", "open_if_changed", "move"},
             C!At(h, do),
             C!Onward(h), UNCHANGED <<service, conf, record, met>>, ~met'
      PROVE  SaveInv'
  <2>1. Works(h) /\ (service \in Savers => task[h].at \notin {2, 3}) /\ service # "softethervpn"
    BY <1>3, <1>8 DEF Saves
  <2>2. QED
    BY <1>8, <2>1, OnwardGoes, SaveGoes
<1>9. ASSUME NEW h \in Handlers,
             C!DoRestart(h) \/ C!RestartFails(h) \/ C!DoOpen(h) \/ C!DoMove(h), ~met'
      PROVE  SaveInv'
  <2>1. PICK do \in {"restart", "open", "open_if_changed", "move"} : C!At(h, do)
    BY <1>9 DEF C!DoRestart, C!RestartFails, C!DoOpen, C!DoMove
  <2>2. C!Onward(h) /\ UNCHANGED <<service, conf, record, met>>
    BY <1>9 DEF C!DoRestart, C!RestartFails, C!DoOpen, C!DoMove
  <2>3. QED
    BY <1>8, <1>9, <2>1, <2>2
<1>10. ASSUME NEW h \in Handlers, C!DoSave(h), ~met' PROVE SaveInv'
  <2>1. C!At(h, "save") /\ C!Onward(h)
        /\ UNCHANGED <<service, conf, run, met>> /\ record' = task[h].want
    BY <1>10 DEF C!DoSave
  <2>2. /\ Works(h) /\ Goes(h) /\ (service \in Savers => task[h].at = 2)
        /\ (service = "softethervpn" => task[h].at = 3)
    BY <1>3, <2>1, OnwardGoes DEF Saves
  <2>3. QED
    BY <1>10, <2>1, <2>2, SaveGoes
<1>11. ASSUME NEW h \in Handlers, NEW heard \in BOOLEAN, NEW answered \in BOOLEAN,
              C!DoTell(h, heard, answered), ~met'
       PROVE  SaveInv'
  <2>1. C!At(h, "tell") /\ UNCHANGED <<service, record>> /\ service = "softethervpn"
    BY <1>11, TellIs DEF C!DoTell
  <2>2. /\ Goes(h) /\ met' = (met \/ (C!Step(h).part = "key" /\ ~heard))
        /\ \/ run' = [run EXCEPT ![C!Step(h).part] = task[h].want]
           \/ ~heard /\ UNCHANGED run
    BY <1>11, TellIs
  <2>3. Works(h) /\ task[h].at # 3 /\ (C!Step(h).part = "key" <=> task[h].at = 2)
    BY <1>3, <2>1 DEF Saves
  <2>4. ~met /\ (C!Step(h).part = "key" => heard)
    BY <1>11, <2>2
  <2>5. run'["key"] = IF task[h].at = 2 THEN task[h].want ELSE run["key"]
    BY <1>1, <2>2, <2>3, <2>4
  <2>6. QED
    BY <1>11, <2>1, <2>2, <2>3, <2>4, <2>5, SaveGoes DEF Savers
<1>12. ASSUME NEW h \in Handlers, C!CutOff(h) PROVE SaveInv'
  BY <1>12 DEF C!CutOff, SaveInv
<1>13. CASE UNCHANGED C!vars
  BY <1>13 DEF C!vars, SaveInv, Works, C!AtRest
<1>14. QED
  BY <1>2, <1>4, <1>5, <1>6, <1>7, <1>9, <1>10, <1>11, <1>12, <1>13 DEF C!Next

----------------------------------------------------------------------------
(* ServiceConfig: a service's files, its port and the user's record *)

FilesInv == TypeInv /\ TornInv /\ LagInv /\ FixedInv /\ OldInv /\ OpenInv /\ SaveInv

LEMMA InitFiles == C!ConstantsOK /\ C!Init => FilesInv
<1> SUFFICES ASSUME C!ConstantsOK, C!Init
             PROVE  FilesInv
  OBVIOUS
<1>1. PICK d \in Wants[service] :
         /\ conf = [p \in C!Parts |-> d] /\ run = [p \in C!Parts |-> d] /\ ports = {d.port}
            /\ record = d
  BY DEF C!Init
<1>2. /\ service \in C!Services /\ task = [h \in Handlers |-> C!Idle] /\ aside = {} /\ shut = FALSE
      /\ met = FALSE /\ asked = 0 /\ hits = 0
  BY DEF C!Init
<1>3. d \in C!Docs /\ d.port \in ServicePorts /\ d # Torn /\ MaxRequests \in Nat
      /\ FewFaults \in Nat
      /\ "conf" \in C!Parts /\ "key" \in C!Parts
  BY <1>1, <1>2 DEF C!ConstantsOK, C!Docs, C!Parts
<1>4. \A h \in Handlers : task[h] = C!Idle /\ ~Works(h)
  BY <1>2 DEF Works
<1>5. TypeInv
  <2>1. task \in [Handlers -> Jobs]
    BY <1>2, IdleIs
  <2>2. conf \in [C!Parts -> C!Docs \cup {Torn}] /\ run \in [C!Parts -> C!Docs]
        /\ ports \in SUBSET ServicePorts
    BY <1>1, <1>3
  <2>3. 0 \in 0..MaxRequests /\ 0 \in 0..FewFaults
    BY <1>3
  <2>4. QED
    BY <1>1, <1>2, <1>3, <1>4, <2>1, <2>2, <2>3 DEF TypeInv, C!TypeOK
<1>6. TornInv
  BY <1>1, <1>3, ReadByIs DEF TornInv
<1>7. LagInv
  BY <1>1 DEF LagInv
<1>8. FixedInv /\ OpenInv
  BY <1>1, <1>3, <1>4 DEF FixedInv, OpenInv, WillOpen
<1>9. OldInv
  BY <1>4, IdleIs DEF OldInv, Old
<1>10. SaveInv
  BY <1>1, <1>3, <1>4 DEF SaveInv
<1>11. QED
  BY <1>5, <1>6, <1>7, <1>8, <1>9, <1>10 DEF FilesInv

LEMMA NextFiles == C!ConstantsOK /\ FilesInv /\ [C!Next]_(C!vars) => FilesInv'
  BY StepTypes, StepTorn, StepLag, StepFixed, StepOld, StepOpen, StepSave DEF FilesInv

LEMMA FilesShow ==
  ASSUME FilesInv
  PROVE  C!TypeOK /\ C!RunsItsFiles /\ C!ListensOpen /\ C!SavedIsRun
<1>1. C!TypeOK
  BY DEF FilesInv, TypeInv
<1>2. C!AtRest => \A h \in Handlers : ~Works(h)
  BY DEF C!AtRest, Works
<1>3. C!RunsItsFiles
  BY <1>2 DEF C!RunsItsFiles, FilesInv, LagInv, Owes
<1>4. C!ListensOpen
  <2> SUFFICES ASSUME C!AtRest, ~shut
               PROVE  /\ "conf" \notin aside => run["conf"].port \in ports
                      /\ ~C!FixedPort => conf["conf"].port \in ports
    BY DEF C!ListensOpen
  <2>1. "conf" \notin aside => run["conf"] = conf["conf"]
    BY <1>3 DEF C!RunsItsFiles, C!Parts
  <2>2. CASE C!FixedPort
    BY <2>2 DEF FilesInv, FixedInv
  <2>3. CASE ~C!FixedPort
    BY <1>2, <2>1, <2>3 DEF FilesInv, OpenInv, WillOpen, Opens
  <2>4. QED
    BY <2>2, <2>3
<1>5. C!SavedIsRun
  BY <1>3 DEF C!SavedIsRun, FilesInv, SaveInv, Savers, C!RunsItsFiles, C!Parts
<1>6. QED
  BY <1>1, <1>3, <1>4, <1>5

----------------------------------------------------------------------------
(* The theorems about Provision and Vxlan hold of MCServices' behaviours *)

PP == INSTANCE ProvisionProofs WITH
        Users <- NewUsers, Longer <- LongerNames, Adds <- NewUserAsks, MaxFaults <- SomeFaults,
        job <- task, faults <- hits

VV == INSTANCE VxlanProofs WITH
        Users <- UserIds, Ports <- UdpPorts, Requests <- TunnelRequests, MaxTroubles <- FewFaults,
        file <- conf, job <- task, apart <- aside, faults <- hits

LEMMA UsersNext == P!Next => PP!Next
  BY DEF P!Ids, PP!Ids, P!Ports, PP!Ports, P!NameFiles, PP!NameFiles, P!KeyFiles, PP!KeyFiles,
         P!Daemons, PP!Daemons, P!Records, PP!Records, P!Taken, PP!Taken, P!AddPlan, PP!AddPlan,
         P!RemovePlan, PP!RemovePlan, P!Plan, PP!Plan, P!Idle, PP!Idle, P!NextPort, PP!NextPort,
         P!add_ss_user, PP!add_ss_user, P!remove_ss_user, PP!remove_ss_user, P!v2ray_add_user,
         PP!v2ray_add_user, P!xray_add_user, PP!xray_add_user, P!v2ray_del_user, PP!v2ray_del_user,
         P!xray_del_user, PP!xray_del_user, P!Tunnel, PP!Tunnel, P!NoTunnel, PP!NoTunnel,
         P!add_glorytun_tcp, PP!add_glorytun_tcp, P!remove_glorytun_tcp, PP!remove_glorytun_tcp,
         P!add_glorytun_udp, PP!add_glorytun_udp, P!remove_glorytun_udp, PP!remove_glorytun_udp,
         P!add_dsvpn, PP!add_dsvpn, P!remove_dsvpn, PP!remove_dsvpn, P!NextId, PP!NextId, P!SameId, PP!SameId, P!StartAdd,
         PP!StartAdd, P!DropEntries, PP!DropEntries, P!Named, PP!Named, P!GivenPortFails,
         PP!GivenPortFails, P!RevokeCertificate, PP!RevokeCertificate, P!StartRemove, PP!StartRemove, P!At, PP!At, P!OnDisk, PP!OnDisk, P!Onward,
         PP!Onward, P!BuildCertificate, PP!BuildCertificate, P!CertificateFails, PP!CertificateFails,
         P!AddShadowsocks, PP!AddShadowsocks, P!Skipped, PP!Skipped, P!Skip, PP!Skip, P!AddToFile,
         PP!AddToFile, P!RemoveFromFile, PP!RemoveFromFile, P!Save, PP!Save, P!Call, PP!Call,
         P!add_ss_go_user, PP!add_ss_go_user, P!remove_ss_go_user, PP!remove_ss_go_user,
         P!add_softether_user, PP!add_softether_user, P!remove_softether_user,
         PP!remove_softether_user, P!AddToDaemon, PP!AddToDaemon, P!RemoveFromDaemon,
         PP!RemoveFromDaemon, P!add_mqvpn, PP!add_mqvpn, P!AddMqvpn, PP!AddMqvpn, P!remove_mqvpn,
         PP!remove_mqvpn, P!CutOff, PP!CutOff, P!sync_ss_go_users, PP!sync_ss_go_users,
         P!MqvpnRestarts, PP!MqvpnRestarts, P!Next, PP!Next, P!Max, PP!Max

LEMMA TunnelsNext == V!Next => VV!Next
<1> USE DEF V!Idle, VV!Idle, V!get_vxlan_config, VV!get_vxlan_config, V!Given, VV!Given,
            V!_merge_vxlan_config, VV!_merge_vxlan_config, V!SameVni, VV!SameVni, V!SamePort,
            VV!SamePort, V!Refused, VV!Refused, V!User, VV!User, V!Crossed, VV!Crossed, V!Busy,
            VV!Busy, V!Goto, VV!Goto, V!End, VV!End, V!Known, VV!Known, V!Rendered, VV!Rendered,
            V!Taken, VV!Taken, V!HalfWritten, VV!HalfWritten, V!Devices, VV!Devices, V!Tunnels,
            VV!Tunnels, V!Differing, VV!Differing, V!Rank, VV!Rank, V!OnToVxlan, VV!OnToVxlan
<1>1. ASSUME NEW h \in Handlers, NEW r \in TunnelRequests, V!Begin(h, r) PROVE VV!Begin(h, r)
  BY <1>1 DEF V!Begin, VV!Begin
<1>2. ASSUME NEW h \in Handlers, V!Merge(h) PROVE VV!Merge(h)
  BY <1>2 DEF V!Merge, VV!Merge
<1>3. ASSUME NEW h \in Handlers, V!Check(h) PROVE VV!Check(h)
  BY <1>3 DEF V!Check, VV!Check
<1>4. ASSUME NEW h \in Handlers, V!Save(h) PROVE VV!Save(h)
  BY <1>4 DEF V!Save, VV!Save
<1>5. ASSUME NEW h \in Handlers, V!ReadAll(h) PROVE VV!ReadAll(h)
  BY <1>5 DEF V!ReadAll, VV!ReadAll
<1>6. ASSUME NEW h \in Handlers, V!SaveVpn(h) PROVE VV!SaveVpn(h)
  BY <1>6 DEF V!SaveVpn, VV!SaveVpn
<1>7. ASSUME NEW h \in Handlers, V!WriteSixin4(h) PROVE VV!WriteSixin4(h)
  BY <1>7 DEF V!WriteSixin4, VV!WriteSixin4
<1>8. ASSUME NEW h \in Handlers, V!RestartSixin4(h) PROVE VV!RestartSixin4(h)
  BY <1>8 DEF V!RestartSixin4, VV!RestartSixin4
<1>9. ASSUME NEW h \in Handlers, V!ReadConf(h) PROVE VV!ReadConf(h)
  BY <1>9 DEF V!ReadConf, VV!ReadConf
<1>10. ASSUME NEW h \in Handlers, V!WriteConf(h) PROVE VV!WriteConf(h)
  BY <1>10 DEF V!WriteConf, VV!WriteConf
<1>11. ASSUME NEW h \in Handlers, V!StartUnit(h) PROVE VV!StartUnit(h)
  BY <1>11 DEF V!StartUnit, VV!StartUnit
<1>12. ASSUME NEW h \in Handlers, V!StopUnit(h) PROVE VV!StopUnit(h)
  BY <1>12 DEF V!StopUnit, VV!StopUnit
<1>13. ASSUME NEW h \in Handlers, V!RemoveConf(h) PROVE VV!RemoveConf(h)
  BY <1>13 DEF V!RemoveConf, VV!RemoveConf
<1>14. ASSUME NEW h \in Handlers, V!UnitFails(h) PROVE VV!UnitFails(h)
  BY <1>14 DEF V!UnitFails, VV!UnitFails
<1>15. ASSUME NEW h \in Handlers, V!CutOff(h) PROVE VV!CutOff(h)
  BY <1>15 DEF V!CutOff, VV!CutOff
<1>16. QED
  BY <1>1, <1>2, <1>3, <1>4, <1>5, <1>6, <1>7, <1>8, <1>9, <1>10, <1>11, <1>12, <1>13, <1>14, <1>15
     DEF V!Next, VV!Next

LEMMA ConstantsAgree == PP!ConstantsOK /\ VV!ConstantsOK
<1>1. PP!ConstantsOK
  BY ProvisionConstants
     DEF P!ConstantsOK, PP!ConstantsOK, P!Records, PP!Records, P!Ids, PP!Ids, P!Ports, PP!Ports
<1>2. VV!ConstantsOK
  BY VxlanConstants
     DEF V!ConstantsOK, VV!ConstantsOK, V!Configs, VV!Configs, V!Devices, VV!Devices,
         V!Sixin4s, VV!Sixin4s, V!HalfWritten, VV!HalfWritten
<1>3. QED
  BY <1>1, <1>2

\* The part of a behaviour never changes, and its invariant is that part's.
PartInv ==
    /\ part = "users" => PP!Base /\ PP!NamesInv /\ PP!Own
    /\ part = "service" => FilesInv
    /\ part = "vxlan" => VV!VxlanInv /\ VV!TunnelsInv

LEMMA InitPart == ServicesInit => PartInv
<1> SUFFICES ASSUME ServicesInit PROVE PartInv
  OBVIOUS
<1>1. part = "users" => P!Init
  BY DEF ServicesInit
<1>2. P!Init => PP!Init
  BY DEF P!Init, PP!Init, P!NameFiles, PP!NameFiles, P!KeyFiles, PP!KeyFiles, P!Taken, PP!Taken,
         P!Daemons, PP!Daemons, P!Idle, PP!Idle
<1>3. part = "vxlan" => V!Init
  BY DEF ServicesInit
<1>4. V!Init => VV!Init
  BY DEF V!Init, VV!Init, V!Idle, VV!Idle
<1>5. part = "service" => FilesInv
  BY ServiceConstants, InitFiles DEF ServicesInit
<1>6. QED
  BY <1>1, <1>2, <1>3, <1>4, <1>5, ConstantsAgree, PP!InitTypes, PP!InitNames, PP!InitKeys,
     VV!InitVxlan, VV!InitTunnels DEF PartInv

LEMMA NextPart ==
  ASSUME PartInv, [ServicesNext]_<<part, vars, usersVars, serviceVars, vxlanVars, conf, task, aside, hits>>
  PROVE  PartInv'
<1>1. part' = part
  BY DEF ServicesNext
<1>2. ASSUME part = "users" PROVE [PP!Next]_(PP!vars)
  BY <1>2, UsersNext DEF ServicesNext, PP!vars, usersVars
<1>3. ASSUME part = "vxlan" PROVE [VV!Next]_(VV!vars)
  BY <1>3, TunnelsNext DEF ServicesNext, VV!vars, vxlanVars
<1>4. ASSUME part = "users" PROVE (PP!Base /\ PP!NamesInv /\ PP!Own)'
  BY <1>2, <1>4, ConstantsAgree, PP!StepTypes, PP!StepNames, PP!StepKeys DEF PartInv
<1>5. ASSUME part = "vxlan" PROVE (VV!VxlanInv /\ VV!TunnelsInv)'
  BY <1>3, <1>5, ConstantsAgree, VV!NextVxlan, VV!NextTunnels DEF PartInv
<1>6. ASSUME part = "service" PROVE [C!Next]_(C!vars)
  BY <1>6 DEF ServicesNext, C!vars, serviceVars
<1>7. ASSUME part = "service" PROVE FilesInv'
  BY <1>6, <1>7, ServiceConstants, NextFiles DEF PartInv
<1>8. QED
  BY <1>1, <1>4, <1>5, <1>7 DEF PartInv

LEMMA PartsStayInLine == ServicesSpec => []PartInv
  BY InitPart, NextPart, PTL DEF ServicesSpec

\* A user whose requests were all heard and went through to their end has an
\* account at every service or at none, as the configuration says, and once
\* removed an accepted certificate only if index.txt had lost an earlier one
\* (add_user, remove_user, sync_ss_go_users), as the runs see it.
THEOREM ServicesNamesAgree == ServicesSpec => []NamesAgree
<1>1. PP!NamesAgree => P!NamesAgree
  BY DEF P!NamesAgree, PP!NamesAgree, P!Homes, PP!Homes, P!AllHomes, PP!AllHomes,
         P!NameFiles, PP!NameFiles, P!Daemons, PP!Daemons
<1>2. PartInv => NamesAgree
  BY <1>1, PP!NamesShow DEF PartInv, NamesAgree
<1>3. QED
  BY <1>2, PartsStayInLine, PTL

\* A user owns the port and the userid of its record and no other, until a request
\* asks for what another's record names, or adds it again, or is cut off
\* (add_ss_user, the tunnel functions), as the runs see it.
THEOREM ServicesKeysAgree == ServicesSpec => []KeysAgree
<1>1. PP!KeysAgree => P!KeysAgree
  BY DEF P!KeysAgree, PP!KeysAgree, P!KeyFiles, PP!KeyFiles
<1>2. PartInv => KeysAgree
  BY <1>1, PP!KeysShow DEF PartInv, KeysAgree
<1>3. QED
  BY <1>2, PartsStayInLine, PTL

\* Requests served one after the other never give two enabled users the same VNI
\* and port (_validate_vxlan_assignment), as the runs see it.
THEOREM ServicesPairsDiffer == ServicesSpec => []PairsDiffer
<1>1. VV!PairsDiffer => V!PairsDiffer
  BY DEF V!PairsDiffer, VV!PairsDiffer, V!Crossed, VV!Crossed, V!get_vxlan_config, VV!get_vxlan_config
<1>2. PartInv => PairsDiffer
  BY <1>1 DEF PartInv, VV!VxlanInv, PairsDiffer
<1>3. QED
  BY <1>2, PartsStayInLine, PTL

\* Between the requests of a user its VXLAN device is what the configuration says,
\* over the VPN addresses learned last, and its 6in4 tunnel runs with its file,
\* which has those addresses, but for a fault or an overlap that no changed file
\* has repaired (write_vxlan_conf, vpnips), as the runs see it.
THEOREM ServicesDeviceShows == ServicesSpec => []DeviceShows
<1>1. VV!DeviceShows => V!DeviceShows
  BY DEF V!DeviceShows, VV!DeviceShows, V!Wanted, VV!Wanted, V!Known, VV!Known, V!Rendered,
         VV!Rendered, V!get_vxlan_config, VV!get_vxlan_config, V!Busy, VV!Busy, V!User, VV!User,
         V!Idle, VV!Idle, V!AddrOf, VV!AddrOf, V!HalfWritten, VV!HalfWritten
<1>2. PartInv => DeviceShows
  BY <1>1, VV!TunnelsShow DEF PartInv, DeviceShows
<1>3. QED
  BY <1>2, PartsStayInLine, PTL

\* Once nobody handles a request and every step went through, the service runs with
\* the configuration its file holds (the service routes' write then restart), as the
\* runs see it.
THEOREM ServicesRunsItsFiles == ServicesSpec => []RunsItsFiles
<1>1. PartInv => RunsItsFiles
  BY FilesShow DEF PartInv, RunsItsFiles
<1>2. QED
  BY <1>1, PartsStayInLine, PTL

\* Unless a request was cut off or two met, the port in a service's file is open
\* in the firewall, and so is the one the service listens on unless its restart
\* failed (shorewall_add_port, before or after the restart), as the runs see it.
THEOREM ServicesListensOpen == ServicesSpec => []ListensOpen
<1>1. PartInv => ListensOpen
  BY FilesShow DEF PartInv, ListensOpen
<1>2. QED
  BY <1>1, PartsStayInLine, PTL

\* What the configuration store says of a service is what it runs with, after a
\* request served alone whose password the service did not refuse
\* (set_global_param, modif_config_user), as the runs see it.
THEOREM ServicesSavedIsRun == ServicesSpec => []SavedIsRun
<1>1. PartInv => SavedIsRun
  BY FilesShow DEF PartInv, SavedIsRun
<1>2. QED
  BY <1>1, PartsStayInLine, PTL

\* XRay's part of every behaviour.
LEMMA XrayStaysTyped == ServicesSpec => []XrayTypes
<1>1. ServicesInit => XrayTypes
  BY InitXray, RequestsAssumption DEF ServicesInit
<1>2. ASSUME XrayTypes,
             [ServicesNext]_<<part, vars, usersVars, serviceVars, vxlanVars, conf, task, aside, hits>>
      PROVE  XrayTypes'
  <2>1. [Next]_vars
    BY <1>2 DEF ServicesNext
  <2>2. QED
    BY <1>2, <2>1, NextXray, RequestsAssumption
<1>3. QED
  BY <1>1, <1>2, PTL DEF ServicesSpec

\* Every variable of the four parts, and every record a handler keeps of its
\* request, stays in its type: among them that only a reverse forward's request
\* opens a forward or puts a text back (xray_rpf_add_port, _xray_rpf_write).
THEOREM ServicesStayTyped == ServicesSpec => []ServicesTypeOK
<1>1. PP!TypeOK => P!TypeOK
  BY DEF P!TypeOK, PP!TypeOK, P!NameFiles, PP!NameFiles, P!KeyFiles, PP!KeyFiles, P!Ids, PP!Ids,
         P!Ports, PP!Ports, P!Records, PP!Records, P!Daemons, PP!Daemons, P!Serving, PP!Serving,
         P!Idle, PP!Idle, P!AddPlan, PP!AddPlan
<1>2. VV!TypeOK => V!TypeOK
  BY DEF V!TypeOK, VV!TypeOK, V!Configs, VV!Configs, V!Devices, VV!Devices, V!HalfWritten,
         VV!HalfWritten, V!Steps, VV!Steps, V!Tunnels, VV!Tunnels, V!Idle, VV!Idle,
         V!VpnData, VV!VpnData, V!Sixin4s, VV!Sixin4s
<1>3. XrayTypes /\ PartInv => ServicesTypeOK
  BY <1>1, <1>2, XrayTypesShow, FilesShow
     DEF PartInv, PP!Base, VV!TunnelsInv, VV!TypeInv, ServicesTypeOK
<1>4. QED
  BY <1>3, XrayStaysTyped, PartsStayInLine, PTL
==============================================================================
