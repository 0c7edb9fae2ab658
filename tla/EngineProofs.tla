----------------------------- MODULE EngineProofs -----------------------------
(***************************************************************************)
(* Theorems about MetricsStore, for any workers, interfaces and reports,   *)
(* about LearnModel, for any number of workers and of models made and any  *)
(* limit of the watchdog, about LearnToggle, for any number of workers and *)
(* of events, about Weights, for any interfaces and reports, and about the *)
(* behaviours of MCEngine.                                                 *)
(***************************************************************************)
EXTENDS MCEngine, FiniteSetTheorems, TLAPS

WorkingJobs ==
    [at : {"read", "open", "dumped"}, key : Keys, report : Reports, data : Docs, blind : BOOLEAN]

\* What it read, if it could read.
Held(w) == IF job[w].blind THEN Empty ELSE read_all

\* A worker alone works on what is stored: it holds the stored document with its
\* report in it, or its report alone if it could not read; its descriptor leads
\* to the temporary file it emptied, and what it dumped is there.
Sound(w) ==
    /\ job[w].data = [Held(w) EXCEPT ![job[w].key] = job[w].report]
    /\ job[w].at = "open" => store.fd[w] = "tmp" /\ store.tmp = Torn
    /\ job[w].at = "dumped" => store.tmp = job[w].data

OnlyWhileOpen == \A w \in Workers : store.fd[w] # "closed" => job[w].at = "open"

Alone == ~clash => \A v, w \in Busy : v = w

AloneIsSound == ~clash => \A w \in Busy : Sound(w)

Known == \A w \in Busy : job[w].report \in sent

Inv == TypeOK /\ OnlyWhileOpen /\ Known /\ Alone /\ AloneIsSound

----------------------------------------------------------------------------
(* The two paths, whatever a writer does to them *)

LEMMA PathsOpened ==
  ASSUME NEW s \in F!Paths(Docs), NEW w \in Workers
  PROVE  /\ F!Opened(s, w) \in F!Paths(Docs)
         /\ F!Opened(s, w).file = s.file
         /\ F!Opened(s, w).tmp = Torn
         /\ F!Opened(s, w).fd = [s.fd EXCEPT ![w] = "tmp"]
  BY DEF F!Opened, F!Paths

LEMMA PathsClosed ==
  ASSUME NEW s \in F!Paths(Docs), NEW w \in Workers
  PROVE  /\ F!Closed(s, {w}) \in F!Paths(Docs)
         /\ F!Closed(s, {w}).file = s.file
         /\ F!Closed(s, {w}).tmp = s.tmp
         /\ F!Closed(s, {w}).fd = [v \in Workers |-> IF v = w THEN "closed" ELSE s.fd[v]]
  BY DEF F!Closed, F!Paths

\* What is written lands where the descriptor leads, and it is closed.
LEMMA PathsPut ==
  ASSUME NEW s \in F!Paths(Docs), NEW w \in Workers, NEW d \in Docs \cup {Torn},
         NEW p, p = F!Put(F!Closed(s, {w}), s.fd[w], d)
  PROVE  /\ p \in F!Paths(Docs)
         /\ p.fd = [v \in Workers |-> IF v = w THEN "closed" ELSE s.fd[v]]
         /\ s.fd[w] = "tmp" => p.file = s.file /\ p.tmp = d
<1> DEFINE c == F!Closed(s, {w})
<1>1. /\ c \in F!Paths(Docs)
      /\ c.file = s.file
      /\ c.tmp = s.tmp
      /\ c.fd = [v \in Workers |-> IF v = w THEN "closed" ELSE s.fd[v]]
  BY PathsClosed
<1> HIDE DEF c
<1>2. p = F!Put(c, s.fd[w], d)
  BY DEF c
<1>3. CASE s.fd[w] = "tmp"
  BY <1>1, <1>2, <1>3 DEF F!Put, F!Paths
<1>4. CASE s.fd[w] = "file"
  BY <1>1, <1>2, <1>4 DEF F!Put, F!Paths
<1>5. CASE s.fd[w] \notin {"tmp", "file"}
  BY <1>1, <1>2, <1>5 DEF F!Put, F!Paths
<1>6. QED
  BY <1>3, <1>4, <1>5

LEMMA PathsReplaced ==
  ASSUME NEW s \in F!Paths(Docs), s.tmp # None
  PROVE  /\ F!Replaced(s) \in F!Paths(Docs)
         /\ F!Replaced(s).file = s.tmp
         /\ \A w \in Workers : s.fd[w] = "closed" => F!Replaced(s).fd[w] = "closed"
         /\ \A w \in Workers : F!Replaced(s).fd[w] # "closed" => s.fd[w] # "closed"
  BY DEF F!Replaced, F!Paths

LEMMA ReadsADocument == TypeOK => read_all \in Docs
  BY DEF TypeOK, F!Paths, read_all, Empty, Docs

----------------------------------------------------------------------------
(* The invariant *)

LEMMA InitInv == Init => Inv
<1> SUFFICES ASSUME Init PROVE Inv
  OBVIOUS
<1>1. store.file = Empty /\ store.tmp = None /\ store.fd = [w \in Workers |-> "closed"]
  BY DEF Init, F!Holding
<1>2. store \in F!Paths(Docs)
  BY DEF Init, F!Holding, F!Paths, Empty, Docs
<1>3. TypeOK
  <2>1. job \in [Workers -> Jobs]
    BY DEF Init, Jobs
  <2>2. faults \in 0..MaxFaults
    BY FaultsAssumption DEF Init
  <2>3. sent \in SUBSET Reports /\ answered \in SUBSET sent /\ clash \in BOOLEAN
    BY DEF Init
  <2>4. QED
    BY <1>2, <2>1, <2>2, <2>3 DEF TypeOK
<1>4. Busy = {}
  BY DEF Init, Busy, Idle
<1>5. QED
  BY <1>1, <1>3, <1>4 DEF Inv, OnlyWhileOpen, Known, Alone, AloneIsSound

\* A worker at work holds a record of what it does.
LEMMA BusyJob ==
  ASSUME TypeOK, NEW w \in Workers, job[w].at # "idle"
  PROVE  /\ job[w] \in WorkingJobs
         /\ w \in Busy
  BY DEF TypeOK, Jobs, Idle, Busy, WorkingJobs

\* While no two writes overlap, who is at work is alone, and sound.
LEMMA AtWork ==
  ASSUME Inv, ~clash, NEW w \in Workers, job[w].at # "idle"
  PROVE  /\ Busy = {w}
         /\ Sound(w)
         /\ \A v \in Workers \ {w} : job[v].at = "idle" /\ store.fd[v] = "closed"
<1>1. w \in Busy
  BY BusyJob DEF Inv
<1>2. Busy = {w}
  BY <1>1 DEF Inv, Alone
<1>3. \A v \in Workers \ {w} : job[v].at = "idle"
  BY <1>2 DEF Busy
<1>4. QED
  BY <1>1, <1>2, <1>3 DEF Inv, OnlyWhileOpen, AloneIsSound

\* A worker begins: it read what is stored just now.
LEMMA ReadInv ==
  ASSUME Inv, NEW w \in Workers, NEW k \in Keys, NEW r \in Reports, NEW fails \in BOOLEAN,
         Read(w, k, r, fails)
  PROVE  Inv'
<1> DEFINE e == IF fails THEN Empty ELSE read_all
           d == [e EXCEPT ![k] = r]
<1>1. d \in Docs
  BY ReadsADocument DEF Inv, Docs, Empty
<1>2. /\ job' = [job EXCEPT ![w] = [at |-> "read", key |-> k, report |-> r, blind |-> fails, data |-> d]]
      /\ UNCHANGED store
      /\ read_all' = read_all
      /\ job[w].at = "idle"
  BY DEF Read, read_all, Idle
<1> HIDE DEF d
<1>3. TypeOK'
  <2>1. job' \in [Workers -> Jobs]
    BY <1>1, <1>2 DEF Inv, TypeOK, Jobs
  <2>2. QED
    BY <2>1, FaultsAssumption DEF Read, Inv, TypeOK
<1>4. OnlyWhileOpen'
  BY <1>2 DEF Inv, OnlyWhileOpen, TypeOK
<1>5. Busy' = Busy \cup {w}
  BY <1>2 DEF Busy, Inv, TypeOK
<1>6. ~clash' => Busy = {}
  BY DEF Read
<1>7. Alone'
  BY <1>5, <1>6 DEF Alone
<1>8. Sound(w)'
  <2>1. job'[w] = [at |-> "read", key |-> k, report |-> r, blind |-> fails, data |-> d]
    BY <1>2 DEF Inv, TypeOK
  <2>2. Held(w)' = e
    BY <2>1, <1>2 DEF Held
  <2>3. QED
    BY <2>1, <2>2 DEF Sound, d
<1>9. AloneIsSound'
  BY <1>5, <1>6, <1>8 DEF AloneIsSound
<1>10. Known'
  BY <1>2, <1>5 DEF Read, Known, Inv, TypeOK
<1>11. QED
  BY <1>3, <1>4, <1>7, <1>9, <1>10 DEF Inv
\* A worker empties the temporary file: alone, nobody else writes there.
LEMMA OpenInv ==
  ASSUME Inv, NEW w \in Workers, OpenTmp(w)
  PROVE  Inv' /\ read_all' = read_all
<1> DEFINE j == [job[w] EXCEPT !.at = "open"]
<1>1. /\ store' \in F!Paths(Docs)
      /\ store'.file = store.file
      /\ store'.tmp = Torn
      /\ store'.fd = [store.fd EXCEPT ![w] = "tmp"]
  BY PathsOpened DEF OpenTmp, Inv, TypeOK
<1>2. read_all' = read_all
  BY <1>1 DEF read_all
<1>3. /\ job' = [job EXCEPT ![w] = j]
      /\ job[w] \in WorkingJobs
      /\ w \in Busy
  BY BusyJob DEF OpenTmp, Inv
<1>4. /\ j \in WorkingJobs
      /\ j.at = "open" /\ j.key = job[w].key /\ j.report = job[w].report /\ j.data = job[w].data
      /\ j.blind = job[w].blind
  BY <1>3 DEF WorkingJobs
<1> HIDE DEF j
<1>5. /\ job' \in [Workers -> Jobs]
      /\ job'[w] = j
      /\ \A v \in Workers \ {w} : job'[v] = job[v]
  BY <1>3, <1>4 DEF Inv, TypeOK, Jobs, WorkingJobs
<1>6. TypeOK'
  BY <1>1, <1>5 DEF OpenTmp, Inv, TypeOK
<1>7. OnlyWhileOpen'
  BY <1>1, <1>4, <1>5 DEF Inv, OnlyWhileOpen, TypeOK, F!Paths
<1>8. Busy' = Busy
  BY <1>3, <1>4, <1>5 DEF Busy
<1>9. Alone'
  BY <1>8 DEF OpenTmp, Inv, Alone
<1>10. AloneIsSound'
  <2> SUFFICES ASSUME ~clash PROVE Sound(w)'
    BY <1>3, <1>8 DEF AloneIsSound, OpenTmp, Inv, Alone
  <2>1. job[w].data = [Held(w) EXCEPT ![job[w].key] = job[w].report] /\ Held(w)' = Held(w)
    BY <1>2, <1>3, <1>4, <1>5 DEF Inv, AloneIsSound, Sound, Held
  <2>2. store'.fd[w] = "tmp"
    BY <1>1 DEF Inv, TypeOK, F!Paths
  <2>3. QED
    BY <1>1, <1>2, <1>4, <1>5, <2>1, <2>2 DEF Sound
<1>11. Known'
  BY <1>4, <1>5, <1>8 DEF OpenTmp, Inv, Known, Busy
<1>12. QED
  BY <1>2, <1>6, <1>7, <1>9, <1>10, <1>11 DEF Inv

\* A worker writes through its descriptor.  Alone, it finds the temporary file as
\* it left it, and its whole document is there afterwards.
LEMMA DumpInv ==
  ASSUME Inv, NEW w \in Workers, Dump(w)
  PROVE  Inv' /\ (~clash => read_all' = read_all)
<1> DEFINE j == [job[w] EXCEPT !.at = "dumped"]
<1>1. /\ job[w].at = "open"
      /\ job' = [job EXCEPT ![w] = j]
      /\ job[w] \in WorkingJobs
      /\ w \in Busy
  BY BusyJob DEF Dump, Inv
<1>2. /\ j \in WorkingJobs
      /\ j.at = "dumped" /\ j.key = job[w].key /\ j.report = job[w].report /\ j.data = job[w].data
      /\ j.blind = job[w].blind
  BY <1>1 DEF WorkingJobs
<1> HIDE DEF j
<1>3. PICK x \in Docs \cup {Torn} :
        /\ store' = F!Put(F!Closed(store, {w}), store.fd[w], x)
        /\ F!Clean(store, w) => x = job[w].data
  BY <1>1 DEF Dump, F!Dumped, WorkingJobs
<1>4. /\ store' \in F!Paths(Docs)
      /\ store'.fd = [v \in Workers |-> IF v = w THEN "closed" ELSE store.fd[v]]
      /\ store.fd[w] = "tmp" => store'.file = store.file /\ store'.tmp = x
  BY <1>3, PathsPut DEF Inv, TypeOK
<1>5. /\ job' \in [Workers -> Jobs]
      /\ job'[w] = j
      /\ \A v \in Workers \ {w} : job'[v] = job[v]
  BY <1>1, <1>2 DEF Inv, TypeOK, Jobs, WorkingJobs
<1>6. TypeOK'
  BY <1>4, <1>5 DEF Dump, Inv, TypeOK
<1>7. OnlyWhileOpen'
  BY <1>4, <1>5 DEF Inv, OnlyWhileOpen
<1>8. Busy' = Busy
  BY <1>1, <1>2, <1>5 DEF Busy
<1>9. Alone'
  BY <1>8 DEF Dump, Inv, Alone
<1>10. ASSUME ~clash PROVE read_all' = read_all /\ Sound(w)'
  <2>1. /\ Sound(w)
        /\ \A v \in Workers \ {w} : store.fd[v] = "closed"
    BY <1>1, <1>10, AtWork
  <2>2. store.fd[w] = "tmp" /\ store.tmp = Torn
    BY <1>1, <2>1 DEF Sound
  <2>3. F!Clean(store, w)
    BY <2>1, <2>2 DEF F!Clean, F!Content
  <2>4. store'.tmp = job[w].data /\ store'.file = store.file
    BY <1>3, <1>4, <2>2, <2>3
  <2>5. read_all' = read_all
    BY <2>4 DEF read_all
  <2>6. QED
    BY <1>2, <1>5, <2>1, <2>4, <2>5 DEF Sound, Held
<1>11. AloneIsSound'
  BY <1>1, <1>8, <1>10 DEF AloneIsSound, Dump, Inv, Alone
<1>12. Known'
  BY <1>2, <1>5, <1>8 DEF Dump, Inv, Known, Busy
<1>13. QED
  BY <1>6, <1>7, <1>9, <1>10, <1>11, <1>12 DEF Inv

\* Whoever leaves, those who stay were not alone.
LEMMA LeaveInv ==
  ASSUME Inv, NEW w \in Workers, job[w].at # "idle",
         job' = [job EXCEPT ![w] = Idle], UNCHANGED <<sent, clash>>,
         TypeOK', OnlyWhileOpen'
  PROVE  Inv'
<1>1. Busy' = Busy \ {w}
  BY DEF Busy, Idle, Inv, TypeOK
<1>2. w \in Busy
  BY DEF Busy
<1>3. ~clash' => Busy' = {}
  BY <1>1, <1>2 DEF Inv, Alone
<1>4. Known'
  BY <1>1 DEF Inv, Known, Busy, TypeOK
<1>5. QED
  BY <1>3, <1>4 DEF Inv, Alone, AloneIsSound

LEMMA ReplaceInv ==
  ASSUME Inv, NEW w \in Workers, Replace(w)
  PROVE  Inv'
<1>1. job[w].at = "dumped" /\ job' = [job EXCEPT ![w] = Idle] /\ UNCHANGED <<sent, clash>>
  BY DEF Replace
<1>2. job[w].report \in sent
  BY <1>1, BusyJob DEF Inv, Known
<1>3. /\ store' \in F!Paths(Docs)
      /\ \A v \in Workers : store'.fd[v] # "closed" => store.fd[v] # "closed"
  <2>1. CASE store.tmp = None
    BY <2>1 DEF Replace, Inv, TypeOK
  <2>2. CASE store.tmp # None
    BY <2>2, PathsReplaced DEF Replace, Inv, TypeOK
  <2>3. QED
    BY <2>1, <2>2
<1>4. job' \in [Workers -> Jobs]
  BY <1>1 DEF Inv, TypeOK, Jobs
<1>5. answered' \in SUBSET sent'
  BY <1>2 DEF Replace, Inv, TypeOK
<1>6. TypeOK'
  BY <1>3, <1>4, <1>5 DEF Replace, Inv, TypeOK
<1>7. OnlyWhileOpen'
  BY <1>1, <1>3 DEF Inv, OnlyWhileOpen, TypeOK, Idle
<1>8. QED
  BY <1>1, <1>6, <1>7, LeaveInv

LEMMA RaiseInv ==
  ASSUME Inv, NEW w \in Workers, Raise(w)
  PROVE  Inv' /\ (~clash => read_all' = read_all)
<1>1. job[w].at \in {"read", "open"} /\ job' = [job EXCEPT ![w] = Idle] /\ UNCHANGED <<sent, clash>>
  BY DEF Raise
<1>2. CASE job[w].at = "read"
  <2>1. UNCHANGED store
    BY <1>2 DEF Raise
  <2>2. OnlyWhileOpen'
    BY <1>1, <1>2, <2>1 DEF Inv, OnlyWhileOpen, TypeOK, Idle
  <2>3. TypeOK'
    BY <1>1, <2>1, FaultsAssumption DEF Raise, Inv, TypeOK, Jobs
  <2>4. QED
    BY <1>1, <1>2, <2>1, <2>2, <2>3, LeaveInv DEF read_all
<1>3. CASE job[w].at = "open"
  <2>1. store' = F!Put(F!Closed(store, {w}), store.fd[w], Torn)
    BY <1>3 DEF Raise, F!BrokenOff
  <2>2. /\ store' \in F!Paths(Docs)
        /\ store'.fd = [v \in Workers |-> IF v = w THEN "closed" ELSE store.fd[v]]
        /\ store.fd[w] = "tmp" => store'.file = store.file
    BY <2>1, PathsPut DEF Inv, TypeOK
  <2>3. TypeOK'
    BY <1>1, <2>2, FaultsAssumption DEF Raise, Inv, TypeOK, Jobs
  <2>4. OnlyWhileOpen'
    BY <1>1, <2>2 DEF Inv, OnlyWhileOpen, TypeOK
  <2>5. ~clash => read_all' = read_all
    BY <1>3, <2>2, AtWork DEF Sound, read_all
  <2>6. QED
    BY <1>1, <1>3, <2>3, <2>4, <2>5, LeaveInv
<1>4. QED
  BY <1>1, <1>2, <1>3

LEMMA KillInv ==
  ASSUME Inv, NEW w \in Workers, Kill(w)
  PROVE  Inv' /\ read_all' = read_all
<1>1. job[w].at # "idle"
  BY DEF Kill, Inv, TypeOK, Jobs, Idle
<1>2. /\ store' \in F!Paths(Docs)
      /\ store'.file = store.file
      /\ store'.fd = [v \in Workers |-> IF v = w THEN "closed" ELSE store.fd[v]]
  BY PathsClosed DEF Kill, Inv, TypeOK
<1>3. TypeOK'
  BY <1>2, FaultsAssumption DEF Kill, Inv, TypeOK, Jobs
<1>4. OnlyWhileOpen'
  BY <1>2 DEF Kill, Inv, OnlyWhileOpen, TypeOK
<1>5. QED
  BY <1>1, <1>2, <1>3, <1>4, LeaveInv DEF Kill, read_all

LEMMA NextInv == Inv /\ [Next]_vars => Inv'
<1> SUFFICES ASSUME Inv, [Next]_vars PROVE Inv'
  OBVIOUS
<1>1. ASSUME NEW w \in Workers, NEW k \in Keys, NEW r \in Reports, NEW fails \in BOOLEAN,
             Read(w, k, r, fails)
      PROVE  Inv'
  BY <1>1, ReadInv
<1>2. ASSUME NEW w \in Workers, OpenTmp(w) PROVE Inv'
  BY <1>2, OpenInv
<1>3. ASSUME NEW w \in Workers, Dump(w) PROVE Inv'
  BY <1>3, DumpInv
<1>4. ASSUME NEW w \in Workers, Replace(w) PROVE Inv'
  BY <1>4, ReplaceInv
<1>5. ASSUME NEW w \in Workers, Raise(w) PROVE Inv'
  BY <1>5, RaiseInv
<1>6. ASSUME NEW w \in Workers, Kill(w) PROVE Inv'
  BY <1>6, KillInv
<1>7. CASE UNCHANGED vars
  BY <1>7 DEF vars, Inv, TypeOK, OnlyWhileOpen, Known, Alone, AloneIsSound, Sound, Held, Busy, read_all
<1>8. QED
  BY <1>1, <1>2, <1>3, <1>4, <1>5, <1>6, <1>7 DEF Next

----------------------------------------------------------------------------
(* Theorems *)

\* The paths hold documents or torn texts, and no report is answered that was
\* not sent.
THEOREM TypeCorrect == Spec => []TypeOK
<1>1. Inv => TypeOK
  BY DEF Inv
<1>2. QED
  BY InitInv, NextInv, <1>1, PTL DEF Spec

\* Every step of the workers is a step of LatestMetrics or changes nothing that
\* readers see: the metrics file keeps LatestMetrics' promise, which lets a report
\* push out the others when its writer could not read the file (write_interface),
\* and promises nothing while two workers write.
THEOREM ImplementsLatestMetrics == Spec => LatestSpec
<1>1. Init => Latest!Init
  BY DEF Init, F!Holding, Latest!Init, Latest!Empty, read_all, Empty, Blind, Idle
<1>2. Inv /\ Inv' /\ [Next]_vars => [Latest!Next]_(Latest!vars)
  <2> SUFFICES ASSUME Inv, Inv', [Next]_vars
               PROVE  Latest!Next \/ UNCHANGED <<read_all, answered, clash, Blind>>
    BY DEF Latest!vars
  <2>0. ASSUME clash, UNCHANGED clash PROVE Latest!Next
    <3>1. read_all' \in [Keys -> Reports \cup {None}]
      BY DEF Inv, TypeOK, F!Paths, read_all, Empty, Docs
    <3>2. answered' \in SUBSET Reports
      BY DEF Inv, TypeOK
    <3>3. Blind' \in BOOLEAN
      BY DEF Blind
    <3>4. QED
      BY <2>0, <3>1, <3>2, <3>3 DEF Latest!Next, Latest!Clashing
  <2>1. ASSUME UNCHANGED <<read_all, answered>> PROVE Latest!Next
    <3>1. clash' \in BOOLEAN /\ Blind' \in BOOLEAN
      BY DEF Inv, TypeOK, Blind
    <3>2. QED
      BY <2>1, <3>1 DEF Latest!Next, Latest!Meet
  <2>2. ASSUME NEW w \in Workers, NEW k \in Keys, NEW r \in Reports, NEW fails \in BOOLEAN,
               Read(w, k, r, fails)
        PROVE  Latest!Next
    BY <2>1, <2>2 DEF Read, read_all
  <2>3. ASSUME NEW w \in Workers, OpenTmp(w) PROVE Latest!Next
    BY <2>1, <2>3, OpenInv DEF OpenTmp
  <2>4. ASSUME NEW w \in Workers, Dump(w) PROVE Latest!Next
    BY <2>0, <2>1, <2>4, DumpInv DEF Dump
  <2>5. ASSUME NEW w \in Workers, Replace(w) PROVE Latest!Next
    <3>1. CASE clash
      BY <2>0, <2>5, <3>1 DEF Replace
    <3>2. CASE store.tmp = None
      BY <2>1, <2>5, <3>2 DEF Replace, read_all
    <3>3. CASE ~clash /\ store.tmp # None
      <4>1. /\ job[w].at = "dumped"
            /\ store' = F!Replaced(store)
            /\ answered' = answered \cup {job[w].report}
            /\ job' = [job EXCEPT ![w] = Idle]
            /\ UNCHANGED clash
        BY <2>5, <3>3 DEF Replace
      <4>2. job[w] \in WorkingJobs /\ Busy = {w} /\ Sound(w)
        BY <3>3, <4>1, AtWork, BusyJob DEF Inv
      <4>3. job[w].key \in Keys /\ job[w].report \in Reports /\ job[w].data \in Docs
            /\ job[w].blind \in BOOLEAN
        BY <4>2 DEF WorkingJobs
      <4>4. Blind <=> job[w].blind
        BY <4>2, <4>3 DEF Blind, Busy, Inv, TypeOK, Jobs, Idle
      <4>5. ~Blind'
        BY <4>1, <4>2 DEF Blind, Busy, Inv, TypeOK, Jobs, Idle
      <4>6. store'.file = job[w].data
        BY <3>3, <4>1, <4>2, PathsReplaced DEF Inv, TypeOK, Sound
      <4>7. read_all' = [Held(w) EXCEPT ![job[w].key] = job[w].report]
        BY <4>2, <4>3, <4>6, TornAssumption DEF read_all, Sound
      <4>8. Held(w) = IF Blind THEN Latest!Empty ELSE read_all
        BY <4>4 DEF Held, Latest!Empty, Empty
      <4>9. Latest!Store(job[w].key, job[w].report)
        <5>1. Blind' = FALSE
          BY <4>5 DEF Blind
        <5>2. QED
          BY <3>3, <4>1, <4>7, <4>8, <5>1 DEF Latest!Store
      <4>10. QED
        BY <4>3, <4>9 DEF Latest!Next
    <3>4. QED
      BY <3>1, <3>2, <3>3
  <2>6. ASSUME NEW w \in Workers, Raise(w) PROVE Latest!Next
    BY <2>0, <2>1, <2>6, RaiseInv DEF Raise
  <2>7. ASSUME NEW w \in Workers, Kill(w) PROVE Latest!Next
    BY <2>1, <2>7, KillInv DEF Kill
  <2>8. CASE UNCHANGED vars
    BY <2>8 DEF vars, read_all, Blind
  <2>9. QED
    BY <2>2, <2>3, <2>4, <2>5, <2>6, <2>7, <2>8 DEF Next
<1>3. QED
  BY <1>1, <1>2, InitInv, NextInv, PTL DEF Spec, LatestSpec, Latest!Spec

----------------------------------------------------------------------------
(* The learned model *)

AdamInv ==
    /\ DOMAIN model = ModelWorkers
    /\ DOMAIN adam = ModelWorkers
    /\ M!AdamIsModels

\* The model is taken into use: one that is in memory stays.
LEMMA GetModelKeeps ==
  ASSUME AdamInv, NEW w \in ModelWorkers, M!_get_model(w)
  PROVE  /\ DOMAIN model' = ModelWorkers
         /\ \A v \in ModelWorkers : model[v] # None => model'[v] = model[v]
  BY DEF AdamInv, M!_get_model

\* A worker's optimizer is kept, with the model it steps, or dropped.
LEMMA KeptOrDropped ==
  ASSUME AdamInv, DOMAIN model' = ModelWorkers, DOMAIN adam' = ModelWorkers,
         \A v \in ModelWorkers :
            \/ adam'[v] = None
            \/ adam'[v] = model'[v]
            \/ adam'[v] = adam[v] /\ (model[v] # None => model'[v] = model[v])
  PROVE  AdamInv'
  BY DEF AdamInv, M!AdamIsModels

LEMMA NextAdam == AdamInv /\ [M!Next]_M!vars => AdamInv'
<1> SUFFICES ASSUME AdamInv, [M!Next]_M!vars PROVE AdamInv'
  OBVIOUS
<1>0. DOMAIN model = ModelWorkers /\ DOMAIN adam = ModelWorkers
  BY DEF AdamInv
<1>1. ASSUME NEW w \in ModelWorkers, NEW t \in M!Threads, M!_train_step(w, t) PROVE AdamInv'
  <2>1. M!_get_model(w) /\ adam' = [adam EXCEPT ![w] = IF @ = None THEN model'[w] ELSE @]
    BY <1>1 DEF M!_train_step
  <2>2. QED
    BY <1>0, <2>1, GetModelKeeps, KeptOrDropped
<1>2. ASSUME NEW w \in ModelWorkers, NEW t \in M!Threads, M!StepRaises(w, t) PROVE AdamInv'
  <2>1. (M!_get_model(w) \/ UNCHANGED <<made, model>>) /\ UNCHANGED adam
    BY <1>2 DEF M!StepRaises
  <2>2. QED
    BY <1>0, <2>1, GetModelKeeps, KeptOrDropped
<1>3. ASSUME NEW w \in ModelWorkers, NEW t \in M!Threads, M!MakeAnew(w, t) PROVE AdamInv'
  <2>1. /\ model' = [model EXCEPT ![w] = made + 1]
        /\ adam' = [adam EXCEPT ![w] = None]
    BY <1>3 DEF M!MakeAnew
  <2>2. \A v \in ModelWorkers : adam'[v] = None \/ (adam'[v] = adam[v] /\ model'[v] = model[v])
    BY <1>0, <2>1
  <2>3. QED
    BY <1>0, <2>1, <2>2, KeptOrDropped
<1>4. ASSUME NEW w \in ModelWorkers, NEW t \in M!Threads, M!TakeLast(w, t) PROVE AdamInv'
  <2>1. M!_get_model(w) /\ UNCHANGED adam
    BY <1>4 DEF M!TakeLast
  <2>2. QED
    BY <1>0, <2>1, GetModelKeeps, KeptOrDropped
<1>5. ASSUME NEW w \in ModelWorkers, M!Kill(w) PROVE AdamInv'
  <2>1. model' = [model EXCEPT ![w] = None] /\ adam' = [adam EXCEPT ![w] = None]
    BY <1>5 DEF M!Kill
  <2>2. \A v \in ModelWorkers : adam'[v] = None \/ (adam'[v] = adam[v] /\ model'[v] = model[v])
    BY <1>0, <2>1
  <2>3. QED
    BY <1>0, <2>1, <2>2, KeptOrDropped
<1>6. ASSUME NEW w \in ModelWorkers, NEW t \in M!Threads,
             \/ M!Begin(w, t) \/ M!OpenTmp(w, t) \/ M!Dump(w, t)
             \/ M!Replace(w, t) \/ M!SaveRaises(w, t)
      PROVE  AdamInv'
  <2>1. UNCHANGED <<model, adam>>
    BY <1>6 DEF M!Begin, M!OpenTmp, M!Dump, M!Replace, M!SaveRaises
  <2>2. QED
    BY <2>1 DEF AdamInv, M!AdamIsModels
<1>7. ASSUME NEW w \in ModelWorkers, NEW bad \in BOOLEAN, M!Judge(w, bad) PROVE AdamInv'
  BY <1>7 DEF M!Judge, AdamInv, M!AdamIsModels
<1>8. CASE UNCHANGED M!vars
  BY <1>8 DEF M!vars, AdamInv, M!AdamIsModels
<1>9. QED
  BY <1>1, <1>2, <1>3, <1>4, <1>5, <1>6, <1>7, <1>8 DEF M!Next

\* The optimizer steps the model that makes the decisions, whichever threads of a
\* worker meet and whoever is killed.
THEOREM AdamStaysModels == M!Spec => []M!AdamIsModels
<1>1. M!Init => AdamInv
  BY DEF M!Init, AdamInv, M!AdamIsModels
<1>2. AdamInv => M!AdamIsModels
  BY DEF AdamInv
<1>3. QED
  BY <1>1, <1>2, NextAdam, PTL DEF M!Spec

----------------------------------------------------------------------------
(* The types of the model's state *)

Saving == {"save", "open", "dumped"}

Steps == {"idle", "step", "judge", "make", "last"} \cup Saving

ModelJobs == [at : Steps, held : M!Gens \cup {None}, trained : BOOLEAN]

ModelPaths == [file : M!Gens \cup {None, Torn}, tmp : M!Gens \cup {None, Torn},
               fd : [ModelWorkers \X M!Threads -> {"closed", "tmp", "file", "gone"}]]

\* One thread's record becomes j.
Sets(w, t, j) ==
    /\ modelJob' \in [ModelWorkers -> [M!Threads -> ModelJobs]]
    /\ modelJob'[w][t] = j
    /\ \A s \in M!Threads \ {t} : modelJob'[w][s] = modelJob[w][s]
    /\ \A v \in ModelWorkers \ {w} : modelJob'[v] = modelJob[v]

LEMMA ModelTypes ==
  M!TypeOK <=>
    /\ modelStore \in ModelPaths
    /\ made \in 0..MaxGen
    /\ model \in [ModelWorkers -> M!Gens \cup {None}]
    /\ adam \in [ModelWorkers -> M!Gens \cup {None}]
    /\ lock \in [ModelWorkers -> M!Threads \cup {None}]
    /\ modelJob \in [ModelWorkers -> [M!Threads -> ModelJobs]]
    /\ streak \in [ModelWorkers -> 0..(BadLimit - 1)]
    /\ modelFaults \in 0..MaxFaults
<1>1. M!F!Paths(M!Gens \cup {None}) = ModelPaths
  BY DEF M!F!Paths, ModelPaths
<1>2. ModelJobs = [at : {"idle", "step", "judge", "make", "last", "save", "open", "dumped"},
                   held : M!Gens \cup {None}, trained : BOOLEAN]
  BY DEF ModelJobs, Steps, Saving
<1>3. QED
  BY <1>1, <1>2 DEF M!TypeOK

LEMMA ModelTypesNext ==
  ASSUME modelStore' \in ModelPaths, made' \in 0..MaxGen,
         model' \in [ModelWorkers -> M!Gens \cup {None}],
         adam' \in [ModelWorkers -> M!Gens \cup {None}],
         lock' \in [ModelWorkers -> M!Threads \cup {None}],
         modelJob' \in [ModelWorkers -> [M!Threads -> ModelJobs]],
         streak' \in [ModelWorkers -> 0..(BadLimit - 1)],
         modelFaults' \in 0..MaxFaults
  PROVE  M!TypeOK'
<1>1. M!F!Paths(M!Gens \cup {None}) = ModelPaths
  BY DEF M!F!Paths, ModelPaths
<1>2. ModelJobs = [at : {"idle", "step", "judge", "make", "last", "save", "open", "dumped"},
                   held : M!Gens \cup {None}, trained : BOOLEAN]
  BY DEF ModelJobs, Steps, Saving
<1>3. QED
  BY <1>1, <1>2 DEF M!TypeOK

LEMMA SetsIs ==
  ASSUME modelJob \in [ModelWorkers -> [M!Threads -> ModelJobs]],
         NEW w \in ModelWorkers, NEW t \in M!Threads, NEW j \in ModelJobs,
         modelJob' = [modelJob EXCEPT ![w][t] = j]
  PROVE  Sets(w, t, j)
<1> DEFINE f == [modelJob[w] EXCEPT ![t] = j]
<1>1. modelJob' = [modelJob EXCEPT ![w] = f]
  OBVIOUS
<1>2. modelJob[w] \in [M!Threads -> ModelJobs]
  OBVIOUS
<1>3. f \in [M!Threads -> ModelJobs] /\ f[t] = j /\ \A s \in M!Threads \ {t} : f[s] = modelJob[w][s]
  BY <1>2
<1> HIDE DEF f
<1>4. modelJob' \in [ModelWorkers -> [M!Threads -> ModelJobs]]
  BY <1>1, <1>3
<1>5. modelJob'[w] = f /\ \A v \in ModelWorkers \ {w} : modelJob'[v] = modelJob[v]
  BY <1>1
<1>6. QED
  BY <1>3, <1>4, <1>5 DEF Sets

\* A record that only goes to another step.
LEMMA JobToIs ==
  ASSUME modelJob \in [ModelWorkers -> [M!Threads -> ModelJobs]],
         NEW w \in ModelWorkers, NEW t \in M!Threads, NEW s \in Steps, M!JobTo(w, t, s)
  PROVE  \E j \in ModelJobs : /\ Sets(w, t, j) /\ j.at = s
                              /\ j.held = modelJob[w][t].held /\ j.trained = modelJob[w][t].trained
<1> DEFINE j == [modelJob[w][t] EXCEPT !.at = s]
<1>1. modelJob' = [modelJob EXCEPT ![w][t] = j]
  BY DEF M!JobTo
<1>2. modelJob[w][t] \in ModelJobs
  OBVIOUS
<1>3. /\ j \in ModelJobs /\ j.at = s
      /\ j.held = modelJob[w][t].held /\ j.trained = modelJob[w][t].trained
  BY <1>2 DEF ModelJobs
<1> HIDE DEF j
<1>4. QED
  BY <1>1, <1>3, SetsIs

LEMMA IdleJob == M!Idle \in ModelJobs /\ M!Idle.at = "idle" /\ M!Idle.trained = FALSE
  BY DEF M!Idle, ModelJobs, Steps

LEMMA GoOnIs ==
  ASSUME modelJob \in [ModelWorkers -> [M!Threads -> ModelJobs]],
         NEW w \in ModelWorkers, NEW b \in BOOLEAN, M!GoOn(w, b)
  PROVE  \E j \in ModelJobs : Sets(w, "round", j) /\ j.at \in {"step", "last", "idle"}
<1>1. PICK j \in {[M!Idle EXCEPT !.at = "step", !.trained = b],
                  IF b THEN [M!Idle EXCEPT !.at = "last"] ELSE M!Idle} :
         modelJob' = [modelJob EXCEPT ![w]["round"] = j]
  BY DEF M!GoOn
<1>2. \/ j = [at |-> "step", held |-> None, trained |-> b]
      \/ j = [at |-> "last", held |-> None, trained |-> FALSE]
      \/ j = [at |-> "idle", held |-> None, trained |-> FALSE]
  BY <1>1 DEF M!Idle
<1>3. j \in ModelJobs /\ j.at \in {"step", "last", "idle"}
  <2>1. ASSUME NEW a \in {"step", "last", "idle"}, NEW c \in BOOLEAN,
               j = [at |-> a, held |-> None, trained |-> c]
        PROVE  j \in ModelJobs /\ j.at \in {"step", "last", "idle"}
    BY <2>1 DEF ModelJobs, Steps
  <2>2. QED
    BY <1>2, <2>1
<1>4. "round" \in M!Threads
  BY DEF M!Threads
<1>5. QED
  BY <1>1, <1>3, <1>4, SetsIs

\* The model is taken into use: the one in memory, the one on disk or a new one.
LEMMA GetModel ==
  ASSUME M!ConstantsOK, M!TypeOK, NEW w \in ModelWorkers, M!_get_model(w)
  PROVE  /\ made' \in 0..MaxGen /\ model' \in [ModelWorkers -> M!Gens \cup {None}]
         /\ model'[w] \in M!Gens
         /\ \A v \in ModelWorkers \ {w} : model'[v] = model[v]
         /\ model[w] # None => made' = made /\ model'[w] = model[w]
         /\ model[w] = None /\ modelStore.file \in M!Gens => made' = made /\ model'[w] = modelStore.file
         /\ model[w] = None /\ modelStore.file \notin M!Gens => made' = made + 1 /\ model'[w] = made + 1
<1> DEFINE new == model[w] = None /\ modelStore.file \in {None, Torn}
           m == IF model[w] # None THEN model[w] ELSE IF new THEN made + 1 ELSE modelStore.file
<1>1. /\ made \in 0..MaxGen /\ MaxGen \in Nat
      /\ model \in [ModelWorkers -> M!Gens \cup {None}]
      /\ modelStore.file \in M!Gens \cup {None, Torn}
      /\ {None, Torn} \cap M!Gens = {}
  BY ModelTypes DEF ModelPaths, M!ConstantsOK
<1>2. new => made < MaxGen
  BY DEF M!_get_model
<1>3. made' = (IF new THEN made + 1 ELSE made) /\ model' = [model EXCEPT ![w] = m]
  BY <1>1 DEF M!_get_model
<1>4. made' \in 0..MaxGen /\ (new => made + 1 \in M!Gens)
  BY <1>1, <1>2, <1>3 DEF M!Gens
<1>5. m \in M!Gens
  BY <1>1, <1>4
<1>6. model[w] # None => m = model[w] /\ ~new
  OBVIOUS
<1>7. model[w] = None /\ modelStore.file \in M!Gens => m = modelStore.file /\ ~new
  BY <1>1
<1>8. model[w] = None /\ modelStore.file \notin M!Gens => m = made + 1 /\ new
  BY <1>1
<1> HIDE DEF new, m
<1>9. /\ model' \in [ModelWorkers -> M!Gens \cup {None}] /\ model'[w] = m
      /\ \A v \in ModelWorkers \ {w} : model'[v] = model[v]
  BY <1>1, <1>3, <1>5
<1>10. QED
  BY <1>3, <1>4, <1>5, <1>6, <1>7, <1>8, <1>9

\* What reaches the file of a writer, and the other path, are its two texts, or torn.
LEMMA PutIs ==
  ASSUME NEW p \in ModelPaths, NEW a \in ModelWorkers \X M!Threads,
         NEW d \in M!Gens \cup {None, Torn}, NEW q, q = M!F!Put(M!F!Closed(p, {a}), p.fd[a], d)
  PROVE  /\ q \in ModelPaths
         /\ p.fd[a] = "tmp" => q.tmp = d /\ q.file = p.file
         /\ p.fd[a] = "file" => q.file = d /\ q.tmp = p.tmp
         /\ p.fd[a] \notin {"tmp", "file"} => q.tmp = p.tmp /\ q.file = p.file
<1> DEFINE c == M!F!Closed(p, {a})
<1>1. c \in ModelPaths /\ c.tmp = p.tmp /\ c.file = p.file
  BY DEF M!F!Closed, ModelPaths
<1> HIDE DEF c
<1>2. q = M!F!Put(c, p.fd[a], d)
  BY DEF c
<1>3. CASE p.fd[a] = "tmp"
  BY <1>1, <1>2, <1>3, ZenonT(30) DEF M!F!Put, ModelPaths
<1>4. CASE p.fd[a] = "file"
  BY <1>1, <1>2, <1>4, ZenonT(30) DEF M!F!Put, ModelPaths
<1>5. CASE p.fd[a] \notin {"tmp", "file"}
  BY <1>1, <1>2, <1>5 DEF M!F!Put, ModelPaths
<1>6. QED
  BY <1>3, <1>4, <1>5

LEMMA ModelOpened ==
  ASSUME NEW p \in ModelPaths, NEW a \in ModelWorkers \X M!Threads
  PROVE  M!F!Opened(p, a) \in ModelPaths /\ M!F!Opened(p, a).file = p.file /\ M!F!Opened(p, a).tmp = Torn
  BY DEF M!F!Opened, ModelPaths

LEMMA ModelReplaced ==
  ASSUME NEW p \in ModelPaths
  PROVE  M!F!Replaced(p) \in ModelPaths /\ M!F!Replaced(p).file = p.tmp /\ M!F!Replaced(p).tmp = None
  BY DEF M!F!Replaced, ModelPaths

LEMMA ModelClosed ==
  ASSUME NEW p \in ModelPaths, NEW A
  PROVE  M!F!Closed(p, A) \in ModelPaths /\ M!F!Closed(p, A).file = p.file /\ M!F!Closed(p, A).tmp = p.tmp
  BY DEF M!F!Closed, ModelPaths

\* A dump lands where the descriptor leads.
LEMMA DumpedIs ==
  ASSUME NEW p \in ModelPaths, NEW a \in ModelWorkers \X M!Threads,
         NEW d \in M!Gens \cup {None}, NEW q \in M!F!Dumped(p, a, d)
  PROVE  /\ q \in ModelPaths
         /\ p.fd[a] = "tmp" => q.tmp \in {d, Torn} /\ q.file = p.file
         /\ p.fd[a] = "file" => q.file \in {d, Torn} /\ q.tmp = p.tmp
         /\ p.fd[a] \notin {"tmp", "file"} => q.tmp = p.tmp /\ q.file = p.file
<1>1. PICK x \in {d, Torn} : q = M!F!Put(M!F!Closed(p, {a}), p.fd[a], x)
  BY DEF M!F!Dumped
<1>2. QED
  BY <1>1, PutIs

----------------------------------------------------------------------------
(* What each step of the model does *)

LEMMA ModelStarts ==
  ASSUME M!TypeOK, NEW w \in ModelWorkers, NEW t \in M!Threads, M!Begin(w, t)
  PROVE  /\ M!TypeOK'
         /\ modelJob[w][t].at = "idle"
         /\ \E j \in ModelJobs : /\ Sets(w, t, j) /\ j.trained = modelJob[w][t].trained
                                 /\ j.at = IF t = "reset" THEN "make" ELSE "step"
         /\ UNCHANGED <<modelStore, made, model, lock>>
<1>1. /\ modelJob[w][t] = M!Idle /\ M!JobTo(w, t, IF t = "reset" THEN "make" ELSE "step")
      /\ UNCHANGED <<modelStore, made, model, adam, lock, streak, modelFaults>>
  BY DEF M!Begin
<1>2. modelJob[w][t].at = "idle"
  BY <1>1, IdleJob
<1>3. PICK j \in ModelJobs : /\ Sets(w, t, j) /\ j.trained = modelJob[w][t].trained
                             /\ j.at = IF t = "reset" THEN "make" ELSE "step"
  <2>1. PICK s \in Steps : s = IF t = "reset" THEN "make" ELSE "step"
    BY DEF Steps
  <2>2. M!JobTo(w, t, s)
    BY <1>1, <2>1
  <2>3. QED
    BY <2>1, <2>2, ModelTypes, JobToIs
<1>4. M!TypeOK'
  BY <1>1, <1>3, ModelTypes, ModelTypesNext DEF Sets
<1>5. QED
  BY <1>1, <1>2, <1>3, <1>4

LEMMA ModelTrains ==
  ASSUME M!ConstantsOK, M!TypeOK, NEW w \in ModelWorkers, NEW t \in M!Threads, M!_train_step(w, t)
  PROVE  /\ M!TypeOK' /\ M!_get_model(w)
         /\ modelJob[w][t].at = "step"
         /\ \E j \in ModelJobs : /\ Sets(w, t, j) /\ j.trained = modelJob[w][t].trained
                                 /\ j.at = IF t = "round" THEN "judge" ELSE "last"
         /\ UNCHANGED <<modelStore, lock>>
<1>1. /\ modelJob[w][t].at = "step" /\ M!JobTo(w, t, IF t = "round" THEN "judge" ELSE "last")
      /\ M!_get_model(w)
      /\ adam' = [adam EXCEPT ![w] = IF @ = None THEN model'[w] ELSE @]
      /\ UNCHANGED <<modelStore, lock, streak, modelFaults>>
  BY DEF M!_train_step
<1>2. PICK j \in ModelJobs : /\ Sets(w, t, j) /\ j.trained = modelJob[w][t].trained
                             /\ j.at = IF t = "round" THEN "judge" ELSE "last"
  <2>1. PICK s \in Steps : s = IF t = "round" THEN "judge" ELSE "last"
    BY DEF Steps
  <2>2. M!JobTo(w, t, s)
    BY <1>1, <2>1
  <2>3. QED
    BY <2>1, <2>2, ModelTypes, JobToIs
<1>3. /\ made' \in 0..MaxGen /\ model' \in [ModelWorkers -> M!Gens \cup {None}]
      /\ model'[w] \in M!Gens
  BY <1>1, GetModel
<1>4. adam' \in [ModelWorkers -> M!Gens \cup {None}]
  BY <1>1, <1>3, ModelTypes
<1>5. M!TypeOK'
  BY <1>1, <1>2, <1>3, <1>4, ModelTypes, ModelTypesNext DEF Sets
<1>6. QED
  BY <1>1, <1>2, <1>5

LEMMA ModelStepRaises ==
  ASSUME M!ConstantsOK, M!TypeOK, NEW w \in ModelWorkers, NEW t \in M!Threads, M!StepRaises(w, t)
  PROVE  /\ M!TypeOK' /\ (M!_get_model(w) \/ UNCHANGED <<made, model>>)
         /\ modelJob[w][t].at = "step"
         /\ \E j \in ModelJobs : /\ Sets(w, t, j) /\ (j.trained => t = "round")
                                 /\ j.at \in {"step", "last", "idle"}
                                 /\ t # "round" => j.at = "idle"
         /\ UNCHANGED <<modelStore, lock>>
<1>1. /\ modelJob[w][t].at = "step" /\ (M!_get_model(w) \/ UNCHANGED <<made, model>>)
      /\ UNCHANGED <<modelStore, adam, lock, streak, modelFaults>>
  BY DEF M!StepRaises
<1>2. modelJob \in [ModelWorkers -> [M!Threads -> ModelJobs]]
  BY ModelTypes
<1>3. PICK j \in ModelJobs : /\ Sets(w, t, j) /\ (j.trained => t = "round")
                             /\ j.at \in {"step", "last", "idle"}
                             /\ t # "round" => j.at = "idle"
  <2>1. CASE t = "round"
    <3>1. modelJob[w][t].trained \in BOOLEAN
      BY <1>2 DEF ModelJobs
    <3>2. M!GoOn(w, modelJob[w][t].trained)
      BY <2>1 DEF M!StepRaises
    <3>3. QED
      BY <1>2, <2>1, <3>1, <3>2, GoOnIs
  <2>2. CASE t # "round"
    <3>1. modelJob' = [modelJob EXCEPT ![w][t] = M!Idle]
      BY <2>2 DEF M!StepRaises
    <3>2. Sets(w, t, M!Idle)
      BY <1>2, <3>1, IdleJob, SetsIs
    <3>3. QED
      BY <2>2, <3>2, IdleJob
  <2>3. QED
    BY <2>1, <2>2
<1>4. made' \in 0..MaxGen /\ model' \in [ModelWorkers -> M!Gens \cup {None}]
  BY <1>1, GetModel, ModelTypes
<1>5. M!TypeOK'
  BY <1>1, <1>3, <1>4, ModelTypes, ModelTypesNext DEF Sets
<1>6. QED
  BY <1>1, <1>3, <1>5

LEMMA ModelJudged ==
  ASSUME M!ConstantsOK, M!TypeOK, NEW w \in ModelWorkers, NEW bad \in BOOLEAN, M!Judge(w, bad)
  PROVE  /\ M!TypeOK'
         /\ modelJob[w]["round"].at = "judge"
         /\ \E j \in ModelJobs : Sets(w, "round", j) /\ j.at \in {"make", "step", "last", "idle"}
         /\ UNCHANGED <<modelStore, made, model, lock>>
<1>1. /\ modelJob[w]["round"].at = "judge" /\ "round" \in M!Threads
      /\ UNCHANGED <<modelStore, made, model, adam, lock, modelFaults>>
  BY DEF M!Judge, M!Threads
<1>2. /\ modelJob \in [ModelWorkers -> [M!Threads -> ModelJobs]]
      /\ streak \in [ModelWorkers -> 0..(BadLimit - 1)] /\ BadLimit \in Nat \ {0}
  BY ModelTypes DEF M!ConstantsOK
<1>3. M!JobTo(w, "round", "make") \/ M!GoOn(w, TRUE)
  BY DEF M!Judge
<1>4. PICK j \in ModelJobs : Sets(w, "round", j) /\ j.at \in {"make", "step", "last", "idle"}
  <2>1. ASSUME M!JobTo(w, "round", "make")
        PROVE  \E j \in ModelJobs : Sets(w, "round", j) /\ j.at = "make"
    <3>1. "make" \in Steps
      BY DEF Steps
    <3>2. QED
      BY <1>1, <1>2, <2>1, <3>1, JobToIs
  <2>2. ASSUME M!GoOn(w, TRUE)
        PROVE  \E j \in ModelJobs : Sets(w, "round", j) /\ j.at \in {"step", "last", "idle"}
    BY <1>2, <2>2, GoOnIs
  <2>3. QED
    BY <1>3, <2>1, <2>2
<1>5. streak' \in [ModelWorkers -> 0..(BadLimit - 1)]
  <2>1. \/ streak' = [streak EXCEPT ![w] = 0]
        \/ streak[w] + 1 # BadLimit /\ streak' = [streak EXCEPT ![w] = streak[w] + 1]
    BY DEF M!Judge
  <2>2. streak[w] + 1 # BadLimit => streak[w] + 1 \in 0..(BadLimit - 1)
    BY <1>2
  <2>3. 0 \in 0..(BadLimit - 1)
    BY <1>2
  <2>4. QED
    BY <1>2, <2>1, <2>2, <2>3
<1>6. M!TypeOK'
  BY <1>1, <1>4, <1>5, ModelTypes, ModelTypesNext DEF Sets
<1>7. QED
  BY <1>1, <1>4, <1>6

LEMMA ModelMade ==
  ASSUME M!ConstantsOK, M!TypeOK, NEW w \in ModelWorkers, NEW t \in M!Threads, M!MakeAnew(w, t)
  PROVE  /\ M!TypeOK'
         /\ modelJob[w][t].at = "make" /\ lock[w] = None /\ lock'[w] = t
         /\ \A v \in ModelWorkers \ {w} : lock'[v] = lock[v] /\ model'[v] = model[v]
         /\ made' = made + 1 /\ model'[w] = made + 1
         /\ \E j \in ModelJobs : /\ Sets(w, t, j) /\ j.at = "save" /\ j.held = made + 1
                                 /\ j.trained <=> t = "round"
         /\ UNCHANGED modelStore
<1> DEFINE j == [at |-> "save", held |-> made + 1, trained |-> t = "round"]
<1>1. /\ modelJob[w][t].at = "make" /\ made < MaxGen /\ lock[w] = None
      /\ lock' = [lock EXCEPT ![w] = t]
      /\ made' = made + 1
      /\ model' = [model EXCEPT ![w] = made + 1]
      /\ adam' = [adam EXCEPT ![w] = None]
      /\ modelJob' = [modelJob EXCEPT ![w][t] = j]
      /\ UNCHANGED <<modelStore, streak, modelFaults>>
  BY DEF M!MakeAnew, M!Take
<1>2. /\ made \in 0..MaxGen /\ MaxGen \in Nat /\ model \in [ModelWorkers -> M!Gens \cup {None}]
      /\ adam \in [ModelWorkers -> M!Gens \cup {None}]
      /\ lock \in [ModelWorkers -> M!Threads \cup {None}]
      /\ modelJob \in [ModelWorkers -> [M!Threads -> ModelJobs]]
  BY ModelTypes DEF M!ConstantsOK
<1>3. made + 1 \in M!Gens /\ made' \in 0..MaxGen
  BY <1>1, <1>2 DEF M!Gens
<1>4. /\ j.at = "save" /\ j.held = made + 1 /\ (j.trained <=> t = "round")
      /\ j \in ModelJobs
  <2>1. PICK c \in BOOLEAN : c <=> t = "round"
    OBVIOUS
  <2>2. j = [at |-> "save", held |-> made + 1, trained |-> c]
    BY <2>1
  <2> HIDE DEF j
  <2>3. QED
    BY <1>3, <2>1, <2>2 DEF ModelJobs, Steps, Saving
<1> HIDE DEF j
<1>5. Sets(w, t, j)
  BY <1>1, <1>2, <1>4, SetsIs
<1>6. /\ model' \in [ModelWorkers -> M!Gens \cup {None}] /\ adam' \in [ModelWorkers -> M!Gens \cup {None}]
      /\ lock' \in [ModelWorkers -> M!Threads \cup {None}]
  BY <1>1, <1>2, <1>3
<1>7. M!TypeOK'
  BY <1>1, <1>3, <1>5, <1>6, ModelTypes, ModelTypesNext DEF Sets
<1>8. /\ lock'[w] = t /\ model'[w] = made + 1
      /\ \A v \in ModelWorkers \ {w} : lock'[v] = lock[v] /\ model'[v] = model[v]
  BY <1>1, <1>2
<1>9. QED
  BY <1>1, <1>4, <1>5, <1>7, <1>8

LEMMA ModelTaken ==
  ASSUME M!ConstantsOK, M!TypeOK, NEW w \in ModelWorkers, NEW t \in M!Threads, M!TakeLast(w, t)
  PROVE  /\ M!TypeOK' /\ M!_get_model(w)
         /\ modelJob[w][t].at = "last" /\ lock[w] = None
         /\ lock'[w] = IF t = "round" THEN t ELSE None
         /\ \A v \in ModelWorkers \ {w} : lock'[v] = lock[v]
         /\ \E j \in ModelJobs : Sets(w, t, j) /\ j.at = "save" /\ j.held = model'[w] /\ j.trained = FALSE
         /\ UNCHANGED modelStore
<1> DEFINE j == [at |-> "save", held |-> model'[w], trained |-> FALSE]
<1>1. /\ modelJob[w][t].at = "last" /\ lock[w] = None
      /\ lock' = IF t = "round" THEN [lock EXCEPT ![w] = t] ELSE lock
      /\ M!_get_model(w)
      /\ modelJob' = [modelJob EXCEPT ![w][t] = j]
      /\ UNCHANGED <<modelStore, adam, streak, modelFaults>>
  BY DEF M!TakeLast, M!Take
<1>2. /\ lock \in [ModelWorkers -> M!Threads \cup {None}]
      /\ modelJob \in [ModelWorkers -> [M!Threads -> ModelJobs]]
  BY ModelTypes
<1>3. /\ made' \in 0..MaxGen /\ model' \in [ModelWorkers -> M!Gens \cup {None}]
      /\ model'[w] \in M!Gens
  BY <1>1, GetModel
<1>4. j \in ModelJobs /\ j.at = "save" /\ j.held = model'[w] /\ j.trained = FALSE
  BY <1>3 DEF ModelJobs, Steps, Saving
<1> HIDE DEF j
<1>5. Sets(w, t, j)
  BY <1>1, <1>2, <1>4, SetsIs
<1>6. /\ lock' \in [ModelWorkers -> M!Threads \cup {None}]
      /\ lock'[w] = IF t = "round" THEN t ELSE None
      /\ \A v \in ModelWorkers \ {w} : lock'[v] = lock[v]
  BY <1>1, <1>2
<1>7. M!TypeOK'
  BY <1>1, <1>3, <1>5, <1>6, ModelTypes, ModelTypesNext DEF Sets
<1>8. QED
  BY <1>1, <1>4, <1>5, <1>6, <1>7

\* The trained record is the round's; a reset only makes and saves.
Duties ==
    \A w \in ModelWorkers, t \in M!Threads :
        /\ modelJob[w][t].trained => t = "round"
        /\ t = "reset" => modelJob[w][t].at \notin {"step", "last"}

ModelInv == M!TypeOK /\ Duties

LEMMA DutiesKept ==
  ASSUME Duties, NEW w \in ModelWorkers, NEW t \in M!Threads, NEW j, Sets(w, t, j),
         j.trained => t = "round", t = "reset" => j.at \notin {"step", "last"}
  PROVE  Duties'
  BY DEF Duties, Sets

LEMMA SaveEndsIs ==
  ASSUME ModelInv, NEW w \in ModelWorkers, NEW t \in M!Threads, M!SaveEnds(w, t)
  PROVE  /\ \E j \in ModelJobs : /\ Sets(w, t, j) /\ (j.trained => t = "round")
                                 /\ j.at \in {"step", "last", "idle"}
                                 /\ t # "round" => j.at = "idle"
         /\ lock' \in [ModelWorkers -> M!Threads \cup {None}]
         /\ lock'[w] = IF lock[w] = t THEN None ELSE lock[w]
         /\ \A v \in ModelWorkers \ {w} : lock'[v] = lock[v]
<1>1. /\ modelJob \in [ModelWorkers -> [M!Threads -> ModelJobs]]
      /\ lock \in [ModelWorkers -> M!Threads \cup {None}]
      /\ modelJob[w][t].trained => t = "round"
  BY ModelTypes DEF ModelInv, Duties
<1>2. lock' = [lock EXCEPT ![w] = IF @ = t THEN None ELSE @]
  BY DEF M!SaveEnds
<1>3. CASE modelJob[w][t].trained
  BY <1>1, <1>2, <1>3, GoOnIs DEF M!SaveEnds
<1>4. CASE ~modelJob[w][t].trained
  <2>1. modelJob' = [modelJob EXCEPT ![w][t] = M!Idle]
    BY <1>4 DEF M!SaveEnds
  <2>2. Sets(w, t, M!Idle)
    BY <1>1, <2>1, IdleJob, SetsIs
  <2>3. QED
    BY <1>1, <1>2, <2>2, IdleJob
<1>5. QED
  BY <1>3, <1>4

LEMMA ModelOpens ==
  ASSUME ModelInv, NEW w \in ModelWorkers, NEW t \in M!Threads, M!OpenTmp(w, t)
  PROVE  /\ M!TypeOK'
         /\ modelJob[w][t].at = "save"
         /\ \E j \in ModelJobs : /\ Sets(w, t, j) /\ j.at = "open" /\ j.held = modelJob[w][t].held
                                 /\ j.trained = modelJob[w][t].trained
         /\ modelStore'.file = modelStore.file /\ modelStore'.tmp = Torn
         /\ UNCHANGED <<made, model, lock>>
<1>1. /\ modelJob[w][t].at = "save" /\ modelStore' = M!F!Opened(modelStore, <<w, t>>)
      /\ M!JobTo(w, t, "open")
      /\ UNCHANGED <<made, model, adam, lock, streak, modelFaults>>
  BY DEF M!OpenTmp
<1>2. /\ modelStore' \in ModelPaths
      /\ modelStore'.file = modelStore.file /\ modelStore'.tmp = Torn
  <2>1. modelStore \in ModelPaths /\ <<w, t>> \in ModelWorkers \X M!Threads
    BY ModelTypes DEF ModelInv
  <2>2. QED
    BY <1>1, <2>1, ModelOpened
<1>3. "open" \in Steps
  BY DEF Steps, Saving
<1>4. PICK j \in ModelJobs : /\ Sets(w, t, j) /\ j.at = "open" /\ j.held = modelJob[w][t].held
                             /\ j.trained = modelJob[w][t].trained
  BY <1>1, <1>3, ModelTypes, JobToIs DEF ModelInv
<1>5. M!TypeOK'
  BY <1>1, <1>2, <1>4, ModelTypes, ModelTypesNext DEF Sets, ModelInv
<1>6. QED
  BY <1>1, <1>2, <1>4, <1>5

LEMMA ModelDumps ==
  ASSUME ModelInv, NEW w \in ModelWorkers, NEW t \in M!Threads, M!Dump(w, t)
  PROVE  /\ M!TypeOK'
         /\ modelJob[w][t].at = "open"
         /\ \E j \in ModelJobs : /\ Sets(w, t, j) /\ j.at = "dumped" /\ j.held = modelJob[w][t].held
                                 /\ j.trained = modelJob[w][t].trained
         /\ \/ modelStore'.tmp \in {modelJob[w][t].held, Torn} /\ modelStore'.file = modelStore.file
            \/ modelStore'.file \in {modelJob[w][t].held, Torn} /\ modelStore'.tmp = modelStore.tmp
            \/ modelStore'.file = modelStore.file /\ modelStore'.tmp = modelStore.tmp
         /\ UNCHANGED <<made, model, lock>>
<1>1. /\ modelJob[w][t].at = "open"
      /\ modelStore' \in M!F!Dumped(modelStore, <<w, t>>, modelJob[w][t].held)
      /\ M!JobTo(w, t, "dumped")
      /\ UNCHANGED <<made, model, adam, lock, streak, modelFaults>>
  BY DEF M!Dump
<1>2. modelStore \in ModelPaths /\ modelJob[w][t].held \in M!Gens \cup {None}
  BY ModelTypes DEF ModelInv, ModelJobs
<1>3. <<w, t>> \in ModelWorkers \X M!Threads
  OBVIOUS
<1>4. /\ modelStore' \in ModelPaths
      /\ \/ modelStore'.tmp \in {modelJob[w][t].held, Torn} /\ modelStore'.file = modelStore.file
         \/ modelStore'.file \in {modelJob[w][t].held, Torn} /\ modelStore'.tmp = modelStore.tmp
         \/ modelStore'.file = modelStore.file /\ modelStore'.tmp = modelStore.tmp
  BY <1>1, <1>2, <1>3, DumpedIs
<1>5. "dumped" \in Steps
  BY DEF Steps, Saving
<1>6. PICK j \in ModelJobs : /\ Sets(w, t, j) /\ j.at = "dumped" /\ j.held = modelJob[w][t].held
                             /\ j.trained = modelJob[w][t].trained
  BY <1>1, <1>5, ModelTypes, JobToIs DEF ModelInv
<1>7. M!TypeOK'
  BY <1>1, <1>4, <1>6, ModelTypes, ModelTypesNext DEF Sets, ModelInv
<1>8. QED
  BY <1>1, <1>4, <1>6, <1>7

LEMMA ModelReplaces ==
  ASSUME ModelInv, NEW w \in ModelWorkers, NEW t \in M!Threads, M!Replace(w, t)
  PROVE  /\ M!TypeOK'
         /\ modelJob[w][t].at = "dumped" /\ M!SaveEnds(w, t)
         /\ \/ modelStore' = modelStore /\ modelStore.tmp = None
            \/ modelStore'.file = modelStore.tmp /\ modelStore'.tmp = None
         /\ UNCHANGED <<made, model>>
<1>1. /\ modelJob[w][t].at = "dumped"
      /\ modelStore' = IF modelStore.tmp = None THEN modelStore ELSE M!F!Replaced(modelStore)
      /\ M!SaveEnds(w, t)
      /\ UNCHANGED <<made, model, adam, streak, modelFaults>>
  BY DEF M!Replace
<1>2. /\ modelStore' \in ModelPaths
      /\ \/ modelStore' = modelStore /\ modelStore.tmp = None
         \/ modelStore'.file = modelStore.tmp /\ modelStore'.tmp = None
  BY <1>1, ModelTypes, ModelReplaced DEF ModelInv
<1>3. M!TypeOK'
  BY <1>1, <1>2, SaveEndsIs, ModelTypes, ModelTypesNext DEF Sets, ModelInv
<1>4. QED
  BY <1>1, <1>2, <1>3

LEMMA ModelSaveRaises ==
  ASSUME M!ConstantsOK, ModelInv, NEW w \in ModelWorkers, NEW t \in M!Threads, M!SaveRaises(w, t)
  PROVE  /\ M!TypeOK'
         /\ modelJob[w][t].at = "open" /\ M!SaveEnds(w, t)
         /\ modelStore'.file \in {modelStore.file, Torn} /\ modelStore'.tmp \in {modelStore.tmp, Torn}
         /\ UNCHANGED <<made, model>>
<1>1. /\ modelJob[w][t].at = "open" /\ modelFaults < MaxFaults /\ modelFaults' = modelFaults + 1
      /\ modelStore' = M!F!BrokenOff(modelStore, <<w, t>>)
      /\ M!SaveEnds(w, t)
      /\ UNCHANGED <<made, model, adam, streak>>
  BY DEF M!SaveRaises
<1>2. <<w, t>> \in ModelWorkers \X M!Threads
  OBVIOUS
<1>3. modelStore' = M!F!Put(M!F!Closed(modelStore, {<<w, t>>}), modelStore.fd[<<w, t>>], Torn)
  BY <1>1 DEF M!F!BrokenOff
<1>4. /\ modelStore' \in ModelPaths
      /\ modelStore'.file \in {modelStore.file, Torn} /\ modelStore'.tmp \in {modelStore.tmp, Torn}
  <2>1. modelStore \in ModelPaths /\ Torn \in M!Gens \cup {None, Torn}
    BY ModelTypes DEF ModelInv
  <2>2. \A d \in M!Gens \cup {None, Torn} :
            d = Torn /\ modelStore' = M!F!Put(M!F!Closed(modelStore, {<<w, t>>}), modelStore.fd[<<w, t>>], d)
              => /\ modelStore' \in ModelPaths
                 /\ modelStore'.file \in {modelStore.file, Torn} /\ modelStore'.tmp \in {modelStore.tmp, Torn}
    BY <1>2, <2>1, PutIs
  <2>3. QED
    BY <1>3, <2>1, <2>2
<1>5. modelFaults' \in 0..MaxFaults
  BY <1>1, ModelTypes DEF ModelInv, M!ConstantsOK
<1>6. M!TypeOK'
  BY <1>1, <1>4, <1>5, SaveEndsIs, ModelTypes, ModelTypesNext DEF Sets, ModelInv
<1>7. QED
  BY <1>1, <1>4, <1>6

LEMMA ModelKilled ==
  ASSUME M!ConstantsOK, ModelInv, NEW w \in ModelWorkers, M!Kill(w)
  PROVE  /\ M!TypeOK'
         /\ model'[w] = None
         /\ \A t \in M!Threads : modelJob'[w][t] = M!Idle
         /\ \A v \in ModelWorkers \ {w} : modelJob'[v] = modelJob[v]
         /\ modelStore'.file = modelStore.file /\ made' = made
<1>1. /\ modelFaults < MaxFaults /\ modelFaults' = modelFaults + 1
      /\ modelStore' = M!F!Closed(modelStore, {w} \X M!Threads)
      /\ model' = [model EXCEPT ![w] = None]
      /\ adam' = [adam EXCEPT ![w] = None]
      /\ lock' = [lock EXCEPT ![w] = None]
      /\ modelJob' = [modelJob EXCEPT ![w] = [t \in M!Threads |-> M!Idle]]
      /\ streak' = [streak EXCEPT ![w] = 0]
      /\ UNCHANGED made
  BY DEF M!Kill
<1>2. /\ modelStore \in ModelPaths /\ made \in 0..MaxGen /\ model \in [ModelWorkers -> M!Gens \cup {None}]
      /\ adam \in [ModelWorkers -> M!Gens \cup {None}]
      /\ lock \in [ModelWorkers -> M!Threads \cup {None}]
      /\ modelJob \in [ModelWorkers -> [M!Threads -> ModelJobs]]
      /\ streak \in [ModelWorkers -> 0..(BadLimit - 1)] /\ modelFaults \in 0..MaxFaults
      /\ MaxFaults \in Nat /\ BadLimit \in Nat \ {0}
  BY ModelTypes DEF ModelInv, M!ConstantsOK
<1>3. modelStore' \in ModelPaths /\ modelStore'.file = modelStore.file
  BY <1>1, <1>2, ModelClosed
<1>4. /\ modelJob' \in [ModelWorkers -> [M!Threads -> ModelJobs]]
      /\ \A t \in M!Threads : modelJob'[w][t] = M!Idle
      /\ \A v \in ModelWorkers \ {w} : modelJob'[v] = modelJob[v]
  BY <1>1, <1>2, IdleJob
<1>5. /\ model' \in [ModelWorkers -> M!Gens \cup {None}] /\ adam' \in [ModelWorkers -> M!Gens \cup {None}]
      /\ lock' \in [ModelWorkers -> M!Threads \cup {None}] /\ model'[w] = None
  BY <1>1, <1>2
<1>6. modelFaults' \in 0..MaxFaults
  BY <1>1, <1>2
<1>7. streak' \in [ModelWorkers -> 0..(BadLimit - 1)]
  BY <1>1, <1>2
<1>8. M!TypeOK'
  BY <1>1, <1>2, <1>3, <1>4, <1>5, <1>6, <1>7, ModelTypesNext
<1>9. QED
  BY <1>1, <1>3, <1>4, <1>5, <1>8

LEMMA InitModel == M!ConstantsOK /\ M!Init => ModelInv
<1> SUFFICES ASSUME M!ConstantsOK, M!Init PROVE ModelInv
  OBVIOUS
<1>1. modelStore \in ModelPaths
  BY DEF M!Init, M!F!Holding, ModelPaths
<1>2. modelJob \in [ModelWorkers -> [M!Threads -> ModelJobs]]
  BY IdleJob DEF M!Init
<1>3. made \in 0..MaxGen /\ modelFaults \in 0..MaxFaults
  BY DEF M!Init, M!ConstantsOK
<1>4. /\ model \in [ModelWorkers -> M!Gens \cup {None}] /\ adam \in [ModelWorkers -> M!Gens \cup {None}]
      /\ lock \in [ModelWorkers -> M!Threads \cup {None}]
  BY DEF M!Init
<1>5. streak \in [ModelWorkers -> 0..(BadLimit - 1)]
  BY DEF M!Init, M!ConstantsOK
<1>6. Duties
  BY IdleJob DEF M!Init, Duties
<1>7. QED
  BY <1>1, <1>2, <1>3, <1>4, <1>5, <1>6, ModelTypes DEF ModelInv

LEMMA NextModel ==
  ASSUME M!ConstantsOK
  PROVE  ModelInv /\ [M!Next]_(M!vars) => ModelInv'
<1> SUFFICES ASSUME ModelInv, [M!Next]_(M!vars) PROVE ModelInv'
  OBVIOUS
<1> USE DEF ModelInv
<1>1. ASSUME NEW w \in ModelWorkers, NEW t \in M!Threads, M!Begin(w, t) PROVE ModelInv'
  BY <1>1, ModelStarts, DutiesKept DEF Duties
<1>2. ASSUME NEW w \in ModelWorkers, NEW t \in M!Threads, M!_train_step(w, t) PROVE ModelInv'
  BY <1>2, ModelTrains, DutiesKept DEF Duties
<1>3. ASSUME NEW w \in ModelWorkers, NEW t \in M!Threads, M!StepRaises(w, t) PROVE ModelInv'
  BY <1>3, ModelStepRaises, DutiesKept
<1>4. ASSUME NEW w \in ModelWorkers, NEW t \in M!Threads, M!MakeAnew(w, t) PROVE ModelInv'
  BY <1>4, ModelMade, DutiesKept
<1>5. ASSUME NEW w \in ModelWorkers, NEW t \in M!Threads, M!TakeLast(w, t) PROVE ModelInv'
  BY <1>5, ModelTaken, DutiesKept
<1>6. ASSUME NEW w \in ModelWorkers, NEW t \in M!Threads, M!OpenTmp(w, t) PROVE ModelInv'
  BY <1>6, ModelOpens, DutiesKept DEF Duties
<1>7. ASSUME NEW w \in ModelWorkers, NEW t \in M!Threads, M!Dump(w, t) PROVE ModelInv'
  BY <1>7, ModelDumps, DutiesKept DEF Duties
<1>8. ASSUME NEW w \in ModelWorkers, NEW t \in M!Threads, M!Replace(w, t) PROVE ModelInv'
  BY <1>8, ModelReplaces, SaveEndsIs, DutiesKept
<1>9. ASSUME NEW w \in ModelWorkers, NEW t \in M!Threads, M!SaveRaises(w, t) PROVE ModelInv'
  BY <1>9, ModelSaveRaises, SaveEndsIs, DutiesKept
<1>10. ASSUME NEW w \in ModelWorkers, NEW bad \in BOOLEAN, M!Judge(w, bad) PROVE ModelInv'
  <2>1. "round" \in M!Threads
    BY DEF M!Threads
  <2>2. QED
    BY <1>10, <2>1, ModelJudged, DutiesKept
<1>11. ASSUME NEW w \in ModelWorkers, M!Kill(w) PROVE ModelInv'
  BY <1>11, ModelKilled, IdleJob DEF Duties
<1>12. CASE UNCHANGED M!vars
  <2>1. UNCHANGED <<modelStore, made, model, adam, lock, modelJob, streak, modelFaults>>
    BY <1>12 DEF M!vars
  <2>2. M!TypeOK'
    BY <2>1, ModelTypes, ModelTypesNext
  <2>3. QED
    BY <2>1, <2>2 DEF Duties
<1>13. QED
  BY <1>1, <1>2, <1>3, <1>4, <1>5, <1>6, <1>7, <1>8, <1>9, <1>10, <1>11, <1>12 DEF M!Next

----------------------------------------------------------------------------
(* Which model is in the file *)

\* In a worker alone: what a thread is about to save is the model in memory, whose
\* lock it holds, or a training request's, which is no younger; the file is no
\* younger either; and what lies in the temporary file, while somebody may rename
\* it, is what one of them has dumped.
Lineage(w) ==
    /\ \A t \in M!Threads : modelJob[w][t].at \in Saving =>
          /\ modelJob[w][t].held \in M!Gens /\ model[w] \in M!Gens
          /\ modelJob[w][t].held <= model[w]
          /\ t # "train" => lock[w] = t /\ modelJob[w][t].held = model[w]
    /\ model[w] # None => model[w] <= made
    /\ modelStore.file \in M!Gens =>
          modelStore.file <= made /\ (model[w] # None => modelStore.file <= model[w])
    /\ modelStore.tmp \in M!Gens /\ (\E t \in M!Threads : modelJob[w][t].at \in {"open", "dumped"}) =>
          \E s \in M!Threads : modelJob[w][s].at = "dumped" /\ modelJob[w][s].held = modelStore.tmp

BackStep(w) ==
    \A old, new \in M!Gens :
        modelStore.file = new /\ modelStore'.file = old /\ old < new => modelJob[w]["train"].held = old

\* What a thread at the save of its own model may rely on.
LEMMA Numbers ==
  ASSUME M!ConstantsOK, ModelInv
  PROVE  /\ M!Gens \subseteq Nat /\ made \in Nat /\ None \notin M!Gens /\ Torn \notin M!Gens
         /\ \A w \in ModelWorkers : model[w] \in M!Gens \cup {None} /\ lock[w] \in M!Threads \cup {None}
         /\ None \notin M!Threads
<1>1. M!Gens \subseteq Nat /\ made \in Nat
  BY ModelTypes DEF M!Gens, ModelInv
<1>2. QED
  BY <1>1, ModelTypes DEF M!ConstantsOK, ModelInv

\* A file that stays does not go back.
LEMMA FileStays ==
  ASSUME M!Gens \subseteq Nat, modelStore'.file = modelStore.file, NEW w
  PROVE  BackStep(w)
<1> SUFFICES ASSUME NEW old \in M!Gens, NEW new \in M!Gens,
                    modelStore.file = new, modelStore'.file = old, old < new
             PROVE  FALSE
  BY DEF BackStep
<1>1. old \in Nat /\ old = new
  OBVIOUS
<1>2. QED
  BY <1>1

\* A step that leaves the files alone, of a thread that is not writing.
LEMMA QuietStep ==
  ASSUME M!ConstantsOK, ModelInv, ModelInv', NEW w \in ModelWorkers, Lineage(w),
         NEW t \in M!Threads, NEW j \in ModelJobs, Sets(w, t, j), UNCHANGED modelStore,
         modelJob[w][t].at \notin {"open", "dumped"}, j.at \notin {"open", "dumped"},
         j.at = "save" => /\ j.held \in M!Gens /\ model'[w] \in M!Gens /\ j.held <= model'[w]
                          /\ t # "train" => lock'[w] = t /\ j.held = model'[w],
         \A s \in M!Threads \ {t} : modelJob[w][s].at \in Saving =>
            /\ model'[w] \in M!Gens /\ model'[w] >= model[w]
            /\ s # "train" => lock'[w] = lock[w] /\ model'[w] = model[w],
         model'[w] # None => model'[w] <= made',
         modelStore.file \in M!Gens =>
            modelStore.file <= made' /\ (model'[w] # None => modelStore.file <= model'[w])
  PROVE  Lineage(w)' /\ BackStep(w)
<1>1. /\ M!Gens \subseteq Nat /\ made \in Nat /\ made' \in Nat
  <2>1. made' \in Nat
    BY ModelTypes DEF M!TypeOK, ModelInv
  <2>2. QED
    BY <2>1, Numbers
<1>2. /\ modelJob'[w][t] = j
      /\ \A s \in M!Threads \ {t} : modelJob'[w][s] = modelJob[w][s]
  BY DEF Sets
<1>3. ASSUME NEW s \in M!Threads, modelJob'[w][s].at \in Saving
      PROVE  /\ modelJob'[w][s].held \in M!Gens /\ model'[w] \in M!Gens
             /\ modelJob'[w][s].held <= model'[w]
             /\ s # "train" => lock'[w] = s /\ modelJob'[w][s].held = model'[w]
  <2>1. CASE s = t
    BY <1>2, <1>3, <2>1 DEF Saving
  <2>2. CASE s # t
    <3>1. modelJob'[w][s] = modelJob[w][s]
      BY <1>2, <2>2
    <3>2. /\ modelJob[w][s].held \in M!Gens /\ model[w] \in M!Gens
          /\ modelJob[w][s].held <= model[w]
          /\ s # "train" => lock[w] = s /\ modelJob[w][s].held = model[w]
      BY <1>3, <3>1 DEF Lineage
    <3>3. /\ model'[w] \in M!Gens /\ model'[w] >= model[w]
          /\ s # "train" => lock'[w] = lock[w] /\ model'[w] = model[w]
      BY <1>3, <2>2, <3>1
    <3>4. QED
      BY <1>1, <3>1, <3>2, <3>3
  <2>3. QED
    BY <2>1, <2>2
<1>4. ASSUME modelStore'.tmp \in M!Gens, NEW s \in M!Threads, modelJob'[w][s].at \in {"open", "dumped"}
      PROVE  \E r \in M!Threads : modelJob'[w][r].at = "dumped" /\ modelJob'[w][r].held = modelStore'.tmp
  <2>1. s # t /\ modelJob[w][s].at \in {"open", "dumped"}
    BY <1>2, <1>4
  <2>2. PICK r \in M!Threads : modelJob[w][r].at = "dumped" /\ modelJob[w][r].held = modelStore.tmp
    BY <1>4, <2>1 DEF Lineage
  <2>3. QED
    BY <1>2, <2>2
<1>5. Lineage(w)'
  BY <1>3, <1>4 DEF Lineage
<1>6. BackStep(w)
  BY <1>1, FileStays
<1>7. QED
  BY <1>5, <1>6

\* A step at which the model is looked at, and perhaps taken into use.
LEMMA LookingStep ==
  ASSUME M!ConstantsOK, ModelInv, ModelInv', NEW w \in ModelWorkers, Lineage(w),
         NEW t \in M!Threads, NEW j \in ModelJobs, Sets(w, t, j), UNCHANGED modelStore,
         M!_get_model(w) \/ UNCHANGED <<made, model>>, j.at # "save",
         modelJob[w][t].at \notin {"open", "dumped"}, j.at \notin {"open", "dumped"},
         UNCHANGED lock
  PROVE  Lineage(w)' /\ BackStep(w)
<1>1. M!Gens \subseteq Nat /\ made \in Nat /\ model[w] \in M!Gens \cup {None} /\ None \notin M!Gens
  BY Numbers
<1>2. /\ model[w] # None => made' = made /\ model'[w] = model[w]
      /\ model[w] = None =>
           \/ made' = made /\ model'[w] = None
           \/ modelStore.file \in M!Gens /\ made' = made /\ model'[w] = modelStore.file
           \/ modelStore.file \notin M!Gens /\ made' = made + 1 /\ model'[w] = made + 1
  BY GetModel DEF ModelInv
<1>3. \A s \in M!Threads : modelJob[w][s].at \in Saving => model[w] \in M!Gens
  BY DEF Lineage
<1>4. /\ model[w] # None => model[w] <= made
      /\ modelStore.file \in M!Gens =>
           modelStore.file <= made /\ (model[w] # None => modelStore.file <= model[w])
  BY DEF Lineage
<1>5. \A g \in M!Gens : g \in Nat /\ g <= g /\ (g <= made => g <= made + 1)
  BY <1>1
<1>6. \A s \in M!Threads \ {t} : modelJob[w][s].at \in Saving =>
            /\ model'[w] \in M!Gens /\ model'[w] >= model[w]
            /\ s # "train" => lock'[w] = lock[w] /\ model'[w] = model[w]
  <2>1. ASSUME NEW s \in M!Threads \ {t}, modelJob[w][s].at \in Saving
        PROVE  model[w] \in M!Gens /\ model'[w] = model[w]
    BY <1>1, <1>2, <1>3, <2>1
  <2>2. QED
    BY <1>5, <2>1
<1>7. /\ model'[w] # None => model'[w] <= made'
      /\ modelStore.file \in M!Gens =>
           modelStore.file <= made' /\ (model'[w] # None => modelStore.file <= model'[w])
  <2>1. CASE model[w] # None
    BY <1>2, <1>4, <2>1
  <2>2. CASE model[w] = None /\ made' = made /\ model'[w] = None
    BY <1>4, <2>2
  <2>3. CASE model[w] = None /\ modelStore.file \in M!Gens /\ made' = made /\ model'[w] = modelStore.file
    BY <1>4, <1>5, <2>3
  <2>4. CASE model[w] = None /\ modelStore.file \notin M!Gens /\ made' = made + 1 /\ model'[w] = made + 1
    BY <1>1, <2>4
  <2>5. QED
    BY <1>2, <2>1, <2>2, <2>3, <2>4
<1>8. QED
  BY <1>6, <1>7, QuietStep

LEMMA MakingStep ==
  ASSUME M!ConstantsOK, ModelInv, ModelInv', NEW w \in ModelWorkers, Lineage(w),
         NEW t \in M!Threads, M!MakeAnew(w, t)
  PROVE  Lineage(w)' /\ BackStep(w)
<1>1. /\ M!Gens \subseteq Nat /\ made \in Nat /\ model[w] \in M!Gens \cup {None} /\ None \notin M!Gens
      /\ None \notin M!Threads
  BY Numbers
<1>2. PICK j \in ModelJobs : Sets(w, t, j) /\ j.at = "save" /\ j.held = made + 1
  BY ModelMade DEF ModelInv
<1>3. /\ modelJob[w][t].at = "make" /\ lock[w] = None /\ lock'[w] = t
      /\ made' = made + 1 /\ model'[w] = made + 1 /\ UNCHANGED modelStore
  BY ModelMade DEF ModelInv
<1>4. model'[w] \in M!Gens
  BY <1>1, <1>3 DEF ModelInv, M!TypeOK, M!Gens
<1>5. ASSUME NEW s \in M!Threads \ {t}, modelJob[w][s].at \in Saving
      PROVE  model'[w] >= model[w] /\ s = "train"
  <2>1. model[w] \in M!Gens /\ model[w] <= made /\ (s # "train" => lock[w] = s)
    BY <1>1, <1>5 DEF Lineage
  <2>2. \A g \in M!Gens : g <= made => made + 1 >= g
    BY <1>1
  <2>3. s = "train"
    BY <1>1, <1>3, <2>1
  <2>4. QED
    BY <1>3, <2>1, <2>2, <2>3
<1>6. modelStore.file \in M!Gens => modelStore.file <= made' /\ modelStore.file <= model'[w]
  <2>1. modelStore.file \in M!Gens => modelStore.file <= made
    BY DEF Lineage
  <2>2. \A g \in M!Gens : g <= made => g <= made + 1
    BY <1>1
  <2>3. QED
    BY <1>3, <2>1, <2>2
<1>7. model'[w] <= made' /\ model'[w] <= model'[w]
  BY <1>1, <1>3
<1>8. QED
  BY <1>2, <1>3, <1>4, <1>5, <1>6, <1>7, QuietStep

LEMMA TakingStep ==
  ASSUME M!ConstantsOK, ModelInv, ModelInv', NEW w \in ModelWorkers, Lineage(w),
         NEW t \in M!Threads, M!TakeLast(w, t)
  PROVE  Lineage(w)' /\ BackStep(w)
<1>1. /\ M!Gens \subseteq Nat /\ made \in Nat /\ model[w] \in M!Gens \cup {None} /\ None \notin M!Gens
      /\ None \notin M!Threads
  BY Numbers
<1>0. M!TypeOK
  BY DEF ModelInv
<1>2. PICK j \in ModelJobs : Sets(w, t, j) /\ j.at = "save" /\ j.held = model'[w]
  BY <1>0, ModelTaken, ZenonT(60)
<1>3. /\ modelJob[w][t].at = "last" /\ lock[w] = None
      /\ lock'[w] = IF t = "round" THEN t ELSE None
      /\ UNCHANGED modelStore /\ M!_get_model(w)
  BY <1>0, ModelTaken, ZenonT(60)
<1>4. t \in {"round", "train"}
  BY <1>3 DEF ModelInv, Duties, M!Threads
<1>5. /\ model'[w] \in M!Gens
      /\ model[w] # None => made' = made /\ model'[w] = model[w]
      /\ model[w] = None =>
           \/ modelStore.file \in M!Gens /\ made' = made /\ model'[w] = modelStore.file
           \/ modelStore.file \notin M!Gens /\ made' = made + 1 /\ model'[w] = made + 1
  BY <1>3, GetModel DEF ModelInv
<1>6. /\ model[w] # None => model[w] <= made
      /\ modelStore.file \in M!Gens =>
           modelStore.file <= made /\ (model[w] # None => modelStore.file <= model[w])
  BY DEF Lineage
<1>7. \A g \in M!Gens : g \in Nat /\ g <= g /\ g >= g /\ (g <= made => g <= made + 1)
  BY <1>1
<1>8. ASSUME NEW s \in M!Threads \ {t}, modelJob[w][s].at \in Saving
      PROVE  model'[w] >= model[w] /\ s = "train"
  <2>1. model[w] \in M!Gens /\ (s # "train" => lock[w] = s)
    BY <1>8 DEF Lineage
  <2>2. s = "train"
    BY <1>1, <1>3, <2>1
  <2>3. QED
    BY <1>1, <1>5, <1>7, <2>1, <2>2
<1>9. /\ model'[w] <= made' /\ model'[w] <= model'[w]
      /\ modelStore.file \in M!Gens => modelStore.file <= made' /\ modelStore.file <= model'[w]
  <2>1. CASE model[w] # None
    BY <1>5, <1>6, <1>7, <2>1
  <2>2. CASE model[w] = None /\ modelStore.file \in M!Gens /\ made' = made /\ model'[w] = modelStore.file
    BY <1>6, <1>7, <2>2
  <2>3. CASE model[w] = None /\ modelStore.file \notin M!Gens /\ made' = made + 1 /\ model'[w] = made + 1
    BY <1>1, <2>3
  <2>4. QED
    BY <1>5, <2>1, <2>2, <2>3
<1>10. QED
  BY <1>2, <1>3, <1>4, <1>5, <1>8, <1>9, QuietStep

\* A thread goes on with its save: it keeps what it holds, memory stays.
LEMMA SaversStay ==
  ASSUME NEW w \in ModelWorkers, Lineage(w), NEW t \in M!Threads, NEW j, Sets(w, t, j),
         modelJob[w][t].at \in Saving, j.held = modelJob[w][t].held, UNCHANGED <<model, lock>>
  PROVE  \A s \in M!Threads : modelJob'[w][s].at \in Saving =>
            /\ modelJob'[w][s].held \in M!Gens /\ model'[w] \in M!Gens
            /\ modelJob'[w][s].held <= model'[w]
            /\ s # "train" => lock'[w] = s /\ modelJob'[w][s].held = model'[w]
<1> TAKE s \in M!Threads
<1>1. CASE s = t
  BY <1>1 DEF Lineage, Sets
<1>2. CASE s # t
  BY <1>2 DEF Lineage, Sets
<1>3. QED
  BY <1>1, <1>2

LEMMA OpeningStep ==
  ASSUME M!ConstantsOK, ModelInv, NEW w \in ModelWorkers, Lineage(w),
         NEW t \in M!Threads, M!OpenTmp(w, t)
  PROVE  Lineage(w)' /\ BackStep(w)
<1>1. M!Gens \subseteq Nat /\ Torn \notin M!Gens
  BY Numbers
<1>2. PICK j \in ModelJobs : Sets(w, t, j) /\ j.held = modelJob[w][t].held
  BY ModelOpens
<1>3. /\ modelJob[w][t].at \in Saving /\ modelStore'.file = modelStore.file /\ modelStore'.tmp = Torn
      /\ UNCHANGED <<made, model, lock>>
  BY ModelOpens DEF Saving
<1>4. Lineage(w)'
  BY <1>1, <1>2, <1>3, SaversStay DEF Lineage
<1>5. BackStep(w)
  BY <1>1, <1>3, FileStays
<1>6. QED
  BY <1>4, <1>5

\* What a thread at work would put in the file is no younger than the model in
\* memory, and older than the file only if a training request holds it.
LEMMA HeldIs ==
  ASSUME M!ConstantsOK, ModelInv, NEW w \in ModelWorkers, Lineage(w),
         NEW t \in M!Threads, modelJob[w][t].at \in Saving
  PROVE  /\ modelJob[w][t].held \in M!Gens /\ model[w] # None
         /\ modelJob[w][t].held <= made /\ modelJob[w][t].held <= model[w]
         /\ modelStore.file \in M!Gens /\ modelJob[w][t].held < modelStore.file =>
              modelJob[w]["train"].held = modelJob[w][t].held
<1>1. M!Gens \subseteq Nat /\ None \notin M!Gens /\ made \in Nat
  BY Numbers
<1>2. /\ modelJob[w][t].held \in M!Gens /\ model[w] \in M!Gens
      /\ modelJob[w][t].held <= model[w]
      /\ t # "train" => modelJob[w][t].held = model[w]
      /\ model[w] # None => model[w] <= made
      /\ modelStore.file \in M!Gens /\ model[w] # None => modelStore.file <= model[w]
  BY DEF Lineage
<1>3. \A g, h \in M!Gens : (g <= h => ~(h < g)) /\ (g <= h /\ h <= made => g <= made)
  BY <1>1
<1>4. QED
  BY <1>1, <1>2, <1>3

LEMMA DumpingStep ==
  ASSUME M!ConstantsOK, ModelInv, NEW w \in ModelWorkers, Lineage(w),
         NEW t \in M!Threads, M!Dump(w, t)
  PROVE  Lineage(w)' /\ BackStep(w)
<1>1. M!Gens \subseteq Nat /\ Torn \notin M!Gens
  BY Numbers
<1>2. PICK j \in ModelJobs : Sets(w, t, j) /\ j.at = "dumped" /\ j.held = modelJob[w][t].held
  BY ModelDumps
<1>3. /\ modelJob[w][t].at = "open" /\ UNCHANGED <<made, model, lock>>
      /\ \/ modelStore'.tmp \in {modelJob[w][t].held, Torn} /\ modelStore'.file = modelStore.file
         \/ modelStore'.file \in {modelJob[w][t].held, Torn} /\ modelStore'.tmp = modelStore.tmp
         \/ modelStore'.file = modelStore.file /\ modelStore'.tmp = modelStore.tmp
  BY ModelDumps
<1>4. modelJob[w][t].at \in Saving
  BY <1>3 DEF Saving
<1>5. /\ modelJob[w][t].held \in M!Gens /\ model[w] # None
      /\ modelJob[w][t].held <= made /\ modelJob[w][t].held <= model[w]
      /\ modelStore.file \in M!Gens /\ modelJob[w][t].held < modelStore.file =>
            modelJob[w]["train"].held = modelJob[w][t].held
  BY <1>4, HeldIs
<1>6. /\ modelJob'[w][t] = j
      /\ \A s \in M!Threads \ {t} : modelJob'[w][s] = modelJob[w][s]
  BY <1>2 DEF Sets
<1>7. modelStore'.file \in M!Gens => modelStore'.file <= made /\ (model[w] # None => modelStore'.file <= model[w])
  BY <1>1, <1>3, <1>5 DEF Lineage
<1>8. ASSUME modelStore'.tmp \in M!Gens
      PROVE  \E r \in M!Threads : modelJob'[w][r].at = "dumped" /\ modelJob'[w][r].held = modelStore'.tmp
  <2>1. CASE modelStore'.tmp = modelJob[w][t].held
    BY <1>2, <1>6, <2>1
  <2>2. CASE modelStore'.tmp = modelStore.tmp
    <3>1. PICK r \in M!Threads : modelJob[w][r].at = "dumped" /\ modelJob[w][r].held = modelStore.tmp
      BY <1>3, <1>8, <2>2 DEF Lineage
    <3>2. QED
      BY <1>3, <1>6, <2>2, <3>1
  <2>3. QED
    BY <1>1, <1>3, <1>8, <2>1, <2>2
<1>9. Lineage(w)'
  <2>1. model'[w] # None => model'[w] <= made'
    BY <1>3 DEF Lineage
  <2>2. QED
    BY <1>2, <1>3, <1>4, <1>7, <1>8, <2>1, SaversStay DEF Lineage
<1>10. BackStep(w)
  <2>1. modelStore'.file = modelStore.file \/ modelStore'.file \in {modelJob[w][t].held, Torn}
    BY <1>3
  <2>2. SUFFICES ASSUME NEW old \in M!Gens, NEW new \in M!Gens,
                        modelStore.file = new, modelStore'.file = old, old < new
                 PROVE  modelJob[w]["train"].held = old
    BY DEF BackStep
  <2>3. modelStore'.file # modelStore.file
    BY <1>1, <2>2
  <2>4. modelJob[w][t].held = old
    BY <1>1, <2>1, <2>2, <2>3
  <2>5. QED
    BY <1>5, <2>2, <2>4
<1>11. QED
  BY <1>9, <1>10

\* A save ends, with the rename or without.
LEMMA EndingStep ==
  ASSUME M!ConstantsOK, ModelInv, NEW w \in ModelWorkers, Lineage(w),
         NEW t \in M!Threads, modelJob[w][t].at \in {"open", "dumped"}, M!SaveEnds(w, t),
         UNCHANGED <<made, model>>,
         \/ /\ modelJob[w][t].at = "open"
            /\ modelStore'.file \in {modelStore.file, Torn} /\ modelStore'.tmp \in {modelStore.tmp, Torn}
         \/ modelStore' = modelStore /\ modelStore.tmp = None
         \/ modelStore'.file = modelStore.tmp /\ modelStore'.tmp = None
  PROVE  Lineage(w)' /\ BackStep(w)
<1>1. M!Gens \subseteq Nat /\ Torn \notin M!Gens /\ None \notin M!Gens /\ None \notin M!Threads
  BY Numbers
<1>2. PICK j \in ModelJobs : Sets(w, t, j) /\ j.at \in {"step", "last", "idle"}
  BY SaveEndsIs
<1>3. lock'[w] = IF lock[w] = t THEN None ELSE lock[w]
  BY SaveEndsIs
<1>4. /\ modelJob'[w][t] = j
      /\ \A s \in M!Threads \ {t} : modelJob'[w][s] = modelJob[w][s]
  BY <1>2 DEF Sets
<1>5. ASSUME NEW s \in M!Threads, modelJob'[w][s].at \in Saving
      PROVE  /\ modelJob'[w][s].held \in M!Gens /\ model'[w] \in M!Gens
             /\ modelJob'[w][s].held <= model'[w]
             /\ s # "train" => lock'[w] = s /\ modelJob'[w][s].held = model'[w]
  <2>1. s # t
    BY <1>2, <1>4, <1>5 DEF Saving
  <2>2. modelJob'[w][s] = modelJob[w][s] /\ modelJob[w][s].at \in Saving
    BY <1>4, <1>5, <2>1
  <2>3. QED
    BY <1>3, <2>1, <2>2 DEF Lineage
<1>6. \A s \in M!Threads : modelJob[w][s].at \in {"open", "dumped"} => modelJob[w][s].at \in Saving
  BY DEF Saving
<1>7. ASSUME modelStore'.file \in M!Gens
      PROVE  \/ modelStore'.file = modelStore.file
             \/ \E s \in M!Threads : modelJob[w][s].at \in Saving /\ modelJob[w][s].held = modelStore'.file
  <2>1. CASE modelStore'.file = modelStore.tmp /\ modelStore'.tmp = None
    <3>1. PICK s \in M!Threads : modelJob[w][s].at = "dumped" /\ modelJob[w][s].held = modelStore.tmp
      BY <1>7, <2>1 DEF Lineage
    <3>2. QED
      BY <1>6, <2>1, <3>1
  <2>2. QED
    BY <1>1, <1>7, <2>1
<1>8. modelStore'.file \in M!Gens => modelStore'.file <= made /\ (model[w] # None => modelStore'.file <= model[w])
  BY <1>7, HeldIs DEF Lineage
<1>9. ASSUME modelStore'.tmp \in M!Gens
      PROVE  \E r \in M!Threads : modelJob'[w][r].at = "dumped" /\ modelJob'[w][r].held = modelStore'.tmp
  <2>1. modelStore'.tmp = modelStore.tmp /\ modelJob[w][t].at = "open"
    BY <1>1, <1>9
  <2>2. PICK r \in M!Threads : modelJob[w][r].at = "dumped" /\ modelJob[w][r].held = modelStore.tmp
    BY <1>9, <2>1 DEF Lineage
  <2>3. QED
    BY <1>4, <2>1, <2>2
<1>10. Lineage(w)'
  <2>1. model'[w] # None => model'[w] <= made'
    BY DEF Lineage
  <2>2. QED
    BY <1>5, <1>8, <1>9, <2>1 DEF Lineage
<1>11. BackStep(w)
  <2>1. SUFFICES ASSUME NEW old \in M!Gens, NEW new \in M!Gens,
                        modelStore.file = new, modelStore'.file = old, old < new
                 PROVE  modelJob[w]["train"].held = old
    BY DEF BackStep
  <2>2. modelStore'.file # modelStore.file
    BY <1>1, <2>1
  <2>3. PICK s \in M!Threads : modelJob[w][s].at \in Saving /\ modelJob[w][s].held = old
    BY <1>7, <2>1, <2>2
  <2>4. QED
    BY <2>1, <2>3, HeldIs
<1>12. QED
  BY <1>10, <1>11

LEMMA KilledStep ==
  ASSUME M!ConstantsOK, ModelInv, NEW w \in ModelWorkers, Lineage(w), M!Kill(w)
  PROVE  Lineage(w)' /\ BackStep(w)
<1>1. M!Gens \subseteq Nat
  BY Numbers
<1>2. /\ model'[w] = None /\ \A t \in M!Threads : modelJob'[w][t].at = "idle"
      /\ modelStore'.file = modelStore.file /\ made' = made
  BY ModelKilled, IdleJob
<1>3. Lineage(w)'
  BY <1>2 DEF Lineage, Saving
<1>4. BackStep(w)
  BY <1>1, <1>2, FileStays
<1>5. QED
  BY <1>3, <1>4

LEMMA NextLineage ==
  ASSUME M!ConstantsOK, ModelInv, ModelInv', NEW w, ModelWorkers = {w}, Lineage(w), [M!Next]_(M!vars)
  PROVE  Lineage(w)' /\ BackStep(w)
<1>0. w \in ModelWorkers
  OBVIOUS
<1>1. ASSUME NEW t \in M!Threads, M!Begin(w, t) PROVE Lineage(w)' /\ BackStep(w)
  BY <1>0, <1>1, ModelStarts, LookingStep DEF ModelInv
<1>2. ASSUME NEW t \in M!Threads, M!_train_step(w, t) PROVE Lineage(w)' /\ BackStep(w)
  BY <1>0, <1>2, ModelTrains, LookingStep DEF ModelInv
<1>3. ASSUME NEW t \in M!Threads, M!StepRaises(w, t) PROVE Lineage(w)' /\ BackStep(w)
  BY <1>0, <1>3, ModelStepRaises, LookingStep DEF ModelInv
<1>4. ASSUME NEW t \in M!Threads, M!MakeAnew(w, t) PROVE Lineage(w)' /\ BackStep(w)
  BY <1>0, <1>4, MakingStep
<1>5. ASSUME NEW t \in M!Threads, M!TakeLast(w, t) PROVE Lineage(w)' /\ BackStep(w)
  BY <1>0, <1>5, TakingStep
<1>6. ASSUME NEW t \in M!Threads, M!OpenTmp(w, t) PROVE Lineage(w)' /\ BackStep(w)
  BY <1>0, <1>6, OpeningStep
<1>7. ASSUME NEW t \in M!Threads, M!Dump(w, t) PROVE Lineage(w)' /\ BackStep(w)
  BY <1>0, <1>7, DumpingStep
<1>8. ASSUME NEW t \in M!Threads, M!Replace(w, t) PROVE Lineage(w)' /\ BackStep(w)
  BY <1>0, <1>8, ModelReplaces, EndingStep
<1>9. ASSUME NEW t \in M!Threads, M!SaveRaises(w, t) PROVE Lineage(w)' /\ BackStep(w)
  BY <1>0, <1>9, ModelSaveRaises, EndingStep
<1>10. ASSUME NEW bad \in BOOLEAN, M!Judge(w, bad) PROVE Lineage(w)' /\ BackStep(w)
  <2>1. "round" \in M!Threads
    BY DEF M!Threads
  <2>2. QED
    BY <1>0, <1>10, <2>1, ModelJudged, LookingStep DEF ModelInv
<1>11. ASSUME M!Kill(w) PROVE Lineage(w)' /\ BackStep(w)
  BY <1>0, <1>11, KilledStep
<1>12. CASE UNCHANGED M!vars
  <2>1. UNCHANGED <<modelStore, made, model, lock, modelJob>>
    BY <1>12 DEF M!vars
  <2>2. M!Gens \subseteq Nat
    BY Numbers
  <2>3. BackStep(w)
    BY <2>1, <2>2, FileStays
  <2>4. QED
    BY <2>1, <2>3 DEF Lineage
<1>13. QED
  BY <1>1, <1>2, <1>3, <1>4, <1>5, <1>6, <1>7, <1>8, <1>9, <1>10, <1>11, <1>12 DEF M!Next

----------------------------------------------------------------------------
(* The types of the switch's state *)

TogglePaths ==
    [file : BOOLEAN \cup {Torn}, tmp : BOOLEAN \cup {None, Torn},
     fd : [T!Editors -> {"closed", "tmp", "file", "gone"}]]

Loops == [at : {"none", "asleep", "round"}, on : BOOLEAN, reread : BOOLEAN]

ToggleSteps == {"none", "read", "open", "dumped", "failed", "saved"}

Toggles == [at : ToggleSteps, on : BOOLEAN]

Edits == [at : {"none", "read", "open"}, data : BOOLEAN \cup {None}]

Answers == [by : ToggleWorkers, on : BOOLEAN, saved : BOOLEAN]

LEMMA TogglePathsAre == T!F!Paths(T!Docs) = TogglePaths
  BY DEF T!F!Paths, T!Docs, TogglePaths

LEMMA ToggleTypes ==
  T!TypeOK <=> /\ toggleStore \in TogglePaths
               /\ cache \in [ToggleWorkers -> BOOLEAN \cup {None}]
               /\ loop \in [ToggleWorkers -> Loops]
               /\ toggle \in [ToggleWorkers -> Toggles]
               /\ edit \in Edits
               /\ last \in Answers \cup {None}
               /\ rounds \in [ToggleWorkers -> 0..3]
               /\ misread \in BOOLEAN
               /\ events \in 0..MaxEvents
<1>1. Loops = [at : {"none", "asleep", "round"}, on : BOOLEAN, reread : BOOLEAN]
      /\ Toggles = [at : {"none", "read", "open", "dumped", "failed", "saved"}, on : BOOLEAN]
      /\ Edits = [at : {"none", "read", "open"}, data : T!Docs \cup {None}]
      /\ Answers = [by : ToggleWorkers, on : BOOLEAN, saved : BOOLEAN]
  BY DEF Loops, Toggles, ToggleSteps, Edits, Answers, T!Docs
<1>2. QED
  BY <1>1, TogglePathsAre DEF T!TypeOK

LEMMA ToggleTypesNext ==
  ASSUME toggleStore' \in TogglePaths,
         cache' \in [ToggleWorkers -> BOOLEAN \cup {None}],
         loop' \in [ToggleWorkers -> Loops],
         toggle' \in [ToggleWorkers -> Toggles],
         edit' \in Edits,
         last' \in Answers \cup {None},
         rounds' \in [ToggleWorkers -> 0..3],
         misread' \in BOOLEAN,
         events' \in 0..MaxEvents
  PROVE  T!TypeOK'
<1>1. Loops = [at : {"none", "asleep", "round"}, on : BOOLEAN, reread : BOOLEAN]
      /\ Toggles = [at : {"none", "read", "open", "dumped", "failed", "saved"}, on : BOOLEAN]
      /\ Edits = [at : {"none", "read", "open"}, data : T!Docs \cup {None}]
      /\ Answers = [by : ToggleWorkers, on : BOOLEAN, saved : BOOLEAN]
  BY DEF Loops, Toggles, ToggleSteps, Edits, Answers, T!Docs
<1>2. QED
  BY <1>1, TogglePathsAre DEF T!TypeOK

LEMMA TogglePathsKeep ==
  ASSUME NEW p \in TogglePaths, NEW e \in T!Editors
  PROVE  /\ T!F!Opened(p, e) \in TogglePaths
         /\ T!F!OpenedInPlace(p, e) \in TogglePaths /\ T!F!OpenedInPlace(p, e).file = Torn
         /\ p.tmp # None => T!F!Replaced(p) \in TogglePaths
         /\ T!F!Closed(p, {e}) \in TogglePaths /\ T!F!Closed(p, {e}).file = p.file
<1>1. T!F!Opened(p, e) \in TogglePaths
  BY DEF T!F!Opened, TogglePaths
<1>2. T!F!OpenedInPlace(p, e) \in TogglePaths /\ T!F!OpenedInPlace(p, e).file = Torn
  BY DEF T!F!OpenedInPlace, TogglePaths
<1>3. p.tmp # None => T!F!Replaced(p) \in TogglePaths
  BY DEF T!F!Replaced, TogglePaths
<1>4. T!F!Closed(p, {e}) \in TogglePaths /\ T!F!Closed(p, {e}).file = p.file
  BY DEF T!F!Closed, TogglePaths
<1>5. QED
  BY <1>1, <1>2, <1>3, <1>4

LEMMA ToggleDumped ==
  ASSUME NEW p \in TogglePaths, NEW e \in T!Editors, NEW d \in BOOLEAN \cup {Torn},
         NEW q \in T!F!Dumped(p, e, d)
  PROVE  q \in TogglePaths
<1>1. PICK x \in BOOLEAN \cup {Torn} : q = T!F!Put(T!F!Closed(p, {e}), p.fd[e], x)
  BY DEF T!F!Dumped
<1> DEFINE c == T!F!Closed(p, {e})
<1>2. c \in TogglePaths
  BY TogglePathsKeep
<1> HIDE DEF c
<1>3. q = T!F!Put(c, p.fd[e], x)
  BY <1>1 DEF c
<1>4. CASE p.fd[e] = "tmp"
  BY <1>2, <1>3, <1>4 DEF T!F!Put, TogglePaths
<1>5. CASE p.fd[e] = "file"
  BY <1>2, <1>3, <1>5 DEF T!F!Put, TogglePaths
<1>6. CASE p.fd[e] \notin {"tmp", "file"}
  BY <1>2, <1>3, <1>6 DEF T!F!Put, TogglePaths
<1>7. QED
  BY <1>4, <1>5, <1>6

LEMMA ToggleSets ==
  ASSUME T!TypeOK, NEW w \in ToggleWorkers, NEW r \in Toggles, toggle' = [toggle EXCEPT ![w] = r]
  PROVE  /\ toggle' \in [ToggleWorkers -> Toggles] /\ toggle'[w] = r
         /\ \A v \in ToggleWorkers \ {w} : toggle'[v] = toggle[v]
  BY ToggleTypes

\* A request goes to another step.
LEMMA ToggleToIs ==
  ASSUME T!TypeOK, NEW w \in ToggleWorkers, NEW s \in ToggleSteps, T!ToggleTo(w, s)
  PROVE  toggle' \in [ToggleWorkers -> Toggles]
<1> DEFINE r == [toggle[w] EXCEPT !.at = s]
<1>1. toggle' = [toggle EXCEPT ![w] = r]
  BY DEF T!ToggleTo
<1>2. r \in Toggles
  BY ToggleTypes DEF Toggles
<1> HIDE DEF r
<1>3. QED
  BY <1>1, <1>2, ToggleSets

LEMMA NoToggleIs == T!NoToggle \in Toggles /\ T!NoToggle.at = "none" /\ T!NoLoop \in Loops /\ T!NoLoop.at = "none"
  BY DEF T!NoToggle, T!NoLoop, Toggles, ToggleSteps, Loops

\* Going to sleep: with what the cache says now, which is the file's word if it
\* was empty.
LEMMA SleepIs ==
  ASSUME T!TypeOK, T!ConstantsOK, NEW w \in ToggleWorkers, T!Sleep(w)
  PROVE  /\ cache' \in [ToggleWorkers -> BOOLEAN \cup {None}]
         /\ loop' \in [ToggleWorkers -> Loops]
         /\ misread' \in BOOLEAN
         /\ \A v \in ToggleWorkers \ {w} : cache'[v] = cache[v] /\ loop'[v] = loop[v]
         /\ loop'[w].at = "asleep" /\ ~loop'[w].reread
         /\ loop'[w].on <=> cache'[w] = TRUE
         /\ cache[w] # None => cache'[w] = cache[w]
         /\ cache[w] = None => cache'[w] = T!FileOn
         /\ ~misread' => ~misread /\ (cache[w] = None => toggleStore.file # Torn)
<1> DEFINE b == T!Looked(w)
           l == [at |-> "asleep", on |-> b, reread |-> FALSE]
<1>1. /\ cache \in [ToggleWorkers -> BOOLEAN \cup {None}] /\ loop \in [ToggleWorkers -> Loops]
      /\ misread \in BOOLEAN
  BY ToggleTypes
<1>2. /\ b \in BOOLEAN
      /\ cache[w] # None => b = cache[w]
      /\ cache[w] = None => b = T!FileOn
  BY <1>1 DEF T!Looked, T!FileOn
<1>3. /\ cache' = [cache EXCEPT ![w] = b]
      /\ misread' = (misread \/ (toggleStore.file = Torn /\ cache[w] = None))
      /\ loop' = [loop EXCEPT ![w] = l]
  BY DEF T!Sleep, T!_auto_cfg
<1> HIDE DEF b
<1>4. l \in Loops /\ l.at = "asleep" /\ l.reread = FALSE /\ l.on = b
  BY <1>2 DEF Loops
<1> HIDE DEF l
<1>5. /\ loop' \in [ToggleWorkers -> Loops] /\ loop'[w] = l
      /\ \A v \in ToggleWorkers \ {w} : loop'[v] = loop[v]
  BY <1>1, <1>3, <1>4
<1>6. /\ cache' \in [ToggleWorkers -> BOOLEAN \cup {None}] /\ cache'[w] = b
      /\ \A v \in ToggleWorkers \ {w} : cache'[v] = cache[v]
  BY <1>1, <1>2, <1>3
<1>7. loop'[w].on <=> cache'[w] = TRUE
  BY <1>2, <1>4, <1>5, <1>6
<1>8. misread' \in BOOLEAN /\ (~misread' => ~misread /\ (cache[w] = None => toggleStore.file # Torn))
  BY <1>1, <1>3
<1>9. QED
  BY <1>2, <1>4, <1>5, <1>6, <1>7, <1>8

----------------------------------------------------------------------------
(* The rounds after a saved disabling *)

\* What may still begin: the round the loop has decided on, and one more that a
\* cache which still says enabled lets it decide on.
Spare(w, n) ==
    LET decided == loop[w].at = "asleep" /\ loop[w].on
        stale == cache[w] = TRUE /\ (loop[w].at = "asleep" => loop[w].reread)
    IN /\ rounds[w] <= n
       /\ decided \/ stale => rounds[w] + 1 <= n
       /\ decided /\ stale => rounds[w] + 2 <= n

SavedOff == last # None /\ last.saved /\ ~last.on /\ ~misread

ServedAlone == last # None => \A w \in ToggleWorkers : toggle[w].at = "none"

CountedSince == last = None => \A w \in ToggleWorkers : rounds[w] = 0

FewLeft ==
    SavedOff => /\ toggleStore.file # TRUE
                /\ cache[last.by] # TRUE
                /\ Spare(last.by, 1) /\ \A w \in ToggleWorkers : Spare(w, 2)

EditRead == edit.at # "none" => edit.data \in BOOLEAN

ToggleInv == T!TypeOK /\ ServedAlone /\ CountedSince /\ EditRead /\ FewLeft

LEMMA FewAreLeft ==
  ASSUME ToggleInv
  PROVE  T!FewRoundsMore
<1> SUFFICES ASSUME last # None, last.saved, ~last.on, ~misread, NEW w \in ToggleWorkers
             PROVE  rounds[w] <= IF w = last.by THEN 1 ELSE 2
  BY DEF T!FewRoundsMore
<1>1. Spare(last.by, 1) /\ Spare(w, 2)
  BY DEF ToggleInv, FewLeft, SavedOff
<1>2. rounds[last.by] <= 1 /\ rounds[w] <= 2
  BY <1>1 DEF Spare
<1>3. QED
  BY <1>2

LEMMA InitToggle == T!ConstantsOK /\ T!Init => ToggleInv
<1> SUFFICES ASSUME T!ConstantsOK, T!Init PROVE ToggleInv
  OBVIOUS
<1>1. toggleStore \in TogglePaths
  BY DEF T!Init, T!F!Holding, TogglePaths
<1>2. T!TypeOK
  <2>1. loop \in [ToggleWorkers -> Loops] /\ toggle \in [ToggleWorkers -> Toggles]
    BY NoToggleIs DEF T!Init
  <2>2. edit \in Edits /\ last \in Answers \cup {None} /\ misread \in BOOLEAN
    BY DEF T!Init, Edits
  <2>3. cache \in [ToggleWorkers -> BOOLEAN \cup {None}] /\ rounds \in [ToggleWorkers -> 0..3]
    BY DEF T!Init
  <2>4. events \in 0..MaxEvents
    BY DEF T!Init, T!ConstantsOK
  <2>5. QED
    BY <1>1, <2>1, <2>2, <2>3, <2>4, ToggleTypes
<1>3. last = None /\ edit.at = "none" /\ \A w \in ToggleWorkers : rounds[w] = 0
  BY DEF T!Init
<1>4. QED
  BY <1>2, <1>3 DEF ToggleInv, ServedAlone, CountedSince, EditRead, FewLeft, SavedOff

\* A step of one worker's loop or cache, with no request under way or beside it.
LEMMA LoopStep ==
  ASSUME ToggleInv, T!TypeOK', NEW w \in ToggleWorkers,
         UNCHANGED <<toggleStore, toggle, edit, last>>, ~misread' => ~misread,
         \A v \in ToggleWorkers \ {w} :
            loop'[v] = loop[v] /\ cache'[v] = cache[v] /\ rounds'[v] = rounds[v],
         last = None => rounds'[w] = rounds[w],
         ~misread' /\ toggleStore.file # TRUE /\ cache'[w] = TRUE => cache[w] = TRUE,
         \A n \in {1, 2} : SavedOff /\ ~misread' /\ toggleStore.file # TRUE /\ Spare(w, n) => Spare(w, n)'
  PROVE  ToggleInv'
<1>1. ServedAlone' /\ CountedSince' /\ EditRead'
  BY DEF ToggleInv, ServedAlone, CountedSince, EditRead
<1>2. ASSUME SavedOff'
      PROVE  /\ toggleStore'.file # TRUE /\ cache'[last'.by] # TRUE
             /\ Spare(last.by, 1)' /\ \A v \in ToggleWorkers : Spare(v, 2)'
  <2>1. SavedOff /\ ~misread' /\ toggleStore.file # TRUE /\ cache[last.by] # TRUE
        /\ last.by \in ToggleWorkers
        /\ Spare(last.by, 1) /\ \A v \in ToggleWorkers : Spare(v, 2)
    BY <1>2, ToggleTypes DEF ToggleInv, SavedOff, FewLeft, Answers
  <2>2. cache'[last.by] # TRUE
    BY <2>1
  <2>3. \A v \in ToggleWorkers \ {w}, n \in {1, 2} : Spare(v, n) => Spare(v, n)'
    BY DEF Spare
  <2>4. \A v \in ToggleWorkers, n \in {1, 2} : Spare(v, n) => Spare(v, n)'
    BY <2>1, <2>3
  <2>5. Spare(last.by, 1)'
    <3>1. PICK v \in ToggleWorkers : v = last.by
      BY <2>1
    <3>2. Spare(v, 1)'
      BY <2>1, <2>4, <3>1
    <3>3. QED
      BY <3>1, <3>2 DEF Spare
  <2>6. QED
    BY <2>1, <2>2, <2>4, <2>5
<1>3. FewLeft'
  BY <1>2 DEF FewLeft
<1>4. QED
  BY <1>1, <1>3 DEF ToggleInv

\* Going to sleep: what it may then decide on was counted before, from a loop that
\* was not asleep or that may wake.
LEMMA SleepSpare ==
  ASSUME ToggleInv, T!ConstantsOK, NEW w \in ToggleWorkers, T!Sleep(w),
         loop[w].at = "asleep" => loop[w].reread \/ cache[w] = None,
         UNCHANGED <<toggleStore, toggle, edit, last, rounds, events>>
  PROVE  ToggleInv'
<1>1. /\ cache' \in [ToggleWorkers -> BOOLEAN \cup {None}]
      /\ loop' \in [ToggleWorkers -> Loops]
      /\ misread' \in BOOLEAN
      /\ \A v \in ToggleWorkers \ {w} : cache'[v] = cache[v] /\ loop'[v] = loop[v]
      /\ loop'[w].at = "asleep" /\ ~loop'[w].reread
      /\ loop'[w].on <=> cache'[w] = TRUE
      /\ cache[w] # None => cache'[w] = cache[w]
      /\ cache[w] = None => cache'[w] = T!FileOn
      /\ ~misread' => ~misread /\ (cache[w] = None => toggleStore.file # Torn)
  BY SleepIs DEF ToggleInv
<1>2. T!TypeOK'
  BY <1>1, ToggleTypes, ToggleTypesNext DEF ToggleInv
<1>3. toggleStore.file \in BOOLEAN \cup {Torn}
  BY ToggleTypes DEF ToggleInv, TogglePaths
<1>4. ~misread' /\ toggleStore.file # TRUE /\ cache'[w] = TRUE => cache[w] = TRUE /\ cache[w] # None
  <2>1. CASE cache[w] = None
    <3>1. ~misread' /\ toggleStore.file # TRUE => toggleStore.file = FALSE
      BY <1>1, <1>3, <2>1
    <3>2. toggleStore.file = FALSE => ~T!FileOn
      BY DEF T!FileOn
    <3>3. QED
      BY <1>1, <2>1, <3>1, <3>2
  <2>2. CASE cache[w] # None
    BY <1>1, <2>2
  <2>3. QED
    BY <2>1, <2>2
<1>5. ASSUME NEW n \in {1, 2}, ~misread', toggleStore.file # TRUE, Spare(w, n)
      PROVE  Spare(w, n)'
  <2>1. rounds[w] <= n /\ rounds'[w] = rounds[w]
    BY <1>5 DEF Spare
  <2>2. CASE cache'[w] = TRUE
    <3>1. cache[w] = TRUE /\ (loop[w].at = "asleep" => loop[w].reread)
      BY <1>4, <1>5, <2>2
    <3>2. rounds[w] + 1 <= n
      BY <1>5, <3>1 DEF Spare
    <3>3. QED
      BY <1>1, <2>1, <3>2 DEF Spare
  <2>3. CASE cache'[w] # TRUE
    BY <1>1, <2>1, <2>3 DEF Spare
  <2>4. QED
    BY <2>2, <2>3
<1>6. QED
  BY <1>1, <1>2, <1>4, <1>5, LoopStep

LEMMA AgeKeeps ==
  ASSUME ToggleInv, T!ConstantsOK, NEW w \in ToggleWorkers, T!Age(w)
  PROVE  ToggleInv'
<1>1. /\ cache' = [cache EXCEPT ![w] = None]
      /\ UNCHANGED <<toggleStore, loop, toggle, edit, last, rounds, misread, events>>
  BY DEF T!Age
<1>2. /\ cache' \in [ToggleWorkers -> BOOLEAN \cup {None}] /\ cache'[w] = None
      /\ \A v \in ToggleWorkers \ {w} : cache'[v] = cache[v]
  BY <1>1, ToggleTypes DEF ToggleInv
<1>3. T!TypeOK'
  BY <1>1, <1>2, ToggleTypes, ToggleTypesNext DEF ToggleInv
<1>4. cache'[w] # TRUE
  BY <1>2 DEF T!ConstantsOK
<1>5. \A n \in {1, 2} : Spare(w, n) => Spare(w, n)'
  BY <1>1, <1>4 DEF Spare
<1>6. QED
  BY <1>1, <1>2, <1>3, <1>4, <1>5, LoopStep

LEMMA LookKeeps ==
  ASSUME ToggleInv, T!ConstantsOK, NEW w \in ToggleWorkers, T!Look(w)
  PROVE  ToggleInv'
<1> DEFINE l == [loop[w] EXCEPT !.reread = TRUE]
<1>1. /\ cache[w] = None /\ cache' = [cache EXCEPT ![w] = T!FileOn]
      /\ misread' = (misread \/ (toggleStore.file = Torn /\ cache[w] = None))
      /\ loop' = [loop EXCEPT ![w] = l]
      /\ UNCHANGED <<toggleStore, toggle, edit, last, rounds, events>>
  BY DEF T!Look, T!_auto_cfg, T!Looked
<1>2. /\ cache \in [ToggleWorkers -> BOOLEAN \cup {None}] /\ loop \in [ToggleWorkers -> Loops]
      /\ misread \in BOOLEAN /\ toggleStore.file \in BOOLEAN \cup {Torn}
  BY ToggleTypes DEF ToggleInv, TogglePaths
<1>3. l \in Loops /\ l.at = loop[w].at /\ l.on = loop[w].on
  BY <1>2 DEF Loops
<1> HIDE DEF l
<1>4. /\ loop' \in [ToggleWorkers -> Loops] /\ loop'[w] = l
      /\ \A v \in ToggleWorkers \ {w} : loop'[v] = loop[v]
  BY <1>1, <1>2, <1>3
<1>5. T!FileOn \in BOOLEAN
  BY DEF T!FileOn
<1>6. /\ cache' \in [ToggleWorkers -> BOOLEAN \cup {None}] /\ cache'[w] = T!FileOn
      /\ \A v \in ToggleWorkers \ {w} : cache'[v] = cache[v]
  BY <1>1, <1>2, <1>5
<1>7. misread' \in BOOLEAN /\ (~misread' => ~misread /\ toggleStore.file # Torn)
  BY <1>1, <1>2
<1>8. T!TypeOK'
  BY <1>1, <1>4, <1>6, <1>7, ToggleTypes, ToggleTypesNext DEF ToggleInv
<1>9. ~misread' /\ toggleStore.file # TRUE => cache'[w] # TRUE
  <2>1. ~misread' /\ toggleStore.file # TRUE => toggleStore.file = FALSE
    BY <1>2, <1>7
  <2>2. toggleStore.file = FALSE => ~T!FileOn
    BY DEF T!FileOn
  <2>3. QED
    BY <1>6, <2>1, <2>2
<1>10. ASSUME NEW n \in {1, 2}, ~misread', toggleStore.file # TRUE, Spare(w, n)
       PROVE  Spare(w, n)'
  <2>1. cache'[w] # TRUE
    BY <1>9, <1>10
  <2>2. loop'[w].at = loop[w].at /\ loop'[w].on = loop[w].on /\ rounds'[w] = rounds[w]
    BY <1>1, <1>3, <1>4
  <2>3. QED
    BY <1>10, <2>1, <2>2 DEF Spare
<1>11. QED
  BY <1>1, <1>4, <1>6, <1>7, <1>8, <1>9, <1>10, LoopStep, ZenonT(30)

LEMMA TrainKeeps ==
  ASSUME ToggleInv, T!ConstantsOK, NEW w \in ToggleWorkers, T!Train(w)
  PROVE  ToggleInv'
<1> DEFINE l == [loop[w] EXCEPT !.at = "round"]
           r == IF last # None /\ rounds[w] < 3 THEN rounds[w] + 1 ELSE rounds[w]
<1>1. /\ loop[w].at = "asleep" /\ loop[w].on /\ (loop[w].reread \/ cache[w] = None)
      /\ loop' = [loop EXCEPT ![w] = l]
      /\ rounds' = [rounds EXCEPT ![w] = r]
      /\ UNCHANGED <<toggleStore, cache, toggle, edit, last, misread, events>>
  BY DEF T!Train, T!MayWake
<1>2. loop \in [ToggleWorkers -> Loops] /\ rounds \in [ToggleWorkers -> 0..3]
  BY ToggleTypes DEF ToggleInv
<1>3. l \in Loops /\ l.at = "round"
  BY <1>2 DEF Loops
<1>4. r \in 0..3 /\ r <= rounds[w] + 1 /\ (last = None => r = rounds[w])
  BY <1>2
<1> HIDE DEF l, r
<1>5. /\ loop' \in [ToggleWorkers -> Loops] /\ loop'[w] = l
      /\ \A v \in ToggleWorkers \ {w} : loop'[v] = loop[v]
  BY <1>1, <1>2, <1>3
<1>6. /\ rounds' \in [ToggleWorkers -> 0..3] /\ rounds'[w] = r
      /\ \A v \in ToggleWorkers \ {w} : rounds'[v] = rounds[v]
  BY <1>1, <1>2, <1>4
<1>7. T!TypeOK'
  BY <1>1, <1>5, <1>6, ToggleTypes, ToggleTypesNext DEF ToggleInv
<1>8. ASSUME NEW n \in {1, 2}, Spare(w, n)
      PROVE  Spare(w, n)'
  <2>1. rounds[w] + 1 <= n /\ rounds'[w] <= rounds[w] + 1 /\ rounds[w] \in 0..3 /\ rounds'[w] \in 0..3
    BY <1>1, <1>2, <1>4, <1>6, <1>8 DEF Spare
  <2>2. loop'[w].at = "round" /\ cache'[w] = cache[w]
    BY <1>1, <1>3, <1>5
  <2>3. CASE cache[w] = TRUE
    <3>1. loop[w].reread
      BY <1>1, <2>3 DEF T!ConstantsOK
    <3>2. rounds[w] + 2 <= n
      BY <1>1, <1>8, <2>3, <3>1 DEF Spare
    <3>3. rounds'[w] + 1 <= n
      BY <2>1, <3>2
    <3>4. QED
      BY <2>1, <2>2, <3>3 DEF Spare
  <2>4. CASE cache[w] # TRUE
    <3>1. rounds'[w] <= n
      BY <2>1
    <3>2. QED
      BY <2>2, <2>4, <3>1 DEF Spare
  <2>5. QED
    BY <2>3, <2>4
<1>9. QED
  BY <1>1, <1>4, <1>5, <1>6, <1>7, <1>8, LoopStep, ZenonT(30)

\* While a request is under way nothing is counted, and no other answer stands.
LEMMA UnderWay ==
  ASSUME ToggleInv, NEW w \in ToggleWorkers, toggle[w].at # "none",
         T!TypeOK', UNCHANGED <<last, rounds, edit>>
  PROVE  ToggleInv'
<1>1. last = None /\ last' = None /\ rounds' = rounds
  BY DEF ToggleInv, ServedAlone
<1>2. QED
  BY <1>1 DEF ToggleInv, ServedAlone, CountedSince, EditRead, FewLeft, SavedOff

----------------------------------------------------------------------------
(* The request, the other handler, and kills *)

LEMMA AskKeeps ==
  ASSUME ToggleInv, T!ConstantsOK, NEW w \in ToggleWorkers, NEW on \in BOOLEAN, T!Ask(w, on)
  PROVE  ToggleInv'
<1>1. /\ events < MaxEvents /\ events' = events + 1
      /\ last' = None /\ rounds' = [v \in ToggleWorkers |-> 0] /\ misread' = TRUE
      /\ UNCHANGED <<toggleStore, cache, loop, edit>>
  BY DEF T!Ask
<1>2. PICK s \in ToggleSteps : toggle' = [toggle EXCEPT ![w] = [at |-> s, on |-> on]]
  <2>1. CASE toggleStore.file = Torn
    BY <2>1 DEF T!Ask, ToggleSteps
  <2>2. CASE toggleStore.file # Torn
    BY <2>2 DEF T!Ask, ToggleSteps
  <2>3. QED
    BY <2>1, <2>2
<1>3. [at |-> s, on |-> on] \in Toggles
  BY DEF Toggles
<1>4. toggle' \in [ToggleWorkers -> Toggles]
  BY <1>2, <1>3, ToggleSets DEF ToggleInv
<1>5. events' \in 0..MaxEvents
  BY <1>1, ToggleTypes DEF ToggleInv, T!ConstantsOK
<1>6. T!TypeOK'
  <2>1. rounds' \in [ToggleWorkers -> 0..3] /\ misread' \in BOOLEAN
    BY <1>1
  <2>2. QED
    BY <1>1, <1>4, <1>5, <2>1, ToggleTypes, ToggleTypesNext DEF ToggleInv
<1>7. QED
  BY <1>1, <1>6 DEF ToggleInv, ServedAlone, CountedSince, EditRead, FewLeft, SavedOff

LEMMA OpenTmpKeeps ==
  ASSUME ToggleInv, T!ConstantsOK, NEW w \in ToggleWorkers, T!OpenTmp(w)
  PROVE  ToggleInv'
<1>1. /\ toggle[w].at = "read" /\ toggleStore' = T!F!Opened(toggleStore, w) /\ T!ToggleTo(w, "open")
      /\ UNCHANGED <<cache, loop, edit, last, rounds, misread, events>>
  BY DEF T!OpenTmp
<1>2. toggle' \in [ToggleWorkers -> Toggles]
  BY <1>1, ToggleToIs DEF ToggleInv, ToggleSteps
<1>3. toggleStore' \in TogglePaths
  BY <1>1, ToggleTypes, TogglePathsKeep DEF ToggleInv, T!Editors
<1>4. T!TypeOK'
  BY <1>1, <1>2, <1>3, ToggleTypes, ToggleTypesNext DEF ToggleInv
<1>5. QED
  BY <1>1, <1>4, UnderWay

LEMMA OpenRaisesKeeps ==
  ASSUME ToggleInv, T!ConstantsOK, NEW w \in ToggleWorkers, T!OpenRaises(w)
  PROVE  ToggleInv'
<1>1. /\ toggle[w].at = "read" /\ events < MaxEvents /\ events' = events + 1 /\ T!ToggleTo(w, "failed")
      /\ UNCHANGED <<toggleStore, cache, loop, edit, last, rounds, misread>>
  BY DEF T!OpenRaises
<1>2. toggle' \in [ToggleWorkers -> Toggles]
  BY <1>1, ToggleToIs DEF ToggleInv, ToggleSteps
<1>3. events' \in 0..MaxEvents
  BY <1>1, ToggleTypes DEF ToggleInv, T!ConstantsOK
<1>4. T!TypeOK'
  BY <1>1, <1>2, <1>3, ToggleTypes, ToggleTypesNext DEF ToggleInv
<1>5. QED
  BY <1>1, <1>4, UnderWay

LEMMA DumpKeeps ==
  ASSUME ToggleInv, T!ConstantsOK, NEW w \in ToggleWorkers, T!Dump(w)
  PROVE  ToggleInv'
<1>1. /\ toggle[w].at = "open" /\ T!ToggleTo(w, "dumped")
      /\ toggleStore' \in T!F!Dumped(toggleStore, w, toggle[w].on)
      /\ UNCHANGED <<cache, loop, edit, last, rounds, misread, events>>
  BY DEF T!Dump
<1>2. toggle' \in [ToggleWorkers -> Toggles]
  BY <1>1, ToggleToIs DEF ToggleInv, ToggleSteps
<1>3. toggle[w].on \in BOOLEAN
  BY ToggleTypes DEF ToggleInv, Toggles
<1>4. toggleStore' \in TogglePaths
  BY <1>1, <1>3, ToggleTypes, ToggleDumped DEF ToggleInv, T!Editors
<1>5. T!TypeOK'
  BY <1>1, <1>2, <1>4, ToggleTypes, ToggleTypesNext DEF ToggleInv
<1>6. QED
  BY <1>1, <1>5, UnderWay

LEMMA ReplaceKeeps ==
  ASSUME ToggleInv, T!ConstantsOK, NEW w \in ToggleWorkers, T!Replace(w)
  PROVE  ToggleInv'
<1>1. /\ toggle[w].at = "dumped"
      /\ UNCHANGED <<cache, loop, edit, last, rounds, misread, events>>
  BY DEF T!Replace
<1>2. /\ \E s \in ToggleSteps : T!ToggleTo(w, s)
      /\ \/ toggleStore' = toggleStore
         \/ toggleStore.tmp # None /\ toggleStore' = T!F!Replaced(toggleStore)
  <2>1. CASE toggleStore.tmp = None
    BY <2>1 DEF T!Replace, ToggleSteps
  <2>2. CASE toggleStore.tmp # None
    BY <2>2 DEF T!Replace, ToggleSteps
  <2>3. QED
    BY <2>1, <2>2
<1>3. toggle' \in [ToggleWorkers -> Toggles]
  BY <1>2, ToggleToIs DEF ToggleInv
<1>4. toggleStore' \in TogglePaths
  BY <1>2, ToggleTypes, TogglePathsKeep DEF ToggleInv, T!Editors
<1>5. T!TypeOK'
  BY <1>1, <1>3, <1>4, ToggleTypes, ToggleTypesNext DEF ToggleInv
<1>6. QED
  BY <1>1, <1>5, UnderWay

\* The answer of a disabling that was saved: nothing is counted yet, and the cache
\* of the worker that answers no longer says enabled.
LEMMA AnswerKeeps ==
  ASSUME ToggleInv, T!ConstantsOK, NEW w \in ToggleWorkers, T!Answer(w)
  PROVE  ToggleInv'
<1> DEFINE l == [loop[w] EXCEPT !.reread = TRUE]
           a == [by |-> w, on |-> toggle[w].on, saved |-> toggle[w].at = "saved"]
<1>1. /\ toggle[w].at \in {"saved", "failed"}
      /\ cache' = [cache EXCEPT ![w] = toggle[w].on]
      /\ loop' = [loop EXCEPT ![w] = l]
      /\ last' = IF \A v \in ToggleWorkers \ {w} : T!Free(v) THEN a ELSE None
      /\ toggle' = [toggle EXCEPT ![w] = T!NoToggle]
      /\ misread' = (T!FileOn \/ last' = None)
      /\ UNCHANGED <<toggleStore, rounds, edit, events>>
  BY DEF T!Answer
<1>2. /\ cache \in [ToggleWorkers -> BOOLEAN \cup {None}] /\ loop \in [ToggleWorkers -> Loops]
      /\ toggle[w] \in Toggles
  BY ToggleTypes DEF ToggleInv
<1>3. toggle[w].on \in BOOLEAN
  BY <1>2 DEF Toggles
<1>4. l \in Loops
  BY <1>2 DEF Loops
<1>5. a \in Answers /\ a.by = w /\ a.on = toggle[w].on
  BY <1>3 DEF Answers
<1> HIDE DEF l, a
<1>6. /\ toggle' \in [ToggleWorkers -> Toggles] /\ toggle'[w].at = "none"
      /\ \A v \in ToggleWorkers \ {w} : toggle'[v] = toggle[v]
  BY <1>1, NoToggleIs, ToggleSets DEF ToggleInv
<1>7. loop' \in [ToggleWorkers -> Loops]
  BY <1>1, <1>2, <1>4
<1>8. cache' \in [ToggleWorkers -> BOOLEAN \cup {None}] /\ cache'[w] = toggle[w].on
  BY <1>1, <1>2, <1>3
<1>9. T!TypeOK'
  <2>1. last' \in Answers \cup {None} /\ misread' \in BOOLEAN
    BY <1>1, <1>5 DEF T!FileOn
  <2>2. QED
    BY <1>1, <1>6, <1>7, <1>8, <2>1, ToggleTypes, ToggleTypesNext DEF ToggleInv
<1>10. last = None /\ \A v \in ToggleWorkers : rounds[v] = 0
  BY <1>1 DEF ToggleInv, ServedAlone, CountedSince
<1>11. ServedAlone'
  <2> SUFFICES ASSUME last' # None, NEW v \in ToggleWorkers \ {w} PROVE toggle'[v].at = "none"
    BY <1>6 DEF ServedAlone
  <2>1. toggle[v] = T!NoToggle
    BY <1>1 DEF T!Free
  <2>2. QED
    BY <1>6, <2>1, NoToggleIs
<1>12. FewLeft'
  <2> SUFFICES ASSUME last' # None, ~last'.on, ~misread'
               PROVE  /\ toggleStore'.file # TRUE /\ cache'[last'.by] # TRUE
                      /\ Spare(last.by, 1)' /\ \A v \in ToggleWorkers : Spare(v, 2)'
    BY DEF FewLeft, SavedOff
  <2>1. last' = a /\ ~T!FileOn
    BY <1>1
  <2>2. toggleStore'.file = FALSE
    BY <1>1, <2>1 DEF T!FileOn
  <2>3. last'.by = w /\ cache'[w] # TRUE
    BY <1>3, <1>5, <1>8, <2>1
  <2>4. \A v \in ToggleWorkers : rounds'[v] = 0
    BY <1>1, <1>10
  <2>5. Spare(w, 1)'
    <3>1. rounds'[w] <= 1 /\ rounds'[w] + 1 <= 1
      BY <2>4
    <3>2. QED
      BY <2>3, <3>1 DEF Spare
  <2>6. Spare(last.by, 1)'
    BY <2>3, <2>5 DEF Spare
  <2>7. \A v \in ToggleWorkers : Spare(v, 2)'
    BY <2>4 DEF Spare
  <2>8. QED
    BY <2>2, <2>3, <2>6, <2>7
<1>13. QED
  BY <1>1, <1>9, <1>10, <1>11, <1>12 DEF ToggleInv, CountedSince, EditRead

\* The file may come to say enabled behind the answer's back, which misread tells.
LEMMA EditKeeps ==
  ASSUME ToggleInv, T!ConstantsOK, T!EditReads \/ T!EditOpens \/ T!EditDumps
  PROVE  ToggleInv'
<1>1. UNCHANGED <<cache, loop, toggle, last, rounds>>
  BY DEF T!EditReads, T!EditOpens, T!EditDumps
<1>2. /\ toggleStore \in TogglePaths /\ toggleStore.file \in BOOLEAN \cup {Torn}
      /\ edit \in Edits /\ misread \in BOOLEAN /\ events \in 0..MaxEvents
      /\ edit.at # "none" => edit.data \in BOOLEAN
  BY ToggleTypes DEF ToggleInv, TogglePaths, EditRead
<1>3. Handler \in T!Editors
  BY DEF T!Editors
<1>4. /\ toggleStore' \in TogglePaths /\ edit' \in Edits /\ misread' \in BOOLEAN
      /\ events' \in 0..MaxEvents /\ EditRead'
      /\ ~misread' => ~misread /\ (toggleStore.file # TRUE => toggleStore'.file # TRUE)
  <2>1. CASE T!EditReads
    <3>1. /\ toggleStore.file # Torn /\ edit' = [at |-> "read", data |-> toggleStore.file]
          /\ events < MaxEvents /\ events' = events + 1 /\ UNCHANGED <<toggleStore, misread>>
      BY <2>1 DEF T!EditReads
    <3>2. edit' \in Edits /\ EditRead'
      BY <1>2, <3>1 DEF Edits, EditRead
    <3>3. events' \in 0..MaxEvents
      BY <1>2, <3>1 DEF T!ConstantsOK
    <3>4. QED
      BY <1>2, <3>1, <3>2, <3>3
  <2>2. CASE T!EditOpens
    <3>1. /\ toggleStore' = T!F!OpenedInPlace(toggleStore, Handler)
          /\ edit.at = "read" /\ edit' = [edit EXCEPT !.at = "open"] /\ UNCHANGED <<misread, events>>
      BY <2>2 DEF T!EditOpens
    <3>2. toggleStore' \in TogglePaths /\ toggleStore'.file = Torn
      BY <1>2, <1>3, <3>1, TogglePathsKeep
    <3>3. edit' \in Edits /\ EditRead'
      BY <1>2, <3>1 DEF Edits, EditRead
    <3>4. Torn # TRUE
      BY DEF T!ConstantsOK
    <3>5. QED
      BY <1>2, <3>1, <3>2, <3>3, <3>4
  <2>3. CASE T!EditDumps
    <3>1. /\ toggleStore' \in T!F!Dumped(toggleStore, Handler, edit.data)
          /\ edit.at = "open" /\ edit' = [at |-> "none", data |-> None]
          /\ misread' = (misread \/ toggleStore'.file # FALSE) /\ UNCHANGED events
      BY <2>3 DEF T!EditDumps
    <3>2. edit.data \in BOOLEAN
      BY <1>2, <3>1
    <3>3. toggleStore' \in TogglePaths
      BY <1>2, <1>3, <3>1, <3>2, ToggleDumped
    <3>4. toggleStore'.file \in BOOLEAN \cup {Torn}
      BY <3>3 DEF TogglePaths
    <3>5. misread' \in BOOLEAN /\ (~misread' => ~misread /\ toggleStore'.file # TRUE)
      BY <1>2, <3>1
    <3>6. edit' \in Edits /\ EditRead'
      BY <3>1 DEF Edits, EditRead
    <3>7. QED
      BY <1>2, <3>1, <3>3, <3>5, <3>6
  <2>4. QED
    BY <2>1, <2>2, <2>3
<1>5. T!TypeOK'
  BY <1>1, <1>4, ToggleTypes, ToggleTypesNext DEF ToggleInv
<1>6. ServedAlone' /\ CountedSince'
  BY <1>1 DEF ToggleInv, ServedAlone, CountedSince
<1>7. FewLeft'
  <2> SUFFICES ASSUME SavedOff'
               PROVE  /\ toggleStore'.file # TRUE /\ cache'[last'.by] # TRUE
                      /\ Spare(last.by, 1)' /\ \A v \in ToggleWorkers : Spare(v, 2)'
    BY DEF FewLeft
  <2>1. SavedOff
    BY <1>1, <1>4 DEF SavedOff
  <2>2. /\ toggleStore.file # TRUE /\ cache[last.by] # TRUE
        /\ Spare(last.by, 1) /\ \A v \in ToggleWorkers : Spare(v, 2)
    BY <2>1 DEF ToggleInv, FewLeft
  <2>3. Spare(last.by, 1)' /\ \A v \in ToggleWorkers : Spare(v, 2)'
    BY <1>1, <2>2 DEF Spare
  <2>4. toggleStore'.file # TRUE /\ cache'[last'.by] # TRUE
    BY <1>1, <1>4, <2>2 DEF SavedOff
  <2>5. QED
    BY <2>3, <2>4
<1>8. QED
  BY <1>4, <1>5, <1>6, <1>7 DEF ToggleInv

\* With the worker that answered dies what is counted; another one that dies has
\* nothing left.
LEMMA KillKeeps ==
  ASSUME ToggleInv, T!ConstantsOK, NEW w \in ToggleWorkers, T!Kill(w)
  PROVE  ToggleInv'
<1>1. /\ events < MaxEvents /\ events' = events + 1
      /\ toggleStore' = T!F!Closed(toggleStore, {w})
      /\ cache' = [cache EXCEPT ![w] = None]
      /\ loop' = [loop EXCEPT ![w] = T!NoLoop]
      /\ toggle' = [toggle EXCEPT ![w] = T!NoToggle]
      /\ last' = IF last # None /\ last.by = w THEN None ELSE last
      /\ rounds' = IF last' = None THEN [v \in ToggleWorkers |-> 0] ELSE rounds
      /\ misread' = (misread \/ last' = None)
      /\ UNCHANGED edit
  BY DEF T!Kill
<1>2. /\ toggleStore \in TogglePaths /\ cache \in [ToggleWorkers -> BOOLEAN \cup {None}]
      /\ loop \in [ToggleWorkers -> Loops] /\ misread \in BOOLEAN
      /\ rounds \in [ToggleWorkers -> 0..3] /\ last \in Answers \cup {None}
      /\ events \in 0..MaxEvents
  BY ToggleTypes DEF ToggleInv
<1>3. toggleStore' \in TogglePaths /\ toggleStore'.file = toggleStore.file
  BY <1>1, <1>2, TogglePathsKeep DEF T!Editors
<1>4. /\ toggle' \in [ToggleWorkers -> Toggles] /\ toggle'[w].at = "none"
      /\ \A v \in ToggleWorkers \ {w} : toggle'[v] = toggle[v]
  BY <1>1, NoToggleIs, ToggleSets DEF ToggleInv
<1>5. /\ loop' \in [ToggleWorkers -> Loops] /\ loop'[w].at = "none"
      /\ \A v \in ToggleWorkers \ {w} : loop'[v] = loop[v]
  BY <1>1, <1>2, NoToggleIs
<1>6. /\ cache' \in [ToggleWorkers -> BOOLEAN \cup {None}] /\ cache'[w] # TRUE
      /\ \A v \in ToggleWorkers \ {w} : cache'[v] = cache[v]
  BY <1>1, <1>2 DEF T!ConstantsOK
<1>7. rounds' \in [ToggleWorkers -> 0..3] /\ last' \in Answers \cup {None} /\ misread' \in BOOLEAN
  BY <1>1, <1>2
<1>8. events' \in 0..MaxEvents
  BY <1>1, <1>2 DEF T!ConstantsOK
<1>9. T!TypeOK'
  BY <1>1, <1>2, <1>3, <1>4, <1>5, <1>6, <1>7, <1>8, ToggleTypes, ToggleTypesNext DEF ToggleInv
<1>10. last' # None => last' = last /\ last # None /\ last.by # w /\ rounds' = rounds
  BY <1>1
<1>11. ServedAlone'
  BY <1>4, <1>10 DEF ToggleInv, ServedAlone
<1>12. CountedSince'
  BY <1>1 DEF CountedSince
<1>13. FewLeft'
  <2> SUFFICES ASSUME SavedOff'
               PROVE  /\ toggleStore'.file # TRUE /\ cache'[last'.by] # TRUE
                      /\ Spare(last.by, 1)' /\ \A v \in ToggleWorkers : Spare(v, 2)'
    BY DEF FewLeft
  <2>1. SavedOff /\ last' = last /\ last.by \in ToggleWorkers \ {w} /\ rounds' = rounds
    BY <1>1, <1>2, <1>10 DEF SavedOff, Answers
  <2>2. /\ toggleStore.file # TRUE /\ cache[last.by] # TRUE
        /\ Spare(last.by, 1) /\ \A v \in ToggleWorkers : Spare(v, 2)
    BY <2>1 DEF ToggleInv, FewLeft
  <2>3. PICK b \in ToggleWorkers \ {w} : b = last.by
    BY <2>1
  <2>4. Spare(b, 1)' /\ cache'[b] = cache[b]
    BY <1>5, <1>6, <2>1, <2>2, <2>3 DEF Spare
  <2>5. \A v \in ToggleWorkers \ {w} : Spare(v, 2)'
    BY <1>5, <1>6, <2>1, <2>2 DEF Spare
  <2>6. Spare(w, 2)'
    <3>1. rounds'[w] <= 2
      BY <2>1, <2>2 DEF Spare
    <3>2. QED
      BY <1>5, <1>6, <3>1 DEF Spare
  <2>7. Spare(last.by, 1)'
    BY <2>1, <2>3, <2>4 DEF Spare
  <2>8. toggleStore'.file # TRUE /\ cache'[last'.by] # TRUE
    BY <1>3, <2>1, <2>2, <2>3, <2>4
  <2>9. QED
    BY <2>5, <2>6, <2>7, <2>8
<1>14. QED
  BY <1>1, <1>9, <1>11, <1>12, <1>13 DEF ToggleInv, EditRead

LEMMA NextToggle == T!ConstantsOK /\ ToggleInv /\ [T!Next]_(T!vars) => ToggleInv'
<1> SUFFICES ASSUME T!ConstantsOK, ToggleInv, [T!Next]_(T!vars) PROVE ToggleInv'
  OBVIOUS
<1>1. CASE UNCHANGED T!vars
  <2>1. UNCHANGED <<toggleStore, cache, loop, toggle, edit, last, rounds, misread, events>>
    BY <1>1 DEF T!vars
  <2>2. T!TypeOK'
    BY <2>1, ToggleTypes, ToggleTypesNext DEF ToggleInv
  <2>3. ServedAlone' /\ CountedSince' /\ EditRead' /\ FewLeft'
    BY <2>1 DEF ToggleInv, ServedAlone, CountedSince, EditRead, FewLeft, SavedOff, Spare
  <2>4. QED
    BY <2>2, <2>3 DEF ToggleInv
<1>2. CASE T!EditReads \/ T!EditOpens \/ T!EditDumps
  BY <1>2, EditKeeps
<1>3. ASSUME NEW w \in ToggleWorkers, T!Age(w) \/ T!Look(w) \/ T!Train(w)
      PROVE  ToggleInv'
  BY <1>3, AgeKeeps, LookKeeps, TrainKeeps
<1>4. ASSUME NEW w \in ToggleWorkers, T!start_auto_learning(w)
      PROVE  ToggleInv'
  <2>1. /\ loop[w].at = "none" /\ T!Sleep(w)
        /\ UNCHANGED <<toggleStore, toggle, edit, last, rounds, events>>
    BY <1>4 DEF T!start_auto_learning
  <2>2. QED
    BY <2>1, SleepSpare
<1>5. ASSUME NEW w \in ToggleWorkers, T!PassOver(w)
      PROVE  ToggleInv'
  <2>1. /\ T!Sleep(w)
        /\ loop[w].reread \/ cache[w] = None
        /\ UNCHANGED <<toggleStore, toggle, edit, last, rounds, events>>
    BY <1>5 DEF T!PassOver, T!MayWake
  <2>2. QED
    BY <1>5, <2>1, SleepSpare DEF T!PassOver
<1>6. ASSUME NEW w \in ToggleWorkers, T!RoundEnds(w)
      PROVE  ToggleInv'
  <2>1. /\ loop[w].at = "round" /\ T!Sleep(w)
        /\ UNCHANGED <<toggleStore, toggle, edit, last, rounds, events>>
    BY <1>6 DEF T!RoundEnds
  <2>2. QED
    BY <2>1, SleepSpare
<1>7. ASSUME NEW w \in ToggleWorkers, NEW on \in BOOLEAN, T!Ask(w, on)
      PROVE  ToggleInv'
  BY <1>7, AskKeeps
<1>8. ASSUME NEW w \in ToggleWorkers, T!OpenTmp(w) \/ T!OpenRaises(w) \/ T!Dump(w) \/ T!Replace(w)
      PROVE  ToggleInv'
  BY <1>8, OpenTmpKeeps, OpenRaisesKeeps, DumpKeeps, ReplaceKeeps
<1>9. ASSUME NEW w \in ToggleWorkers, T!Answer(w) \/ T!Kill(w)
      PROVE  ToggleInv'
  BY <1>9, AnswerKeeps, KillKeeps
<1>10. QED
  BY <1>1, <1>2, <1>3, <1>4, <1>5, <1>6, <1>7, <1>8, <1>9 DEF T!Next

----------------------------------------------------------------------------
(* The parts together *)

-----------------------------------------------------------------------------
(* Sums over finite sets.  The library's theorems about induction and recursion  *)
(* take an operator; what follows from them is stated here for sets instead.     *)

\* The element that a fold takes next.
Some(s) == CHOOSE x \in s : TRUE

\* Induction over the natural numbers, for a set of them.
LEMMA InAllNumbers ==
  ASSUME NEW G, 0 \in G, \A n \in Nat : n \in G => n + 1 \in G
  PROVE  Nat \subseteq G
<1> SUFFICES ASSUME Nat \ G # {} PROVE FALSE
  OBVIOUS
<1>1. PICK n \in Nat \ G : \A m \in Nat \ G : ~ (<<m, n>> \in OpToRel(<, Nat))
  BY NatLessThanWellFounded, WFMin, Zenon
<1>2. \A m \in Nat \ G : ~ (m < n)
  BY <1>1 DEF OpToRel
<1>3. n # 0 /\ n \in Nat
  OBVIOUS
<1>4. n - 1 \in Nat /\ n - 1 \in G /\ (n - 1) + 1 = n
  BY <1>2, <1>3
<1>5. QED
  BY <1>4

\* Induction over the subsets of a finite set, as the folds go through them.
LEMMA InAllSubsets ==
  ASSUME NEW D, IsFiniteSet(D), NEW G, {} \in G,
         \A s \in SUBSET D : s # {} /\ s \ {Some(s)} \in G => s \in G
  PROVE  SUBSET D \subseteq G
<1> DEFINE H == {n \in Nat : \A s \in SUBSET D : Cardinality(s) = n => s \in G}
<1>1. 0 \in H
  <2>1. ASSUME NEW s \in SUBSET D, Cardinality(s) = 0 PROVE s \in G
    BY <2>1, FS_Subset, FS_EmptySet
  <2>2. QED
    BY <2>1
<1>2. ASSUME NEW n \in Nat, n \in H PROVE n + 1 \in H
  <2>1. ASSUME NEW s \in SUBSET D, Cardinality(s) = n + 1 PROVE s \in G
    <3>1. s # {} /\ IsFiniteSet(s)
      BY <2>1, FS_Subset, FS_EmptySet
    <3>2. Some(s) \in s
      BY <3>1 DEF Some
    <3>3. Cardinality(s \ {Some(s)}) = Cardinality(s) - 1
      BY <3>1, <3>2, FS_RemoveElement
    <3>4. QED
      BY <1>2, <2>1, <3>1, <3>3
  <2>2. QED
    BY <2>1
<1>3. Nat \subseteq H
  <2> HIDE DEF H
  <2>1. QED
    BY <1>1, <1>2, InAllNumbers
<1>4. ASSUME NEW s \in SUBSET D PROVE s \in G
  BY <1>3, FS_Subset, FS_CardinalityType
<1>5. QED
  BY <1>4

\* it gives every subset of D what the fold over it makes of base by op.
IsFold(it, D, base, op) ==
    /\ it \in [SUBSET D -> Nat]
    /\ it = [s \in SUBSET D |-> IF s = {} THEN base ELSE op[<<Some(s), it[s \ {Some(s)}]>>]]

\* What a fold over a finite set defines is there.
LEMMA FoldExists ==
  ASSUME NEW D, IsFiniteSet(D), NEW base \in Nat, NEW op \in [D \X Nat -> Nat]
  PROVE  \E it : IsFold(it, D, base, op)
<1> DEFINE Upto(n) == {s \in SUBSET D : Cardinality(s) <= n}
           Fits(it, n) == \A s \in Upto(n) :
                            it[s] = IF s = {} THEN base ELSE op[<<Some(s), it[s \ {Some(s)}]>>]
           H == {n \in Nat : \E it \in [Upto(n) -> Nat] : Fits(it, n)}
<1>1. \A s \in SUBSET D : IsFiniteSet(s) /\ Cardinality(s) \in Nat
  BY FS_Subset, FS_CardinalityType
<1>2. ASSUME NEW s \in SUBSET D, s # {}
      PROVE  /\ Some(s) \in D /\ s \ {Some(s)} \in SUBSET D
             /\ Cardinality(s \ {Some(s)}) = Cardinality(s) - 1
  <2>1. Some(s) \in s
    BY <1>2 DEF Some
  <2>2. QED
    BY <1>1, <2>1, FS_RemoveElement
<1>3. 0 \in H
  <2>1. \A s \in Upto(0) : s = {}
    BY <1>1, FS_EmptySet
  <2>2. [s \in Upto(0) |-> base] \in [Upto(0) -> Nat] /\ Fits([s \in Upto(0) |-> base], 0)
    BY <2>1
  <2>3. QED
    BY <2>2
<1>4. ASSUME NEW n \in Nat, n \in H PROVE n + 1 \in H
  <2>1. PICK it \in [Upto(n) -> Nat] : Fits(it, n)
    BY <1>4
  <2> DEFINE more == [s \in Upto(n + 1) |-> IF s \in Upto(n) THEN it[s] ELSE op[<<Some(s), it[s \ {Some(s)}]>>]]
  <2>2. ASSUME NEW s \in Upto(n + 1), s # {}
        PROVE  s \ {Some(s)} \in Upto(n) /\ s \ {Some(s)} \in Upto(n + 1) /\ Some(s) \in D
    BY <1>1, <1>2, <2>2
  <2>3. \A s \in Upto(n + 1) \ Upto(n) : s # {}
    BY <1>1, FS_EmptySet
  <2>4. more \in [Upto(n + 1) -> Nat]
    <3>1. ASSUME NEW s \in Upto(n + 1) PROVE more[s] \in Nat
      <4>1. CASE s \in Upto(n)
        BY <4>1
      <4>2. CASE s \notin Upto(n)
        <5>1. s # {} /\ s \ {Some(s)} \in Upto(n) /\ Some(s) \in D
          BY <2>2, <2>3, <4>2
        <5>2. it[s \ {Some(s)}] \in Nat
          BY <5>1
        <5>3. more[s] = op[<<Some(s), it[s \ {Some(s)}]>>]
          BY <4>2
        <5>4. QED
          BY <5>1, <5>2, <5>3
      <4>3. QED
        BY <4>1, <4>2
    <3>2. QED
      BY <3>1
  <2>5. Fits(more, n + 1)
    <3>1. SUFFICES ASSUME NEW s \in Upto(n + 1)
                   PROVE  more[s] = IF s = {} THEN base ELSE op[<<Some(s), more[s \ {Some(s)}]>>]
      OBVIOUS
    <3>2. s # {} => more[s \ {Some(s)}] = it[s \ {Some(s)}]
      BY <2>2
    <3>3. more[s] = IF s = {} THEN base ELSE op[<<Some(s), it[s \ {Some(s)}]>>]
      BY <2>1, <2>3
    <3>4. QED
      BY <3>2, <3>3
  <2>6. \E g \in [Upto(n + 1) -> Nat] : Fits(g, n + 1)
    <3> HIDE DEF more, Fits, Upto
    <3>1. QED
      BY <2>4, <2>5
  <2>7. QED
    <3> HIDE DEF Fits, Upto
    <3>1. QED
      BY <2>6
<1>5. Cardinality(D) \in H
  <2> HIDE DEF H
  <2>1. QED
    BY <1>1, <1>3, <1>4, InAllNumbers
<1>6. Upto(Cardinality(D)) = SUBSET D
  BY <1>1, FS_Subset
<1>7. PICK it \in [SUBSET D -> Nat] : Fits(it, Cardinality(D))
  BY <1>5, <1>6
<1>8. it = [s \in SUBSET D |-> IF s = {} THEN base ELSE op[<<Some(s), it[s \ {Some(s)}]>>]]
  BY <1>6, <1>7
<1>9. QED
  BY <1>8 DEF IsFold

\* What the sums of the library are made of.
SumsOf(f) ==
    CHOOSE it : it = [s \in SUBSET (DOMAIN f) |->
                        IF s = {} THEN 0 ELSE f[Some(s)] + it[s \ {Some(s)}]]

LEMMA SumIs ==
  ASSUME NEW f
  PROVE  W!SumFunction(f) = SumsOf(f)[DOMAIN f]
BY DEF SumsOf, Some, W!SumFunction, W!SumFunctionOnSet, W!FoldFunctionOnSet, W!MapThenFoldSet

AddsUp(it, f, D) ==
    /\ it \in [SUBSET D -> Nat] /\ it[{}] = 0
    /\ \A s \in SUBSET D : s # {} =>
         /\ Some(s) \in s /\ s \ {Some(s)} \in SUBSET D
         /\ it[s] = f[Some(s)] + it[s \ {Some(s)}]

LEMMA SumsAre ==
  ASSUME NEW D, IsFiniteSet(D), NEW f \in [D -> Nat]
  PROVE  AddsUp(SumsOf(f), f, D)
<1> DEFINE op == [p \in D \X Nat |-> f[p[1]] + p[2]]
           Next1(it, s) == IF s = {} THEN 0 ELSE f[Some(s)] + it[s \ {Some(s)}]
<1>1. op \in [D \X Nat -> Nat]
  OBVIOUS
<1>2. \A s \in SUBSET D : s # {} => Some(s) \in s /\ s \ {Some(s)} \in SUBSET D
  BY DEF Some
<1>3. PICK it : IsFold(it, D, 0, op)
  <2> HIDE DEF op
  <2>1. QED
    BY <1>1, FoldExists
<1>4. it = [s \in SUBSET D |-> Next1(it, s)]
  <2>1. ASSUME NEW s \in SUBSET D, s # {} PROVE op[<<Some(s), it[s \ {Some(s)}]>>] = Next1(it, s)
    BY <1>2, <1>3, <2>1 DEF IsFold
  <2>2. \A s \in SUBSET D : (IF s = {} THEN 0 ELSE op[<<Some(s), it[s \ {Some(s)}]>>]) = Next1(it, s)
    BY <2>1
  <2>3. QED
    BY <1>3, <2>2 DEF IsFold
<1>5. SumsOf(f) = [s \in SUBSET D |-> Next1(SumsOf(f), s)]
  BY <1>4 DEF SumsOf
<1>6. SumsOf(f)[{}] = 0
  BY <1>5
<1>7. \A s \in SUBSET D : s # {} => SumsOf(f)[s] = f[Some(s)] + SumsOf(f)[s \ {Some(s)}]
  BY <1>5
<1>8. SUBSET D \subseteq {s \in SUBSET D : SumsOf(f)[s] \in Nat}
  <2> DEFINE G == {s \in SUBSET D : SumsOf(f)[s] \in Nat}
  <2>1. {} \in G
    BY <1>6
  <2>2. ASSUME NEW s \in SUBSET D, s # {}, s \ {Some(s)} \in G PROVE s \in G
    BY <1>2, <1>7, <2>2
  <2>3. QED
    <3> HIDE DEF G
    <3>1. SUBSET D \subseteq G
      BY <2>1, <2>2, InAllSubsets
    <3>2. QED
      BY <3>1 DEF G
<1>9. SumsOf(f) \in [SUBSET D -> Nat]
  BY <1>5, <1>8
<1>10. QED
  BY <1>2, <1>6, <1>7, <1>9 DEF AddsUp

\* A sum is bounded as its terms are.
LEMMA SumsCompare ==
  ASSUME NEW D, IsFiniteSet(D), NEW f \in [D -> Nat], NEW g \in [D -> Nat],
         NEW j \in Nat, NEW k \in Nat, NEW c \in Int, \A i \in D : j * f[i] <= k * g[i] + c
  PROVE  j * W!SumFunction(f) <= k * W!SumFunction(g) + c * Cardinality(D)
<1> DEFINE G == {s \in SUBSET D : j * SumsOf(f)[s] <= k * SumsOf(g)[s] + c * Cardinality(s)}
<1>0. AddsUp(SumsOf(f), f, D) /\ AddsUp(SumsOf(g), g, D)
  BY SumsAre
<1>1. {} \in G
  BY <1>0, FS_EmptySet DEF AddsUp
<1>2. ASSUME NEW s \in SUBSET D, s # {}, s \ {Some(s)} \in G PROVE s \in G
  <2> DEFINE i == Some(s)
             t == s \ {Some(s)}
  <2>1. i \in s /\ t \in SUBSET D /\ SumsOf(f)[s] = f[i] + SumsOf(f)[t]
    BY <1>0, <1>2 DEF AddsUp
  <2>2. SumsOf(g)[s] = g[i] + SumsOf(g)[t]
    BY <1>0, <1>2 DEF AddsUp
  <2>7. IsFiniteSet(s) /\ IsFiniteSet(t)
    BY <2>1, FS_Subset
  <2>8. Cardinality(s) = Cardinality(t) + 1 /\ Cardinality(t) \in Nat
    <3>1. Cardinality(t) = Cardinality(s) - 1
      BY <2>1, <2>7, FS_RemoveElement
    <3>2. Cardinality(s) \in Nat /\ Cardinality(t) \in Nat
      BY <2>7, FS_CardinalityType
    <3>3. QED
      BY <3>1, <3>2
  <2>3. j * SumsOf(f)[t] <= k * SumsOf(g)[t] + c * Cardinality(t)
    BY <1>2
  <2>4. \A x, y, z, u, n \in Nat :
          j * x <= k * z + c /\ j * y <= k * u + c * n => j * (x + y) <= k * (z + u) + c * (n + 1)
    OBVIOUS
  <2>5. j * f[i] <= k * g[i] + c /\ f[i] \in Nat /\ g[i] \in Nat
    BY <2>1
  <2> HIDE DEF i, t
  <2>6. SumsOf(f)[t] \in Nat /\ SumsOf(g)[t] \in Nat
    BY <1>0, <2>1 DEF AddsUp
  <2>9. j * (f[i] + SumsOf(f)[t]) <= k * (g[i] + SumsOf(g)[t]) + c * (Cardinality(t) + 1)
    BY <2>3, <2>4, <2>5, <2>6, <2>8
  <2>10. QED
    BY <2>1, <2>2, <2>8, <2>9
<1>3. SUBSET D \subseteq G
  <2> HIDE DEF G
  <2>1. QED
    BY <1>1, <1>2, InAllSubsets
<1>6. DOMAIN f = D /\ DOMAIN g = D /\ D \in G
  BY <1>3
<1>7. QED
  BY <1>6, SumIs

\* A sum is no less than any of its terms.
LEMMA SumsCover ==
  ASSUME NEW D, IsFiniteSet(D), NEW f \in [D -> Nat], NEW i \in D
  PROVE  W!SumFunction(f) \in Nat /\ f[i] <= W!SumFunction(f)
<1> DEFINE G == {s \in SUBSET D : \A x \in s : f[x] <= SumsOf(f)[s]}
<1>1. AddsUp(SumsOf(f), f, D)
  BY SumsAre
<1>2. {} \in G
  OBVIOUS
<1>3. ASSUME NEW s \in SUBSET D, s # {}, s \ {Some(s)} \in G PROVE s \in G
  <2>1. ASSUME NEW x \in s PROVE f[x] <= SumsOf(f)[s]
    <3>1. /\ SumsOf(f)[s] = f[Some(s)] + SumsOf(f)[s \ {Some(s)}]
          /\ f[x] \in Nat /\ f[Some(s)] \in Nat /\ SumsOf(f)[s \ {Some(s)}] \in Nat
      BY <1>1, <1>3 DEF AddsUp
    <3>2. CASE x = Some(s)
      BY <3>1, <3>2
    <3>3. CASE x # Some(s)
      <4>1. f[x] <= SumsOf(f)[s \ {Some(s)}]
        BY <1>3, <3>3
      <4>2. QED
        BY <3>1, <4>1
    <3>4. QED
      BY <3>2, <3>3
  <2>2. QED
    BY <2>1
<1>4. SUBSET D \subseteq G
  <2> HIDE DEF G
  <2>1. QED
    BY <1>2, <1>3, InAllSubsets
<1>5. DOMAIN f = D /\ D \in G
  BY <1>4
<1>6. QED
  BY <1>1, <1>5, SumIs DEF AddsUp

LEMMA SumIsNatural ==
  ASSUME NEW D, IsFiniteSet(D), NEW f \in [D -> Nat]
  PROVE  W!SumFunction(f) \in Nat
<1>1. AddsUp(SumsOf(f), f, D) /\ DOMAIN f = D
  BY SumsAre
<1>2. QED
  BY <1>1, SumIs DEF AddsUp

LEMMA SameCardinality == \A S : W!Cardinality(S) = Cardinality(S)
  BY DEF W!Cardinality, Cardinality

LEMMA SameFinite == \A S : W!IsFiniteSet(S) <=> IsFiniteSet(S)
  BY DEF W!IsFiniteSet, IsFiniteSet

----------------------------------------------------------------------------
(* Divisors *)

Divides(g, n) == \E k \in Nat : n = g * k

LEMMA Quotient ==
  ASSUME NEW a \in Nat, NEW b \in Nat \ {0}
  PROVE  a % b \in 0..b - 1 /\ \E q \in Nat : a = (b * q) + (a % b)
<1>1. a \div b \in Nat /\ a = (b * (a \div b)) + (a % b) /\ a % b \in 0..b - 1
  OBVIOUS
<1>2. QED
  BY <1>1

LEMMA ExactQuotient ==
  ASSUME NEW g \in Nat \ {0}, NEW n \in Nat, Divides(g, n)
  PROVE  n \div g \in Nat /\ g * (n \div g) = n
<1>1. PICK k \in Nat : n = g * k
  BY DEF Divides
<1>2. n \div g = k
  BY <1>1
<1>3. QED
  BY <1>1, <1>2

LEMMA DividesSum ==
  ASSUME NEW g \in Nat, NEW b \in Nat, NEW r \in Nat, NEW q \in Nat, Divides(g, b)
  PROVE  Divides(g, r) => Divides(g, b * q + r)
<1>1. PICK y \in Nat : b = g * y
  BY DEF Divides
<1>2. ASSUME NEW z \in Nat, r = g * z PROVE b * q + r = g * (y * q + z) /\ y * q + z \in Nat
  BY <1>1, <1>2
<1>3. QED
  BY <1>2 DEF Divides

LEMMA DividesRest ==
  ASSUME NEW g \in Nat, NEW b \in Nat \ {0}, NEW r \in Nat, NEW q \in Nat, Divides(g, b)
  PROVE  Divides(g, b * q + r) => Divides(g, r)
<1>1. PICK y \in Nat : b = g * y
  BY DEF Divides
<1>2. g > 0
  BY <1>1
<1>3. ASSUME NEW x \in Nat, b * q + r = g * x PROVE Divides(g, r)
  <2>1. r = g * (x - y * q) /\ y * q \in Nat
    BY <1>1, <1>3
  <2>2. x - y * q >= 0
    BY <1>2, <2>1
  <2>3. x - y * q \in Nat
    BY <2>1, <2>2
  <2>4. QED
    BY <2>1, <2>3 DEF Divides
<1>4. QED
  BY <1>3 DEF Divides

Common(p) == {g \in Nat : Divides(g, p[1]) /\ Divides(g, p[2])}

Greatest(p) == CHOOSE g \in Common(p) : \A k \in Common(p) : k <= g

LEMMA GreatestOfRest ==
  ASSUME NEW a \in Nat, NEW b \in Nat \ {0}
  PROVE  Greatest(<<a, b>>) = IF a % b = 0 THEN b ELSE Greatest(<<b, a % b>>)
<1>1. a % b \in Nat
  BY Quotient
<1>2. PICK q \in Nat : a = (b * q) + (a % b)
  BY Quotient
<1>3. CASE a % b = 0
  <2>1. b \in Common(<<a, b>>)
    <3>1. a = b * q /\ b = b * 1
      BY <1>2, <1>3
    <3>2. Divides(b, a) /\ Divides(b, b)
      BY <3>1 DEF Divides
    <3>3. QED
      BY <3>2 DEF Common
  <2>2. ASSUME NEW k \in Common(<<a, b>>) PROVE k <= b
    <3>1. k \in Nat /\ \E y \in Nat : b = k * y
      BY DEF Common, Divides
    <3>2. QED
      BY <3>1
  <2>3. \A g \in Common(<<a, b>>) : (\A k \in Common(<<a, b>>) : k <= g) => g = b
    <3>1. \A g \in Common(<<a, b>>) : g \in Nat
      BY DEF Common
    <3>2. QED
      BY <2>1, <2>2, <3>1
  <2>4. Greatest(<<a, b>>) = b
    BY <2>1, <2>2, <2>3 DEF Greatest
  <2>5. QED
    BY <1>3, <2>4
<1>4. CASE a % b # 0
  <2>1. ASSUME NEW g \in Nat
        PROVE  Divides(g, a) /\ Divides(g, b) <=> Divides(g, b) /\ Divides(g, a % b)
    <3>1. Divides(g, b) /\ Divides(g, a % b) => Divides(g, (b * q) + (a % b))
      BY <1>1, DividesSum
    <3>2. Divides(g, b) /\ Divides(g, (b * q) + (a % b)) => Divides(g, a % b)
      BY <1>1, DividesRest
    <3>3. QED
      BY <1>2, <3>1, <3>2
  <2>2. Common(<<a, b>>) = Common(<<b, a % b>>)
    BY <2>1 DEF Common
  <2>3. QED
    BY <1>4, <2>2 DEF Greatest
<1>5. QED
  BY <1>3, <1>4

\* Euclid's algorithm ends, and gives what its steps say.
LEMMA GcdIs ==
  ASSUME NEW a \in Nat, NEW b \in Nat
  PROVE  W!gcd[<<a, b>>] = IF b = 0 THEN a ELSE W!gcd[<<b, a % b>>]
<1> DEFINE h == [p \in Nat \X Nat |-> IF p[2] = 0 THEN p[1] ELSE Greatest(p)]
           Step(f, p) == IF p[2] = 0 THEN p[1] ELSE f[<<p[2], p[1] % p[2]>>]
<1>1. ASSUME NEW x \in Nat, NEW y \in Nat PROVE h[<<x, y>>] = Step(h, <<x, y>>)
  <2>1. CASE y = 0
    BY <2>1
  <2>2. CASE y # 0
    <3>1. x % y \in Nat
      BY <2>2, Quotient
    <3>2. Greatest(<<x, y>>) = IF x % y = 0 THEN y ELSE Greatest(<<y, x % y>>)
      BY <2>2, GreatestOfRest
    <3>3. h[<<y, x % y>>] = IF x % y = 0 THEN y ELSE Greatest(<<y, x % y>>)
      BY <3>1
    <3>4. h[<<x, y>>] = Greatest(<<x, y>>)
      BY <2>2
    <3>5. Step(h, <<x, y>>) = h[<<y, x % y>>]
      BY <2>2
    <3>6. QED
      BY <3>2, <3>3, <3>4, <3>5
  <2>3. QED
    BY <2>1, <2>2
<1>2. h = [p \in Nat \X Nat |-> Step(h, p)]
  <2>1. ASSUME NEW p \in Nat \X Nat PROVE h[p] = Step(h, p)
    <3>1. p = <<p[1], p[2]>> /\ p[1] \in Nat /\ p[2] \in Nat
      OBVIOUS
    <3> HIDE DEF h, Step
    <3>2. QED
      BY <1>1, <3>1
  <2> HIDE DEF Step
  <2>2. QED
    BY <2>1
<1>3. W!gcd = [p \in Nat \X Nat |-> Step(W!gcd, p)]
  BY <1>2 DEF W!gcd
<1>4. QED
  BY <1>3

LEMMA GcdDivides ==
  ASSUME NEW a \in Nat, NEW b \in Nat \ {0}
  PROVE  /\ W!gcd[<<a, b>>] \in Nat \ {0}
         /\ Divides(W!gcd[<<a, b>>], a) /\ Divides(W!gcd[<<a, b>>], b)
<1> DEFINE Right(x, y) == /\ W!gcd[<<x, y>>] \in Nat \ {0}
                         /\ Divides(W!gcd[<<x, y>>], x) /\ Divides(W!gcd[<<x, y>>], y)
           H == {n \in Nat : \A x \in Nat : \A y \in 1..n : Right(x, y)}
<1>1. 0 \in H
  OBVIOUS
<1>2. ASSUME NEW n \in Nat, n \in H PROVE n + 1 \in H
  <2>1. ASSUME NEW x \in Nat, NEW y \in 1..n + 1 PROVE Right(x, y)
    <3>1. y \in Nat \ {0}
      OBVIOUS
    <3>2. x % y \in 0..y - 1
      BY <3>1, Quotient
    <3>3. PICK q \in Nat : x = (y * q) + (x % y)
      BY <3>1, Quotient
    <3>4. W!gcd[<<x, y>>] = W!gcd[<<y, x % y>>]
      BY <3>1, GcdIs
    <3>5. CASE x % y = 0
      <4>1. W!gcd[<<x, y>>] = y
        <5>1. W!gcd[<<y, 0>>] = y
          BY <3>1, GcdIs
        <5>2. QED
          BY <3>4, <3>5, <5>1
      <4>2. x = y * q /\ y = y * 1
        BY <3>3, <3>5
      <4>3. QED
        BY <3>1, <4>1, <4>2 DEF Divides
    <3>6. CASE x % y # 0
      <4>1. Right(y, x % y)
        <5>1. x % y \in 1..n
          BY <3>2, <3>6
        <5>2. QED
          BY <1>2, <3>1, <5>1
      <4>2. Divides(W!gcd[<<x, y>>], x)
        <5>1. x % y \in Nat /\ W!gcd[<<x, y>>] \in Nat
          BY <3>2, <3>4, <4>1
        <5>2. Divides(W!gcd[<<x, y>>], x % y) => Divides(W!gcd[<<x, y>>], (y * q) + (x % y))
          BY <3>1, <3>4, <4>1, <5>1, DividesSum
        <5>3. QED
          BY <3>3, <3>4, <4>1, <5>2
      <4>3. QED
        BY <3>4, <4>1, <4>2
    <3>7. QED
      BY <3>5, <3>6
  <2> HIDE DEF Right
  <2>2. QED
    BY <2>1
<1>3. Nat \subseteq H
  <2> HIDE DEF H
  <2>1. QED
    BY <1>1, <1>2, InAllNumbers
<1>4. b \in H /\ b \in 1..b
  BY <1>3
<1>5. QED
  BY <1>4

DivisorsOf(d) ==
    CHOOSE it : it = [s \in SUBSET (DOMAIN d.num) |->
                        IF s = {} THEN d.den
                        ELSE W!gcd[<<d.num[Some(s)], it[s \ {Some(s)}]>>]]

LEMMA LowestIs ==
  ASSUME NEW d
  PROVE  LET g == DivisorsOf(d)[DOMAIN d.num]
         IN W!Lowest(d) = [num |-> [i \in DOMAIN d.num |-> d.num[i] \div g], den |-> d.den \div g]
BY DEF DivisorsOf, Some, W!Lowest, W!FoldFunction, W!FoldFunctionOnSet, W!MapThenFoldSet

\* Lowest divides by g, and g divides everything.
LowestBy(g, num, den, D) ==
    /\ Divides(g, den) /\ \A i \in D : Divides(g, num[i])
    /\ W!Lowest([num |-> num, den |-> den]) =
         [num |-> [i \in D |-> num[i] \div g], den |-> den \div g]

LEMMA LowestDivides ==
  ASSUME NEW D, IsFiniteSet(D), NEW num \in [D -> Nat], NEW den \in Nat \ {0}
  PROVE  \E g \in Nat \ {0} : LowestBy(g, num, den, D)
<1> DEFINE d == [num |-> num, den |-> den]
           op == [p \in D \X Nat |-> IF p[2] = 0 THEN 0 ELSE W!gcd[<<num[p[1]], p[2]>>]]
           it == DivisorsOf(d)
           Step(f, s) == IF s = {} THEN den ELSE W!gcd[<<num[Some(s)], f[s \ {Some(s)}]>>]
           Right(f, s) == /\ f[s] \in Nat \ {0} /\ Divides(f[s], den)
                         /\ \A i \in s : Divides(f[s], num[i])
<1>1. \A s \in SUBSET D : s # {} => Some(s) \in s /\ Some(s) \in D /\ s \ {Some(s)} \in SUBSET D
  BY DEF Some
<1>2. op \in [D \X Nat -> Nat]
  <2>1. ASSUME NEW i \in D, NEW n \in Nat \ {0} PROVE W!gcd[<<num[i], n>>] \in Nat
    BY GcdDivides
  <2>2. QED
    BY <2>1
<1>3. PICK f : IsFold(f, D, den, op)
  <2> HIDE DEF op
  <2>1. QED
    BY <1>2, FoldExists
<1>4. \A s \in SUBSET D : f[s] \in Nat \ {0}
  <2> DEFINE G == {s \in SUBSET D : f[s] \in Nat \ {0}}
  <2>1. {} \in G
    BY <1>3 DEF IsFold
  <2>2. ASSUME NEW s \in SUBSET D, s # {}, s \ {Some(s)} \in G PROVE s \in G
    <3>1. f[s] = W!gcd[<<num[Some(s)], f[s \ {Some(s)}]>>]
      BY <1>1, <1>3, <2>2 DEF IsFold
    <3>2. num[Some(s)] \in Nat
      BY <1>1, <2>2
    <3>3. QED
      BY <2>2, <3>1, <3>2, GcdDivides
  <2>3. SUBSET D \subseteq G
    <3> HIDE DEF G
    <3>1. QED
      BY <2>1, <2>2, InAllSubsets
  <2>4. QED
    BY <2>3
<1>5. f = [s \in SUBSET D |-> Step(f, s)]
  <2>1. ASSUME NEW s \in SUBSET D PROVE f[s] = Step(f, s)
    BY <1>1, <1>3, <1>4 DEF IsFold
  <2> HIDE DEF Step
  <2>2. QED
    BY <1>3, <2>1 DEF IsFold
<1>6. it = [s \in SUBSET D |-> Step(it, s)]
  BY <1>5, ZenonT(60) DEF DivisorsOf
<1>7. D \in {s \in SUBSET D : Right(it, s)}
  <2> DEFINE G == {s \in SUBSET D : Right(it, s)}
  <2> HIDE DEF it
  <2>1. {} \in G
    <3>1. it[{}] = den /\ den = den * 1
      BY <1>6
    <3>2. Divides(it[{}], den)
      BY <3>1 DEF Divides
    <3>3. QED
      BY <3>1, <3>2
  <2>2. ASSUME NEW s \in SUBSET D, s # {}, s \ {Some(s)} \in G PROVE s \in G
    <3> DEFINE t == s \ {Some(s)}
               x == Some(s)
    <3>1. x \in D /\ num[x] \in Nat /\ it[s] = W!gcd[<<num[x], it[t]>>] /\ Right(it, t)
      BY <1>1, <1>6, <2>2
    <3>2. it[t] \in Nat \ {0}
      BY <3>1
    <3>3. it[s] \in Nat \ {0} /\ Divides(it[s], num[x]) /\ Divides(it[s], it[t])
      BY <3>1, <3>2, GcdDivides
    <3>4. ASSUME NEW n \in Nat, Divides(it[t], n) PROVE Divides(it[s], n)
      <4>1. PICK k \in Nat : n = it[t] * k
        BY <3>4 DEF Divides
      <4>2. PICK j \in Nat : it[t] = it[s] * j
        BY <3>3 DEF Divides
      <4>3. n = it[s] * (j * k) /\ j * k \in Nat
        BY <3>3, <4>1, <4>2
      <4>4. QED
        BY <4>3 DEF Divides
    <3>5. ASSUME NEW i \in s PROVE Divides(it[s], num[i])
      <4>1. CASE i = x
        BY <3>3, <4>1
      <4>2. CASE i # x
        BY <3>1, <3>4, <4>2
      <4>3. QED
        BY <4>1, <4>2
    <3>6. QED
      BY <3>1, <3>3, <3>4, <3>5
  <2>3. SUBSET D \subseteq G
    <3> HIDE DEF G
    <3>1. QED
      BY <2>1, <2>2, InAllSubsets
  <2>4. QED
    BY <2>3
<1>8. W!Lowest(d) = [num |-> [i \in D |-> num[i] \div it[D]], den |-> den \div it[D]]
  <2>1. DOMAIN d.num = D /\ d.num = num /\ d.den = den
    OBVIOUS
  <2> HIDE DEF d
  <2>2. QED
    BY <2>1, LowestIs
<1>9. QED
  <2> HIDE DEF it
  <2>1. QED
    BY <1>7, <1>8 DEF LowestBy

----------------------------------------------------------------------------
(* Shares *)

\* Shares of a whole among D.
Whole(d, D) ==
    /\ d = [num |-> d.num, den |-> d.den] /\ d.num \in [D -> Nat] /\ d.den \in Nat \ {0}
    /\ W!SumFunction(d.num) = d.den

\* Of two products with one factor the same the other tells which is less.
LEMMA LessFactor ==
  ASSUME NEW a \in Nat \ {0}, NEW x \in Int, NEW y \in Int
  PROVE  (a * x <= a * y <=> x <= y) /\ (a * x = a * y <=> x = y)
<1>1. x <= y => a * x <= a * y
  OBVIOUS
<1>2. x < y => a * x < a * y
  OBVIOUS
<1>3. y < x => a * y < a * x
  OBVIOUS
<1>4. QED
  BY <1>1, <1>2, <1>3

LEMMA NormalisedIsWhole ==
  ASSUME NEW D, IsFiniteSet(D), NEW num \in [D -> Nat], W!SumFunction(num) # 0
  PROVE  /\ Whole(W!Normalised(num), D)
         /\ \A i \in D : num[i] = 0 => W!Normalised(num).num[i] = 0
<1> DEFINE den == W!SumFunction(num)
<1>1. den \in Nat \ {0}
  BY SumIsNatural
<1>2. PICK g \in Nat \ {0} : LowestBy(g, num, den, D)
  <2> HIDE DEF den
  <2>1. QED
    BY <1>1, LowestDivides
<1> DEFINE share == [i \in D |-> num[i] \div g]
<1>3. W!Normalised(num) = [num |-> share, den |-> den \div g]
  BY <1>2 DEF W!Normalised, LowestBy
<1>4. den \div g \in Nat /\ g * (den \div g) = den
  <2> HIDE DEF den
  <2>1. QED
    BY <1>1, <1>2, ExactQuotient DEF LowestBy
<1>5. \A i \in D : share[i] \in Nat /\ g * share[i] = num[i]
  BY <1>2, ExactQuotient DEF LowestBy
<1>6. share \in [D -> Nat]
  BY <1>5
<1> HIDE DEF share
<1>7. W!SumFunction(share) \in Nat
  BY <1>6, SumIsNatural
<1>8. g * W!SumFunction(share) = den
  <2>1. Cardinality(D) \in Nat
    BY FS_CardinalityType
  <2>2. g * W!SumFunction(share) <= 1 * den + 0 * Cardinality(D)
    <3>1. \A i \in D : g * share[i] <= 1 * num[i] + 0
      BY <1>5
    <3>2. QED
      BY <1>6, <3>1, SumsCompare
  <2>3. 1 * den <= g * W!SumFunction(share) + 0 * Cardinality(D)
    <3>1. \A i \in D : 1 * num[i] <= g * share[i] + 0
      BY <1>5
    <3>2. QED
      BY <1>6, <3>1, SumsCompare
  <2> HIDE DEF den
  <2>4. QED
    BY <1>1, <1>7, <2>1, <2>2, <2>3
<1>9. W!SumFunction(share) = den \div g /\ den \div g # 0
  <2> HIDE DEF den
  <2>1. W!SumFunction(share) = den \div g
    BY <1>4, <1>7, <1>8, LessFactor
  <2>2. QED
    BY <1>1, <1>4, <2>1
<1>10. ASSUME NEW i \in D, num[i] = 0 PROVE share[i] = 0
  BY <1>5, <1>10
<1>11. QED
  BY <1>3, <1>4, <1>6, <1>9, <1>10 DEF Whole

\* Something is in a whole.
LEMMA WholeHas ==
  ASSUME NEW D, IsFiniteSet(D), NEW d, Whole(d, D)
  PROVE  \E i \in D : d.num[i] > 0
<1> SUFFICES ASSUME \A i \in D : ~(d.num[i] > 0) PROVE FALSE
  OBVIOUS
<1>1. \A i \in D : 1 * d.num[i] <= 0 * d.num[i] + 0
  BY DEF Whole
<1>2. 1 * W!SumFunction(d.num) <= 0 * W!SumFunction(d.num) + 0 * Cardinality(D)
  BY <1>1, SumsCompare DEF Whole
<1>3. Cardinality(D) \in Nat
  BY FS_CardinalityType
<1>4. QED
  BY <1>2, <1>3 DEF Whole

LEMMA EqualIsWhole ==
  ASSUME NEW D, IsFiniteSet(D), D # {}
  PROVE  Whole(W!Equal(D), D)
<1> DEFINE one == [i \in D |-> 1]
<1>1. one \in [D -> Nat]
  OBVIOUS
<1>2. Cardinality(D) \in Nat \ {0}
  BY FS_CardinalityType, FS_EmptySet
<1>3. W!SumFunction(one) \in Nat
  BY <1>1, SumIsNatural
<1>4. 1 * W!SumFunction(one) <= 0 * W!SumFunction(one) + 1 * Cardinality(D)
  <2>1. \A i \in D : 1 * one[i] <= 0 * one[i] + 1
    OBVIOUS
  <2> HIDE DEF one
  <2>2. QED
    BY <1>1, <2>1, SumsCompare
<1>5. 0 * W!SumFunction(one) <= 1 * W!SumFunction(one) + (-1) * Cardinality(D)
  <2>1. \A i \in D : 0 * one[i] <= 1 * one[i] + (-1)
    OBVIOUS
  <2>2. -1 \in Int
    OBVIOUS
  <2> HIDE DEF one
  <2>3. QED
    BY <1>1, <2>1, <2>2, SumsCompare
<1>6. W!SumFunction(one) = Cardinality(D)
  <2> HIDE DEF one
  <2>1. QED
    BY <1>2, <1>3, <1>4, <1>5
<1>7. QED
  BY <1>1, <1>2, <1>6, SameCardinality DEF Whole, W!Equal

\* w is what n parts of den are of 255, rounded, or the least weight.
Rounds(w, n, den) ==
    /\ w \in 1..255
    /\ (2 * den) * w <= 510 * n + 2 * den
    /\ 510 * n <= (2 * den) * w + den
    /\ n = 0 => w = 1

LEMMA RoundedWeight ==
  ASSUME NEW n \in Nat, NEW den \in Nat \ {0}, n <= den
  PROVE  Rounds(W!IntWeight(n, den), n, den)
<1> DEFINE a == 2 * den
           r == (2 * 255 * n + den) \div a
<1>1. a \in Nat \ {0} /\ 2 * 255 * n + den \in Nat
  OBVIOUS
<1>2. r \in Nat /\ a * r <= 2 * 255 * n + den /\ 2 * 255 * n + den < a * r + a
  <2> HIDE DEF a
  <2>1. \A m \in Nat : m \div a \in Nat /\ a * (m \div a) <= m /\ m < a * (m \div a) + a
    BY <1>1
  <2>2. QED
    BY <1>1, <2>1
<1>3. r <= 255
  <2>1. a * r < a * 256
    BY <1>1, <1>2
  <2> HIDE DEF a, r
  <2>2. QED
    BY <1>1, <1>2, <2>1, LessFactor
<1>4. n = 0 => r = 0
  <2>1. n = 0 => a * r < a * 1
    BY <1>1, <1>2
  <2> HIDE DEF a, r
  <2>2. QED
    BY <1>1, <1>2, <2>1, LessFactor
<1>5. W!IntWeight(n, den) = IF r < 1 THEN 1 ELSE r
  BY DEF W!IntWeight
<1> HIDE DEF r
<1>6. QED
  BY <1>2, <1>3, <1>4, <1>5 DEF Rounds

\* The common multiple of the costs that _apply_cost works with.
Multiple(m) == W!FoldFunction(LAMBDA p, n : p.cost * n, 1, m)

MultiplesOf(m) ==
    CHOOSE it : it = [s \in SUBSET (DOMAIN m) |->
                        IF s = {} THEN 1 ELSE m[Some(s)].cost * it[s \ {Some(s)}]]

LEMMA MultipleIs ==
  ASSUME NEW m
  PROVE  Multiple(m) = MultiplesOf(m)[DOMAIN m]
BY DEF MultiplesOf, Multiple, Some, W!FoldFunction, W!FoldFunctionOnSet, W!MapThenFoldSet

LEMMA MultipleCovers ==
  ASSUME NEW D, IsFiniteSet(D), NEW m, DOMAIN m = D, \A i \in D : m[i].cost \in Nat \ {0}
  PROVE  /\ Multiple(m) \in Nat \ {0}
         /\ \A i \in D : Multiple(m) \div m[i].cost \in Nat \ {0}
<1> DEFINE cost == [i \in D |-> m[i].cost]
           op == [p \in D \X Nat |-> cost[p[1]] * p[2]]
           it == MultiplesOf(m)
           Step(f, s) == IF s = {} THEN 1 ELSE m[Some(s)].cost * f[s \ {Some(s)}]
           Right(f, s) == f[s] \in Nat \ {0} /\ \A i \in s : cost[i] <= f[s]
<1>1. \A s \in SUBSET D : s # {} => Some(s) \in s /\ Some(s) \in D /\ s \ {Some(s)} \in SUBSET D
  BY DEF Some
<1>2. cost \in [D -> Nat \ {0}]
  OBVIOUS
<1>3. op \in [D \X Nat -> Nat]
  <2> HIDE DEF cost
  <2>1. ASSUME NEW i \in D, NEW n \in Nat PROVE cost[i] * n \in Nat
    BY <1>2
  <2>2. QED
    BY <2>1
<1>4. PICK f : IsFold(f, D, 1, op)
  <2> HIDE DEF op
  <2>1. QED
    BY <1>3, FoldExists
<1>5. f = [s \in SUBSET D |-> Step(f, s)]
  <2>1. ASSUME NEW s \in SUBSET D PROVE f[s] = Step(f, s)
    <3>1. CASE s = {}
      BY <1>4, <3>1 DEF IsFold
    <3>2. CASE s # {}
      <4>1. f[s] = op[<<Some(s), f[s \ {Some(s)}]>>] /\ f[s \ {Some(s)}] \in Nat
        BY <1>1, <1>4, <3>2 DEF IsFold
      <4>2. op[<<Some(s), f[s \ {Some(s)}]>>] = m[Some(s)].cost * f[s \ {Some(s)}]
        BY <1>1, <3>2, <4>1
      <4>3. QED
        BY <3>2, <4>1, <4>2
    <3>3. QED
      BY <3>1, <3>2
  <2> HIDE DEF Step
  <2>2. QED
    BY <1>4, <2>1 DEF IsFold
<1>6. it = [s \in SUBSET D |-> Step(it, s)]
  BY <1>5 DEF MultiplesOf
<1>7. D \in {s \in SUBSET D : Right(it, s)}
  <2> DEFINE G == {s \in SUBSET D : Right(it, s)}
  <2> HIDE DEF it
  <2>1. {} \in G
    BY <1>6
  <2>2. ASSUME NEW s \in SUBSET D, s # {}, s \ {Some(s)} \in G PROVE s \in G
    <3> DEFINE t == s \ {Some(s)}
               x == Some(s)
    <3>1. x \in D /\ it[s] = cost[x] * it[t] /\ Right(it, t) /\ cost[x] \in Nat \ {0}
      BY <1>1, <1>2, <1>6, <2>2
    <3>2. \A a, b \in Nat \ {0} : a * b \in Nat \ {0} /\ a <= a * b /\ b <= a * b
      OBVIOUS
    <3>3. it[s] \in Nat \ {0} /\ cost[x] <= it[s] /\ it[t] <= it[s]
      BY <3>1, <3>2
    <3>4. ASSUME NEW i \in s PROVE cost[i] <= it[s]
      <4>1. CASE i = x
        BY <3>3, <4>1
      <4>2. CASE i # x
        <5>1. cost[i] <= it[t] /\ cost[i] \in Nat /\ it[t] \in Nat
          BY <1>2, <3>1, <4>2
        <5> HIDE DEF cost, t
        <5>2. QED
          BY <3>3, <5>1
      <4>3. QED
        BY <4>1, <4>2
    <3>5. QED
      BY <3>3, <3>4
  <2>3. SUBSET D \subseteq G
    <3> HIDE DEF G
    <3>1. QED
      BY <2>1, <2>2, InAllSubsets
  <2>4. QED
    BY <2>3
<1>8. Multiple(m) \in Nat \ {0} /\ \A i \in D : m[i].cost <= Multiple(m)
  BY <1>7, MultipleIs
<1>9. \A a, b \in Nat \ {0} : b <= a => a \div b \in Nat \ {0}
  OBVIOUS
<1>10. QED
  BY <1>8, <1>9

\* With the costs applied they are shares of a whole, and what had a score of
\* nothing has no share, if another had a score.
LEMMA CostsApplied ==
  ASSUME NEW D, IsFiniteSet(D), D # {}, NEW m, DOMAIN m = D, \A i \in D : m[i].cost \in Nat \ {0},
         NEW raw \in [D -> Nat]
  PROVE  /\ Whole(W!_apply_cost(raw, m), D)
         /\ (\E i \in D : raw[i] > 0) =>
              \A i \in D : raw[i] = 0 => W!_apply_cost(raw, m).num[i] = 0
<1> DEFINE scaled == [i \in D |-> raw[i] * (Multiple(m) \div m[i].cost)]
<1>1. \A i \in D : Multiple(m) \div m[i].cost \in Nat \ {0}
  BY MultipleCovers
<1>2. \A a \in Nat, b \in Nat \ {0} : a * b \in Nat /\ (a * b = 0 <=> a = 0)
  OBVIOUS
<1>3. \A i \in D : scaled[i] \in Nat /\ (scaled[i] = 0 <=> raw[i] = 0)
  BY <1>1, <1>2
<1>4. W!_apply_cost(raw, m) = IF W!SumFunction(scaled) = 0 THEN W!Equal(D) ELSE W!Normalised(scaled)
  BY DEF W!_apply_cost, Multiple
<1>5. scaled \in [D -> Nat]
  BY <1>3
<1> HIDE DEF scaled
<1>6. ASSUME NEW i \in D, raw[i] > 0 PROVE W!SumFunction(scaled) # 0
  BY <1>3, <1>5, <1>6, SumsCover
<1>7. CASE W!SumFunction(scaled) = 0
  BY <1>4, <1>6, <1>7, EqualIsWhole
<1>8. CASE W!SumFunction(scaled) # 0
  BY <1>3, <1>4, <1>5, <1>8, NormalisedIsWhole
<1>9. QED
  BY <1>7, <1>8

\* What a worker keeps: shares of anything.
Shares(d) ==
    /\ d = [num |-> d.num, den |-> d.den] /\ d.den \in Nat \ {0}
    /\ DOMAIN d.num \subseteq Interfaces /\ d.num \in [DOMAIN d.num -> Nat]

\* The average makes a whole again, and leaves what has no share without one.
LEMMA AverageIsWhole ==
  ASSUME NEW D, IsFiniteSet(D), NEW p, Whole(p, D), NEW prev, Shares(prev)
  PROVE  /\ Whole(W!_apply_ema(prev, p), D)
         /\ \A i \in D : p.num[i] = 0 => W!_apply_ema(prev, p).num[i] = 0
<1> DEFINE old(i) == IF i \in DOMAIN prev.num THEN prev.num[i] * p.den ELSE p.num[i] * prev.den
           new == [i \in D |-> IF p.num[i] = 0 THEN 0
                               ELSE W!Alpha * p.num[i] * prev.den + (10 - W!Alpha) * old(i)]
<1>1. DOMAIN p.num = D /\ p.num \in [D -> Nat] /\ p.den \in Nat \ {0}
  BY DEF Whole
<1>2. W!_apply_ema(prev, p) = IF W!SumFunction(new) = 0 THEN [num |-> new, den |-> 1] ELSE W!Normalised(new)
  BY <1>1 DEF W!_apply_ema
<1>3. ASSUME NEW i \in D PROVE new[i] \in Nat /\ (new[i] = 0 <=> p.num[i] = 0)
  <2>1. \A a, b \in Nat : a * b \in Nat
    OBVIOUS
  <2>2. old(i) \in Nat
    <3>1. prev.den \in Nat /\ p.num[i] \in Nat /\ (i \in DOMAIN prev.num => prev.num[i] \in Nat)
      BY <1>1 DEF Shares
    <3>2. QED
      BY <1>1, <2>1, <3>1
  <2> HIDE DEF old
  <2>3. \A a, b \in Nat \ {0} : a * b \in Nat \ {0}
    OBVIOUS
  <2>4. p.num[i] \in Nat /\ prev.den \in Nat \ {0}
    BY <1>1 DEF Shares
  <2>5. p.num[i] # 0 => W!Alpha * p.num[i] * prev.den + (10 - W!Alpha) * old(i) \in Nat \ {0}
    <3>1. p.num[i] # 0 => 3 * p.num[i] \in Nat \ {0}
      BY <2>4
    <3>2. p.num[i] # 0 => (3 * p.num[i]) * prev.den \in Nat \ {0}
      BY <2>3, <2>4, <3>1
    <3>3. QED
      BY <2>2, <3>2 DEF W!Alpha
  <2>6. QED
    BY <2>5
<1>4. new \in [D -> Nat]
  BY <1>3
<1> HIDE DEF new
<1>5. W!SumFunction(new) # 0
  <2>1. PICK i \in D : p.num[i] > 0
    BY WholeHas
  <2>2. QED
    BY <1>1, <1>3, <1>4, <2>1, SumsCover
<1>6. QED
  BY <1>2, <1>3, <1>4, <1>5, NormalisedIsWhole

\* Exploration makes a whole again, too.
LEMMA ExploredIsWhole ==
  ASSUME NEW D, IsFiniteSet(D), NEW d, Whole(d, D), NEW e \in W!_maybe_explore(d)
  PROVE  Whole(e, D) /\ \A i \in D : d.num[i] = 0 => e.num[i] = 0
<1>1. CASE e = d
  BY <1>1
<1>2. CASE e # d
  <2>1. DOMAIN d.num = D /\ d.num \in [D -> Nat]
    BY DEF Whole
  <2>2. PICK x \in D : e = W!Normalised([d.num EXCEPT ![x] = 2 * @])
    BY <1>2, <2>1 DEF W!_maybe_explore
  <2> DEFINE new == [d.num EXCEPT ![x] = 2 * @]
  <2>3. new \in [D -> Nat] /\ \A i \in D : new[i] >= d.num[i] /\ (d.num[i] = 0 => new[i] = 0)
    BY <2>1
  <2> HIDE DEF new
  <2>4. W!SumFunction(new) # 0
    <3>1. PICK i \in D : d.num[i] > 0
      BY WholeHas
    <3>2. QED
      BY <2>1, <2>3, <3>1, SumsCover
  <2>5. QED
    BY <2>2, <2>3, <2>4, NormalisedIsWhole DEF new
<1>3. QED
  BY <1>1, <1>2

\* The integers made of a whole add up to 255, but for rounding.
LEMMA WeightsShareOut ==
  ASSUME NEW D, IsFiniteSet(D), NEW d, Whole(d, D)
  PROVE  LET ws == [i \in DOMAIN d.num |-> W!IntWeight(d.num[i], d.den)]
         IN /\ ws \in [D -> 1..255]
            /\ W!SumFunction(ws) \in (255 - Cardinality(D))..(255 + Cardinality(D))
            /\ \A i \in D : d.num[i] = 0 => ws[i] = 1
<1> DEFINE ws == [i \in D |-> W!IntWeight(d.num[i], d.den)]
           den == d.den
           n == Cardinality(D)
           sum == W!SumFunction(ws)
<1>1. DOMAIN d.num = D /\ d.num \in [D -> Nat] /\ den \in Nat \ {0} /\ W!SumFunction(d.num) = den
  BY DEF Whole
<1>2. ASSUME NEW i \in D
      PROVE  Rounds(ws[i], d.num[i], den)
  <2>1. d.num[i] \in Nat /\ d.num[i] <= den
    BY <1>1, SumsCover
  <2>2. QED
    BY <1>1, <2>1, RoundedWeight
<1>3. ws \in [D -> 1..255] /\ ws \in [D -> Nat]
  BY <1>2 DEF Rounds
<1>4. sum \in Nat /\ n \in Nat
  BY <1>3, SumIsNatural, FS_CardinalityType
<1> DEFINE a == 2 * den
<1>5. a * sum <= 510 * den + a * n
  <2>1. \A i \in D : a * ws[i] <= 510 * d.num[i] + a
    BY <1>2 DEF Rounds
  <2>2. a \in Nat
    BY <1>1
  <2> HIDE DEF ws, a
  <2>3. QED
    BY <1>1, <1>3, <2>1, <2>2, SumsCompare, SMTT(40)
<1>6. 510 * den <= a * sum + den * n
  <2>1. \A i \in D : 510 * d.num[i] <= a * ws[i] + den
    BY <1>2 DEF Rounds
  <2>2. a \in Nat /\ 510 \in Nat /\ den \in Int
    BY <1>1
  <2> DEFINE c == den
             j == 510
  <2> HIDE DEF ws, a, c, j
  <2>3. j * W!SumFunction(d.num) <= a * W!SumFunction(ws) + c * Cardinality(D)
    <3>1. j \in Nat /\ c \in Int /\ \A i \in D : j * d.num[i] <= a * ws[i] + c
      BY <2>1, <2>2 DEF j, c
    <3>2. QED
      BY <1>1, <1>3, <2>2, <3>1, SumsCompare
  <2>4. QED
    BY <1>1, <2>3 DEF j, c
<1>7. sum <= 255 + n /\ 255 - n <= sum
  <2> HIDE DEF ws, den, n, sum
  <2>1. (2 * den) * sum <= (2 * den) * (255 + n)
    BY <1>1, <1>4, <1>5
  <2>2. den * 510 <= den * (2 * sum + n)
    BY <1>1, <1>4, <1>6
  <2>3. 2 * den \in Nat \ {0} /\ 255 + n \in Int /\ 2 * sum + n \in Int /\ sum \in Int
    BY <1>1, <1>4
  <2>4. sum <= 255 + n
    BY <2>1, <2>3, LessFactor
  <2>5. 510 <= 2 * sum + n
    BY <1>1, <2>2, <2>3, LessFactor
  <2>6. QED
    BY <1>4, <2>4, <2>5
<1>8. QED
  <2>1. ws = [i \in DOMAIN d.num |-> W!IntWeight(d.num[i], d.den)]
    BY <1>1
  <2>2. \A i \in D : d.num[i] = 0 => ws[i] = 1
    BY <1>2 DEF Rounds
  <2> HIDE DEF ws
  <2>3. QED
    BY <1>3, <1>4, <1>7, <2>1, <2>2, SMTT(40)

----------------------------------------------------------------------------
(* Decisions *)

WeightsInv ==
    /\ W!TypeOK
    /\ metrics \in [DOMAIN metrics -> LineReports]
    /\ ema = [w \in Workers |-> ema[w]] /\ \A w \in Workers : Shares(ema[w])
    /\ W!DownAtOnce
    /\ W!SharedOut

LEMMA WeightsAssumed ==
  /\ IsFiniteSet(Interfaces) /\ MaxReports \in Nat /\ MaxDecisions \in Nat
  /\ \A r \in LineReports :
        r.online \in BOOLEAN /\ r.latency \in BOOLEAN /\ r.quality \in Nat /\ r.cost \in Nat \ {0}
BY WeightConstants, SameFinite DEF W!ConstantsOK

LEMMA InitWeights == W!Init => WeightsInv
<1> SUFFICES ASSUME W!Init PROVE WeightsInv
  OBVIOUS
<1>1. metrics = <<>> /\ ema = [w \in Workers |-> W!NoShares] /\ answer = W!NoAnswer
  BY DEF W!Init
<1>2. DOMAIN metrics = {} /\ metrics \in [DOMAIN metrics -> LineReports]
  BY <1>1
<1>3. Shares(W!NoShares)
  BY DEF Shares, W!NoShares
<1>4. DOMAIN answer.weights = {} /\ DOMAIN answer.about = {}
  BY <1>1 DEF W!NoAnswer
<1>5. W!Cardinality(DOMAIN answer.weights) = 0
  BY <1>4, SameCardinality, FS_EmptySet
<1>6. W!DownAtOnce /\ W!SharedOut
  BY <1>4, <1>5 DEF W!DownAtOnce, W!SharedOut
<1>7. W!TypeOK
  BY <1>1, <1>2, <1>3, <1>4, WeightsAssumed DEF W!TypeOK, W!Init, Shares
<1>8. QED
  BY <1>1, <1>2, <1>3, <1>6, <1>7 DEF WeightsInv

\* What the scorers need of the reports they see.
Scorable(m, D) == DOMAIN m = D /\ \A i \in D : m[i].cost \in Nat \ {0} /\ m[i].quality \in Nat

\* What is seen down has no share as long as something that is up has a quality.
Masks(d, m, D) ==
  (\E i \in D : ~W!Down(m[i]) /\ m[i].quality > 0) => \A i \in D : W!Down(m[i]) => d.num[i] = 0

\* The scorers give shares of a whole, and mask what is down when every score is
\* a number.
LEMMA Scored ==
  ASSUME NEW D, D \subseteq Interfaces, D # {}, NEW m, Scorable(m, D), NEW d,
         d \in {W!_compute_weights(m, TRUE), W!_compute_weights(m, FALSE),
               W!_compute_weights_heuristic(m)}
  PROVE  /\ Whole(d, D)
         /\ d \in {W!_compute_weights(m, FALSE), W!_compute_weights_heuristic(m)} => Masks(d, m, D)
<1>1. /\ IsFiniteSet(D) /\ DOMAIN m = D
      /\ \A i \in D : m[i].cost \in Nat \ {0} /\ m[i].quality \in Nat
  BY WeightsAssumed, FS_Subset DEF Scorable
<1> DEFINE all == [i \in D |-> 1]
           best == [i \in D |-> IF W!Down(m[i]) THEN 0 ELSE IF m[i].quality = 0 THEN 1 ELSE m[i].quality]
           plain == [i \in D |-> IF W!Down(m[i]) THEN 0 ELSE m[i].quality]
<1>2. all \in [D -> Nat] /\ best \in [D -> Nat] /\ plain \in [D -> Nat]
  BY <1>1
<1>3. /\ W!_compute_weights(m, TRUE) = W!_apply_cost(all, m)
      /\ W!_compute_weights(m, FALSE) = IF \A i \in D : W!Down(m[i]) THEN W!_apply_cost(all, m)
                                        ELSE W!_apply_cost(best, m)
      /\ W!_compute_weights_heuristic(m) = W!_apply_cost(plain, m)
  BY <1>1 DEF W!_compute_weights, W!_compute_weights_heuristic
<1>4. \A i \in D : ~W!Down(m[i]) /\ m[i].quality > 0 => best[i] > 0 /\ plain[i] > 0
  BY <1>1
<1>5. \A i \in D : W!Down(m[i]) => best[i] = 0 /\ plain[i] = 0
  OBVIOUS
<1> HIDE DEF all, best, plain
<1>6. ASSUME d = W!_apply_cost(all, m) PROVE Whole(d, D)
  BY <1>1, <1>2, <1>6, CostsApplied
<1>7. ASSUME d \in {W!_apply_cost(best, m), W!_apply_cost(plain, m)}
      PROVE  Whole(d, D) /\ Masks(d, m, D)
  <2>1. PICK raw \in {best, plain} : d = W!_apply_cost(raw, m)
    BY <1>7
  <2>2. Whole(d, D) /\ \A i \in D : raw[i] = 0 /\ (\E j \in D : raw[j] > 0) => d.num[i] = 0
    BY <1>1, <1>2, <2>1, CostsApplied
  <2>3. QED
    BY <1>4, <1>5, <2>2 DEF Masks
<1>8. ASSUME d \in {W!_compute_weights(m, FALSE), W!_compute_weights_heuristic(m)}
      PROVE  Masks(d, m, D)
  <2>1. CASE \A i \in D : W!Down(m[i])
    BY <2>1 DEF Masks
  <2>2. CASE ~\A i \in D : W!Down(m[i])
    BY <1>3, <1>7, <1>8, <2>2
  <2>3. QED
    BY <2>1, <2>2
<1>9. QED
  BY <1>3, <1>6, <1>7, <1>8

\* A prediction changes nothing but round-trip times that are missing.
LEMMA Predicted ==
  ASSUME NEW m, m \in [DOMAIN m -> LineReports], NEW guessed
  PROVE  LET seen == W!_predict_payload(m, guessed)
         IN /\ DOMAIN seen = DOMAIN m
            /\ \A i \in DOMAIN m :
                 /\ seen[i].cost \in Nat \ {0} /\ seen[i].quality = m[i].quality /\ m[i].quality \in Nat
                 /\ W!Down(seen[i]) <=> ~m[i].online \/ (~m[i].latency /\ i \notin guessed)
<1> DEFINE seen == W!_predict_payload(m, guessed)
<1>1. seen = [i \in DOMAIN m |-> IF i \in guessed THEN [m[i] EXCEPT !.latency = TRUE] ELSE m[i]]
  BY DEF W!_predict_payload
<1> HIDE DEF seen
<1>2. ASSUME NEW i \in DOMAIN m
      PROVE  /\ seen[i].cost \in Nat \ {0} /\ seen[i].quality = m[i].quality /\ m[i].quality \in Nat
             /\ W!Down(seen[i]) <=> ~m[i].online \/ (~m[i].latency /\ i \notin guessed)
  <2>1. m[i] \in [online : BOOLEAN, latency : BOOLEAN, quality : Nat, cost : Nat \ {0}]
    BY WeightConstants DEF W!ConstantsOK
  <2>2. CASE i \in guessed
    BY <1>1, <2>1, <2>2 DEF W!Down
  <2>3. CASE i \notin guessed
    BY <1>1, <2>1, <2>3 DEF W!Down
  <2>4. QED
    BY <2>2, <2>3
<1>3. QED
  BY <1>1, <1>2 DEF seen

LEMMA DecisionKeepsInv ==
  ASSUME WeightsInv, NEW w \in Workers, NEW torch \in BOOLEAN, NEW nan \in BOOLEAN,
         NEW guessed \in W!Guessable, W!get_decision(w, torch, guessed, nan)
  PROVE  WeightsInv'
<1> DEFINE D == DOMAIN metrics
           seen == W!_predict_payload(metrics, guessed)
           shares == IF torch THEN W!_compute_weights(seen, nan) ELSE W!_compute_weights_heuristic(seen)
           smoothed == W!_apply_ema(ema[w], shares)
           Masked(i) == ~metrics[i].online \/ (~metrics[i].latency /\ i \notin guessed)
<1>1. D \subseteq Interfaces /\ metrics \in [D -> LineReports] /\ D # {} /\ IsFiniteSet(D)
  <2>1. D \subseteq Interfaces /\ metrics \in [D -> LineReports] /\ metrics # <<>>
    BY DEF WeightsInv, W!TypeOK, W!get_decision
  <2>2. D = {} => metrics = <<>>
    BY <2>1
  <2> HIDE DEF D
  <2>3. IsFiniteSet(D)
    BY <2>1, WeightsAssumed, FS_Subset
  <2>4. QED
    BY <2>1, <2>2, <2>3
<1>2. /\ Whole(shares, D)
      /\ ~nan /\ (\E i \in D : ~W!Down(metrics[i]) /\ metrics[i].quality > 0) =>
           \A i \in D : Masked(i) => shares.num[i] = 0
  <2>1. /\ shares \in {W!_compute_weights(seen, TRUE), W!_compute_weights(seen, FALSE),
                     W!_compute_weights_heuristic(seen)}
        /\ ~nan => shares \in {W!_compute_weights(seen, FALSE), W!_compute_weights_heuristic(seen)}
    <3>1. CASE nan
      BY <3>1
    <3>2. CASE ~nan
      BY <3>2
    <3>3. QED
      BY <3>1, <3>2
  <2>2. /\ DOMAIN seen = D
        /\ \A i \in D : /\ seen[i].cost \in Nat \ {0} /\ seen[i].quality = metrics[i].quality
                         /\ metrics[i].quality \in Nat /\ (W!Down(seen[i]) <=> Masked(i))
    BY <1>1, Predicted
  <2>3. \A i \in D : ~W!Down(metrics[i]) => ~Masked(i)
    BY DEF W!Down
  <2> HIDE DEF shares, seen, Masked, D
  <2>4. Scorable(seen, D)
    BY <2>2 DEF Scorable
  <2>5. Whole(shares, D)
    BY <1>1, <2>1, <2>4, Scored
  <2>6. ~nan => Masks(shares, seen, D)
    BY <1>1, <2>1, <2>4, Scored
  <2>7. QED
    BY <2>2, <2>3, <2>5, <2>6 DEF Masks
<1>3. Shares(ema[w])
  BY DEF WeightsInv
<1>4. Whole(smoothed, D) /\ \A i \in D : shares.num[i] = 0 => smoothed.num[i] = 0
  <2> HIDE DEF shares, D
  <2>1. QED
    BY <1>1, <1>2, <1>3, AverageIsWhole
<1>5. PICK d \in W!_maybe_explore(smoothed) :
        answer' = [about |-> metrics, guessed |-> guessed, nan |-> nan, shares |-> shares,
                   weights |-> [i \in DOMAIN d.num |-> W!IntWeight(d.num[i], d.den)]]
  BY DEF W!get_decision
<1>6. ema' = [ema EXCEPT ![w] = smoothed] /\ UNCHANGED <<metrics, reports>>
      /\ decisions < MaxDecisions /\ decisions' = decisions + 1
  BY DEF W!get_decision
<1> HIDE DEF shares, smoothed, seen, D
<1>7. Whole(d, D) /\ \A i \in D : smoothed.num[i] = 0 => d.num[i] = 0
  BY <1>1, <1>4, ExploredIsWhole
<1> DEFINE ws == [i \in DOMAIN d.num |-> W!IntWeight(d.num[i], d.den)]
<1>8. /\ ws \in [D -> 1..255]
      /\ W!SumFunction(ws) \in (255 - Cardinality(D))..(255 + Cardinality(D))
      /\ \A i \in D : d.num[i] = 0 => ws[i] = 1
  BY <1>1, <1>7, WeightsShareOut
<1>9. answer'.about = metrics /\ answer'.weights = ws /\ answer'.guessed = guessed /\ answer'.nan = nan
  BY <1>5
<1> HIDE DEF ws
<1>10. W!SharedOut'
  BY <1>8, <1>9, SameCardinality DEF W!SharedOut
<1>11. W!DownAtOnce'
  <2>1. \A i \in D : shares.num[i] = 0 => ws[i] = 1
    BY <1>4, <1>7, <1>8
  <2>2. QED
    BY <1>2, <1>9, <2>1 DEF W!DownAtOnce, D
<1>12. Shares(smoothed)
  BY <1>1, <1>4 DEF Whole, Shares
<1>13. ema' = [v \in Workers |-> ema'[v]] /\ \A v \in Workers : Shares(ema'[v])
  BY <1>6, <1>12 DEF WeightsInv
<1>14. W!TypeOK'
  <2>1. \A v \in Workers : DOMAIN ema'[v].num \subseteq Interfaces /\ ema'[v].den \in Nat \ {0}
    BY <1>13 DEF Shares
  <2>2. \A i \in DOMAIN answer'.weights : answer'.weights[i] \in 1..255
    BY <1>8, <1>9
  <2>3. decisions' \in 0..MaxDecisions
    BY <1>6, WeightsAssumed DEF WeightsInv, W!TypeOK
  <2>4. QED
    BY <1>6, <2>1, <2>2, <2>3 DEF WeightsInv, W!TypeOK
<1>15. QED
  BY <1>6, <1>10, <1>11, <1>13, <1>14 DEF WeightsInv, Shares

LEMMA NextWeights ==
  ASSUME WeightsInv, [W!Next]_(W!vars)
  PROVE  WeightsInv'
<1>1. CASE UNCHANGED W!vars
  BY <1>1 DEF WeightsInv, W!vars, W!TypeOK, W!DownAtOnce, W!SharedOut, Shares
<1>2. ASSUME NEW i \in Interfaces, NEW r \in LineReports, W!set_metrics(i, r) PROVE WeightsInv'
  <2>1. metrics' = [j \in DOMAIN metrics \cup {i} |-> IF j = i THEN r ELSE metrics[j]]
    BY <1>2 DEF W!set_metrics, W!With
  <2>2. UNCHANGED <<ema, answer, decisions>> /\ reports' = reports + 1 /\ reports < MaxReports
    BY <1>2 DEF W!set_metrics
  <2>3. DOMAIN metrics' \subseteq Interfaces /\ metrics' \in [DOMAIN metrics' -> LineReports]
    BY <2>1 DEF WeightsInv, W!TypeOK
  <2>4. W!TypeOK'
    BY <2>2, <2>3, WeightsAssumed DEF WeightsInv, W!TypeOK
  <2>5. QED
    BY <2>2, <2>3, <2>4 DEF WeightsInv, W!DownAtOnce, W!SharedOut, Shares
<1>3. ASSUME NEW i \in Interfaces, W!Expire(i) PROVE WeightsInv'
  <2>1. metrics' = [j \in DOMAIN metrics \ {i} |-> metrics[j]]
    BY <1>3 DEF W!Expire, W!Restrict
  <2>2. UNCHANGED <<ema, answer, decisions>> /\ reports' = reports + 1 /\ reports < MaxReports
    BY <1>3 DEF W!Expire
  <2>3. DOMAIN metrics' \subseteq Interfaces /\ metrics' \in [DOMAIN metrics' -> LineReports]
    BY <2>1 DEF WeightsInv, W!TypeOK
  <2>4. W!TypeOK'
    BY <2>2, <2>3, WeightsAssumed DEF WeightsInv, W!TypeOK
  <2>5. QED
    BY <2>2, <2>3, <2>4 DEF WeightsInv, W!DownAtOnce, W!SharedOut, Shares
<1>4. ASSUME NEW w \in Workers, NEW torch \in BOOLEAN, NEW nan \in BOOLEAN,
             NEW guessed \in W!Guessable, W!get_decision(w, torch, guessed, nan)
      PROVE  WeightsInv'
  BY <1>4, DecisionKeepsInv
<1>5. QED
  BY <1>1, <1>2, <1>3, <1>4 DEF W!Next

LEMMA WeightsStay == W!Spec => []WeightsInv
<1>1. W!Init => WeightsInv
  BY InitWeights
<1>2. WeightsInv /\ [W!Next]_(W!vars) => WeightsInv'
  BY NextWeights
<1>3. QED
  BY <1>1, <1>2, PTL DEF W!Spec

-----------------------------------------------------------------------------
(* The behaviours of MCEngine *)

\* Every behaviour of the whole is one of each of its parts.
LEMMA EngineParts == EngineSpec => Spec /\ M!Spec /\ W!Spec /\ T!Spec
<1>1. EngineInit => Init /\ M!Init /\ W!Init /\ T!Init
  BY DEF EngineInit
<1>2. [EngineNext]_<<part, vars, modelVars, weightVars, toggleVars>>
        => [Next]_vars /\ [M!Next]_M!vars /\ [W!Next]_W!vars /\ [T!Next]_T!vars
  BY DEF EngineNext, modelVars, weightVars, toggleVars, M!vars, W!vars, T!vars
<1>3. QED
  BY <1>1, <1>2, PTL DEF EngineSpec, Spec, M!Spec, W!Spec, T!Spec

\* The same of the behaviours that are checked, whatever the rest does meanwhile.
THEOREM EngineAdamIsModels == EngineSpec => []AdamIsModels
<1>1. M!AdamIsModels => AdamIsModels
  BY DEF AdamIsModels
<1>2. QED
  BY <1>1, EngineParts, AdamStaysModels, PTL

\* The variables of the scorer, and what each thread of a worker is doing with it,
\* keep their types in any number of workers (_get_model, _save_model,
\* _auto_watchdog).
THEOREM ModelStaysTyped == M!Spec => []M!TypeOK
<1>1. M!Init => ModelInv
  BY InitModel, ModelConstants
<1>2. ModelInv /\ [M!Next]_(M!vars) => ModelInv'
  BY NextModel, ModelConstants
<1>3. ModelInv => M!TypeOK
  BY DEF ModelInv
<1>4. QED
  BY <1>1, <1>2, <1>3, PTL DEF M!Spec

\* The invariant of the switch: the types, and what the loops may still begin.
LEMMA ToggleStays == T!Spec => []ToggleInv
<1>1. T!Init => ToggleInv
  BY InitToggle, ToggleConstants
<1>2. ToggleInv /\ [T!Next]_(T!vars) => ToggleInv'
  BY NextToggle, ToggleConstants
<1>3. QED
  BY <1>1, <1>2, PTL DEF T!Spec

\* What the model's threads, the loops and the requests of the switch hold keeps
\* its type, whatever is killed, torn or refused; so do the reports, every worker's
\* average and the answers, and every weight is in 1..255, whatever interfaces
\* come, go and change (get_decision).
THEOREM EngineStaysTyped == EngineSpec => []EngineTypeOK
<1>1. M!TypeOK /\ WeightsInv /\ ToggleInv => EngineTypeOK
  BY DEF WeightsInv, ToggleInv, EngineTypeOK
<1>2. QED
  BY <1>1, EngineParts, ModelStaysTyped, WeightsStay, ToggleStays, PTL

\* A saved disabling lets the worker that served it begin one more round and every
\* other worker two, for any number of workers, kills and failing writes, unless
\* the file seemed to say enabled (_auto_cfg, _auto_learn_loop, _auto_set_enabled).
THEOREM EngineFewRoundsMore == EngineSpec => []FewRoundsMore
<1>1. ToggleInv => FewRoundsMore
  BY FewAreLeft DEF FewRoundsMore
<1>2. QED
  BY <1>1, EngineParts, ToggleStays, PTL

\* An interface that is reported offline, or has no round-trip time and none made
\* up for it by a prediction, gets the least weight in the very next answer while
\* one that is up has any quality and the scores are numbers: for any number of
\* workers and interfaces and whatever the worker's average was (the offline mask
\* of _apply_ema, get_decision).
THEOREM EngineDownAtOnce == EngineSpec => []DownAtOnce
<1>1. WeightsInv => DownAtOnce
  BY DEF WeightsInv, DownAtOnce
<1>2. QED
  BY <1>1, EngineParts, WeightsStay, PTL

\* The weights add up to 255, but for one per interface, for any number of
\* interfaces, reports and decisions: the costs, the average and the exploration
\* each make shares of a whole again (_apply_cost, _apply_ema, _maybe_explore).
THEOREM EngineSharedOut == EngineSpec => []SharedOut
<1>1. WeightsInv => SharedOut
  BY DEF WeightsInv, SharedOut
<1>2. QED
  BY <1>1, EngineParts, WeightsStay, PTL

\* One worker alone takes the model file back to an earlier model only when a
\* training request took that one before a reset and saves it after
\* (train_decision's save without the lock): a round never does.
THEOREM EngineGoesBackLate ==
  ASSUME NEW w, ModelWorkers = {w}
  PROVE  EngineSpec => BackOnlyLate
<1>1. M!Init => ModelInv /\ Lineage(w)
  <2>1. M!Init => Lineage(w)
    <3>1. None \notin M!Gens
      BY ModelConstants DEF M!ConstantsOK
    <3>2. QED
      BY <3>1, IdleJob DEF M!Init, Lineage, M!F!Holding, Saving
  <2>2. QED
    BY <2>1, InitModel, ModelConstants
<1>2. ModelInv /\ [M!Next]_(M!vars) => ModelInv'
  BY NextModel, ModelConstants
<1>3. ModelInv /\ ModelInv' /\ Lineage(w) /\ [M!Next]_(M!vars) => Lineage(w)' /\ BackStep(w)
  BY NextLineage, ModelConstants
<1>4. BackStep(w) => M!LateOnly
  BY DEF BackStep, M!LateOnly
<1>5. M!Spec => [](ModelInv /\ Lineage(w))
  BY <1>1, <1>2, <1>3, PTL DEF M!Spec
<1>6. M!Spec => [][BackStep(w)]_(M!vars)
  BY <1>2, <1>3, <1>5, PTL DEF M!Spec
<1>7. M!Spec => M!BackOnlyLate
  BY <1>4, <1>6, PTL DEF M!BackOnlyLate
<1>8. QED
  BY <1>7, EngineParts, PTL DEF BackOnlyLate
==============================================================================
