-------------------------- MODULE MptcpApplyProofs --------------------------
(***************************************************************************)
(* Theorems about MptcpApply, for any kernel settings, values, requests,   *)
(* threads and workers, and any number of faults.                          *)
(***************************************************************************)
EXTENDS MptcpApply, WellFoundedInduction, TLAPS

Reqs == Requests \cup {NoReq}

Jobs == [req : Reqs, wasLive : [Keys -> Values], wasConf : Saved, wasNanbbr : Values \cup {None},
         applied : SUBSET Keys, wrote : SUBSET Files, bad : BOOLEAN]

----------------------------------------------------------------------------
(* The invariant *)

\* The kernel runs with what is saved, except where that is known to be apart.
Agree ==
    /\ \A k \in Sysctls \ apart : conf[k] # None => live[k] = Name(conf[k])
    /\ \A k \in Params \ apart : nanbbr \in {None, live[k]}

\* The lock's holder is the only handler inside, and what starting workers wrote
\* since it got the lock is apart.
LockInv ==
    /\ \A p \in Handlers : pc[p] \notin WorkerSteps
    /\ \A w \in Workers : pc[w] \in WorkerSteps \cup {"absent", "idle"}
    /\ \A p \in Handlers : p \in lock <=> Inside(p)
    /\ lock # {} => touched \subseteq apart

\* A worker has replaced the file since the lock was taken.
ConfTouched == Sysctls \subseteq touched

\* The snapshots were in line, except where that is known to be apart.
SnapshotsAgree(p) ==
    /\ \A k \in Sysctls \ apart :
         job[p].wasConf[k] # None => job[p].wasLive[k] = Name(job[p].wasConf[k])
    /\ \A k \in Params \ apart : job[p].wasNanbbr \in {None, job[p].wasLive[k]}

\* Before the first change.
Before(p) ==
    /\ pc[p] \in {"wait", "check", "files", "live"} =>
         job[p].applied = {} /\ job[p].wrote = {} /\ ~job[p].bad
    /\ pc[p] = "live" =>
         (conf = job[p].wasConf \/ ConfTouched) /\ nanbbr = job[p].wasNanbbr

\* What is not accounted for in applied and wrote is as in the snapshots, but for
\* what a rollback reports it could not restore.
Undoable(p) ==
    /\ pc[p] \in Changing => SnapshotsAgree(p)
    /\ pc[p] \in Changing \cup {"undone"} =>
         \A k \in Keys \ (touched \cup job[p].applied) :
             live[k] = job[p].wasLive[k] \/ (job[p].bad /\ k \in apart)
    /\ pc[p] \in Changing => conf = job[p].wasConf \/ ConfTouched \/ "conf" \in job[p].wrote
    /\ pc[p] \in Changing => nanbbr = job[p].wasNanbbr \/ "nanbbr" \in job[p].wrote

\* On the way to success.
Applying(p) ==
    /\ pc[p] \in {"set", "nanbbr", "conf", "done"} =>
         /\ job[p].applied \subseteq Uses(job[p].req)
         /\ \A k \in job[p].applied \ touched : live[k] = Wanted(job[p].req, k)
    /\ pc[p] \in {"nanbbr", "conf", "done"} => job[p].applied = Uses(job[p].req)
    /\ pc[p] \in {"set", "nanbbr"} => job[p].wrote = {}
    /\ pc[p] = "conf" => "conf" \notin job[p].wrote
    /\ pc[p] = "conf" /\ job[p].req.aggr = None => nanbbr = job[p].wasNanbbr
    /\ pc[p] \in {"conf", "done"} => job[p].req.aggr \in {None, nanbbr}
    /\ pc[p] = "done" => conf = job[p].req.sysctl \/ ConfTouched

\* The end of a rollback.
Undone(p) ==
    /\ pc[p] \in {"undoconf", "undonanbbr", "undone"} => job[p].applied = {}
    /\ pc[p] \in {"undonanbbr", "undone"} =>
         conf = job[p].wasConf \/ ConfTouched \/ (job[p].bad /\ Sysctls \subseteq apart)
    /\ pc[p] = "undone" => nanbbr = job[p].wasNanbbr \/ (job[p].bad /\ Params \subseteq apart)

\* Where the holder is not in between, saved and live agree.
Phase(p) ==
    /\ pc[p] \in {"check", "files", "live", "done", "undone"} => Agree
    /\ Before(p) /\ Undoable(p) /\ Applying(p) /\ Undone(p)

ApplyInv ==
    /\ TypeOK
    /\ LockInv
    /\ lock = {} => Agree
    /\ \A p \in Handlers : Phase(p)

----------------------------------------------------------------------------
(* Settings and requests *)

LEMMA Settings ==
  /\ 1 \in Sysctls /\ 2 \in Sysctls
  /\ Sysctls \subseteq Keys /\ Params \subseteq Keys /\ Keys = Sysctls \cup Params
  /\ Sysctls \cap Params = {}
<1>1. \A k \in Params : k \in 3..N - 1
  BY MptcpAssumption
<1>2. N \in Nat /\ N >= 3
  BY MptcpAssumption
<1>3. Params \subseteq Keys
  BY <1>1, <1>2 DEF Keys
<1>4. 1 \in Keys /\ 2 \in Keys
  BY <1>2 DEF Keys
<1>5. 1 \notin Params /\ 2 \notin Params
  BY <1>1, <1>2
<1>6. QED
  BY <1>3, <1>4, <1>5 DEF Sysctls

LEMMA NoReqIsRequest == NoReq \in AllRequests
<1>1. NoReq.sysctl \in [Sysctls -> Values \cup {None}] /\ \A k \in Sysctls : NoReq.sysctl[k] # None
  BY MptcpAssumption DEF NoReq
<1>2. NoReq.sysctl \in Lines(Values)
  BY <1>1 DEF Lines
<1>3. QED
  BY <1>2 DEF NoReq, AllRequests

\* What the file has for a sysctl, or a request.
LEMMA LinesHave ==
  ASSUME NEW c \in Saved
  PROVE  /\ c \in [Sysctls -> Values \cup {Old, None}]
         /\ c[1] # None /\ c[2] # None
<1>1. c \in [Sysctls -> (Values \cup {Old}) \cup {None}] /\ \A k \in Sysctls \ Optional : c[k] # None
  BY DEF Saved, Lines
<1>2. 1 \in Sysctls \ Optional /\ 2 \in Sysctls \ Optional
  BY Settings, MptcpAssumption
<1>3. QED
  BY <1>1, <1>2

LEMMA LineReplaced ==
  ASSUME NEW c \in Saved, NEW k \in Sysctls
  PROVE  [c EXCEPT ![k] = Current] \in Saved
<1>1. c \in [Sysctls -> (Values \cup {Old}) \cup {None}] /\ \A l \in Sysctls \ Optional : c[l] # None
  BY DEF Saved, Lines
<1>2. [c EXCEPT ![k] = Current] \in [Sysctls -> (Values \cup {Old}) \cup {None}]
  BY <1>1, MptcpAssumption
<1>3. \A l \in Sysctls \ Optional : [c EXCEPT ![k] = Current][l] # None
  BY <1>1, MptcpAssumption
<1>4. QED
  BY <1>2, <1>3 DEF Saved, Lines

LEMMA RequestTypes ==
  ASSUME NEW r \in Reqs
  PROVE  /\ r.sysctl \in [Sysctls -> Values \cup {None}] /\ r.aggr \in Values \cup {None}
         /\ r.sysctl \in Saved
         /\ Uses(r) \subseteq Keys
         /\ \A k \in Sysctls : k \in Uses(r) <=> r.sysctl[k] # None
         /\ \A k \in Params : k \in Uses(r) <=> r.aggr # None
         /\ \A k \in Uses(r) : Wanted(r, k) \in Values
<1>1. r \in AllRequests
  BY NoReqIsRequest, MptcpAssumption DEF Reqs
<1>2. r.sysctl \in Lines(Values) /\ r.aggr \in Values \cup {None}
  BY <1>1 DEF AllRequests
<1>3. r.sysctl \in [Sysctls -> Values \cup {None}] /\ \A k \in Sysctls \ Optional : r.sysctl[k] # None
  BY <1>2 DEF Lines
<1>4. r.sysctl \in Saved
  BY <1>3 DEF Saved, Lines
<1>5. /\ Uses(r) \subseteq Keys
      /\ \A k \in Sysctls : k \in Uses(r) <=> r.sysctl[k] # None
      /\ \A k \in Params : k \in Uses(r) <=> r.aggr # None
  BY Settings DEF Uses
<1>6. ASSUME NEW k \in Uses(r) PROVE Wanted(r, k) \in Values
  BY <1>2, <1>3, <1>5, <1>6, Settings DEF Wanted
<1>7. QED
  BY <1>2, <1>3, <1>4, <1>5, <1>6

\* Saved names and the kernel's.
LEMMA Names ==
  /\ \A v \in Values : Name(v) = v
  /\ \A v \in Values \cup {Old} : Name(v) \in Values
  /\ \A v \in Values \cup {Old, None} : Name(v) = None <=> v = None
  /\ Name(Current) = Current
  BY MptcpAssumption DEF Name

LEMMA LeastIsIn ==
  ASSUME NEW S \in SUBSET Keys, S # {}
  PROVE  Least(S) \in S
<1>1. S \subseteq Nat
  BY MptcpAssumption DEF Keys
<1>2. PICK k \in S : \A l \in S : <<l, k>> \notin OpToRel(<, Nat)
  BY <1>1, NatLessThanWellFounded, WFMin, Zenon
<1>3. \A l \in S : ~(l < k)
  BY <1>1, <1>2 DEF OpToRel
<1>5. \A l \in S : k <= l
  BY <1>1, <1>3
<1>4. QED
  BY <1>5 DEF Least

LEMMA GreatestIsIn ==
  ASSUME NEW S \in SUBSET Keys, S # {}
  PROVE  Greatest(S) \in S
<1> DEFINE T == {n \in Nat : N - n \in S}
<1>1. N \in Nat /\ \A k \in S : k \in Nat /\ N - k \in Nat /\ N - (N - k) = k
  BY MptcpAssumption DEF Keys
<1>2. T # {} /\ T \subseteq Nat
  BY <1>1
<1>3. PICK n \in T : \A m \in T : <<m, n>> \notin OpToRel(<, Nat)
  BY <1>2, NatLessThanWellFounded, WFMin, Zenon
<1>4. \A m \in T : ~(m < n)
  BY <1>2, <1>3 DEF OpToRel
<1>5. ASSUME NEW l \in S PROVE l <= N - n
  <2>1. N - l \in T
    BY <1>1
  <2>2. QED
    BY <1>1, <1>4, <2>1
<1>6. N - n \in S
  OBVIOUS
<1>7. QED
  BY <1>5, <1>6 DEF Greatest

LEMMA NextUndoIsIn ==
  ASSUME NEW S \in SUBSET Keys, S # {}
  PROVE  NextUndo(S) \in S /\ NextUndo(S) \in Keys
  BY GreatestIsIn DEF NextUndo

----------------------------------------------------------------------------
(* Types *)

LEMMA NoJobIsJob == NoJob \in Jobs
<1>1. NoReq.sysctl \in Saved /\ [k \in Keys |-> Current] \in [Keys -> Values]
  BY RequestTypes, MptcpAssumption DEF Reqs
<1>2. QED
  BY <1>1 DEF NoJob, Jobs, Reqs

\* One process' job changes.
LEMMA JobChanges ==
  ASSUME TypeOK, NEW p \in Procs, NEW j \in Jobs, job' = [job EXCEPT ![p] = j]
  PROVE  /\ job' \in [Procs -> Jobs]
         /\ job'[p] = j
         /\ \A q \in Procs \ {p} : job'[q] = job[q]
  BY DEF TypeOK, Jobs, Reqs

LEMMA PcChanges ==
  ASSUME TypeOK, NEW p \in Procs, NEW label \in HandlerSteps \cup WorkerSteps \cup {"idle"},
         Goto(p, label)
  PROVE  /\ pc' \in [Procs -> {"absent", "idle"} \cup HandlerSteps \cup WorkerSteps]
         /\ pc'[p] = label
         /\ \A q \in Procs \ {p} : pc'[q] = pc[q]
  BY DEF TypeOK, Goto

LEMMA LeaveTypes ==
  ASSUME TypeOK, NEW p \in Procs, Leave(p)
  PROVE  /\ pc' \in [Procs -> {"absent", "idle"} \cup HandlerSteps \cup WorkerSteps]
         /\ pc'[p] = "idle" /\ \A q \in Procs \ {p} : pc'[q] = pc[q]
         /\ job' \in [Procs -> Jobs]
         /\ lock' \in {{}} \cup {{q} : q \in Handlers}
<1>1. lock' \in {{}} \cup {{q} : q \in Handlers}
  <2>1. CASE lock = {}
    BY <2>1 DEF Leave
  <2>2. ASSUME NEW q \in Handlers, lock = {q} PROVE lock' \in {{}, {q}}
    BY <2>2 DEF Leave
  <2>3. QED
    BY <2>1, <2>2 DEF TypeOK
<1>2. job' \in [Procs -> Jobs]
  BY NoJobIsJob, JobChanges DEF Leave
<1>3. QED
  BY <1>1, <1>2, PcChanges DEF Leave

LEMMA JobFields ==
  ASSUME TypeOK, NEW p \in Procs
  PROVE  /\ job[p] \in Jobs
         /\ job[p].req \in Reqs
         /\ job[p].wasLive \in [Keys -> Values] /\ job[p].wasConf \in Saved
         /\ job[p].wasNanbbr \in Values \cup {None}
         /\ job[p].applied \in SUBSET Keys /\ job[p].wrote \in SUBSET Files
         /\ job[p].bad \in BOOLEAN
<1>1. job[p] \in Jobs
  BY DEF TypeOK, Jobs, Reqs
<1>2. QED
  BY <1>1 DEF Jobs

\* What a step changes of a job.
LEMMA Updates ==
  ASSUME NEW j \in Jobs, NEW S \in SUBSET Keys, NEW F \in SUBSET Files, NEW b \in BOOLEAN,
         NEW c \in Saved, NEW n \in Values \cup {None}, NEW v \in [Keys -> Values]
  PROVE  /\ [j EXCEPT !.wasConf = c] \in Jobs
         /\ [j EXCEPT !.wasConf = c, !.wasNanbbr = n] \in Jobs
         /\ [j EXCEPT !.wasLive = v] \in Jobs
         /\ [j EXCEPT !.applied = S] \in Jobs
         /\ [j EXCEPT !.applied = S, !.bad = b] \in Jobs
         /\ [j EXCEPT !.wrote = F] \in Jobs
         /\ [j EXCEPT !.bad = b] \in Jobs
  BY DEF Jobs

----------------------------------------------------------------------------
(* The lock *)

Handling == HandlerSteps \ {"wait"}

\* The others are outside, where nothing is asked of them.
LEMMA Alone ==
  ASSUME TypeOK, LockInv, NEW p \in Handlers, Inside(p)
  PROVE  /\ lock = {p} /\ p \in Procs
         /\ \A q \in Handlers \ {p} : ~Inside(q)
<1>1. p \in lock
  BY DEF LockInv
<1>2. lock = {p}
  BY <1>1 DEF TypeOK
<1>3. QED
  BY <1>2 DEF LockInv, Procs

LEMMA OutsideStays ==
  ASSUME NEW q, pc[q] \notin Handling, Phase(q), pc'[q] = pc[q], job'[q] = job[q]
  PROVE  Phase(q)'
  BY DEF Phase, Handling, HandlerSteps, Before, Undoable, Applying, Undone, Changing

\* Inside, the holder goes on.
LEMMA HolderGoesOn ==
  ASSUME TypeOK, LockInv, NEW p \in Handlers, Inside(p), NEW s \in Handling,
         pc'[p] = s, \A q \in Procs \ {p} : pc'[q] = pc[q],
         UNCHANGED <<lock, touched>>, touched \subseteq apart'
  PROVE  LockInv'
<1>1. p \in Procs /\ p \notin Workers /\ Handlers \subseteq Procs /\ Workers \subseteq Procs
  BY MptcpAssumption DEF Procs
<1>2. s \notin WorkerSteps /\ s \in HandlerSteps \ {"wait"}
  BY DEF Handling, HandlerSteps, WorkerSteps
<1>3. \A q \in Handlers : pc'[q] \notin WorkerSteps
  BY <1>1, <1>2 DEF LockInv
<1>4. \A w \in Workers : pc'[w] \in WorkerSteps \cup {"absent", "idle"}
  BY <1>1 DEF LockInv
<1>5. \A q \in Handlers : q \in lock' <=> (pc'[q] \in HandlerSteps \ {"wait"})
  BY <1>1, <1>2 DEF LockInv, Inside
<1>6. QED
  BY <1>3, <1>4, <1>5 DEF LockInv, Inside

LEMMA HolderKeepsInv ==
  ASSUME ApplyInv, NEW p \in Handlers, Inside(p), NEW s \in Handling,
         pc'[p] = s, \A q \in Procs \ {p} : pc'[q] = pc[q] /\ job'[q] = job[q],
         UNCHANGED <<lock, touched>>, touched \subseteq apart',
         TypeOK', Phase(p)'
  PROVE  ApplyInv'
<1>1. LockInv'
  BY HolderGoesOn DEF ApplyInv
<1>2. lock' = {p}
  BY Alone DEF ApplyInv
<1>3. ASSUME NEW q \in Handlers \ {p} PROVE Phase(q)'
  BY <1>3, Alone, OutsideStays DEF ApplyInv, Procs, Inside, Handling
<1>4. QED
  BY <1>1, <1>2, <1>3 DEF ApplyInv

\* The holder leaves, with saved and live in agreement.
LEMMA HolderLeaves ==
  ASSUME ApplyInv, NEW p \in Handlers, Inside(p), Leave(p), TypeOK', Agree'
  PROVE  ApplyInv'
<1>1. /\ p \in Procs /\ p \notin Workers /\ Handlers \subseteq Procs /\ Workers \subseteq Procs
      /\ pc'[p] = "idle" /\ \A q \in Procs \ {p} : pc'[q] = pc[q]
      /\ \A q \in Procs \ {p} : job'[q] = job[q]
  BY LeaveTypes, NoJobIsJob, JobChanges, MptcpAssumption DEF Procs, ApplyInv, Leave
<1>2. lock' = {}
  BY Alone DEF ApplyInv, Leave
<1>3. \A q \in Handlers : pc'[q] \notin HandlerSteps \ {"wait"}
  BY <1>1, Alone DEF ApplyInv, Inside, HandlerSteps
<1>4. LockInv'
  BY <1>1, <1>2, <1>3 DEF ApplyInv, LockInv, Inside, WorkerSteps
<1>5. ASSUME NEW q \in Handlers \ {p} PROVE Phase(q)'
  BY <1>1, <1>5, Alone, OutsideStays DEF ApplyInv, Inside, Handling
<1>6. Phase(p)'
  BY <1>1 DEF Phase, Before, Undoable, Applying, Undone, Changing
<1>7. QED
  BY <1>2, <1>4, <1>5, <1>6 DEF ApplyInv

----------------------------------------------------------------------------
(* Steps that change nothing but what a request knows *)

LEMMA RequestKeepsInv ==
  ASSUME ApplyInv, NEW p \in Handlers, NEW r \in Requests, Request(p, r)
  PROVE  ApplyInv'
<1> DEFINE j == [NoJob EXCEPT !.req = r]
<1>1. /\ j \in Jobs /\ j.applied = {} /\ j.wrote = {} /\ ~j.bad
  BY NoJobIsJob DEF Jobs, Reqs, NoJob
<1> HIDE DEF j
<1>2. p \in Procs /\ p \notin Workers /\ Handlers \subseteq Procs /\ Workers \subseteq Procs
  BY MptcpAssumption DEF Procs
<1>3. /\ job' \in [Procs -> Jobs] /\ job'[p] = j
      /\ \A q \in Procs \ {p} : job'[q] = job[q]
  BY <1>1, <1>2, JobChanges DEF Request, ApplyInv, j
<1>4. /\ pc' \in [Procs -> {"absent", "idle"} \cup HandlerSteps \cup WorkerSteps]
      /\ pc'[p] = "wait"
      /\ \A q \in Procs \ {p} : pc'[q] = pc[q]
  BY <1>2, PcChanges DEF Request, ApplyInv, HandlerSteps
<1>5. TypeOK'
  BY <1>3, <1>4 DEF Request, ApplyInv, TypeOK, Jobs, Reqs
<1>6. pc[p] = "idle" /\ UNCHANGED <<live, conf, nanbbr, lock, touched, apart>>
  BY DEF Request
<1>7. LockInv'
  BY <1>2, <1>4, <1>6 DEF ApplyInv, LockInv, Inside, HandlerSteps, WorkerSteps
<1>8. Phase(p)'
  BY <1>1, <1>3, <1>4 DEF Phase, Before, Undoable, Applying, Undone, Changing
<1>9. ASSUME NEW q \in Handlers \ {p} PROVE Phase(q)'
  BY <1>2, <1>3, <1>4, <1>6, <1>9 DEF ApplyInv, Phase, Agree, Before, Undoable, Applying, Undone,
     SnapshotsAgree, ConfTouched
<1>10. QED
  BY <1>5, <1>6, <1>7, <1>8, <1>9 DEF ApplyInv, Agree

LEMMA AcquireKeepsInv ==
  ASSUME ApplyInv, NEW p \in Handlers, Acquire(p)
  PROVE  ApplyInv'
<1>1. p \in Procs /\ p \notin Workers /\ Handlers \subseteq Procs /\ Workers \subseteq Procs
  BY MptcpAssumption DEF Procs
<1>2. /\ pc' \in [Procs -> {"absent", "idle"} \cup HandlerSteps \cup WorkerSteps]
      /\ pc'[p] = "check"
      /\ \A q \in Procs \ {p} : pc'[q] = pc[q]
  BY <1>1, PcChanges DEF Acquire, ApplyInv, HandlerSteps
<1>3. /\ pc[p] = "wait" /\ lock = {} /\ lock' = {p} /\ touched' = {}
      /\ UNCHANGED <<live, conf, nanbbr, job, faults, apart>>
  BY DEF Acquire
<1>4. TypeOK'
  BY <1>2, <1>3 DEF ApplyInv, TypeOK
<1>5. \A q \in Handlers : pc[q] \notin Handling
  BY <1>3 DEF ApplyInv, LockInv, Inside, Handling
<1>6. LockInv'
  BY <1>1, <1>2, <1>3, <1>5 DEF ApplyInv, LockInv, Inside, HandlerSteps, WorkerSteps, Handling
<1>7. Phase(p)'
  BY <1>2, <1>3 DEF ApplyInv, Phase, Agree, Before, Undoable, Applying, Undone, Changing
<1>8. ASSUME NEW q \in Handlers \ {p} PROVE Phase(q)'
  BY <1>1, <1>2, <1>3, <1>5, <1>8, OutsideStays DEF ApplyInv
<1>9. QED
  BY <1>3, <1>4, <1>6, <1>7, <1>8 DEF ApplyInv

\* Leaving before the first change, or after the end.
LEMMA LeavingKeepsInv ==
  ASSUME ApplyInv, NEW p \in Handlers, Refuse(p) \/ ReadRaises(p) \/ Reply(p)
  PROVE  ApplyInv'
<1>1. /\ pc[p] \in {"check", "files", "live", "done", "undone"} /\ Leave(p)
      /\ UNCHANGED <<live, conf, nanbbr, touched, faults, apart>>
  BY DEF Refuse, ReadRaises, Reply
<1>2. Inside(p) /\ p \in Procs
  BY <1>1 DEF Inside, HandlerSteps, Procs
<1>3. TypeOK'
  BY <1>1, <1>2, LeaveTypes DEF ApplyInv, TypeOK, Jobs, Reqs
<1>4. Agree'
  BY <1>1 DEF ApplyInv, Phase, Agree
<1>5. QED
  BY <1>1, <1>2, <1>3, <1>4, HolderLeaves

\* Steps that only move on.
LEMMA MovingOnKeepsInv ==
  ASSUME ApplyInv, NEW p \in Handlers, Accept(p) \/ AllSet(p) \/ AllUndone(p)
  PROVE  ApplyInv'
<1>1. PICK s \in {"files", "nanbbr", "undoconf"} :
        /\ Goto(p, s) /\ UNCHANGED <<live, conf, nanbbr, lock, job, touched, faults, apart>>
        /\ s = "files" => pc[p] = "check"
        /\ s = "nanbbr" => pc[p] = "set" /\ Todo(p) = {}
        /\ s = "undoconf" => pc[p] = "undo" /\ job[p].applied = {}
  BY DEF Accept, AllSet, AllUndone
<1>2. Inside(p) /\ p \in Procs /\ s \in Handling
  BY <1>1 DEF Inside, HandlerSteps, Handling, Procs
<1>3. /\ pc' \in [Procs -> {"absent", "idle"} \cup HandlerSteps \cup WorkerSteps]
      /\ pc'[p] = s
      /\ \A q \in Procs \ {p} : pc'[q] = pc[q]
  BY <1>1, <1>2, PcChanges DEF ApplyInv, Handling
<1>4. TypeOK'
  BY <1>1, <1>3 DEF ApplyInv, TypeOK
<1>5. touched \subseteq apart
  BY <1>2, Alone DEF ApplyInv, LockInv
<1>6. Phase(p)'
  <2>1. CASE s = "files"
    BY <1>1, <1>3, <2>1 DEF ApplyInv, Phase, Agree, Before, Undoable, Applying, Undone, Changing
  <2>2. CASE s = "nanbbr"
    <3>1. job[p].applied = Uses(job[p].req)
      BY <1>1, <2>2 DEF Todo, ApplyInv, Phase, Applying
    <3>2. QED
      BY <1>1, <1>3, <2>2, <3>1 DEF ApplyInv, Phase, Agree, Before, Undoable, Applying, Undone,
         Changing, SnapshotsAgree, ConfTouched
  <2>3. CASE s = "undoconf"
    BY <1>1, <1>3, <2>3 DEF ApplyInv, Phase, Agree, Before, Undoable, Applying, Undone,
       Changing, SnapshotsAgree, ConfTouched
  <2>4. QED
    BY <2>1, <2>2, <2>3
<1>7. QED
  BY <1>1, <1>2, <1>3, <1>4, <1>5, <1>6, HolderKeepsInv

----------------------------------------------------------------------------
(* The snapshots *)

LEMMA ReadFilesKeepsInv ==
  ASSUME ApplyInv, NEW p \in Handlers, ReadFiles(p)
  PROVE  ApplyInv'
<1> DEFINE j == [job[p] EXCEPT !.wasConf = conf, !.wasNanbbr = nanbbr]
<1>1. /\ pc[p] = "files" /\ Goto(p, "live")
      /\ UNCHANGED <<live, conf, nanbbr, lock, touched, faults, apart>>
  BY DEF ReadFiles
<1>2. Inside(p) /\ p \in Procs /\ "live" \in Handling
  BY <1>1 DEF Inside, HandlerSteps, Handling, Procs
<1>3. /\ pc' \in [Procs -> {"absent", "idle"} \cup HandlerSteps \cup WorkerSteps]
      /\ pc'[p] = "live"
      /\ \A q \in Procs \ {p} : pc'[q] = pc[q]
  BY <1>1, <1>2, PcChanges DEF ApplyInv, Handling
<1>4. job[p] \in Jobs
  BY <1>2, JobFields DEF ApplyInv
<1>5. /\ j \in Jobs /\ j.wasConf = conf /\ j.wasNanbbr = nanbbr
      /\ j.applied = job[p].applied /\ j.wrote = job[p].wrote /\ j.bad = job[p].bad
  BY <1>4 DEF Jobs, ApplyInv, TypeOK
<1>6. job' = [job EXCEPT ![p] = j]
  BY <1>2 DEF ReadFiles, ApplyInv, TypeOK
<1> HIDE DEF j
<1>7. /\ job' \in [Procs -> Jobs] /\ job'[p] = j
      /\ \A q \in Procs \ {p} : job'[q] = job[q]
  BY <1>2, <1>5, <1>6, JobChanges DEF ApplyInv
<1>8. TypeOK'
  BY <1>1, <1>3, <1>7 DEF ApplyInv, TypeOK, Jobs, Reqs
<1>9. touched \subseteq apart
  BY <1>2, Alone DEF ApplyInv, LockInv
<1>10. Phase(p)'
  BY <1>1, <1>3, <1>5, <1>7 DEF ApplyInv, Phase, Agree, Before, Undoable, Applying, Undone, Changing
<1>11. QED
  BY <1>1, <1>2, <1>3, <1>7, <1>8, <1>9, <1>10, HolderKeepsInv

\* What is in line now is in line in the snapshots: the file has not changed since
\* it was read, or all of it is apart.
LEMMA ReadLiveKeepsInv ==
  ASSUME ApplyInv, NEW p \in Handlers, ReadLive(p)
  PROVE  ApplyInv'
<1> DEFINE j == [job[p] EXCEPT !.wasLive = live]
<1>1. /\ pc[p] = "live" /\ Goto(p, "set")
      /\ UNCHANGED <<live, conf, nanbbr, lock, touched, faults, apart>>
  BY DEF ReadLive
<1>2. Inside(p) /\ p \in Procs /\ "set" \in Handling
  BY <1>1 DEF Inside, HandlerSteps, Handling, Procs
<1>3. /\ pc' \in [Procs -> {"absent", "idle"} \cup HandlerSteps \cup WorkerSteps]
      /\ pc'[p] = "set"
      /\ \A q \in Procs \ {p} : pc'[q] = pc[q]
  BY <1>1, <1>2, PcChanges DEF ApplyInv, Handling
<1>4. job[p] \in Jobs
  BY <1>2, JobFields DEF ApplyInv
<1>5. /\ j \in Jobs /\ j.wasLive = live /\ j.wasConf = job[p].wasConf
      /\ j.wasNanbbr = job[p].wasNanbbr /\ j.req = job[p].req
      /\ j.applied = job[p].applied /\ j.wrote = job[p].wrote /\ j.bad = job[p].bad
  BY <1>4 DEF Jobs, ApplyInv, TypeOK
<1>6. job' = [job EXCEPT ![p] = j]
  BY <1>2 DEF ReadLive, ApplyInv, TypeOK
<1> HIDE DEF j
<1>7. /\ job' \in [Procs -> Jobs] /\ job'[p] = j
      /\ \A q \in Procs \ {p} : job'[q] = job[q]
  BY <1>2, <1>5, <1>6, JobChanges DEF ApplyInv
<1>8. TypeOK'
  BY <1>1, <1>3, <1>7 DEF ApplyInv, TypeOK, Jobs, Reqs
<1>9. touched \subseteq apart
  BY <1>2, Alone DEF ApplyInv, LockInv
<1>10. /\ Agree /\ j.applied = {} /\ j.wrote = {}
       /\ conf = j.wasConf \/ ConfTouched
       /\ nanbbr = j.wasNanbbr
  BY <1>1, <1>5 DEF ApplyInv, Phase, Before
<1>11. SnapshotsAgree(p)'
  BY <1>1, <1>5, <1>7, <1>9, <1>10 DEF SnapshotsAgree, Agree, ConfTouched
<1>12. Phase(p)'
  BY <1>1, <1>3, <1>5, <1>7, <1>10, <1>11 DEF Phase, Before, Undoable, Applying, Undone, Changing,
     ConfTouched
<1>13. QED
  BY <1>1, <1>2, <1>3, <1>7, <1>8, <1>9, <1>12, HolderKeepsInv

----------------------------------------------------------------------------
(* The changes *)

LEMMA TodoTypes ==
  ASSUME TypeOK, NEW p \in Procs, Todo(p) # {}
  PROVE  /\ Least(Todo(p)) \in Uses(job[p].req) \ job[p].applied
         /\ Least(Todo(p)) \in Keys
         /\ Wanted(job[p].req, Least(Todo(p))) \in Values
<1>1. job[p].req \in Reqs
  BY JobFields
<1>2. Todo(p) \in SUBSET Keys
  BY <1>1, RequestTypes DEF Todo
<1>3. Least(Todo(p)) \in Todo(p)
  BY <1>2, LeastIsIn
<1>4. QED
  BY <1>1, <1>2, <1>3, RequestTypes DEF Todo

LEMMA SetKeepsInv ==
  ASSUME ApplyInv, NEW p \in Handlers, Set(p)
  PROVE  ApplyInv'
<1> DEFINE k == Least(Todo(p))
           v == Wanted(job[p].req, k)
           j == [job[p] EXCEPT !.applied = @ \cup {k}]
<1>1. /\ pc[p] = "set" /\ Todo(p) # {}
      /\ live' = [live EXCEPT ![k] = v]
      /\ UNCHANGED <<conf, nanbbr, lock, pc, touched, faults, apart>>
  BY DEF Set
<1>2. Inside(p) /\ p \in Procs /\ "set" \in Handling
  BY <1>1 DEF Inside, HandlerSteps, Handling, Procs
<1>3. k \in Uses(job[p].req) \ job[p].applied /\ k \in Keys /\ v \in Values
  BY <1>1, <1>2, TodoTypes DEF ApplyInv
<1>4. job' = [job EXCEPT ![p] = j]
  BY <1>2 DEF Set, ApplyInv, TypeOK
<1> HIDE DEF k, v
<1>5. job[p] \in Jobs /\ job[p].applied \in SUBSET Keys
  BY <1>2, JobFields DEF ApplyInv
<1>6. /\ j \in Jobs /\ j.wasLive = job[p].wasLive /\ j.wasConf = job[p].wasConf
      /\ j.wasNanbbr = job[p].wasNanbbr /\ j.req = job[p].req
      /\ j.applied = job[p].applied \cup {k} /\ j.wrote = job[p].wrote /\ j.bad = job[p].bad
  BY <1>3, <1>5 DEF Jobs
<1> HIDE DEF j
<1>7. /\ job' \in [Procs -> Jobs] /\ job'[p] = j
      /\ \A q \in Procs \ {p} : job'[q] = job[q]
  BY <1>2, <1>4, <1>6, JobChanges DEF ApplyInv
<1>8. live' \in [Keys -> Values] /\ live'[k] = v /\ \A l \in Keys \ {k} : live'[l] = live[l]
  BY <1>1, <1>3 DEF ApplyInv, TypeOK
<1>9. TypeOK'
  BY <1>1, <1>7, <1>8 DEF ApplyInv, TypeOK, Jobs, Reqs
<1>10. touched \subseteq apart
  BY <1>2, Alone DEF ApplyInv, LockInv
<1>11. SnapshotsAgree(p)'
  BY <1>1, <1>6, <1>7 DEF ApplyInv, Phase, Undoable, Changing, SnapshotsAgree
<1>12. Undoable(p)'
  BY <1>1, <1>6, <1>7, <1>8, <1>11 DEF ApplyInv, Phase, Undoable, Changing, ConfTouched
<1>13. \A l \in j.applied \ touched : live'[l] = Wanted(j.req, l)
  <2>1. \A l \in job[p].applied \ touched : live[l] = Wanted(job[p].req, l)
    BY <1>1 DEF ApplyInv, Phase, Applying
  <2>2. QED
    BY <1>3, <1>5, <1>6, <1>8, <2>1 DEF v
<1>14. Applying(p)'
  BY <1>1, <1>3, <1>6, <1>7, <1>13 DEF ApplyInv, Phase, Applying
<1>15. Phase(p)'
  BY <1>1, <1>12, <1>14 DEF Phase, Before, Undone
<1>16. QED
  BY <1>1, <1>2, <1>7, <1>9, <1>10, <1>15, HolderKeepsInv

\* The setting that failed counts as applied, whatever it is now.
LEMMA SetFailsKeepsInv ==
  ASSUME ApplyInv, NEW p \in Handlers, SetFails(p)
  PROVE  ApplyInv'
<1> DEFINE k == Least(Todo(p))
           j == [job[p] EXCEPT !.applied = @ \cup {k}]
<1>1. /\ pc[p] = "set" /\ Todo(p) # {} /\ Goto(p, "undo")
      /\ UNCHANGED <<conf, nanbbr, lock, touched, faults, apart>>
  BY DEF SetFails
<1>2. Inside(p) /\ p \in Procs /\ "undo" \in Handling
  BY <1>1 DEF Inside, HandlerSteps, Handling, Procs
<1>3. /\ pc' \in [Procs -> {"absent", "idle"} \cup HandlerSteps \cup WorkerSteps]
      /\ pc'[p] = "undo"
      /\ \A q \in Procs \ {p} : pc'[q] = pc[q]
  BY <1>1, <1>2, PcChanges DEF ApplyInv, Handling
<1>4. k \in Keys
  BY <1>1, <1>2, TodoTypes DEF ApplyInv
<1>5. PICK v \in Values : live' = [live EXCEPT ![k] = v]
  BY DEF SetFails
<1>6. job' = [job EXCEPT ![p] = j]
  BY <1>2 DEF SetFails, ApplyInv, TypeOK
<1> HIDE DEF k
<1>7. job[p] \in Jobs /\ job[p].applied \in SUBSET Keys
  BY <1>2, JobFields DEF ApplyInv
<1>8. /\ j \in Jobs /\ j.wasLive = job[p].wasLive /\ j.wasConf = job[p].wasConf
      /\ j.wasNanbbr = job[p].wasNanbbr
      /\ j.applied = job[p].applied \cup {k} /\ j.wrote = job[p].wrote /\ j.bad = job[p].bad
  BY <1>4, <1>7 DEF Jobs
<1> HIDE DEF j
<1>9. /\ job' \in [Procs -> Jobs] /\ job'[p] = j
      /\ \A q \in Procs \ {p} : job'[q] = job[q]
  BY <1>2, <1>6, <1>8, JobChanges DEF ApplyInv
<1>10. live' \in [Keys -> Values] /\ \A l \in Keys \ {k} : live'[l] = live[l]
  BY <1>4, <1>5 DEF ApplyInv, TypeOK
<1>11. TypeOK'
  BY <1>1, <1>3, <1>9, <1>10 DEF ApplyInv, TypeOK, Jobs, Reqs
<1>12. touched \subseteq apart
  BY <1>2, Alone DEF ApplyInv, LockInv
<1>13. SnapshotsAgree(p)'
  BY <1>1, <1>8, <1>9 DEF ApplyInv, Phase, Undoable, Changing, SnapshotsAgree
<1>14. Undoable(p)'
  BY <1>1, <1>3, <1>8, <1>9, <1>10, <1>13 DEF ApplyInv, Phase, Undoable, Changing, ConfTouched
<1>15. Phase(p)'
  BY <1>3, <1>14 DEF Phase, Before, Applying, Undone
<1>16. QED
  BY <1>1, <1>2, <1>3, <1>9, <1>11, <1>12, <1>15, HolderKeepsInv

LEMMA SaveNanbbrKeepsInv ==
  ASSUME ApplyInv, NEW p \in Handlers, SaveNanbbr(p)
  PROVE  ApplyInv'
<1>1. /\ pc[p] = "nanbbr" /\ Goto(p, "conf")
      /\ UNCHANGED <<live, conf, lock, touched, faults, apart>>
  BY DEF SaveNanbbr
<1>2. Inside(p) /\ p \in Procs /\ "conf" \in Handling
  BY <1>1 DEF Inside, HandlerSteps, Handling, Procs
<1>3. /\ pc' \in [Procs -> {"absent", "idle"} \cup HandlerSteps \cup WorkerSteps]
      /\ pc'[p] = "conf"
      /\ \A q \in Procs \ {p} : pc'[q] = pc[q]
  BY <1>1, <1>2, PcChanges DEF ApplyInv, Handling
<1>4. /\ job[p] \in Jobs /\ job[p].req.aggr \in Values \cup {None}
  BY <1>2, JobFields, RequestTypes DEF ApplyInv
<1>5. touched \subseteq apart
  BY <1>2, Alone DEF ApplyInv, LockInv
<1>6. nanbbr = job[p].wasNanbbr /\ job[p].wrote = {}
  BY <1>1 DEF ApplyInv, Phase, Undoable, Applying, Changing
<1>7. CASE job[p].req.aggr \in {None, job[p].wasNanbbr}
  <2>1. UNCHANGED <<nanbbr, job>>
    BY <1>7 DEF SaveNanbbr
  <2>2. TypeOK'
    BY <1>1, <1>3, <2>1 DEF ApplyInv, TypeOK
  <2>3. Phase(p)'
    BY <1>1, <1>3, <1>6, <1>7, <2>1 DEF ApplyInv, Phase, Before, Undoable, Applying, Undone,
       Changing, SnapshotsAgree, ConfTouched
  <2>4. QED
    BY <1>1, <1>2, <1>3, <1>5, <2>1, <2>2, <2>3, HolderKeepsInv
<1>8. CASE job[p].req.aggr \notin {None, job[p].wasNanbbr}
  <2> DEFINE j == [job[p] EXCEPT !.wrote = @ \cup {"nanbbr"}]
  <2>1. nanbbr' = job[p].req.aggr /\ job' = [job EXCEPT ![p] = j]
    BY <1>2, <1>8 DEF SaveNanbbr, ApplyInv, TypeOK
  <2>2. /\ j \in Jobs /\ j.wasLive = job[p].wasLive /\ j.wasConf = job[p].wasConf
        /\ j.wasNanbbr = job[p].wasNanbbr /\ j.req = job[p].req
        /\ j.applied = job[p].applied /\ j.wrote = {"nanbbr"} /\ j.bad = job[p].bad
    BY <1>4, <1>6 DEF Jobs, Files
  <2> HIDE DEF j
  <2>3. /\ job' \in [Procs -> Jobs] /\ job'[p] = j
        /\ \A q \in Procs \ {p} : job'[q] = job[q]
    BY <1>2, <2>1, <2>2, JobChanges DEF ApplyInv
  <2>4. TypeOK'
    BY <1>1, <1>3, <1>4, <2>1, <2>3 DEF ApplyInv, TypeOK, Jobs, Reqs
  <2>5. SnapshotsAgree(p)'
    BY <1>1, <2>2, <2>3 DEF ApplyInv, Phase, Undoable, Changing, SnapshotsAgree
  <2>6. Phase(p)'
    BY <1>1, <1>3, <1>8, <2>1, <2>2, <2>3, <2>5 DEF ApplyInv, Phase, Before, Undoable, Applying,
       Undone, Changing, ConfTouched
  <2>7. QED
    BY <1>1, <1>2, <1>3, <1>5, <2>3, <2>4, <2>6, HolderKeepsInv
<1>9. QED
  BY <1>7, <1>8

\* With the last file replaced, everything the request uses is joined again.
LEMMA SaveConfKeepsInv ==
  ASSUME ApplyInv, NEW p \in Handlers, SaveConf(p)
  PROVE  ApplyInv'
<1> DEFINE j == IF job[p].req.sysctl = job[p].wasConf THEN job[p]
                ELSE [job[p] EXCEPT !.wrote = @ \cup {"conf"}]
<1>1. /\ pc[p] = "conf" /\ Goto(p, "done") /\ apart' = Joined(p)
      /\ UNCHANGED <<live, nanbbr, lock, touched, faults>>
  BY DEF SaveConf
<1>2. Inside(p) /\ p \in Procs /\ "done" \in Handling
  BY <1>1 DEF Inside, HandlerSteps, Handling, Procs
<1>3. /\ pc' \in [Procs -> {"absent", "idle"} \cup HandlerSteps \cup WorkerSteps]
      /\ pc'[p] = "done"
      /\ \A q \in Procs \ {p} : pc'[q] = pc[q]
  BY <1>1, <1>2, PcChanges DEF ApplyInv, Handling
<1>4. /\ job[p] \in Jobs /\ job[p].req \in Reqs /\ job[p].wrote \in SUBSET Files
  BY <1>2, JobFields DEF ApplyInv
<1>5. /\ j \in Jobs /\ j.wasLive = job[p].wasLive /\ j.req = job[p].req
      /\ j.applied = job[p].applied /\ j.bad = job[p].bad
  BY <1>4 DEF Jobs, Files
<1>6. job' = [job EXCEPT ![p] = j]
  BY <1>2 DEF SaveConf, ApplyInv, TypeOK
<1> HIDE DEF j
<1>7. /\ job' \in [Procs -> Jobs] /\ job'[p] = j
      /\ \A q \in Procs \ {p} : job'[q] = job[q]
  BY <1>2, <1>5, <1>6, JobChanges DEF ApplyInv
<1>8. conf' = job[p].req.sysctl \/ (conf' = conf /\ conf = job[p].req.sysctl) \/ ConfTouched
  BY <1>1 DEF SaveConf, ApplyInv, Phase, Applying, Undoable, Changing
<1>9. conf' \in Saved
  BY <1>4, RequestTypes DEF SaveConf, ApplyInv, TypeOK
<1>10. touched \subseteq apart' /\ apart' \in SUBSET Keys
  BY <1>1 DEF Joined, ApplyInv, TypeOK
<1>11. TypeOK'
  BY <1>1, <1>3, <1>7, <1>9, <1>10 DEF ApplyInv, TypeOK, Jobs, Reqs
<1>12. /\ job[p].applied = Uses(job[p].req)
       /\ \A k \in Uses(job[p].req) \ touched : live[k] = Wanted(job[p].req, k)
       /\ job[p].req.aggr \in {None, nanbbr}
       /\ job[p].req.aggr = None => nanbbr = job[p].wasNanbbr
       /\ \A k \in Keys \ (touched \cup Uses(job[p].req)) :
             live[k] = job[p].wasLive[k] \/ (job[p].bad /\ k \in apart)
       /\ SnapshotsAgree(p)
  BY <1>1 DEF ApplyInv, Phase, Applying, Undoable, Changing
<1>13. ASSUME NEW k \in Sysctls \ apart', conf'[k] # None PROVE live'[k] = Name(conf'[k])
  <2>0. k \notin touched /\ k \in Sysctls /\ k \notin Params
    BY <1>1, <1>13, Settings DEF Joined
  <2>3. conf' = job[p].req.sysctl
    BY <1>8, <2>0 DEF ConfTouched
  <2>1. k \in Uses(job[p].req) \ touched
    BY <1>4, <1>13, <2>0, <2>3, RequestTypes
  <2>2. live[k] = job[p].req.sysctl[k]
    BY <1>12, <2>0, <2>1 DEF Wanted
  <2>4. job[p].req.sysctl[k] \in Values
    BY <1>4, <1>13, <2>0, <2>3, RequestTypes
  <2>5. QED
    BY <1>1, <2>2, <2>3, <2>4, Names
<1>14. ASSUME NEW k \in Params \ apart' PROVE nanbbr' \in {None, live'[k]}
  <2>1. k \in Keys /\ k \notin Sysctls /\ k \notin touched /\ k \in Params
    BY <1>1, <1>14, Settings DEF Joined
  <2>2. CASE job[p].req.aggr = None
    <3>1. k \notin apart /\ k \notin Uses(job[p].req)
      BY <1>1, <1>4, <1>14, <2>1, <2>2, RequestTypes DEF Joined
    <3>2. live[k] = job[p].wasLive[k] /\ nanbbr = job[p].wasNanbbr
      BY <1>12, <2>1, <2>2, <3>1
    <3>3. QED
      BY <1>1, <1>12, <2>1, <3>1, <3>2 DEF SnapshotsAgree
  <2>3. CASE job[p].req.aggr # None
    <3>1. k \in Uses(job[p].req)
      BY <1>4, <2>1, <2>3, RequestTypes
    <3>2. QED
      BY <1>1, <1>12, <2>1, <2>3, <3>1 DEF Wanted
  <2>4. QED
    BY <2>2, <2>3
<1>15. Agree'
  BY <1>13, <1>14 DEF Agree
<1>16. Phase(p)'
  BY <1>1, <1>3, <1>5, <1>7, <1>8, <1>12, <1>15 DEF Phase, Before, Undoable, Applying, Undone,
     Changing, ConfTouched
<1>17. QED
  BY <1>1, <1>2, <1>3, <1>7, <1>10, <1>11, <1>16, HolderKeepsInv

LEMMA SaveRaisesKeepsInv ==
  ASSUME ApplyInv, NEW p \in Handlers, SaveRaises(p)
  PROVE  ApplyInv'
<1>1. /\ pc[p] \in {"nanbbr", "conf"} /\ Goto(p, "undo")
      /\ UNCHANGED <<live, lock, touched, faults, apart>>
  BY DEF SaveRaises
<1>2. Inside(p) /\ p \in Procs /\ "undo" \in Handling
  BY <1>1 DEF Inside, HandlerSteps, Handling, Procs
<1>3. /\ pc' \in [Procs -> {"absent", "idle"} \cup HandlerSteps \cup WorkerSteps]
      /\ pc'[p] = "undo"
      /\ \A q \in Procs \ {p} : pc'[q] = pc[q]
  BY <1>1, <1>2, PcChanges DEF ApplyInv, Handling
<1>4. /\ job[p] \in Jobs /\ job[p].req \in Reqs /\ job[p].wrote \in SUBSET Files
      /\ job[p].req.aggr \in Values \cup {None} /\ job[p].req.sysctl \in Saved
  BY <1>2, JobFields, RequestTypes DEF ApplyInv
<1>5. touched \subseteq apart
  BY <1>2, Alone DEF ApplyInv, LockInv
<1>6. PICK f \in Files :
        /\ job' = [job EXCEPT ![p].wrote = @ \cup {f}]
        /\ f = "nanbbr" => nanbbr' \in {nanbbr, job[p].req.aggr} /\ UNCHANGED conf
        /\ f = "conf" => conf' \in {conf, job[p].req.sysctl} /\ UNCHANGED nanbbr
  BY DEF SaveRaises, Files
<1> DEFINE j == [job[p] EXCEPT !.wrote = @ \cup {f}]
<1>7. job' = [job EXCEPT ![p] = j]
  BY <1>2, <1>6 DEF ApplyInv, TypeOK
<1>8. /\ j \in Jobs /\ j.wasLive = job[p].wasLive /\ j.wasConf = job[p].wasConf
      /\ j.wasNanbbr = job[p].wasNanbbr
      /\ j.applied = job[p].applied /\ j.wrote = job[p].wrote \cup {f} /\ j.bad = job[p].bad
  BY <1>4 DEF Jobs
<1> HIDE DEF j
<1>9. /\ job' \in [Procs -> Jobs] /\ job'[p] = j
      /\ \A q \in Procs \ {p} : job'[q] = job[q]
  BY <1>2, <1>7, <1>8, JobChanges DEF ApplyInv
<1>10. nanbbr' \in Values \cup {None} /\ conf' \in Saved
  BY <1>4, <1>6 DEF ApplyInv, TypeOK, Files
<1>11. TypeOK'
  BY <1>1, <1>3, <1>9, <1>10 DEF ApplyInv, TypeOK, Jobs, Reqs
<1>12. SnapshotsAgree(p)'
  BY <1>1, <1>8, <1>9 DEF ApplyInv, Phase, Undoable, Changing, SnapshotsAgree
<1>13. Undoable(p)'
  BY <1>1, <1>3, <1>6, <1>8, <1>9, <1>12 DEF ApplyInv, Phase, Undoable, Changing, ConfTouched, Files
<1>14. Phase(p)'
  BY <1>3, <1>13 DEF Phase, Before, Applying, Undone
<1>15. QED
  BY <1>1, <1>2, <1>3, <1>5, <1>9, <1>11, <1>14, HolderKeepsInv

----------------------------------------------------------------------------
(* The rollback *)

LEMMA UndoKeepsInv ==
  ASSUME ApplyInv, NEW p \in Handlers, Undo(p) \/ UndoFails(p)
  PROVE  ApplyInv'
<1> DEFINE k == NextUndo(job[p].applied)
<1>1. /\ pc[p] = "undo" /\ job[p].applied # {}
      /\ UNCHANGED <<conf, nanbbr, lock, pc, touched>>
  BY DEF Undo, UndoFails
<1>2. Inside(p) /\ p \in Procs /\ "undo" \in Handling
  BY <1>1 DEF Inside, HandlerSteps, Handling, Procs
<1>3. /\ job[p] \in Jobs /\ job[p].applied \in SUBSET Keys /\ job[p].wasLive \in [Keys -> Values]
  BY <1>2, JobFields DEF ApplyInv
<1>4. k \in job[p].applied /\ k \in Keys
  BY <1>1, <1>3, NextUndoIsIn
<1>5. touched \subseteq apart
  BY <1>2, Alone DEF ApplyInv, LockInv
<1>6. PICK v \in Values, b \in BOOLEAN :
        /\ live' = [live EXCEPT ![k] = v]
        /\ \/ b = job[p].bad /\ v = job[p].wasLive[k] /\ UNCHANGED apart
           \/ b = TRUE /\ apart' = apart \cup {k}
        /\ job' = [job EXCEPT ![p] = [job[p] EXCEPT !.applied = @ \ {k}, !.bad = b]]
  <2>1. CASE Undo(p)
    <3>1. /\ live' = [live EXCEPT ![k] = job[p].wasLive[k]] /\ UNCHANGED apart
          /\ job' = [job EXCEPT ![p] = [job[p] EXCEPT !.applied = @ \ {k}]]
      BY <1>2, <2>1 DEF Undo, ApplyInv, TypeOK
    <3>2. [job[p] EXCEPT !.applied = @ \ {k}] = [job[p] EXCEPT !.applied = @ \ {k}, !.bad = job[p].bad]
      BY <1>3 DEF Jobs
    <3>3. job[p].wasLive[k] \in Values /\ job[p].bad \in BOOLEAN
      BY <1>2, <1>3, <1>4, JobFields DEF ApplyInv
    <3> HIDE DEF k
    <3>4. QED
      BY <3>1, <3>2, <3>3
  <2>2. CASE UndoFails(p)
    <3>1. /\ \E v \in Values : live' = [live EXCEPT ![k] = v]
          /\ apart' = apart \cup {k}
          /\ job' = [job EXCEPT ![p] = [job[p] EXCEPT !.applied = @ \ {k}, !.bad = TRUE]]
      BY <1>2, <2>2 DEF UndoFails, ApplyInv, TypeOK
    <3> HIDE DEF k
    <3>2. QED
      BY <3>1
  <2>3. QED
    BY <2>1, <2>2
<1> HIDE DEF k
<1> DEFINE j == [job[p] EXCEPT !.applied = @ \ {k}, !.bad = b]
<1>7. /\ j \in Jobs /\ j.wasLive = job[p].wasLive /\ j.wasConf = job[p].wasConf
      /\ j.wasNanbbr = job[p].wasNanbbr
      /\ j.applied = job[p].applied \ {k} /\ j.wrote = job[p].wrote /\ j.bad = b
  BY <1>3 DEF Jobs
<1> HIDE DEF j
<1>8. /\ job' \in [Procs -> Jobs] /\ job'[p] = j
      /\ \A q \in Procs \ {p} : job'[q] = job[q]
  BY <1>2, <1>6, <1>7, JobChanges DEF ApplyInv, j
<1>9. live' \in [Keys -> Values] /\ live'[k] = v /\ \A l \in Keys \ {k} : live'[l] = live[l]
  BY <1>4, <1>6 DEF ApplyInv, TypeOK
<1>10. faults' \in 0..MaxFaults
  BY MptcpAssumption DEF Undo, UndoFails, Fault, ApplyInv, TypeOK
<1>11. apart' \in SUBSET Keys /\ apart \subseteq apart'
  BY <1>4, <1>6 DEF ApplyInv, TypeOK
<1>12. TypeOK'
  BY <1>1, <1>8, <1>9, <1>10, <1>11 DEF ApplyInv, TypeOK, Jobs, Reqs
<1>13. SnapshotsAgree(p)'
  BY <1>1, <1>7, <1>8, <1>11 DEF ApplyInv, Phase, Undoable, Changing, SnapshotsAgree
<1>14. job[p].bad => b
  BY <1>6
<1>15. ASSUME NEW l \in Keys \ (touched \cup j.applied)
       PROVE  live'[l] = j.wasLive[l] \/ (j.bad /\ l \in apart')
  <2>1. CASE l = k
    BY <1>6, <1>7, <1>9, <2>1
  <2>2. CASE l # k
    <3>1. live[l] = job[p].wasLive[l] \/ (job[p].bad /\ l \in apart)
      BY <1>1, <1>7, <1>15, <2>2 DEF ApplyInv, Phase, Undoable, Changing
    <3>2. QED
      BY <1>7, <1>9, <1>11, <1>14, <2>2, <3>1
  <2>3. QED
    BY <2>1, <2>2
<1>16. Undoable(p)'
  BY <1>1, <1>7, <1>8, <1>13, <1>15 DEF ApplyInv, Phase, Undoable, Changing, ConfTouched
<1>17. Phase(p)'
  BY <1>1, <1>16 DEF Phase, Before, Applying, Undone
<1>18. QED
  BY <1>1, <1>2, <1>5, <1>8, <1>11, <1>12, <1>17, HolderKeepsInv

LEMMA UndoConfKeepsInv ==
  ASSUME ApplyInv, NEW p \in Handlers, UndoConf(p)
  PROVE  ApplyInv'
<1>1. /\ pc[p] = "undoconf" /\ Goto(p, "undonanbbr")
      /\ UNCHANGED <<live, nanbbr, lock, touched>>
  BY DEF UndoConf
<1>2. Inside(p) /\ p \in Procs /\ "undonanbbr" \in Handling
  BY <1>1 DEF Inside, HandlerSteps, Handling, Procs
<1>3. /\ pc' \in [Procs -> {"absent", "idle"} \cup HandlerSteps \cup WorkerSteps]
      /\ pc'[p] = "undonanbbr"
      /\ \A q \in Procs \ {p} : pc'[q] = pc[q]
  BY <1>1, <1>2, PcChanges DEF ApplyInv, Handling
<1>4. job[p] \in Jobs /\ job[p].wasConf \in Saved
  BY <1>2, JobFields DEF ApplyInv
<1>5. touched \subseteq apart
  BY <1>2, Alone DEF ApplyInv, LockInv
<1>6. /\ SnapshotsAgree(p) /\ job[p].applied = {}
      /\ \A k \in Keys \ touched : live[k] = job[p].wasLive[k] \/ (job[p].bad /\ k \in apart)
      /\ conf = job[p].wasConf \/ ConfTouched \/ "conf" \in job[p].wrote
      /\ nanbbr = job[p].wasNanbbr \/ "nanbbr" \in job[p].wrote
  BY <1>1 DEF ApplyInv, Phase, Undoable, Undone, Changing
<1>7. CASE /\ conf' = IF "conf" \in job[p].wrote THEN job[p].wasConf ELSE conf
           /\ UNCHANGED <<job, faults, apart>>
  <2>1. TypeOK'
    BY <1>1, <1>3, <1>4, <1>7 DEF ApplyInv, TypeOK
  <2>2. Phase(p)'
    BY <1>1, <1>3, <1>6, <1>7 DEF Phase, Before, Undoable, Applying, Undone, Changing,
       SnapshotsAgree, ConfTouched
  <2>3. QED
    BY <1>1, <1>2, <1>3, <1>5, <1>7, <2>1, <2>2, HolderKeepsInv
<1>8. CASE /\ "conf" \in job[p].wrote /\ Fault /\ UNCHANGED conf
           /\ job' = [job EXCEPT ![p].bad = TRUE]
           /\ apart' = apart \cup Sysctls
  <2> DEFINE j == [job[p] EXCEPT !.bad = TRUE]
  <2>1. /\ j \in Jobs /\ j.wasLive = job[p].wasLive /\ j.wasConf = job[p].wasConf
        /\ j.wasNanbbr = job[p].wasNanbbr
        /\ j.applied = job[p].applied /\ j.wrote = job[p].wrote /\ j.bad = TRUE
    BY <1>4 DEF Jobs
  <2>2. job' = [job EXCEPT ![p] = j]
    BY <1>2, <1>8 DEF ApplyInv, TypeOK
  <2> HIDE DEF j
  <2>3. /\ job' \in [Procs -> Jobs] /\ job'[p] = j
        /\ \A q \in Procs \ {p} : job'[q] = job[q]
    BY <1>2, <2>1, <2>2, JobChanges DEF ApplyInv
  <2>4. faults' \in 0..MaxFaults /\ apart' \in SUBSET Keys
    BY <1>8, Settings, MptcpAssumption DEF Fault, ApplyInv, TypeOK
  <2>5. TypeOK'
    BY <1>1, <1>3, <1>8, <2>3, <2>4 DEF ApplyInv, TypeOK, Jobs, Reqs
  <2>6. Phase(p)'
    BY <1>1, <1>3, <1>6, <1>8, <2>1, <2>3 DEF Phase, Before, Undoable, Applying, Undone, Changing,
       SnapshotsAgree, ConfTouched
  <2>7. QED
    BY <1>1, <1>2, <1>3, <1>5, <1>8, <2>3, <2>5, <2>6, HolderKeepsInv
<1>9. QED
  BY <1>7, <1>8 DEF UndoConf

\* The snapshots are back, but for what is reported or apart: saved and live agree.
LEMMA UndoNanbbrKeepsInv ==
  ASSUME ApplyInv, NEW p \in Handlers, UndoNanbbr(p)
  PROVE  ApplyInv'
<1>1. /\ pc[p] = "undonanbbr" /\ Goto(p, "undone")
      /\ UNCHANGED <<live, conf, lock, touched>>
  BY DEF UndoNanbbr
<1>2. Inside(p) /\ p \in Procs /\ "undone" \in Handling
  BY <1>1 DEF Inside, HandlerSteps, Handling, Procs
<1>3. /\ pc' \in [Procs -> {"absent", "idle"} \cup HandlerSteps \cup WorkerSteps]
      /\ pc'[p] = "undone"
      /\ \A q \in Procs \ {p} : pc'[q] = pc[q]
  BY <1>1, <1>2, PcChanges DEF ApplyInv, Handling
<1>4. job[p] \in Jobs /\ job[p].wasNanbbr \in Values \cup {None}
  BY <1>2, JobFields DEF ApplyInv
<1>5. touched \subseteq apart
  BY <1>2, Alone DEF ApplyInv, LockInv
<1>6. /\ SnapshotsAgree(p) /\ job[p].applied = {}
      /\ \A k \in Keys \ touched : live[k] = job[p].wasLive[k] \/ (job[p].bad /\ k \in apart)
      /\ conf = job[p].wasConf \/ ConfTouched \/ (job[p].bad /\ Sysctls \subseteq apart)
      /\ nanbbr = job[p].wasNanbbr \/ "nanbbr" \in job[p].wrote
  BY <1>1 DEF ApplyInv, Phase, Undoable, Undone, Changing
<1>7. PICK b \in BOOLEAN :
        /\ job' = [job EXCEPT ![p] = [job[p] EXCEPT !.bad = b]]
        /\ job[p].bad => b
        /\ apart \subseteq apart' /\ apart' \in SUBSET Keys /\ faults' \in 0..MaxFaults
        /\ nanbbr' = job[p].wasNanbbr \/ (b /\ Params \subseteq apart')
        /\ nanbbr' \in Values \cup {None}
  <2>1. CASE /\ nanbbr' = IF "nanbbr" \in job[p].wrote THEN job[p].wasNanbbr ELSE nanbbr
             /\ apart' = apart \cup touched
             /\ UNCHANGED <<job, faults>>
    <3>1. [job[p] EXCEPT !.bad = job[p].bad] = job[p] /\ job[p].bad \in BOOLEAN
      BY <1>4 DEF Jobs
    <3>2. job' = [job EXCEPT ![p] = [job[p] EXCEPT !.bad = job[p].bad]]
      BY <1>2, <2>1, <3>1 DEF ApplyInv, TypeOK
    <3>3. nanbbr' = job[p].wasNanbbr /\ nanbbr' \in Values \cup {None}
      BY <1>4, <1>6, <2>1
    <3>4. apart \subseteq apart' /\ apart' \in SUBSET Keys /\ faults' \in 0..MaxFaults
      BY <2>1 DEF ApplyInv, TypeOK
    <3>5. QED
      BY <3>1, <3>2, <3>3, <3>4
  <2>2. CASE /\ "nanbbr" \in job[p].wrote
             /\ Fault /\ UNCHANGED nanbbr
             /\ job' = [job EXCEPT ![p].bad = TRUE]
             /\ apart' = apart \cup touched \cup Params
    <3>1. job' = [job EXCEPT ![p] = [job[p] EXCEPT !.bad = TRUE]]
      BY <1>2, <2>2 DEF ApplyInv, TypeOK
    <3>2. apart \subseteq apart' /\ apart' \in SUBSET Keys /\ faults' \in 0..MaxFaults
      BY <2>2, Settings, MptcpAssumption DEF Fault, ApplyInv, TypeOK
    <3>3. nanbbr' \in Values \cup {None} /\ Params \subseteq apart'
      BY <2>2 DEF ApplyInv, TypeOK
    <3>4. QED
      BY <3>1, <3>2, <3>3
  <2>3. QED
    BY <2>1, <2>2 DEF UndoNanbbr
<1> DEFINE j == [job[p] EXCEPT !.bad = b]
<1>8. /\ j \in Jobs /\ j.wasLive = job[p].wasLive /\ j.wasConf = job[p].wasConf
      /\ j.wasNanbbr = job[p].wasNanbbr
      /\ j.applied = job[p].applied /\ j.wrote = job[p].wrote /\ j.bad = b
  BY <1>4 DEF Jobs
<1> HIDE DEF j
<1>9. /\ job' \in [Procs -> Jobs] /\ job'[p] = j
      /\ \A q \in Procs \ {p} : job'[q] = job[q]
  BY <1>2, <1>7, <1>8, JobChanges DEF ApplyInv, j
<1>10. TypeOK'
  BY <1>1, <1>3, <1>7, <1>9 DEF ApplyInv, TypeOK, Jobs, Reqs
<1>11. ASSUME NEW k \in Sysctls \ apart', conf'[k] # None PROVE live'[k] = Name(conf'[k])
  <2>1. k \in Keys \ touched /\ k \notin apart /\ k \in Sysctls
    BY <1>5, <1>7, <1>11, Settings
  <2>2. live[k] = job[p].wasLive[k] /\ conf = job[p].wasConf
    BY <1>6, <2>1 DEF ConfTouched
  <2>3. QED
    BY <1>1, <1>6, <1>7, <1>11, <2>1, <2>2 DEF SnapshotsAgree
<1>12. ASSUME NEW k \in Params \ apart' PROVE nanbbr' \in {None, live'[k]}
  <2>1. k \in Keys \ touched /\ k \notin apart /\ k \in Params
    BY <1>5, <1>7, <1>12, Settings
  <2>2. live[k] = job[p].wasLive[k] /\ nanbbr' = job[p].wasNanbbr
    BY <1>6, <1>7, <1>12, <2>1
  <2>3. QED
    BY <1>1, <1>6, <2>1, <2>2 DEF SnapshotsAgree
<1>13. Agree'
  BY <1>11, <1>12 DEF Agree
<1>14. Phase(p)'
  BY <1>1, <1>3, <1>6, <1>7, <1>8, <1>9, <1>13 DEF Phase, Before, Undoable, Applying, Undone, Changing,
     ConfTouched
<1>15. touched \subseteq apart'
  BY <1>5, <1>7
<1>16. QED
  BY <1>1, <1>2, <1>3, <1>9, <1>10, <1>14, <1>15, HolderKeepsInv

----------------------------------------------------------------------------
(* Deaths *)

\* What dies outside holds no lock and has changed nothing.
LEMMA KilledOutsideKeepsInv ==
  ASSUME ApplyInv, NEW p \in Procs, Killed(p), ~Inside(p)
  PROVE  ApplyInv'
<1>1. /\ Leave(p) /\ faults' \in 0..MaxFaults
      /\ UNCHANGED <<live, conf, nanbbr, touched, apart>>
  BY MptcpAssumption DEF Killed, Fault, ApplyInv, TypeOK
<1>2. /\ pc' \in [Procs -> {"absent", "idle"} \cup HandlerSteps \cup WorkerSteps]
      /\ pc'[p] = "idle" /\ \A q \in Procs \ {p} : pc'[q] = pc[q]
      /\ job' \in [Procs -> Jobs] /\ \A q \in Procs \ {p} : job'[q] = job[q]
      /\ lock' \in {{}} \cup {{q} : q \in Handlers}
  BY <1>1, LeaveTypes, NoJobIsJob, JobChanges DEF ApplyInv, Leave
<1>3. TypeOK'
  BY <1>1, <1>2 DEF ApplyInv, TypeOK, Jobs, Reqs
<1>4. p \notin lock
  BY DEF ApplyInv, LockInv, TypeOK
<1>5. lock' = lock
  BY <1>1, <1>4 DEF Leave
<1>6. Handlers \subseteq Procs /\ Workers \subseteq Procs /\ Handlers \cap Workers = {}
  BY MptcpAssumption DEF Procs
<1>7. LockInv'
  BY <1>1, <1>2, <1>5, <1>6 DEF ApplyInv, LockInv, Inside, HandlerSteps, WorkerSteps
<1>8. ASSUME NEW q \in Handlers PROVE Phase(q)'
  <2>1. CASE q = p
    BY <1>2, <2>1 DEF Phase, Before, Undoable, Applying, Undone, Changing
  <2>2. CASE q # p
    BY <1>1, <1>2, <1>6, <2>2 DEF ApplyInv, Phase, Agree, Before, Undoable, Applying, Undone,
       SnapshotsAgree, ConfTouched
  <2>3. QED
    BY <2>1, <2>2
<1>9. QED
  BY <1>1, <1>3, <1>5, <1>7, <1>8 DEF ApplyInv, Agree

\* What the holder leaves behind is accounted for.
LEMMA KilledInsideKeepsInv ==
  ASSUME ApplyInv, NEW p \in Handlers, Killed(p), Inside(p)
  PROVE  ApplyInv'
<1>1. /\ Leave(p) /\ faults' \in 0..MaxFaults
      /\ UNCHANGED <<live, conf, nanbbr, touched>>
  BY MptcpAssumption DEF Killed, Fault, ApplyInv, TypeOK
<1>2. p \in Procs
  BY DEF Procs
<1>3. job[p].applied \in SUBSET Keys
  BY <1>2, JobFields DEF ApplyInv
<1>4. apart' \in SUBSET Keys /\ apart \subseteq apart'
  BY <1>3, Settings DEF Killed, ApplyInv, TypeOK
<1>5. TypeOK'
  BY <1>1, <1>2, <1>4, LeaveTypes DEF ApplyInv, TypeOK, Jobs, Reqs
<1>6. Agree'
  <2>1. CASE pc[p] \in {"check", "files", "live", "done", "undone"}
    BY <1>1, <1>4, <2>1 DEF ApplyInv, Phase, Agree
  <2>2. CASE pc[p] \in Changing
    <3>1. apart' = apart \cup touched \cup job[p].applied
                     \cup (IF "conf" \in job[p].wrote THEN Sysctls ELSE {})
                     \cup (IF "nanbbr" \in job[p].wrote THEN Params ELSE {})
      BY <2>2 DEF Killed, Changing
    <3>2. /\ SnapshotsAgree(p)
          /\ \A k \in Keys \ (touched \cup job[p].applied) :
                live[k] = job[p].wasLive[k] \/ (job[p].bad /\ k \in apart)
          /\ conf = job[p].wasConf \/ ConfTouched \/ "conf" \in job[p].wrote
          /\ nanbbr = job[p].wasNanbbr \/ "nanbbr" \in job[p].wrote
      BY <2>2 DEF ApplyInv, Phase, Undoable
    <3>3. ASSUME NEW k \in Sysctls \ apart', conf'[k] # None PROVE live'[k] = Name(conf'[k])
      <4>1. k \in Keys \ (touched \cup job[p].applied) /\ k \notin apart /\ k \in Sysctls
        BY <3>1, <3>3, Settings
      <4>2. live[k] = job[p].wasLive[k] /\ conf = job[p].wasConf
        BY <3>1, <3>2, <3>3, <4>1 DEF ConfTouched
      <4>3. QED
        BY <1>1, <3>2, <3>3, <4>1, <4>2 DEF SnapshotsAgree
    <3>4. ASSUME NEW k \in Params \ apart' PROVE nanbbr' \in {None, live'[k]}
      <4>1. k \in Keys \ (touched \cup job[p].applied) /\ k \notin apart /\ k \in Params
        BY <3>1, <3>4, Settings
      <4>2. live[k] = job[p].wasLive[k] /\ nanbbr = job[p].wasNanbbr
        BY <3>1, <3>2, <3>4, <4>1
      <4>3. QED
        BY <1>1, <3>2, <4>1, <4>2 DEF SnapshotsAgree
    <3>5. QED
      BY <3>3, <3>4 DEF Agree
  <2>3. QED
    BY <2>1, <2>2 DEF Inside, HandlerSteps, Changing
<1>7. QED
  BY <1>1, <1>5, <1>6, HolderLeaves

----------------------------------------------------------------------------
(* A starting worker *)

\* A worker may disturb a request, if it says what it touched.
LEMMA WorkerKeepsInv ==
  ASSUME ApplyInv, NEW w \in Workers, NEW s \in WorkerSteps \cup {"idle"},
         Goto(w, s), TypeOK',
         \A p \in Handlers : job'[p] = job[p],
         UNCHANGED <<nanbbr, lock>>,
         touched \subseteq touched',
         \A k \in Keys \ touched' : live'[k] = live[k],
         conf' = conf \/ Sysctls \subseteq touched',
         lock # {} => apart \subseteq apart' /\ touched' \subseteq apart',
         Agree => Agree'
  PROVE  ApplyInv'
<1>1. Handlers \subseteq Procs /\ w \in Procs /\ w \notin Handlers /\ Workers \subseteq Procs
  BY MptcpAssumption DEF Procs
<1>2. pc'[w] = s /\ \A q \in Procs \ {w} : pc'[q] = pc[q]
  BY <1>1, PcChanges DEF ApplyInv
<1>3. LockInv'
  BY <1>1, <1>2 DEF ApplyInv, LockInv, Inside
<1>4. ASSUME NEW p \in Handlers PROVE Phase(p)'
  <2>1. pc'[p] = pc[p] /\ job'[p] = job[p] /\ Phase(p)
    BY <1>1, <1>2 DEF ApplyInv
  <2>2. CASE ~Inside(p)
    BY <2>1, <2>2, OutsideStays DEF Inside, Handling
  <2>3. CASE Inside(p)
    <3>1. lock # {}
      BY <2>3 DEF ApplyInv, LockInv
    <3>2. apart \subseteq apart'
      BY <3>1
    <3>3. Undoable(p)'
      <4>1. SnapshotsAgree(p) => SnapshotsAgree(p)'
        BY <2>1, <3>2 DEF SnapshotsAgree
      <4>2. QED
        BY <2>1, <3>2, <4>1 DEF Phase, Undoable, ConfTouched
    <3>4. Applying(p)'
      <4>1. pc[p] \in {"set", "nanbbr", "conf", "done"} => job[p].applied \subseteq Keys
        BY <1>1, JobFields DEF ApplyInv
      <4>2. QED
        BY <2>1, <4>1 DEF Phase, Applying, ConfTouched
    <3>5. Undone(p)'
      BY <2>1, <3>2 DEF Phase, Undone, ConfTouched
    <3>6. Before(p)'
      BY <2>1 DEF Phase, Before, ConfTouched
    <3>7. QED
      BY <2>1, <3>3, <3>4, <3>5, <3>6 DEF Phase
  <2>4. QED
    BY <2>2, <2>3
<1>5. QED
  BY <1>3, <1>4 DEF ApplyInv

\* What a worker knows is its own.
LEMMA WorkerTypes ==
  ASSUME TypeOK, NEW w \in Workers, NEW s \in WorkerSteps \cup {"idle"}, Goto(w, s),
         UNCHANGED job \/ Forget(w, s) \/ Recall(w, s)
  PROVE  /\ pc' \in [Procs -> {"absent", "idle"} \cup HandlerSteps \cup WorkerSteps]
         /\ job' \in [Procs -> Jobs]
         /\ \A p \in Handlers : job'[p] = job[p]
<1>1. Handlers \subseteq Procs /\ w \in Procs /\ w \notin Handlers
  BY MptcpAssumption DEF Procs
<1>2. PICK j \in Jobs : job' = [job EXCEPT ![w] = j]
  <2>1. CASE UNCHANGED job
    <3>1. job = [job EXCEPT ![w] = job[w]] /\ job[w] \in Jobs
      BY <1>1, JobFields DEF TypeOK
    <3>2. QED
      BY <2>1, <3>1
  <2>2. CASE Forget(w, s)
    BY <2>2, NoJobIsJob DEF Forget
  <2>3. CASE Recall(w, s)
    <3>1. job' = [job EXCEPT ![w] = [job[w] EXCEPT !.wasConf = conf]]
      BY <1>1, <2>3 DEF Recall, TypeOK
    <3>2. [job[w] EXCEPT !.wasConf = conf] \in Jobs
      BY <1>1, JobFields DEF Jobs, TypeOK
    <3>3. QED
      BY <3>1, <3>2
  <2>4. QED
    BY <2>1, <2>2, <2>3
<1>3. QED
  BY <1>1, <1>2, JobChanges, PcChanges

\* Steps that only look, or fail.
LEMMA LookingKeepsInv ==
  ASSUME ApplyInv, NEW w \in Workers,
         Start(w) \/ Look(w) \/ SetSavedFails(w) \/ ReadLines(w)
  PROVE  ApplyInv'
<1>1. UNCHANGED <<live, conf, nanbbr, lock, touched, faults, apart>>
  BY DEF Start, Look, SetSavedFails, ReadLines
<1>2. PICK s \in WorkerSteps \cup {"idle"} :
        Goto(w, s) /\ (UNCHANGED job \/ Forget(w, s) \/ Recall(w, s))
  <2>1. CASE Start(w)
    BY <2>1 DEF Start, WorkerSteps
  <2>2. CASE Look(w)
    BY <2>2 DEF Look, Next1, End, Forget, Recall, WorkerSteps
  <2>3. CASE SetSavedFails(w)
    BY <2>3 DEF SetSavedFails, Next1, End, Forget, WorkerSteps
  <2>4. CASE ReadLines(w)
    BY <2>4 DEF ReadLines, Next1, Forget, Recall, WorkerSteps
  <2>5. QED
    BY <2>1, <2>2, <2>3, <2>4
<1>3. /\ pc' \in [Procs -> {"absent", "idle"} \cup HandlerSteps \cup WorkerSteps]
      /\ job' \in [Procs -> Jobs]
      /\ \A p \in Handlers : job'[p] = job[p]
  BY <1>2, WorkerTypes DEF ApplyInv
<1>4. TypeOK'
  BY <1>1, <1>3 DEF ApplyInv, TypeOK, Jobs, Reqs
<1>5. lock # {} => touched \subseteq apart
  BY DEF ApplyInv, LockInv
<1>6. QED
  BY <1>1, <1>2, <1>3, <1>4, <1>5, WorkerKeepsInv DEF Agree

\* A worker's writes keep the history that SavedIsLive rests on.
LEMMA WritesApart ==
  ASSUME TypeOK, LockInv, NEW S \in SUBSET Keys, NEW fresh \in BOOLEAN, Writes(S, fresh)
  PROVE  /\ touched' \in SUBSET Keys /\ apart' \in SUBSET Keys
         /\ touched \subseteq touched' /\ S \subseteq touched'
         /\ lock # {} => apart \subseteq apart' /\ touched' \subseteq apart'
         /\ lock # {} \/ ~fresh => S \subseteq apart'
         /\ apart \subseteq apart' \cup S
  BY DEF TypeOK, LockInv, Writes

\* The scheduler or the path manager is set as the worker read it; what is not
\* apart is as saved even so.
LEMMA SetSavedKeepsInv ==
  ASSUME ApplyInv, NEW w \in Workers, SetScheduler(w) \/ SetPathManager(w)
  PROVE  ApplyInv'
<1>1. PICK k \in {Scheduler, PathManager}, v \in Values, s \in WorkerSteps \cup {"idle"} :
        /\ live' = [live EXCEPT ![k] = v]
        /\ Writes({k}, Name(conf[k]) = v)
        /\ Forget(w, s) /\ UNCHANGED <<conf, nanbbr, lock, faults>>
  <2>1. CASE SetScheduler(w)
    <3>1. job[w].wasConf \in Saved
      BY JobFields DEF ApplyInv, Procs
    <3>2. job[w].wasConf[Scheduler] \in Values \cup {Old}
      BY <3>1, LinesHave, Settings DEF Scheduler
    <3>3. Name(job[w].wasConf[Scheduler]) \in Values
      BY <3>2, Names
    <3>4. QED
      BY <2>1, <3>3 DEF SetScheduler, Next1, WorkerSteps
  <2>2. CASE SetPathManager(w)
    BY <2>2, MptcpAssumption DEF SetPathManager, End
  <2>3. QED
    BY <2>1, <2>2
<1>2. Goto(w, s) /\ k \in Sysctls /\ k \in Keys /\ k \notin Params
  BY <1>1, Settings DEF Forget, Scheduler, PathManager
<1>3. /\ pc' \in [Procs -> {"absent", "idle"} \cup HandlerSteps \cup WorkerSteps]
      /\ job' \in [Procs -> Jobs]
      /\ \A p \in Handlers : job'[p] = job[p]
  BY <1>1, <1>2, WorkerTypes DEF ApplyInv
<1>4. live' \in [Keys -> Values] /\ live'[k] = v /\ \A l \in Keys \ {k} : live'[l] = live[l]
  BY <1>1, <1>2 DEF ApplyInv, TypeOK
<1> DEFINE fresh == Name(conf[k]) = v
<1>5. fresh \in BOOLEAN /\ {k} \in SUBSET Keys /\ Writes({k}, fresh)
  BY <1>1, <1>2
<1>6. /\ touched' \in SUBSET Keys /\ apart' \in SUBSET Keys
      /\ touched \subseteq touched' /\ k \in touched'
      /\ lock # {} => apart \subseteq apart' /\ touched' \subseteq apart'
      /\ ~fresh => k \in apart'
      /\ apart \subseteq apart' \cup {k}
  <2> HIDE DEF fresh
  <2>1. QED
    BY <1>5, WritesApart, ZenonT(30) DEF ApplyInv
<1>7. TypeOK'
  BY <1>1, <1>3, <1>4, <1>6 DEF ApplyInv, TypeOK, Jobs, Reqs
<1>8. ASSUME Agree PROVE Agree'
  <2>1. ASSUME NEW l \in Sysctls \ apart', conf'[l] # None PROVE live'[l] = Name(conf'[l])
    <3>1. CASE l = k
      BY <1>1, <1>4, <1>6, <2>1, <3>1
    <3>2. CASE l # k
      BY <1>1, <1>4, <1>6, <1>8, <2>1, <3>2, Settings DEF Agree
    <3>3. QED
      BY <3>1, <3>2
  <2>2. ASSUME NEW l \in Params \ apart' PROVE nanbbr' \in {None, live'[l]}
    BY <1>1, <1>2, <1>4, <1>6, <1>8, <2>2, Settings DEF Agree
  <2>3. QED
    BY <2>1, <2>2 DEF Agree
<1>9. \A l \in Keys \ touched' : live'[l] = live[l]
  BY <1>4, <1>6
<1>10. QED
  BY <1>1, <1>2, <1>3, <1>6, <1>7, <1>8, <1>9, WorkerKeepsInv

\* A line is repaired, in the file as the worker read it.
LEMMA MoveLinesKeepsInv ==
  ASSUME ApplyInv, NEW w \in Workers, MoveLines(w)
  PROVE  ApplyInv'
<1> DEFINE k == IF pc[w] = "move1" THEN Scheduler ELSE PathManager
           old == lock # {} \/ conf # job[w].wasConf
<1>1. /\ conf' = [job[w].wasConf EXCEPT ![k] = Current]
      /\ IF old THEN Writes(Sysctls, FALSE)
         ELSE IF Name(conf[k]) # Current THEN Writes({k}, FALSE)
         ELSE UNCHANGED <<touched, apart>>
      /\ UNCHANGED <<live, nanbbr, lock, faults>>
  BY DEF MoveLines
<1>2. PICK s \in WorkerSteps \cup {"idle"} : Forget(w, s)
  BY DEF MoveLines, Next1, WorkerSteps
<1>3. Goto(w, s) /\ k \in Sysctls /\ k \in Keys
  BY <1>2, Settings DEF Forget, Scheduler, PathManager
<1> HIDE DEF k, old
<1>4. /\ pc' \in [Procs -> {"absent", "idle"} \cup HandlerSteps \cup WorkerSteps]
      /\ job' \in [Procs -> Jobs]
      /\ \A p \in Handlers : job'[p] = job[p]
  BY <1>2, <1>3, WorkerTypes DEF ApplyInv
<1>5. job[w].wasConf \in Saved
  BY JobFields DEF ApplyInv, Procs
<1>6. conf' \in Saved /\ conf'[k] = Current /\ \A l \in Sysctls \ {k} : conf'[l] = job[w].wasConf[l]
  BY <1>1, <1>3, <1>5, LinesHave, LineReplaced
<1>7. /\ touched' \in SUBSET Keys /\ apart' \in SUBSET Keys
      /\ touched \subseteq touched' /\ apart \subseteq apart'
      /\ lock # {} => touched' \subseteq apart'
      /\ old => Sysctls \subseteq touched' /\ Sysctls \subseteq apart'
      /\ ~old => lock = {} /\ conf = job[w].wasConf /\ (Name(conf[k]) = Current \/ k \in apart')
  <2>1. Sysctls \in SUBSET Keys /\ {k} \in SUBSET Keys
    BY <1>3, Settings
  <2>2. CASE old
    BY <1>1, <2>1, <2>2, Settings DEF Writes, ApplyInv, TypeOK, LockInv
  <2>3. CASE ~old
    <3>1. lock = {} /\ conf = job[w].wasConf
      BY <2>3 DEF old
    <3>2. QED
      BY <1>1, <1>3, <2>3, <3>1 DEF Writes, ApplyInv, TypeOK
  <2>4. QED
    BY <2>2, <2>3
<1>8. TypeOK'
  BY <1>1, <1>4, <1>6, <1>7 DEF ApplyInv, TypeOK, Jobs, Reqs
<1>9. ASSUME Agree PROVE Agree'
  <2>1. ASSUME NEW l \in Sysctls \ apart', conf'[l] # None PROVE live'[l] = Name(conf'[l])
    <3>1. ~old /\ (conf[l] # None => live[l] = Name(conf[l])) /\ conf = job[w].wasConf
      BY <1>7, <1>9, <2>1 DEF Agree
    <3>2. CASE l = k
      <4>1. Name(conf[k]) = Current
        BY <1>7, <2>1, <3>1, <3>2
      <4>2. conf[k] # None
        BY <4>1, MptcpAssumption DEF Name
      <4>3. QED
        BY <1>1, <1>6, <3>1, <3>2, <4>1, <4>2, Names
    <3>3. CASE l # k
      BY <1>1, <1>6, <2>1, <3>1, <3>3
    <3>4. QED
      BY <3>2, <3>3
  <2>2. ASSUME NEW l \in Params \ apart' PROVE nanbbr' \in {None, live'[l]}
    BY <1>1, <1>7, <1>9, <2>2 DEF Agree
  <2>3. QED
    BY <2>1, <2>2 DEF Agree
<1>10. CASE old
  BY <1>1, <1>3, <1>4, <1>7, <1>8, <1>9, <1>10, WorkerKeepsInv
<1>11. CASE ~old
  \* No request is under way: there is nothing to disturb.
  <2>1. lock = {} /\ lock' = {} /\ Agree'
    BY <1>1, <1>7, <1>9, <1>11 DEF ApplyInv
  <2>2. Handlers \subseteq Procs /\ w \in Procs /\ w \notin Handlers /\ Workers \subseteq Procs
    BY MptcpAssumption DEF Procs
  <2>3. pc'[w] = s /\ \A q \in Procs \ {w} : pc'[q] = pc[q]
    BY <1>3, <2>2, PcChanges DEF ApplyInv
  <2>4. LockInv'
    BY <1>1, <2>1, <2>2, <2>3 DEF ApplyInv, LockInv, Inside
  <2>5. ASSUME NEW p \in Handlers PROVE Phase(p)'
    BY <1>4, <2>1, <2>2, <2>3, OutsideStays DEF ApplyInv, LockInv, Inside, Handling
  <2>6. QED
    BY <1>8, <2>1, <2>4, <2>5 DEF ApplyInv
<1>12. QED
  BY <1>10, <1>11

----------------------------------------------------------------------------
(* Theorems *)

LEMMA InitInv == Init => ApplyInv
<1> SUFFICES ASSUME Init PROVE ApplyInv
  OBVIOUS
<1>1. PICK cast \in Casts :
        /\ pc = [p \in Procs |-> IF p \in cast.procs THEN "idle" ELSE "absent"]
        /\ faults = cast.faults
  BY DEF Init
<1>2. faults \in 0..MaxFaults
  BY <1>1, MptcpAssumption
<1>3. \A p \in Procs : pc[p] \in {"idle", "absent"}
  BY <1>1
<1>4. conf \in Saved /\ \A k \in Sysctls : conf[k] = Old => k < 3
  BY MptcpAssumption DEF Init
<1>5. job \in [Procs -> Jobs]
  BY NoJobIsJob DEF Init
<1>6. apart \in SUBSET Keys
  BY Settings DEF Init, Scheduler, PathManager
<1>7. TypeOK
  BY <1>1, <1>2, <1>4, <1>5, <1>6 DEF Init, TypeOK, Jobs, Reqs
<1>8. LockInv
  BY <1>3 DEF Init, LockInv, Inside, HandlerSteps, WorkerSteps, Procs
<1>9. Agree
  <2>1. ASSUME NEW k \in Sysctls \ apart, conf[k] # None PROVE live[k] = Name(conf[k])
    <3>1. k # Scheduler /\ k # PathManager /\ k \in Keys
      BY <2>1, Settings DEF Init
    <3>2. ~(k < 3)
      BY <3>1, MptcpAssumption DEF Keys, Scheduler, PathManager
    <3>3. conf[k] # Old
      BY <1>4, <2>1, <3>2
    <3>4. live[k] = conf[k]
      <4>1. conf[k] \in Values
        BY <1>4, <2>1, <3>3, LinesHave
      <4>2. QED
        BY <2>1, <3>1, <4>1 DEF Init
    <3>5. QED
      BY <3>3, <3>4 DEF Name
  <2>2. nanbbr = None
    BY DEF Init
  <2>3. QED
    BY <2>1, <2>2 DEF Agree
<1>10. \A p \in Handlers : Phase(p)
  BY <1>3 DEF Phase, Before, Undoable, Applying, Undone, Changing, Procs
<1>11. QED
  BY <1>7, <1>8, <1>9, <1>10 DEF ApplyInv

LEMMA NextInv == ApplyInv /\ [Next]_vars => ApplyInv'
<1> SUFFICES ASSUME ApplyInv, [Next]_vars PROVE ApplyInv'
  OBVIOUS
<1>1. ASSUME NEW p \in Handlers, Serve(p) PROVE ApplyInv'
  BY <1>1, AcquireKeepsInv, LeavingKeepsInv, MovingOnKeepsInv, ReadFilesKeepsInv, ReadLiveKeepsInv,
     SetKeepsInv, SetFailsKeepsInv, SaveNanbbrKeepsInv, SaveConfKeepsInv, SaveRaisesKeepsInv,
     UndoKeepsInv, UndoConfKeepsInv, UndoNanbbrKeepsInv DEF Serve
<1>2. ASSUME NEW p \in Handlers, NEW r \in Requests, Request(p, r) PROVE ApplyInv'
  BY <1>2, RequestKeepsInv
<1>3. ASSUME NEW w \in Workers, StartUp(w) PROVE ApplyInv'
  BY <1>3, LookingKeepsInv, SetSavedKeepsInv, MoveLinesKeepsInv DEF StartUp
<1>4. ASSUME NEW p \in Procs, Killed(p) PROVE ApplyInv'
  <2>1. CASE Inside(p)
    <3>1. p \in Handlers
      BY <2>1 DEF ApplyInv, LockInv, Inside, Procs, HandlerSteps, WorkerSteps
    <3>2. QED
      BY <1>4, <2>1, <3>1, KilledInsideKeepsInv
  <2>2. CASE ~Inside(p)
    BY <1>4, <2>2, KilledOutsideKeepsInv
  <2>3. QED
    BY <2>1, <2>2
<1>5. CASE UNCHANGED vars
  BY <1>5 DEF vars, ApplyInv, TypeOK, LockInv, Inside, Agree, Phase, Before, Undoable, Applying, Undone,
     SnapshotsAgree, ConfTouched
<1>6. QED
  BY <1>1, <1>2, <1>3, <1>4, <1>5 DEF Next

LEMMA ApplyInvHolds == Spec => []ApplyInv
  BY InitInv, NextInv, PTL DEF Spec

\* The variables keep their types, for any settings, requests and processes.
THEOREM TypeCorrect == Spec => []TypeOK
<1>1. ApplyInv => TypeOK
  BY DEF ApplyInv
<1>2. QED
  BY <1>1, ApplyInvHolds, PTL

\* At most one request is between taking and giving back the lock (MPTCP_LOCK_FILE),
\* whoever is killed.
THEOREM OneRequestInside ==
  Spec => [](\A p, q \in Handlers : Inside(p) /\ Inside(q) => p = q)
<1>1. ApplyInv => \A p, q \in Handlers : Inside(p) /\ Inside(q) => p = q
  BY Alone DEF ApplyInv
<1>2. QED
  BY <1>1, ApplyInvHolds, PTL

\* A request that reports an error and a complete rollback has left every setting
\* and both files as they were (the handler's except branch).
THEOREM ErrorsRestore == Spec => []ErrorRestores
<1>1. ASSUME ApplyInv, NEW p \in Handlers, pc[p] = "undone", ~job[p].bad, touched = {}
      PROVE  live = job[p].wasLive /\ conf = job[p].wasConf /\ nanbbr = job[p].wasNanbbr
  <2>1. job[p].wasLive \in [Keys -> Values] /\ live \in [Keys -> Values]
    BY <1>1, JobFields DEF ApplyInv, TypeOK, Procs
  <2>2. \A k \in Keys : live[k] = job[p].wasLive[k]
    BY <1>1 DEF ApplyInv, Phase, Undoable, Undone
  <2>3. conf = job[p].wasConf /\ nanbbr = job[p].wasNanbbr
    BY <1>1, Settings DEF ApplyInv, Phase, Undone, ConfTouched
  <2>4. QED
    BY <2>1, <2>2, <2>3
<1>2. ApplyInv => ErrorRestores
  BY <1>1 DEF ErrorRestores
<1>3. QED
  BY <1>2, ApplyInvHolds, PTL

\* A request that reports success has every setting and both files as it asked for.
THEOREM SuccessApplies == Spec => []DoneApplies
<1>1. ASSUME ApplyInv, NEW p \in Handlers, pc[p] = "done", touched = {}
      PROVE  /\ \A k \in Uses(job[p].req) : live[k] = Wanted(job[p].req, k)
             /\ conf = job[p].req.sysctl
             /\ job[p].req.aggr \in {None, nanbbr}
  BY <1>1, Settings DEF ApplyInv, Phase, Applying, ConfTouched
<1>2. ApplyInv => DoneApplies
  BY <1>1 DEF DoneApplies
<1>3. QED
  BY <1>2, ApplyInvHolds, PTL

\* Between requests the kernel runs with what is saved, except for settings set
\* apart by the boot, a kill, a reported incomplete rollback or a stale repair.
THEOREM SavedStaysLive == Spec => []SavedIsLive
<1>1. ApplyInv => SavedIsLive
  BY DEF ApplyInv, Agree, SavedIsLive
<1>2. QED
  BY <1>1, ApplyInvHolds, PTL

----------------------------------------------------------------------------
(* POST /mptcp as AtomicSettings *)

Trouble == {"undo", "undoconf", "undonanbbr", "undone"}

\* A rollback is incomplete only once there is one.
BadInv == \A p \in Handlers : job[p].bad => pc[p] \in Trouble

AtomicInv == ApplyInv /\ BadInv

LEMMA SeenHas ==
  ASSUME NEW v \in [Keys -> Values], NEW c \in Saved, NEW n \in Values \cup {None}
  PROVE  /\ Seen(v, c, n) \in Atomic!AllSettings
         /\ Seen(v, c, n).live = v /\ Seen(v, c, n).nanbbr = n
         /\ \A k \in Sysctls : Seen(v, c, n).saved[k] = Name(c[k])
<1>1. \A k \in Sysctls : Name(c[k]) \in Values \cup {None}
  BY Names, LinesHave
<1>2. Atomic!Sysctls = Sysctls
  BY DEF Atomic!Sysctls, Sysctls
<1>3. [k \in Sysctls |-> Name(c[k])] \in [Sysctls -> Values \cup {None}]
  BY <1>1
<1>4. QED
  BY <1>2, <1>3 DEF Seen, Atomic!AllSettings

\* What the settings are while a request changes them, and otherwise; before and
\* after a step.
OnlyChanging(p) == pc[p] \in Changing /\ \A q \in Handlers \ {p} : pc[q] \notin Changing
NoneChanging    == \A q \in Handlers : pc[q] \notin Changing

LEMMA FoundBySnapshot ==
  ASSUME NEW p \in Handlers, OnlyChanging(p)
  PROVE  Found = Seen(job[p].wasLive, job[p].wasConf, job[p].wasNanbbr)
<1>1. (CHOOSE q \in Handlers : pc[q] \in Changing) = p
  BY DEF OnlyChanging
<1>2. QED
  BY <1>1 DEF Found, OnlyChanging

LEMMA FoundBySnapshotNext ==
  ASSUME NEW p \in Handlers, OnlyChanging(p)'
  PROVE  Found' = Seen(job'[p].wasLive, job'[p].wasConf, job'[p].wasNanbbr)
<1>1. (CHOOSE q \in Handlers : pc'[q] \in Changing) = p
  BY DEF OnlyChanging
<1>2. QED
  BY <1>1 DEF Found, OnlyChanging

LEMMA FoundByReading ==
  ASSUME NoneChanging PROVE Found = Seen(live, conf, nanbbr)
  BY DEF Found, NoneChanging

LEMMA FoundByReadingNext ==
  ASSUME NoneChanging' PROVE Found' = Seen(live', conf', nanbbr')
  BY DEF Found, NoneChanging

LEMMA ChangingIsInside ==
  ASSUME ApplyInv
  PROVE  /\ \A p \in Handlers : pc[p] \in Changing => Inside(p) /\ OnlyChanging(p)
         /\ \A p \in Handlers : Inside(p) /\ pc[p] \notin Changing => NoneChanging
         /\ lock = {} => NoneChanging
<1>1. \A p \in Handlers : pc[p] \in Changing => Inside(p)
  BY DEF Changing, Inside, HandlerSteps
<1>2. \A p, q \in Handlers : Inside(p) /\ Inside(q) => p = q
  BY Alone DEF ApplyInv
<1>3. \A p \in Handlers : Inside(p) => lock # {}
  BY DEF ApplyInv, LockInv
<1>4. QED
  BY <1>1, <1>2, <1>3 DEF OnlyChanging, NoneChanging

\* Snapshots and readings are settings.
LEMMA FoundTypes ==
  ASSUME ApplyInv
  PROVE  Found \in Atomic!AllSettings
<1>1. CASE NoneChanging
  BY <1>1, FoundByReading, SeenHas DEF ApplyInv, TypeOK
<1>2. CASE ~NoneChanging
  <2>1. PICK p \in Handlers : pc[p] \in Changing
    BY <1>2 DEF NoneChanging
  <2>2. OnlyChanging(p) /\ p \in Procs
    BY <2>1, ChangingIsInside DEF Procs
  <2>3. /\ job[p].wasLive \in [Keys -> Values] /\ job[p].wasConf \in Saved
        /\ job[p].wasNanbbr \in Values \cup {None}
    BY <2>2, JobFields DEF ApplyInv
  <2>4. QED
    BY <2>2, <2>3, FoundBySnapshot, SeenHas
<1>3. QED
  BY <1>1, <1>2

LEMMA FoundTypesNext ==
  ASSUME TypeOK', NoneChanging' \/ \E p \in Handlers : OnlyChanging(p)'
  PROVE  Found' \in Atomic!AllSettings
<1>1. CASE NoneChanging'
  BY <1>1, FoundByReadingNext, SeenHas DEF TypeOK
<1>2. ASSUME NEW p \in Handlers, OnlyChanging(p)' PROVE Found' \in Atomic!AllSettings
  <2>1. job'[p] \in Jobs
    BY DEF TypeOK, Jobs, Reqs, Procs
  <2>2. /\ job'[p].wasLive \in [Keys -> Values] /\ job'[p].wasConf \in Saved
        /\ job'[p].wasNanbbr \in Values \cup {None}
    BY <2>1 DEF Jobs
  <2>3. QED
    BY <1>2, <2>2, FoundBySnapshotNext, SeenHas
<1>3. QED
  BY <1>1, <1>2

LEMMA Became ==
  ASSUME NEW S, NEW v \in [Keys -> Values], NEW c \in Saved, NEW n \in Values \cup {None},
         Found' = Seen(v, c, n), NEW s,
         \A k \in Keys \ S : v[k] = s.live[k],
         \A k \in Sysctls \ S : Name(c[k]) = s.saved[k],
         n = s.nanbbr
  PROVE  Atomic!Becomes(s, S)
<1>1. Atomic!Sysctls = Sysctls
  BY DEF Atomic!Sysctls, Sysctls
<1>2. QED
  BY <1>1, SeenHas DEF Atomic!Becomes

\* Settings that nobody is changing stay what they are.
LEMMA FoundStays ==
  ASSUME ApplyInv, UNCHANGED <<live, conf, nanbbr>>,
         \A q \in Handlers : pc[q] \in Changing =>
             /\ pc'[q] = pc[q] /\ job'[q].wasLive = job[q].wasLive
             /\ job'[q].wasConf = job[q].wasConf /\ job'[q].wasNanbbr = job[q].wasNanbbr,
         \A q \in Handlers : pc[q] \notin Changing => pc'[q] \notin Changing
  PROVE  Found' = Found
<1>1. CASE NoneChanging
  <2>1. NoneChanging'
    BY <1>1 DEF NoneChanging
  <2>2. QED
    BY <1>1, <2>1, FoundByReading, FoundByReadingNext
<1>2. CASE ~NoneChanging
  <2>1. PICK p \in Handlers : pc[p] \in Changing
    BY <1>2 DEF NoneChanging
  <2>2. OnlyChanging(p)
    BY <2>1, ChangingIsInside
  <2>3. OnlyChanging(p)'
    BY <2>2 DEF OnlyChanging
  <2>4. QED
    BY <2>1, <2>2, <2>3, FoundBySnapshot, FoundBySnapshotNext
<1>3. QED
  BY <1>1, <1>2

\* How a request stands, when only one of them moves.
LEMMA OneMoves ==
  ASSUME NEW p \in Handlers,
         \A q \in Handlers \ {p} : pc'[q] = pc[q] /\ job'[q] = job[q]
  PROVE  /\ Outcomes' = [Outcomes EXCEPT ![p] = Outcome(p)']
         /\ Asked' = [Asked EXCEPT ![p] = job'[p].req]
         /\ Outcomes[p] = Outcome(p) /\ Asked[p] = job[p].req
<1>1. \A q \in Handlers \ {p} : Outcome(q)' = Outcome(q)
  BY DEF Outcome
<1>2. QED
  BY <1>1 DEF Outcomes, Asked

\* None moves.
LEMMA NoneMoves ==
  ASSUME \A q \in Handlers : pc'[q] = pc[q] /\ job'[q] = job[q]
  PROVE  Outcomes' = Outcomes /\ Asked' = Asked
<1>1. \A q \in Handlers : Outcome(q)' = Outcome(q)
  BY DEF Outcome
<1>2. QED
  BY <1>1 DEF Outcomes, Asked

\* Nothing to be seen of a step.
Still == UNCHANGED <<Found, Outcomes, Asked, Dirty, faults>>

LEMMA SameAsked ==
  ASSUME NEW p \in Handlers, Outcome(p)' = Outcome(p), job'[p].req = job[p].req,
         \A q \in Handlers \ {p} : pc'[q] = pc[q] /\ job'[q] = job[q]
  PROVE  Outcomes' = Outcomes /\ Asked' = Asked
<1>1. \A q \in Handlers : Outcome(q)' = Outcome(q)
  BY DEF Outcome
<1>2. QED
  BY <1>1 DEF Outcomes, Asked
\* What a step makes of a job.
LEMMA JobBecomes ==
  ASSUME TypeOK, NEW p \in Procs, NEW j, job' = [job EXCEPT ![p] = j]
  PROVE  job'[p] = j /\ \A q \in Procs \ {p} : job'[q] = job[q]
  BY DEF TypeOK

\* What the request is, what it found and whether its rollback is incomplete.
SameRequest(i, j) ==
    /\ i.req = j.req /\ i.wasLive = j.wasLive /\ i.wasConf = j.wasConf
    /\ i.wasNanbbr = j.wasNanbbr /\ i.bad = j.bad

\* Progress is all that changes.
Proceeds(p) ==
    \/ UNCHANGED job
    \/ \E S : job' = [job EXCEPT ![p] = [job[p] EXCEPT !.applied = S]]
    \/ \E F : job' = [job EXCEPT ![p] = [job[p] EXCEPT !.wrote = F]]

LEMMA OnlyProgress ==
  ASSUME TypeOK, NEW p \in Procs, Proceeds(p)
  PROVE  SameRequest(job'[p], job[p])
<1>1. job[p] \in Jobs
  BY JobFields
<1>2. CASE UNCHANGED job
  BY <1>2 DEF SameRequest
<1>3. ASSUME NEW S, job' = [job EXCEPT ![p] = [job[p] EXCEPT !.applied = S]]
      PROVE  SameRequest(job'[p], job[p])
  <2>1. job'[p] = [job[p] EXCEPT !.applied = S]
    BY <1>3, JobBecomes
  <2>2. QED
    BY <1>1, <2>1 DEF Jobs, SameRequest
<1>4. ASSUME NEW F, job' = [job EXCEPT ![p] = [job[p] EXCEPT !.wrote = F]]
      PROVE  SameRequest(job'[p], job[p])
  <2>1. job'[p] = [job[p] EXCEPT !.wrote = F]
    BY <1>4, JobBecomes
  <2>2. QED
    BY <1>1, <2>1 DEF Jobs, SameRequest
<1>5. QED
  BY <1>2, <1>3, <1>4 DEF Proceeds

\* One handler moves: p, from label s to label t.
Moves(p, s, t) ==
    /\ pc[p] = s /\ pc'[p] = t
    /\ \A q \in Handlers \ {p} : pc'[q] = pc[q] /\ job'[q] = job[q]
    /\ UNCHANGED <<lock, touched>>

LEMMA QuietChange ==
  ASSUME ApplyInv, NEW p \in Handlers, NEW s \in Changing, NEW t \in Changing,
         Moves(p, s, t), SameRequest(job'[p], job[p]), UNCHANGED faults
  PROVE  Still
<1>1. OnlyChanging(p)
  BY ChangingIsInside DEF Moves
<1>2. OnlyChanging(p)'
  BY <1>1 DEF OnlyChanging, Moves
<1>3. Found' = Found
  BY <1>1, <1>2, FoundBySnapshot, FoundBySnapshotNext DEF SameRequest
<1>4. Outcome(p)' = Outcome(p)
  BY DEF Outcome, Moves, SameRequest, Changing
<1>5. Outcomes' = Outcomes /\ Asked' = Asked
  BY <1>4, SameAsked DEF Moves, SameRequest
<1>6. QED
  BY <1>3, <1>5 DEF Still, Dirty, Moves

LEMMA QuietStart ==
  ASSUME ApplyInv, NEW p \in Handlers, NEW s \in {"check", "files", "live"},
         NEW t \in {"check", "files", "live"}, Moves(p, s, t),
         job'[p].req = job[p].req, job'[p].bad = job[p].bad,
         UNCHANGED <<live, conf, nanbbr, faults>>
  PROVE  Still
<1>1. Found' = Found
  BY FoundStays DEF Moves, Changing
<1>2. Outcome(p)' = Outcome(p)
  BY DEF Outcome, Moves
<1>3. Outcomes' = Outcomes /\ Asked' = Asked
  BY <1>2, SameAsked DEF Moves
<1>4. QED
  BY <1>1, <1>3 DEF Still, Dirty, Moves

\* How Goto and the updates of a job make a move.
LEMMA MovesTo ==
  ASSUME TypeOK, NEW p \in Handlers, NEW t, Goto(p, t),
         UNCHANGED job \/ \E j : job' = [job EXCEPT ![p] = j],
         UNCHANGED <<lock, touched>>
  PROVE  Moves(p, pc[p], t)
  BY DEF Moves, Goto, TypeOK, Procs

LEMMA MovesNowhere ==
  ASSUME TypeOK, NEW p \in Handlers,
         \E j : job' = [job EXCEPT ![p] = j],
         UNCHANGED <<pc, lock, touched>>
  PROVE  Moves(p, pc[p], pc[p])
  BY DEF Moves, TypeOK, Procs

\* The steps of a request that change settings one by one.
LEMMA WorkIsQuiet ==
  ASSUME ApplyInv, NEW p \in Handlers,
         \/ Set(p) \/ SetFails(p) \/ AllSet(p) \/ SaveNanbbr(p) \/ SaveRaises(p)
         \/ Undo(p) \/ AllUndone(p)
  PROVE  /\ Still
         /\ job'[p].bad = job[p].bad /\ pc[p] \in Changing
         /\ pc'[p] \in Changing /\ (pc[p] \in Trouble => pc'[p] \in Trouble)
<1>1. p \in Procs /\ TypeOK /\ job[p] \in Jobs
  BY JobFields DEF Procs, ApplyInv
<1>2. CASE Set(p)
  <2>1. Moves(p, "set", "set")
    BY <1>1, <1>2, MovesNowhere DEF Set
  <2>2. Proceeds(p)
    BY <1>1, <1>2 DEF Set, Proceeds, TypeOK
  <2>3. SameRequest(job'[p], job[p])
    BY <1>1, <2>2, OnlyProgress
  <2>4. QED
    BY <1>2, <2>1, <2>3, QuietChange DEF Set, Changing, Trouble, Moves, SameRequest
<1>3. CASE SetFails(p)
  <2>1. Moves(p, "set", "undo")
    BY <1>1, <1>3, MovesTo DEF SetFails
  <2>2. Proceeds(p)
    BY <1>1, <1>3 DEF SetFails, Proceeds, TypeOK
  <2>3. SameRequest(job'[p], job[p])
    BY <1>1, <2>2, OnlyProgress
  <2>4. QED
    BY <1>3, <2>1, <2>3, QuietChange DEF SetFails, Changing, Trouble, Moves, SameRequest
<1>4. CASE AllSet(p)
  <2>1. Moves(p, "set", "nanbbr")
    BY <1>1, <1>4, MovesTo DEF AllSet
  <2>2. SameRequest(job'[p], job[p])
    BY <1>4 DEF AllSet, SameRequest
  <2>3. QED
    BY <1>4, <2>1, <2>2, QuietChange DEF AllSet, Changing, Trouble, Moves
<1>5. CASE SaveNanbbr(p)
  <2>1. Moves(p, "nanbbr", "conf")
    BY <1>1, <1>5, MovesTo DEF SaveNanbbr
  <2>2. Proceeds(p)
    BY <1>1, <1>5 DEF SaveNanbbr, Proceeds, TypeOK
  <2>3. SameRequest(job'[p], job[p])
    BY <1>1, <2>2, OnlyProgress
  <2>4. QED
    BY <1>5, <2>1, <2>3, QuietChange DEF SaveNanbbr, Changing, Trouble, Moves, SameRequest
<1>6. CASE SaveRaises(p)
  <2>1. pc[p] \in {"nanbbr", "conf"} /\ Moves(p, pc[p], "undo")
    BY <1>1, <1>6, MovesTo DEF SaveRaises
  <2>2. Proceeds(p)
    BY <1>1, <1>6 DEF SaveRaises, Proceeds, TypeOK
  <2>3. SameRequest(job'[p], job[p])
    BY <1>1, <2>2, OnlyProgress
  <2>4. QED
    BY <1>6, <2>1, <2>3, QuietChange DEF SaveRaises, Changing, Trouble, Moves, SameRequest
<1>7. CASE Undo(p)
  <2>1. Moves(p, "undo", "undo")
    BY <1>1, <1>7, MovesNowhere DEF Undo
  <2>2. Proceeds(p)
    BY <1>1, <1>7 DEF Undo, Proceeds, TypeOK
  <2>3. SameRequest(job'[p], job[p])
    BY <1>1, <2>2, OnlyProgress
  <2>4. QED
    BY <1>7, <2>1, <2>3, QuietChange DEF Undo, Changing, Trouble, Moves, SameRequest
<1>8. CASE AllUndone(p)
  <2>1. Moves(p, "undo", "undoconf")
    BY <1>1, <1>8, MovesTo DEF AllUndone
  <2>2. SameRequest(job'[p], job[p])
    BY <1>8 DEF AllUndone, SameRequest
  <2>3. QED
    BY <1>8, <2>1, <2>2, QuietChange DEF AllUndone, Changing, Trouble, Moves
<1>9. QED
  BY <1>2, <1>3, <1>4, <1>5, <1>6, <1>7, <1>8
LEMMA BeginningIsQuiet ==
  ASSUME ApplyInv, NEW p \in Handlers, Accept(p) \/ ReadFiles(p)
  PROVE  /\ Still
         /\ job'[p].bad = job[p].bad /\ pc[p] \notin Trouble
<1>1. p \in Procs /\ TypeOK /\ job[p] \in Jobs
  BY JobFields DEF Procs, ApplyInv
<1>2. CASE Accept(p)
  <2>1. Moves(p, "check", "files")
    BY <1>1, <1>2, MovesTo DEF Accept
  <2>2. QED
    BY <1>2, <2>1, QuietStart DEF Accept, Trouble
<1>3. CASE ReadFiles(p)
  <2>1. job' = [job EXCEPT ![p] = [job[p] EXCEPT !.wasConf = conf, !.wasNanbbr = nanbbr]]
    BY <1>1, <1>3 DEF ReadFiles, TypeOK
  <2>2. Moves(p, "files", "live")
    BY <1>1, <1>3, <2>1, MovesTo DEF ReadFiles
  <2>3. job'[p].req = job[p].req /\ job'[p].bad = job[p].bad
    BY <1>1, <2>1, JobBecomes DEF Jobs
  <2>4. QED
    BY <1>3, <2>2, <2>3, QuietStart DEF ReadFiles, Trouble
<1>4. QED
  BY <1>2, <1>3

\* With its last reading a request has what it found, less what startups wrote.
LEMMA ReadLiveReads ==
  ASSUME ApplyInv, NEW p \in Handlers, ReadLive(p)
  PROVE  /\ Atomic!Read(p)
         /\ job'[p].bad = job[p].bad /\ pc[p] \notin Trouble
<1>1. p \in Procs /\ TypeOK /\ job[p] \in Jobs
  BY JobFields DEF Procs, ApplyInv
<1>2. pc[p] = "live" /\ UNCHANGED <<live, conf, nanbbr, faults>>
  BY DEF ReadLive
<1>3. job' = [job EXCEPT ![p] = [job[p] EXCEPT !.wasLive = live]]
  BY <1>1 DEF ReadLive, TypeOK
<1>4. Moves(p, "live", "set")
  BY <1>1, <1>2, <1>3, MovesTo DEF ReadLive
<1>5. /\ job'[p].req = job[p].req /\ job'[p].bad = job[p].bad
      /\ job'[p].wasLive = live /\ job'[p].wasConf = job[p].wasConf
      /\ job'[p].wasNanbbr = job[p].wasNanbbr
  <2>1. job'[p] = [job[p] EXCEPT !.wasLive = live]
    BY <1>1, <1>3, JobBecomes
  <2>2. QED
    BY <1>1, <2>1 DEF Jobs
<1>6. NoneChanging /\ Inside(p)
  BY <1>2, ChangingIsInside DEF Changing, Inside, HandlerSteps
<1>7. OnlyChanging(p)'
  BY <1>4, <1>6 DEF OnlyChanging, NoneChanging, Moves, Changing
<1>8. Dirty = touched /\ Dirty' = Dirty
  BY <1>4, <1>6 DEF ApplyInv, LockInv, Dirty, Moves
<1>9. ~job[p].bad /\ (conf = job[p].wasConf \/ ConfTouched) /\ nanbbr = job[p].wasNanbbr
  BY <1>2 DEF ApplyInv, Phase, Before
<1>10. /\ live \in [Keys -> Values] /\ conf \in Saved /\ nanbbr \in Values \cup {None}
       /\ job[p].wasConf \in Saved
  BY <1>1, JobFields DEF TypeOK
<1>11. Found' = Seen(live, job[p].wasConf, nanbbr)
  BY <1>5, <1>7, <1>9, FoundBySnapshotNext
<1>12. /\ Found.live = live /\ Found.nanbbr = nanbbr
       /\ \A k \in Sysctls : Found.saved[k] = Name(conf[k])
  BY <1>6, <1>10, FoundByReading, SeenHas
<1>13. \A k \in Sysctls \ Dirty : Name(job[p].wasConf[k]) = Found.saved[k]
  BY <1>8, <1>9, <1>12 DEF ConfTouched
<1>0. Atomic!Becomes(Found, Dirty)
  BY <1>10, <1>11, <1>12, <1>13, Became
<1>15. Outcome(p) = "open" /\ Outcome(p)' = "open"
  BY <1>2, <1>4, <1>5, <1>9 DEF Outcome, Moves
<1>16. Outcomes' = Outcomes /\ Asked' = Asked /\ Outcomes[p] = "open"
  BY <1>4, <1>5, <1>15, SameAsked, OneMoves DEF Moves
<1>17. QED
  BY <1>2, <1>5, <1>8, <1>0, <1>16 DEF Atomic!Read, Trouble

\* Saving the sysctl.d file is where a request succeeds.
LEMMA SaveConfCommits ==
  ASSUME AtomicInv, ApplyInv', NEW p \in Handlers, SaveConf(p)
  PROVE  /\ Atomic!Commit(p)
         /\ job'[p].bad = job[p].bad /\ pc[p] \notin Trouble
<1>1. p \in Procs /\ TypeOK /\ job[p] \in Jobs /\ ApplyInv
  BY JobFields DEF Procs, ApplyInv, AtomicInv
<1>2. pc[p] = "conf" /\ UNCHANGED <<live, nanbbr, faults>>
  BY DEF SaveConf
<1>3. Proceeds(p)
  BY <1>1 DEF SaveConf, Proceeds, TypeOK
<1>4. Moves(p, "conf", "done")
  BY <1>1, <1>2, <1>3, MovesTo DEF SaveConf
<1>5. SameRequest(job'[p], job[p])
  BY <1>1, <1>3, OnlyProgress
<1>6. OnlyChanging(p) /\ Inside(p)
  BY <1>1, <1>2, ChangingIsInside DEF Changing
<1>7. NoneChanging'
  BY <1>4, <1>6 DEF OnlyChanging, NoneChanging, Moves, Changing
<1>8. Dirty = touched /\ Dirty' = Dirty
  BY <1>1, <1>4, <1>6 DEF ApplyInv, LockInv, Dirty, Moves
<1>9. ~job[p].bad
  BY <1>2 DEF AtomicInv, BadInv, Trouble
<1> DEFINE r == job[p].req
<1>10. /\ \A k \in Uses(r) \ touched : live[k] = Wanted(r, k)
       /\ \A k \in Keys \ (touched \cup Uses(r)) : live[k] = job[p].wasLive[k]
       /\ r.aggr \in {None, nanbbr}
       /\ r.aggr = None => nanbbr = job[p].wasNanbbr
  BY <1>1, <1>2, <1>9 DEF ApplyInv, Phase, Applying, Undoable, Changing
<1>11. conf' = r.sysctl \/ ConfTouched
  BY <1>4, <1>5 DEF ApplyInv, Phase, Applying, ConfTouched, Moves, SameRequest
<1>12. /\ live \in [Keys -> Values] /\ conf' \in Saved /\ nanbbr \in Values \cup {None}
       /\ job[p].wasLive \in [Keys -> Values] /\ job[p].wasConf \in Saved
       /\ job[p].wasNanbbr \in Values \cup {None} /\ r \in Reqs
  BY <1>1, JobFields DEF ApplyInv, TypeOK
<1>13. Found' = Seen(live, conf', nanbbr)
  BY <1>2, <1>7, FoundByReadingNext
<1>0. /\ Found.live = job[p].wasLive /\ Found.nanbbr = job[p].wasNanbbr
  BY <1>6, <1>12, FoundBySnapshot, SeenHas
<1>15. Asked[p] = r /\ Asked' = Asked /\ Outcomes[p] = Outcome(p)
       /\ Outcomes' = [Outcomes EXCEPT ![p] = Outcome(p)']
  <2>1. Asked' = Asked
    BY <1>4, <1>5 DEF Asked, Moves, SameRequest
  <2>2. QED
    BY <1>4, <2>1, OneMoves DEF Moves
<1> DEFINE a == Atomic!After(Found, r)
<1>16. Atomic!Sysctls = Sysctls
  BY DEF Atomic!Sysctls, Sysctls
<1>17. /\ \A k \in Keys : a.live[k] = IF k \in Uses(r) THEN Wanted(r, k) ELSE Found.live[k]
       /\ a.saved = r.sysctl
       /\ a.nanbbr = IF r.aggr = None THEN Found.nanbbr ELSE r.aggr
  <2>1. \A k \in Keys : Atomic!Named(r, k) = Wanted(r, k)
    BY DEF Atomic!Named, Wanted
  <2>2. \A k \in Keys : k \in Uses(r) <=> Wanted(r, k) # None
    BY <1>12, RequestTypes, Settings DEF Wanted
  <2>3. QED
    BY <2>1, <2>2 DEF Atomic!After
<1>18. \A k \in Keys \ Dirty : live[k] = a.live[k]
  BY <1>8, <1>10, <1>0, <1>17
<1>19. \A k \in Sysctls \ Dirty : Name(conf'[k]) = a.saved[k]
  <2>1. r.sysctl \in [Sysctls -> Values \cup {None}]
    BY <1>12, RequestTypes
  <2>2. \A k \in Sysctls : Name(r.sysctl[k]) = r.sysctl[k]
    BY <2>1, Names
  <2>3. QED
    BY <1>8, <1>11, <1>17, <2>2 DEF ConfTouched
<1>20. nanbbr = a.nanbbr
  BY <1>10, <1>0, <1>17
<1>21. Atomic!Becomes(a, Dirty)
  <2> HIDE DEF a
  <2>1. QED
    BY <1>12, <1>13, <1>18, <1>19, <1>20, Became
<1>22. Outcome(p) = "open" /\ Outcome(p)' = "done"
  BY <1>2, <1>4, <1>9 DEF Outcome, Moves
<1>23. QED
  BY <1>2, <1>5, <1>8, <1>15, <1>21, <1>22 DEF Atomic!Commit, Atomic!Goto, SameRequest, Trouble
\* A rollback that goes on although a step of it has failed.
LEMMA UndoingSpoils ==
  ASSUME ApplyInv, NEW p \in Handlers, UndoFails(p) \/ UndoConf(p)
  PROVE  /\ Still \/ Atomic!Spoil(p)
         /\ pc[p] \in Trouble /\ pc'[p] \in Trouble
<1>1. p \in Procs /\ TypeOK /\ job[p] \in Jobs
  BY JobFields DEF Procs, ApplyInv
<1>2. PICK t \in {"undo", "undonanbbr"} :
        /\ pc[p] \in {"undo", "undoconf"} /\ Moves(p, pc[p], t)
        /\ \/ Proceeds(p) /\ UNCHANGED faults
           \/ /\ job' = [job EXCEPT ![p] = [job[p] EXCEPT !.bad = TRUE]] /\ Fault
           \/ /\ \E S : job' = [job EXCEPT ![p] = [job[p] EXCEPT !.applied = S, !.bad = TRUE]]
              /\ Fault
  <2>1. CASE UndoFails(p)
    <3>1. /\ \E S : job' = [job EXCEPT ![p] = [job[p] EXCEPT !.applied = S, !.bad = TRUE]]
          /\ Fault /\ pc[p] = "undo"
      BY <1>1, <2>1 DEF UndoFails, TypeOK
    <3>2. Moves(p, "undo", "undo")
      BY <1>1, <2>1, <3>1, MovesNowhere DEF UndoFails
    <3>3. QED
      BY <3>1, <3>2
  <2>2. CASE UndoConf(p)
    <3>1. /\ \/ Proceeds(p) /\ UNCHANGED faults
             \/ /\ job' = [job EXCEPT ![p] = [job[p] EXCEPT !.bad = TRUE]] /\ Fault
          /\ pc[p] = "undoconf"
      BY <1>1, <2>2 DEF UndoConf, Proceeds, TypeOK
    <3>2. Moves(p, "undoconf", "undonanbbr")
      BY <1>1, <2>2, <3>1, MovesTo DEF UndoConf, Proceeds
    <3>3. QED
      BY <3>1, <3>2
  <2>3. QED
    BY <2>1, <2>2
<1>3. pc[p] \in Changing /\ t \in Changing /\ pc[p] \in Trouble /\ pc'[p] = t /\ t \in Trouble
  BY <1>2 DEF Changing, Trouble, Moves
<1>4. CASE Proceeds(p) /\ UNCHANGED faults
  BY <1>1, <1>2, <1>3, <1>4, OnlyProgress, QuietChange DEF SameRequest
<1>5. CASE ~(Proceeds(p) /\ UNCHANGED faults)
  <2> DEFINE i == job'[p]
             j == job[p]
             Spoilt == /\ i.bad = TRUE /\ i.req = j.req /\ i.wasLive = j.wasLive
                       /\ i.wasConf = j.wasConf /\ i.wasNanbbr = j.wasNanbbr
  <2>0. Fault
    BY <1>2, <1>5
  <2>1. /\ job'[p].bad = TRUE /\ job'[p].req = job[p].req
        /\ job'[p].wasLive = job[p].wasLive /\ job'[p].wasConf = job[p].wasConf
        /\ job'[p].wasNanbbr = job[p].wasNanbbr
    <3>1. CASE job' = [job EXCEPT ![p] = [job[p] EXCEPT !.bad = TRUE]]
      <4>1. job'[p] = [job[p] EXCEPT !.bad = TRUE]
        BY <1>1, <3>1, JobBecomes
      <4>2. QED
        BY <1>1, <4>1 DEF Jobs
    <3>2. ASSUME NEW S, job' = [job EXCEPT ![p] = [job[p] EXCEPT !.applied = S, !.bad = TRUE]]
          PROVE  Spoilt
      <4>1. job'[p] = [job[p] EXCEPT !.applied = S, !.bad = TRUE]
        BY <1>1, <3>2, JobBecomes
      <4>2. QED
        BY <1>1, <4>1 DEF Jobs
    <3>3. QED
      BY <1>2, <1>5, <3>1, <3>2
  <2>2. OnlyChanging(p)
    BY <1>1, <1>3, ChangingIsInside
  <2>3. OnlyChanging(p)'
    BY <1>2, <1>3, <2>2 DEF OnlyChanging, Moves
  <2>4. Found' = Found
    BY <2>1, <2>2, <2>3, FoundBySnapshot, FoundBySnapshotNext
  <2>5. Dirty' = Dirty
    BY <1>2 DEF Dirty, Moves
  <2>6. Outcome(p) \in {"open", "spoilt"} /\ Outcome(p)' = "spoilt"
    BY <1>2, <1>3, <2>1 DEF Outcome, Changing
  <2>7. /\ Outcomes' = [Outcomes EXCEPT ![p] = "spoilt"] /\ Outcomes[p] \in {"open", "spoilt"}
    BY <1>2, <2>6, OneMoves DEF Moves
  <2>8. Asked' = Asked
    BY <1>2, <2>1 DEF Asked, Moves
  <2>9. QED
    BY <1>3, <2>0, <2>4, <2>5, <2>7, <2>8 DEF Atomic!Spoil, Atomic!Goto, Atomic!Fault, Fault
<1>6. QED
  BY <1>2, <1>4, <1>5

\* The last step of a rollback.
LEMMA UndoNanbbrAborts ==
  ASSUME ApplyInv, ApplyInv', NEW p \in Handlers, UndoNanbbr(p)
  PROVE  /\ Atomic!Abort(p) \/ Atomic!AbortPartly(p)
         /\ pc'[p] \in Trouble
<1>1. p \in Procs /\ TypeOK /\ job[p] \in Jobs /\ job[p].bad \in BOOLEAN
  BY JobFields DEF Procs, ApplyInv
<1>2. /\ pc[p] = "undonanbbr" /\ UNCHANGED <<live, conf>>
      /\ \/ UNCHANGED <<job, faults>>
         \/ Fault /\ job' = [job EXCEPT ![p] = [job[p] EXCEPT !.bad = TRUE]]
  BY <1>1 DEF UndoNanbbr, TypeOK
<1>3. Moves(p, "undonanbbr", "undone")
  BY <1>1, <1>2, MovesTo DEF UndoNanbbr
<1>0. pc'[p] \in Trouble
  BY <1>3 DEF Moves, Trouble
<1>4. OnlyChanging(p) /\ Inside(p)
  BY <1>2, ChangingIsInside DEF Changing
<1>5. NoneChanging'
  BY <1>3, <1>4 DEF OnlyChanging, NoneChanging, Moves, Changing
<1>6. Dirty = touched /\ Dirty' = Dirty
  BY <1>3, <1>4 DEF ApplyInv, LockInv, Dirty, Moves
<1>7. Found' = Seen(live', conf', nanbbr') /\ Found' \in Atomic!AllSettings
  BY <1>5, FoundByReadingNext, FoundTypesNext DEF ApplyInv
<1>8. /\ Outcomes' = [Outcomes EXCEPT ![p] = Outcome(p)'] /\ Outcomes[p] = Outcome(p)
  BY <1>3, OneMoves DEF Moves
<1>9. Outcome(p) = IF job[p].bad THEN "spoilt" ELSE "open"
  BY <1>2 DEF Outcome
<1>10. Outcome(p)' = IF job'[p].bad THEN "broken" ELSE "failed"
  BY <1>3 DEF Outcome, Moves
<1>11. CASE UNCHANGED <<job, faults>>
  <2>1. Asked' = Asked
    BY <1>11 DEF Asked
  <2>2. CASE job[p].bad
    BY <1>6, <1>7, <1>8, <1>9, <1>10, <1>11, <1>0, <2>1, <2>2
       DEF Atomic!AbortPartly, Atomic!Goto
  <2>3. CASE ~job[p].bad
    <3>1. /\ \A k \in Keys \ touched : live'[k] = job[p].wasLive[k]
          /\ conf' = job[p].wasConf \/ ConfTouched
          /\ nanbbr' = job[p].wasNanbbr
      BY <1>3, <1>11, <2>3 DEF ApplyInv, Phase, Undoable, Undone, Moves, ConfTouched
    <3>2. /\ job[p].wasLive \in [Keys -> Values] /\ job[p].wasConf \in Saved
          /\ job[p].wasNanbbr \in Values \cup {None}
          /\ live' \in [Keys -> Values] /\ conf' \in Saved /\ nanbbr' \in Values \cup {None}
      BY <1>1, JobFields DEF ApplyInv, TypeOK
    <3>3. /\ Found.live = job[p].wasLive /\ Found.nanbbr = job[p].wasNanbbr
          /\ \A k \in Sysctls : Found.saved[k] = Name(job[p].wasConf[k])
      <4>1. Found = Seen(job[p].wasLive, job[p].wasConf, job[p].wasNanbbr)
        BY <1>4, FoundBySnapshot
      <4>2. QED
        BY <3>2, <4>1, SeenHas
    <3>4. \A k \in Sysctls \ Dirty : Name(conf'[k]) = Found.saved[k]
      BY <1>6, <3>1, <3>3 DEF ConfTouched
    <3>5. Atomic!Becomes(Found, Dirty)
      BY <1>6, <1>7, <3>1, <3>2, <3>3, <3>4, Became
    <3>6. QED
      BY <1>6, <1>8, <1>9, <1>10, <1>11, <1>0, <2>1, <2>3, <3>5 DEF Atomic!Abort, Atomic!Goto
  <2>4. QED
    BY <2>2, <2>3
<1>12. CASE Fault /\ job' = [job EXCEPT ![p] = [job[p] EXCEPT !.bad = TRUE]]
  <2>1. job'[p].bad = TRUE /\ job'[p].req = job[p].req
    <3>1. job'[p] = [job[p] EXCEPT !.bad = TRUE]
      BY <1>1, <1>12, JobBecomes
    <3>2. QED
      BY <1>1, <3>1 DEF Jobs
  <2>2. Asked' = Asked
    BY <1>3, <2>1 DEF Asked, Moves
  <2>3. Atomic!AbortPartly(p)
    BY <1>1, <1>6, <1>7, <1>8, <1>9, <1>10, <1>12, <2>1, <2>2
       DEF Atomic!AbortPartly, Atomic!Goto, Atomic!Fault, Fault
  <2>4. QED
    BY <1>0, <2>3
<1>13. QED
  BY <1>2, <1>11, <1>12
LEMMA AcquireIsQuiet ==
  ASSUME ApplyInv, NEW p \in Handlers, Acquire(p)
  PROVE  Still /\ \A q \in Handlers : job'[q].bad = job[q].bad /\ pc[p] \notin Trouble
<1>1. /\ pc[p] = "wait" /\ Goto(p, "check") /\ lock = {} /\ touched' = {}
      /\ UNCHANGED <<live, conf, nanbbr, job, faults>>
  BY DEF Acquire
<1>2. pc'[p] = "check" /\ \A q \in Handlers \ {p} : pc'[q] = pc[q]
  BY <1>1 DEF Goto, ApplyInv, TypeOK, Procs
<1>3. Found' = Found
  BY <1>1, <1>2, FoundStays DEF Changing
<1>4. Outcome(p)' = Outcome(p)
  BY <1>1, <1>2 DEF Outcome
<1>5. Outcomes' = Outcomes /\ Asked' = Asked
  BY <1>1, <1>2, <1>4, SameAsked
<1>6. Dirty = {} /\ Dirty' = {}
  BY <1>1 DEF Dirty
<1>7. QED
  BY <1>1, <1>3, <1>5, <1>6 DEF Still, Trouble

LEMMA RequestAsks ==
  ASSUME ApplyInv, NEW p \in Handlers, NEW r \in Requests, Request(p, r)
  PROVE  Atomic!Ask(p, r) /\ ~job'[p].bad /\ \A q \in Handlers \ {p} : job'[q] = job[q] /\ pc'[q] = pc[q]
<1>1. /\ pc[p] = "idle" /\ Goto(p, "wait") /\ job' = [job EXCEPT ![p] = [NoJob EXCEPT !.req = r]]
      /\ UNCHANGED <<live, conf, nanbbr, lock, touched, faults>>
  BY DEF Request
<1>2. p \in Procs /\ TypeOK
  BY DEF Procs, ApplyInv
<1>3. Moves(p, "idle", "wait")
  BY <1>1, <1>2, MovesTo
<1>4. job'[p] = [NoJob EXCEPT !.req = r]
  BY <1>1, <1>2, JobBecomes
<1>5. job'[p].req = r /\ ~job'[p].bad
  BY <1>4 DEF NoJob
<1>6. Found' = Found
  BY <1>1, <1>3, FoundStays DEF Moves, Changing
<1>7. Outcome(p) = "idle" /\ Outcome(p)' = "open"
  BY <1>3, <1>5 DEF Outcome, Moves
<1>8. /\ Outcomes' = [Outcomes EXCEPT ![p] = "open"] /\ Asked' = [Asked EXCEPT ![p] = r]
      /\ Outcomes[p] = "idle"
  BY <1>3, <1>5, <1>7, OneMoves DEF Moves
<1>9. Dirty' = Dirty
  BY <1>1 DEF Dirty
<1>10. QED
  BY <1>1, <1>3, <1>5, <1>6, <1>8, <1>9 DEF Atomic!Ask, Atomic!Goto, Moves

\* A request ends, or its process does.
LEMMA LeavingEnds ==
  ASSUME ApplyInv, NEW p \in Handlers, Leave(p), UNCHANGED touched
  PROVE  /\ Atomic!Ended(p)
         /\ pc'[p] = "idle" /\ ~job'[p].bad
         /\ \A q \in Handlers \ {p} : job'[q] = job[q] /\ pc'[q] = pc[q]
<1>1. p \in Procs /\ TypeOK
  BY DEF Procs, ApplyInv
<1>2. /\ pc'[p] = "idle" /\ \A q \in Procs \ {p} : pc'[q] = pc[q]
      /\ job' = [job EXCEPT ![p] = NoJob] /\ lock' = lock \ {p}
  BY <1>1, LeaveTypes DEF Leave
<1>3. job'[p] = NoJob /\ \A q \in Procs \ {p} : job'[q] = job[q]
  BY <1>1, <1>2, JobBecomes
<1>4. job'[p].req = NoReq /\ ~job'[p].bad
  BY <1>3 DEF NoJob
<1>5. Outcome(p)' = "idle"
  BY <1>2 DEF Outcome
<1>6. \A q \in Handlers \ {p} : job'[q] = job[q] /\ pc'[q] = pc[q]
  BY <1>2, <1>3 DEF Procs
<1>7. Outcomes' = [Outcomes EXCEPT ![p] = "idle"] /\ Asked' = [Asked EXCEPT ![p] = NoReq]
  BY <1>4, <1>5, <1>6, OneMoves
<1>8. lock' = {} \/ lock' = lock
  BY <1>1, <1>2 DEF TypeOK
<1>9. Dirty' \in {Dirty, {}}
  BY <1>8 DEF Dirty
<1>10. QED
  BY <1>2, <1>4, <1>6, <1>7, <1>9 DEF Atomic!Ended, Atomic!Goto

LEMMA AnswerEnds ==
  ASSUME ApplyInv, NEW p \in Handlers, Refuse(p) \/ ReadRaises(p) \/ Reply(p)
  PROVE  Atomic!End(p)
<1>1. /\ pc[p] \in {"check", "files", "live", "done", "undone"} /\ Leave(p)
      /\ UNCHANGED <<live, conf, nanbbr, touched, faults>>
  BY DEF Refuse, ReadRaises, Reply
<1>2. /\ Atomic!Ended(p) /\ pc'[p] = "idle"
      /\ \A q \in Handlers \ {p} : job'[q] = job[q] /\ pc'[q] = pc[q]
  BY <1>1, LeavingEnds
<1>3. Found' = Found
  BY <1>1, <1>2, FoundStays DEF Changing
<1>4. pc[p] \in {"check", "files", "live"} => ~job[p].bad
  BY <1>1 DEF ApplyInv, Phase, Before
<1>5. Outcomes[p] \in {"open", "done", "failed", "broken"}
  BY <1>1, <1>4 DEF Outcomes, Outcome
<1>6. QED
  BY <1>1, <1>2, <1>3, <1>5 DEF Atomic!End

\* A killed process of a handler.
LEMMA KilledDies ==
  ASSUME ApplyInv, ApplyInv', NEW p \in Handlers, Killed(p)
  PROVE  Atomic!Die(p)
<1>1. /\ pc[p] \notin {"absent", "idle"} /\ Leave(p) /\ Fault
      /\ UNCHANGED <<live, conf, nanbbr, touched>>
  BY DEF Killed
<1>2. /\ Atomic!Ended(p) /\ pc'[p] = "idle"
      /\ \A q \in Handlers \ {p} : job'[q] = job[q] /\ pc'[q] = pc[q]
  BY <1>1, LeavingEnds
<1>3. Outcomes[p] = Outcome(p)
  BY DEF Outcomes
<1>4. Outcome(p) # "idle"
  BY <1>1 DEF Outcome
<1>5. Found \in Atomic!AllSettings
  BY FoundTypes
<1>6. CASE pc[p] \in Changing
  <2>1. NoneChanging'
    BY <1>2, <1>6, ChangingIsInside DEF OnlyChanging, NoneChanging, Changing
  <2>2. Found' \in Atomic!AllSettings
    BY <2>1, FoundTypesNext DEF ApplyInv
  <2>3. Outcome(p) \in {"open", "spoilt"}
    BY <1>6 DEF Outcome, Changing
  <2>4. QED
    BY <1>1, <1>2, <1>3, <2>2, <2>3 DEF Atomic!Die, Atomic!Fault, Fault
<1>7. CASE pc[p] \notin Changing
  <2>1. Found' = Found
    BY <1>1, <1>2, <1>7, FoundStays DEF Changing
  <2>2. QED
    BY <1>1, <1>2, <1>3, <1>4, <1>5, <2>1 DEF Atomic!Die, Atomic!Fault, Fault
<1>8. QED
  BY <1>6, <1>7
\* A startup moves no handler.
LEMMA StartUpAside ==
  ASSUME ApplyInv, NEW w \in Workers, StartUp(w)
  PROVE  \A q \in Handlers : pc'[q] = pc[q] /\ job'[q] = job[q]
<1>1. PICK s \in WorkerSteps \cup {"idle"} :
        Goto(w, s) /\ (UNCHANGED job \/ Forget(w, s) \/ Recall(w, s))
  <2>1. CASE Start(w)
    BY <2>1 DEF Start, WorkerSteps
  <2>2. CASE Look(w)
    BY <2>2 DEF Look, Next1, End, Forget, Recall, WorkerSteps
  <2>3. CASE SetSavedFails(w)
    BY <2>3 DEF SetSavedFails, Next1, End, Forget, WorkerSteps
  <2>4. CASE ReadLines(w)
    BY <2>4 DEF ReadLines, Next1, Forget, Recall, WorkerSteps
  <2>5. CASE SetScheduler(w) \/ SetPathManager(w)
    BY <2>5 DEF SetScheduler, SetPathManager, Next1, End, Forget, WorkerSteps
  <2>6. CASE MoveLines(w)
    BY <2>6 DEF MoveLines, Next1, Forget, WorkerSteps
  <2>7. QED
    BY <2>1, <2>2, <2>3, <2>4, <2>5, <2>6 DEF StartUp
<1>2. Handlers \subseteq Procs /\ w \in Procs /\ w \notin Handlers
  BY MptcpAssumption DEF Procs
<1>3. \A q \in Procs \ {w} : pc'[q] = pc[q]
  BY <1>1, <1>2, PcChanges DEF ApplyInv
<1>4. \A q \in Handlers : job'[q] = job[q]
  BY <1>1, WorkerTypes DEF ApplyInv
<1>5. QED
  BY <1>2, <1>3, <1>4

LEMMA StartUpWrites ==
  ASSUME ApplyInv, ApplyInv', NEW S \in SUBSET Sysctls,
         \A q \in Handlers : pc'[q] = pc[q] /\ job'[q] = job[q],
         UNCHANGED <<nanbbr, lock, faults>>,
         touched' \in {touched, touched \cup S},
         \A k \in Keys \ S : live'[k] = live[k],
         \A k \in Sysctls \ S : Name(conf'[k]) = Name(conf[k])
  PROVE  Atomic!StartUp
<1>1. Outcomes' = Outcomes /\ Asked' = Asked
  BY NoneMoves
<1>0. Atomic!Sysctls = Sysctls
  BY DEF Atomic!Sysctls, Sysctls
<1>2. Dirty \subseteq Dirty' /\ Dirty' \subseteq Dirty \cup Sysctls
  BY DEF Dirty
<1>3. CASE NoneChanging
  <2>1. NoneChanging'
    BY <1>3 DEF NoneChanging
  <2>2. /\ live \in [Keys -> Values] /\ conf \in Saved /\ nanbbr \in Values \cup {None}
        /\ live' \in [Keys -> Values] /\ conf' \in Saved
    BY DEF ApplyInv, TypeOK
  <2>3. Found = Seen(live, conf, nanbbr) /\ Found' = Seen(live', conf', nanbbr)
    BY <1>3, <2>1, FoundByReading, FoundByReadingNext
  <2>4. /\ Found.live = live /\ Found.nanbbr = nanbbr
        /\ \A k \in Sysctls : Found.saved[k] = Name(conf[k])
    BY <2>2, <2>3, SeenHas
  <2>5. /\ \A k \in Keys \ S : live'[k] = Found.live[k]
        /\ \A k \in Sysctls \ S : Name(conf'[k]) = Found.saved[k]
        /\ nanbbr = Found.nanbbr
    BY <2>4
  <2>6. Atomic!Becomes(Found, Sysctls)
    BY <2>2, <2>3, <2>5, Became
  <2>7. QED
    BY <1>0, <1>1, <1>2, <2>6 DEF Atomic!StartUp
<1>4. CASE ~NoneChanging
  <2>1. PICK p \in Handlers : pc[p] \in Changing
    BY <1>4 DEF NoneChanging
  <2>2. OnlyChanging(p)
    BY <2>1, ChangingIsInside
  <2>3. OnlyChanging(p)'
    BY <2>2 DEF OnlyChanging
  <2>4. Found' = Found
    BY <2>2, <2>3, FoundBySnapshot, FoundBySnapshotNext
  <2>5. Atomic!Becomes(Found, Sysctls)
    BY <2>4, FoundTypes DEF Atomic!Becomes
  <2>6. QED
    BY <1>0, <1>1, <1>2, <2>5 DEF Atomic!StartUp
<1>5. QED
  BY <1>3, <1>4

LEMMA StartUpIsStartUp ==
  ASSUME ApplyInv, ApplyInv', NEW w \in Workers, StartUp(w)
  PROVE  Still \/ Atomic!StartUp
<1>1. \A q \in Handlers : pc'[q] = pc[q] /\ job'[q] = job[q]
  BY StartUpAside
<1>2. CASE Start(w) \/ Look(w) \/ SetSavedFails(w) \/ ReadLines(w)
  <2>1. UNCHANGED <<live, conf, nanbbr, lock, touched, faults>>
    BY <1>2 DEF Start, Look, SetSavedFails, ReadLines
  <2>2. Found' = Found
    BY <1>1, <2>1, FoundStays
  <2>3. QED
    BY <1>1, <2>1, <2>2, NoneMoves DEF Still, Dirty
<1>3. CASE SetScheduler(w) \/ SetPathManager(w)
  <2>1. PICK k \in {Scheduler, PathManager} :
          /\ \E v : live' = [live EXCEPT ![k] = v]
          /\ touched' = touched \cup {k}
          /\ UNCHANGED <<conf, nanbbr, lock, faults>>
    BY <1>3 DEF SetScheduler, SetPathManager, Writes
  <2>2. {k} \in SUBSET Sysctls
    BY <2>1, Settings DEF Scheduler, PathManager
  <2>3. \A l \in Keys \ {k} : live'[l] = live[l]
    BY <2>1 DEF ApplyInv, TypeOK
  <2>4. QED
    BY <1>1, <2>1, <2>2, <2>3, StartUpWrites
<1>4. CASE MoveLines(w)
  <2> DEFINE k == IF pc[w] = "move1" THEN Scheduler ELSE PathManager
             old == lock # {} \/ conf # job[w].wasConf
  <2>1. /\ conf' = [job[w].wasConf EXCEPT ![k] = Current]
        /\ touched' = IF old THEN touched \cup Sysctls
                      ELSE IF Name(conf[k]) # Current THEN touched \cup {k} ELSE touched
        /\ UNCHANGED <<live, nanbbr, lock, faults>>
    BY <1>4 DEF MoveLines, Writes
  <2>2. k \in Sysctls
    BY Settings DEF Scheduler, PathManager
  <2> HIDE DEF k
  <2>3. CASE old
    <3>1. Sysctls \in SUBSET Sysctls /\ touched' = touched \cup Sysctls
      BY <2>1, <2>3
    <3>2. QED
      BY <1>1, <2>1, <3>1, StartUpWrites
  <2>4. CASE ~old
    <3>1. conf' = [conf EXCEPT ![k] = Current] /\ conf \in Saved
      BY <2>1, <2>4 DEF ApplyInv, TypeOK
    <3>2. conf'[k] = Current /\ \A l \in Sysctls \ {k} : conf'[l] = conf[l]
      BY <2>2, <3>1, LinesHave
    <3>3. CASE Name(conf[k]) # Current
      <4>1. touched' = touched \cup {k} /\ {k} \in SUBSET Sysctls
        BY <2>1, <2>2, <2>4, <3>3
      <4>2. \A l \in Sysctls \ {k} : Name(conf'[l]) = Name(conf[l])
        BY <3>2
      <4>3. QED
        BY <1>1, <2>1, <4>1, <4>2, StartUpWrites
    <3>4. CASE Name(conf[k]) = Current
      <4>1. \A l \in Sysctls : Name(conf'[l]) = Name(conf[l])
        BY <3>2, <3>4, Names
      <4>2. {} \in SUBSET Sysctls /\ touched' \in {touched, touched \cup {}}
        BY <2>1, <2>4, <3>4
      <4>3. QED
        BY <1>1, <2>1, <4>1, <4>2, StartUpWrites
    <3>5. QED
      BY <3>3, <3>4
  <2>5. QED
    BY <2>3, <2>4
<1>5. QED
  BY <1>2, <1>3, <1>4 DEF StartUp

LEMMA KilledStartUp ==
  ASSUME ApplyInv, NEW w \in Procs \ Handlers, Killed(w)
  PROVE  /\ Atomic!KillStartUp
         /\ \A q \in Handlers : pc'[q] = pc[q] /\ job'[q] = job[q]
<1>1. Leave(w) /\ Fault /\ UNCHANGED <<live, conf, nanbbr, touched>>
  BY DEF Killed
<1>2. /\ \A q \in Procs \ {w} : pc'[q] = pc[q]
      /\ job' = [job EXCEPT ![w] = NoJob] /\ lock' = lock \ {w}
  BY <1>1, LeaveTypes DEF Leave, ApplyInv
<1>3. \A q \in Procs \ {w} : job'[q] = job[q]
  BY <1>2, JobBecomes DEF ApplyInv
<1>4. \A q \in Handlers : pc'[q] = pc[q] /\ job'[q] = job[q]
  BY <1>2, <1>3 DEF Procs
<1>5. lock' = lock
  BY <1>2 DEF ApplyInv, TypeOK
<1>6. Found' = Found
  BY <1>1, <1>4, FoundStays
<1>7. QED
  BY <1>1, <1>4, <1>5, <1>6, NoneMoves DEF Atomic!KillStartUp, Atomic!Fault, Fault, Dirty

LEMMA AtomicInvNext == AtomicInv /\ [Next]_vars => AtomicInv'
<1> SUFFICES ASSUME AtomicInv, [Next]_vars PROVE AtomicInv'
  OBVIOUS
<1>1. ApplyInv /\ ApplyInv' /\ TypeOK
  BY NextInv DEF AtomicInv, ApplyInv
<1>2. ASSUME NEW p \in Handlers, \A q \in Handlers \ {p} : pc'[q] = pc[q] /\ job'[q] = job[q],
             job'[p].bad => pc'[p] \in Trouble
      PROVE  BadInv'
  BY <1>2 DEF AtomicInv, BadInv
<1>3. ASSUME \A q \in Handlers : pc'[q] = pc[q] /\ job'[q] = job[q] PROVE BadInv'
  BY <1>3 DEF AtomicInv, BadInv
<1>4. ASSUME NEW p \in Handlers, Serve(p) PROVE BadInv'
  <2>1. \A q \in Handlers \ {p} : pc'[q] = pc[q] /\ job'[q] = job[q]
    <3>1. \/ UNCHANGED pc \/ \E l : Goto(p, l)
      BY <1>4 DEF Serve, Acquire, Refuse, Accept, ReadFiles, ReadLive, Set, SetFails, AllSet,
         SaveNanbbr, SaveConf, ReadRaises, SaveRaises, Undo, UndoFails, AllUndone, UndoConf,
         UndoNanbbr, Reply, Leave
    <3>2. \/ UNCHANGED job \/ \E j : job' = [job EXCEPT ![p] = j]
      BY <1>4 DEF Serve, Acquire, Refuse, Accept, ReadFiles, ReadLive, Set, SetFails, AllSet,
           SaveNanbbr, SaveConf, ReadRaises, SaveRaises, Undo, UndoFails, AllUndone, UndoConf,
         UndoNanbbr, Reply, Leave
    <3>3. QED
      BY <1>1, <3>1, <3>2 DEF Goto, TypeOK, Procs
  <2>2. job'[p].bad => pc'[p] \in Trouble
    <3>1. CASE Acquire(p)
      BY <1>1, <3>1, AcquireIsQuiet DEF AtomicInv, BadInv
    <3>2. CASE Refuse(p) \/ ReadRaises(p) \/ Reply(p)
      BY <1>1, <3>2, LeavingEnds DEF Refuse, ReadRaises, Reply
    <3>3. CASE Accept(p) \/ ReadFiles(p)
      BY <1>1, <3>3, BeginningIsQuiet DEF AtomicInv, BadInv
    <3>4. CASE ReadLive(p)
      BY <1>1, <3>4, ReadLiveReads DEF AtomicInv, BadInv
    <3>5. CASE \/ Set(p) \/ SetFails(p) \/ AllSet(p) \/ SaveNanbbr(p) \/ SaveRaises(p)
               \/ Undo(p) \/ AllUndone(p)
      BY <1>1, <3>5, WorkIsQuiet DEF AtomicInv, BadInv
    <3>6. CASE SaveConf(p)
      BY <1>1, <3>6, SaveConfCommits DEF AtomicInv, BadInv
    <3>7. CASE UndoFails(p) \/ UndoConf(p)
      BY <1>1, <3>7, UndoingSpoils
    <3>8. CASE UndoNanbbr(p)
      BY <1>1, <3>8, UndoNanbbrAborts
    <3>9. QED
      BY <1>4, <3>1, <3>2, <3>3, <3>4, <3>5, <3>6, <3>7, <3>8 DEF Serve
  <2>3. QED
    BY <1>2, <2>1, <2>2
<1>5. ASSUME NEW p \in Handlers, NEW r \in Requests, Request(p, r) PROVE BadInv'
  BY <1>1, <1>2, <1>5, RequestAsks
<1>6. ASSUME NEW w \in Workers, StartUp(w) PROVE BadInv'
  BY <1>1, <1>3, <1>6, StartUpAside
<1>7. ASSUME NEW p \in Procs, Killed(p) PROVE BadInv'
  <2>1. CASE p \in Handlers
    BY <1>1, <1>2, <1>7, <2>1, LeavingEnds DEF Killed
  <2>2. CASE p \notin Handlers
    BY <1>1, <1>3, <1>7, <2>2, KilledStartUp
  <2>3. QED
    BY <2>1, <2>2
<1>8. ASSUME UNCHANGED vars PROVE BadInv'
  BY <1>3, <1>8 DEF vars
<1>9. BadInv'
  BY <1>4, <1>5, <1>6, <1>7, <1>8 DEF Next
<1>10. QED
  BY <1>1, <1>9 DEF AtomicInv

LEMMA InitIsAtomic == Init => AtomicInv /\ Atomic!Init
<1> SUFFICES ASSUME Init PROVE AtomicInv /\ Atomic!Init
  OBVIOUS
<1>1. ApplyInv
  BY InitInv
<1>2. \A p \in Handlers : pc[p] \in {"idle", "absent"} /\ job[p] = NoJob
  BY DEF Init, Procs
<1>3. BadInv
  BY <1>2 DEF BadInv, NoJob
<1>4. Outcomes = [p \in Handlers |-> "idle"] /\ Asked = [p \in Handlers |-> NoReq]
  BY <1>2 DEF Outcomes, Outcome, Asked, NoJob
<1>5. Dirty = {} /\ faults \in Nat
  BY <1>1, MptcpAssumption DEF Init, Dirty, ApplyInv, TypeOK
<1>6. QED
  BY <1>1, <1>3, <1>4, <1>5, FoundTypes DEF AtomicInv, Atomic!Init

LEMMA NextIsAtomic == AtomicInv /\ [Next]_vars => [Atomic!Next]_(Atomic!vars)
<1> SUFFICES ASSUME AtomicInv, [Next]_vars PROVE Atomic!Next \/ Still
  BY DEF Still, Atomic!vars
<1>1. ApplyInv /\ ApplyInv'
  BY NextInv DEF AtomicInv
<1>2. ASSUME NEW p \in Handlers, Serve(p)
      PROVE  Still \/ Atomic!Commit(p) \/ Atomic!Abort(p) \/ Atomic!Spoil(p)
             \/ Atomic!AbortPartly(p) \/ Atomic!End(p) \/ Atomic!Read(p)
  BY <1>1, <1>2, AcquireIsQuiet, BeginningIsQuiet, ReadLiveReads, WorkIsQuiet, SaveConfCommits,
     UndoingSpoils, UndoNanbbrAborts, AnswerEnds DEF Serve
<1>3. ASSUME NEW p \in Handlers, NEW r \in Requests, Request(p, r) PROVE Atomic!Ask(p, r)
  BY <1>1, <1>3, RequestAsks
<1>4. ASSUME NEW w \in Workers, StartUp(w)
      PROVE  Still \/ Atomic!StartUp
  BY <1>1, <1>4, StartUpIsStartUp
<1>5. ASSUME NEW p \in Procs, Killed(p)
      PROVE  Atomic!KillStartUp \/ \E q \in Handlers : Atomic!Die(q)
  BY <1>1, <1>5, KilledDies, KilledStartUp
<1>6. CASE UNCHANGED vars
  <2>1. Found' = Found
    BY <1>1, <1>6, FoundStays DEF vars
  <2>2. QED
    BY <1>6, <2>1, NoneMoves DEF vars, Still, Dirty
<1>7. Atomic!Sysctls = Sysctls
  BY DEF Atomic!Sysctls, Sysctls
<1>8. QED
  BY <1>2, <1>3, <1>4, <1>5, <1>6, <1>7 DEF Next, Atomic!Next

\* POST /mptcp implements AtomicSettings: however requests, startups, failing
\* calls and kills interleave, the settings change by whole requests, and by
\* what faults and startups are allowed to change.
THEOREM RequestsAreAtomic == Spec => AppliesAtomically
  BY InitIsAtomic, AtomicInvNext, NextIsAtomic, PTL DEF Spec, AppliesAtomically, Atomic!Spec
=============================================================================
