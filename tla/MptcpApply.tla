----------------------------- MODULE MptcpApply -----------------------------
(***************************************************************************)
(* POST /mptcp as a transaction over kernel settings and the two files     *)
(* that keep them: the sysctls and the NanBBR module parameters are set    *)
(* one at a time, the congestion control last, each one read back; then    *)
(* the NanBBR file and the sysctl.d file are replaced.  Whatever fails,    *)
(* what was done is undone in reverse.  A file lock keeps requests apart,  *)
(* but a worker that starts re-applies the saved scheduler and repairs     *)
(* saved names without taking it.                                          *)
(*                                                                         *)
(* The kernel may refuse a value, accept it and read back another, or fail *)
(* to read back.  Service restarts, queued after a request has ended, and  *)
(* the loading of kernel modules are left out.                             *)
(***************************************************************************)
EXTENDS Integers

CONSTANTS
    N,          \* the kernel settings are numbered 1..N, in the order of setting
    Params,     \* those that are NanBBR module parameters
    Optional,   \* those that a request may leave out
    Values,     \* what a setting may be
    Old,        \* a saved name that the running kernel knows by another name,
    Current,    \* this one
    None,       \* no line for a setting, no NanBBR file; what a request leaves out
    Handlers,   \* threads serving POST /mptcp, of all workers
    Workers,    \* workers in their startup
    Requests,   \* the requests routers send
    Boots,      \* what 90-shadowsocks.conf may hold at boot
    Casts,      \* who takes part, and how many faults there may be
    MaxFaults   \* bound: processes killed and rollback steps failing

Keys        == 1..N
Sysctls     == Keys \ Params
Scheduler   == 1
PathManager == 2

Procs == Handlers \cup Workers

\* Only an optional setting may have no line, or no value in a request.
Lines(S) == {c \in [Sysctls -> S \cup {None}] : \A k \in Sysctls \ Optional : c[k] # None}

Saved == Lines(Values \cup {Old})

\* A blank optional setting is left out; aggr, if present, is for every module
\* parameter.
AllRequests == [sysctl : Lines(Values), aggr : Values \cup {None}]

ASSUME MptcpAssumption ==
    /\ N \in Nat /\ N >= 3 /\ Params \subseteq 3..N - 1
    /\ Optional \subseteq 3..N - 1 /\ Optional \cap Params = {}
    /\ Old \notin Values /\ None \notin Values \cup {Old} /\ Current \in Values
    /\ Handlers \cap Workers = {}
    /\ MaxFaults \in Nat
    /\ Requests \subseteq AllRequests
    /\ Casts \subseteq [procs : SUBSET Procs, faults : 0..MaxFaults]
    /\ Boots \subseteq {c \in Saved : \A k \in Sysctls : c[k] = Old => k < 3}

VARIABLES
    live,       \* live[k]: the kernel's value of setting k
    conf,       \* conf[k]: what 90-shadowsocks.conf has for sysctl k, or None
    nanbbr,     \* the aggressiveness in nanbbr-var.json, or None
    lock,       \* the processes that hold MPTCP_LOCK_FILE: none or one
    pc,         \* pc[p]: where p is
    job,        \* job[p]: what p knows
    touched,    \* history: settings a starting worker wrote since the lock was taken
    faults,     \* how many more processes may be killed or rollback steps fail
    apart       \* history: settings that may differ from what is saved, because
                \* of the boot, an incomplete rollback, a kill or a starting worker

vars == <<live, conf, nanbbr, lock, pc, job, touched, faults, apart>>

Files == {"conf", "nanbbr"}

HandlerSteps == {"wait", "check", "files", "live", "set", "nanbbr", "conf",
                 "undo", "undoconf", "undonanbbr", "done", "undone"}
WorkerSteps  == {"look1", "set1", "read1", "move1", "look2", "read2", "move2", "set2"}

\* Steps at which the lock is held.
Inside(p) == pc[p] \in HandlerSteps \ {"wait"}

\* req: the request; was: values read before the first change; applied: the
\* settings that were set, or tried; wrote: the files likewise; bad: whether
\* the rollback is incomplete.  seen: the sysctl.d file a worker has read.
NoReq == [sysctl |-> [k \in Sysctls |-> Current], aggr |-> None]

NoJob == [req |-> NoReq, wasLive |-> [k \in Keys |-> Current],
          wasConf |-> NoReq.sysctl, wasNanbbr |-> None,
          applied |-> {}, wrote |-> {}, bad |-> FALSE]

TypeOK ==
    /\ live \in [Keys -> Values]
    /\ conf \in Saved
    /\ nanbbr \in Values \cup {None}
    /\ lock \in {{}} \cup {{p} : p \in Handlers}
    /\ pc \in [Procs -> {"absent", "idle"} \cup HandlerSteps \cup WorkerSteps]
    /\ job \in [Procs -> [req : Requests \cup {NoReq}, wasLive : [Keys -> Values],
                          wasConf : Saved, wasNanbbr : Values \cup {None},
                          applied : SUBSET Keys, wrote : SUBSET Files, bad : BOOLEAN]]
    /\ touched \in SUBSET Keys
    /\ faults \in 0..MaxFaults
    /\ apart \in SUBSET Keys

\* After boot: sysctl.d has set what the kernel knew by then, which leaves out
\* a scheduler whose BPF program is not loaded yet and a path manager of old.
Init ==
    /\ conf \in Boots
    /\ live \in {v \in [Keys -> Values] :
                   \A k \in Sysctls \ {Scheduler} : conf[k] \in Values => v[k] = conf[k]}
    /\ nanbbr = None
    /\ lock = {}
    /\ \E cast \in Casts :
         /\ pc = [p \in Procs |-> IF p \in cast.procs THEN "idle" ELSE "absent"]
         /\ faults = cast.faults
    /\ job = [p \in Procs |-> NoJob]
    /\ touched = {}
    /\ apart = {Scheduler, PathManager}

Goto(p, label) == pc' = [pc EXCEPT ![p] = label]

----------------------------------------------------------------------------
(* A request *)

Uses(r) == {k \in Sysctls : r.sysctl[k] # None} \cup (IF r.aggr = None THEN {} ELSE Params)

Wanted(r, k) == IF k \in Params THEN r.aggr ELSE r.sysctl[k]

Least(S) == CHOOSE k \in S : \A l \in S : k <= l

Greatest(S) == CHOOSE k \in S : \A l \in S : l <= k

\* The rollback's order: the sysctls backwards, then the parameters backwards.
NextUndo(S) == Greatest(IF S \cap Sysctls # {} THEN S \cap Sysctls ELSE S)

Request(p, r) ==
    /\ pc[p] = "idle"
    /\ Goto(p, "wait")
    /\ job' = [job EXCEPT ![p] = [NoJob EXCEPT !.req = r]]
    /\ UNCHANGED <<live, conf, nanbbr, lock, touched, faults, apart>>

\* Mutant: no flock.
AcquireNothing(p) ==
    /\ pc[p] = "wait"
    /\ Goto(p, "check")
    /\ lock' = lock \cup {p}
    /\ touched' = {}
    /\ UNCHANGED <<live, conf, nanbbr, job, faults, apart>>

Acquire(p) ==
    /\ pc[p] = "wait"
    /\ lock = {}
    /\ Goto(p, "check")
    /\ lock' = {p}
    /\ touched' = {}
    /\ UNCHANGED <<live, conf, nanbbr, job, faults, apart>>

Fault == faults > 0 /\ faults' = faults - 1

Leave(p) ==
    /\ Goto(p, "idle")
    /\ job' = [job EXCEPT ![p] = NoJob]
    /\ lock' = lock \ {p}

\* A congestion control or an aggressiveness the kernel does not offer.
Refuse(p) ==
    /\ pc[p] = "check"
    /\ Leave(p)
    /\ UNCHANGED <<live, conf, nanbbr, touched, faults, apart>>

Accept(p) ==
    /\ pc[p] = "check"
    /\ Goto(p, "files")
    /\ UNCHANGED <<live, conf, nanbbr, lock, job, touched, faults, apart>>

ReadFiles(p) ==
    /\ pc[p] = "files"
    /\ job' = [job EXCEPT ![p].wasConf = conf, ![p].wasNanbbr = nanbbr]
    /\ Goto(p, "live")
    /\ UNCHANGED <<live, conf, nanbbr, lock, touched, faults, apart>>

ReadLive(p) ==
    /\ pc[p] = "live"
    /\ job' = [job EXCEPT ![p].wasLive = live]
    /\ Goto(p, "set")
    /\ UNCHANGED <<live, conf, nanbbr, lock, touched, faults, apart>>

Todo(p) == Uses(job[p].req) \ job[p].applied

\* The next setting is set and reads back as it should.
Set(p) ==
    /\ pc[p] = "set"
    /\ Todo(p) # {}
    /\ LET k == Least(Todo(p)) IN
         /\ live' = [live EXCEPT ![k] = Wanted(job[p].req, k)]
         /\ job' = [job EXCEPT ![p].applied = @ \cup {k}]
    /\ UNCHANGED <<conf, nanbbr, lock, pc, touched, faults, apart>>

\* Mutant: a setting counts as applied once it has read back.
SetFailsUncounted(p) ==
    /\ pc[p] = "set"
    /\ Todo(p) # {}
    /\ \E v \in Values : live' = [live EXCEPT ![Least(Todo(p))] = v]
    /\ Goto(p, "undo")
    /\ UNCHANGED <<conf, nanbbr, lock, job, touched, faults, apart>>

\* Setting it, or reading it back, raises, or something else reads back.
SetFails(p) ==
    /\ pc[p] = "set"
    /\ Todo(p) # {}
    /\ LET k == Least(Todo(p)) IN
         /\ \E v \in Values : live' = [live EXCEPT ![k] = v]
         /\ job' = [job EXCEPT ![p].applied = @ \cup {k}]
    /\ Goto(p, "undo")
    /\ UNCHANGED <<conf, nanbbr, lock, touched, faults, apart>>

AllSet(p) ==
    /\ pc[p] = "set"
    /\ Todo(p) = {}
    /\ Goto(p, "nanbbr")
    /\ UNCHANGED <<live, conf, nanbbr, lock, job, touched, faults, apart>>

\* Mutant: a request that carries no aggressiveness saves the default one.
SaveNanbbrDefault(p) ==
    /\ pc[p] = "nanbbr"
    /\ nanbbr' = IF job[p].req.aggr = None THEN Current ELSE job[p].req.aggr
    /\ job' = [job EXCEPT ![p].wrote = @ \cup {"nanbbr"}]
    /\ Goto(p, "conf")
    /\ UNCHANGED <<live, conf, lock, touched, faults, apart>>

\* Each file is replaced if its content changes, by a rename.
SaveNanbbr(p) ==
    /\ pc[p] = "nanbbr"
    /\ IF job[p].req.aggr \in {None, job[p].wasNanbbr}
       THEN UNCHANGED <<nanbbr, job>>
       ELSE /\ nanbbr' = job[p].req.aggr
            /\ job' = [job EXCEPT ![p].wrote = @ \cup {"nanbbr"}]
    /\ Goto(p, "conf")
    /\ UNCHANGED <<live, conf, lock, touched, faults, apart>>

\* What is apart when request p has ended well.
Joined(p) == (apart \ Uses(job[p].req)) \cup touched

\* The new file has a line for each sysctl of the request and, of the others,
\* none: what it had for them is dropped, and the kernel keeps its value.
SaveConf(p) ==
    /\ pc[p] = "conf"
    /\ IF job[p].req.sysctl = job[p].wasConf
       THEN UNCHANGED <<conf, job>>
       ELSE /\ conf' = job[p].req.sysctl
            /\ job' = [job EXCEPT ![p].wrote = @ \cup {"conf"}]
    /\ Goto(p, "done")
    /\ apart' = Joined(p)
    /\ UNCHANGED <<live, nanbbr, lock, touched, faults>>

\* A read before the first change raises: there is nothing to undo.
ReadRaises(p) ==
    /\ pc[p] \in {"files", "live"}
    /\ Leave(p)
    /\ UNCHANGED <<live, conf, nanbbr, touched, faults, apart>>

\* Writing a file raises, before the rename or after it.
SaveRaises(p) ==
    /\ \/ /\ pc[p] = "nanbbr" /\ job[p].req.aggr \notin {None, job[p].wasNanbbr}
          /\ nanbbr' \in {nanbbr, job[p].req.aggr}
          /\ job' = [job EXCEPT ![p].wrote = @ \cup {"nanbbr"}]
          /\ UNCHANGED conf
       \/ /\ pc[p] = "conf" /\ job[p].req.sysctl # job[p].wasConf
          /\ conf' \in {conf, job[p].req.sysctl}
          /\ job' = [job EXCEPT ![p].wrote = @ \cup {"conf"}]
          /\ UNCHANGED nanbbr
    /\ Goto(p, "undo")
    /\ UNCHANGED <<live, lock, touched, faults, apart>>

Undo(p) ==
    /\ pc[p] = "undo"
    /\ job[p].applied # {}
    /\ LET k == NextUndo(job[p].applied) IN
         /\ job' = [job EXCEPT ![p].applied = @ \ {k}]
         /\ live' = [live EXCEPT ![k] = job[p].wasLive[k]]
    /\ UNCHANGED <<conf, nanbbr, lock, pc, touched, faults, apart>>

\* A setting that cannot be restored does not stop the rollback.
UndoFails(p) ==
    /\ pc[p] = "undo"
    /\ job[p].applied # {}
    /\ Fault
    /\ LET k == NextUndo(job[p].applied) IN
         /\ job' = [job EXCEPT ![p].applied = @ \ {k}, ![p].bad = TRUE]
         /\ \E v \in Values : live' = [live EXCEPT ![k] = v]
         /\ apart' = apart \cup {k}
    /\ UNCHANGED <<conf, nanbbr, lock, pc, touched>>

AllUndone(p) ==
    /\ pc[p] = "undo"
    /\ job[p].applied = {}
    /\ Goto(p, "undoconf")
    /\ UNCHANGED <<live, conf, nanbbr, lock, job, touched, faults, apart>>

\* Mutant: the sysctl.d file is not put back.
UndoConfLate(p) ==
    /\ pc[p] = "undoconf"
    /\ Goto(p, "undonanbbr")
    /\ UNCHANGED <<live, conf, nanbbr, lock, job, touched, faults, apart>>

UndoConf(p) ==
    /\ pc[p] = "undoconf"
    /\ Goto(p, "undonanbbr")
    /\ \/ /\ conf' = IF "conf" \in job[p].wrote THEN job[p].wasConf ELSE conf
          /\ UNCHANGED <<job, faults, apart>>
       \/ /\ "conf" \in job[p].wrote
          /\ Fault /\ UNCHANGED conf
          /\ job' = [job EXCEPT ![p].bad = TRUE]
          /\ apart' = apart \cup Sysctls
    /\ UNCHANGED <<live, nanbbr, lock, touched>>

UndoNanbbr(p) ==
    /\ pc[p] = "undonanbbr"
    /\ Goto(p, "undone")
    /\ \/ /\ nanbbr' = IF "nanbbr" \in job[p].wrote THEN job[p].wasNanbbr ELSE nanbbr
          /\ apart' = apart \cup touched
          /\ UNCHANGED <<job, faults>>
       \/ /\ "nanbbr" \in job[p].wrote
          /\ Fault /\ UNCHANGED nanbbr
          /\ job' = [job EXCEPT ![p].bad = TRUE]
          /\ apart' = apart \cup touched \cup Params
    /\ UNCHANGED <<live, conf, lock, touched>>

Reply(p) ==
    /\ pc[p] \in {"done", "undone"}
    /\ Leave(p)
    /\ UNCHANGED <<live, conf, nanbbr, touched, faults, apart>>

----------------------------------------------------------------------------
(* The startup of a worker *)

Name(v) == IF v = Old THEN Current ELSE v

Start(w) ==
    /\ pc[w] = "idle"
    /\ Goto(w, "look1")
    /\ UNCHANGED <<live, conf, nanbbr, lock, job, touched, faults, apart>>

\* A worker has done with the scheduler, or with everything; or it goes on with
\* the file as it has just read it.
Forget(w, label) == Goto(w, label) /\ job' = [job EXCEPT ![w] = NoJob]
Next1(w) == Forget(w, "look2")
End(w)   == Forget(w, "idle")

Recall(w, label) == Goto(w, label) /\ job' = [job EXCEPT ![w].wasConf = conf]

\* load_mptcp_bpf_schedulers, when one was loaded, and then
\* normalize_persisted_mptcp_path_manager read the file.
Look(w) ==
    /\ \/ pc[w] = "look1" /\ (Recall(w, "set1") \/ Next1(w))
       \/ pc[w] = "look2" /\ (IF conf[PathManager] = Old THEN Forget(w, "read2") ELSE End(w))
    /\ UNCHANGED <<live, conf, nanbbr, lock, touched, faults, apart>>

\* What a worker's write does to the history: the settings S are as saved only
\* if no request is under way and the file is still as the worker read it.
Writes(S, fresh) ==
    /\ touched' = touched \cup S
    /\ apart' = IF lock = {} /\ fresh THEN apart \ S ELSE apart \cup S

\* `sysctl -w', tried five times: the scheduler as the worker read it.
SetScheduler(w) ==
    /\ pc[w] = "set1"
    /\ LET v == Name(job[w].wasConf[Scheduler]) IN
         /\ live' = [live EXCEPT ![Scheduler] = v]
         /\ Writes({Scheduler}, Name(conf[Scheduler]) = v)
    /\ IF job[w].wasConf[Scheduler] = Old THEN Forget(w, "read1") ELSE Next1(w)
    /\ UNCHANGED <<conf, nanbbr, lock, faults>>

SetPathManager(w) ==
    /\ pc[w] = "set2"
    /\ live' = [live EXCEPT ![PathManager] = Current]
    /\ Writes({PathManager}, Name(conf[PathManager]) = Current)
    /\ End(w)
    /\ UNCHANGED <<conf, nanbbr, lock, faults>>

SetSavedFails(w) ==
    /\ \/ pc[w] = "set1" /\ Next1(w)
       \/ pc[w] = "set2" /\ End(w)
    /\ UNCHANGED <<live, conf, nanbbr, lock, touched, faults, apart>>

\* _rewrite_sysctl_conf_line: reads the file, then moves a copy with one line
\* changed over it; what raises in between is only logged.
ReadLines(w) ==
    /\ \/ pc[w] = "read1" /\ (Recall(w, "move1") \/ Next1(w))
       \/ pc[w] = "read2" /\ (Recall(w, "move2") \/ Forget(w, "set2"))
    /\ UNCHANGED <<live, conf, nanbbr, lock, touched, faults, apart>>

\* Moving the copy changes no other line if the file is still the one read; the
\* line itself may have been repaired or replaced since the worker looked.
MoveLines(w) ==
    /\ pc[w] \in {"move1", "move2"}
    /\ LET k == IF pc[w] = "move1" THEN Scheduler ELSE PathManager IN
         /\ conf' = [job[w].wasConf EXCEPT ![k] = Current]
         /\ IF lock # {} \/ conf # job[w].wasConf THEN Writes(Sysctls, FALSE)
            ELSE IF Name(conf[k]) # Current THEN Writes({k}, FALSE)
            ELSE UNCHANGED <<touched, apart>>
    /\ IF pc[w] = "move1" THEN Next1(w) ELSE Forget(w, "set2")
    /\ UNCHANGED <<live, nanbbr, lock, faults>>

----------------------------------------------------------------------------
\* A process dies; the kernel drops its lock.
Killed(p) ==
    /\ pc[p] \notin {"absent", "idle"}
    /\ Fault
    /\ Leave(p)
    /\ apart' = IF ~Inside(p) \/ pc[p] \in {"done", "undone"} THEN apart
                ELSE apart \cup touched \cup job[p].applied
                       \cup (IF "conf" \in job[p].wrote THEN Sysctls ELSE {})
                       \cup (IF "nanbbr" \in job[p].wrote THEN Params ELSE {})
    /\ UNCHANGED <<live, conf, nanbbr, touched>>

Serve(p) ==
    \/ Acquire(p) \/ Refuse(p) \/ Accept(p) \/ ReadFiles(p) \/ ReadLive(p)
    \/ Set(p) \/ SetFails(p) \/ AllSet(p) \/ SaveNanbbr(p) \/ SaveConf(p)
    \/ ReadRaises(p) \/ SaveRaises(p) \/ Undo(p) \/ UndoFails(p) \/ AllUndone(p)
    \/ UndoConf(p) \/ UndoNanbbr(p) \/ Reply(p)

StartUp(w) ==
    \/ Start(w) \/ Look(w) \/ SetScheduler(w) \/ SetPathManager(w)
    \/ SetSavedFails(w) \/ ReadLines(w) \/ MoveLines(w)

Next ==
    \/ \E p \in Handlers : Serve(p) \/ \E r \in Requests : Request(p, r)
    \/ \E w \in Workers : StartUp(w)
    \/ \E p \in Procs : Killed(p)

Spec == Init /\ [][Next]_vars

----------------------------------------------------------------------------
(* Properties *)

\* A request that reports an error, with a rollback it reports complete, has
\* changed nothing: neither a setting nor a file.
ErrorRestores ==
    \A p \in Handlers :
        pc[p] = "undone" /\ ~job[p].bad /\ touched = {} =>
            live = job[p].wasLive /\ conf = job[p].wasConf /\ nanbbr = job[p].wasNanbbr

\* A request that reports success has the kernel and the files as it asked for:
\* a setting it left out is no longer saved.
DoneApplies ==
    \A p \in Handlers :
        pc[p] = "done" /\ touched = {} =>
            /\ \A k \in Uses(job[p].req) : live[k] = Wanted(job[p].req, k)
            /\ conf = job[p].req.sysctl
            /\ job[p].req.aggr \in {None, nanbbr}

\* Between requests the kernel runs with what is saved for the next boot,
\* except where the boot itself, a kill, a rollback reported incomplete or a
\* worker's write from a stale reading set them apart, until a request or a
\* startup joins them again.  Of an optional setting that a request left out
\* nothing is saved and nothing said: the kernel keeps its value until it boots.
SavedIsLive ==
    lock = {} =>
        /\ \A k \in Sysctls \ apart : conf[k] # None => live[k] = Name(conf[k])
        /\ \A k \in Params \ apart : nanbbr \in {None, live[k]}

\* A request changes all its settings or none, in one step, but for faults and
\* the startup of a worker.  Until it has succeeded or has been undone, they
\* are what it found.
Changing == {"set", "nanbbr", "conf", "undo", "undoconf", "undonanbbr"}

Seen(v, c, n) == [live |-> v, saved |-> [k \in Sysctls |-> Name(c[k])], nanbbr |-> n]

Found ==
    IF \E p \in Handlers : pc[p] \in Changing
    THEN LET j == job[CHOOSE p \in Handlers : pc[p] \in Changing] IN
         Seen(j.wasLive, j.wasConf, j.wasNanbbr)
    ELSE Seen(live, conf, nanbbr)

Outcome(p) ==
    CASE pc[p] \in {"absent", "idle"} -> "idle"
      [] pc[p] = "done" -> "done"
      [] pc[p] = "undone" -> IF job[p].bad THEN "broken" ELSE "failed"
      [] OTHER -> IF job[p].bad THEN "spoilt" ELSE "open"

Outcomes == [p \in Handlers |-> Outcome(p)]
Asked    == [p \in Handlers |-> job[p].req]
Dirty    == IF lock = {} THEN {} ELSE touched

Atomic == INSTANCE AtomicSettings WITH
    NoRequest <- NoReq, settings <- Found, status <- Outcomes, asked <- Asked, dirty <- Dirty

\* POST /mptcp is atomic: the settings, saved and live, go from what they were
\* to what a request asks for, or stay.  A setting it does not name is left as it
\* was in the kernel; the aggressiveness stays saved, and an optional sysctl's
\* saved line goes.  Only faults and workers' startups change anything else.
AppliesAtomically == Atomic!Spec
=============================================================================
