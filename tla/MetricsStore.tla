---------------------------- MODULE MetricsStore ----------------------------
(***************************************************************************)
(* The JSON metrics backend: POST /metrics reads the whole file, sets one  *)
(* interface's latest report and replaces the file, under a lock that      *)
(* every worker process has for itself.  Workers are killed and restarted, *)
(* opens, reads and dumps fail.                                            *)
(***************************************************************************)
EXTENDS Naturals, FiniteSets

CONSTANTS
    Workers,
    Keys,      \* a user's interfaces, over all users
    Reports,   \* the payloads, each sent once
    None, Torn,
    MaxFaults  \* bound on kills and failing system calls

VARIABLES
    store,     \* the metrics file and its temporary file
    job,       \* what the holder of a worker's lock is doing
    sent,      \* the reports that were sent
    answered,  \* those answered "ok"
    clash,     \* two workers' writes overlap, or did when the last one began
    faults

vars == <<store, job, sent, answered, clash, faults>>

F == INSTANCE TmpFile WITH Writers <- Workers

Docs == [Keys -> Reports \cup {None}]

\* A torn text does not parse.
ASSUME TornAssumption == Torn \notin Docs

ASSUME FaultsAssumption == MaxFaults \in Nat

Empty == [k \in Keys |-> None]

\* blind: the file was there, but could not be read.
Idle == [at |-> "idle", key |-> None, report |-> None, data |-> Empty, blind |-> FALSE]

Jobs == {Idle} \cup
    [at : {"read", "open", "dumped"}, key : Keys, report : Reports, data : Docs, blind : BOOLEAN]

TypeOK ==
    /\ store \in F!Paths(Docs)
    /\ job \in [Workers -> Jobs]
    /\ sent \in SUBSET Reports
    /\ answered \in SUBSET sent
    /\ clash \in BOOLEAN
    /\ faults \in 0..MaxFaults

Init ==
    /\ store = F!Holding(Empty)
    /\ job = [w \in Workers |-> Idle]
    /\ sent = {}
    /\ answered = {}
    /\ clash = FALSE
    /\ faults = 0

Busy == {w \in Workers : job[w].at # "idle"}

\* A file that is missing or does not parse reads as one without any user.
read_all == IF store.file = Torn THEN Empty ELSE store.file

----------------------------------------------------------------------------
(* write_interface, under the worker's lock *)

\* An open or a read that raises is taken for a file without any user, too.
Read(w, k, r, fails) ==
    /\ job[w] = Idle
    /\ r \notin sent
    /\ fails => faults < MaxFaults
    /\ faults' = IF fails THEN faults + 1 ELSE faults
    /\ sent' = sent \cup {r}
    /\ job' = [job EXCEPT ![w] = [at |-> "read", key |-> k, report |-> r, blind |-> fails,
                                  data |-> [(IF fails THEN Empty ELSE read_all) EXCEPT ![k] = r]]]
    /\ clash' = (Busy # {})
    /\ UNCHANGED <<store, answered>>

\* A faulty OpenTmp: the file is emptied and written in place.
OpenInPlace(w) ==
    /\ job[w].at = "read"
    /\ store' = F!OpenedInPlace(store, w)
    /\ job' = [job EXCEPT ![w].at = "open"]
    /\ UNCHANGED <<sent, answered, clash, faults>>

OpenTmp(w) ==
    /\ job[w].at = "read"
    /\ store' = F!Opened(store, w)
    /\ job' = [job EXCEPT ![w].at = "open"]
    /\ UNCHANGED <<sent, answered, clash, faults>>

Dump(w) ==
    /\ job[w].at = "open"
    /\ store' \in F!Dumped(store, w, job[w].data)
    /\ job' = [job EXCEPT ![w].at = "dumped"]
    /\ UNCHANGED <<sent, answered, clash, faults>>

\* A faulty Replace: nothing looks whether the temporary file is there.
ReplaceBlindly(w) ==
    /\ job[w].at = "dumped"
    /\ store' = F!Replaced(store)
    /\ answered' = answered \cup {job[w].report}
    /\ job' = [job EXCEPT ![w] = Idle]
    /\ UNCHANGED <<sent, clash, faults>>

\* The report is answered "ok"; or os.replace raises, another worker having
\* renamed the file, and it is answered with a 503.
Replace(w) ==
    /\ job[w].at = "dumped"
    /\ IF store.tmp = None
       THEN UNCHANGED <<store, answered>>
       ELSE /\ store' = F!Replaced(store)
            /\ answered' = answered \cup {job[w].report}
    /\ job' = [job EXCEPT ![w] = Idle]
    /\ UNCHANGED <<sent, clash, faults>>

\* The open or the dump raises: 503.
Raise(w) ==
    /\ job[w].at \in {"read", "open"}
    /\ faults < MaxFaults
    /\ faults' = faults + 1
    /\ store' = IF job[w].at = "open" THEN F!BrokenOff(store, w) ELSE store
    /\ job' = [job EXCEPT ![w] = Idle]
    /\ UNCHANGED <<sent, answered, clash>>

\* The worker is killed; its supervisor starts another in its place.
Kill(w) ==
    /\ job[w] # Idle
    /\ faults < MaxFaults
    /\ faults' = faults + 1
    /\ store' = F!Closed(store, {w})
    /\ job' = [job EXCEPT ![w] = Idle]
    /\ UNCHANGED <<sent, answered, clash>>

Next ==
    \E w \in Workers :
        \/ \E k \in Keys, r \in Reports, fails \in BOOLEAN : Read(w, k, r, fails)
        \/ OpenTmp(w)
        \/ Dump(w)
        \/ Replace(w)
        \/ Raise(w)
        \/ Kill(w)

Spec == Init /\ [][Next]_vars

----------------------------------------------------------------------------
(* Properties *)

\* The writer at work, if it is alone, could not read the file.
Blind == \E w \in Workers : job[w].blind

Latest ==
    INSTANCE LatestMetrics WITH
        latest <- read_all, answered <- answered, clash <- clash, blind <- Blind

\* Killed or failing at any later step, a worker that writes alone stores a
\* report whole or not at all, answers "ok" only for what readers then see, and
\* drops no other interface if it could read the file: one that could not
\* replaces everything by its own report.  While two workers' writes overlap
\* nothing is promised, and once they no longer do, the store is sound again,
\* whatever they left in the two files.
LatestSpec == Latest!Spec
=============================================================================
