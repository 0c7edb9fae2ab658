--------------------------- MODULE AtomicSettings ---------------------------
(***************************************************************************)
(* What POST /mptcp promises: a request changes all the settings it names, *)
(* live and saved, or none, in one step, and says which.  Short of that    *)
(* fall only a fault (a killed process, a step of a rollback that fails)   *)
(* and, for the sysctls it writes, the startup of a worker.                *)
(***************************************************************************)
EXTENDS Integers

CONSTANTS Keys, Params, Values, None, Handlers, Requests, NoRequest

VARIABLES
    settings,   \* the kernel's, and what the two files have for the next boot
    status,     \* status[p]: how the request of p stands
    asked,      \* asked[p]: that request
    dirty,      \* sysctls a startup wrote while a request was being served
    faults      \* how many more faults there may be

vars == <<settings, status, asked, dirty, faults>>

Sysctls == Keys \ Params

\* Saved names are the ones that the running kernel knows them by.
\* A sysctl may not be saved at all.
AllSettings ==
    [live : [Keys -> Values], saved : [Sysctls -> Values \cup {None}], nanbbr : Values \cup {None}]

Named(r, k) == IF k \in Params THEN r.aggr ELSE r.sysctl[k]

\* What request r does not name stays live; of the sysctls, only what it names
\* is saved.
After(s, r) ==
    [live   |-> [k \in Keys |-> IF Named(r, k) = None THEN s.live[k] ELSE Named(r, k)],
     saved  |-> r.sysctl,
     nanbbr |-> IF r.aggr = None THEN s.nanbbr ELSE r.aggr]

\* The settings become s, but for those in S.
Becomes(s, S) ==
    /\ settings' \in AllSettings
    /\ \A k \in Keys \ S : settings'.live[k] = s.live[k]
    /\ \A k \in Sysctls \ S : settings'.saved[k] = s.saved[k]
    /\ settings'.nanbbr = s.nanbbr

Fault == faults > 0 /\ faults' = faults - 1

Goto(p, label) == status' = [status EXCEPT ![p] = label]

Init ==
    /\ settings \in AllSettings
    /\ status = [p \in Handlers |-> "idle"]
    /\ asked = [p \in Handlers |-> NoRequest]
    /\ dirty = {}
    /\ faults \in Nat

Ask(p, r) ==
    /\ status[p] = "idle" /\ Goto(p, "open")
    /\ asked' = [asked EXCEPT ![p] = r]
    /\ UNCHANGED <<settings, dirty, faults>>

Commit(p) ==
    /\ status[p] = "open" /\ Goto(p, "done")
    /\ Becomes(After(settings, asked[p]), dirty)
    /\ UNCHANGED <<asked, dirty, faults>>

Abort(p) ==
    /\ status[p] = "open" /\ Goto(p, "failed")
    /\ Becomes(settings, dirty)
    /\ UNCHANGED <<asked, dirty, faults>>

\* A step of the rollback fails; the others are still taken.
Spoil(p) ==
    /\ status[p] \in {"open", "spoilt"} /\ Goto(p, "spoilt")
    /\ Fault
    /\ UNCHANGED <<settings, asked, dirty>>

\* The answer says that the rollback is incomplete.
AbortPartly(p) ==
    /\ \/ status[p] = "spoilt" /\ UNCHANGED faults
       \/ status[p] \in {"open", "spoilt"} /\ Fault
    /\ Goto(p, "broken")
    /\ settings' \in AllSettings
    /\ UNCHANGED <<asked, dirty>>

\* What startups wrote is of no more concern once a request has ended.
Ended(p) ==
    /\ Goto(p, "idle")
    /\ asked' = [asked EXCEPT ![p] = NoRequest]
    /\ dirty' \in {dirty, {}}

\* The request is refused, or has its answer.
End(p) ==
    /\ status[p] \in {"open", "done", "failed", "broken"}
    /\ Ended(p)
    /\ UNCHANGED <<settings, faults>>

Die(p) ==
    /\ status[p] # "idle"
    /\ Fault
    /\ Ended(p)
    /\ IF status[p] \in {"open", "spoilt"} THEN settings' \in AllSettings
       ELSE UNCHANGED settings

\* A startup writes sysctls, their saved lines, or both; or is killed.
StartUp ==
    /\ UNCHANGED <<status, asked, faults>>
    /\ Becomes(settings, Sysctls)
    /\ dirty \subseteq dirty' /\ dirty' \subseteq dirty \cup Sysctls

KillStartUp == Fault /\ UNCHANGED <<settings, status, asked, dirty>>

\* A request takes its readings to be what it found, startups' writes between
\* two of them included.
Read(p) ==
    /\ status[p] = "open"
    /\ Becomes(settings, dirty)
    /\ UNCHANGED <<status, asked, dirty, faults>>

Next ==
    \/ StartUp
    \/ \E p \in Handlers :
         \/ \E r \in Requests : Ask(p, r)
         \/ Commit(p) \/ Abort(p) \/ Spoil(p) \/ AbortPartly(p) \/ End(p) \/ Die(p) \/ Read(p)
    \/ KillStartUp

Spec == Init /\ [][Next]_vars
=============================================================================
