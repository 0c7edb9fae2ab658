--------------------------- MODULE LatestMetrics ---------------------------
(***************************************************************************)
(* What the metrics file promises: the latest report of every interface,   *)
(* each stored whole and at once, answered "ok" only when it is stored;    *)
(* but nothing while two workers write it at the same time, and of the     *)
(* other interfaces nothing when the writer could not read the file.       *)
(***************************************************************************)
CONSTANTS
    Keys,      \* a user's interfaces, over all users
    Reports,
    None

VARIABLES
    latest,    \* the report that readers see for a key, or None
    answered,  \* the reports answered "ok"
    clash,     \* two workers write at the same time
    blind      \* the writer at work could not read the file

vars == <<latest, answered, clash, blind>>

Empty == [k \in Keys |-> None]

Init ==
    /\ latest = Empty
    /\ answered = {}
    /\ clash = FALSE
    /\ blind = FALSE

Store(k, r) ==
    /\ ~clash
    /\ latest' = [(IF blind THEN Empty ELSE latest) EXCEPT ![k] = r]
    /\ answered' \in {answered, answered \cup {r}}
    /\ blind' = FALSE
    /\ UNCHANGED clash

\* A writer comes to one at work, or begins alone, or leaves without storing.
Meet ==
    /\ clash' \in BOOLEAN
    /\ blind' \in BOOLEAN
    /\ UNCHANGED <<latest, answered>>

Clashing ==
    /\ clash
    /\ latest' \in [Keys -> Reports \cup {None}]
    /\ answered' \in SUBSET Reports
    /\ blind' \in BOOLEAN
    /\ UNCHANGED clash

Next ==
    \/ \E k \in Keys, r \in Reports : Store(k, r)
    \/ Meet
    \/ Clashing

Spec == Init /\ [][Next]_vars
=============================================================================
