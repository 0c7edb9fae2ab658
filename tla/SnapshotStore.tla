--------------------------- MODULE SnapshotStore ---------------------------
(***************************************************************************)
(* What the configuration file promises, concurrency included: each        *)
(* request works on a snapshot of a document that was really stored, and   *)
(* either replaces the stored document by that snapshot with its own       *)
(* change or leaves it alone.  There is no conflict detection: a request   *)
(* may undo what was stored since its snapshot.                            *)
(***************************************************************************)
EXTENDS ConfigDoc

CONSTANTS Threads

VARIABLES
    doc,        \* the stored document
    held        \* held[t]: the request of a thread at work, and its snapshot

vars == <<doc, held>>

Init ==
    /\ doc = ShippedDoc
    /\ held = [t \in {} |-> ShippedDoc]

Begin(t, r) ==
    /\ t \notin DOMAIN held
    /\ Writes(r, doc)
    /\ held' = [s \in DOMAIN held \cup {t} |->
                   IF s = t THEN [req |-> r, doc |-> doc] ELSE held[s]]
    /\ UNCHANGED doc

Commit(t) ==
    /\ t \in DOMAIN held
    /\ doc' = Result(held[t].req, held[t].doc)
    /\ held' = [s \in DOMAIN held \ {t} |-> held[s]]

\* Some requests end without having stored anything.
Abort(S) ==
    /\ held' = [s \in DOMAIN held \ S |-> held[s]]
    /\ UNCHANGED doc

Next ==
    \/ \E t \in Threads, r \in Requests : Begin(t, r)
    \/ \E t \in Threads : Commit(t)
    \/ \E S \in SUBSET Threads : Abort(S)

Spec == Init /\ [][Next]_vars
=============================================================================
