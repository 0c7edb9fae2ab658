---------------------------- MODULE ConfigStore ----------------------------
(***************************************************************************)
(* omr-admin-config.json as the API handlers share it.  FastAPI runs the   *)
(* handlers in thread pools of several uvicorn workers and nothing locks   *)
(* the file: a handler reads and parses it, works out the new document,    *)
(* copies the file aside, opens it with mode 'w' (which empties it) and    *)
(* dumps the document.  Any other handler may run between two of these     *)
(* steps, a step may raise, and the processes may be killed.               *)
(*                                                                         *)
(* A handler that cannot parse the file ends there: read_omr_config        *)
(* returns {} and its callers give up, json.load raises.  That leaves the  *)
(* state as it is, so it is the absence of a Begin step.                   *)
(***************************************************************************)
EXTENDS ConfigDoc

CONSTANTS Threads    \* the handler threads of all the workers

VARIABLES
    text,       \* the file's text: "whole", "empty" or "damaged"
    doc,        \* the document of the last text that parsed
    pc,         \* pc[t]: how far the handler of thread t is
    held,       \* held[t]: its request and the document it read
    up,         \* whether the service runs
    exposed     \* history: a write was cut short, or two writes overlapped

vars == <<text, doc, pc, held, up, exposed>>

Steps == {"idle", "read", "saved", "open"}

Writers == {t \in Threads : pc[t] = "open"}

TypeOK ==
    /\ text \in {"whole", "empty", "damaged"}
    /\ IsDoc(doc)
    /\ pc \in [Threads -> Steps]
    /\ DOMAIN held = {t \in Threads : pc[t] # "idle"}
    /\ held = [t \in DOMAIN held |-> [req |-> held[t].req, doc |-> held[t].doc]]
    /\ \A t \in DOMAIN held : held[t].req \in Requests /\ IsDoc(held[t].doc)
    /\ up \in BOOLEAN
    /\ exposed \in BOOLEAN

Init ==
    /\ text = "whole"
    /\ doc = ShippedDoc
    /\ pc = [t \in Threads |-> "idle"]
    /\ held = [t \in {} |-> ShippedDoc]
    /\ up = TRUE
    /\ exposed = FALSE

\* Mutant: the parsed document in a module-level variable that the handlers
\* share, as fake_users_db is.
HoldingShared(t, r, d) ==
    [s \in DOMAIN held \cup {t} |->
        IF s = t THEN [req |-> r, doc |-> d] ELSE [req |-> held[s].req, doc |-> d]]

Holding(t, r, d) ==
    [s \in DOMAIN held \cup {t} |-> IF s = t THEN [req |-> r, doc |-> d] ELSE held[s]]

\* Mutant: the document outlives the request it was read for.
FinishKeeping(S) ==
    /\ pc' = [t \in Threads |-> IF t \in S THEN "idle" ELSE pc[t]]
    /\ UNCHANGED held

\* Threads S end their request, done or not.
Finish(S) ==
    /\ pc' = [t \in Threads |-> IF t \in S THEN "idle" ELSE pc[t]]
    /\ held' = [t \in DOMAIN held \ S |-> held[t]]

\* Mutant: set_global_param without its `if not data' guard.
BeginUnguarded(t, r) ==
    LET data == IF text = "whole" THEN doc ELSE [users |-> [u \in {} |-> 0], enforce |-> FALSE] IN
    /\ up
    /\ pc[t] = "idle"
    /\ Writes(r, data)
    /\ IsDoc(Result(r, data))
    /\ pc' = [pc EXCEPT ![t] = "read"]
    /\ held' = Holding(t, r, data)
    /\ UNCHANGED <<text, doc, up, exposed>>

\* Mutant: the file is opened for writing before the comparison with what is
\* there, and left empty when there is nothing to change.
BeginOpening(t, r) ==
    /\ up
    /\ pc[t] = "idle"
    /\ text = "whole"
    /\ IF Writes(r, doc) THEN /\ IsDoc(Result(r, doc))
                              /\ pc' = [pc EXCEPT ![t] = "read"]
                              /\ held' = Holding(t, r, doc)
                              /\ UNCHANGED text
                         ELSE /\ text' = "empty"
                              /\ UNCHANGED <<pc, held>>
    /\ UNCHANGED <<doc, up, exposed>>

\* The handler reads and parses the file and works out a change to write.  The
\* bounds MaxId and MaxErr are the last conjunct of the guard.
Begin(t, r) ==
    /\ up
    /\ pc[t] = "idle"
    /\ text = "whole"
    /\ Writes(r, doc)
    /\ IsDoc(Result(r, doc))
    /\ pc' = [pc EXCEPT ![t] = "read"]
    /\ held' = Holding(t, r, doc)
    /\ UNCHANGED <<text, doc, up, exposed>>

\* check_username_serial pins a first serial without a backup.
SkipsBackup(t) ==
    held[t].req.op = "serial"
      /\ held[t].doc.users[held[t].req.user].serial = Unset

\* backup_config copied the file, whatever its text was, and pruned old copies.
Backup(t) ==
    /\ pc[t] = "read"
    /\ pc' = [pc EXCEPT ![t] = "saved"]
    /\ UNCHANGED <<text, doc, held, up, exposed>>

\* It raised instead: the disk is full, or another handler pruned the same
\* copies between the listing and the removal.
BackupRaises(t) ==
    /\ pc[t] = "read" /\ ~SkipsBackup(t)
    /\ Finish({t})
    /\ UNCHANGED <<text, doc, up, exposed>>

\* open(..., 'w') empties the file.
Truncate(t) ==
    /\ pc[t] = "saved"
    /\ pc' = [pc EXCEPT ![t] = "open"]
    /\ text' = "empty"
    /\ exposed' = (exposed \/ Writers # {})
    /\ UNCHANGED <<doc, held, up>>

\* json.dump and close.  When another handler has written since this one
\* emptied the file, the text it writes covers that one's from the start and
\* leaves whatever is longer behind it.
Dump(t) ==
    /\ pc[t] = "open"
    /\ LET new == Result(held[t].req, held[t].doc) IN
         \/ /\ text' = "whole"
            /\ doc' = new
         \/ /\ text # "empty" /\ ~(text = "whole" /\ doc = new)
            /\ text' = "damaged"
            /\ UNCHANGED doc
    /\ Finish({t})
    /\ UNCHANGED <<up, exposed>>

\* The write fails half way.
DumpRaises(t) ==
    /\ pc[t] = "open"
    /\ text' = "damaged"
    /\ exposed' = TRUE
    /\ Finish({t})
    /\ UNCHANGED <<doc, up>>

\* All the workers are killed; what they had not written is gone.
Crash ==
    /\ up
    /\ up' = FALSE
    /\ text' \in (IF Writers # {} THEN {text, "damaged"} ELSE {text})
    /\ exposed' = (exposed \/ Writers # {})
    /\ Finish(Threads)
    /\ UNCHANGED doc

\* Importing the module parses the file, and fails on a text that does not.
Start ==
    /\ ~up
    /\ text = "whole"
    /\ up' = TRUE
    /\ UNCHANGED <<text, doc, pc, held, exposed>>

Next ==
    \/ \E t \in Threads, r \in Requests : Begin(t, r)
    \/ \E t \in Threads : \/ Backup(t) \/ BackupRaises(t)
                          \/ Truncate(t) \/ Dump(t) \/ DumpRaises(t)
    \/ Crash
    \/ Start

Spec == Init /\ [][Next]_vars

----------------------------------------------------------------------------
(* Properties *)

\* A file that does not parse is the doing of a handler between its open and
\* its dump, of one that was cut short there, or of two that were there
\* together: no other order of the handlers' steps costs the configuration.
WholeUnlessExposed ==
    text # "whole" => Writers # {} \/ exposed

\* Whether the file is broken and no handler still has a document to write.
Broken == text # "whole" /\ \A t \in Threads : pc[t] = "idle"

\* A broken file is left as it is: no handler takes "I could not read it" for
\* an empty configuration and writes a document over what may be restored.
BrokenIsKept == [][Broken => Broken' /\ text' = text]_vars

\* Userids that add_user allots are unique in every stored document and in
\* every document about to be stored, however the handlers interleave.
IdsStayUnique ==
    UniqueIds(doc) /\ \A t \in DOMAIN held : UniqueIds(held[t].doc)

\* No sequence of requests removes the router's own account or its userid 0.
PrimaryStays == HasPrimary(doc)

\* The file implements a store of snapshots: what a handler writes is always
\* one request applied to one document that was stored, never to the remains
\* of another handler's write.
Store == INSTANCE SnapshotStore WITH doc <- doc, held <- held

StoreSpec == Store!Spec
=============================================================================
