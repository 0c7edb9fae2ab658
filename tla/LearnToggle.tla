---------------------------- MODULE LearnToggle ----------------------------
(***************************************************************************)
(* The switch of the background learning: POST /metrics/decision/auto      *)
(* writes it to omr-admin-config.json and to the serving worker's cache;   *)
(* every worker's loop reads it through a cache of 60 seconds before it    *)
(* sleeps, and trains when it wakes.  Another handler rewrites the same    *)
(* file in place.                                                          *)
(***************************************************************************)
EXTENDS Naturals, FiniteSets

CONSTANTS
    Workers,
    Handler,     \* a handler that rewrites the configuration file in place
    None, Torn,
    MaxEvents    \* bound on requests, kills and failing writes together

VARIABLES
    store,    \* the configuration file and its temporary file
    cache,    \* cache[w]: what _auto_cfg_cache says, or None once it is 60 s old
    loop,     \* loop[w]: the background task
    toggle,   \* toggle[w]: the request that keeps the worker's event loop
    edit,     \* what the other handler read and will write
    last,     \* the last answer, until the next request or its worker's end
    rounds,   \* rounds[w]: the training rounds begun since then, 3 for more
    misread,  \* there is none, or the file has said or seemed to say enabled since
    events

vars == <<store, cache, loop, toggle, edit, last, rounds, misread, events>>

Editors == Workers \cup {Handler}

F == INSTANCE TmpFile WITH Writers <- Editors

\* Of the document, auto_learning.enabled.
Docs == BOOLEAN

\* What the theorems assume of the constants.
ConstantsOK ==
    /\ Handler \notin Workers
    /\ None \notin BOOLEAN /\ Torn \notin BOOLEAN
    /\ MaxEvents \in Nat

NoLoop == [at |-> "none", on |-> TRUE, reread |-> FALSE]

NoToggle == [at |-> "none", on |-> TRUE]

TypeOK ==
    /\ store \in F!Paths(Docs)
    /\ cache \in [Workers -> BOOLEAN \cup {None}]
    /\ loop \in [Workers -> [at : {"none", "asleep", "round"}, on : BOOLEAN, reread : BOOLEAN]]
    /\ toggle \in [Workers -> [at : {"none", "read", "open", "dumped", "failed", "saved"}, on : BOOLEAN]]
    /\ edit \in [at : {"none", "read", "open"}, data : Docs \cup {None}]
    /\ last \in [by : Workers, on : BOOLEAN, saved : BOOLEAN] \cup {None}
    /\ rounds \in [Workers -> 0..3]
    /\ misread \in BOOLEAN
    /\ events \in 0..MaxEvents

Init ==
    /\ store = F!Holding(TRUE)
    /\ cache = [w \in Workers |-> None]
    /\ loop = [w \in Workers |-> NoLoop]
    /\ toggle = [w \in Workers |-> NoToggle]
    /\ edit = [at |-> "none", data |-> None]
    /\ last = None
    /\ rounds = [w \in Workers |-> 0]
    /\ misread = TRUE
    /\ events = 0

----------------------------------------------------------------------------
(* _auto_cfg *)

\* A file that does not parse leaves the default: enabled.
FileOn == store.file # FALSE

Looked(w) == IF cache[w] = None THEN FileOn ELSE cache[w]

_auto_cfg(w) ==
    /\ cache' = [cache EXCEPT ![w] = Looked(w)]
    /\ misread' = (misread \/ (store.file = Torn /\ cache[w] = None))

\* The event loop of a worker serves one thing at a time.
Free(w) == toggle[w] = NoToggle

\* 60 seconds pass.
Age(w) ==
    /\ Free(w)
    /\ cache[w] # None
    /\ cache' = [cache EXCEPT ![w] = None]
    /\ UNCHANGED <<store, loop, toggle, edit, last, rounds, misread, events>>

\* A status request or a decision looks at the configuration.
Look(w) ==
    /\ Free(w) /\ loop[w].at # "none"
    /\ cache[w] = None
    /\ _auto_cfg(w)
    /\ loop' = [loop EXCEPT ![w].reread = TRUE]
    /\ UNCHANGED <<store, toggle, edit, last, rounds, events>>

----------------------------------------------------------------------------
(* The background task *)

\* The loop takes the configuration and goes to sleep with it.
Sleep(w) ==
    /\ _auto_cfg(w)
    /\ loop' = [loop EXCEPT ![w] = [at |-> "asleep", on |-> Looked(w), reread |-> FALSE]]

start_auto_learning(w) ==
    /\ Free(w) /\ loop[w].at = "none"
    /\ Sleep(w)
    /\ UNCHANGED <<store, toggle, edit, last, rounds, events>>

\* The interval is 60 seconds at least: a cache that nothing has read again
\* since the loop lay down is old.
MayWake(w) ==
    /\ Free(w) /\ loop[w].at = "asleep"
    /\ loop[w].reread \/ cache[w] = None

\* What the loop obeys is the configuration it took before it slept.
Train(w) ==
    /\ MayWake(w) /\ loop[w].on
    /\ loop' = [loop EXCEPT ![w].at = "round"]
    /\ rounds' = [rounds EXCEPT ![w] = IF last # None /\ @ < 3 THEN @ + 1 ELSE @]
    /\ UNCHANGED <<store, cache, toggle, edit, last, misread, events>>

\* Disabled, or too little memory for a round.
PassOver(w) ==
    /\ MayWake(w)
    /\ Sleep(w)
    /\ UNCHANGED <<store, toggle, edit, last, rounds, events>>

\* _auto_learn_round ends; it ran beside the event loop.
RoundEnds(w) ==
    /\ Free(w) /\ loop[w].at = "round"
    /\ Sleep(w)
    /\ UNCHANGED <<store, toggle, edit, last, rounds, events>>

----------------------------------------------------------------------------
(* _auto_set_enabled *)

Ask(w, on) ==
    /\ Free(w) /\ loop[w].at # "none"
    /\ events < MaxEvents
    /\ events' = events + 1
    /\ toggle' = [toggle EXCEPT ![w] =
           IF store.file = Torn
           THEN [at |-> "failed", on |-> on]
           ELSE [at |-> "read", on |-> on]]
    /\ last' = None
    /\ rounds' = [v \in Workers |-> 0]
    /\ misread' = TRUE
    /\ UNCHANGED <<store, cache, loop, edit>>

ToggleTo(w, at) == toggle' = [toggle EXCEPT ![w].at = at]

OpenTmp(w) ==
    /\ toggle[w].at = "read"
    /\ store' = F!Opened(store, w)
    /\ ToggleTo(w, "open")
    /\ UNCHANGED <<cache, loop, edit, last, rounds, misread, events>>

\* A read-only file system refuses the temporary file.
OpenRaises(w) ==
    /\ toggle[w].at = "read"
    /\ events < MaxEvents
    /\ events' = events + 1
    /\ ToggleTo(w, "failed")
    /\ UNCHANGED <<store, cache, loop, edit, last, rounds, misread>>

Dump(w) ==
    /\ toggle[w].at = "open"
    /\ store' \in F!Dumped(store, w, toggle[w].on)
    /\ ToggleTo(w, "dumped")
    /\ UNCHANGED <<cache, loop, edit, last, rounds, misread, events>>

Replace(w) ==
    /\ toggle[w].at = "dumped"
    /\ IF store.tmp = None
       THEN ToggleTo(w, "failed") /\ UNCHANGED store
       ELSE ToggleTo(w, "saved") /\ store' = F!Replaced(store)
    /\ UNCHANGED <<cache, loop, edit, last, rounds, misread, events>>

\* A faulty Answer: the cache is looked at, not overwritten.
AnswerUncached(w) ==
    /\ toggle[w].at \in {"saved", "failed"}
    /\ cache' = [cache EXCEPT ![w] = Looked(w)]
    /\ loop' = [loop EXCEPT ![w].reread = TRUE]
    /\ last' = IF \A v \in Workers \ {w} : Free(v)
               THEN [by |-> w, on |-> toggle[w].on, saved |-> toggle[w].at = "saved"]
               ELSE None
    /\ misread' = (FileOn \/ last' = None)
    /\ UNCHANGED rounds
    /\ toggle' = [toggle EXCEPT ![w] = NoToggle]
    /\ UNCHANGED <<store, edit, events>>

\* The cache is read again and overwritten, saved or not, and the request is
\* answered.
Answer(w) ==
    /\ toggle[w].at \in {"saved", "failed"}
    /\ cache' = [cache EXCEPT ![w] = toggle[w].on]
    /\ loop' = [loop EXCEPT ![w].reread = TRUE]
    /\ last' = IF \A v \in Workers \ {w} : Free(v)
               THEN [by |-> w, on |-> toggle[w].on, saved |-> toggle[w].at = "saved"]
               ELSE None
    /\ UNCHANGED rounds
    /\ toggle' = [toggle EXCEPT ![w] = NoToggle]
    /\ misread' = (FileOn \/ last' = None)
    /\ UNCHANGED <<store, edit, events>>

----------------------------------------------------------------------------
(* The other handler, and kills *)

EditReads ==
    /\ edit.at = "none"
    /\ events < MaxEvents
    /\ store.file # Torn
    /\ events' = events + 1
    /\ edit' = [at |-> "read", data |-> store.file]
    /\ UNCHANGED <<store, cache, loop, toggle, last, rounds, misread>>

EditOpens ==
    /\ edit.at = "read"
    /\ store' = F!OpenedInPlace(store, Handler)
    /\ edit' = [edit EXCEPT !.at = "open"]
    /\ UNCHANGED <<cache, loop, toggle, last, rounds, misread, events>>

EditDumps ==
    /\ edit.at = "open"
    /\ store' \in F!Dumped(store, Handler, edit.data)
    /\ edit' = [at |-> "none", data |-> None]
    /\ misread' = (misread \/ store'.file # FALSE)
    /\ UNCHANGED <<cache, loop, toggle, last, rounds, events>>

\* A worker dies between any two steps; another starts in its place.
Kill(w) ==
    /\ loop[w].at # "none"
    /\ events < MaxEvents
    /\ events' = events + 1
    /\ store' = F!Closed(store, {w})
    /\ cache' = [cache EXCEPT ![w] = None]
    /\ loop' = [loop EXCEPT ![w] = NoLoop]
    /\ toggle' = [toggle EXCEPT ![w] = NoToggle]
    /\ last' = IF last # None /\ last.by = w THEN None ELSE last
    /\ rounds' = IF last' = None THEN [v \in Workers |-> 0] ELSE rounds
    /\ misread' = (misread \/ last' = None)
    /\ UNCHANGED <<edit>>

Next ==
    \/ EditReads \/ EditOpens \/ EditDumps
    \/ \E w \in Workers :
        \/ Age(w) \/ Look(w)
        \/ start_auto_learning(w) \/ Train(w) \/ PassOver(w) \/ RoundEnds(w)
        \/ \E on \in BOOLEAN : Ask(w, on)
        \/ OpenTmp(w) \/ OpenRaises(w) \/ Dump(w) \/ Replace(w) \/ Answer(w)
        \/ Kill(w)

Spec == Init /\ [][Next]_vars

----------------------------------------------------------------------------
(* Properties *)

\* A saved disabling lets the worker that served it begin one more round, the
\* one its loop had already decided on, and another worker two, the second from
\* a cache that was not a minute old; unless the file could not be parsed when
\* it was read, which enables (_auto_cfg, _auto_learn_loop).
FewRoundsMore ==
    last # None /\ last.saved /\ ~last.on /\ ~misread =>
        \A w \in Workers : rounds[w] <= IF w = last.by THEN 1 ELSE 2

\* "In that degraded case the toggle lasts until the next process restart": an
\* unsaved disabling, too, lets the worker that served it, which has not been
\* restarted since, begin no more than the round its loop had decided on
\* (_auto_set_enabled).  It does not last: _auto_cfg reads the file again once
\* the cache is 60 seconds old, and the loop trains on.
UnsavedLasts ==
    last # None /\ ~last.saved /\ ~last.on => rounds[last.by] <= 1
=============================================================================
