----------------------------- MODULE LearnModel -----------------------------
(***************************************************************************)
(* The scorer in memory and on disk: every worker's model and optimizer    *)
(* under that worker's lock, trained by the background round and by        *)
(* POST /metrics/decision/train, made anew by a reset or by the watchdog,  *)
(* saved to one file that all the workers share, loaded at first use.      *)
(* PyTorch is installed and the backend keeps history.                     *)
(*                                                                         *)
(* A model is known by its generation, the making it goes back to; its     *)
(* weights are left out.                                                   *)
(***************************************************************************)
EXTENDS Naturals, FiniteSets

CONSTANTS
    Workers,
    None, Torn,
    MaxGen,    \* bound on the models made
    MaxFaults, \* bound on kills and failing saves
    BadLimit   \* _AUTO_BAD_STREAK_LIMIT

VARIABLES
    store,   \* the model file and its temporary file
    made,    \* the last generation made
    model,   \* model[w]: the generation in memory, or None before the first use
    adam,    \* adam[w]: the generation the optimizer steps, or None
    lock,    \* lock[w]: who holds _model_lock
    job,     \* job[w]: what each of the worker's threads is doing
    streak,  \* streak[w]: _auto_bad_streak
    faults

vars == <<store, made, model, adam, lock, job, streak, faults>>

\* The background round, a training request and a reset.
Threads == {"round", "train", "reset"}

F == INSTANCE TmpFile WITH Writers <- Workers \X Threads

Gens == 1..MaxGen

\* The bounds are numbers, a bad loss is needed, and what is no model is none.
ConstantsOK ==
    /\ MaxGen \in Nat /\ MaxFaults \in Nat /\ BadLimit \in Nat \ {0}
    /\ {None, Torn} \cap Gens = {} /\ None # Torn /\ None \notin Threads

\* trained: the round has something to save at its end.
Idle == [at |-> "idle", held |-> None, trained |-> FALSE]

TypeOK ==
    /\ store \in F!Paths(Gens \cup {None})
    /\ made \in 0..MaxGen
    /\ model \in [Workers -> Gens \cup {None}]
    /\ adam \in [Workers -> Gens \cup {None}]
    /\ lock \in [Workers -> Threads \cup {None}]
    /\ job \in [Workers -> [Threads -> [at : {"idle", "step", "judge", "make", "last", "save", "open", "dumped"},
                                        held : Gens \cup {None}, trained : BOOLEAN]]]
    /\ streak \in [Workers -> 0..(BadLimit - 1)]
    /\ faults \in 0..MaxFaults

\* Nothing is saved at the installation.
Init ==
    /\ store = F!Holding(None)
    /\ made = 0
    /\ model = [w \in Workers |-> None]
    /\ adam = [w \in Workers |-> None]
    /\ lock = [w \in Workers |-> None]
    /\ job = [w \in Workers |-> [t \in Threads |-> Idle]]
    /\ streak = [w \in Workers |-> 0]
    /\ faults = 0

----------------------------------------------------------------------------

JobTo(w, t, at) == job' = [job EXCEPT ![w][t].at = at]

\* _get_model, under the lock: the model in memory, the one on disk, or, when
\* there is none or it does not load, a new one.
_get_model(w) ==
    /\ model[w] = None /\ store.file \in {None, Torn} => made < MaxGen
    /\ LET new == model[w] = None /\ store.file \in {None, Torn} IN
         /\ made' = IF new THEN made + 1 ELSE made
         /\ model' = [model EXCEPT ![w] =
                IF @ # None THEN @ ELSE IF new THEN made + 1 ELSE store.file]

Take(w, t) == lock[w] = None /\ lock' = [lock EXCEPT ![w] = t]

\* A round begins for a user with enough history, or a request arrives.
Begin(w, t) ==
    /\ job[w][t] = Idle
    /\ JobTo(w, t, IF t = "reset" THEN "make" ELSE "step")
    /\ UNCHANGED <<store, made, model, adam, lock, streak, faults>>

\* _train_step: one step of the optimizer, made when there is none.
_train_step(w, t) ==
    /\ job[w][t].at = "step"
    /\ lock[w] = None
    /\ _get_model(w)
    /\ adam' = [adam EXCEPT ![w] = IF @ = None THEN model'[w] ELSE @]
    /\ JobTo(w, t, IF t = "round" THEN "judge" ELSE "last")
    /\ UNCHANGED <<store, lock, streak, faults>>

\* The next user of a round, or its end.
GoOn(w, trained) ==
    \E next \in {[Idle EXCEPT !.at = "step", !.trained = trained],
               IF trained THEN [Idle EXCEPT !.at = "last"] ELSE Idle} :
        job' = [job EXCEPT ![w]["round"] = next]

\* The step raises, before or after it has the model: a request ends with a
\* 500, a round skips the user.
StepRaises(w, t) ==
    /\ job[w][t].at = "step"
    /\ lock[w] = None
    /\ _get_model(w) \/ UNCHANGED <<made, model>>
    /\ IF t = "round" THEN GoOn(w, job[w][t].trained) ELSE job' = [job EXCEPT ![w][t] = Idle]
    /\ UNCHANGED <<store, adam, lock, streak, faults>>

\* _auto_watchdog, for a good loss or a bad one.
Judge(w, bad) ==
    /\ job[w]["round"].at = "judge"
    /\ IF bad /\ streak[w] + 1 = BadLimit
       THEN /\ JobTo(w, "round", "make")
            /\ streak' = [streak EXCEPT ![w] = 0]
       ELSE /\ GoOn(w, TRUE)
            /\ streak' = [streak EXCEPT ![w] = IF bad THEN @ + 1 ELSE 0]
    /\ UNCHANGED <<store, made, model, adam, lock, faults>>

\* A faulty MakeAnew: the optimizer of the old model is kept.
MakeAnewOldAdam(w, t) ==
    /\ job[w][t].at = "make"
    /\ made < MaxGen
    /\ Take(w, t)
    /\ made' = made + 1
    /\ model' = [model EXCEPT ![w] = made + 1]
    /\ job' = [job EXCEPT ![w][t] = [at |-> "save", held |-> made + 1, trained |-> t = "round"]]
    /\ UNCHANGED <<store, adam, streak, faults>>

\* A reset, or the watchdog's: a new model, which the lock is kept to save.
MakeAnew(w, t) ==
    /\ job[w][t].at = "make"
    /\ made < MaxGen
    /\ Take(w, t)
    /\ made' = made + 1
    /\ model' = [model EXCEPT ![w] = made + 1]
    /\ adam' = [adam EXCEPT ![w] = None]
    /\ job' = [job EXCEPT ![w][t] = [at |-> "save", held |-> made + 1, trained |-> t = "round"]]
    /\ UNCHANGED <<store, streak, faults>>

\* A faulty TakeLast: the round, too, saves without the lock.
TakeLastUnlocked(w, t) ==
    /\ job[w][t].at = "last"
    /\ lock[w] = None
    /\ _get_model(w)
    /\ job' = [job EXCEPT ![w][t] = [at |-> "save", held |-> model'[w], trained |-> FALSE]]
    /\ UNCHANGED <<store, adam, lock, streak, faults>>

\* The model to save at the end: a round keeps the lock, a request does not.
TakeLast(w, t) ==
    /\ job[w][t].at = "last"
    /\ IF t = "round" THEN Take(w, t) ELSE lock[w] = None /\ UNCHANGED lock
    /\ _get_model(w)
    /\ job' = [job EXCEPT ![w][t] = [at |-> "save", held |-> model'[w], trained |-> FALSE]]
    /\ UNCHANGED <<store, adam, streak, faults>>

----------------------------------------------------------------------------
(* _save_model *)

\* The watchdog's save is followed by the rest of the round.
SaveEnds(w, t) ==
    /\ IF job[w][t].trained THEN GoOn(w, TRUE) ELSE job' = [job EXCEPT ![w][t] = Idle]
    /\ lock' = [lock EXCEPT ![w] = IF @ = t THEN None ELSE @]

OpenTmp(w, t) ==
    /\ job[w][t].at = "save"
    /\ store' = F!Opened(store, <<w, t>>)
    /\ JobTo(w, t, "open")
    /\ UNCHANGED <<made, model, adam, lock, streak, faults>>

Dump(w, t) ==
    /\ job[w][t].at = "open"
    /\ store' \in F!Dumped(store, <<w, t>>, job[w][t].held)
    /\ JobTo(w, t, "dumped")
    /\ UNCHANGED <<made, model, adam, lock, streak, faults>>

\* It raises when another writer has renamed the file; that is only logged.
Replace(w, t) ==
    /\ job[w][t].at = "dumped"
    /\ store' = IF store.tmp = None THEN store ELSE F!Replaced(store)
    /\ SaveEnds(w, t)
    /\ UNCHANGED <<made, model, adam, streak, faults>>

SaveRaises(w, t) ==
    /\ job[w][t].at = "open"
    /\ faults < MaxFaults
    /\ faults' = faults + 1
    /\ store' = F!BrokenOff(store, <<w, t>>)
    /\ SaveEnds(w, t)
    /\ UNCHANGED <<made, model, adam, streak>>

\* The worker is killed and another started in its place.
Kill(w) ==
    /\ model[w] # None
    /\ faults < MaxFaults
    /\ faults' = faults + 1
    /\ store' = F!Closed(store, {w} \X Threads)
    /\ model' = [model EXCEPT ![w] = None]
    /\ adam' = [adam EXCEPT ![w] = None]
    /\ lock' = [lock EXCEPT ![w] = None]
    /\ job' = [job EXCEPT ![w] = [t \in Threads |-> Idle]]
    /\ streak' = [streak EXCEPT ![w] = 0]
    /\ UNCHANGED made

Next ==
    \E w \in Workers :
        \/ \E t \in Threads : \/ Begin(w, t) \/ _train_step(w, t) \/ StepRaises(w, t)
                              \/ MakeAnew(w, t) \/ TakeLast(w, t)
                              \/ OpenTmp(w, t) \/ Dump(w, t) \/ Replace(w, t)
                              \/ SaveRaises(w, t)
        \/ \E bad \in BOOLEAN : Judge(w, bad)
        \/ Kill(w)

Spec == Init /\ [][Next]_vars

----------------------------------------------------------------------------
(* Properties *)

\* The optimizer steps the model that makes the decisions: after a reset by a
\* request or by the watchdog, whichever thread it meets, no training goes
\* into the discarded one (_train_step, reset_decision, _auto_watchdog).
AdamIsModels ==
    \A w \in Workers : adam[w] # None => adam[w] = model[w]

\* A step that puts an earlier model in the file's place saves what a training held.
LateOnly ==
    \A old, new \in Gens :
        store.file = new /\ store'.file = old /\ old < new =>
            \E w \in Workers : job[w]["train"].held = old

\* A worker alone takes the file back to a model made earlier only when a
\* training request took that one before a reset and saves it after: a round
\* never brings back what a reset discarded.  (Two workers overwrite each
\* other's models at every round.)
BackOnlyLate ==
    [][LateOnly]_vars
=============================================================================
