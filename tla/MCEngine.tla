------------------------------ MODULE MCEngine ------------------------------
(* Small instances of the modules about metrics and decisions: in a behaviour *)
(* the metrics file, the model, the weights or the switch of the learning     *)
(* change, and the others stay as they began.  They share no state.           *)
EXTENDS MetricsStore, TLC

CONSTANTS
    ModelWorkers, MaxGen, BadLimit,
    Interfaces, LineReports, MaxReports, MaxDecisions,
    ToggleWorkers, Handler, MaxEvents

VARIABLES
    part,
    modelStore, made, model, adam, lock, modelJob, streak, modelFaults,
    metrics, ema, answer, reports, decisions,
    toggleStore, cache, loop, toggle, edit, last, rounds, misread, events

modelVars == <<modelStore, made, model, adam, lock, modelJob, streak, modelFaults>>
weightVars == <<metrics, ema, answer, reports, decisions>>
toggleVars == <<toggleStore, cache, loop, toggle, edit, last, rounds, misread, events>>

Sym == Permutations(Workers) \cup Permutations(Interfaces) \cup Permutations(ToggleWorkers)

M == INSTANCE LearnModel WITH
       Workers <- ModelWorkers, store <- modelStore, job <- modelJob, faults <- modelFaults

\* What the theorems about the model assume holds of this instance.
ASSUME ModelConstants == M!ConstantsOK

\* Three that are up, one of them better and dearer and one with nothing to be
\* said for it, and the two ways to be down.
Good == [online |-> TRUE, latency |-> TRUE, quality |-> 5, cost |-> 2]
Fair == [online |-> TRUE, latency |-> TRUE, quality |-> 1, cost |-> 1]
Offline == [Good EXCEPT !.online = FALSE]
Silent == [Fair EXCEPT !.latency = FALSE]
Worst == [Good EXCEPT !.quality = 0]
SomeReports == {Good, Fair, Worst, Offline, Silent}

W == INSTANCE Weights WITH Reports <- LineReports

\* What the theorems about the weights assume holds of this instance.
ASSUME WeightConstants == W!ConstantsOK

T == INSTANCE LearnToggle WITH Workers <- ToggleWorkers, store <- toggleStore

\* What the theorems about the switch assume holds of this instance.
ASSUME ToggleConstants == T!ConstantsOK

EngineInit ==
    /\ part \in {"metrics", "model", "weights", "toggle"}
    /\ Init /\ M!Init /\ W!Init /\ T!Init

EngineNext ==
    \/ part = "metrics" /\ Next /\ UNCHANGED <<part, modelVars, weightVars, toggleVars>>
    \/ part = "model" /\ M!Next /\ UNCHANGED <<part, vars, weightVars, toggleVars>>
    \/ part = "weights" /\ W!Next /\ UNCHANGED <<part, vars, modelVars, toggleVars>>
    \/ part = "toggle" /\ T!Next /\ UNCHANGED <<part, vars, modelVars, weightVars>>

EngineSpec ==
    EngineInit /\ [][EngineNext]_<<part, vars, modelVars, weightVars, toggleVars>>

----------------------------------------------------------------------------
(* The properties of LearnModel, Weights and LearnToggle *)

\* The variables of the model, of the weights and of the switch keep their types;
\* in particular, every weight of an answer is in 1..255.
EngineTypeOK ==
    /\ part = "model" => M!TypeOK
    /\ part = "weights" => W!TypeOK
    /\ part = "toggle" => T!TypeOK

\* The optimizer is the one of the model that decides.
AdamIsModels == part = "model" => M!AdamIsModels

\* The file goes back to an earlier model only by a training that took it before.
BackOnlyLate == M!BackOnlyLate

\* An interface seen down has the least weight in the next answer.
DownAtOnce == part = "weights" => W!DownAtOnce

\* The weights share out the 255.
SharedOut == part = "weights" => W!SharedOut

\* A saved disabling ends the rounds of every worker after one or two more.
FewRoundsMore == part = "toggle" => T!FewRoundsMore
=============================================================================
