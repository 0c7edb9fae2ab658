------------------------------ MODULE Weights ------------------------------
(***************************************************************************)
(* GET /metrics/decision: from the latest report of every interface to the *)
(* integer weights of the routes, by way of the scores, the costs, the     *)
(* moving average that every worker keeps for itself, and exploration.     *)
(*                                                                         *)
(* Probabilities are exact: a distribution holds numerators over one       *)
(* denominator.  A report's quality stands for the blend of its figures,   *)
(* or for what the scorer makes of them.                                   *)
(***************************************************************************)
EXTENDS Integers, FiniteSets, Functions

CONSTANTS
    Workers,
    Interfaces,
    Reports,       \* the reports that arrive
    MaxReports,    \* bound on their number
    MaxDecisions   \* bound on the decisions

VARIABLES
    metrics,   \* the latest reports: interface -> report
    ema,       \* ema[w]: _weight_ema of the worker
    answer,    \* the last decision: what it was about, what it guessed, its weights
    reports, decisions

vars == <<metrics, ema, answer, reports, decisions>>

\* EMA_ALPHA, in tenths.
Alpha == 3

\* A quality may be nothing at all; a cost that is not positive counts as 1.
ConstantsOK ==
    /\ IsFiniteSet(Interfaces)
    /\ Reports \subseteq [online : BOOLEAN, latency : BOOLEAN, quality : Nat, cost : Nat \ {0}]
    /\ MaxReports \in Nat /\ MaxDecisions \in Nat

NoShares == [num |-> <<>>, den |-> 1]

NoAnswer == [about |-> <<>>, guessed |-> {}, nan |-> FALSE, shares |-> NoShares, weights |-> <<>>]

Init ==
    /\ metrics = <<>>
    /\ ema = [w \in Workers |-> NoShares]
    /\ answer = NoAnswer
    /\ reports = 0
    /\ decisions = 0

----------------------------------------------------------------------------
(* Arithmetic *)

gcd[p \in Nat \X Nat] == IF p[2] = 0 THEN p[1] ELSE gcd[<<p[2], p[1] % p[2]>>]

Lowest(d) ==
    LET g == FoldFunction(LAMBDA a, b : gcd[<<a, b>>], d.den, d.num)
    IN [num |-> [i \in DOMAIN d.num |-> d.num[i] \div g], den |-> d.den \div g]

Normalised(num) == Lowest([num |-> num, den |-> SumFunction(num)])

Equal(I) == [num |-> [i \in I |-> 1], den |-> Cardinality(I)]

----------------------------------------------------------------------------
(* Scores *)

\* The check failed, or there is no round-trip time.
Down(p) == ~p.online \/ ~p.latency

\* Raw scores divided by the costs, as shares; equal ones when all are zero.
\* The costs come as divisors of a common multiple.
_apply_cost(raw, m) ==
    LET common == FoldFunction(LAMBDA p, n : p.cost * n, 1, m)
        scaled == [i \in DOMAIN m |-> raw[i] * (common \div m[i].cost)]
    IN IF SumFunction(scaled) = 0 THEN Equal(DOMAIN m) ELSE Normalised(scaled)

_compute_weights_heuristic(m) ==
    _apply_cost([i \in DOMAIN m |-> IF Down(m[i]) THEN 0 ELSE m[i].quality], m)

\* Softmax over scores that are minus infinity for an interface that is down, and
\* that leaves no other one without a share.  With all of them down, or a score
\* that is no number (nan), no share is a number: equal ones meet the costs then.
_compute_weights(m, nan) ==
    IF nan \/ \A i \in DOMAIN m : Down(m[i])
    THEN _apply_cost([i \in DOMAIN m |-> 1], m)
    ELSE _apply_cost([i \in DOMAIN m |-> IF Down(m[i]) THEN 0
                                        ELSE IF m[i].quality = 0 THEN 1 ELSE m[i].quality], m)

\* The reports carried on into the future: a round-trip time that is missing is
\* made up from earlier ones, where there are any; the quality stands for the
\* other figures as they will be.
_predict_payload(m, guessed) ==
    [i \in DOMAIN m |-> IF i \in guessed THEN [m[i] EXCEPT !.latency = TRUE] ELSE m[i]]

\* A faulty _apply_ema: an interface that is down is averaged like the others.
_apply_emaSlow(prev, p) ==
    LET old(i) == IF i \in DOMAIN prev.num THEN prev.num[i] * p.den ELSE p.num[i] * prev.den
        new == [i \in DOMAIN p.num |-> Alpha * p.num[i] * prev.den + (10 - Alpha) * old(i)]
    IN Normalised(new)

\* A faulty _apply_ema: the shares are not made whole again.
_apply_emaOpen(prev, p) ==
    LET old(i) == IF i \in DOMAIN prev.num THEN prev.num[i] * p.den ELSE p.num[i] * prev.den
        new == [i \in DOMAIN p.num |->
                  IF p.num[i] = 0 THEN 0
                  ELSE Alpha * p.num[i] * prev.den + (10 - Alpha) * old(i)]
    IN Lowest([num |-> new, den |-> 10 * p.den * prev.den])

\* The new shares against the worker's last ones.  An interface without any
\* starts at its own; one whose share is zero has none at once.
_apply_ema(prev, p) ==
    LET old(i) == IF i \in DOMAIN prev.num THEN prev.num[i] * p.den ELSE p.num[i] * prev.den
        new == [i \in DOMAIN p.num |->
                  IF p.num[i] = 0 THEN 0
                  ELSE Alpha * p.num[i] * prev.den + (10 - Alpha) * old(i)]
    IN IF SumFunction(new) = 0 THEN [num |-> new, den |-> 1] ELSE Normalised(new)

\* With some probability every share is multiplied by a positive factor: here
\* by two for one interface.
_maybe_explore(d) ==
    {d} \cup {Normalised([d.num EXCEPT ![i] = 2 * @]) : i \in DOMAIN d.num}

\* A faulty IntWeight: no least weight.
IntWeightZero(n, den) == (2 * 255 * n + den) \div (2 * den)

\* max(1, round(p * 255))
IntWeight(n, den) == LET r == (2 * 255 * n + den) \div (2 * den) IN IF r < 1 THEN 1 ELSE r

----------------------------------------------------------------------------
(* Requests *)

With(m, i, r) == [j \in DOMAIN m \cup {i} |-> IF j = i THEN r ELSE m[j]]

set_metrics(i, r) ==
    /\ reports < MaxReports
    /\ reports' = reports + 1
    /\ metrics' = With(metrics, i, r)
    /\ UNCHANGED <<ema, answer, decisions>>

\* InfluxDB's latest points go back one day.
Expire(i) ==
    /\ i \in DOMAIN metrics
    /\ reports < MaxReports
    /\ reports' = reports + 1
    /\ metrics' = Restrict(metrics, DOMAIN metrics \ {i})
    /\ UNCHANGED <<ema, answer, decisions>>

\* Those whose missing round-trip time a prediction may replace.
Guessable == SUBSET {i \in DOMAIN metrics : ~metrics[i].latency}

\* A worker decides, with PyTorch or without, and asked to predict or not (then
\* nothing is guessed); the average is kept before the exploration and before
\* the rounding.
get_decision(w, torch, guessed, nan) ==
    /\ metrics # <<>>
    /\ decisions < MaxDecisions
    /\ decisions' = decisions + 1
    /\ nan => torch
    /\ LET seen == _predict_payload(metrics, guessed)
           shares == IF torch THEN _compute_weights(seen, nan) ELSE _compute_weights_heuristic(seen)
           smoothed == _apply_ema(ema[w], shares)
       IN /\ ema' = [ema EXCEPT ![w] = smoothed]
          /\ \E d \in _maybe_explore(smoothed) :
               answer' = [about |-> metrics, guessed |-> guessed, nan |-> nan, shares |-> shares,
                          weights |-> [i \in DOMAIN d.num |-> IntWeight(d.num[i], d.den)]]
    /\ UNCHANGED <<metrics, reports>>

Next ==
    \/ \E i \in Interfaces : (\E r \in Reports : set_metrics(i, r)) \/ Expire(i)
    \/ \E w \in Workers, torch, nan \in BOOLEAN, guessed \in Guessable :
          get_decision(w, torch, guessed, nan)

Spec == Init /\ [][Next]_vars

----------------------------------------------------------------------------
(* Properties *)

TypeOK ==
    /\ DOMAIN metrics \subseteq Interfaces /\ \A i \in DOMAIN metrics : metrics[i] \in Reports
    /\ \A w \in Workers : DOMAIN ema[w].num \subseteq Interfaces /\ ema[w].den \in Nat \ {0}
    /\ \A i \in DOMAIN answer.weights : answer.weights[i] \in 1..255
    /\ reports \in 0..MaxReports
    /\ decisions \in 0..MaxDecisions

\* An interface that is down while another is up gets the least weight in the
\* very next answer, whichever worker gives it and whatever that worker's
\* average was, with exploration or without ("the offline mask bypasses EMA").
\* Two answers do otherwise.  One that predicts makes up a round-trip time for an
\* interface that has none, and takes it for reachable; an interface that is
\* reported offline is masked all the same.  And a model whose scores are no
\* numbers gives every interface the same, until the watchdog or a reset.
DownAtOnce ==
    LET m == answer.about
        Masked(i) == ~m[i].online \/ (~m[i].latency /\ i \notin answer.guessed)
    IN  ~answer.nan /\ (\E i \in DOMAIN m : ~Down(m[i]) /\ m[i].quality > 0) =>
          \A i \in DOMAIN m : Masked(i) => answer.weights[i] = 1

\* The weights share out the 255, but for rounding and the least weight of 1,
\* through changes of interfaces and of their state: a worker's average stays a
\* whole however long it has not been asked (_apply_ema's renormalising).
SharedOut ==
    LET n == Cardinality(DOMAIN answer.weights) IN
      n > 0 => SumFunction(answer.weights) \in (255 - n)..(255 + n)
=============================================================================
