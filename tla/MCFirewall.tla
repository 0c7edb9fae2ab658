---------------------------- MODULE MCFirewall ----------------------------
(* Small instances of Firewall. *)
EXTENDS Firewall, TLC

CONSTANTS w1, w2, t1, t2, t3, t4, o1, r1, a1

\* The worker of each thread.
Homes == [t \in {t1, t2, t3, t4} |-> IF t = t4 THEN w2 ELSE w1]

\* Two threads of one worker, and a thread in each of two workers.
SomeCasts == {{w1, t1, t2}, {w1, w2, t3, t4}}

On(op, v) == [op |-> op, on |-> v]

Sym == Permutations({t1, t2})

\* Changes of the port chains, and a handler that has nothing to render.
PortRequests ==
    {[op |-> "add", key |-> o1], [op |-> "del", key |-> o1], [op |-> "addr", addr |-> a1],
     On("bulk", TRUE), [op |-> "other"]}

\* Changes of the flags.
FlagRequests ==
    {On("c2c", TRUE), On("sip", TRUE), On("sip", FALSE)}

SomeRequests == [t \in {t1, t2, t3, t4} |-> IF t \in {t1, t2} THEN PortRequests ELSE FlagRequests]

\* For the liveness run: one thread beside two workers.
Home1 == [t \in {t1} |-> w1]
LiveCast == {{w1, w2, t1}}
FewRequests ==
    [t \in {t1} |-> {[op |-> "add", key |-> r1], [op |-> "addr", addr |-> a1], On("sip", TRUE)}]

\* For the run that refutes PresentIsShown.
Home2 == [t \in {t1, t2} |-> w1]
OneWorker == {{w1, t1, t2}}
TwoThreadRequests == [t \in {t1, t2} |-> PortRequests]
=============================================================================
