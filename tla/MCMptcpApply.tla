--------------------------- MODULE MCMptcpApply ---------------------------
(* Small instances of MptcpApply. *)
EXTENDS MptcpApply, TLC

CONSTANTS v1, v2, h1, h2, w1

Sym == Permutations(Handlers)

\* Two requests at once, and one worker's startups, with two faults each; and a
\* request beside a worker's startups.
SomeCasts ==
    {[procs |-> {h1, h2}, faults |-> 2], [procs |-> {w1}, faults |-> 2],
     [procs |-> {h1, w1}, faults |-> 0], [procs |-> {h2, w1}, faults |-> 0]}

\* A router that sets everything to v2, and one that sets the sysctls only, and
\* of these none that it may leave out.
SomeRequests ==
    {[sysctl |-> [k \in Sysctls |-> v2], aggr |-> v2],
     [sysctl |-> [k \in Sysctls |-> IF k \in Optional THEN None ELSE v1], aggr |-> None]}

\* A file of this version, and one of an older version.
SomeBoots ==
    {[k \in Sysctls |-> v1],
     [k \in Sysctls |-> IF k < 3 THEN Old ELSE IF k \in Optional THEN None ELSE v1]}
=============================================================================
