--------------------------- MODULE MCConfigStore ---------------------------
(* Small instances of ConfigStore. *)
EXTENDS ConfigStore, TLC

CONSTANTS p, a, u1, u2, n1, s1, s2, t1, t2, t3

\* The requests below treat u1 and u2, and s1 and s2, alike.
Sym == Permutations(Threads) \cup Permutations({u1, u2}) \cup Permutations({s1, s2})

\* One request of each kind for each role a user can have.  add_user is sent
\* for usernames that are not the two shipped ones.
SomeRequests ==
    {[op |-> "global", value |-> TRUE], [op |-> "modify", user |-> p, note |-> n1]}
      \cup {[op |-> "serial", user |-> p, serial |-> s] : s \in {s1, s2}}
      \cup {[op |-> "add", user |-> u, id |-> 0] : u \in {u1, u2}}
      \cup {[op |-> "remove", user |-> u] : u \in {p, a, u1, u2}}

\* add_user does not look whether the username is taken.
TakenNameRequests ==
    {[op |-> "add", user |-> p, id |-> 0], [op |-> "remove", user |-> p],
     [op |-> "add", user |-> u1, id |-> 0]}
=============================================================================
