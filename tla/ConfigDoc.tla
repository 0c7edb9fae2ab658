----------------------------- MODULE ConfigDoc -----------------------------
(***************************************************************************)
(* The parsed content of omr-admin-config.json and what each kind of       *)
(* handler turns it into.  A document keeps, per user, the userid, one     *)
(* setting (note: any key that modif_config_user updates), the pinned      *)
(* serial number and its error count, and one global parameter, the        *)
(* serial_enforce flag.                                                    *)
(***************************************************************************)
EXTENDS Integers

CONSTANTS
    Names,        \* usernames
    Primary,      \* "openmptcprouter", shipped with userid 0
    Admin,        \* "admin", shipped without a userid
    Notes,        \* values of the per-user setting
    Serials,      \* router serial numbers
    Unset,        \* the key is absent
    Requests,     \* the requests clients send
    MaxId,        \* bound: largest userid
    MaxErr        \* bound: largest serial_error

NoId == -1

UserRec == [id     : 0..MaxId \cup {NoId},
            note   : Notes \cup {Unset},
            serial : Serials \cup {Unset},
            err    : 0..MaxErr]

IsDoc(d) ==
    /\ d = [users |-> d.users, enforce |-> d.enforce]
    /\ DOMAIN d.users \subseteq Names
    /\ d.users \in [DOMAIN d.users -> UserRec]
    /\ d.enforce \in BOOLEAN

\* A request names its user and, where it has one, the value it carries; an
\* id of 0 in an "add" asks for the next free userid.
AllRequests ==
    [op : {"global"}, value : BOOLEAN]
      \cup [op : {"modify"}, user : Names, note : Notes]
      \cup [op : {"serial"}, user : Names, serial : Serials]
      \cup [op : {"add"}, user : Names, id : 0..MaxId]
      \cup [op : {"remove"}, user : Names]

ASSUME DocAssumption ==
    /\ Primary \in Names /\ Admin \in Names /\ Primary # Admin
    /\ Unset \notin Notes \cup Serials
    /\ MaxId \in Nat /\ MaxId >= 2
    /\ MaxErr \in Nat
    /\ Requests \subseteq AllRequests

NewUser(id) == [id |-> id, note |-> Unset, serial |-> Unset, err |-> 0]

\* The shipped admin/omr-admin-config.json.
ShippedDoc ==
    [users   |-> [u \in {Primary, Admin} |-> NewUser(IF u = Primary THEN 0 ELSE NoId)],
     enforce |-> FALSE]

Put(d, u, rec) ==
    [d EXCEPT !.users = [v \in DOMAIN d.users \cup {u} |->
                            IF v = u THEN rec ELSE d.users[v]]]

Delete(d, u) ==
    [d EXCEPT !.users = [v \in DOMAIN d.users \ {u} |-> d.users[v]]]

\* Mutant: the loop's result is used without adding one.
BadIsNextId(n, d) ==
    /\ n > 2
    /\ \A u \in DOMAIN d.users : d.users[u].id <= n
    /\ n = 3 \/ \E u \in DOMAIN d.users : d.users[u].id = n

\* add_user's loop: one more than the largest userid in use, at least 3.
IsNextId(n, d) ==
    /\ n > 2
    /\ \A u \in DOMAIN d.users : d.users[u].id < n
    /\ n = 3 \/ \E u \in DOMAIN d.users : d.users[u].id = n - 1

NextId(d) == CHOOSE n \in 3..MaxId + 1 : IsNextId(n, d)

AddedId(r, d) == IF r.id = 0 THEN NextId(d) ELSE r.id

\* Mutant: remove_user without the check for userid 0.
WritesUnprotected(r, d) ==
    \/ r.op = "global" /\ d.enforce # r.value
    \/ r.op = "modify" /\ r.user \in DOMAIN d.users /\ d.users[r.user].note # r.note
    \/ r.op = "serial" /\ d.enforce /\ r.user \in DOMAIN d.users
                       /\ d.users[r.user].serial # r.serial
    \/ r.op = "add"
    \/ r.op = "remove" /\ r.user \in DOMAIN d.users /\ d.users[r.user].id # NoId

\* Whether the handler reaches its write on document d: the other outcomes are
\* an error reply, a KeyError or "no real change", and write nothing.
Writes(r, d) ==
    \/ r.op = "global" /\ d.enforce # r.value
    \/ r.op = "modify" /\ r.user \in DOMAIN d.users /\ d.users[r.user].note # r.note
    \/ r.op = "serial" /\ d.enforce /\ r.user \in DOMAIN d.users
                       /\ d.users[r.user].serial # r.serial
    \/ r.op = "add"
    \/ r.op = "remove" /\ r.user \in DOMAIN d.users /\ d.users[r.user].id \notin {NoId, 0}

\* check_username_serial pins the first serial a user presents and counts the
\* later ones that differ.
Checked(rec, serial) ==
    IF rec.serial = Unset THEN [rec EXCEPT !.serial = serial]
                          ELSE [rec EXCEPT !.err = @ + 1]

\* The document the handler writes.
Result(r, d) ==
    CASE r.op = "global" -> [d EXCEPT !.enforce = r.value]
      [] r.op = "modify" -> Put(d, r.user, [d.users[r.user] EXCEPT !.note = r.note])
      [] r.op = "serial" -> Put(d, r.user, Checked(d.users[r.user], r.serial))
      [] r.op = "add"    -> Put(d, r.user, NewUser(AddedId(r, d)))
      [] r.op = "remove" -> Delete(d, r.user)

\* Two users never have the same userid.
UniqueIds(d) ==
    \A u, v \in DOMAIN d.users :
        d.users[u].id = d.users[v].id /\ d.users[u].id # NoId => u = v

\* The router's own account is there, with userid 0.
HasPrimary(d) ==
    Primary \in DOMAIN d.users /\ d.users[Primary].id = 0
=============================================================================
