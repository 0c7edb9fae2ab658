--------------------------- MODULE ProvisionProofs ---------------------------
(***************************************************************************)
(* Theorems about Provision, for any users and any bounds.                 *)
(***************************************************************************)
EXTENDS Provision, WellFoundedInduction, TLAPS

Adding == job.op = "add"

Removing == job.op = "remove"

\* The services the request has visited.
Visited == {Plan(job.op)[i] : i \in 1..(job.at - 1)}

\* The request has given its user a port, or has the one to take away.
HasPort == Removing \/ (Adding /\ "shadowsocks" \in Visited)

\* A request that adds keeps its record to itself until it is saved; one that
\* removes has the user's.
JobInv ==
    /\ Removing /\ "config" \notin Visited => users[job.user] = job.rec
    /\ Removing /\ "config" \in Visited => users[job.user] = None
    /\ Adding /\ "config" \in Visited => users[job.user] = job.rec
    /\ Adding /\ "shadowsocks" \notin Visited /\ job.rec.port = 0 => NextPort + 1 \in Ports
    /\ HasPort => job.rec.port # 0

\* userid 0's port is nobody else's, and stays.
FirstPort ==
    /\ Taken \in disk["shadowsocks"]
    /\ \A u \in Users : users[u] # None => users[u].port # 0

\* A certificate is out of reach only once its entry was dropped.
PkiInv ==
    /\ pki \in [revoked : SUBSET Users, lost : SUBSET Users, loose : SUBSET Users, again : SUBSET Users]
    /\ pki.lost \cup pki.loose \subseteq pki.again

Base ==
    /\ TypeOK
    /\ PkiInv
    /\ DOMAIN disk = NameFiles \cup KeyFiles
    /\ JobInv
    /\ FirstPort

----------------------------------------------------------------------------
(* The plans *)

PlanSteps == {"openvpn", "shadowsocks", "ssgo", "v2ray", "xray", "config",
             "glorytun_tcp", "glorytun_udp", "dsvpn", "mqvpn", "softether"}

\* Each plan visits every service and the configuration once.
LEMMA Plans ==
  ASSUME NEW op \in {"add", "remove"}
  PROVE  /\ Len(Plan(op)) = 11 /\ Len(AddPlan) = 11
         /\ \A i \in 1..11 : Plan(op)[i] \in PlanSteps
         /\ \A s \in PlanSteps : \E i \in 1..11 : Plan(op)[i] = s
         /\ \A i, j \in 1..11 : Plan(op)[i] = Plan(op)[j] => i = j
<1>1. Len(AddPlan) = 11 /\ Len(RemovePlan) = 11
  BY DEF AddPlan, RemovePlan
<1>2. \A i \in 1..11 : i = 1 \/ i = 2 \/ i = 3 \/ i = 4 \/ i = 5 \/ i = 6 \/ i = 7 \/ i = 8 \/ i = 9
                        \/ i = 10 \/ i = 11
  OBVIOUS
<1>3. /\ AddPlan[1] = "openvpn" /\ AddPlan[2] = "shadowsocks" /\ AddPlan[3] = "ssgo"
      /\ AddPlan[4] = "v2ray" /\ AddPlan[5] = "xray" /\ AddPlan[6] = "config"
      /\ AddPlan[7] = "glorytun_tcp" /\ AddPlan[8] = "glorytun_udp" /\ AddPlan[9] = "dsvpn"
      /\ AddPlan[10] = "mqvpn" /\ AddPlan[11] = "softether"
  BY DEF AddPlan
<1>4. /\ RemovePlan[1] = "shadowsocks" /\ RemovePlan[2] = "ssgo" /\ RemovePlan[3] = "v2ray"
      /\ RemovePlan[4] = "xray" /\ RemovePlan[5] = "config" /\ RemovePlan[6] = "openvpn"
      /\ RemovePlan[7] = "glorytun_tcp" /\ RemovePlan[8] = "glorytun_udp" /\ RemovePlan[9] = "dsvpn"
      /\ RemovePlan[10] = "mqvpn" /\ RemovePlan[11] = "softether"
  BY DEF RemovePlan
<1>5. CASE op = "add"
  <2>1. Plan(op) = AddPlan
    BY <1>5 DEF Plan
  <2>2. \A i \in 1..11 : Plan(op)[i] \in PlanSteps
    BY <1>2, <1>3, <2>1 DEF PlanSteps
  <2>3. \A s \in PlanSteps : \E i \in 1..11 : Plan(op)[i] = s
    BY <1>3, <2>1 DEF PlanSteps
  <2>4. \A i, j \in 1..11 : Plan(op)[i] = Plan(op)[j] => i = j
    BY <1>2, <1>3, <2>1
  <2>5. QED
    BY <1>1, <2>1, <2>2, <2>3, <2>4
<1>6. CASE op = "remove"
  <2>1. Plan(op) = RemovePlan
    BY <1>6 DEF Plan
  <2>2. \A i \in 1..11 : Plan(op)[i] \in PlanSteps
    BY <1>2, <1>4, <2>1 DEF PlanSteps
  <2>3. \A s \in PlanSteps : \E i \in 1..11 : Plan(op)[i] = s
    BY <1>4, <2>1 DEF PlanSteps
  <2>4. \A i, j \in 1..11 : Plan(op)[i] = Plan(op)[j] => i = j
    BY <1>2, <1>4, <2>1
  <2>5. QED
    BY <1>1, <2>1, <2>2, <2>3, <2>4
<1>7. QED
  BY <1>5, <1>6

\* Adding gives a port at its second step.
LEMMA AddBegins ==
  ASSUME NEW i \in 1..11
  PROVE  /\ AddPlan[i] = "openvpn" <=> i = 1
         /\ AddPlan[i] = "shadowsocks" <=> i = 2
         /\ AddPlan[i] = "config" <=> i = 6
  BY DEF AddPlan

----------------------------------------------------------------------------
(* The next port and the next userid *)

LEMMA MaxIsMost ==
  ASSUME NEW b \in Nat, NEW S, S \subseteq 0..b, S # {}
  PROVE  Max(S) \in S /\ \A y \in S : Max(S) >= y
<1> DEFINE T == {b - x : x \in S}
<1>1. T \subseteq Nat /\ T # {}
  <2>1. \A x \in S : b - x \in Nat
    OBVIOUS
  <2>2. PICK x \in S : TRUE
    OBVIOUS
  <2>3. b - x \in T
    OBVIOUS
  <2>4. QED
    BY <2>1, <2>3
<1>2. PICK t \in T : \A s \in T : <<s, t>> \notin OpToRel(<, Nat)
  BY <1>1, NatLessThanWellFounded, WFMin
<1>3. PICK x \in S : t = b - x
  BY <1>2
<1>4. ASSUME NEW y \in S PROVE x >= y
  <2>1. b - y \in T
    OBVIOUS
  <2>2. <<b - y, t>> \notin OpToRel(<, Nat)
    BY <1>2, <2>1
  <2>3. ~(b - y < t)
    BY <1>1, <1>2, <2>1, <2>2 DEF OpToRel
  <2>4. QED
    BY <1>3, <2>3
<1>5. QED
  BY <1>4 DEF Max

LEMMA BaseTypes ==
  ASSUME Base
  PROVE  /\ users \in [Users -> Records \cup {None}]
         /\ DOMAIN disk = NameFiles \cup KeyFiles
         /\ \A f \in NameFiles : disk[f] \in SUBSET Users
         /\ disk["shadowsocks"] \in SUBSET [port : Ports, who : Users \cup {None}]
         /\ \A f \in KeyFiles \ {"shadowsocks"} : disk[f] \in SUBSET [id : Ids, who : Users]
         /\ daemon \in [Daemons -> SUBSET Users]
         /\ job \in Serving \cup {Idle}
         /\ dirty \in SUBSET Users /\ stray \in SUBSET Users /\ faults \in 0..MaxFaults
         /\ adds \in 0..MaxAdds /\ PkiInv
  BY DEF Base, TypeOK

LEMMA NextPortIsNew ==
  ASSUME ConstantsOK, Base
  PROVE  /\ NextPort \in Nat /\ NextPort > 0
         /\ \A a \in disk["shadowsocks"] : a.port < NextPort
<1> DEFINE S == {a.port : a \in disk["shadowsocks"]}
<1>1. S \subseteq 0..LastPort
  BY BaseTypes DEF Ports
<1>2. Taken.port \in S
  BY DEF Base, FirstPort
<1>3. LastPort \in Nat
  BY DEF ConstantsOK
<1>4. PICK m \in S : m = Max(S) /\ \A p \in S : m >= p
  BY <1>1, <1>2, <1>3, MaxIsMost
<1>5. NextPort = 1 + m
  BY <1>4 DEF NextPort
<1>6. m \in 0..LastPort /\ \A p \in S : p \in 0..LastPort
  BY <1>1, <1>4
<1>7. NextPort \in Nat /\ NextPort > 0
  BY <1>3, <1>5, <1>6
<1>8. ASSUME NEW a \in disk["shadowsocks"] PROVE a.port < NextPort
  <2>1. a.port \in S
    OBVIOUS
  <2>2. m >= a.port /\ a.port \in 0..LastPort
    BY <1>4, <1>6, <2>1
  <2>3. QED
    BY <1>3, <1>5, <1>6, <2>2
<1>9. QED
  BY <1>7, <1>8

LEMMA NextIdIsNew ==
  ASSUME ConstantsOK, Base
  PROVE  \A u \in Users : users[u] # None => users[u].id < NextId
<1> DEFINE V == {v \in Users : users[v] # None}
           S == {2} \cup {users[u].id : u \in V}
<1>1. \A u \in V : users[u].id \in 3..LastId
  BY BaseTypes DEF Records, Ids
<1>2. LastId \in Nat
  BY DEF ConstantsOK
<1>3. PICK b \in Nat : b >= 2 /\ b >= LastId
  BY <1>2
<1>4. S \subseteq 0..b /\ S # {}
  BY <1>1, <1>2, <1>3
<1>5. PICK m \in S : m = Max(S) /\ \A i \in S : m >= i
  BY <1>3, <1>4, MaxIsMost
<1>6. NextId = 1 + m
  BY <1>5 DEF NextId
<1>7. m \in 0..b
  BY <1>4, <1>5
<1>8. ASSUME NEW u \in Users, users[u] # None PROVE users[u].id < NextId
  <2>1. users[u].id \in S
    BY <1>8
  <2>2. m >= users[u].id /\ users[u].id \in 0..b
    BY <1>4, <1>5, <2>1
  <2>3. QED
    BY <1>3, <1>6, <1>7, <2>2
<1>9. QED
  BY <1>8

----------------------------------------------------------------------------
(* The request that is served *)

LEMMA Served ==
  ASSUME Base, job # Idle
  PROVE  /\ job \in Serving /\ job.op \in {"add", "remove"} /\ job.user \in Users
         /\ job.at \in 1..11 /\ job.rec \in Records /\ job.lost \in BOOLEAN
         /\ Adding <=> ~Removing
<1>1. job \in Serving
  BY BaseTypes
<1>2. Len(AddPlan) = 11
  BY Plans
<1>3. QED
  BY <1>1, <1>2 DEF Serving, Adding, Removing

LEMMA NobodyServed ==
  ASSUME job = Idle
  PROVE  ~Adding /\ ~Removing /\ ~HasPort /\ job.user = None
  BY DEF Idle, Adding, Removing, HasPort

LEMMA StepsVisited ==
  ASSUME Base, job # Idle, NEW s, s = Plan(job.op)[job.at]
  PROVE  /\ s \in PlanSteps /\ s \notin Visited /\ Visited \subseteq PlanSteps
         /\ job.at = 1 => Visited = {}
         /\ job.at = 11 => Visited \cup {s} = PlanSteps
         /\ \A n : n = job.at + 1 => {Plan(job.op)[i] : i \in 1..(n - 1)} = Visited \cup {s}
         /\ Adding => /\ s = "openvpn" <=> job.at = 1
                      /\ s = "shadowsocks" <=> job.at = 2
                      /\ "shadowsocks" \in Visited <=> job.at > 2
                      /\ "config" \in Visited => "shadowsocks" \in Visited
<1>1. job.op \in {"add", "remove"} /\ job.at \in 1..11
  BY Served
<1>2. s \in PlanSteps /\ Visited \subseteq PlanSteps
  BY <1>1, Plans DEF Visited
<1>3. s \notin Visited
  BY <1>1, Plans DEF Visited
<1>4. job.at = 1 => Visited = {}
  BY <1>1 DEF Visited
<1>5. \A n : n = job.at + 1 => {Plan(job.op)[i] : i \in 1..(n - 1)} = Visited \cup {s}
  <2>1. 1..((job.at + 1) - 1) = 1..(job.at - 1) \cup {job.at}
    BY <1>1
  <2>2. QED
    BY <2>1 DEF Visited
<1>6. job.at = 11 => Visited \cup {s} = PlanSteps
  <2>1. job.at = 11 => Visited \cup {s} = {Plan(job.op)[i] : i \in 1..11}
    BY <1>5
  <2>2. {Plan(job.op)[i] : i \in 1..11} = PlanSteps
    BY <1>1, Plans
  <2>3. QED
    BY <2>1, <2>2
<1>7. ASSUME Adding
      PROVE  /\ s = "openvpn" <=> job.at = 1
             /\ s = "shadowsocks" <=> job.at = 2
             /\ "shadowsocks" \in Visited <=> job.at > 2
             /\ "config" \in Visited => "shadowsocks" \in Visited
  <2>1. Plan(job.op) = AddPlan
    BY <1>7 DEF Adding, Plan
  <2>2. /\ s = "openvpn" <=> job.at = 1
        /\ s = "shadowsocks" <=> job.at = 2
    BY <1>1, <2>1, AddBegins
  <2>3. "shadowsocks" \in Visited <=> job.at > 2
    <3>1. 2 \in 1..11 /\ AddPlan[2] = "shadowsocks"
      BY AddBegins
    <3>2. \A i \in 1..(job.at - 1) : i \in 1..11
      BY <1>1
    <3>3. "shadowsocks" \in Visited <=> \E i \in 1..(job.at - 1) : AddPlan[i] = "shadowsocks"
      BY <2>1 DEF Visited
    <3>4. "shadowsocks" \in Visited <=> \E i \in 1..(job.at - 1) : i = 2
      BY <3>2, <3>3, AddBegins
    <3>5. QED
      BY <1>1, <3>4
  <2>4. "config" \in Visited => job.at > 6
    <3>1. \A i \in 1..(job.at - 1) : i \in 1..11
      BY <1>1
    <3>2. "config" \in Visited => \E i \in 1..(job.at - 1) : AddPlan[i] = "config"
      BY <2>1 DEF Visited
    <3>3. "config" \in Visited => \E i \in 1..(job.at - 1) : i = 6
      BY <3>1, <3>2, AddBegins
    <3>4. QED
      BY <1>1, <3>3
  <2>5. QED
    BY <1>1, <2>2, <2>3, <2>4
<1>8. QED
  BY <1>2, <1>3, <1>4, <1>5, <1>6, <1>7

\* Where a step leaves the request.
LEMMA OnwardGoes ==
  ASSUME Base, job # Idle, NEW s, s = Plan(job.op)[job.at], NEW lost \in BOOLEAN, Onward(lost)
  PROVE  /\ job.at < 11 =>
              /\ job' \in Serving /\ job' # Idle /\ job'.op = job.op /\ job'.user = job.user
              /\ job'.rec = job.rec /\ job'.lost = (job.lost \/ lost) /\ job'.at = job.at + 1
              /\ Visited' = Visited \cup {s} /\ dirty' = dirty
              /\ (Adding' <=> Adding) /\ (Removing' <=> Removing)
         /\ job.at = 11 =>
              /\ job' = Idle /\ Visited \cup {s} = PlanSteps
              /\ dirty' = IF job.lost \/ lost THEN dirty \cup {job.user}
                          ELSE IF Removing THEN dirty \ {job.user} ELSE dirty
         /\ faults' = IF lost THEN faults + 1 ELSE faults
<1>1. Len(Plan(job.op)) = 11 /\ Len(AddPlan) = 11
  BY Served, Plans
<1>2. CASE job.at < 11
  <2>0. PICK m \in BOOLEAN : m = (job.lost \/ lost)
    OBVIOUS
  <2> DEFINE j == [job EXCEPT !.at = @ + 1, !.lost = m]
  <2>1. job' = j /\ dirty' = dirty
    BY <1>1, <1>2, <2>0 DEF Onward
  <2>2. /\ j.op = job.op /\ j.user = job.user /\ j.rec = job.rec /\ j.at = job.at + 1
        /\ j.lost = m
    BY Served DEF Serving
  <2>3. j \in Serving
    <3>1. job.at + 1 \in 1..11
      BY <1>2, Served
    <3>2. job \in [op : {"add", "remove"}, user : Users, at : 1..11, rec : Records, lost : BOOLEAN]
      BY <1>1, Served DEF Serving
    <3>3. j \in [op : {"add", "remove"}, user : Users, at : 1..11, rec : Records, lost : BOOLEAN]
      BY <3>1, <3>2
    <3>4. QED
      BY <1>1, <3>3 DEF Serving
  <2> HIDE DEF j
  <2>4. Visited' = Visited \cup {s}
    <3>1. Visited' = {Plan(job.op)[i] : i \in 1..(job'.at - 1)}
      BY <2>1, <2>2 DEF Visited
    <3>2. job'.at = job.at + 1
      BY <2>1, <2>2
    <3>3. QED
      BY <3>1, <3>2, StepsVisited
  <2>5. job' # Idle /\ (Adding' <=> Adding) /\ (Removing' <=> Removing)
    BY <2>1, <2>2, Served DEF Idle, Adding, Removing
  <2>6. QED
    BY <1>2, <2>0, <2>1, <2>2, <2>3, <2>4, <2>5 DEF Onward
<1>3. CASE job.at = 11
  BY <1>1, <1>3, StepsVisited DEF Onward, Removing
<1>4. QED
  BY <1>2, <1>3, Served

----------------------------------------------------------------------------
(* What a step does, whichever service it visits *)

KeyIn(f, a) == IF f = "shadowsocks" THEN a.port ELSE a.id

Entry(f, u, r) ==
    IF f = "shadowsocks" THEN [port |-> r.port, who |-> u] ELSE [id |-> r.id, who |-> u]

\* What the request leaves in a service's file.
LeftIn(f) ==
    LET others == {a \in disk[f] : KeyIn(f, a) # KeyIn(f, job.rec)}
        name == IF Skipped(f) THEN {} ELSE {job.user}
    IN  IF f \in NameFiles
        THEN IF Removing THEN disk[f] \ {job.user} ELSE disk[f] \cup name
        ELSE IF Removing THEN others ELSE others \cup {Entry(f, job.user, job.rec)}

\* What it leaves in a daemon, if it is heard.
ToldTo(d) ==
    IF Removing THEN job.user \notin daemon'[d]
    ELSE \/ Skipped(d) \/ job.user \in daemon'[d]
         \/ d = "mqvpn" /\ job.user \in disk[d] /\ daemon'[d] = daemon[d]

\* Every step but the one that gives a port: it changes its own service only, and
\* what that keeps for its own user, or under its user's key.
Visit(s, lost) ==
    /\ job # Idle /\ s = Plan(job.op)[job.at] /\ (Adding => s # "shadowsocks")
    /\ Onward(lost)
    /\ lost => s \in Daemons /\ faults < MaxFaults
    /\ DOMAIN disk' = DOMAIN disk
    /\ \A f \in NameFiles \cup KeyFiles : disk'[f] = IF f = s THEN LeftIn(f) ELSE disk[f]
    /\ daemon' \in [Daemons -> SUBSET Users]
    /\ \A d \in Daemons : d = s \/ daemon'[d] = daemon[d]
    /\ \A d \in Daemons, v \in Users \ {job.user} : v \in daemon'[d] <=> v \in daemon[d]
    /\ s \in Daemons /\ ~lost => ToldTo(s)
    /\ users' = IF s = "config" THEN [users EXCEPT ![job.user] = IF Adding THEN job.rec ELSE None]
                ELSE users
    /\ PkiInv'
    /\ UNCHANGED <<stray, adds>>

LEMMA PkiSame ==
  ASSUME Base, pki' = pki
  PROVE  PkiInv'
  BY BaseTypes DEF PkiInv

LEMMA EntriesDropped ==
  ASSUME ConstantsOK, Base, job.user \in Users, DropEntries
  PROVE  PkiInv'
<1> DEFINE dropped == {job.user} \cup Longer[job.user]
<1>1. dropped \subseteq Users /\ disk["openvpn"] \subseteq Users
  BY BaseTypes DEF ConstantsOK, NameFiles
<1>2. /\ pki.revoked \subseteq Users /\ pki.lost \subseteq Users
      /\ pki.loose \subseteq Users /\ pki.again \subseteq Users
      /\ pki.lost \cup pki.loose \subseteq pki.again
  BY BaseTypes DEF PkiInv
<1>3. pki' = [revoked |-> pki.revoked \ dropped,
              lost |-> pki.lost \cup (pki.revoked \cap dropped),
              loose |-> pki.loose \cup ({job.user} \cap disk["openvpn"]),
              again |-> pki.again \cup (dropped \cap (pki.revoked \cup disk["openvpn"]))]
  BY DEF DropEntries
<1>4. pki'.lost \cup pki'.loose \subseteq pki'.again
  BY <1>2, <1>3
<1>5. QED
  BY <1>1, <1>2, <1>3, <1>4 DEF PkiInv

LEMMA OnDiskIs ==
  ASSUME Base, NEW f \in NameFiles \cup KeyFiles, NEW x, OnDisk(f, x)
  PROVE  /\ DOMAIN disk' = DOMAIN disk
         /\ \A g \in NameFiles \cup KeyFiles : disk'[g] = IF g = f THEN x ELSE disk[g]
  BY BaseTypes DEF OnDisk

LEMMA CallIs ==
  ASSUME Base, NEW d \in Daemons, NEW x \in SUBSET Users, NEW lost \in BOOLEAN, Call(d, x, lost)
  PROVE  /\ daemon' \in [Daemons -> SUBSET Users]
         /\ \A e \in Daemons : e = d \/ daemon'[e] = daemon[e]
         /\ daemon'[d] = IF lost THEN daemon[d] ELSE x
         /\ lost => faults < MaxFaults
  BY BaseTypes DEF Call

LEMMA AtIsServed ==
  ASSUME Base, NEW op \in {"add", "remove"}, NEW s, At(op, s)
  PROVE  /\ job # Idle /\ s = Plan(job.op)[job.at] /\ job.user \in Users
         /\ op = "add" => Adding /\ ~Removing
         /\ op = "remove" => Removing /\ ~Adding
<1>1. job.op = op /\ s = Plan(job.op)[job.at]
  BY DEF At
<1>2. job # Idle
  BY <1>1 DEF Idle
<1>3. QED
  BY <1>1, <1>2, Served DEF Adding, Removing

\* A step that changes a file only.
LEMMA FileVisit ==
  ASSUME Base, job # Idle, NEW f \in NameFiles \cup KeyFiles, f = Plan(job.op)[job.at],
         f # "mqvpn", Adding => f # "shadowsocks", OnDisk(f, LeftIn(f)), Onward(FALSE), PkiInv',
         UNCHANGED <<users, daemon, stray, adds>>
  PROVE  Visit(f, FALSE)
<1>1. f # "config" /\ f \notin Daemons
  BY DEF NameFiles, KeyFiles, Daemons
<1>2. /\ DOMAIN disk' = DOMAIN disk
      /\ \A g \in NameFiles \cup KeyFiles : disk'[g] = IF g = f THEN LeftIn(g) ELSE disk[g]
  BY OnDiskIs
<1>3. daemon' \in [Daemons -> SUBSET Users] /\ \A d \in Daemons : daemon'[d] = daemon[d]
  BY BaseTypes
<1>4. QED
  BY <1>1, <1>2, <1>3 DEF Visit

LEMMA BuildVisits ==
  ASSUME ConstantsOK, Base, BuildCertificate
  PROVE  Visit("openvpn", FALSE)
<1>1. /\ At("add", "openvpn") /\ OnDisk("openvpn", disk["openvpn"] \cup {job.user})
      /\ Onward(FALSE) /\ UNCHANGED <<users, daemon, stray, adds>> /\ DropEntries
  BY DEF BuildCertificate
<1>2. /\ job # Idle /\ "openvpn" = Plan(job.op)[job.at] /\ Adding /\ ~Removing
      /\ job.user \in Users
  BY <1>1, AtIsServed
<1>3. LeftIn("openvpn") = disk["openvpn"] \cup {job.user}
  BY <1>2 DEF LeftIn, NameFiles, Skipped
<1>4. PkiInv'
  BY <1>1, <1>2, EntriesDropped
<1>5. QED
  BY <1>1, <1>2, <1>3, <1>4, FileVisit DEF NameFiles

LEMMA RevokeVisits ==
  ASSUME Base, RevokeCertificate
  PROVE  Visit("openvpn", FALSE)
<1>1. /\ At("remove", "openvpn") /\ OnDisk("openvpn", disk["openvpn"] \ {job.user})
      /\ pki' = [pki EXCEPT !.revoked = @ \cup ({job.user} \cap disk["openvpn"]),
                            !.lost = {}, !.loose = @ \cup pki.lost]
      /\ Onward(FALSE) /\ UNCHANGED <<users, daemon, stray, adds>>
  BY DEF RevokeCertificate
<1>2. /\ job # Idle /\ "openvpn" = Plan(job.op)[job.at] /\ Removing /\ ~Adding
      /\ job.user \in Users
  BY <1>1, AtIsServed
<1>3. LeftIn("openvpn") = disk["openvpn"] \ {job.user}
  BY <1>2 DEF LeftIn, NameFiles
<1>4. PkiInv'
  BY <1>1, <1>2, BaseTypes DEF PkiInv
<1>5. QED
  BY <1>1, <1>2, <1>3, <1>4, FileVisit DEF NameFiles

LEMMA AddVisits ==
  ASSUME Base, NEW f \in {"v2ray", "xray", "glorytun_tcp", "glorytun_udp", "dsvpn"}, AddToFile(f)
  PROVE  Visit(f, FALSE)
<1>1. /\ At("add", f) /\ ~Skipped(f)
      /\ OnDisk(f, [v2ray |-> v2ray_add_user(job.user),
                    xray |-> xray_add_user(job.user),
                    glorytun_tcp |-> add_glorytun_tcp(job.rec.id, job.user),
                    glorytun_udp |-> add_glorytun_udp(job.rec.id, job.user),
                    dsvpn |-> add_dsvpn(job.rec.id, job.user)][f])
      /\ Onward(FALSE) /\ UNCHANGED <<users, pki, daemon, stray, adds>>
  BY DEF AddToFile
<1>2. /\ job # Idle /\ f = Plan(job.op)[job.at] /\ Adding /\ ~Removing
  BY <1>1, AtIsServed
<1>3. OnDisk(f, LeftIn(f))
  <2>1. CASE f = "v2ray"
    BY <1>1, <1>2, <2>1 DEF LeftIn, NameFiles, v2ray_add_user
  <2>2. CASE f = "xray"
    BY <1>1, <1>2, <2>2 DEF LeftIn, NameFiles, xray_add_user
  <2>3. CASE f = "glorytun_tcp"
    BY <1>1, <1>2, <2>3 DEF LeftIn, NameFiles, add_glorytun_tcp, Tunnel, KeyIn, Entry
  <2>4. CASE f = "glorytun_udp"
    BY <1>1, <1>2, <2>4 DEF LeftIn, NameFiles, add_glorytun_udp, Tunnel, KeyIn, Entry
  <2>5. CASE f = "dsvpn"
    BY <1>1, <1>2, <2>5 DEF LeftIn, NameFiles, add_dsvpn, Tunnel, KeyIn, Entry
  <2>6. QED
    BY <2>1, <2>2, <2>3, <2>4, <2>5
<1>4. f \in NameFiles \cup KeyFiles /\ f # "mqvpn" /\ f # "shadowsocks"
  BY DEF NameFiles, KeyFiles
<1>5. QED
  BY <1>1, <1>2, <1>3, <1>4, PkiSame, FileVisit

LEMMA RemoveVisits ==
  ASSUME Base, NEW f \in (NameFiles \cup KeyFiles) \ {"openvpn", "mqvpn"}, RemoveFromFile(f)
  PROVE  Visit(f, FALSE)
<1>1. /\ At("remove", f)
      /\ OnDisk(f, [shadowsocks |-> remove_ss_user(job.rec.port),
                    v2ray |-> v2ray_del_user(job.user),
                    xray |-> xray_del_user(job.user),
                    glorytun_tcp |-> remove_glorytun_tcp(job.rec.id),
                    glorytun_udp |-> remove_glorytun_udp(job.rec.id),
                    dsvpn |-> remove_dsvpn(job.rec.id)][f])
      /\ Onward(FALSE) /\ UNCHANGED <<users, pki, daemon, stray, adds>>
  BY DEF RemoveFromFile
<1>2. /\ job # Idle /\ f = Plan(job.op)[job.at] /\ Removing /\ ~Adding
  BY <1>1, AtIsServed
<1>3. OnDisk(f, LeftIn(f))
  <2>1. CASE f = "v2ray"
    BY <1>1, <1>2, <2>1 DEF LeftIn, NameFiles, v2ray_del_user
  <2>2. CASE f = "xray"
    BY <1>1, <1>2, <2>2 DEF LeftIn, NameFiles, xray_del_user
  <2>4. CASE f = "shadowsocks"
    BY <1>1, <1>2, <2>4 DEF LeftIn, NameFiles, remove_ss_user, KeyIn
  <2>5. CASE f = "glorytun_tcp"
    BY <1>1, <1>2, <2>5 DEF LeftIn, NameFiles, remove_glorytun_tcp, NoTunnel, KeyIn
  <2>6. CASE f = "glorytun_udp"
    BY <1>1, <1>2, <2>6 DEF LeftIn, NameFiles, remove_glorytun_udp, NoTunnel, KeyIn
  <2>7. CASE f = "dsvpn"
    BY <1>1, <1>2, <2>7 DEF LeftIn, NameFiles, remove_dsvpn, NoTunnel, KeyIn
  <2>8. QED
    BY <2>1, <2>2, <2>4, <2>5, <2>6, <2>7 DEF NameFiles, KeyFiles
<1>4. QED
  BY <1>1, <1>2, <1>3, PkiSame, FileVisit

LEMMA SkipVisits ==
  ASSUME Base, Skip
  PROVE  \E s : Visit(s, FALSE)
<1>1. PICK s : s = Plan(job.op)[job.at]
  OBVIOUS
<1>2. /\ job # Idle /\ Skipped(s) /\ Onward(FALSE)
      /\ UNCHANGED <<users, disk, pki, daemon, stray, adds>>
  BY <1>1 DEF Skip
<1>3. Adding /\ ~Removing /\ s \in {"ssgo", "v2ray"}
  BY <1>2, Served DEF Skipped, Adding
<1>4. s # "config" /\ s # "shadowsocks"
  BY <1>3
<1>5. \A f \in NameFiles \cup KeyFiles : disk'[f] = IF f = s THEN LeftIn(f) ELSE disk[f]
  BY <1>2, <1>3 DEF LeftIn, NameFiles, KeyFiles
<1>6. QED
  BY <1>1, <1>2, <1>3, <1>4, <1>5, BaseTypes, PkiSame DEF Visit, ToldTo

LEMMA SaveVisits ==
  ASSUME Base, Save
  PROVE  Visit("config", FALSE)
<1>1. /\ job # Idle /\ At(job.op, "config") /\ Onward(FALSE)
      /\ users' = [users EXCEPT ![job.user] = IF Adding THEN job.rec ELSE None]
      /\ UNCHANGED <<disk, pki, daemon, stray, adds>>
  BY DEF Save, Adding
<1>2. "config" = Plan(job.op)[job.at]
  BY <1>1 DEF At
<1>3. "config" \notin NameFiles \cup KeyFiles \cup Daemons
  BY DEF NameFiles, KeyFiles, Daemons
<1>4. QED
  BY <1>1, <1>2, <1>3, BaseTypes, PkiSame DEF Visit

\* A step that calls a daemon with no file of ours.
LEMMA DaemonVisit ==
  ASSUME Base, job # Idle, NEW d \in {"ssgo", "softether"}, d = Plan(job.op)[job.at],
         NEW lost \in BOOLEAN, NEW x \in SUBSET Users, Call(d, x, lost), Onward(lost),
         \A v \in Users \ {job.user} : v \in x <=> v \in daemon[d],
         IF Removing THEN job.user \notin x ELSE job.user \in x,
         UNCHANGED <<users, disk, pki, stray, adds>>
  PROVE  Visit(d, lost)
<1>1. d \in Daemons /\ d # "config" /\ d # "shadowsocks" /\ d \notin NameFiles \cup KeyFiles
  BY DEF Daemons, NameFiles, KeyFiles
<1>2. /\ daemon' \in [Daemons -> SUBSET Users]
      /\ \A e \in Daemons : e = d \/ daemon'[e] = daemon[e]
      /\ daemon'[d] = IF lost THEN daemon[d] ELSE x
      /\ lost => faults < MaxFaults
  <2>1. ASSUME NEW e \in Daemons, e = d PROVE Call(e, x, lost)
    BY <2>1
  <2>2. QED
    BY <1>1, <2>1, CallIs
<1>3. \A e \in Daemons, v \in Users \ {job.user} : v \in daemon'[e] <=> v \in daemon[e]
  BY <1>2
<1>4. ~lost => ToldTo(d)
  BY <1>2 DEF ToldTo
<1>5. QED
  BY <1>1, <1>2, <1>3, <1>4, PkiSame DEF Visit

LEMMA ToldVisits ==
  ASSUME Base, NEW d \in {"ssgo", "softether"}, NEW lost \in BOOLEAN,
         AddToDaemon(d, lost) \/ RemoveFromDaemon(d, lost)
  PROVE  Visit(d, lost)
<1>1. daemon["ssgo"] \in SUBSET Users /\ daemon["softether"] \in SUBSET Users
  BY BaseTypes DEF Daemons
<1>2. CASE AddToDaemon(d, lost)
  <2>1. At("add", d) /\ Onward(lost) /\ UNCHANGED <<users, disk, pki, stray, adds>>
    BY <1>2 DEF AddToDaemon
  <2>2. job # Idle /\ d = Plan(job.op)[job.at] /\ job.user \in Users /\ ~Removing
    BY <2>1, AtIsServed
  <2>3. Call(d, daemon[d] \cup {job.user}, lost)
    BY <1>2 DEF AddToDaemon, add_ss_go_user, add_softether_user
  <2>4. QED
    BY <1>1, <2>1, <2>2, <2>3, DaemonVisit
<1>3. CASE RemoveFromDaemon(d, lost)
  <2>1. At("remove", d) /\ Onward(lost) /\ UNCHANGED <<users, disk, pki, stray, adds>>
    BY <1>3 DEF RemoveFromDaemon
  <2>2. job # Idle /\ d = Plan(job.op)[job.at] /\ job.user \in Users /\ Removing
    BY <2>1, AtIsServed
  <2>3. Call(d, daemon[d] \ {job.user}, lost)
    BY <1>3 DEF RemoveFromDaemon, remove_ss_go_user, remove_softether_user
  <2>4. QED
    BY <1>1, <2>1, <2>2, <2>3, DaemonVisit
<1>4. QED
  BY <1>2, <1>3

LEMMA MqvpnVisits ==
  ASSUME Base, NEW lost \in BOOLEAN, AddMqvpn(lost) \/ remove_mqvpn(lost)
  PROVE  Visit("mqvpn", lost)
<1>1. /\ "mqvpn" \in Daemons /\ "mqvpn" \in NameFiles
      /\ disk["mqvpn"] \in SUBSET Users /\ daemon["mqvpn"] \in SUBSET Users
  BY BaseTypes DEF Daemons, NameFiles
<1>2. CASE AddMqvpn(lost)
  <2>1. At("add", "mqvpn") /\ Onward(lost) /\ UNCHANGED <<users, pki, stray, adds>>
    BY <1>2 DEF AddMqvpn
  <2>2. job # Idle /\ "mqvpn" = Plan(job.op)[job.at] /\ job.user \in Users /\ Adding /\ ~Removing
    BY <2>1, AtIsServed
  <2>3. LeftIn("mqvpn") = disk["mqvpn"] \cup {job.user}
    BY <1>1, <2>2 DEF LeftIn, Skipped
  <2>4. CASE job.user \in disk["mqvpn"]
    <3>1. ~lost /\ UNCHANGED <<disk, daemon>>
      BY <1>2, <2>4 DEF AddMqvpn
    <3>2. LeftIn("mqvpn") = disk["mqvpn"]
      BY <2>3, <2>4
    <3>3. ToldTo("mqvpn")
      BY <2>2, <2>4, <3>1 DEF ToldTo
    <3>4. QED
      BY <2>1, <2>2, <3>1, <3>2, <3>3, BaseTypes, PkiSame DEF Visit
  <2>5. CASE job.user \notin disk["mqvpn"]
    <3>1. /\ Call("mqvpn", daemon["mqvpn"] \cup {job.user}, lost)
          /\ OnDisk("mqvpn", disk["mqvpn"] \cup {job.user})
      BY <1>2, <2>5 DEF AddMqvpn, add_mqvpn
    <3>2. daemon["mqvpn"] \cup {job.user} \in SUBSET Users
      BY <1>1, <2>2
    <3>3. /\ daemon' \in [Daemons -> SUBSET Users]
          /\ \A e \in Daemons : e = "mqvpn" \/ daemon'[e] = daemon[e]
          /\ daemon'["mqvpn"] = IF lost THEN daemon["mqvpn"] ELSE daemon["mqvpn"] \cup {job.user}
          /\ lost => faults < MaxFaults
      BY <1>1, <3>1, <3>2, CallIs
    <3>4. \A e \in Daemons, v \in Users \ {job.user} : v \in daemon'[e] <=> v \in daemon[e]
      BY <3>3
    <3>5. ~lost => ToldTo("mqvpn")
      BY <2>2, <3>3 DEF ToldTo
    <3>6. /\ DOMAIN disk' = DOMAIN disk
          /\ \A f \in NameFiles \cup KeyFiles : disk'[f] = IF f = "mqvpn" THEN LeftIn(f) ELSE disk[f]
      BY <1>1, <2>3, <3>1, OnDiskIs
    <3>7. QED
      BY <1>1, <2>1, <2>2, <3>3, <3>4, <3>5, <3>6, PkiSame DEF Visit
  <2>6. QED
    BY <2>4, <2>5
<1>3. CASE remove_mqvpn(lost)
  <2>1. /\ At("remove", "mqvpn") /\ Onward(lost) /\ UNCHANGED <<users, pki, stray, adds>>
        /\ Call("mqvpn", daemon["mqvpn"] \ {job.user}, lost)
        /\ OnDisk("mqvpn", disk["mqvpn"] \ {job.user})
    BY <1>3 DEF remove_mqvpn
  <2>2. job # Idle /\ "mqvpn" = Plan(job.op)[job.at] /\ job.user \in Users /\ Removing /\ ~Adding
    BY <2>1, AtIsServed
  <2>3. LeftIn("mqvpn") = disk["mqvpn"] \ {job.user}
    BY <1>1, <2>2 DEF LeftIn
  <2>4. daemon["mqvpn"] \ {job.user} \in SUBSET Users
    BY <1>1
  <2>5. /\ daemon' \in [Daemons -> SUBSET Users]
        /\ \A e \in Daemons : e = "mqvpn" \/ daemon'[e] = daemon[e]
        /\ daemon'["mqvpn"] = IF lost THEN daemon["mqvpn"] ELSE daemon["mqvpn"] \ {job.user}
        /\ lost => faults < MaxFaults
    BY <1>1, <2>1, <2>4, CallIs
  <2>6. \A e \in Daemons, v \in Users \ {job.user} : v \in daemon'[e] <=> v \in daemon[e]
    BY <2>5
  <2>7. ~lost => ToldTo("mqvpn")
    BY <2>2, <2>5 DEF ToldTo
  <2>8. /\ DOMAIN disk' = DOMAIN disk
        /\ \A f \in NameFiles \cup KeyFiles : disk'[f] = IF f = "mqvpn" THEN LeftIn(f) ELSE disk[f]
    BY <1>1, <2>1, <2>3, OnDiskIs
  <2>9. QED
    BY <1>1, <2>1, <2>2, <2>5, <2>6, <2>7, <2>8, PkiSame DEF Visit
<1>4. QED
  BY <1>2, <1>3

----------------------------------------------------------------------------
(* Types, and what a request holds *)

LEMMA TypesKept ==
  ASSUME users' \in [Users -> Records \cup {None}],
         DOMAIN disk' = NameFiles \cup KeyFiles,
         \A f \in NameFiles : disk'[f] \in SUBSET Users,
         disk'["shadowsocks"] \in SUBSET [port : Ports, who : Users \cup {None}],
         \A f \in KeyFiles \ {"shadowsocks"} : disk'[f] \in SUBSET [id : Ids, who : Users],
         daemon' \in [Daemons -> SUBSET Users], job' \in Serving \cup {Idle},
         dirty' \in SUBSET Users, stray' \in SUBSET Users, faults' \in 0..MaxFaults,
         adds' \in 0..MaxAdds, PkiInv', JobInv', FirstPort'
  PROVE  Base'
  BY DEF Base, TypeOK, PkiInv

LEMMA LeftTypes ==
  ASSUME Base, job # Idle, NEW s, Adding => s # "shadowsocks"
  PROVE  /\ s \in NameFiles => LeftIn(s) \in SUBSET Users
         /\ s = "shadowsocks" => LeftIn(s) \in SUBSET [port : Ports, who : Users \cup {None}]
         /\ s \in KeyFiles \ {"shadowsocks"} => LeftIn(s) \in SUBSET [id : Ids, who : Users]
<1>1. job.user \in Users /\ job.rec.id \in Ids /\ (Adding <=> ~Removing)
  BY Served DEF Records
<1>2. s \in NameFiles => LeftIn(s) \in SUBSET Users
  BY <1>1, BaseTypes DEF LeftIn
<1>3. "shadowsocks" \notin NameFiles
  BY DEF NameFiles
<1>4. s = "shadowsocks" => LeftIn(s) \in SUBSET [port : Ports, who : Users \cup {None}]
  BY <1>1, <1>3, BaseTypes DEF LeftIn
<1>5. ASSUME s \in KeyFiles \ {"shadowsocks"}
      PROVE  LeftIn(s) \in SUBSET [id : Ids, who : Users]
  <2>1. s \notin NameFiles
    BY <1>5 DEF NameFiles, KeyFiles
  <2>2. Entry(s, job.user, job.rec) \in [id : Ids, who : Users]
    BY <1>1, <1>5 DEF Entry
  <2>3. disk[s] \in SUBSET [id : Ids, who : Users]
    BY <1>5, BaseTypes
  <2>4. QED
    BY <2>1, <2>2, <2>3 DEF LeftIn
<1>6. QED
  BY <1>2, <1>4, <1>5

LEMMA VisitTypes ==
  ASSUME ConstantsOK, Base, NEW s, NEW lost \in BOOLEAN, Visit(s, lost)
  PROVE  Base'
<1>1. /\ job # Idle /\ s = Plan(job.op)[job.at] /\ (Adding => s # "shadowsocks") /\ Onward(lost)
      /\ lost => faults < MaxFaults
      /\ DOMAIN disk' = DOMAIN disk
      /\ \A f \in NameFiles \cup KeyFiles : disk'[f] = IF f = s THEN LeftIn(f) ELSE disk[f]
      /\ daemon' \in [Daemons -> SUBSET Users]
      /\ users' = IF s = "config" THEN [users EXCEPT ![job.user] = IF Adding THEN job.rec ELSE None]
                  ELSE users
      /\ PkiInv' /\ UNCHANGED <<stray, adds>>
  BY DEF Visit
<1>2. /\ job.user \in Users /\ job.rec \in Records /\ job.at \in 1..11 /\ job.lost \in BOOLEAN
      /\ Adding <=> ~Removing
  BY <1>1, Served
<1>3. s \notin Visited
  BY <1>1, StepsVisited
<1>4. /\ job.at < 11 =>
           /\ job' \in Serving /\ job' # Idle /\ job'.user = job.user /\ job'.rec = job.rec
           /\ Visited' = Visited \cup {s} /\ dirty' = dirty
           /\ (Adding' <=> Adding) /\ (Removing' <=> Removing)
      /\ job.at = 11 => job' = Idle /\ dirty' \in {dirty, dirty \cup {job.user}, dirty \ {job.user}}
      /\ faults' = IF lost THEN faults + 1 ELSE faults
  BY <1>1, OnwardGoes
<1>5. users' \in [Users -> Records \cup {None}]
  BY <1>1, <1>2, BaseTypes
<1>6. /\ \A f \in NameFiles : disk'[f] \in SUBSET Users
      /\ disk'["shadowsocks"] \in SUBSET [port : Ports, who : Users \cup {None}]
      /\ \A f \in KeyFiles \ {"shadowsocks"} : disk'[f] \in SUBSET [id : Ids, who : Users]
  <2>1. "shadowsocks" \in NameFiles \cup KeyFiles
    BY DEF KeyFiles
  <2>2. QED
    BY <1>1, <2>1, LeftTypes, BaseTypes
<1>7. job' \in Serving \cup {Idle} /\ dirty' \in SUBSET Users
  BY <1>2, <1>4, BaseTypes
<1>8. faults' \in 0..MaxFaults
  BY <1>1, <1>4, BaseTypes DEF ConstantsOK
<1>9. Adding => NextPort' = NextPort
  <2>1. "shadowsocks" \in NameFiles \cup KeyFiles
    BY DEF KeyFiles
  <2>2. Adding => disk'["shadowsocks"] = disk["shadowsocks"]
    BY <1>1, <2>1
  <2>3. QED
    BY <2>2 DEF NextPort
<1>10. JobInv'
  <2>1. CASE job.at = 11
    <3>1. job' = Idle
      BY <1>4, <2>1
    <3>2. ~Adding' /\ ~Removing' /\ ~HasPort'
      BY <3>1 DEF Idle, Adding, Removing, HasPort
    <3>3. QED
      BY <3>2 DEF JobInv
  <2>2. CASE job.at < 11
    <3>1. JobInv
      BY DEF Base
    <3>2. /\ job'.user = job.user /\ job'.rec = job.rec /\ Visited' = Visited \cup {s}
          /\ (Adding' <=> Adding) /\ (Removing' <=> Removing)
      BY <1>4, <2>2
    <3>3. s = "config" => users'[job.user] = IF Adding THEN job.rec ELSE None
      BY <1>1, <1>2, BaseTypes
    <3>4. s # "config" => users' = users
      BY <1>1
    <3>5. HasPort' => HasPort
      BY <1>1, <3>2 DEF HasPort
    <3>6. Removing' /\ "config" \notin Visited' => users'[job'.user] = job'.rec
      BY <3>1, <3>2, <3>4 DEF JobInv
    <3>7. Removing' /\ "config" \in Visited' => users'[job'.user] = None
      BY <1>2, <1>3, <3>1, <3>2, <3>3, <3>4 DEF JobInv
    <3>8. Adding' /\ "config" \in Visited' => users'[job'.user] = job'.rec
      BY <1>3, <3>1, <3>2, <3>3, <3>4 DEF JobInv
    <3>9. Adding' /\ "shadowsocks" \notin Visited' /\ job'.rec.port = 0 => NextPort' + 1 \in Ports
      BY <1>9, <3>1, <3>2 DEF JobInv
    <3>10. HasPort' => job'.rec.port # 0
      BY <3>1, <3>2, <3>5 DEF JobInv
    <3>11. QED
      BY <3>6, <3>7, <3>8, <3>9, <3>10 DEF JobInv
  <2>3. QED
    BY <1>2, <2>1, <2>2
<1>11. FirstPort'
  <2>1. FirstPort /\ JobInv
    BY DEF Base
  <2>2. Taken \in disk'["shadowsocks"]
    <3>1. "shadowsocks" \in KeyFiles /\ "shadowsocks" \notin NameFiles
      BY DEF KeyFiles, NameFiles
    <3>2. CASE s = "shadowsocks"
      <4>1. Removing /\ job.rec.port # 0
        BY <1>1, <1>2, <2>1, <3>2 DEF JobInv, HasPort
      <4>2. disk'["shadowsocks"] = {a \in disk["shadowsocks"] : a.port # job.rec.port}
        BY <1>1, <3>1, <3>2, <4>1 DEF LeftIn, KeyIn
      <4>3. Taken.port = 0
        BY DEF Taken
      <4>4. QED
        BY <2>1, <4>1, <4>2, <4>3 DEF FirstPort
    <3>3. CASE s # "shadowsocks"
      BY <1>1, <2>1, <3>1, <3>3 DEF FirstPort
    <3>4. QED
      BY <3>2, <3>3
  <2>3. ASSUME NEW u \in Users, users'[u] # None PROVE users'[u].port # 0
    <3>1. CASE s = "config" /\ u = job.user
      <4>1. Adding /\ users'[u] = job.rec
        BY <1>1, <1>2, <2>3, <3>1, BaseTypes
      <4>2. "shadowsocks" \in Visited
        BY <1>1, <1>2, <3>1, <4>1, StepsVisited
      <4>3. QED
        BY <2>1, <4>1, <4>2 DEF JobInv, HasPort
    <3>2. CASE ~(s = "config" /\ u = job.user)
      <4>1. users'[u] = users[u]
        BY <1>1, <3>2, BaseTypes
      <4>2. QED
        BY <2>1, <2>3, <4>1 DEF FirstPort
    <3>3. QED
      BY <3>1, <3>2
  <2>4. QED
    BY <2>2, <2>3 DEF FirstPort
<1>12. stray' \in SUBSET Users /\ DOMAIN disk' = NameFiles \cup KeyFiles
  BY <1>1, BaseTypes
<1>13. QED
  BY <1>1, <1>5, <1>6, <1>7, <1>8, <1>10, <1>11, <1>12, BaseTypes, TypesKept

\* A request begins.
LEMMA StartAddIs ==
  ASSUME ConstantsOK, Base, NEW u \in Users, NEW ask \in Adds, StartAdd(u, ask)
  PROVE  /\ job = Idle /\ UNCHANGED <<users, disk, pki, daemon, dirty, faults>>
         /\ adds' \in 0..MaxAdds /\ stray \subseteq stray' /\ stray' \in SUBSET Users
         /\ job' \in Serving /\ job'.op = "add" /\ job'.user = u /\ job'.at = 1 /\ job'.lost = FALSE
         /\ Visited' = {} /\ Adding' /\ ~Removing'
         /\ \A v \in Users \ {u} : users[v] # None /\ users[v].id = job'.rec.id =>
                v \in stray' /\ u \in stray'
         /\ job'.rec.port = 0 => NextPort + 1 \in Ports
<1>1. PICK userid, same :
        /\ userid = (IF ask.id = None THEN NextId ELSE ask.id)
        /\ same = (IF ask.id = None THEN {} ELSE SameId(u, ask.id))
        /\ job = Idle /\ adds < MaxAdds /\ adds' = adds + 1 /\ userid \in Ids
        /\ ask.port = 0 => NextPort + 1 \in Ports
        /\ job' = [op |-> "add", user |-> u, at |-> 1, lost |-> FALSE,
                   rec |-> [ask EXCEPT !.id = userid]]
        /\ stray' = (IF same = {} THEN stray ELSE stray \cup same \cup {u})
        /\ UNCHANGED <<users, disk, pki, daemon, dirty, faults>>
  BY DEF StartAdd
<1>2. ask \in [id : Ids \cup {None}, port : Ports, ips : BOOLEAN]
  BY DEF ConstantsOK
<1>3. PICK r \in Records : r = [ask EXCEPT !.id = userid] /\ r.id = userid /\ r.port = ask.port
  BY <1>1, <1>2 DEF Records
<1>4. /\ job'.at = 1 /\ job'.op = "add" /\ job'.user = u /\ job'.lost = FALSE
      /\ job'.rec = r
  BY <1>1, <1>3
<1>5. job' \in Serving
  <2>1. 1 \in 1..Len(AddPlan)
    BY Plans
  <2>2. QED
    BY <1>1, <1>3, <2>1 DEF Serving
<1>6. Visited' = {}
  BY <1>4 DEF Visited
<1>7. stray \subseteq stray' /\ stray' \in SUBSET Users /\ adds' \in 0..MaxAdds
  BY <1>1, BaseTypes DEF SameId, ConstantsOK
<1>8. ASSUME NEW v \in Users \ {u}, users[v] # None, users[v].id = userid
      PROVE  v \in stray' /\ u \in stray'
  <2>1. ask.id # None
    <3>1. users[v].id < NextId /\ users[v].id \in Int
      BY <1>8, NextIdIsNew, BaseTypes DEF Records, Ids
    <3>2. QED
      BY <1>1, <1>8, <3>1
  <2>2. v \in same
    BY <1>1, <1>8, <2>1 DEF SameId
  <2>3. QED
    BY <1>1, <2>2
<1>9. QED
  BY <1>1, <1>3, <1>4, <1>5, <1>6, <1>7, <1>8 DEF Adding, Removing

LEMMA StartRemoveIs ==
  ASSUME ConstantsOK, Base, NEW u \in Users, StartRemove(u)
  PROVE  /\ job = Idle /\ UNCHANGED <<users, disk, pki, daemon, dirty, stray, adds, faults>>
         /\ job' \in Serving /\ job'.op = "remove" /\ job'.user = u /\ job'.at = 1
         /\ job'.lost = FALSE /\ users[u] # None /\ job'.rec = users[u]
         /\ Visited' = {} /\ Removing' /\ ~Adding'
<1>1. /\ job = Idle /\ users[u] # None
      /\ job' = [op |-> "remove", user |-> u, at |-> 1, rec |-> users[u], lost |-> FALSE]
      /\ UNCHANGED <<users, disk, pki, daemon, dirty, stray, adds, faults>>
  BY DEF StartRemove
<1>2. 1 \in 1..Len(AddPlan) /\ users[u] \in Records
  BY <1>1, Plans, BaseTypes
<1>3. job' \in Serving
  BY <1>1, <1>2 DEF Serving
<1>4. job'.at = 1 /\ job'.op = "remove" /\ job'.user = u /\ job'.lost = FALSE /\ job'.rec = users[u]
  BY <1>1
<1>5. Visited' = {}
  BY <1>4 DEF Visited
<1>6. QED
  BY <1>1, <1>3, <1>4, <1>5 DEF Adding, Removing

LEMMA StartTypes ==
  ASSUME ConstantsOK, Base,
         \/ \E u \in Users, ask \in Adds : StartAdd(u, ask)
         \/ \E u \in Users : StartRemove(u)
  PROVE  Base'
<1>1. /\ job' \in Serving /\ UNCHANGED <<users, disk, pki, daemon, dirty, faults>>
      /\ stray' \in SUBSET Users /\ adds' \in 0..MaxAdds /\ PkiInv'
  <2>1. pki' = pki /\ stray \in SUBSET Users /\ adds \in 0..MaxAdds
    BY StartAddIs, StartRemoveIs, BaseTypes
  <2>2. QED
    BY <2>1, StartAddIs, StartRemoveIs, PkiSame
<1>2. FirstPort /\ FirstPort'
  BY <1>1 DEF Base, FirstPort
<1>3. JobInv'
  <2>1. ASSUME NEW u \in Users, NEW ask \in Adds, StartAdd(u, ask) PROVE JobInv'
    <3>1. NextPort' = NextPort
      BY <1>1 DEF NextPort
    <3>2. /\ job'.rec.port = 0 => NextPort + 1 \in Ports
          /\ Visited' = {} /\ Adding' /\ ~Removing'
      BY <2>1, StartAddIs
    <3>3. QED
      BY <3>1, <3>2 DEF JobInv, HasPort
  <2>2. ASSUME NEW u \in Users, StartRemove(u) PROVE JobInv'
    <3>1. /\ users[u] # None /\ job'.rec = users[u] /\ job'.user = u
          /\ Visited' = {} /\ Removing' /\ ~Adding'
      BY <2>2, StartRemoveIs
    <3>2. users'[u] = users[u] /\ users[u].port # 0
      BY <1>1, <1>2, <3>1 DEF FirstPort
    <3>3. QED
      BY <3>1, <3>2 DEF JobInv
  <2>3. QED
    BY <2>1, <2>2
<1>4. QED
  BY <1>1, <1>2, <1>3, BaseTypes, TypesKept

\* What giving a user a port does; another port may be kept for its record.
PortGiven(u, port, kept) ==
    /\ port = (IF job.rec.port = 0 THEN NextPort ELSE job.rec.port)
    /\ kept = (IF job.rec.ips THEN port + 1 ELSE port)
    /\ job # Idle /\ Adding /\ ~Removing /\ u \in Users /\ "shadowsocks" \notin Visited
    /\ port \in Ports /\ port # 0 /\ kept \in Ports /\ kept # 0
    /\ DOMAIN disk' = DOMAIN disk
    /\ \A f \in (NameFiles \cup KeyFiles) \ {"shadowsocks"} : disk'[f] = disk[f]
    /\ disk'["shadowsocks"] = {a \in disk["shadowsocks"] : a.port # port}
                                \cup {[port |-> port, who |-> u]}
    /\ job' \in Serving /\ job' # Idle /\ job'.op = job.op /\ job'.user = u
    /\ job'.rec = [job.rec EXCEPT !.port = kept] /\ job'.lost = job.lost
    /\ job'.at = job.at + 1 /\ Visited' = Visited \cup {"shadowsocks"}
    /\ "config" \notin Visited'
    /\ stray' = stray \cup Named(port) \cup Named(kept)
                \cup (IF \/ job.rec.ips \/ users[u] # None
                         \/ Named(port) \cup Named(kept) # {}
                      THEN {u} ELSE {})
    /\ Adding' /\ ~Removing' /\ UNCHANGED <<users, pki, daemon, dirty, adds, faults>>

\* The new account's port, and the one that is kept for the record.
LEMMA AddShadowsocksIs ==
  ASSUME ConstantsOK, Base, AddShadowsocks
  PROVE  \E port, kept : PortGiven(job.user, port, kept)
<1>0. PICK u, port, kept :
        /\ u = job.user /\ port = (IF job.rec.port = 0 THEN NextPort ELSE job.rec.port)
        /\ kept = (IF job.rec.ips THEN port + 1 ELSE port)
  OBVIOUS
<1> DEFINE j == [job EXCEPT !.at = @ + 1, !.rec.port = kept]
<1>1. /\ At("add", "shadowsocks")
      /\ ~(job.rec.ips /\ job.rec.port # 0)
      /\ OnDisk("shadowsocks", {a \in disk["shadowsocks"] : a.port # port}
                                \cup {[port |-> port, who |-> u]})
      /\ job' = j
      /\ stray' = stray \cup Named(port) \cup Named(kept)
                  \cup (IF \/ job.rec.ips \/ users[u] # None
                           \/ Named(port) \cup Named(kept) # {}
                        THEN {u} ELSE {})
      /\ UNCHANGED <<users, pki, daemon, dirty, adds, faults>>
  BY <1>0 DEF AddShadowsocks, add_ss_user
<1>2. job # Idle /\ "shadowsocks" = Plan(job.op)[job.at] /\ Adding /\ ~Removing /\ u \in Users
  BY <1>0, <1>1, AtIsServed
<1>3. job.at = 2 /\ "shadowsocks" \notin Visited /\ "config" \notin Visited
  BY <1>2, StepsVisited
<1>4. job.rec.port = 0 => NextPort + 1 \in Ports
  BY <1>2, <1>3 DEF Base, JobInv
<1>5. port \in Ports /\ port # 0 /\ kept \in Ports /\ kept # 0
  <2>1. job.rec.port \in Ports /\ job.rec.ips \in BOOLEAN
    BY <1>2, Served DEF Records
  <2>2. QED
    BY <1>0, <1>1, <1>4, <2>1, NextPortIsNew DEF Ports, ConstantsOK
<1>6. Len(AddPlan) = 11
  BY Plans
<1>7. job \in [op : {"add", "remove"}, user : Users, at : 1..11, rec : Records, lost : BOOLEAN]
  BY <1>2, <1>6, Served DEF Serving
<1>8. [job.rec EXCEPT !.port = kept] \in Records
  BY <1>5, <1>7 DEF Records
<1>9. /\ j.op = job.op /\ j.user = u /\ j.rec = [job.rec EXCEPT !.port = kept]
      /\ j.lost = job.lost /\ j.at = job.at + 1
  BY <1>0, <1>7
<1>10. j \in Serving
  <2>1. job.at + 1 \in 1..11
    BY <1>3
  <2>2. j \in [op : {"add", "remove"}, user : Users, at : 1..11, rec : Records, lost : BOOLEAN]
    BY <1>7, <1>8, <2>1
  <2>3. QED
    BY <1>6, <2>2 DEF Serving
<1> HIDE DEF j
<1>11. Visited' = Visited \cup {"shadowsocks"}
  <2>1. Visited' = {Plan(job.op)[i] : i \in 1..(job'.at - 1)} /\ job'.at = job.at + 1
    BY <1>1, <1>9 DEF Visited
  <2>2. QED
    BY <1>2, <2>1, StepsVisited
<1>12. job' # Idle /\ Adding' /\ ~Removing'
  BY <1>1, <1>2, <1>9 DEF Idle, Adding, Removing
<1>13. /\ DOMAIN disk' = DOMAIN disk
       /\ \A f \in (NameFiles \cup KeyFiles) \ {"shadowsocks"} : disk'[f] = disk[f]
       /\ disk'["shadowsocks"] = {a \in disk["shadowsocks"] : a.port # port}
                                   \cup {[port |-> port, who |-> u]}
  <2>1. "shadowsocks" \in NameFiles \cup KeyFiles
    BY DEF KeyFiles
  <2>2. QED
    BY <1>1, <2>1, OnDiskIs
<1>14. PortGiven(u, port, kept)
  BY <1>0, <1>1, <1>2, <1>3, <1>5, <1>9, <1>10, <1>11, <1>12, <1>13 DEF PortGiven
<1>15. QED
  BY <1>0, <1>14

LEMMA AddShadowsocksTypes ==
  ASSUME ConstantsOK, Base, AddShadowsocks
  PROVE  Base'
<1>1. PICK u, port, kept : u = job.user /\ PortGiven(u, port, kept)
  BY AddShadowsocksIs
<1> USE <1>1 DEF PortGiven
<1>2. job'.rec.port # 0
  <2>1. job.rec \in Records
    BY <1>1, Served
  <2>2. QED
    BY <1>1, <2>1 DEF Records
<1>3. JobInv'
  BY <1>1, <1>2 DEF JobInv
<1>4. FirstPort'
  <2>1. Taken \in disk'["shadowsocks"]
    BY <1>1 DEF Base, FirstPort, Taken
  <2>2. QED
    BY <1>1, <2>1 DEF Base, FirstPort
<1>5. /\ \A f \in NameFiles : disk'[f] \in SUBSET Users
      /\ disk'["shadowsocks"] \in SUBSET [port : Ports, who : Users \cup {None}]
      /\ \A f \in KeyFiles \ {"shadowsocks"} : disk'[f] \in SUBSET [id : Ids, who : Users]
  <2>1. "shadowsocks" \notin NameFiles
    BY DEF NameFiles
  <2>2. QED
    BY <1>1, <2>1, BaseTypes
<1>6. stray' \in SUBSET Users
  BY <1>1, BaseTypes DEF Named
<1>7. QED
  BY <1>1, <1>3, <1>4, <1>5, <1>6, BaseTypes, PkiSame, TypesKept

\* A port was given along with public addresses.
LEMMA GivenPortIs ==
  ASSUME ConstantsOK, Base, GivenPortFails
  PROVE  /\ job # Idle /\ job' = Idle /\ job.user \in Users /\ job.rec.port \in Ports
         /\ job.rec.port # 0 /\ DOMAIN disk' = DOMAIN disk
         /\ \A f \in (NameFiles \cup KeyFiles) \ {"shadowsocks"} : disk'[f] = disk[f]
         /\ disk'["shadowsocks"] = {a \in disk["shadowsocks"] : a.port # job.rec.port}
                                     \cup {[port |-> job.rec.port, who |-> job.user]}
         /\ dirty' = dirty \cup {job.user}
         /\ stray' = stray \cup Named(job.rec.port) \cup {job.user}
         /\ UNCHANGED <<users, pki, daemon, adds, faults>>
<1>1. /\ At("add", "shadowsocks") /\ job.rec.port # 0 /\ job' = Idle
      /\ OnDisk("shadowsocks", {a \in disk["shadowsocks"] : a.port # job.rec.port}
                                \cup {[port |-> job.rec.port, who |-> job.user]})
      /\ dirty' = dirty \cup {job.user}
      /\ stray' = stray \cup Named(job.rec.port) \cup {job.user}
      /\ UNCHANGED <<users, pki, daemon, adds, faults>>
  BY DEF GivenPortFails, add_ss_user
<1>2. job # Idle /\ job.user \in Users
  BY <1>1, AtIsServed
<1>3. job.rec.port \in Ports
  BY <1>2, Served DEF Records
<1>4. "shadowsocks" \in NameFiles \cup KeyFiles
  BY DEF KeyFiles
<1>5. /\ DOMAIN disk' = DOMAIN disk
      /\ \A f \in (NameFiles \cup KeyFiles) \ {"shadowsocks"} : disk'[f] = disk[f]
      /\ disk'["shadowsocks"] = {a \in disk["shadowsocks"] : a.port # job.rec.port}
                                  \cup {[port |-> job.rec.port, who |-> job.user]}
  BY <1>1, <1>4, OnDiskIs
<1>6. QED
  BY <1>1, <1>2, <1>3, <1>5

LEMMA GivenPortTypes ==
  ASSUME ConstantsOK, Base, GivenPortFails
  PROVE  Base'
<1>1. JobInv'
  BY GivenPortIs DEF JobInv, HasPort, Adding, Removing, Idle
<1>2. Taken \in disk'["shadowsocks"]
  BY GivenPortIs DEF Base, FirstPort, Taken
<1>3. FirstPort'
  BY <1>2, GivenPortIs DEF Base, FirstPort
<1>4. "shadowsocks" \notin NameFiles
  BY DEF NameFiles
<1>5. /\ \A f \in NameFiles : disk'[f] \in SUBSET Users
      /\ disk'["shadowsocks"] \in SUBSET [port : Ports, who : Users \cup {None}]
      /\ \A f \in KeyFiles \ {"shadowsocks"} : disk'[f] \in SUBSET [id : Ids, who : Users]
  BY <1>4, GivenPortIs, BaseTypes
<1>6. stray' \in SUBSET Users /\ dirty' \in SUBSET Users
  BY GivenPortIs, BaseTypes DEF Named
<1>7. QED
  BY <1>1, <1>3, <1>5, <1>6, GivenPortIs, BaseTypes, PkiSame, TypesKept

\* A request ends early.
LEMMA FailIs ==
  ASSUME ConstantsOK, Base, CertificateFails
  PROVE  /\ job # Idle /\ job.at = 1 /\ Adding /\ ~Removing /\ job.user \in Users
         /\ DOMAIN disk' = DOMAIN disk
         /\ \A f \in NameFiles \cup KeyFiles :
              disk'[f] = IF f = "openvpn" THEN disk[f] \ {job.user} ELSE disk[f]
         /\ job' = Idle /\ UNCHANGED <<users, daemon, stray, adds, faults>> /\ PkiInv'
         /\ dirty' = IF users[job.user] = None THEN dirty ELSE dirty \cup {job.user}
<1>1. /\ At("add", "openvpn") /\ OnDisk("openvpn", disk["openvpn"] \ {job.user})
      /\ DropEntries
  BY DEF CertificateFails
<1>2. job # Idle /\ "openvpn" = Plan(job.op)[job.at] /\ Adding /\ ~Removing /\ job.user \in Users
  BY <1>1, AtIsServed
<1>3. job.at = 1
  BY <1>2, StepsVisited
<1>4. "openvpn" \in NameFiles \cup KeyFiles
  BY DEF NameFiles
<1>5. QED
  BY <1>1, <1>2, <1>3, <1>4, OnDiskIs, EntriesDropped DEF CertificateFails

LEMMA SyncIs ==
  ASSUME Base, sync_ss_go_users
  PROVE  /\ job = Idle /\ UNCHANGED <<users, pki, job, dirty, stray, adds, faults>>
         /\ DOMAIN disk' = DOMAIN disk
         /\ \A f \in NameFiles \cup KeyFiles :
              disk'[f] = IF f \in {"xray", "mqvpn"} THEN disk[f] \cup daemon["ssgo"] ELSE disk[f]
         /\ daemon' \in [Daemons -> SUBSET Users]
         /\ \A d \in Daemons :
              daemon'[d] = IF d = "mqvpn" THEN daemon[d] \cup (daemon["ssgo"] \ disk["mqvpn"])
                           ELSE daemon[d]
<1>1. "ssgo" \in Daemons /\ "mqvpn" \in Daemons /\ "xray" \in NameFiles /\ "mqvpn" \in NameFiles
  BY DEF Daemons, NameFiles
<1>2. QED
  BY <1>1, BaseTypes DEF sync_ss_go_users

LEMMA RestTypes ==
  ASSUME ConstantsOK, Base, CertificateFails \/ CutOff \/ sync_ss_go_users \/ MqvpnRestarts
  PROVE  Base'
<1>1. /\ users' = users /\ DOMAIN disk' = DOMAIN disk
      /\ \A f \in KeyFiles : disk'[f] = disk[f]
      /\ \A f \in NameFiles : disk'[f] \in SUBSET Users
      /\ daemon' \in [Daemons -> SUBSET Users]
      /\ dirty' \in SUBSET Users /\ stray' \in SUBSET Users /\ faults' \in 0..MaxFaults
      /\ adds' = adds /\ PkiInv'
      /\ job' = Idle \/ job' = job
  <2>0. "ssgo" \in Daemons /\ "mqvpn" \in Daemons /\ "mqvpn" \in NameFiles
    BY DEF Daemons, NameFiles
  <2>1. \A f \in KeyFiles : f \notin NameFiles
    BY DEF KeyFiles, NameFiles
  <2>2. CASE CertificateFails
    <3>1. "openvpn" \notin KeyFiles
      BY DEF KeyFiles
    <3>2. QED
      BY <2>2, <3>1, FailIs, BaseTypes
  <2>3. CASE CutOff
    <3>1. job.user \in Users
      BY <2>3, Served DEF CutOff
    <3>2. faults' \in 0..MaxFaults
      BY <2>3, BaseTypes DEF CutOff, ConstantsOK
    <3>3. QED
      BY <2>3, <3>1, <3>2, BaseTypes, PkiSame DEF CutOff
  <2>4. CASE sync_ss_go_users
    <3>1. "xray" \notin KeyFiles /\ "mqvpn" \notin KeyFiles
      BY DEF KeyFiles
    <3>2. QED
      BY <2>0, <2>4, <3>1, SyncIs, BaseTypes, PkiSame
  <2>5. CASE MqvpnRestarts
    BY <2>0, <2>5, BaseTypes, PkiSame DEF MqvpnRestarts
  <2>6. QED
    BY <2>2, <2>3, <2>4, <2>5
<1>2. disk'["shadowsocks"] = disk["shadowsocks"]
  BY <1>1 DEF KeyFiles
<1>3. NextPort' = NextPort
  BY <1>2 DEF NextPort
<1>4. FirstPort'
  BY <1>1, <1>2 DEF Base, FirstPort
<1>5. JobInv'
  <2>1. CASE job' = Idle
    BY <2>1 DEF JobInv, HasPort, Adding, Removing, Idle
  <2>2. CASE job' = job
    BY <1>1, <1>3, <2>2 DEF Base, JobInv, HasPort, Adding, Removing, Visited
  <2>3. QED
    BY <1>1, <2>1, <2>2
<1>6. job' \in Serving \cup {Idle}
  BY <1>1, BaseTypes
<1>7. QED
  BY <1>1, <1>2, <1>4, <1>5, <1>6, BaseTypes, TypesKept

LEMMA InitTypes ==
  ASSUME ConstantsOK, Init
  PROVE  Base
<1>1. job = Idle /\ ~Adding /\ ~Removing /\ ~HasPort
  BY NobodyServed DEF Init
<1>2. 0 \in Ports /\ 0 \in 0..MaxFaults /\ 0 \in 0..MaxAdds
  BY DEF ConstantsOK, Ports
<1>3. /\ disk = [f \in NameFiles \cup KeyFiles |-> IF f = "shadowsocks" THEN {Taken} ELSE {}]
      /\ \A u \in Users : users[u] = None
      /\ users \in [Users -> Records \cup {None}] /\ daemon \in [Daemons -> SUBSET Users]
      /\ dirty = {} /\ stray = {} /\ adds = 0 /\ faults = 0
      /\ pki = [revoked |-> {}, lost |-> {}, loose |-> {}, again |-> {}]
  BY DEF Init
<1>4. Taken \in [port : Ports, who : Users \cup {None}]
  BY <1>2 DEF Taken
<1>5. DOMAIN disk = NameFiles \cup KeyFiles /\ disk["shadowsocks"] = {Taken}
  BY <1>3 DEF KeyFiles
<1>6. "shadowsocks" \notin NameFiles
  BY DEF NameFiles
<1>7. \A f \in (NameFiles \cup KeyFiles) \ {"shadowsocks"} : disk[f] = {}
  BY <1>3
<1>8. TypeOK
  BY <1>1, <1>2, <1>3, <1>4, <1>5, <1>6, <1>7 DEF TypeOK
<1>9. JobInv /\ FirstPort /\ PkiInv
  BY <1>1, <1>3, <1>5 DEF JobInv, FirstPort, PkiInv
<1>10. QED
  BY <1>5, <1>8, <1>9 DEF Base

----------------------------------------------------------------------------
(* Every step *)

Begins ==
    \/ \E u \in Users, ask \in Adds : StartAdd(u, ask)
    \/ \E u \in Users : StartRemove(u)

Rests == CertificateFails \/ CutOff \/ sync_ss_go_users \/ MqvpnRestarts

LEMMA StepIs ==
  ASSUME ConstantsOK, Base, Next
  PROVE  \/ \E s : \E lost \in BOOLEAN : Visit(s, lost)
         \/ Begins
         \/ AddShadowsocks
         \/ GivenPortFails
         \/ Rests
<1>1. CASE Begins \/ AddShadowsocks \/ GivenPortFails \/ Rests
  BY <1>1
<1>2. ASSUME \/ BuildCertificate \/ RevokeCertificate \/ Skip \/ Save
             \/ \E f \in {"v2ray", "xray", "glorytun_tcp", "glorytun_udp", "dsvpn"} : AddToFile(f)
             \/ \E f \in (NameFiles \cup KeyFiles) \ {"openvpn", "mqvpn"} : RemoveFromFile(f)
      PROVE  \E s : Visit(s, FALSE)
  BY <1>2, BuildVisits, RevokeVisits, SkipVisits, SaveVisits, AddVisits, RemoveVisits
<1>3. ASSUME \/ \E s \in {"ssgo", "softether"}, lost \in BOOLEAN : AddToDaemon(s, lost)
             \/ \E s \in {"ssgo", "softether"}, lost \in BOOLEAN : RemoveFromDaemon(s, lost)
             \/ \E lost \in BOOLEAN : AddMqvpn(lost)
             \/ \E lost \in BOOLEAN : remove_mqvpn(lost)
      PROVE  \E s : \E lost \in BOOLEAN : Visit(s, lost)
  BY <1>3, ToldVisits, MqvpnVisits
<1>4. QED
  BY <1>1, <1>2, <1>3 DEF Next, Begins, Rests

LEMMA StepTypes ==
  ASSUME ConstantsOK, Base, [Next]_vars
  PROVE  Base'
<1>1. CASE Next
  BY <1>1, StepIs, VisitTypes, StartTypes, AddShadowsocksTypes, GivenPortTypes, RestTypes
  DEF Begins, Rests
<1>2. CASE UNCHANGED vars
  <2>1. UNCHANGED <<users, disk, pki, daemon, job, dirty, stray, adds, faults>>
    BY <1>2 DEF vars
  <2>2. JobInv' /\ FirstPort'
    BY <2>1 DEF Base, JobInv, FirstPort, HasPort, Adding, Removing, Visited, NextPort
  <2>3. QED
    BY <2>1, <2>2, BaseTypes, PkiSame, TypesKept
<1>3. QED
  BY <1>1, <1>2

\* Whatever the administrator asks and whatever is cut off or not heard, the
\* services' files, the daemons and the configuration keep the shape the handlers
\* give them, and no userid or port passes its bound (add_user, remove_user).
THEOREM TypeCorrect ==
  ASSUME ConstantsOK
  PROVE  Spec => []TypeOK
<1>1. Init => Base
  BY InitTypes
<1>2. Base /\ [Next]_vars => Base'
  BY StepTypes
<1>3. Base => TypeOK
  BY DEF Base
<1>4. QED
  BY <1>1, <1>2, <1>3, PTL DEF Spec

----------------------------------------------------------------------------
(* Accounts by name *)

Agrees(u) ==
    IF users[u] = None THEN Homes(u) = {}
    ELSE AllHomes \ (IF users[u].ips THEN {"ssgo", "v2ray"} ELSE {}) \subseteq Homes(u)

In(s, u) == (s \in NameFiles => u \in disk[s]) /\ (s \in Daemons => u \in daemon[s])

Out(s, u) == (s \in NameFiles => u \notin disk[s]) /\ (s \in Daemons => u \notin daemon[s])

Untouched == Adding /\ job.at = 1

\* MQVPN's file and its daemon know the same.
MqvpnKnows(u) == u \in daemon["mqvpn"] <=> u \in disk["mqvpn"]

\* What a request whose calls were all heard has done to its own user so far.
Done(visited) ==
    /\ Removing => \A s \in visited \cap AllHomes : Out(s, job.user)
    /\ Adding /\ job.user \notin dirty =>
         \A s \in visited \cap AllHomes : Skipped(s) \/ In(s, job.user)

NamesInv ==
    /\ \A u \in Users \ dirty : job.user # u \/ Untouched => Agrees(u)
    /\ \A u \in Users \ dirty : (job.user = u => ~job.lost) => MqvpnKnows(u)
    /\ Untouched => ~job.lost
    /\ ~job.lost => Done(Visited)

LEMMA HomesAre ==
  ASSUME NEW u
  PROVE  /\ Homes(u) \subseteq AllHomes
         /\ \A s \in NameFiles : s \in Homes(u) <=> u \in disk[s] \/ (s \in Daemons /\ u \in daemon[s])
         /\ \A s \in Daemons : s \in Homes(u) <=> u \in daemon[s] \/ (s \in NameFiles /\ u \in disk[s])
         /\ Homes(u) = {} <=> \A s \in AllHomes : Out(s, u)
         /\ \A s \in AllHomes : In(s, u) => s \in Homes(u)
  BY DEF Homes, AllHomes, In, Out

\* What a step may not touch.
LEMMA VisitElse ==
  ASSUME Base, NEW s, NEW lost \in BOOLEAN, Visit(s, lost), NEW v \in Users, v # job.user
  PROVE  /\ users'[v] = users[v]
         /\ \A f \in NameFiles : v \in disk'[f] <=> v \in disk[f]
         /\ \A d \in Daemons : v \in daemon'[d] <=> v \in daemon[d]
<1>1. \A f \in NameFiles : disk'[f] = IF f = s THEN LeftIn(f) ELSE disk[f]
  BY DEF Visit
<1>2. \A f \in NameFiles : v \in LeftIn(f) <=> v \in disk[f]
  BY DEF LeftIn
<1>3. \A d \in Daemons : v \in daemon'[d] <=> v \in daemon[d]
  BY DEF Visit
<1>4. users'[v] = users[v]
  BY BaseTypes DEF Visit
<1>5. QED
  BY <1>1, <1>2, <1>3, <1>4

LEMMA SameHomes ==
  ASSUME NEW v, users'[v] = users[v],
         \A f \in NameFiles : v \in disk'[f] <=> v \in disk[f],
         \A d \in Daemons : v \in daemon'[d] <=> v \in daemon[d]
  PROVE  /\ Homes(v)' = Homes(v) /\ (Agrees(v)' <=> Agrees(v))
         /\ MqvpnKnows(v)' <=> MqvpnKnows(v)
<1>1. Homes(v)' = Homes(v)
  BY DEF Homes
<1>2. "mqvpn" \in NameFiles /\ "mqvpn" \in Daemons
  BY DEF NameFiles, Daemons
<1>3. QED
  BY <1>1, <1>2 DEF Agrees, MqvpnKnows

\* What a heard step leaves of its own user, at its service and at those before.
LEMMA VisitLeaves ==
  ASSUME Base, NamesInv, NEW s, Visit(s, FALSE), ~job.lost, NEW w, w = job.user
  PROVE  /\ Removing => \A t \in (Visited \cup {s}) \cap AllHomes : Out(t, w)'
         /\ Adding /\ w \notin dirty =>
              \A t \in (Visited \cup {s}) \cap AllHomes : Skipped(t) \/ In(t, w)'
         /\ w \notin dirty => MqvpnKnows(w)'
<1>1. /\ job # Idle /\ s = Plan(job.op)[job.at]
      /\ \A f \in NameFiles : disk'[f] = IF f = s THEN LeftIn(f) ELSE disk[f]
      /\ \A d \in Daemons : d = s \/ daemon'[d] = daemon[d]
      /\ s \in Daemons => ToldTo(s)
  BY DEF Visit
<1>2. w \in Users /\ (Adding <=> ~Removing)
  BY <1>1, Served
<1>3. s \notin Visited
  BY <1>1, StepsVisited
<1>4. Done(Visited)
  BY DEF NamesInv
<1>5. ASSUME NEW t \in Visited PROVE (Out(t, w)' <=> Out(t, w)) /\ (In(t, w)' <=> In(t, w))
  BY <1>1, <1>3 DEF Out, In
<1>6. Removing /\ s \in AllHomes => Out(s, w)'
  <2>1. Removing /\ s \in NameFiles => w \notin disk'[s]
    BY <1>1 DEF LeftIn
  <2>2. Removing /\ s \in Daemons => w \notin daemon'[s]
    BY <1>1 DEF ToldTo
  <2>3. QED
    BY <2>1, <2>2 DEF Out
<1>7. ASSUME Adding, w \notin dirty, s \in AllHomes, ~Skipped(s) PROVE In(s, w)'
  <2>1. s \in NameFiles => w \in disk'[s]
    BY <1>1, <1>2, <1>7 DEF LeftIn
  <2>2. ASSUME s \in Daemons PROVE w \in daemon'[s]
    <3>1. CASE w \in daemon'[s]
      BY <3>1
    <3>2. CASE s = "mqvpn" /\ w \in disk["mqvpn"] /\ daemon'["mqvpn"] = daemon["mqvpn"]
      <4>1. MqvpnKnows(w)
        BY <1>2, <1>7 DEF NamesInv
      <4>2. QED
        BY <3>2, <4>1 DEF MqvpnKnows
    <3>3. QED
      BY <1>1, <1>2, <1>7, <2>2, <3>1, <3>2 DEF ToldTo
  <2>3. QED
    BY <2>1, <2>2 DEF In
<1>8. ASSUME w \notin dirty PROVE MqvpnKnows(w)'
  <2>1. "mqvpn" \in NameFiles /\ "mqvpn" \in Daemons
    BY DEF NameFiles, Daemons
  <2>2. CASE s = "mqvpn"
    <3>1. s \in AllHomes /\ ~Skipped(s)
      BY <2>1, <2>2 DEF AllHomes, Skipped
    <3>2. Out(s, w)' \/ In(s, w)'
      BY <1>2, <1>6, <1>7, <1>8, <3>1
    <3>3. QED
      BY <2>1, <2>2, <3>2 DEF Out, In, MqvpnKnows
  <2>3. CASE s # "mqvpn"
    <3>1. MqvpnKnows(w)
      BY <1>2, <1>8 DEF NamesInv
    <3>2. disk'["mqvpn"] = disk["mqvpn"] /\ daemon'["mqvpn"] = daemon["mqvpn"]
      BY <1>1, <2>1, <2>3
    <3>3. QED
      BY <3>1, <3>2 DEF MqvpnKnows
  <2>4. QED
    BY <2>2, <2>3
<1>9. QED
  BY <1>4, <1>5, <1>6, <1>7, <1>8 DEF Done

LEMMA VisitNames ==
  ASSUME ConstantsOK, Base, NamesInv, NEW s, NEW lost \in BOOLEAN, Visit(s, lost)
  PROVE  NamesInv'
<1>1. PICK w : w = job.user
  OBVIOUS
<1>2. /\ job # Idle /\ s = Plan(job.op)[job.at] /\ Onward(lost)
      /\ users' = IF s = "config" THEN [users EXCEPT ![job.user] = IF Adding THEN job.rec ELSE None]
                  ELSE users
  BY DEF Visit
<1>3. w \in Users /\ job.at \in 1..11 /\ job.lost \in BOOLEAN /\ job.rec \in Records /\ (Adding <=> ~Removing)
  BY <1>1, <1>2, Served
<1>4. ASSUME NEW v \in Users, v # w, v \notin dirty PROVE Agrees(v)' /\ MqvpnKnows(v)'
  <2>1. Agrees(v) /\ MqvpnKnows(v)
    BY <1>1, <1>4 DEF NamesInv
  <2>2. QED
    BY <1>1, <1>4, <2>1, VisitElse, SameHomes
<1>5. ASSUME ~lost, ~job.lost
      PROVE  /\ Removing => \A t \in (Visited \cup {s}) \cap AllHomes : Out(t, w)'
             /\ Adding /\ w \notin dirty =>
                  \A t \in (Visited \cup {s}) \cap AllHomes : Skipped(t) \/ In(t, w)'
             /\ w \notin dirty => MqvpnKnows(w)'
  <2>1. Visit(s, FALSE)
    <3>1. lost = FALSE
      BY <1>5
    <3>2. QED
      BY <3>1
  <2>2. QED
    BY <1>1, <1>5, <2>1, VisitLeaves
<1>6. CASE job.at < 11
  <2>1. /\ job'.op = job.op /\ job'.user = w
        /\ job'.rec = job.rec /\ (job'.lost <=> (job.lost \/ lost)) /\ job'.at = job.at + 1
        /\ Visited' = Visited \cup {s} /\ dirty' = dirty
        /\ (Adding' <=> Adding) /\ (Removing' <=> Removing)
    BY <1>1, <1>2, <1>6, OnwardGoes
  <2>2. ~Untouched'
    BY <1>3, <2>1 DEF Untouched
  <2>3. ASSUME NEW v \in Users, v \notin dirty', v # w
        PROVE  Agrees(v)' /\ MqvpnKnows(v)'
    BY <1>4, <2>1, <2>3
  <2>4. ASSUME w \notin dirty', ~job'.lost PROVE MqvpnKnows(w)'
    BY <1>5, <2>1, <2>4
  <2>5. ASSUME ~job'.lost PROVE Done(Visited)'
    <3>1. \A t : Skipped(t)' <=> Skipped(t)
      BY <2>1 DEF Skipped
    <3>2. ~lost /\ ~job.lost
      BY <2>1, <2>5
    <3>3. Removing' => \A t \in Visited' \cap AllHomes : Out(t, job.user)'
      <4>1. ASSUME Removing', NEW t \in Visited' \cap AllHomes PROVE Out(t, job.user)'
        <5>1. Out(t, w)'
          BY <1>5, <2>1, <3>2, <4>1
        <5>2. QED
          BY <2>1, <5>1 DEF Out
      <4>2. QED
        BY <4>1
    <3>4. Adding' /\ job'.user \notin dirty' =>
            \A t \in Visited' \cap AllHomes : Skipped(t)' \/ In(t, job.user)'
      <4>1. ASSUME Adding', job'.user \notin dirty', NEW t \in Visited' \cap AllHomes, ~Skipped(t)'
            PROVE  In(t, job.user)'
        <5>1. In(t, w)'
          BY <1>5, <2>1, <3>1, <3>2, <4>1
        <5>2. QED
          BY <2>1, <5>1 DEF In
      <4>2. QED
        BY <4>1
    <3>5. QED
      BY <3>3, <3>4 DEF Done
  <2>6. QED
    BY <2>1, <2>2, <2>3, <2>4, <2>5 DEF NamesInv
<1>7. CASE job.at = 11
  <2>1. /\ job' = Idle /\ Visited \cup {s} = PlanSteps
        /\ dirty' = IF job.lost \/ lost THEN dirty \cup {w}
                    ELSE IF Removing THEN dirty \ {w} ELSE dirty
    BY <1>1, <1>2, <1>7, OnwardGoes
  <2>2. ~Adding' /\ ~Removing' /\ ~Untouched'
    BY <2>1 DEF Idle, Adding, Removing, Untouched
  <2>3. ASSUME NEW v \in Users, v \notin dirty', v # w
        PROVE  Agrees(v)' /\ MqvpnKnows(v)'
    BY <1>4, <2>1, <2>3
  <2>4. ASSUME w \notin dirty' PROVE Agrees(w)' /\ MqvpnKnows(w)'
    <3>1. ~lost /\ ~job.lost /\ (Adding => w \notin dirty)
      BY <1>3, <2>1, <2>4
    <3>2. AllHomes \subseteq Visited \cup {s} /\ "config" \in Visited \cup {s}
      BY <2>1 DEF AllHomes, NameFiles, Daemons, PlanSteps
    <3>3. CASE Removing
      <4>1. \A t \in AllHomes : Out(t, w)'
        BY <1>5, <3>1, <3>2, <3>3
      <4>2. users'[w] = None
        <5>1. CASE s = "config"
          BY <1>1, <1>2, <1>3, <3>3, <5>1, BaseTypes
        <5>2. CASE s # "config"
          BY <1>1, <1>2, <3>2, <3>3, <5>2 DEF Base, JobInv
        <5>3. QED
          BY <5>1, <5>2
      <4>3. Homes(w)' = {}
        BY <4>1 DEF Homes, Out, AllHomes
      <4>4. "mqvpn" \in AllHomes /\ "mqvpn" \in NameFiles /\ "mqvpn" \in Daemons
        BY DEF AllHomes, NameFiles, Daemons
      <4>5. MqvpnKnows(w)'
        BY <4>1, <4>4 DEF Out, MqvpnKnows
      <4>6. QED
        BY <4>2, <4>3, <4>5 DEF Agrees
    <3>4. CASE Adding
      <4>1. \A t \in AllHomes : Skipped(t) \/ In(t, w)'
        BY <1>5, <3>1, <3>2, <3>4
      <4>2. users'[w] = job.rec /\ job.rec # None
        <5>1. users'[w] = job.rec
          <6>1. CASE s = "config"
            BY <1>1, <1>2, <1>3, <3>4, <6>1, BaseTypes
          <6>2. CASE s # "config"
            BY <1>1, <1>2, <3>2, <3>4, <6>2 DEF Base, JobInv
          <6>3. QED
            BY <6>1, <6>2
        <5>2. QED
          BY <1>3, <5>1 DEF ConstantsOK
      <4>3. \A t \in AllHomes : In(t, w)' => t \in Homes(w)'
        BY DEF Homes, In, AllHomes
      <4>4. \A t \in AllHomes : Skipped(t) => t \in (IF job.rec.ips THEN {"ssgo", "v2ray"} ELSE {})
        BY DEF Skipped
      <4>5. Agrees(w)'
        BY <4>1, <4>2, <4>3, <4>4 DEF Agrees
      <4>6. QED
        BY <1>5, <3>1, <3>4, <4>5
    <3>5. QED
      BY <1>3, <3>3, <3>4
  <2>5. QED
    <3>1. \A v \in Users \ dirty' : Agrees(v)' /\ MqvpnKnows(v)'
      BY <2>3, <2>4
    <3>2. Done(Visited)'
      BY <2>2 DEF Done
    <3>3. QED
      BY <2>2, <3>1, <3>2 DEF NamesInv
<1>8. QED
  BY <1>3, <1>6, <1>7

LEMMA BeginNames ==
  ASSUME ConstantsOK, Base, NamesInv, Begins
  PROVE  NamesInv'
<1>1. /\ job = Idle /\ UNCHANGED <<users, disk, daemon, dirty, faults>>
      /\ job'.lost = FALSE /\ Visited' = {}
  BY StartAddIs, StartRemoveIs DEF Begins
<1>2. None \notin Users /\ job.user = None
  BY <1>1, NobodyServed DEF ConstantsOK
<1>3. ASSUME NEW v \in Users \ dirty' PROVE Agrees(v)' /\ MqvpnKnows(v)'
  <2>1. v \in Users \ dirty /\ job.user # v
    BY <1>1, <1>2
  <2>2. Agrees(v) /\ MqvpnKnows(v)
    BY <2>1 DEF NamesInv
  <2>3. QED
    BY <1>1, <2>2, SameHomes
<1>4. Done(Visited)'
  BY <1>1 DEF Done
<1>5. QED
  BY <1>1, <1>3, <1>4 DEF NamesInv

LEMMA AddShadowsocksNames ==
  ASSUME ConstantsOK, Base, NamesInv, AddShadowsocks
  PROVE  NamesInv'
<1>1. /\ job # Idle /\ Adding /\ "shadowsocks" \notin Visited
      /\ \A f \in (NameFiles \cup KeyFiles) \ {"shadowsocks"} : disk'[f] = disk[f]
      /\ job'.user = job.user /\ job'.lost = job.lost /\ job'.op = job.op
      /\ job'.rec.ips = job.rec.ips
      /\ job'.at = job.at + 1 /\ Visited' = Visited \cup {"shadowsocks"}
      /\ Adding' /\ ~Removing' /\ UNCHANGED <<users, daemon, dirty, faults>>
  <2>1. PICK port, kept : PortGiven(job.user, port, kept)
    BY AddShadowsocksIs
  <2>2. job'.rec.ips = job.rec.ips
    BY <2>1, Served DEF PortGiven, Records
  <2>3. QED
    BY <2>1, <2>2 DEF PortGiven
<1>2. "shadowsocks" \notin AllHomes
  BY DEF AllHomes, NameFiles, Daemons
<1>3. \A f \in NameFiles : disk'[f] = disk[f]
  BY <1>1, <1>2 DEF AllHomes
<1>4. \A v : (Agrees(v)' <=> Agrees(v)) /\ (MqvpnKnows(v)' <=> MqvpnKnows(v))
  BY <1>1, <1>3, SameHomes
<1>5. ~Untouched'
  BY <1>1, Served DEF Untouched
<1>6. ASSUME ~job'.lost PROVE Done(Visited)'
  <2>1. Done(Visited)
    BY <1>1, <1>6 DEF NamesInv
  <2>2. \A t : Skipped(t)' <=> Skipped(t)
    BY <1>1 DEF Skipped
  <2>3. \A t : In(t, job.user)' <=> In(t, job.user)
    BY <1>1, <1>3 DEF In
  <2>4. QED
    BY <1>1, <1>2, <2>1, <2>2, <2>3 DEF Done
<1>7. \A v \in Users \ dirty' : (job'.user = v => ~job'.lost) => MqvpnKnows(v)'
  BY <1>1, <1>4 DEF NamesInv
<1>8. \A v \in Users \ dirty' : job'.user # v => Agrees(v)'
  BY <1>1, <1>4 DEF NamesInv
<1>9. QED
  BY <1>5, <1>6, <1>7, <1>8 DEF NamesInv

\* A request that ends leaves the others alone, and its user dirty or as it was.
LEMMA EndNames ==
  ASSUME ConstantsOK, Base, NamesInv, CertificateFails \/ CutOff \/ GivenPortFails
  PROVE  NamesInv'
<1>1. PICK w : w = job.user
  OBVIOUS
<1>2. /\ job # Idle /\ job' = Idle /\ UNCHANGED <<users, daemon>>
      /\ \A f \in NameFiles : disk'[f] = disk[f] \/ disk'[f] = disk[f] \ {w}
      /\ dirty' = dirty \/ dirty' = dirty \cup {w}
  <2>1. CASE GivenPortFails
    <3>1. \A f \in NameFiles : f # "shadowsocks"
      BY DEF NameFiles
    <3>2. QED
      BY <1>1, <2>1, <3>1, GivenPortIs
  <2>2. CASE CertificateFails \/ CutOff
    BY <1>1, <2>2, FailIs DEF CutOff
  <2>3. QED
    BY <2>1, <2>2
<1>3. ASSUME NEW v \in Users \ dirty', v # w PROVE Agrees(v)' /\ MqvpnKnows(v)'
  <2>1. Agrees(v) /\ MqvpnKnows(v)
    BY <1>1, <1>2, <1>3 DEF NamesInv
  <2>2. \A f \in NameFiles : v \in disk'[f] <=> v \in disk[f]
    BY <1>2, <1>3
  <2>3. QED
    BY <1>2, <2>1, <2>2, SameHomes
<1>4. ASSUME w \notin dirty' PROVE Agrees(w)' /\ MqvpnKnows(w)'
  <2>1. /\ w \in Users \ dirty /\ users[w] = None /\ Untouched
    BY <1>1, <1>4, FailIs, GivenPortIs DEF CutOff, Untouched
  <2>2. Homes(w) = {}
    BY <2>1 DEF NamesInv, Agrees
  <2>3. Homes(w)' = {}
    BY <1>2, <2>2 DEF Homes
  <2>4. "mqvpn" \in NameFiles /\ "mqvpn" \in Daemons
    BY DEF NameFiles, Daemons
  <2>5. QED
    BY <1>2, <2>1, <2>3, <2>4 DEF Agrees, MqvpnKnows, Homes
<1>5. ~Adding' /\ ~Removing'
  BY <1>2 DEF Idle, Adding, Removing
<1>6. \A v \in Users \ dirty' : Agrees(v)' /\ MqvpnKnows(v)'
  BY <1>3, <1>4
<1>7. QED
  BY <1>5, <1>6 DEF NamesInv, Untouched, Done

\* Shadowsocks-go's users are XRay's and MQVPN's already, if nothing went wrong.
LEMMA SyncNames ==
  ASSUME ConstantsOK, Base, NamesInv, sync_ss_go_users
  PROVE  NamesInv'
<1>1. /\ job = Idle /\ UNCHANGED <<users, job, dirty, stray, faults>>
      /\ \A f \in NameFiles :
           disk'[f] = IF f \in {"xray", "mqvpn"} THEN disk[f] \cup daemon["ssgo"] ELSE disk[f]
      /\ \A d \in Daemons :
           daemon'[d] = IF d = "mqvpn" THEN daemon[d] \cup (daemon["ssgo"] \ disk["mqvpn"])
                        ELSE daemon[d]
  BY SyncIs
<1>2. job.user = None /\ None \notin Users /\ ~Adding' /\ ~Removing'
  BY <1>1, NobodyServed DEF ConstantsOK, Adding, Removing
<1>3. /\ "mqvpn" \in NameFiles /\ "mqvpn" \in Daemons /\ "ssgo" \in Daemons
  BY DEF NameFiles, Daemons
<1>4. ASSUME NEW v \in Users \ dirty' PROVE Agrees(v)' /\ MqvpnKnows(v)'
  <2>1. Agrees(v) /\ MqvpnKnows(v)
    BY <1>1, <1>2, <1>4 DEF NamesInv
  <2>2. /\ v \in disk'["mqvpn"] <=> v \in disk["mqvpn"] \/ v \in daemon["ssgo"]
        /\ v \in daemon'["mqvpn"] <=> v \in daemon["mqvpn"] \/ (v \in daemon["ssgo"] /\ v \notin disk["mqvpn"])
    BY <1>1, <1>3
  <2>3. MqvpnKnows(v)'
    BY <2>1, <2>2 DEF MqvpnKnows
  <2>4. CASE v \in daemon["ssgo"]
    <3>1. users[v] # None
      BY <1>3, <2>1, <2>4 DEF Agrees, Homes
    <3>2. Homes(v) \subseteq Homes(v)'
      BY <1>1 DEF Homes
    <3>3. QED
      BY <1>1, <2>1, <2>3, <3>1, <3>2 DEF Agrees
  <2>5. CASE v \notin daemon["ssgo"]
    BY <1>1, <2>1, <2>3, <2>5, SameHomes
  <2>6. QED
    BY <2>4, <2>5
<1>5. QED
  BY <1>2, <1>4 DEF NamesInv, Untouched, Done

LEMMA RestartNames ==
  ASSUME ConstantsOK, Base, NamesInv, MqvpnRestarts
  PROVE  NamesInv'
<1>1. /\ UNCHANGED <<users, disk, pki, job, dirty, stray, adds, faults>>
      /\ daemon' = [daemon EXCEPT !["mqvpn"] = disk["mqvpn"]]
  BY DEF MqvpnRestarts
<1>2. "mqvpn" \in NameFiles /\ "mqvpn" \in Daemons
  BY DEF NameFiles, Daemons
<1>3. \A d \in Daemons : daemon'[d] = IF d = "mqvpn" THEN disk["mqvpn"] ELSE daemon[d]
  BY <1>1, BaseTypes
<1>4. /\ Untouched' <=> Untouched
      /\ Adding' <=> Adding
      /\ Removing' <=> Removing
      /\ Visited' = Visited
  BY <1>1 DEF Untouched, Adding, Removing, Visited
<1>5. \A v : MqvpnKnows(v)'
  BY <1>1, <1>2, <1>3 DEF MqvpnKnows
<1>6. ASSUME NEW v \in Users \ dirty', job'.user # v \/ Untouched' PROVE Agrees(v)'
  <2>1. Agrees(v) /\ MqvpnKnows(v)
    BY <1>1, <1>4, <1>6 DEF NamesInv
  <2>2. \A d \in Daemons : v \in daemon'[d] <=> v \in daemon[d]
    BY <1>3, <2>1 DEF MqvpnKnows
  <2>3. QED
    BY <1>1, <2>1, <2>2, SameHomes
<1>7. ASSUME ~job'.lost PROVE Done(Visited)'
  <2>1. Done(Visited)
    BY <1>1, <1>7 DEF NamesInv
  <2>2. \A t, u : (Out(t, u) => Out(t, u)') /\ (In(t, u) => In(t, u)')
    BY <1>1, <1>2, <1>3 DEF In, Out
  <2>3. \A t : Skipped(t)' <=> Skipped(t)
    BY <1>1 DEF Skipped
  <2>4. QED
    BY <1>1, <1>4, <2>1, <2>2, <2>3 DEF Done
<1>8. QED
  BY <1>1, <1>4, <1>5, <1>6, <1>7 DEF NamesInv

LEMMA StepNames ==
  ASSUME ConstantsOK, Base, NamesInv, [Next]_vars
  PROVE  NamesInv'
<1>1. CASE Next
  BY <1>1, StepIs, VisitNames, BeginNames, AddShadowsocksNames, EndNames, SyncNames, RestartNames
  DEF Rests
<1>2. CASE UNCHANGED vars
  <2>1. UNCHANGED <<users, disk, pki, daemon, job, dirty, stray, adds, faults>>
    BY <1>2 DEF vars
  <2>2. QED
    BY <2>1 DEF NamesInv, Agrees, MqvpnKnows, Homes, Untouched, Adding, Removing, Visited,
                Done, In, Out, Skipped
<1>3. QED
  BY <1>1, <1>2

LEMMA InitNames ==
  ASSUME ConstantsOK, Init
  PROVE  NamesInv
<1>1. /\ job = Idle /\ \A u \in Users : users[u] = None
      /\ \A f \in NameFiles : disk[f] = {}
      /\ \A d \in Daemons : daemon[d] = {}
  BY DEF Init, NameFiles
<1>2. ~Adding /\ ~Removing
  BY <1>1, NobodyServed
<1>3. "mqvpn" \in NameFiles /\ "mqvpn" \in Daemons
  BY DEF NameFiles, Daemons
<1>4. \A u \in Users : Agrees(u) /\ MqvpnKnows(u)
  BY <1>1, <1>3 DEF Agrees, MqvpnKnows, Homes
<1>5. QED
  BY <1>2, <1>4 DEF NamesInv, Untouched, Done

LEMMA NamesShow == Base /\ NamesInv => NamesAgree
  BY DEF Base, PkiInv, NamesInv, NamesAgree, Agrees

\* A user has an account at every service or at none, as the configuration says,
\* whatever was asked for the others and whichever daemon or worker restarted,
\* unless one of its own requests was cut off, named a port along with public
\* addresses or failed to renew its certificate, or a daemon missed a call for
\* it.  A removed one has no certificate the server accepts, unless its entry
\* was dropped by adding its name again or one it begins with (add_user,
\* remove_user, sync_ss_go_users).
THEOREM NamesStayAgreed ==
  ASSUME ConstantsOK
  PROVE  Spec => []NamesAgree
<1>1. Init => Base /\ NamesInv
  BY InitTypes, InitNames
<1>2. (Base /\ NamesInv) /\ [Next]_vars => (Base /\ NamesInv)'
  BY StepTypes, StepNames
<1>3. QED
  BY <1>1, <1>2, NamesShow, PTL DEF Spec

----------------------------------------------------------------------------
(* Accounts by port and by userid *)

Owned(f, u) == {a \in disk[f] : a.who = u}

Keyed(u) ==
    \A f \in KeyFiles : Owned(f, u) = IF users[u] = None THEN {} ELSE {Entry(f, u, users[u])}

\* What a request has left of its own user's ports and userids so far.
Keeps(visited) ==
    \A f \in KeyFiles :
        Owned(f, job.user) = IF Adding <=> f \in visited THEN {Entry(f, job.user, job.rec)} ELSE {}

\* A userid is one user's only, in the configuration and in the request, or both
\* its users are stray.
IdsInv ==
    /\ \A u \in Users \ stray : \A v \in Users \ {u} :
         users[u] # None /\ users[v] # None => users[u].id # users[v].id
    /\ job # Idle =>
         \A v \in Users \ {job.user} :
            users[v] # None /\ (v \notin stray \/ job.user \notin stray) => users[v].id # job.rec.id

\* A port is one user's only, or both its users are stray.
PortsInv ==
    /\ \A u \in Users \ stray : \A v \in Users \ {u} :
         users[u] # None /\ users[v] # None => users[u].port # users[v].port
    /\ HasPort =>
         \A v \in Users \ {job.user} :
            users[v] # None /\ (v \notin stray \/ job.user \notin stray) => users[v].port # job.rec.port

KeysInv ==
    /\ \A u \in Users \ stray : job.user # u \/ (Adding /\ ~HasPort) => Keyed(u)
    /\ HasPort /\ job.user \notin stray => Keeps(Visited)
    /\ HasPort /\ Adding /\ "config" \notin Visited /\ job.user \notin stray =>
         users[job.user] = None

Own == IdsInv /\ PortsInv /\ KeysInv

\* What a step may not touch.
LEMMA VisitOthers ==
  ASSUME Base, Own, NEW s, NEW lost \in BOOLEAN, Visit(s, lost),
         NEW v \in Users, v # job.user, v \notin stray
  PROVE  Keyed(v)'
<1>1. PICK w : w = job.user
  OBVIOUS
<1>2. /\ job # Idle /\ s = Plan(job.op)[job.at] /\ (Adding => s # "shadowsocks")
      /\ \A f \in KeyFiles : disk'[f] = IF f = s THEN LeftIn(f) ELSE disk[f]
  BY DEF Visit
<1>3. users'[v] = users[v] /\ Keyed(v)
  BY VisitElse DEF Own, KeysInv
<1>4. ASSUME NEW f \in KeyFiles, f = s PROVE Owned(f, v)' = Owned(f, v)
  <2>1. f \notin NameFiles
    BY DEF KeyFiles, NameFiles
  <2>2. \A a \in LeftIn(f) : a \in disk[f] \/ a.who = w
    BY <1>1, <2>1 DEF LeftIn, Entry
  <2>3. \A a \in disk[f] : KeyIn(f, a) # KeyIn(f, job.rec) => a \in LeftIn(f)
    BY <2>1 DEF LeftIn
  <2>4. \A a \in Owned(f, v) : KeyIn(f, a) # KeyIn(f, job.rec)
    <3>1. CASE users[v] = None
      BY <1>3, <3>1 DEF Keyed
    <3>2. CASE users[v] # None
      <4>1. Owned(f, v) = {Entry(f, v, users[v])}
        BY <1>3, <3>2 DEF Keyed
      <4>2. users[v].id # job.rec.id
        BY <1>2, <3>2 DEF Own, IdsInv
      <4>3. f = "shadowsocks" => users[v].port # job.rec.port
        <5>1. f = "shadowsocks" => HasPort
          BY <1>2, <1>4, Served DEF HasPort
        <5>2. QED
          BY <3>2, <5>1 DEF Own, PortsInv
      <4>4. KeyIn(f, Entry(f, v, users[v])) # KeyIn(f, job.rec)
        BY <4>2, <4>3 DEF KeyIn, Entry
      <4>5. QED
        BY <4>1, <4>4
    <3>3. QED
      BY <3>1, <3>2
  <2>5. disk'[f] = LeftIn(f)
    BY <1>2, <1>4
  <2>6. QED
    BY <1>1, <2>2, <2>3, <2>4, <2>5 DEF Owned
<1>5. \A f \in KeyFiles : Owned(f, v)' = Owned(f, v)
  BY <1>2, <1>4 DEF Owned
<1>6. QED
  BY <1>3, <1>5 DEF Keyed

\* What a step leaves of its own user.
LEMMA VisitOwn ==
  ASSUME Base, Own, NEW s, NEW lost \in BOOLEAN, Visit(s, lost), HasPort,
         NEW w, w = job.user, w \notin stray, NEW f \in KeyFiles
  PROVE  Owned(f, w)' = IF Adding <=> f \in Visited \cup {s} THEN {Entry(f, w, job.rec)} ELSE {}
<1>1. /\ job # Idle /\ s = Plan(job.op)[job.at]
      /\ \A g \in KeyFiles : disk'[g] = IF g = s THEN LeftIn(g) ELSE disk[g]
  BY DEF Visit
<1>2. s \notin Visited /\ (Adding <=> ~Removing)
  BY <1>1, StepsVisited, Served
<1>3. Owned(f, w) = IF Adding <=> f \in Visited THEN {Entry(f, w, job.rec)} ELSE {}
  BY DEF Own, KeysInv, Keeps
<1>4. CASE f # s
  BY <1>1, <1>3, <1>4 DEF Owned
<1>5. CASE f = s
  <2>1. f \notin NameFiles /\ disk'[f] = LeftIn(f)
    BY <1>1, <1>5 DEF KeyFiles, NameFiles
  <2>2. Entry(f, w, job.rec).who = w /\ KeyIn(f, Entry(f, w, job.rec)) = KeyIn(f, job.rec)
    BY DEF Entry, KeyIn
  <2>3. CASE Adding
    <3>1. Owned(f, w) = {}
      BY <1>2, <1>3, <1>5, <2>3
    <3>2. LeftIn(f) = {a \in disk[f] : KeyIn(f, a) # KeyIn(f, job.rec)} \cup {Entry(f, w, job.rec)}
      BY <1>2, <2>1, <2>3 DEF LeftIn
    <3>3. Owned(f, w)' = {Entry(f, w, job.rec)}
      BY <2>1, <2>2, <3>1, <3>2 DEF Owned
    <3>4. QED
      BY <1>5, <2>3, <3>3
  <2>4. CASE Removing
    <3>1. Owned(f, w) = {Entry(f, w, job.rec)}
      BY <1>2, <1>3, <1>5, <2>4
    <3>2. LeftIn(f) = {a \in disk[f] : KeyIn(f, a) # KeyIn(f, job.rec)}
      BY <1>2, <2>1, <2>4 DEF LeftIn
    <3>3. Owned(f, w)' = {}
      BY <2>1, <2>2, <3>1, <3>2 DEF Owned
    <3>4. QED
      BY <1>2, <1>5, <2>4, <3>3
  <2>5. QED
    BY <1>2, <2>3, <2>4
<1>6. QED
  BY <1>4, <1>5

LEMMA VisitKeys ==
  ASSUME ConstantsOK, Base, Own, NEW s, NEW lost \in BOOLEAN, Visit(s, lost)
  PROVE  Own'
<1>1. PICK w : w = job.user
  OBVIOUS
<1>2. /\ job # Idle /\ s = Plan(job.op)[job.at] /\ (Adding => s # "shadowsocks") /\ Onward(lost)
      /\ users' = IF s = "config" THEN [users EXCEPT ![w] = IF Adding THEN job.rec ELSE None]
                  ELSE users
      /\ stray' = stray
  BY <1>1 DEF Visit
<1>3. /\ w \in Users /\ job.at \in 1..11 /\ job.rec \in Records /\ job.rec # None
      /\ (Adding <=> ~Removing)
  BY <1>1, <1>2, Served DEF ConstantsOK
<1>4. /\ job.at < 11 =>
           /\ job' # Idle /\ job'.user = w /\ job'.rec = job.rec /\ Visited' = Visited \cup {s}
           /\ (Adding' <=> Adding) /\ (Removing' <=> Removing)
           /\ (HasPort' <=> HasPort)
      /\ job.at = 11 => job' = Idle /\ Visited \cup {s} = PlanSteps
  BY <1>1, <1>2, OnwardGoes DEF HasPort
<1>5. \A v \in Users \ {w} : users'[v] = users[v]
  BY <1>1, VisitElse
<1>6. users'[w] = IF s = "config" THEN IF Adding THEN job.rec ELSE None ELSE users[w]
  BY <1>2, <1>3, BaseTypes
<1>7. s = "config" => HasPort
  BY <1>2, <1>3, StepsVisited DEF HasPort
<1>8. (~Adding' /\ ~Removing' /\ ~HasPort') \/ job.at < 11
  BY <1>3, <1>4 DEF Idle, Adding, Removing, HasPort
<1>9. IdsInv'
  <2>1. ASSUME NEW u \in Users \ stray, NEW v \in Users \ {u}, users'[u] # None, users'[v] # None
        PROVE  users'[u].id # users'[v].id
    <3>1. CASE u # w /\ v # w
      BY <1>5, <2>1, <3>1 DEF Own, IdsInv
    <3>2. CASE u = w \/ v = w
      <4>1. users'[w].id = job.rec.id \/ users'[w] = users[w]
        BY <1>6, <2>1, <3>2
      <4>2. QED
        BY <1>1, <1>2, <1>5, <2>1, <3>2, <4>1 DEF Own, IdsInv
    <3>3. QED
      BY <3>1, <3>2
  <2>2. ASSUME job' # Idle, NEW v \in Users \ {job'.user}, users'[v] # None,
               v \notin stray \/ job'.user \notin stray
        PROVE  users'[v].id # job'.rec.id
    <3>1. job.at < 11
      BY <1>3, <1>4, <2>2
    <3>2. QED
      BY <1>1, <1>2, <1>4, <1>5, <2>2, <3>1 DEF Own, IdsInv
  <2>3. QED
    BY <1>2, <2>1, <2>2 DEF IdsInv
<1>10. PortsInv'
  <2>1. ASSUME NEW u \in Users \ stray, NEW v \in Users \ {u}, users'[u] # None, users'[v] # None
        PROVE  users'[u].port # users'[v].port
    <3>1. CASE u # w /\ v # w
      BY <1>5, <2>1, <3>1 DEF Own, PortsInv
    <3>2. CASE u = w \/ v = w
      <4>1. CASE s = "config"
        <5>1. users'[w].port = job.rec.port
          BY <1>6, <2>1, <3>2, <4>1
        <5>2. HasPort
          BY <1>7, <4>1
        <5>3. QED
          BY <1>1, <1>5, <2>1, <3>2, <5>1, <5>2 DEF Own, PortsInv
      <4>2. CASE s # "config"
        <5>1. users' = users
          BY <1>2, <4>2
        <5>2. QED
          BY <2>1, <5>1 DEF Own, PortsInv
      <4>3. QED
        BY <4>1, <4>2
    <3>3. QED
      BY <3>1, <3>2
  <2>2. ASSUME HasPort', NEW v \in Users \ {job'.user}, users'[v] # None,
               v \notin stray \/ job'.user \notin stray
        PROVE  users'[v].port # job'.rec.port
    <3>1. job.at < 11
      BY <1>8, <2>2
    <3>2. QED
      BY <1>1, <1>4, <1>5, <2>2, <3>1 DEF Own, PortsInv
  <2>3. QED
    BY <1>2, <2>1, <2>2 DEF PortsInv
<1>11. ASSUME NEW v \in Users \ stray, v # w PROVE Keyed(v)'
  BY <1>1, <1>11, VisitOthers
<1>12. ASSUME HasPort, w \notin stray
       PROVE  \A f \in KeyFiles : Owned(f, w)' =
                IF Adding <=> f \in Visited \cup {s} THEN {Entry(f, w, job.rec)} ELSE {}
  BY <1>1, <1>12, VisitOwn
<1>13. KeysInv'
  <2>1. CASE job.at < 11
    <3>1. /\ job'.user = w /\ job'.rec = job.rec /\ Visited' = Visited \cup {s}
          /\ (Adding' <=> Adding) /\ (HasPort' <=> HasPort)
      BY <1>4, <2>1
    <3>2. ASSUME Adding, ~HasPort, w \notin stray PROVE Keyed(w)'
      <4>1. Keyed(w)
        BY <1>1, <1>3, <3>2 DEF Own, KeysInv
      <4>2. s = "openvpn"
        <5>1. "shadowsocks" \notin Visited
          BY <3>2 DEF HasPort
        <5>2. QED
          BY <1>2, <1>3, <3>2, <5>1, StepsVisited
      <4>3. \A f \in KeyFiles : disk'[f] = disk[f]
        BY <4>2 DEF Visit, KeyFiles
      <4>4. users'[w] = users[w]
        BY <1>6, <4>2
      <4>5. QED
        BY <4>1, <4>3, <4>4 DEF Keyed, Owned
    <3>3. ASSUME HasPort, w \notin stray PROVE Keeps(Visited)'
      <4>1. ASSUME NEW f \in KeyFiles
            PROVE  Owned(f, job.user)' =
                     IF Adding' <=> f \in Visited' THEN {Entry(f, job'.user, job'.rec)} ELSE {}
        <5>1. Owned(f, job.user)' = Owned(f, w)'
          BY <3>1 DEF Owned
        <5>2. QED
          BY <1>12, <3>1, <3>3, <5>1
      <4>2. QED
        BY <4>1 DEF Keeps
    <3>4. ASSUME HasPort, Adding, "config" \notin Visited', w \notin stray PROVE users'[w] = None
      <4>1. "config" \notin Visited /\ s # "config"
        BY <3>1, <3>4
      <4>2. QED
        BY <1>1, <1>6, <3>4, <4>1 DEF Own, KeysInv
    <3>5. QED
      BY <1>2, <1>11, <3>1, <3>2, <3>3, <3>4 DEF KeysInv
  <2>2. CASE job.at = 11
    <3>1. ~Adding' /\ ~Removing' /\ ~HasPort'
      BY <1>8, <2>2
    <3>2. ASSUME w \notin stray PROVE Keyed(w)'
      <4>1. KeyFiles \subseteq Visited \cup {s} /\ "config" \in Visited \cup {s}
        BY <1>4, <2>2 DEF KeyFiles, PlanSteps
      <4>2. HasPort
        BY <1>2, <1>3, <2>2, StepsVisited DEF HasPort
      <4>3. users'[w] = IF Adding THEN job.rec ELSE None
        <5>1. CASE s = "config"
          BY <1>6, <5>1
        <5>2. CASE s # "config"
          BY <1>1, <1>3, <1>6, <4>1, <5>2 DEF Base, JobInv
        <5>3. QED
          BY <5>1, <5>2
      <4>4. \A f \in KeyFiles : Owned(f, w)' = IF Adding THEN {Entry(f, w, job.rec)} ELSE {}
        BY <1>12, <3>2, <4>1, <4>2
      <4>5. QED
        BY <1>3, <4>3, <4>4 DEF Keyed
    <3>3. \A v \in Users \ stray : Keyed(v)'
      BY <1>11, <3>2
    <3>4. QED
      BY <1>2, <3>1, <3>3 DEF KeysInv
  <2>3. QED
    BY <1>3, <2>1, <2>2
<1>14. QED
  BY <1>9, <1>10, <1>13 DEF Own

LEMMA BeginKeys ==
  ASSUME ConstantsOK, Base, Own, Begins
  PROVE  Own'
<1>1. /\ job = Idle /\ UNCHANGED <<users, disk, daemon, dirty, faults>> /\ stray \subseteq stray'
      /\ job.user = None /\ None \notin Users /\ ~HasPort
  BY StartAddIs, StartRemoveIs, NobodyServed DEF Begins, ConstantsOK
<1>2. \A v \in Users \ stray : Keyed(v)
  BY <1>1 DEF Own, KeysInv
<1>3. \A v : Keyed(v)' <=> Keyed(v)
  BY <1>1 DEF Keyed, Owned
<1>4. ASSUME NEW u \in Users, NEW ask \in Adds, StartAdd(u, ask) PROVE Own'
  <2>1. Adding' /\ ~Removing' /\ Visited' = {} /\ job'.user = u
    BY <1>4, StartAddIs
  <2>2. ~HasPort'
    BY <2>1 DEF HasPort
  <2>3. \A v \in Users \ {u} : users[v] # None /\ users[v].id = job'.rec.id =>
          v \in stray' /\ u \in stray'
    BY <1>4, StartAddIs
  <2>4. IdsInv'
    BY <1>1, <2>1, <2>3 DEF Own, IdsInv
  <2>5. PortsInv'
    BY <1>1, <2>2 DEF Own, PortsInv
  <2>6. KeysInv'
    BY <1>1, <1>2, <1>3, <2>2 DEF KeysInv
  <2>7. QED
    BY <2>4, <2>5, <2>6 DEF Own
<1>5. ASSUME NEW u \in Users, StartRemove(u) PROVE Own'
  <2>1. /\ job'.user = u /\ users[u] # None /\ job'.rec = users[u] /\ stray' = stray
        /\ Visited' = {} /\ Removing' /\ ~Adding'
    BY <1>5, StartRemoveIs
  <2>2. IdsInv'
    BY <1>1, <2>1 DEF Own, IdsInv
  <2>3. PortsInv'
    BY <1>1, <2>1 DEF Own, PortsInv
  <2>4. ASSUME u \notin stray PROVE Keeps(Visited)'
    <3>1. \A f \in KeyFiles : Owned(f, u) = {Entry(f, u, users[u])}
      BY <1>2, <2>1, <2>4 DEF Keyed
    <3>2. \A f \in KeyFiles : Owned(f, job.user)' = Owned(f, u)
      BY <1>1, <2>1 DEF Owned
    <3>3. QED
      BY <2>1, <3>1, <3>2 DEF Keeps
  <2>5. QED
    BY <1>1, <1>2, <1>3, <2>1, <2>2, <2>3, <2>4 DEF Own, KeysInv
<1>6. QED
  BY <1>4, <1>5 DEF Begins

PortWritten(port, u) ==
    /\ \A f \in (NameFiles \cup KeyFiles) \ {"shadowsocks"} : disk'[f] = disk[f]
    /\ disk'["shadowsocks"] = {a \in disk["shadowsocks"] : a.port # port}
                               \cup {[port |-> port, who |-> u]}

\* Writing an account at a port leaves alone who has another port on record.
LEMMA PortWrittenIs ==
  ASSUME Base, NEW w, NEW port, NEW v \in Users, v # w, Keyed(v), users' = users,
         PortWritten(port, w), users[v] # None => users[v].port # port
  PROVE  Keyed(v)'
<1>1. \A f \in KeyFiles \ {"shadowsocks"} : Owned(f, v)' = Owned(f, v)
  BY DEF Owned, PortWritten
<1>2. Owned("shadowsocks", v)' = {a \in Owned("shadowsocks", v) : a.port # port}
  BY DEF Owned, PortWritten
<1>3. Owned("shadowsocks", v) = IF users[v] = None THEN {}
                                ELSE {[port |-> users[v].port, who |-> v]}
  BY DEF Keyed, KeyFiles, Entry
<1>4. Owned("shadowsocks", v)' = Owned("shadowsocks", v)
  BY <1>2, <1>3
<1>5. QED
  BY <1>1, <1>4 DEF Keyed

\* A port that another's record names makes both its users stray.
LEMMA AddShadowsocksKeys ==
  ASSUME ConstantsOK, Base, Own, AddShadowsocks
  PROVE  Own'
<1>1. PICK w, port, kept : w = job.user /\ PortGiven(w, port, kept)
  BY AddShadowsocksIs
<1> USE <1>1 DEF PortGiven
<1>2. /\ job.rec \in Records /\ job'.rec.port = kept /\ job'.rec.id = job.rec.id
  <2>1. job.rec \in Records
    BY <1>1, Served
  <2>2. QED
    BY <1>1, <2>1 DEF Records
<1>3. HasPort' /\ ~HasPort
  BY <1>1 DEF HasPort
<1>4. \A v \in Users \ stray : Keyed(v)
  BY <1>1, <1>3 DEF Own, KeysInv
<1>5. stray \subseteq stray'
  BY <1>1
<1>6. IdsInv'
  BY <1>1, <1>2, <1>5 DEF Own, IdsInv
<1>7. ASSUME NEW v \in Users \ {w}, v \notin stray' PROVE Keyed(v)'
  <2>1. v \notin Named(port) /\ v \notin stray
    BY <1>1, <1>7
  <2>2. users[v] # None => users[v].port # port
    BY <1>1, <1>7, <2>1 DEF Named
  <2>3. PortWritten(port, w)
    BY <1>1 DEF PortWritten
  <2>4. Keyed(v) /\ v # w /\ v \in Users /\ users' = users
    BY <1>1, <1>4, <1>7, <2>1
  <2> HIDE <1>1 DEF PortGiven
  <2>5. QED
    BY <2>2, <2>3, <2>4, PortWrittenIs
<1>8. PortsInv'
  <2>1. ASSUME NEW v \in Users \ {w}, users[v] # None, v \notin stray' \/ w \notin stray'
        PROVE  users[v].port # kept
    <3>1. v \notin Named(kept)
      BY <1>1, <2>1
    <3>2. QED
      BY <1>1, <2>1, <3>1 DEF Named
  <2>2. \A v \in Users \ {job'.user} :
          users'[v] # None /\ (v \notin stray' \/ job'.user \notin stray') => users'[v].port # job'.rec.port
    BY <1>1, <1>2, <2>1
  <2>3. QED
    BY <1>1, <1>5, <2>2 DEF Own, PortsInv
<1>9. ASSUME w \notin stray' PROVE users[w] = None /\ Keeps(Visited)'
  <2>1. w \notin stray /\ ~job.rec.ips /\ users[w] = None /\ kept = port
    BY <1>1, <1>9
  <2>2. \A f \in KeyFiles : Owned(f, w) = {}
    BY <1>1, <1>4, <2>1 DEF Keyed
  <2>3. \A f \in KeyFiles : f \in Visited' <=> f = "shadowsocks"
    <3>1. Visited = {"openvpn"}
      <4>1. "shadowsocks" = Plan(job.op)[job.at]
        BY DEF AddShadowsocks, At
      <4>2. job.at = 2
        BY <1>1, <4>1, StepsVisited
      <4>3. Plan(job.op) = AddPlan
        BY <1>1 DEF Adding, Plan
      <4>4. 1..(job.at - 1) = {1}
        BY <4>2
      <4>5. AddPlan[1] = "openvpn"
        BY AddBegins
      <4>6. QED
        BY <4>3, <4>4, <4>5 DEF Visited
    <3>2. QED
      BY <1>1, <3>1 DEF KeyFiles
  <2>4. Entry("shadowsocks", w, job'.rec) = [port |-> port, who |-> w]
    BY <1>2, <2>1 DEF Entry
  <2>5. \A f \in KeyFiles : Owned(f, w)' =
          IF f = "shadowsocks" THEN {Entry(f, w, job'.rec)} ELSE {}
    BY <1>1, <2>2, <2>4 DEF Owned
  <2>6. \A f \in KeyFiles : Owned(f, job.user)' = Owned(f, w)'
    BY <1>1 DEF Owned
  <2>7. QED
    BY <1>1, <2>1, <2>3, <2>5, <2>6 DEF Keeps
<1>10. KeysInv'
  BY <1>1, <1>3, <1>7, <1>9 DEF KeysInv
<1>11. QED
  BY <1>6, <1>8, <1>10 DEF Own

LEMMA GivenPortKeys ==
  ASSUME ConstantsOK, Base, Own, GivenPortFails
  PROVE  Own'
<1>1. PICK w, port :
        /\ w = job.user /\ port = job.rec.port /\ job # Idle /\ job' = Idle /\ w \in Users
        /\ \A f \in (NameFiles \cup KeyFiles) \ {"shadowsocks"} : disk'[f] = disk[f]
        /\ disk'["shadowsocks"] = {a \in disk["shadowsocks"] : a.port # port}
                                    \cup {[port |-> port, who |-> w]}
        /\ stray' = stray \cup Named(port) \cup {w} /\ users' = users
  BY GivenPortIs
<1>2. ~HasPort' /\ ~Adding'
  BY <1>1 DEF Idle, HasPort, Adding, Removing
<1>3. ASSUME NEW v \in Users \ stray' PROVE Keyed(v)'
  <2>1. v # w /\ v \in Users \ stray /\ v \notin Named(port)
    BY <1>1, <1>3
  <2>2. Keyed(v)
    BY <1>1, <2>1 DEF Own, KeysInv
  <2>3. users[v] # None => users[v].port # port
    BY <1>1, <2>1 DEF Named
  <2>4. PortWritten(port, w) /\ users' = users
    BY <1>1 DEF PortWritten
  <2>5. QED
    BY <2>1, <2>2, <2>3, <2>4, PortWrittenIs
<1>4. QED
  BY <1>1, <1>2, <1>3 DEF Own, IdsInv, PortsInv, KeysInv

\* A request that ends early, and what no request does.
LEMMA RestKeys ==
  ASSUME ConstantsOK, Base, Own, Rests
  PROVE  Own'
<1>1. users' = users /\ \A f \in KeyFiles : disk'[f] = disk[f]
  <2>1. CASE CertificateFails
    <3>1. "openvpn" \notin KeyFiles
      BY DEF KeyFiles
    <3>2. QED
      BY <2>1, <3>1, FailIs
  <2>2. CASE sync_ss_go_users
    <3>1. "xray" \notin KeyFiles /\ "mqvpn" \notin KeyFiles
      BY DEF KeyFiles
    <3>2. QED
      BY <2>2, <3>1, SyncIs
  <2>3. QED
    BY <2>1, <2>2 DEF Rests, CutOff, MqvpnRestarts
<1>2. \A v : Keyed(v)' <=> Keyed(v)
  BY <1>1 DEF Keyed, Owned
<1>3. CASE CertificateFails \/ CutOff
  <2>1. PICK w : w = job.user
    OBVIOUS
  <2>2. job' = Idle /\ (stray' = stray \/ stray' = stray \cup {w})
    BY <1>3, <2>1, FailIs DEF CutOff
  <2>3. ~HasPort' /\ ~Adding'
    BY <2>2 DEF Idle, HasPort, Adding, Removing
  <2>4. \A v \in Users \ stray' : Keyed(v)'
    <3>1. ASSUME NEW v \in Users \ stray', v # w PROVE Keyed(v)
      BY <2>1, <2>2, <3>1 DEF Own, KeysInv
    <3>2. ASSUME w \in Users \ stray' PROVE Keyed(w)
      <4>1. job # Idle /\ job.at = 1 /\ Adding /\ ~Removing /\ w \notin stray
        BY <1>3, <2>1, <2>2, <3>2, FailIs DEF CutOff
      <4>2. ~HasPort
        <5>1. Visited = {}
          BY <4>1 DEF Visited
        <5>2. QED
          BY <4>1, <5>1 DEF HasPort
      <4>3. QED
        BY <2>1, <3>2, <4>1, <4>2 DEF Own, KeysInv
    <3>3. QED
      BY <1>2, <3>1, <3>2
  <2>5. stray \subseteq stray'
    BY <2>2
  <2>6. QED
    BY <1>1, <2>2, <2>3, <2>4, <2>5 DEF Own, IdsInv, PortsInv, KeysInv
<1>4. CASE sync_ss_go_users \/ MqvpnRestarts
  <2>1. job' = job /\ stray' = stray
    BY <1>4, SyncIs DEF MqvpnRestarts
  <2>2. QED
    BY <1>1, <1>2, <2>1 DEF Own, IdsInv, PortsInv, KeysInv, Keeps, Owned, HasPort, Adding,
                            Removing, Visited
<1>5. QED
  BY <1>3, <1>4 DEF Rests

LEMMA StepKeys ==
  ASSUME ConstantsOK, Base, Own, [Next]_vars
  PROVE  Own'
<1>1. CASE Next
  BY <1>1, StepIs, VisitKeys, BeginKeys, AddShadowsocksKeys, GivenPortKeys, RestKeys
<1>2. CASE UNCHANGED vars
  <2>1. UNCHANGED <<users, disk, pki, daemon, job, dirty, stray, adds, faults>>
    BY <1>2 DEF vars
  <2>2. \A v : Keyed(v)' <=> Keyed(v)
    BY <2>1 DEF Keyed, Owned
  <2>3. QED
    BY <2>1, <2>2 DEF Own, IdsInv, PortsInv, KeysInv, Keeps, Owned, HasPort, Adding, Removing,
                      Visited
<1>3. QED
  BY <1>1, <1>2

LEMMA InitKeys ==
  ASSUME ConstantsOK, Init
  PROVE  Own
<1>1. /\ job = Idle /\ \A u \in Users : users[u] = None
      /\ \A f \in KeyFiles : disk[f] = IF f = "shadowsocks" THEN {Taken} ELSE {}
  BY DEF Init
<1>2. ~HasPort /\ ~Adding
  BY <1>1, NobodyServed
<1>3. ASSUME NEW u \in Users PROVE Keyed(u)
  <2>1. Taken.who # u
    BY DEF Taken, ConstantsOK
  <2>2. \A f \in KeyFiles : Owned(f, u) = {}
    BY <1>1, <2>1 DEF Owned
  <2>3. QED
    BY <1>1, <2>2 DEF Keyed
<1>4. QED
  BY <1>1, <1>2, <1>3 DEF Own, IdsInv, PortsInv, KeysInv

LEMMA KeysShow == Own => KeysAgree
  BY DEF Own, KeysInv, Keyed, Owned, KeysAgree, Entry

\* A user owns the port and the userid of its record and no other, and no request
\* for another user takes one away, unless one of its own requests was cut off,
\* it was added twice or given public addresses, or another's record names its
\* port or its userid as well: asked for in a request, or the port kept one too
\* high for public addresses (add_ss_user, the tunnel functions).
THEOREM KeysStayAgreed ==
  ASSUME ConstantsOK
  PROVE  Spec => []KeysAgree
<1>1. Init => Base /\ Own
  BY InitTypes, InitKeys
<1>2. (Base /\ Own) /\ [Next]_vars => (Base /\ Own)'
  BY StepTypes, StepKeys
<1>3. QED
  BY <1>1, <1>2, KeysShow, PTL DEF Spec
==============================================================================
