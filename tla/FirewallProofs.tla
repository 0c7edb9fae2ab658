--------------------------- MODULE FirewallProofs ---------------------------
(***************************************************************************)
(* Theorems about Firewall, for any ports, addresses, workers, threads and *)
(* requests, and any number of faults.                                     *)
(***************************************************************************)
EXTENDS Firewall, TLAPS

Jobs == [req : AllRequests, ports : SUBSET Keys, doc : Docs,
         sip : BOOLEAN, wrote : 0..3, fresh : SUBSET {"doc", "sip"}]

ChainSets == [accept : SUBSET Opens, dnat : SUBSET ((Redirects \cup {Bulk}) \X Addrs),
              c2c : BOOLEAN, sip : BOOLEAN]

----------------------------------------------------------------------------
(* The invariant *)

\* The steps at which the document that was read is rendered or written, and
\* those from which the SIP flag that was read comes to be applied.
Holding == {"write", "dump", "accept", "dnat", "c2c"}

Flagging(p) ==
    \/ pc[p] = "sip"
    \/ p \in Workers /\ pc[p] \in {"sync", "accept", "dnat", "c2csync", "c2c"}

\* Only /vpnips writes several times, never more than three; who is yet to read
\* for its one write has read nothing.
\* A reading that counts as fresh is what the file has.
JobOK(p) ==
    /\ job[p].wrote > 0 => job[p].req.op = "addr"
    /\ pc[p] \in {"read", "write", "dump"} => job[p].wrote < 3
    /\ pc[p] = "more" => job[p].req.op = "addr"
    /\ pc[p] = "read" /\ job[p].req.op # "addr" => job[p].fresh = {}
    /\ pc[p] \in Holding /\ "doc" \in job[p].fresh => job[p].doc = conf
    /\ Flagging(p) /\ "sip" \in job[p].fresh => job[p].sip = conf.sip

\* Without a worker nobody changes anything.
CastInv ==
    /\ \A t \in Threads : pc[t] # "absent" => pc[Home[t]] # "absent"
    /\ (\A w \in Workers : pc[w] = "absent") => conf = ShippedDoc /\ chain = Empty

\* Everything will be rendered: the ruleset is yet to be loaded or the service to
\* be restarted, or a worker is on its way up.
AllComing == ~table \/ restart \/ \E w \in Workers : pc[w] \in {"down", "boot"}

\* p, where it is now, is yet to render chain c, or to fail to.
Comes(p, c) ==
    \/ /\ c \in Ports
       /\ \/ pc[p] \in {"sync", "accept"}
          \/ pc[p] \in {"read", "write", "dump", "more"} /\ job[p].wrote > 0
    \/ c = "dnat" /\ pc[p] = "dnat"
    \/ /\ c = "c2c"
       /\ \/ pc[p] \in {"c2csync", "c2c"}
          \/ p \in Workers /\ pc[p] \in {"sync", "accept", "dnat"}
    \/ c = "sip" /\ Flagging(p)

\* A chain that does not show the configuration is apart, or will be rendered.
ChainInv ==
    AllComing \/
      \A c \in Chains \ apart : chain[c] = Render(conf)[c] \/ \E p \in Procs : Comes(p, c)

FirewallInv == TypeOK /\ (\A p \in Procs : JobOK(p)) /\ CastInv /\ ChainInv

----------------------------------------------------------------------------
(* Requests and documents *)

LEMMA RequestTypes ==
  ASSUME NEW r \in AllRequests
  PROVE  /\ r.op \in {"add", "del", "addr", "bulk", "c2c", "sip", "other"}
         /\ r.op \in {"add", "del"} => r.key \in Keys
         /\ r.op = "addr" => r.addr \in Addrs
         /\ r.op \in {"bulk", "c2c", "sip"} => r.on \in BOOLEAN
<1>1. CASE r \in [op : {"add", "del"}, key : Keys]
  BY <1>1
<1>2. CASE r \in [op : {"addr"}, addr : Addrs]
  BY <1>2
<1>3. CASE r \in [op : {"bulk", "c2c", "sip"}, on : BOOLEAN]
  BY <1>3
<1>4. CASE r \in [op : {"other"}]
  BY <1>4
<1>5. QED
  BY <1>1, <1>2, <1>3, <1>4 DEF AllRequests

LEMMA ShippedIsDoc == ShippedDoc \in Docs
  BY DEF ShippedDoc, Docs

LEMMA NoJobIsJob ==
  /\ NoJob \in Jobs
  /\ NoJob.wrote = 0 /\ NoJob.fresh = {}
  BY ShippedIsDoc DEF NoJob, Jobs, AllRequests

LEMMA JobTypes ==
  ASSUME NEW j \in Jobs
  PROVE  /\ j.req \in AllRequests /\ j.ports \in SUBSET Keys /\ j.doc \in Docs
         /\ j.sip \in BOOLEAN /\ j.wrote \in 0..3 /\ j.fresh \in SUBSET {"doc", "sip"}
  BY DEF Jobs

LEMMA RenderTypes ==
  ASSUME NEW d \in Docs
  PROVE  Render(d) \in ChainSets
<1> DEFINE ks == IF d.addr = NoAddr THEN {}
                 ELSE (d.ports \cap Redirects) \cup (IF d.bulk THEN {Bulk} ELSE {})
           dn == {<<k, d.addr>> : k \in ks}
<1>1. d.ports \cap Opens \in SUBSET Opens /\ d.c2c \in BOOLEAN /\ d.sip \in BOOLEAN
      /\ d.addr \in Addrs \cup {NoAddr}
  BY DEF Docs
<1>2. ASSUME NEW k \in ks PROVE <<k, d.addr>> \in (Redirects \cup {Bulk}) \X Addrs
  BY <1>1, <1>2
<1>3. dn \in SUBSET ((Redirects \cup {Bulk}) \X Addrs)
  BY <1>2
<1> HIDE DEF ks, dn
<1>4. [accept |-> d.ports \cap Opens, dnat |-> dn, c2c |-> d.c2c, sip |-> d.sip] \in ChainSets
  BY <1>1, <1>3 DEF ChainSets
<1>5. QED
  BY <1>4 DEF Render, ks, dn

LEMMA ShippedIsEmpty == Render(ShippedDoc) = Empty
  BY DEF Render, ShippedDoc, Empty

\* What each chain is rendered from.
LEMMA RenderedFrom ==
  ASSUME NEW d, NEW e
  PROVE  /\ d.ports = e.ports => Render(d)["accept"] = Render(e)["accept"]
         /\ d.ports = e.ports /\ d.addr = e.addr /\ d.bulk = e.bulk
              => Render(d)["dnat"] = Render(e)["dnat"]
         /\ d.c2c = e.c2c => Render(d)["c2c"] = Render(e)["c2c"]
         /\ d.sip = e.sip => Render(d)["sip"] = Render(e)["sip"]
         /\ Render(d)["c2c"] = d.c2c /\ Render(d)["sip"] = d.sip
  BY DEF Render

\* What a write changes is what its handler renders.
LEMMA ChangedRenders ==
  ASSUME NEW j \in Jobs, NEW d \in Docs
  PROVE  /\ Changed(j, d) \in Docs
         /\ \A c \in Chains \ Renders(j.req) : Render(Changed(j, d))[c] = Render(d)[c]
         /\ j.req.op = "sip" => Changed(j, d).sip = j.req.on
         /\ Beside(j) => Changed(j, d) = d
<1> DEFINE e == Changed(j, d)
<1>1. /\ j.req \in AllRequests /\ j.ports \in SUBSET Keys
      /\ d.ports \in SUBSET Keys /\ d.addr \in Addrs \cup {NoAddr}
      /\ d.bulk \in BOOLEAN /\ d.c2c \in BOOLEAN /\ d.sip \in BOOLEAN
  BY JobTypes DEF Docs
<1>2. CASE j.req.op \in {"add", "del"}
  <2>1. e = [d EXCEPT !.ports = j.ports] /\ Renders(j.req) = Ports /\ ~Beside(j)
    BY <1>2 DEF Changed, Renders, Beside
  <2>2. e \in Docs /\ e.c2c = d.c2c /\ e.sip = d.sip
    BY <1>1, <2>1 DEF Docs
  <2> HIDE DEF e
  <2>3. Render(e)["c2c"] = Render(d)["c2c"] /\ Render(e)["sip"] = Render(d)["sip"]
    BY <2>2, RenderedFrom
  <2>4. Chains \ Renders(j.req) = {"c2c", "sip"}
    BY <2>1 DEF Chains, Ports
  <2>5. QED
    BY <1>2, <2>1, <2>2, <2>3, <2>4 DEF e
<1>3. CASE j.req.op = "addr" /\ j.wrote = 0
  <2>1. e = [d EXCEPT !.addr = j.req.addr] /\ Renders(j.req) = Ports /\ ~Beside(j)
    BY <1>3 DEF Changed, Renders, Beside
  <2>2. j.req.addr \in Addrs
    BY <1>1, <1>3, RequestTypes
  <2>3. e \in Docs /\ e.c2c = d.c2c /\ e.sip = d.sip
    BY <1>1, <2>1, <2>2 DEF Docs
  <2> HIDE DEF e
  <2>4. Render(e)["c2c"] = Render(d)["c2c"] /\ Render(e)["sip"] = Render(d)["sip"]
    BY <2>3, RenderedFrom
  <2>5. Chains \ Renders(j.req) = {"c2c", "sip"}
    BY <2>1 DEF Chains, Ports
  <2>6. QED
    BY <1>3, <2>1, <2>3, <2>4, <2>5 DEF e
<1>4. CASE j.req.op = "bulk"
  <2>1. e = [d EXCEPT !.bulk = j.req.on] /\ Renders(j.req) = Ports /\ ~Beside(j)
    BY <1>4 DEF Changed, Renders, Beside
  <2>2. j.req.on \in BOOLEAN
    BY <1>1, <1>4, RequestTypes
  <2>3. e \in Docs /\ e.c2c = d.c2c /\ e.sip = d.sip
    BY <1>1, <2>1, <2>2 DEF Docs
  <2> HIDE DEF e
  <2>4. Render(e)["c2c"] = Render(d)["c2c"] /\ Render(e)["sip"] = Render(d)["sip"]
    BY <2>3, RenderedFrom
  <2>5. Chains \ Renders(j.req) = {"c2c", "sip"}
    BY <2>1 DEF Chains, Ports
  <2>6. QED
    BY <1>4, <2>1, <2>3, <2>4, <2>5 DEF e
<1>5. CASE j.req.op = "c2c"
  <2>1. e = [d EXCEPT !.c2c = j.req.on] /\ Renders(j.req) = {"c2c"} /\ ~Beside(j)
    BY <1>5 DEF Changed, Renders, Beside
  <2>2. j.req.on \in BOOLEAN
    BY <1>1, <1>5, RequestTypes
  <2>3. /\ e \in Docs /\ e.ports = d.ports /\ e.addr = d.addr /\ e.bulk = d.bulk
        /\ e.sip = d.sip
    BY <1>1, <2>1, <2>2 DEF Docs
  <2> HIDE DEF e
  <2>4. /\ Render(e)["accept"] = Render(d)["accept"] /\ Render(e)["dnat"] = Render(d)["dnat"]
        /\ Render(e)["sip"] = Render(d)["sip"]
    BY <2>3, RenderedFrom
  <2>5. Chains \ Renders(j.req) = {"accept", "dnat", "sip"}
    BY <2>1 DEF Chains, Ports
  <2>6. QED
    BY <1>5, <2>1, <2>3, <2>4, <2>5 DEF e
<1>6. CASE j.req.op = "sip"
  <2>1. e = [d EXCEPT !.sip = j.req.on] /\ Renders(j.req) = {"sip"} /\ ~Beside(j)
    BY <1>6 DEF Changed, Renders, Beside
  <2>2. j.req.on \in BOOLEAN
    BY <1>1, <1>6, RequestTypes
  <2>3. /\ e \in Docs /\ e.ports = d.ports /\ e.addr = d.addr /\ e.bulk = d.bulk
        /\ e.c2c = d.c2c /\ e.sip = j.req.on
    BY <1>1, <2>1, <2>2 DEF Docs
  <2> HIDE DEF e
  <2>4. /\ Render(e)["accept"] = Render(d)["accept"] /\ Render(e)["dnat"] = Render(d)["dnat"]
        /\ Render(e)["c2c"] = Render(d)["c2c"]
    BY <2>3, RenderedFrom
  <2>5. Chains \ Renders(j.req) = {"accept", "dnat", "c2c"}
    BY <2>1 DEF Chains, Ports
  <2>6. QED
    BY <2>1, <2>3, <2>4, <2>5 DEF e
<1>7. CASE j.req.op = "other" \/ (j.req.op = "addr" /\ j.wrote # 0)
  <2>1. Changed(j, d) = d
    BY <1>7 DEF Changed
  <2>2. QED
    BY <1>7, <2>1
<1>8. j.req.op \in {"add", "del", "addr", "bulk", "c2c", "sip", "other"}
  BY <1>1, RequestTypes
<1>9. QED
  BY <1>8, <1>2, <1>3, <1>4, <1>5, <1>6, <1>7

----------------------------------------------------------------------------
(* Types, and who takes part *)

LEMMA TypeIs ==
  TypeOK <=> /\ conf \in Docs /\ text \in {"whole", "empty"}
             /\ table \in BOOLEAN /\ restart \in BOOLEAN
             /\ chain \in ChainSets
             /\ pc \in [Procs -> Steps] /\ job \in [Procs -> Jobs]
             /\ faults \in 0..MaxFaults /\ apart \subseteq Chains
  BY DEF TypeOK, ChainSets, Jobs

LEMMA GoTypes ==
  ASSUME pc \in [Procs -> Steps], job \in [Procs -> Jobs],
         NEW p \in Procs, NEW label \in Steps, NEW j \in Jobs, Go(p, label, j)
  PROVE  /\ pc' \in [Procs -> Steps] /\ pc'[p] = label /\ \A q \in Procs \ {p} : pc'[q] = pc[q]
         /\ job' \in [Procs -> Jobs] /\ job'[p] = j /\ \A q \in Procs \ {p} : job'[q] = job[q]
  BY DEF Go, Goto

LEMMA FaultTypes ==
  ASSUME faults \in 0..MaxFaults, Fault
  PROVE  faults' \in 0..MaxFaults
  BY FirewallAssumption DEF Fault

LEMMA TypeIsNext ==
  TypeOK' <=> /\ conf' \in Docs /\ text' \in {"whole", "empty"}
              /\ table' \in BOOLEAN /\ restart' \in BOOLEAN
              /\ chain' \in ChainSets
              /\ pc' \in [Procs -> Steps] /\ job' \in [Procs -> Jobs]
              /\ faults' \in 0..MaxFaults /\ apart' \subseteq Chains
  BY DEF TypeOK, ChainSets, Jobs

LEMMA StayTypes ==
  ASSUME pc \in [Procs -> Steps], job \in [Procs -> Jobs],
         NEW p \in Procs, NEW label, Goto(p, label), job' = job
  PROVE  Go(p, label, job[p]) /\ job[p] \in Jobs
  BY DEF Go, Goto

\* Nobody comes or goes: who takes part stays the same.
LEMMA CastStays ==
  ASSUME FirewallInv, \A p \in Procs : pc'[p] = "absent" <=> pc[p] = "absent",
         (\E p \in Procs : pc[p] # "absent") \/ UNCHANGED <<conf, chain>>
  PROVE  CastInv'
<1>1. /\ \A t \in Threads : Home[t] \in Workers /\ t \in Procs /\ Home[t] \in Procs
      /\ Workers \subseteq Procs /\ Procs = Workers \cup Threads
  BY FirewallAssumption DEF Procs
<1>2. \A t \in Threads : pc'[t] # "absent" => pc'[Home[t]] # "absent"
  BY <1>1 DEF FirewallInv, CastInv
<1>3. CASE \E p \in Procs : pc[p] # "absent"
  <2>1. PICK p \in Procs : pc[p] # "absent"
    BY <1>3
  <2>2. \E w \in Workers : pc'[w] # "absent"
    BY <1>1, <2>1 DEF FirewallInv, CastInv
  <2>3. QED
    BY <1>2, <2>2 DEF CastInv
<1>4. CASE UNCHANGED <<conf, chain>>
  BY <1>1, <1>2, <1>4 DEF FirewallInv, CastInv
<1>5. QED
  BY <1>3, <1>4

----------------------------------------------------------------------------
(* Steps of one thread or worker *)

\* A step that leaves the configuration, and changes chains only to show it or
\* to be apart.
OnlyShows ==
    /\ UNCHANGED <<conf, table, restart>> /\ text' \in {"whole", "empty"}
    /\ faults' \in 0..MaxFaults
    /\ chain' \in ChainSets /\ apart' \subseteq Chains
    /\ \A c \in Chains \ apart' : chain'[c] = Render(conf)[c]
                                    \/ (chain'[c] = chain[c] /\ c \notin apart)

Done(c) == c \in apart' \/ chain'[c] = Render(conf)[c]

\* A step of p, other than one that leads it to its start or writes the file,
\* keeps the invariant if p knows what it should where it gets to, and is done
\* with each chain that it no longer is to render.
LEMMA StepKeeps ==
  ASSUME FirewallInv, OnlyShows,
         NEW p \in Procs, NEW label \in Steps, NEW j \in Jobs, Go(p, label, j),
         pc[p] \notin {"absent", "down", "boot"}, label # "absent",
         JobOK(p)',
         \A c \in Chains : Comes(p, c) => Comes(p, c)' \/ Done(c)
  PROVE  FirewallInv'
<1> USE DEF OnlyShows, Done
<1>1. /\ conf \in Docs /\ table \in BOOLEAN /\ restart \in BOOLEAN
      /\ pc \in [Procs -> Steps] /\ job \in [Procs -> Jobs]
  BY TypeIs DEF FirewallInv
<1>2. /\ pc' \in [Procs -> Steps] /\ pc'[p] = label /\ \A q \in Procs \ {p} : pc'[q] = pc[q]
      /\ job' \in [Procs -> Jobs] /\ job'[p] = j /\ \A q \in Procs \ {p} : job'[q] = job[q]
  BY <1>1, GoTypes
<1>3. TypeOK'
  BY <1>1, <1>2, TypeIsNext
<1>4. ASSUME NEW q \in Procs PROVE JobOK(q)'
  <2>1. CASE q = p
    BY <2>1
  <2>2. CASE q # p
    <3>1. pc'[q] = pc[q] /\ job'[q] = job[q] /\ JobOK(q)
      BY <1>2, <2>2 DEF FirewallInv
    <3>2. QED
      BY <3>1 DEF JobOK, Flagging
  <2>3. QED
    BY <2>1, <2>2
<1>5. CastInv'
  <2>1. \A q \in Procs : pc'[q] = "absent" <=> pc[q] = "absent"
    BY <1>2
  <2>2. QED
    BY <2>1, CastStays
<1>6. ChainInv'
  <2>1. CASE AllComing
    <3>1. CASE ~table \/ restart
      BY <3>1 DEF ChainInv, AllComing
    <3>2. CASE \E w \in Workers : pc[w] \in {"down", "boot"}
      <4>1. PICK w \in Workers : pc[w] \in {"down", "boot"}
        BY <3>2
      <4>2. pc'[w] = pc[w]
        BY <1>2, <4>1 DEF Procs
      <4>3. QED
        BY <4>1, <4>2 DEF ChainInv, AllComing
    <3>3. QED
      BY <2>1, <3>1, <3>2 DEF AllComing
  <2>2. CASE ~AllComing
    <3>1. SUFFICES ASSUME NEW c \in Chains \ apart', chain'[c] # Render(conf)[c]
                   PROVE  \E q \in Procs : Comes(q, c)'
      BY DEF ChainInv
    <3>2. chain'[c] = chain[c] /\ c \in Chains \ apart
      BY <3>1
    <3>3. PICK q \in Procs : Comes(q, c)
      BY <2>2, <3>1, <3>2 DEF FirewallInv, ChainInv
    <3>4. CASE q = p
      BY <3>1, <3>3, <3>4
    <3>5. CASE q # p
      <4>1. pc'[q] = pc[q] /\ job'[q] = job[q]
        BY <1>2, <3>5
      <4>2. QED
        BY <3>3, <4>1 DEF Comes, Flagging
    <3>6. QED
      BY <3>4, <3>5
  <2>3. QED
    BY <2>1, <2>2
<1>7. QED
  BY <1>3, <1>4, <1>5, <1>6 DEF FirewallInv

\* Where a step of p gets it, and what it knows there.
LEMMA Gone ==
  ASSUME FirewallInv, NEW p \in Procs, NEW label \in Steps, NEW j \in Jobs, Go(p, label, j)
  PROVE  pc'[p] = label /\ job'[p] = j
  BY GoTypes, TypeIs DEF FirewallInv

\* What is known of p before its step.
LEMMA Known ==
  ASSUME FirewallInv, NEW p \in Procs
  PROVE  /\ job[p] \in Jobs /\ JobOK(p) /\ conf \in Docs /\ chain \in ChainSets
         /\ text \in {"whole", "empty"} /\ faults \in 0..MaxFaults /\ apart \subseteq Chains
         /\ p \in Threads => p \notin Workers /\ p \in Procs
  BY TypeIs, FirewallAssumption DEF FirewallInv, Procs

\* A step that changes neither the chains nor what is known of them.
LEMMA NothingShows ==
  ASSUME FirewallInv, UNCHANGED <<conf, table, restart, chain, faults>>,
         text' \in {"whole", "empty"}, apart \subseteq apart', apart' \subseteq Chains
  PROVE  OnlyShows
<1>1. chain \in ChainSets /\ faults \in 0..MaxFaults
  BY TypeIs DEF FirewallInv
<1>2. QED
  BY <1>1 DEF OnlyShows

LEMMA LeaveKeeps ==
  ASSUME FirewallInv, OnlyShows, NEW t \in Threads, Leave(t), pc[t] # "absent",
         pc[t] \notin {"down", "boot"},
         \A c \in Chains : Comes(t, c) => Done(c)
  PROVE  FirewallInv'
<1>1. t \in Procs /\ t \notin Workers /\ "idle" \in Steps
  BY FirewallAssumption DEF Procs, Steps
<1>2. pc'[t] = "idle" /\ job'[t] = NoJob /\ NoJob.wrote = 0
  BY <1>1, Gone, NoJobIsJob DEF Leave
<1>3. JobOK(t)'
  BY <1>2 DEF JobOK, Holding, Flagging
<1>4. QED
  BY <1>1, <1>3, NoJobIsJob, StepKeeps DEF Leave

LEMMA RequestKeeps ==
  ASSUME FirewallInv, NEW t \in Threads, NEW r \in Requests[t], Request(t, r)
  PROVE  FirewallInv'
<1> DEFINE ps == CASE r.op = "add" -> conf.ports \cup {r.key}
                   [] r.op = "del" -> conf.ports \ {r.key}
                   [] OTHER -> {}
           j == [NoJob EXCEPT !.req = r, !.ports = ps]
<1>1. /\ t \in Procs /\ r \in AllRequests /\ "read" \in Steps
      /\ Go(t, "read", j) /\ UNCHANGED <<conf, text, table, chain, restart, faults, apart>>
      /\ pc[t] = "idle"
  BY FirewallAssumption DEF Procs, Steps, Request
<1>2. conf \in Docs /\ text \in {"whole", "empty"} /\ apart \subseteq Chains
  BY <1>1, Known
<1>3. ps \in SUBSET Keys
  BY <1>1, <1>2, RequestTypes DEF Docs
<1> HIDE DEF ps
<1>4. j \in Jobs /\ j.wrote = 0 /\ j.fresh = {}
  BY <1>1, <1>3, NoJobIsJob DEF Jobs
<1> HIDE DEF j
<1>5. pc'[t] = "read" /\ job'[t] = j
  BY <1>1, <1>4, Gone
<1>6. JobOK(t)'
  BY <1>4, <1>5 DEF JobOK, Holding, Flagging
<1>7. \A c \in Chains : ~Comes(t, c)
  BY <1>1 DEF Comes, Flagging
<1>8. OnlyShows
  BY <1>1, <1>2, NothingShows
<1>9. QED
  BY <1>1, <1>4, <1>6, <1>7, <1>8, StepKeeps

LEMMA RaisesKeeps ==
  ASSUME FirewallInv, NEW t \in Threads, Raises(t)
  PROVE  FirewallInv'
<1>1. /\ pc[t] \in {"read", "write", "more"} /\ Leave(t)
      /\ apart' = IF job[t].wrote > 0 THEN apart \cup Renders(job[t].req) ELSE apart
      /\ UNCHANGED <<conf, text, table, chain, restart, faults>>
  BY DEF Raises
<1>2. t \in Procs /\ text \in {"whole", "empty"} /\ apart \subseteq Chains /\ JobOK(t)
      /\ t \notin Workers /\ job[t] \in Jobs
  BY Known DEF Procs
<1>3. job[t].wrote > 0 => Renders(job[t].req) = Ports
  BY <1>2 DEF JobOK, Renders
<1>4. OnlyShows
  BY <1>1, <1>2, <1>3, NothingShows DEF Chains
<1>5. \A c \in Chains : Comes(t, c) => Done(c)
  BY <1>1, <1>2, <1>3 DEF Comes, Flagging, Done
<1>6. QED
  BY <1>1, <1>4, <1>5, LeaveKeeps

LEMMA TruncateKeeps ==
  ASSUME FirewallInv, NEW t \in Threads, Truncate(t)
  PROVE  FirewallInv'
<1>1. /\ pc[t] = "write" /\ text' = "empty" /\ Goto(t, "dump") /\ job' = job
      /\ UNCHANGED <<conf, table, chain, restart, faults, apart>>
  BY DEF Truncate
<1>2. /\ t \in Procs /\ apart \subseteq Chains /\ JobOK(t) /\ t \notin Workers
      /\ job[t] \in Jobs /\ "dump" \in Steps
  BY Known DEF Procs, Steps
<1>3. Go(t, "dump", job[t])
  BY <1>1, <1>2, StayTypes, TypeIs DEF FirewallInv
<1>4. pc'[t] = "dump" /\ job'[t] = job[t]
  BY <1>2, <1>3, Gone
<1>5. JobOK(t)'
  BY <1>1, <1>2, <1>4 DEF JobOK, Holding, Flagging
<1>6. \A c \in Chains : Comes(t, c) => Comes(t, c)'
  BY <1>1, <1>2, <1>4 DEF Comes, Flagging
<1>7. OnlyShows
  BY <1>1, <1>2, NothingShows
<1>8. QED
  BY <1>1, <1>2, <1>3, <1>5, <1>6, <1>7, StepKeeps

LEMMA MoreKeeps ==
  ASSUME FirewallInv, NEW t \in Threads, More(t)
  PROVE  FirewallInv'
<1>1. /\ pc[t] = "more" /\ job' = job
      /\ UNCHANGED <<conf, text, table, chain, restart, faults, apart>>
  BY DEF More
<1>2. /\ t \in Procs /\ apart \subseteq Chains /\ JobOK(t) /\ t \notin Workers
      /\ job[t] \in Jobs /\ {"read", "sync"} \subseteq Steps /\ text \in {"whole", "empty"}
  BY Known DEF Procs, Steps
<1>3. PICK label \in {"read", "sync"} : Goto(t, label) /\ (label = "read" => job[t].wrote < 3)
  BY DEF More
<1>4. Go(t, label, job[t])
  BY <1>1, <1>2, <1>3, StayTypes, TypeIs DEF FirewallInv
<1>5. pc'[t] = label /\ job'[t] = job[t]
  BY <1>2, <1>4, Gone
<1>6. JobOK(t)'
  BY <1>1, <1>2, <1>3, <1>5 DEF JobOK, Holding, Flagging
<1>7. \A c \in Chains : Comes(t, c) => Comes(t, c)'
  BY <1>1, <1>2, <1>5 DEF Comes, Flagging
<1>8. OnlyShows
  BY <1>1, <1>2, NothingShows
<1>9. QED
  BY <1>1, <1>2, <1>4, <1>6, <1>7, <1>8, StepKeeps

LEMMA SavedTypes ==
  ASSUME NEW j \in Jobs
  PROVE  /\ Saved(j) \in Jobs /\ Saved(j).wrote = 0
         /\ j.req.op = "sip" => Saved(j).sip = j.req.on /\ Saved(j).fresh = j.fresh
         /\ j.req.op # "sip" => Saved(j) = NoJob
         /\ Then(j) \in {"sync", "more", "c2csync", "sip", "idle"}
         /\ Then(j) = "more" <=> j.req.op = "addr"
         /\ Then(j) = "sip" <=> j.req.op = "sip"
<1>1. j.req \in AllRequests /\ j.fresh \in SUBSET {"doc", "sip"}
  BY JobTypes
<1>2. j.req.op \in {"add", "del", "addr", "bulk", "c2c", "sip", "other"}
  BY <1>1, RequestTypes
<1>3. CASE j.req.op = "sip"
  <2>1. j.req.on \in BOOLEAN
    BY <1>1, <1>3, RequestTypes
  <2>2. Saved(j) = [NoJob EXCEPT !.sip = j.req.on, !.fresh = j.fresh]
    BY <1>3 DEF Saved
  <2>3. /\ Saved(j) \in Jobs /\ Saved(j).wrote = 0 /\ Saved(j).fresh = j.fresh
        /\ Saved(j).sip = j.req.on
    BY <1>1, <2>1, <2>2, NoJobIsJob DEF Jobs
  <2>4. Then(j) = "sip"
    BY <1>3 DEF Then
  <2>5. QED
    BY <1>3, <2>3, <2>4
<1>4. CASE j.req.op # "sip"
  <2>1. Saved(j) = NoJob
    BY <1>4 DEF Saved
  <2>2. QED
    BY <1>2, <1>4, <2>1, NoJobIsJob DEF Then
<1>5. QED
  BY <1>3, <1>4

LEMMA ReadKeeps ==
  ASSUME FirewallInv, NEW t \in Threads, Read(t)
  PROVE  FirewallInv'
<1> DEFINE j == [job[t] EXCEPT !.doc = conf, !.fresh = {"doc", "sip"}]
<1>1. /\ pc[t] = "read"
      /\ UNCHANGED <<conf, text, table, chain, restart, faults, apart>>
      /\ \/ Go(t, "write", j)
         \/ /\ ~Beside(j) /\ Changed(j, conf) = conf
            /\ Go(t, Then(j), IF j.req.op = "addr" THEN j ELSE Saved(j))
  BY DEF Read
<1>2. /\ t \in Procs /\ apart \subseteq Chains /\ JobOK(t) /\ t \notin Workers
      /\ job[t] \in Jobs /\ text \in {"whole", "empty"} /\ conf \in Docs
  BY Known DEF Procs
<1>3. /\ j \in Jobs /\ j.req = job[t].req /\ j.doc = conf /\ j.fresh = {"doc", "sip"}
      /\ j.wrote = job[t].wrote
  BY <1>2 DEF Jobs
<1> HIDE DEF j
<1>4. OnlyShows
  BY <1>1, <1>2, NothingShows
<1>5. CASE Go(t, "write", j)
  <2>1. pc'[t] = "write" /\ job'[t] = j /\ "write" \in Steps
    BY <1>2, <1>3, <1>5, Gone DEF Steps
  <2>2. JobOK(t)'
    BY <1>1, <1>2, <1>3, <2>1 DEF JobOK, Holding, Flagging
  <2>3. \A c \in Chains : Comes(t, c) => Comes(t, c)'
    BY <1>1, <1>2, <1>3, <2>1 DEF Comes, Flagging
  <2>4. QED
    BY <1>1, <1>2, <1>3, <1>4, <1>5, <2>1, <2>2, <2>3, StepKeeps
<1>6. CASE /\ ~Beside(j) /\ Changed(j, conf) = conf
           /\ Go(t, Then(j), IF j.req.op = "addr" THEN j ELSE Saved(j))
  <2>1. CASE j.req.op = "addr"
    <3>1. Go(t, "more", j) /\ "more" \in Steps
      BY <1>3, <1>6, <2>1, SavedTypes DEF Steps
    <3>2. pc'[t] = "more" /\ job'[t] = j
      BY <1>2, <1>3, <3>1, Gone
    <3>3. JobOK(t)'
      BY <1>3, <2>1, <3>2 DEF JobOK, Holding, Flagging
    <3>4. \A c \in Chains : Comes(t, c) => Comes(t, c)'
      BY <1>1, <1>2, <1>3, <3>2 DEF Comes, Flagging
    <3>5. QED
      BY <1>1, <1>2, <1>3, <1>4, <3>1, <3>3, <3>4, StepKeeps
  <2>2. CASE j.req.op # "addr"
    <3>1. /\ Go(t, Then(j), Saved(j)) /\ Then(j) \in Steps /\ Then(j) # "absent"
          /\ Then(j) \in {"sync", "c2csync", "sip", "idle"}
      BY <1>3, <1>6, <2>2, SavedTypes DEF Steps
    <3>2. pc'[t] = Then(j) /\ job'[t] = Saved(j) /\ Saved(j) \in Jobs /\ Saved(j).wrote = 0
      BY <1>2, <1>3, <3>1, Gone, SavedTypes
    <3>3. Then(j) = "sip" => Saved(j).sip = conf.sip
      BY <1>2, <1>3, <1>6, SavedTypes, ChangedRenders
    <3>4. JobOK(t)'
      BY <1>1, <1>2, <3>1, <3>2, <3>3 DEF JobOK, Holding, Flagging
    <3>5. \A c \in Chains : ~Comes(t, c)
      BY <1>1, <1>2, <1>3, <2>2, JobTypes DEF Comes, Flagging, JobOK
    <3>6. QED
      BY <1>1, <1>2, <1>4, <3>1, <3>2, <3>4, <3>5, StepKeeps
  <2>3. QED
    BY <2>1, <2>2
<1>7. QED
  BY <1>1, <1>5, <1>6

LEMMA ReadNothingKeeps ==
  ASSUME FirewallInv, NEW t \in Threads, ReadNothing(t)
  PROVE  FirewallInv'
<1> DEFINE j == job[t]
<1>1. /\ pc[t] = "read" /\ j.req.op \in {"bulk", "c2c", "sip"}
      /\ Go(t, Then(j), Saved(j))
      /\ UNCHANGED <<conf, text, table, chain, restart, faults, apart>>
  BY DEF ReadNothing
<1>2. /\ t \in Procs /\ apart \subseteq Chains /\ JobOK(t) /\ t \notin Workers
      /\ j \in Jobs /\ text \in {"whole", "empty"}
  BY Known DEF Procs
<1>3. j.wrote = 0 /\ j.fresh = {}
  BY <1>1, <1>2, JobTypes DEF JobOK
<1>4. /\ Then(j) \in Steps /\ Then(j) # "absent" /\ Then(j) \in {"sync", "c2csync", "sip", "idle"}
      /\ Saved(j) \in Jobs /\ Saved(j).wrote = 0 /\ Saved(j).fresh = {}
  BY <1>1, <1>2, <1>3, SavedTypes, NoJobIsJob DEF Steps
<1>5. pc'[t] = Then(j) /\ job'[t] = Saved(j)
  BY <1>1, <1>2, <1>4, Gone
<1>6. JobOK(t)'
  BY <1>4, <1>5 DEF JobOK, Holding, Flagging
<1>7. \A c \in Chains : ~Comes(t, c)
  BY <1>1, <1>2, <1>3 DEF Comes, Flagging
<1>8. OnlyShows
  BY <1>1, <1>2, NothingShows
<1>9. QED
  BY <1>1, <1>2, <1>4, <1>6, <1>7, <1>8, StepKeeps

----------------------------------------------------------------------------
(* Rendering *)

\* What a thread or worker that is done with the port chains still has to do.
LEMMA ForgetKeeps ==
  ASSUME FirewallInv, OnlyShows, NEW p \in Workers, NEW label \in {"c2csync", "sip"},
         pc[p] \in {"sync", "accept", "dnat", "c2c"}, Forget(p, label),
         \A c \in Chains : Comes(p, c) /\ c # "sip" /\ (c = "c2c" => label = "sip") => Done(c)
  PROVE  FirewallInv'
<1> DEFINE j == [NoJob EXCEPT !.sip = job[p].sip, !.fresh = job[p].fresh \ {"doc"}]
<1>1. /\ p \in Procs /\ Go(p, label, j) /\ label \in Steps /\ label # "absent"
      /\ UNCHANGED conf
  BY DEF Procs, Steps, Forget, OnlyShows
<1>2. JobOK(p) /\ job[p] \in Jobs
  BY <1>1, Known
<1>3. /\ j \in Jobs /\ j.wrote = 0 /\ j.sip = job[p].sip
      /\ j.fresh = job[p].fresh \ {"doc"} /\ j.req = NoJob.req
  BY <1>2, NoJobIsJob DEF Jobs
<1> HIDE DEF j
<1>4. pc'[p] = label /\ job'[p] = j
  BY <1>1, <1>3, Gone
<1>5. Flagging(p) /\ Flagging(p)'
  BY <1>4 DEF Flagging
<1>6. "sip" \in j.fresh => j.sip = conf.sip
  BY <1>2, <1>3, <1>5 DEF JobOK
<1>7. JobOK(p)'
  BY <1>1, <1>3, <1>4, <1>6 DEF JobOK, Holding
<1>8. ASSUME NEW c \in Chains, Comes(p, c) PROVE Comes(p, c)' \/ Done(c)
  BY <1>4, <1>5, <1>8 DEF Comes, Chains, Ports
<1>9. QED
  BY <1>1, <1>3, <1>7, <1>8, StepKeeps

LEMMA AfterPortsKeeps ==
  ASSUME FirewallInv, OnlyShows, NEW p \in Procs, pc[p] \in {"sync", "accept", "dnat"},
         AfterPorts(p), \A c \in Ports : Comes(p, c) => Done(c)
  PROVE  FirewallInv'
<1>1. CASE p \in Workers
  <2>1. Forget(p, "c2csync")
    BY <1>1 DEF AfterPorts
  <2>2. \A c \in Chains : Comes(p, c) /\ c # "sip" /\ c # "c2c" => Done(c)
    BY DEF Chains
  <2>3. QED
    BY <1>1, <2>1, <2>2, ForgetKeeps
<1>2. CASE p \notin Workers
  <2>1. p \in Threads /\ Leave(p)
    BY <1>2 DEF AfterPorts, Procs
  <2>2. \A c \in Chains : Comes(p, c) => c \in Ports
    BY <1>2 DEF Comes, Flagging, Ports
  <2>3. QED
    BY <2>1, <2>2, LeaveKeeps
<1>3. QED
  BY <1>1, <1>2

LEMMA AfterC2cKeeps ==
  ASSUME FirewallInv, OnlyShows, NEW p \in Procs, pc[p] = "c2c",
         AfterC2c(p), Done("c2c")
  PROVE  FirewallInv'
<1>1. \A c \in Chains : Comes(p, c) => c = "c2c" \/ (c = "sip" /\ p \in Workers)
  BY DEF Comes, Flagging
<1>2. CASE p \in Workers
  <2>1. Forget(p, "sip")
    BY <1>2 DEF AfterC2c
  <2>2. QED
    BY <1>1, <1>2, <2>1, ForgetKeeps
<1>3. CASE p \notin Workers
  <2>1. p \in Threads /\ Leave(p)
    BY <1>3 DEF AfterC2c, Procs
  <2>2. QED
    BY <1>1, <1>3, <2>1, LeaveKeeps
<1>4. QED
  BY <1>2, <1>3

LEMMA AfterSipKeeps ==
  ASSUME FirewallInv, OnlyShows, NEW p \in Procs, pc[p] = "sip",
         AfterSip(p), Done("sip")
  PROVE  FirewallInv'
<1>1. \A c \in Chains : Comes(p, c) => c = "sip"
  BY DEF Comes, Flagging
<1>2. CASE p \in Workers
  <2>1. Go(p, "serving", NoJob) /\ "serving" \in Steps /\ NoJob \in Jobs /\ NoJob.wrote = 0
    BY <1>2, NoJobIsJob DEF AfterSip, Steps
  <2>2. pc'[p] = "serving" /\ job'[p] = NoJob
    BY <2>1, Gone
  <2>3. JobOK(p)'
    BY <2>1, <2>2 DEF JobOK, Holding, Flagging
  <2>4. QED
    BY <1>1, <2>1, <2>3, StepKeeps
<1>3. CASE p \notin Workers
  <2>1. p \in Threads /\ Leave(p)
    BY <1>3 DEF AfterSip, Procs
  <2>2. QED
    BY <1>1, <2>1, LeaveKeeps
<1>4. QED
  BY <1>2, <1>3

LEMMA SyncPortsKeeps ==
  ASSUME FirewallInv, NEW p \in Procs, SyncPorts(p)
  PROVE  FirewallInv'
<1>1. pc[p] = "sync" /\ UNCHANGED <<conf, text, table, chain, restart, faults>>
  BY DEF SyncPorts
<1>2. /\ apart \subseteq Chains /\ JobOK(p) /\ job[p] \in Jobs /\ conf \in Docs
      /\ text \in {"whole", "empty"}
  BY Known
<1>3. CASE text = "whole"
  <2> DEFINE j == [job[p] EXCEPT !.doc = conf, !.fresh = @ \cup {"doc"}]
  <2>1. Go(p, "accept", j) /\ apart' = apart /\ "accept" \in Steps
    BY <1>3 DEF SyncPorts, Steps
  <2>2. /\ j \in Jobs /\ j.wrote = job[p].wrote /\ j.sip = job[p].sip /\ j.doc = conf
        /\ j.fresh = job[p].fresh \cup {"doc"} /\ j.req = job[p].req
    BY <1>2 DEF Jobs
  <2> HIDE DEF j
  <2>3. pc'[p] = "accept" /\ job'[p] = j
    BY <2>1, <2>2, Gone
  <2>4. JobOK(p)'
    BY <1>1, <1>2, <2>2, <2>3 DEF JobOK, Holding, Flagging
  <2>5. \A c \in Chains : Comes(p, c) => Comes(p, c)'
    BY <1>1, <2>3 DEF Comes, Flagging
  <2>6. OnlyShows
    BY <1>1, <1>2, <2>1, NothingShows
  <2>7. QED
    BY <1>1, <2>1, <2>2, <2>4, <2>5, <2>6, StepKeeps
<1>4. CASE text # "whole"
  <2>1. AfterPorts(p) /\ apart' = apart \cup Ports
    BY <1>4 DEF SyncPorts
  <2>2. OnlyShows
    BY <1>1, <1>2, <2>1, NothingShows DEF Chains
  <2>3. QED
    BY <1>1, <2>1, <2>2, AfterPortsKeeps DEF Done
<1>5. QED
  BY <1>3, <1>4

LEMMA SyncC2cKeeps ==
  ASSUME FirewallInv, NEW p \in Procs, SyncC2c(p)
  PROVE  FirewallInv'
<1> DEFINE j == IF text = "whole"
                THEN [job[p] EXCEPT !.doc = conf, !.fresh = @ \cup {"doc"}]
                ELSE [job[p] EXCEPT !.doc = [conf EXCEPT !.c2c = FALSE],
                                    !.fresh = @ \ {"doc"}]
<1>1. /\ pc[p] = "c2csync" /\ Go(p, "c2c", j) /\ "c2c" \in Steps
      /\ UNCHANGED <<conf, text, table, chain, restart, faults, apart>>
  BY DEF SyncC2c, Steps
<1>2. /\ apart \subseteq Chains /\ JobOK(p) /\ job[p] \in Jobs /\ conf \in Docs
      /\ text \in {"whole", "empty"}
  BY Known
<1>3. [conf EXCEPT !.c2c = FALSE] \in Docs
  BY <1>2 DEF Docs
<1>4. /\ j \in Jobs /\ j.wrote = job[p].wrote /\ j.sip = job[p].sip /\ j.req = job[p].req
      /\ "doc" \in j.fresh => j.doc = conf
      /\ "sip" \in j.fresh => "sip" \in job[p].fresh
  <2> DEFINE d == [conf EXCEPT !.c2c = FALSE]
  <2>1. CASE text = "whole"
    BY <1>2, <2>1 DEF Jobs
  <2>2. CASE text # "whole"
    <3>1. j = [job[p] EXCEPT !.doc = d, !.fresh = @ \ {"doc"}] /\ d \in Docs
      BY <1>3, <2>2
    <3> HIDE DEF j, d
    <3>2. QED
      BY <1>2, <3>1 DEF Jobs
  <2>3. QED
    BY <2>1, <2>2
<1> HIDE DEF j
<1>5. pc'[p] = "c2c" /\ job'[p] = j
  BY <1>1, <1>4, Gone
<1>6. JobOK(p)'
  BY <1>1, <1>2, <1>4, <1>5 DEF JobOK, Holding, Flagging
<1>7. \A c \in Chains : Comes(p, c) => Comes(p, c)'
  BY <1>1, <1>5 DEF Comes, Flagging
<1>8. OnlyShows
  BY <1>1, <1>2, NothingShows
<1>9. QED
  BY <1>1, <1>4, <1>6, <1>7, <1>8, StepKeeps

\* A chain that is rendered shows the configuration if what it is rendered from
\* is fresh, and is apart if not.
LEMMA OneShows ==
  ASSUME FirewallInv, NEW c \in Chains, NEW v, NEW what, NEW fresh,
         UNCHANGED <<conf, text, table, restart, faults>>,
         chain' = [chain EXCEPT ![c] = v], chain' \in ChainSets,
         Shows(c, what \in fresh), what \in fresh => v = Render(conf)[c]
  PROVE  OnlyShows /\ Done(c)
<1>1. /\ apart \subseteq Chains /\ chain \in ChainSets /\ text \in {"whole", "empty"}
      /\ faults \in 0..MaxFaults
  BY TypeIs DEF FirewallInv
<1>2. chain'[c] = v /\ \A k \in Chains \ {c} : chain'[k] = chain[k]
  BY <1>1 DEF ChainSets, Chains, Ports
<1>3. QED
  BY <1>1, <1>2 DEF OnlyShows, Done, Shows

LEMMA ApplyAcceptKeeps ==
  ASSUME FirewallInv, NEW p \in Procs, ApplyAccept(p)
  PROVE  FirewallInv'
<1> DEFINE v == Render(job[p].doc).accept
<1>1. /\ pc[p] = "accept" /\ Goto(p, "dnat") /\ job' = job /\ "dnat" \in Steps
      /\ UNCHANGED <<conf, text, table, restart, faults>>
      /\ chain' = [chain EXCEPT !["accept"] = v] /\ Shows("accept", "doc" \in job[p].fresh)
  BY DEF ApplyAccept, Steps
<1>2. JobOK(p) /\ job[p] \in Jobs /\ chain \in ChainSets
  BY Known
<1>3. v \in SUBSET Opens
  BY <1>2, JobTypes, RenderTypes DEF ChainSets
<1>4. "doc" \in job[p].fresh => v = Render(conf)["accept"]
  BY <1>1, <1>2 DEF JobOK, Holding
<1> HIDE DEF v
<1>5. chain' \in ChainSets /\ "accept" \in Chains
  BY <1>1, <1>2, <1>3 DEF ChainSets, Chains, Ports
<1>6. OnlyShows /\ Done("accept")
  BY <1>1, <1>4, <1>5, OneShows
<1>7. Go(p, "dnat", job[p])
  BY <1>1, StayTypes, TypeIs DEF FirewallInv
<1>8. pc'[p] = "dnat" /\ job'[p] = job[p]
  BY <1>1, <1>2, <1>7, Gone
<1>9. JobOK(p)'
  BY <1>1, <1>2, <1>8 DEF JobOK, Holding, Flagging
<1>10. \A c \in Chains : Comes(p, c) => Comes(p, c)' \/ Done(c)
  BY <1>1, <1>6, <1>8 DEF Comes, Flagging, Ports
<1>11. QED
  BY <1>1, <1>2, <1>6, <1>7, <1>9, <1>10, StepKeeps

LEMMA ApplyDnatKeeps ==
  ASSUME FirewallInv, NEW p \in Procs, ApplyDnat(p)
  PROVE  FirewallInv'
<1> DEFINE v == Render(job[p].doc).dnat
<1>1. /\ pc[p] = "dnat" /\ AfterPorts(p)
      /\ UNCHANGED <<conf, text, table, restart, faults>>
      /\ chain' = [chain EXCEPT !["dnat"] = v] /\ Shows("dnat", "doc" \in job[p].fresh)
  BY DEF ApplyDnat
<1>2. JobOK(p) /\ job[p] \in Jobs /\ chain \in ChainSets
  BY Known
<1>3. v \in SUBSET ((Redirects \cup {Bulk}) \X Addrs)
  BY <1>2, JobTypes, RenderTypes DEF ChainSets
<1>4. "doc" \in job[p].fresh => v = Render(conf)["dnat"]
  BY <1>1, <1>2 DEF JobOK, Holding
<1> HIDE DEF v
<1>5. chain' \in ChainSets /\ "dnat" \in Chains
  BY <1>1, <1>2, <1>3 DEF ChainSets, Chains, Ports
<1>6. OnlyShows /\ Done("dnat")
  BY <1>1, <1>4, <1>5, OneShows
<1>7. \A c \in Ports : Comes(p, c) => c = "dnat"
  BY <1>1 DEF Comes, Flagging, Ports
<1>8. QED
  BY <1>1, <1>6, <1>7, AfterPortsKeeps

LEMMA ApplyC2cKeeps ==
  ASSUME FirewallInv, NEW p \in Procs, ApplyC2c(p)
  PROVE  FirewallInv'
<1> DEFINE v == Render(job[p].doc).c2c
<1>1. /\ pc[p] = "c2c" /\ AfterC2c(p)
      /\ UNCHANGED <<conf, text, table, restart, faults>>
      /\ chain' = [chain EXCEPT !["c2c"] = v] /\ Shows("c2c", "doc" \in job[p].fresh)
  BY DEF ApplyC2c
<1>2. JobOK(p) /\ job[p] \in Jobs /\ chain \in ChainSets
  BY Known
<1>3. v \in BOOLEAN
  BY <1>2, JobTypes, RenderTypes DEF ChainSets
<1>4. "doc" \in job[p].fresh => v = Render(conf)["c2c"]
  BY <1>1, <1>2 DEF JobOK, Holding
<1> HIDE DEF v
<1>5. chain' \in ChainSets /\ "c2c" \in Chains
  BY <1>1, <1>2, <1>3 DEF ChainSets, Chains, Ports
<1>6. OnlyShows /\ Done("c2c")
  BY <1>1, <1>4, <1>5, OneShows
<1>7. QED
  BY <1>1, <1>6, AfterC2cKeeps

LEMMA ApplySipKeeps ==
  ASSUME FirewallInv, NEW p \in Procs, ApplySip(p)
  PROVE  FirewallInv'
<1> DEFINE v == job[p].sip
<1>1. /\ pc[p] = "sip" /\ AfterSip(p)
      /\ UNCHANGED <<conf, text, table, restart, faults>>
      /\ chain' = [chain EXCEPT !["sip"] = v] /\ Shows("sip", "sip" \in job[p].fresh)
  BY DEF ApplySip
<1>2. JobOK(p) /\ job[p] \in Jobs /\ chain \in ChainSets
  BY Known
<1>3. v \in BOOLEAN
  BY <1>2, JobTypes
<1>4. "sip" \in job[p].fresh => v = Render(conf)["sip"]
  BY <1>1, <1>2, RenderedFrom DEF JobOK, Flagging
<1> HIDE DEF v
<1>5. chain' \in ChainSets /\ "sip" \in Chains
  BY <1>1, <1>2, <1>3 DEF ChainSets, Chains, Ports
<1>6. OnlyShows /\ Done("sip")
  BY <1>1, <1>4, <1>5, OneShows
<1>7. QED
  BY <1>1, <1>6, AfterSipKeeps

LEMMA NftFailsKeeps ==
  ASSUME FirewallInv, NEW p \in Procs, NftFails(p)
  PROVE  FirewallInv'
<1>1. /\ pc[p] \in Chains /\ UNCHANGED <<conf, text, table, chain, restart>>
      /\ apart' = apart \cup (IF pc[p] = "accept" THEN Ports ELSE {pc[p]})
  BY DEF NftFails
<1>2. /\ apart \subseteq Chains /\ text \in {"whole", "empty"} /\ faults \in 0..MaxFaults
      /\ chain \in ChainSets
  BY Known
<1>3. faults' \in 0..MaxFaults
  BY <1>2, FaultTypes DEF NftFails
<1>4. OnlyShows
  BY <1>1, <1>2, <1>3 DEF OnlyShows, Chains
<1>5. CASE pc[p] \in Ports
  <2>1. AfterPorts(p)
    BY <1>5 DEF NftFails, Ports
  <2>2. \A c \in Ports : Comes(p, c) => Done(c)
    BY <1>1, <1>5 DEF Comes, Flagging, Ports, Done
  <2>3. QED
    BY <1>4, <1>5, <2>1, <2>2, AfterPortsKeeps DEF Ports
<1>6. CASE pc[p] = "c2c"
  <2>1. AfterC2c(p) /\ Done("c2c")
    BY <1>1, <1>6 DEF NftFails, Ports, Done
  <2>2. QED
    BY <1>4, <1>6, <2>1, AfterC2cKeeps
<1>7. CASE pc[p] = "sip"
  <2>1. AfterSip(p) /\ Done("sip")
    BY <1>1, <1>7 DEF NftFails, Ports, Done
  <2>2. QED
    BY <1>4, <1>7, <2>1, AfterSipKeeps
<1>8. QED
  BY <1>1, <1>5, <1>6, <1>7 DEF Chains

----------------------------------------------------------------------------
(* Writing the file *)

LEMMA DumpKeeps ==
  ASSUME FirewallInv, NEW t \in Threads, Dump(t)
  PROVE  FirewallInv'
<1> DEFINE j == job[t]
           more == [j EXCEPT !.wrote = @ + 1, !.fresh = {}]
           one  == [j EXCEPT !.fresh = {"sip"}]
           k    == IF Then(j) = "more" THEN more ELSE Saved(one)
<1>1. /\ pc[t] = "dump" /\ conf' = Changed(j, j.doc) /\ text' = "whole"
      /\ apart' = IF "doc" \in j.fresh THEN apart ELSE apart \cup (Chains \ Renders(j.req))
      /\ Goto(t, Then(j)) /\ UNCHANGED <<table, chain, restart, faults>>
      /\ job' = [p \in Procs |-> IF p # t THEN [job[p] EXCEPT !.fresh = {}] ELSE k]
  BY DEF Dump
<1>2. /\ t \in Procs /\ apart \subseteq Chains /\ JobOK(t) /\ t \notin Workers
      /\ j \in Jobs /\ conf \in Docs
  BY Known DEF Procs
<1>3. /\ pc \in [Procs -> Steps] /\ job \in [Procs -> Jobs] /\ chain \in ChainSets
      /\ table \in BOOLEAN /\ restart \in BOOLEAN /\ faults \in 0..MaxFaults
  BY TypeIs DEF FirewallInv
<1>4. j.doc \in Docs /\ j.wrote \in 0..2 /\ j.req \in AllRequests
  BY <1>1, <1>2, JobTypes DEF JobOK
<1>5. /\ more \in Jobs /\ more.wrote = j.wrote + 1 /\ more.fresh = {} /\ more.req = j.req
      /\ one \in Jobs /\ one.req = j.req /\ one.fresh = {"sip"}
  <2>1. j.wrote + 1 \in 0..3 /\ {} \in SUBSET {"doc", "sip"} /\ {"sip"} \in SUBSET {"doc", "sip"}
    BY <1>4
  <2> HIDE DEF j
  <2>2. more \in Jobs /\ more.wrote = j.wrote + 1 /\ more.fresh = {} /\ more.req = j.req
    BY <1>2, <2>1 DEF Jobs
  <2>3. one \in Jobs /\ one.req = j.req /\ one.fresh = {"sip"}
    BY <1>2, <2>1 DEF Jobs
  <2>4. QED
    BY <2>2, <2>3
<1> HIDE DEF more, one
<1>6. /\ Then(j) \in {"sync", "more", "c2csync", "sip", "idle"}
      /\ Then(j) \in Steps
      /\ Then(j) = "more" <=> j.req.op = "addr"
      /\ Then(j) = "sip" <=> j.req.op = "sip"
  BY <1>2, SavedTypes DEF Steps
<1>7. /\ Saved(one) \in Jobs /\ Saved(one).wrote = 0
      /\ Then(j) = "sip" => Saved(one).sip = j.req.on
      /\ Then(j) # "sip" => Saved(one) = NoJob
  BY <1>5, <1>6, SavedTypes
<1>8. /\ k \in Jobs
      /\ Then(j) = "more" => k.wrote > 0 /\ k.req = j.req /\ k.fresh = {}
      /\ Then(j) # "more" => k.wrote = 0
      /\ Then(j) = "sip" => k.sip = j.req.on
  BY <1>4, <1>5, <1>6, <1>7
<1> HIDE DEF k
<1>9. /\ job' \in [Procs -> Jobs] /\ job'[t] = k
      /\ \A p \in Procs \ {t} : /\ job'[p].fresh = {} /\ job'[p].wrote = job[p].wrote
                                /\ job'[p].req = job[p].req
  <2>1. \A p \in Procs : LET n == [job[p] EXCEPT !.fresh = {}] IN
           n \in Jobs /\ n.fresh = {} /\ n.wrote = job[p].wrote /\ n.req = job[p].req
    BY <1>3 DEF Jobs
  <2>2. QED
    BY <1>1, <1>2, <1>8, <2>1
<1>10. /\ pc' \in [Procs -> Steps] /\ pc'[t] = Then(j)
       /\ \A p \in Procs \ {t} : pc'[p] = pc[p]
  BY <1>1, <1>2, <1>3, <1>6 DEF Goto
<1>11. /\ Changed(j, j.doc) \in Docs
       /\ \A c \in Chains \ Renders(j.req) : Render(Changed(j, j.doc))[c] = Render(j.doc)[c]
       /\ j.req.op = "sip" => Changed(j, j.doc).sip = j.req.on
  BY <1>2, <1>4, ChangedRenders
<1>12. TypeOK'
  BY <1>1, <1>2, <1>3, <1>9, <1>10, <1>11, TypeIsNext
<1>13. ASSUME NEW p \in Procs PROVE JobOK(p)'
  <2>1. CASE p = t
    <3>1. pc'[p] = Then(j) /\ job'[p] = k /\ p \notin Workers
      BY <1>2, <1>9, <1>10, <2>1
    <3>2. job'[p].wrote > 0 => job'[p].req.op = "addr"
      BY <1>6, <1>8, <3>1
    <3>3. pc'[p] \notin {"read", "write", "dump"} /\ pc'[p] \notin Holding
      BY <1>6, <3>1 DEF Holding
    <3>4. pc'[p] = "more" => job'[p].req.op = "addr"
      BY <1>6, <1>8, <3>1
    <3>5. Flagging(p)' => job'[p].sip = conf'.sip
      BY <1>1, <1>6, <1>8, <1>11, <3>1 DEF Flagging
    <3>6. QED
      BY <3>2, <3>3, <3>4, <3>5 DEF JobOK
  <2>2. CASE p # t
    <3>1. /\ pc'[p] = pc[p] /\ job'[p].fresh = {} /\ job'[p].wrote = job[p].wrote
          /\ job'[p].req = job[p].req /\ JobOK(p)
      BY <1>9, <1>10, <2>2 DEF FirewallInv
    <3>2. QED
      BY <3>1 DEF JobOK
  <2>3. QED
    BY <2>1, <2>2
<1>14. CastInv'
  <2>1. \A p \in Procs : pc'[p] = "absent" <=> pc[p] = "absent"
    BY <1>1, <1>6, <1>10
  <2>2. \E p \in Procs : pc[p] # "absent"
    BY <1>1, <1>2
  <2>3. QED
    BY <2>1, <2>2, CastStays
<1>15. ChainInv'
  <2>1. CASE AllComing
    <3>1. \A w \in Workers : pc'[w] = pc[w]
      BY <1>2, <1>10 DEF Procs
    <3>2. AllComing'
      BY <1>1, <2>1, <3>1 DEF AllComing
    <3>3. QED
      BY <3>2 DEF ChainInv
  <2>2. CASE ~AllComing
    <3>1. SUFFICES ASSUME NEW c \in Chains \ apart', chain[c] # Render(conf')[c]
                   PROVE  \E q \in Procs : Comes(q, c)'
      BY <1>1 DEF ChainInv
    <3>2. CASE c \in Renders(j.req)
      <4>1. j.req.op \in {"add", "del", "bulk", "addr", "c2c", "sip", "other"}
        BY <1>4, RequestTypes
      <4>2. CASE j.req.op \in {"add", "del", "bulk"}
        <5>1. c \in Ports /\ Then(j) = "sync"
          BY <3>2, <4>2 DEF Renders, Then
        <5>2. QED
          BY <1>2, <1>10, <5>1 DEF Comes
      <4>3. CASE j.req.op = "addr"
        <5>1. c \in Ports /\ Then(j) = "more"
          BY <3>2, <4>3 DEF Renders, Then
        <5>2. QED
          BY <1>2, <1>8, <1>9, <1>10, <5>1 DEF Comes
      <4>4. CASE j.req.op = "c2c"
        <5>1. c = "c2c" /\ Then(j) = "c2csync"
          BY <3>2, <4>4 DEF Renders, Then
        <5>2. QED
          BY <1>2, <1>10, <5>1 DEF Comes
      <4>5. CASE j.req.op = "sip"
        <5>1. c = "sip" /\ Then(j) = "sip"
          BY <3>2, <4>5 DEF Renders, Then
        <5>2. QED
          BY <1>2, <1>10, <5>1 DEF Comes, Flagging
      <4>6. CASE j.req.op = "other"
        BY <3>2, <4>6 DEF Renders
      <4>7. QED
        BY <4>1, <4>2, <4>3, <4>4, <4>5, <4>6
    <3>3. CASE c \notin Renders(j.req)
      <4>1. "doc" \in j.fresh /\ c \in Chains \ apart
        BY <1>1, <3>1, <3>3
      <4>2. j.doc = conf
        BY <1>1, <1>2, <4>1 DEF JobOK, Holding
      <4>3. chain[c] # Render(conf)[c]
        BY <1>1, <1>11, <3>1, <3>3, <4>2
      <4>4. PICK q \in Procs : Comes(q, c)
        BY <2>2, <4>1, <4>3 DEF FirewallInv, ChainInv
      <4>5. q # t
        <5>1. SUFFICES ASSUME q = t PROVE FALSE
          OBVIOUS
        <5>2. c \in Ports /\ j.wrote > 0
          BY <1>1, <1>2, <4>4, <5>1 DEF Comes, Flagging
        <5>3. Renders(j.req) = Ports
          BY <1>2, <5>2 DEF JobOK, Renders
        <5>4. QED
          BY <3>3, <5>2, <5>3
      <4>6. pc'[q] = pc[q] /\ job'[q].wrote = job[q].wrote
        BY <1>9, <1>10, <4>5
      <4>7. QED
        BY <4>4, <4>6 DEF Comes, Flagging
    <3>4. QED
      BY <3>2, <3>3
  <2>3. QED
    BY <2>1, <2>2
<1>16. QED
  BY <1>12, <1>13, <1>14, <1>15 DEF FirewallInv

----------------------------------------------------------------------------
(* The service and the ruleset *)

LEMMA StartKeeps ==
  ASSUME FirewallInv, NEW w \in Workers, Start(w)
  PROVE  FirewallInv'
<1>1. /\ pc[w] = "down" /\ Goto(w, "boot") /\ job' = job /\ w \in Procs /\ "boot" \in Steps
      /\ UNCHANGED <<conf, text, table, chain, restart, faults, apart>>
  BY DEF Start, Procs, Steps
<1>2. pc \in [Procs -> Steps] /\ job \in [Procs -> Jobs] /\ TypeOK
  BY TypeIs DEF FirewallInv
<1>3. pc' \in [Procs -> Steps] /\ pc'[w] = "boot" /\ \A q \in Procs \ {w} : pc'[q] = pc[q]
  BY <1>1, <1>2 DEF Goto
<1>4. TypeOK'
  BY <1>1, <1>2, <1>3, TypeIs, TypeIsNext
<1>5. ASSUME NEW q \in Procs PROVE JobOK(q)'
  <2>1. JobOK(q) /\ job'[q] = job[q] /\ conf' = conf
    BY <1>1 DEF FirewallInv
  <2>2. CASE q = w
    BY <1>3, <2>1, <2>2 DEF JobOK, Holding, Flagging
  <2>3. CASE q # w
    BY <1>3, <2>1, <2>3 DEF JobOK, Flagging
  <2>4. QED
    BY <2>2, <2>3
<1>6. CastInv'
  <2>1. \A q \in Procs : pc'[q] = "absent" <=> pc[q] = "absent"
    BY <1>1, <1>3
  <2>2. QED
    BY <1>1, <2>1, CastStays
<1>7. AllComing'
  BY <1>3 DEF AllComing
<1>8. QED
  BY <1>4, <1>5, <1>6, <1>7 DEF FirewallInv, ChainInv

LEMMA ResyncKeeps ==
  ASSUME FirewallInv, NEW w \in Workers, Resync(w)
  PROVE  FirewallInv'
<1> DEFINE label == IF table THEN "sync" ELSE "serving"
           sip == text = "whole" /\ conf.sip
           fresh == IF text = "whole" THEN {"sip"} ELSE {}
           j == IF table THEN [NoJob EXCEPT !.sip = sip, !.fresh = fresh] ELSE NoJob
<1>1. /\ pc[w] = "boot" /\ Go(w, label, j) /\ w \in Procs /\ label \in Steps
      /\ UNCHANGED <<conf, text, table, chain, restart, faults, apart>>
  BY DEF Resync, Procs, Steps
<1>2. /\ TypeOK /\ conf \in Docs /\ pc \in [Procs -> Steps] /\ job \in [Procs -> Jobs]
      /\ table \in BOOLEAN
  BY TypeIs DEF FirewallInv
<1>3. /\ j \in Jobs /\ j.wrote = 0
      /\ table /\ "sip" \in j.fresh => j.sip = conf.sip
  <2>1. sip \in BOOLEAN /\ fresh \in SUBSET {"doc", "sip"}
    BY <1>2 DEF Docs
  <2>2. "sip" \in fresh => sip = conf.sip
    BY <1>2 DEF Docs
  <2> HIDE DEF sip, fresh
  <2>3. [NoJob EXCEPT !.sip = sip, !.fresh = fresh] \in Jobs
    BY <2>1, NoJobIsJob DEF Jobs
  <2>4. CASE table
    BY <2>2, <2>3, <2>4, NoJobIsJob DEF Jobs
  <2>5. CASE ~table
    BY <2>5, NoJobIsJob
  <2>6. QED
    BY <2>4, <2>5
<1> HIDE DEF j
<1>4. /\ pc' \in [Procs -> Steps] /\ pc'[w] = label /\ \A q \in Procs \ {w} : pc'[q] = pc[q]
      /\ job' \in [Procs -> Jobs] /\ job'[w] = j /\ \A q \in Procs \ {w} : job'[q] = job[q]
  BY <1>1, <1>2, <1>3, GoTypes
<1>5. TypeOK'
  BY <1>1, <1>2, <1>4, TypeIs, TypeIsNext
<1>6. ASSUME NEW q \in Procs PROVE JobOK(q)'
  <2>1. JobOK(q) /\ conf' = conf
    BY <1>1 DEF FirewallInv
  <2>2. CASE q = w
    BY <1>3, <1>4, <2>1, <2>2 DEF JobOK, Holding, Flagging
  <2>3. CASE q # w
    <3>1. pc'[q] = pc[q] /\ job'[q] = job[q]
      BY <1>4, <2>3
    <3>2. QED
      BY <2>1, <3>1 DEF JobOK, Flagging
  <2>4. QED
    BY <2>2, <2>3
<1>7. CastInv'
  <2>1. \A q \in Procs : pc'[q] = "absent" <=> pc[q] = "absent"
    BY <1>1, <1>4
  <2>2. QED
    BY <1>1, <2>1, CastStays
<1>8. ChainInv'
  <2>1. CASE ~table
    BY <1>1, <2>1 DEF ChainInv, AllComing
  <2>2. CASE table
    <3>1. pc'[w] = "sync"
      BY <1>4, <2>2
    <3>2. \A c \in Chains : Comes(w, c)'
      BY <3>1 DEF Comes, Flagging, Chains
    <3>3. QED
      BY <1>1, <3>2 DEF ChainInv
  <2>3. QED
    BY <2>1, <2>2
<1>9. QED
  BY <1>5, <1>6, <1>7, <1>8 DEF FirewallInv

\* Workers that die with their threads know nothing any more.
LEMMA DieKeeps ==
  ASSUME FirewallInv, NEW W \in SUBSET Workers, Die(W),
         UNCHANGED <<conf, text, table, chain, apart>>,
         restart' \in BOOLEAN, faults' \in 0..MaxFaults
  PROVE  /\ TypeOK' /\ (\A p \in Procs : JobOK(p)') /\ CastInv'
         /\ \A w \in W : pc[w] # "absent" => pc'[w] = "down"
<1> DEFINE gone == {p \in Present : p \in W \/ (p \in Threads /\ Home[p] \in W)}
<1>1. /\ TypeOK /\ pc \in [Procs -> Steps] /\ job \in [Procs -> Jobs]
      /\ gone \subseteq Present /\ W \subseteq Procs
  BY TypeIs DEF FirewallInv, Procs
<1>2. /\ pc' = [p \in Procs |-> IF p \notin gone THEN pc[p]
                                ELSE IF p \in W THEN "down" ELSE "idle"]
      /\ job' = [p \in Procs |-> IF p \in gone THEN NoJob ELSE job[p]]
  BY DEF Die
<1>3. \A w \in W : pc[w] # "absent" => w \in gone
  BY <1>1 DEF Present
<1> HIDE DEF gone
<1>4. {"down", "idle"} \subseteq Steps
  BY DEF Steps
<1>5. pc' \in [Procs -> Steps] /\ job' \in [Procs -> Jobs]
  BY <1>1, <1>2, <1>4, NoJobIsJob
<1>6. TypeOK'
  BY <1>1, <1>5, TypeIs, TypeIsNext
<1>7. ASSUME NEW p \in Procs PROVE JobOK(p)'
  <2>1. CASE p \in gone
    <3>1. job'[p] = NoJob /\ pc'[p] \in {"down", "idle"}
      BY <1>2, <2>1
    <3>2. QED
      BY <3>1, NoJobIsJob DEF JobOK, Holding, Flagging
  <2>2. CASE p \notin gone
    <3>1. pc'[p] = pc[p] /\ job'[p] = job[p] /\ JobOK(p) /\ conf' = conf
      BY <1>2, <2>2 DEF FirewallInv
    <3>2. QED
      BY <3>1 DEF JobOK, Flagging
  <2>3. QED
    BY <2>1, <2>2
<1>8. CastInv'
  <2>1. \A p \in Procs : pc'[p] = "absent" <=> pc[p] = "absent"
    BY <1>1, <1>2 DEF Present
  <2>2. QED
    BY <2>1, CastStays
<1>9. QED
  BY <1>1, <1>2, <1>3, <1>6, <1>7, <1>8

LEMMA WorkerDiesKeeps ==
  ASSUME FirewallInv, NEW w \in Workers, WorkerDies(w)
  PROVE  FirewallInv'
<1>1. /\ pc[w] # "absent" /\ Die({w})
      /\ UNCHANGED <<conf, text, table, chain, restart, apart>>
  BY DEF WorkerDies
<1>2. restart' \in BOOLEAN /\ faults' \in 0..MaxFaults
  BY <1>1, TypeIs, FaultTypes DEF WorkerDies, FirewallInv
<1>3. /\ TypeOK' /\ (\A p \in Procs : JobOK(p)') /\ CastInv' /\ pc'[w] = "down"
  BY <1>1, <1>2, DieKeeps
<1>4. QED
  BY <1>3 DEF FirewallInv, ChainInv, AllComing

LEMMA RestartKeeps ==
  ASSUME FirewallInv, Restart
  PROVE  FirewallInv'
<1>1. /\ restart' = FALSE /\ Die(Workers)
      /\ UNCHANGED <<conf, text, table, chain, faults, apart>>
  BY DEF Restart
<1>2. faults' \in 0..MaxFaults
  BY <1>1, TypeIs DEF FirewallInv
<1>3. /\ TypeOK' /\ (\A p \in Procs : JobOK(p)') /\ CastInv'
      /\ \A w \in Workers : pc[w] # "absent" => pc'[w] = "down"
  BY <1>1, <1>2, DieKeeps
<1>4. CASE \E w \in Workers : pc[w] # "absent"
  BY <1>3, <1>4 DEF FirewallInv, ChainInv, AllComing
<1>5. CASE \A w \in Workers : pc[w] = "absent"
  <2>1. conf' = ShippedDoc /\ chain' = Empty
    BY <1>1, <1>5 DEF FirewallInv, CastInv
  <2>2. chain' = Render(conf')
    BY <2>1, ShippedIsEmpty
  <2>3. QED
    BY <1>3, <2>2 DEF FirewallInv, ChainInv
<1>6. QED
  BY <1>4, <1>5

LEMMA LoadRulesetKeeps ==
  ASSUME FirewallInv, LoadRuleset
  PROVE  FirewallInv'
<1>1. /\ table' = TRUE /\ chain' = Empty /\ restart' = TRUE
      /\ UNCHANGED <<conf, text, pc, job, apart>>
  BY DEF LoadRuleset
<1>2. TypeOK /\ Empty \in ChainSets
  BY DEF FirewallInv, Empty, ChainSets
<1>3. faults' \in 0..MaxFaults
  BY <1>2, TypeIs, FaultTypes DEF LoadRuleset
<1>4. TypeOK'
  BY <1>1, <1>2, <1>3, TypeIs, TypeIsNext
<1>5. \A p \in Procs : JobOK(p)'
  BY <1>1 DEF FirewallInv, JobOK, Flagging
<1>6. CastInv'
  BY <1>1 DEF FirewallInv, CastInv
<1>7. QED
  BY <1>1, <1>4, <1>5, <1>6 DEF FirewallInv, ChainInv, AllComing

----------------------------------------------------------------------------
(* The theorems *)

LEMMA InitHolds == Init => FirewallInv
<1> SUFFICES ASSUME Init PROVE FirewallInv
  OBVIOUS
<1>1. PICK cast \in Casts :
        pc = [p \in Procs |-> IF p \notin cast THEN "absent"
                              ELSE IF p \in Workers THEN "down" ELSE "idle"]
  BY DEF Init
<1>2. /\ conf = ShippedDoc /\ text = "whole" /\ table \in BOOLEAN /\ chain = Empty
      /\ job = [p \in Procs |-> NoJob] /\ restart = FALSE /\ faults = 0 /\ apart = {}
  BY DEF Init
<1>3. {"absent", "down", "idle"} \subseteq Steps /\ Empty \in ChainSets /\ 0 \in 0..MaxFaults
  BY FirewallAssumption DEF Steps, Empty, ChainSets
<1>4. TypeOK
  BY <1>1, <1>2, <1>3, TypeIs, ShippedIsDoc, NoJobIsJob
<1>5. \A p \in Procs : pc[p] \in {"absent", "down", "idle"} /\ job[p] = NoJob
  BY <1>1, <1>2
<1>6. \A p \in Procs : JobOK(p)
  BY <1>5, NoJobIsJob DEF JobOK, Holding, Flagging
<1>7. CastInv
  <2>1. \A t \in Threads : t \in cast => Home[t] \in cast
    BY FirewallAssumption
  <2>2. \A t \in Threads : t \in Procs /\ Home[t] \in Procs
    BY FirewallAssumption DEF Procs
  <2>3. \A p \in Procs : pc[p] # "absent" <=> p \in cast
    BY <1>1
  <2>4. QED
    BY <1>2, <2>1, <2>2, <2>3 DEF CastInv
<1>8. ChainInv
  BY <1>2, ShippedIsEmpty DEF ChainInv
<1>9. QED
  BY <1>4, <1>6, <1>7, <1>8 DEF FirewallInv

LEMMA NextKeeps == FirewallInv /\ [Next]_vars => FirewallInv'
<1> SUFFICES ASSUME FirewallInv, [Next]_vars PROVE FirewallInv'
  OBVIOUS
<1>1. ASSUME NEW t \in Threads, Serve(t) PROVE FirewallInv'
  BY <1>1, ReadKeeps, ReadNothingKeeps, RaisesKeeps, TruncateKeeps, DumpKeeps, MoreKeeps
     DEF Serve
<1>2. ASSUME NEW t \in Threads, NEW r \in Requests[t], Request(t, r) PROVE FirewallInv'
  BY <1>2, RequestKeeps
<1>3. ASSUME NEW p \in Procs, Apply(p) PROVE FirewallInv'
  BY <1>3, SyncPortsKeeps, SyncC2cKeeps, ApplyAcceptKeeps, ApplyDnatKeeps, ApplyC2cKeeps,
     ApplySipKeeps, NftFailsKeeps DEF Apply
<1>4. ASSUME NEW w \in Workers, Start(w) \/ Resync(w) \/ WorkerDies(w) PROVE FirewallInv'
  BY <1>4, StartKeeps, ResyncKeeps, WorkerDiesKeeps
<1>5. CASE LoadRuleset
  BY <1>5, LoadRulesetKeeps
<1>6. CASE Restart
  BY <1>6, RestartKeeps
<1>7. CASE UNCHANGED vars
  <2>1. UNCHANGED <<conf, text, table, chain, pc, job, restart, faults, apart>>
    BY <1>7 DEF vars
  <2>2. TypeOK'
    BY <2>1, TypeIs, TypeIsNext DEF FirewallInv
  <2>3. \A p \in Procs : JobOK(p)'
    BY <2>1 DEF FirewallInv, JobOK, Flagging
  <2>4. CastInv'
    BY <2>1 DEF FirewallInv, CastInv
  <2>5. ChainInv'
    BY <2>1 DEF FirewallInv, ChainInv, AllComing, Comes, Flagging
  <2>6. QED
    BY <2>2, <2>3, <2>4, <2>5 DEF FirewallInv
<1>8. QED
  BY <1>1, <1>2, <1>3, <1>4, <1>5, <1>6, <1>7 DEF Next

LEMMA InvariantHolds == Spec => []FirewallInv
  BY InitHolds, NextKeeps, PTL DEF Spec

\* The types of the state are kept: no write is a fourth of its request, and a
\* chain holds nothing but rules of the configured kinds.
THEOREM TypeCorrect == Spec => []TypeOK
<1>1. FirewallInv => TypeOK
  BY DEF FirewallInv
<1>2. QED
  BY <1>1, InvariantHolds, PTL

\* Between requests the firewall shows what is saved in every chain but those whose
\* latest rendering failed, was overtaken or was not the writer's business,
\* however many workers, threads, requests, reloads and deaths there were.
THEOREM SavedStaysShown == Spec => []SavedIsShown
<1>1. FirewallInv => SavedIsShown
  <2>1. SUFFICES ASSUME FirewallInv, Quiet, NEW c \in Chains \ apart
                 PROVE  chain[c] = Render(conf)[c]
    BY DEF SavedIsShown
  <2>2. \A p \in Procs : pc[p] \in {"absent", "serving", "idle"}
    BY <2>1 DEF Quiet, Present
  <2>3. \A p \in Procs : ~Comes(p, c)
    BY <2>2 DEF Comes, Flagging
  <2>4. ~AllComing
    BY <2>1, <2>2 DEF Quiet, AllComing, Procs
  <2>5. QED
    BY <2>1, <2>3, <2>4 DEF FirewallInv, ChainInv
<1>2. QED
  BY <1>1, InvariantHolds, PTL
=============================================================================
