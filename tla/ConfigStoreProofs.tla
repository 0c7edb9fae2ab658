-------------------------- MODULE ConfigStoreProofs --------------------------
(***************************************************************************)
(* Theorems about ConfigStore, for any users, requests and threads.        *)
(***************************************************************************)
EXTENDS ConfigStore, WellFoundedInduction, TLAPS

(* Facts about documents. *)

\* What add_user's loop looks for exists, and its value is above every userid.
LEMMA NextIdIsAbove ==
  ASSUME NEW d, IsDoc(d)
  PROVE  /\ NextId(d) \in 3..MaxId + 1
         /\ \A u \in DOMAIN d.users : d.users[u].id < NextId(d)
<1> DEFINE T == {n \in Nat : n > 2 /\ \A u \in DOMAIN d.users : d.users[u].id < n}
<1>1. \A u \in DOMAIN d.users : d.users[u].id \in Int /\ d.users[u].id <= MaxId
  BY DocAssumption DEF IsDoc, UserRec, NoId
<1>2. MaxId + 1 \in T
  BY <1>1, DocAssumption
<1>3. PICK n \in T : \A m \in T : ~ (<<m, n>> \in OpToRel(<, Nat))
  <2>1. T \subseteq Nat /\ T # {}
    BY <1>2
  <2>2. QED
    BY <2>1, NatLessThanWellFounded, WFMin, Zenon
<1>4. \A m \in T : ~ (m < n)
  BY <1>3 DEF OpToRel
<1>5. n \in 3..MaxId + 1
  BY <1>2, <1>4, DocAssumption
<1>6. n = 3 \/ \E u \in DOMAIN d.users : d.users[u].id = n - 1
  <2>1. SUFFICES ASSUME n # 3 PROVE \E u \in DOMAIN d.users : d.users[u].id = n - 1
    OBVIOUS
  <2>2. n - 1 \notin T /\ n - 1 \in Nat /\ n - 1 > 2
    BY <1>4, <1>5, <2>1
  <2>3. PICK u \in DOMAIN d.users : ~(d.users[u].id < n - 1)
    BY <2>2
  <2>4. QED
    BY <1>1, <2>3
<1>7. IsNextId(n, d)
  BY <1>5, <1>6 DEF IsNextId
<1>8. IsNextId(NextId(d), d) /\ NextId(d) \in 3..MaxId + 1
  BY <1>5, <1>7 DEF NextId
<1>9. QED
  BY <1>8 DEF IsNextId

\* As long as add_user allots the userids, a request keeps them unique.
LEMMA ResultKeepsIdsUnique ==
  ASSUME NEW r \in Requests, NEW d, IsDoc(d), Writes(r, d), UniqueIds(d),
         r.op = "add" => r.id = 0
  PROVE  UniqueIds(Result(r, d))
<1>0. r \in AllRequests
  BY DocAssumption
<1>1. CASE r.op = "global"
  BY <1>1 DEF Result, UniqueIds, IsDoc
<1>2. CASE r.op = "modify"
  <2>1. r.user \in DOMAIN d.users /\ d.users[r.user] \in UserRec
    BY <1>2 DEF Writes, IsDoc
  <2>2. Result(r, d) = Put(d, r.user, [d.users[r.user] EXCEPT !.note = r.note])
    BY <1>2 DEF Result
  <2>3. [d.users[r.user] EXCEPT !.note = r.note].id = d.users[r.user].id
    BY <2>1 DEF UserRec
  <2>4. QED
    BY <2>1, <2>2, <2>3 DEF UniqueIds, Put, IsDoc
<1>3. CASE r.op = "serial"
  <2>1. r.user \in DOMAIN d.users /\ d.users[r.user] \in UserRec
    BY <1>3 DEF Writes, IsDoc
  <2>2. Result(r, d) = Put(d, r.user, Checked(d.users[r.user], r.serial))
    BY <1>3 DEF Result
  <2>3. Checked(d.users[r.user], r.serial).id = d.users[r.user].id
    BY <2>1 DEF UserRec, Checked
  <2>4. QED
    BY <2>1, <2>2, <2>3 DEF UniqueIds, Put, IsDoc
<1>4. CASE r.op = "add"
  <2>1. Result(r, d) = Put(d, r.user, NewUser(NextId(d)))
    BY <1>4 DEF Result, AddedId
  <2>2. \A u \in DOMAIN d.users : d.users[u].id \in Int /\ d.users[u].id < NextId(d)
    BY NextIdIsAbove, DocAssumption DEF IsDoc, UserRec, NoId
  <2>3. NextId(d) \in Int
    BY NextIdIsAbove, DocAssumption
  <2>4. QED
    BY <2>1, <2>2, <2>3 DEF UniqueIds, Put, NewUser, IsDoc
<1>5. CASE r.op = "remove"
  BY <1>5 DEF Result, UniqueIds, Delete, IsDoc
<1>6. QED
  BY <1>0, <1>1, <1>2, <1>3, <1>4, <1>5 DEF AllRequests

\* As long as add_user is not sent for the router's own account, a request
\* leaves it there, with its userid.
LEMMA ResultKeepsPrimary ==
  ASSUME NEW r \in Requests, NEW d, IsDoc(d), Writes(r, d), HasPrimary(d),
         r.op = "add" => r.user # Primary
  PROVE  HasPrimary(Result(r, d))
<1>0. r \in AllRequests
  BY DocAssumption
<1>1. CASE r.op = "global"
  BY <1>1 DEF Result, HasPrimary, IsDoc
<1>2. CASE r.op = "modify"
  BY <1>2 DEF Result, HasPrimary, IsDoc, Put, UserRec
<1>3. CASE r.op = "serial"
  BY <1>3 DEF Result, HasPrimary, IsDoc, Put, UserRec, Checked
<1>4. CASE r.op = "add"
  BY <1>4 DEF Result, HasPrimary, IsDoc, Put
<1>5. CASE r.op = "remove"
  BY <1>5 DEF Result, HasPrimary, IsDoc, Delete, Writes
<1>6. QED
  BY <1>0, <1>1, <1>2, <1>3, <1>4, <1>5 DEF AllRequests

\* The configuration the package installs is a document with unique userids
\* and with the router's own account.
LEMMA ShippedDocIsGood ==
  IsDoc(ShippedDoc) /\ UniqueIds(ShippedDoc) /\ HasPrimary(ShippedDoc)
BY DocAssumption
   DEF IsDoc, ShippedDoc, UserRec, NewUser, NoId, UniqueIds, HasPrimary

-----------------------------------------------------------------------------
(* Type correctness. *)

\* What Begin checked of a request stays true of the document it read: the
\* documents about to be stored are documents.
Planned ==
    \A t \in DOMAIN held : /\ Writes(held[t].req, held[t].doc)
                           /\ IsDoc(Result(held[t].req, held[t].doc))

\* The service starts with the shipped file and no handler at work.
LEMMA InitIsTyped == Init => TypeOK /\ Planned
BY ShippedDocIsGood DEF Init, TypeOK, Planned, Steps

\* Every step keeps the types, given that what is planned is a document.
LEMMA TypeInductive == TypeOK /\ Planned /\ [Next]_vars => TypeOK' /\ Planned'
<1> SUFFICES ASSUME TypeOK, Planned, [Next]_vars PROVE TypeOK' /\ Planned'
  OBVIOUS
<1> USE DEF TypeOK, Planned, Steps
<1>1. ASSUME NEW t \in Threads, NEW r \in Requests, Begin(t, r)
      PROVE  TypeOK' /\ Planned'
  BY <1>1 DEF Begin, Holding
<1>2. ASSUME NEW t \in Threads, Backup(t)
      PROVE  TypeOK' /\ Planned'
  BY <1>2 DEF Backup
<1>3. ASSUME NEW t \in Threads, BackupRaises(t)
      PROVE  TypeOK' /\ Planned'
  BY <1>3 DEF BackupRaises, Finish
<1>4. ASSUME NEW t \in Threads, Truncate(t)
      PROVE  TypeOK' /\ Planned'
  BY <1>4 DEF Truncate
<1>5. ASSUME NEW t \in Threads, Dump(t)
      PROVE  TypeOK' /\ Planned'
  BY <1>5 DEF Dump, Finish
<1>6. ASSUME NEW t \in Threads, DumpRaises(t)
      PROVE  TypeOK' /\ Planned'
  BY <1>6 DEF DumpRaises, Finish
<1>7. ASSUME Crash
      PROVE  TypeOK' /\ Planned'
  BY <1>7 DEF Crash, Finish
<1>8. ASSUME Start
      PROVE  TypeOK' /\ Planned'
  BY <1>8 DEF Start
<1>9. CASE UNCHANGED vars
  BY <1>9 DEF vars
<1>10. QED
  BY <1>1, <1>2, <1>3, <1>4, <1>5, <1>6, <1>7, <1>8, <1>9 DEF Next

\* The state has the shape TypeOK gives it in every reachable state.
THEOREM TypeCorrect == Spec => [](TypeOK /\ Planned)
BY InitIsTyped, TypeInductive, PTL DEF Spec

-----------------------------------------------------------------------------
(* A file that does not parse is explained. *)

\* The strengthening of WholeUnlessExposed: while one handler is between open
\* and dump the file is empty, unless another one has been there as well.
Explained ==
    /\ WholeUnlessExposed
    /\ Writers # {} /\ text # "empty" => exposed
    /\ \A s, t \in Writers : s # t => exposed

\* Every step keeps it.
LEMMA ExplainedInductive ==
  TypeOK /\ Explained /\ [Next]_vars => Explained'
<1> SUFFICES ASSUME TypeOK, Explained, [Next]_vars PROVE Explained'
  OBVIOUS
<1> USE DEF TypeOK, Explained, WholeUnlessExposed, Writers, Steps
<1>1. ASSUME NEW t \in Threads, NEW r \in Requests, Begin(t, r)
      PROVE  Explained'
  BY <1>1 DEF Begin, Holding
<1>2. ASSUME NEW t \in Threads, Backup(t)
      PROVE  Explained'
  BY <1>2 DEF Backup
<1>3. ASSUME NEW t \in Threads, BackupRaises(t)
      PROVE  Explained'
  BY <1>3 DEF BackupRaises, Finish
<1>4. ASSUME NEW t \in Threads, Truncate(t)
      PROVE  Explained'
  BY <1>4 DEF Truncate
<1>5. ASSUME NEW t \in Threads, Dump(t)
      PROVE  Explained'
  BY <1>5 DEF Dump, Finish
<1>6. ASSUME NEW t \in Threads, DumpRaises(t)
      PROVE  Explained'
  BY <1>6 DEF DumpRaises, Finish
<1>7. ASSUME Crash
      PROVE  Explained'
  BY <1>7 DEF Crash, Finish
<1>8. ASSUME Start
      PROVE  Explained'
  BY <1>8 DEF Start
<1>9. CASE UNCHANGED vars
  BY <1>9 DEF vars
<1>10. QED
  BY <1>1, <1>2, <1>3, <1>4, <1>5, <1>6, <1>7, <1>8, <1>9 DEF Next

\* Without a write cut short and without two overlapping writes, the file
\* parses whenever no handler is writing it.
THEOREM FileIsWhole == Spec => []WholeUnlessExposed
<1>1. Init => Explained
  BY DEF Init, Explained, WholeUnlessExposed, Writers
<1>2. Explained => WholeUnlessExposed
  BY DEF Explained
<1>3. QED
  BY <1>1, <1>2, ExplainedInductive, TypeCorrect, PTL DEF Spec

-----------------------------------------------------------------------------
(* A broken file is not written over. *)

\* Once the file is broken and no handler holds a document read before, no
\* request, no crash and no restart of the service changes the file.
THEOREM BrokenFileIsKept == Spec => BrokenIsKept
<1>1. TypeOK /\ [Next]_vars => [Broken => Broken' /\ text' = text]_vars
  <2> SUFFICES ASSUME TypeOK, Next, Broken PROVE Broken' /\ text' = text
    BY DEF vars
  <2>1. \A t \in Threads : pc[t] = "idle"
    BY DEF Broken
  <2>2. CASE Crash
    BY <2>1, <2>2 DEF Crash, Finish, Broken, Writers, TypeOK
  <2>3. ~ \E t \in Threads : \/ Backup(t) \/ BackupRaises(t)
                             \/ Truncate(t) \/ Dump(t) \/ DumpRaises(t)
    BY <2>1 DEF Backup, BackupRaises, Truncate, Dump, DumpRaises
  <2>4. ~ \E t \in Threads, r \in Requests : Begin(t, r)
    BY DEF Begin, Broken
  <2>5. ~ Start
    BY DEF Start, Broken
  <2>6. QED
    BY <2>2, <2>3, <2>4, <2>5 DEF Next
<1>2. QED
  BY <1>1, TypeCorrect, PTL DEF Spec, BrokenIsKept

-----------------------------------------------------------------------------
(* What the stored documents keep. *)

AutoIds == \A r \in Requests : r.op = "add" => r.id = 0

FreshNames == \A r \in Requests : r.op = "add" => r.user # Primary

\* Where documents come from: the file goes on with the document it has, or gets
\* one that a handler has worked out, and a handler goes on with the one it has
\* read, or reads the file's.
LEMMA DocumentsMove ==
  TypeOK /\ [Next]_vars =>
    /\ doc' = doc \/ \E t \in DOMAIN held : doc' = Result(held[t].req, held[t].doc)
    /\ \A t \in DOMAIN held' :
         \/ held'[t].doc = doc
         \/ t \in DOMAIN held /\ held'[t] = held[t]
<1> DEFINE Stored == doc' = doc \/ \E t \in DOMAIN held :
                                       doc' = Result(held[t].req, held[t].doc)
           ReadOrKept == \A t \in DOMAIN held' :
                             \/ held'[t].doc = doc
                             \/ t \in DOMAIN held /\ held'[t] = held[t]
<1> SUFFICES ASSUME TypeOK, [Next]_vars PROVE Stored /\ ReadOrKept
  OBVIOUS
<1>1. ASSUME NEW t \in Threads, NEW r \in Requests, Begin(t, r)
      PROVE  Stored /\ ReadOrKept
  BY <1>1 DEF Begin, Holding
<1>2. ASSUME NEW t \in Threads, Dump(t)
      PROVE  Stored /\ ReadOrKept
  <2>1. t \in DOMAIN held
    BY <1>2 DEF Dump, TypeOK
  <2>2. Stored
    BY <1>2, <2>1 DEF Dump
  <2>3. ReadOrKept
    BY <1>2 DEF Dump, Finish
  <2>4. QED
    BY <2>2, <2>3
<1>3. CASE \/ Crash
           \/ \E t \in Threads : BackupRaises(t) \/ DumpRaises(t)
  BY <1>3 DEF Crash, BackupRaises, DumpRaises, Finish
<1>4. CASE \/ Start \/ UNCHANGED vars
           \/ \E t \in Threads : Backup(t) \/ Truncate(t)
  BY <1>4 DEF Start, vars, Backup, Truncate
<1>5. QED
  BY <1>1, <1>2, <1>3, <1>4 DEF Next

\* When add_user allots every userid, no interleaving, lost update or crash
\* gives two stored users the same one.
THEOREM UseridsStayUnique == ASSUME AutoIds PROVE Spec => []IdsStayUnique
<1>1. Init => IdsStayUnique
  BY ShippedDocIsGood DEF Init, IdsStayUnique
<1>2. ASSUME TypeOK, Planned, IdsStayUnique, [Next]_vars
      PROVE  IdsStayUnique'
  <2>1. \A t \in DOMAIN held : UniqueIds(Result(held[t].req, held[t].doc))
    BY <1>2, ResultKeepsIdsUnique, AutoIds DEF TypeOK, Planned, AutoIds, IdsStayUnique
  <2>2. QED
    BY <1>2, <2>1, DocumentsMove DEF IdsStayUnique
<1>3. QED
  BY <1>1, <1>2, TypeCorrect, PTL DEF Spec

\* Every document read or stored has the router's own account.
PrimaryKept == PrimaryStays /\ \A t \in DOMAIN held : HasPrimary(held[t].doc)

\* Unless add_user is sent for the router's own username, no requests, however
\* they interleave, remove that account or change its userid 0.
THEOREM PrimaryIsKept == ASSUME FreshNames PROVE Spec => []PrimaryStays
<1>1. Init => PrimaryKept
  BY ShippedDocIsGood DEF Init, PrimaryKept, PrimaryStays
<1>2. ASSUME TypeOK, Planned, PrimaryKept, [Next]_vars
      PROVE  PrimaryKept'
  <2>1. \A t \in DOMAIN held : HasPrimary(Result(held[t].req, held[t].doc))
    BY <1>2, ResultKeepsPrimary, FreshNames DEF TypeOK, Planned, FreshNames, PrimaryKept
  <2>2. QED
    BY <1>2, <2>1, DocumentsMove DEF PrimaryKept, PrimaryStays
<1>3. PrimaryKept => PrimaryStays
  BY DEF PrimaryKept
<1>4. QED
  BY <1>1, <1>2, <1>3, TypeCorrect, PTL DEF Spec

-----------------------------------------------------------------------------
(* The file implements the store of snapshots. *)

\* Both modules speak of the same documents and the same requests.
LEMMA SameDocuments ==
  /\ Store!ShippedDoc = ShippedDoc
  /\ \A r, d : Store!Writes(r, d) <=> Writes(r, d)
  /\ \A r, d : Store!Result(r, d) = Result(r, d)
<1>1. Store!ShippedDoc = ShippedDoc
  BY DEF Store!ShippedDoc, ShippedDoc, Store!NewUser, NewUser, Store!NoId, NoId
<1>2. \A r, d : Store!Writes(r, d) <=> Writes(r, d)
  BY DEF Store!Writes, Writes, Store!NoId, NoId
<1>3. \A r, d : Store!NextId(d) = NextId(d)
  BY DEF Store!NextId, NextId, Store!IsNextId, IsNextId
<1>4. \A r, d : Store!Result(r, d) = Result(r, d)
  BY <1>3 DEF Store!Result, Result, Store!Put, Put, Store!Delete, Delete, Store!NewUser,
              NewUser, Store!Checked, Checked, Store!AddedId, AddedId
<1>5. QED
  BY <1>1, <1>2, <1>4

\* Every step of the file's handlers is a step of SnapshotStore or changes
\* nothing there.
THEOREM ImplementsSnapshotStore == Spec => StoreSpec
<1>1. Init => Store!Init
  BY SameDocuments DEF Init, Store!Init
<1>2. TypeOK /\ [Next]_vars => [Store!Next]_(Store!vars)
  <2> SUFFICES ASSUME TypeOK, [Next]_vars PROVE Store!Next \/ UNCHANGED <<doc, held>>
    BY DEF Store!vars
  <2>1. ASSUME NEW t \in Threads, NEW r \in Requests, Begin(t, r)
        PROVE  Store!Begin(t, r)
    BY <2>1, SameDocuments DEF Begin, Holding, Store!Begin, TypeOK
  <2>2. ASSUME NEW t \in Threads, Dump(t)
        PROVE  Store!Commit(t) \/ Store!Abort({t})
    BY <2>2, SameDocuments DEF Dump, Finish, Store!Commit, Store!Abort, TypeOK
  <2>3. ASSUME NEW t \in Threads, BackupRaises(t) \/ DumpRaises(t)
        PROVE  Store!Abort({t})
    BY <2>3 DEF BackupRaises, DumpRaises, Finish, Store!Abort
  <2>4. ASSUME Crash
        PROVE  Store!Abort(Threads)
    BY <2>4 DEF Crash, Finish, Store!Abort
  <2>5. ASSUME NEW t \in Threads, Backup(t) \/ Truncate(t)
        PROVE  UNCHANGED <<doc, held>>
    BY <2>5 DEF Backup, Truncate
  <2>6. CASE Start \/ UNCHANGED vars
    BY <2>6 DEF Start, vars
  <2>7. QED
    BY <2>1, <2>2, <2>3, <2>4, <2>5, <2>6 DEF Next, Store!Next
<1>3. QED
  BY <1>1, <1>2, TypeCorrect, PTL DEF Spec, StoreSpec, Store!Spec

=============================================================================
