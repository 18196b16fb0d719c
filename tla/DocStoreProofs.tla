--------------------------- MODULE DocStoreProofs ---------------------------
(***************************************************************************)
(* What holds of DocStore for every set of clients, paths, contents and    *)
(* documents.  The shape of a request's state at each of its statements -  *)
(* which operation runs which statement, and which of its locals are set   *)
(* by then - is an invariant by itself.  On top of it the inductive        *)
(* invariant has three parts, each proved from those before it: the        *)
(* exclusion of row locks, what a transaction may rely on once it has its  *)
(* locks, and where the cached tree may differ from the tables.            *)
(***************************************************************************)
EXTENDS DocStore, TLAPS

-----------------------------------------------------------------------------
(* The shape of requests *)

Writes(c) == req[c].op \in {"put", "edit"}

\* Which operation runs which statement, and which locals it has by then.
RequestShape(c) ==
    /\ pc[c] # "idle" => req[c].path \in Paths
    /\ pc[c] \in {"update", "updateWait"} => req[c].op = "put"
    /\ pc[c] = "editWait" => req[c].op = "edit"
    /\ pc[c] \in {"upsert", "foreignKey"} => Writes(c)
    /\ pc[c] \in {"tree", "store"} => req[c].op \in {"delete", "read"}
    /\ pc[c] \in {"delete", "deleteWait"} => req[c].op = "delete"
    /\ pc[c] = "commit" => Writes(c) \/ req[c].op = "delete"
    /\ req[c].op = "edit" => req[c].edit \in Edits

TransactionShape(c) ==
    /\ pc[c] \in {"idle", "tree"} => tx[c] = NoTx
    /\ pc[c] \in {"update", "updateWait", "upsert", "foreignKey"}
         => tx[c].doc \in DocIds /\ tx[c].val \in Contents
    /\ pc[c] = "commit" /\ Writes(c) => tx[c].doc \in DocIds /\ tx[c].val \in Contents
    /\ pc[c] \in {"updateWait", "editWait"} => tx[c].want \in DocIds
    /\ tx[c].doc # None => pc[c] # "idle"
    /\ tx[c].want # None => pc[c] # "idle"
    /\ tx[c].locked # None => pc[c] \in {"upsert", "foreignKey", "commit"} /\ Writes(c)
    /\ tx[c].share # None => pc[c] = "commit" /\ tx[c].share = tx[c].doc
    /\ pc[c] = "foreignKey" => tx[c].rows = {req[c].path}
    /\ pc[c] = "commit" /\ Writes(c) => tx[c].rows = {req[c].path}
    /\ pc[c] = "store" => tx[c].tree \in Trees
    /\ pc[c] \in {"foreignKey", "commit"} => tx[c].held = tx[c].rows
    /\ tx[c].held # {} => pc[c] \in {"foreignKey", "commit", "deleteWait"}

Shape == TypeOK /\ \A c \in Clients : RequestShape(c) /\ TransactionShape(c)

-----------------------------------------------------------------------------
(* The shape of requests *)

\* Nobody but c moves.
OthersStay(c) == \A o \in Clients \ {c} :
    pc'[o] = pc[o] /\ req'[o] = req[o] /\ tx'[o] = tx[o]

\* The shape of a request is about its own state only.
LEMMA OthersKeepShape ==
  ASSUME NEW c \in Clients, NEW o \in Clients \ {c}, OthersStay(c),
         RequestShape(o), TransactionShape(o)
  PROVE  RequestShape(o)' /\ TransactionShape(o)'
BY DEF OthersStay, RequestShape, TransactionShape, Writes

\* A request that is answered has the shape of an idle one.
LEMMA FinishShape ==
  ASSUME NEW c \in Clients, Shape, Finish(c)
  PROVE  /\ pc' \in [Clients -> Labels] /\ req' \in [Clients -> Requests]
         /\ tx' \in [Clients -> Transactions]
         /\ \A o \in Clients : RequestShape(o)' /\ TransactionShape(o)'
<1>1. /\ pc' \in [Clients -> Labels] /\ req' \in [Clients -> Requests]
      /\ tx' \in [Clients -> Transactions]
  BY DEF Shape, TypeOK, Finish, Go, Labels, NoReq, NoTx, Requests, Transactions, Expectations
<1>2. OthersStay(c)
  BY DEF OthersStay, Shape, TypeOK, Finish, Go
<1>3. RequestShape(c)' /\ TransactionShape(c)'
  BY ContentsAssumption
     DEF Shape, TypeOK, Finish, Go, RequestShape, TransactionShape, Writes, NoReq, NoTx
<1>4. QED
  BY <1>1, <1>2, <1>3, OthersKeepShape DEF Shape

\* Every step of a request keeps the shape of all requests.
LEMMA ShapeStep ==
  ASSUME NEW c \in Clients, Shape,
         Arrive(c) \/ Proceed(c) \/ CommitUnconfirmed(c) \/ Fail(c) \/ DeadlockAbort(c)
  PROVE  Shape'
<1>1. ASSUME NEW p \in Paths, NEW e \in Conditions, NEW x \in Contents, PutLookupFound(c, p, e, x)
      PROVE  Shape'
  <2> DEFINE r == [NoTx EXCEPT !.doc = bind[p], !.val = x]
  <2>1. p \in Paths /\ tx[c] \in Transactions /\ bind[p] \in DocIds \cup {None}
    BY <1>1 DEF PutLookupFound, Shape, TypeOK, RequestShape
  <2>2. r \in Transactions
    BY <1>1, <2>1 DEF Transactions, NoTx
  <2>3. tx' = [tx EXCEPT ![c] = r]
    BY <1>1 DEF PutLookupFound
  <2>4. tx' \in [Clients -> Transactions]
    BY <2>2, <2>3 DEF Shape, TypeOK
  <2>5. TypeOK'
    BY <1>1, <2>4, HashAssumption
       DEF PutLookupFound, Begin, Go, Labels, Requests, Ops, dbVars, cacheVars, Shape, TypeOK
  <2>6. OthersStay(c)
    BY <1>1, <2>3 DEF PutLookupFound, Begin, OthersStay, Go, Shape, TypeOK
  <2>7. tx'[c] = r
    BY <2>3 DEF Shape, TypeOK
  <2>8. RequestShape(c)' /\ TransactionShape(c)'
    BY <1>1, <2>1, <2>7, DocsAssumption, ContentsAssumption
       DEF PutLookupFound, Begin, Go, Bound, Shape, TypeOK, Transactions, RequestShape,
           TransactionShape, Writes, NoTx
  <2> QED BY <2>5, <2>6, <2>8, OthersKeepShape DEF Shape
<1>2. ASSUME NEW p \in Paths, NEW e \in Conditions, NEW x \in Contents, PutLookupMissing(c, p, e, x)
      PROVE  Shape'
  <2>0. PICK d \in DocIds : Unused(d) /\ tx' = [tx EXCEPT ![c] = [NoTx EXCEPT !.doc = d, !.locked = d, !.val = x]]
    BY <1>2 DEF PutLookupMissing
  <2> DEFINE r == [NoTx EXCEPT !.doc = d, !.locked = d, !.val = x]
  <2>1. p \in Paths /\ tx[c] \in Transactions /\ bind[p] \in DocIds \cup {None}
    BY <1>2 DEF PutLookupMissing, Shape, TypeOK, RequestShape
  <2>2. r \in Transactions
    BY <1>2, <2>1 DEF Transactions, NoTx
  <2>3. tx' = [tx EXCEPT ![c] = r]
    BY <2>0 DEF PutLookupMissing
  <2>4. tx' \in [Clients -> Transactions]
    BY <2>2, <2>3 DEF Shape, TypeOK
  <2>5. TypeOK'
    BY <1>2, <2>4, HashAssumption
       DEF PutLookupMissing, Begin, Go, Labels, Requests, Ops, dbVars, cacheVars, Shape, TypeOK
  <2>6. OthersStay(c)
    BY <1>2, <2>3 DEF PutLookupMissing, Begin, OthersStay, Go, Shape, TypeOK
  <2>7. tx'[c] = r
    BY <2>3 DEF Shape, TypeOK
  <2>8. RequestShape(c)' /\ TransactionShape(c)'
    BY <1>2, <2>1, <2>7, DocsAssumption, ContentsAssumption
       DEF PutLookupMissing, Begin, Go, Bound, Shape, TypeOK, Transactions, RequestShape,
           TransactionShape, Writes, NoTx
  <2> QED BY <2>5, <2>6, <2>8, OthersKeepShape DEF Shape
<1>3. ASSUME PutUpdate(c) PROVE Shape'
  <2> DEFINE r == [tx[c] EXCEPT !.want = bind[req[c].path]]
  <2>1. req[c].path \in Paths /\ tx[c] \in Transactions /\ bind[req[c].path] \in DocIds \cup {None}
    BY <1>3 DEF PutUpdate, Shape, TypeOK, RequestShape
  <2>2. r \in Transactions
    BY <1>3, <2>1 DEF Transactions, NoTx
  <2>3. tx' = [tx EXCEPT ![c] = r]
    BY <1>3 DEF PutUpdate
  <2>4. tx' \in [Clients -> Transactions]
    BY <2>2, <2>3 DEF Shape, TypeOK
  <2>5. TypeOK'
    BY <1>3, <2>4, HashAssumption
       DEF PutUpdate, Go, Labels, Requests, Ops, dbVars, cacheVars, Shape, TypeOK
  <2>6. OthersStay(c)
    BY <1>3, <2>3 DEF PutUpdate, OthersStay, Go, Shape, TypeOK
  <2>7. tx'[c] = r
    BY <2>3 DEF Shape, TypeOK
  <2>8. RequestShape(c)' /\ TransactionShape(c)'
    BY <1>3, <2>1, <2>7, DocsAssumption, ContentsAssumption
       DEF PutUpdate, Go, Bound, Shape, TypeOK, Transactions, RequestShape, TransactionShape,
           Writes, NoTx
  <2> QED BY <2>5, <2>6, <2>8, OthersKeepShape DEF Shape
<1>4. ASSUME PutUpdateLock(c) PROVE Shape'
  <2> DEFINE r == [tx[c] EXCEPT !.locked = IF docs[tx[c].want] = None THEN None ELSE tx[c].want, !.want = None]
  <2>1. req[c].path \in Paths /\ tx[c] \in Transactions /\ bind[req[c].path] \in DocIds \cup {None}
    BY <1>4 DEF PutUpdateLock, Shape, TypeOK, RequestShape
  <2>2. r \in Transactions
    BY <1>4, <2>1 DEF Transactions, NoTx
  <2>3. tx' = [tx EXCEPT ![c] = r]
    BY <1>4 DEF PutUpdateLock
  <2>4. tx' \in [Clients -> Transactions]
    BY <2>2, <2>3 DEF Shape, TypeOK
  <2>5. TypeOK'
    BY <1>4, <2>4, HashAssumption
       DEF PutUpdateLock, Go, Labels, Requests, Ops, dbVars, cacheVars, Shape, TypeOK
  <2>6. OthersStay(c)
    BY <1>4, <2>3 DEF PutUpdateLock, OthersStay, Go, Shape, TypeOK
  <2>7. tx'[c] = r
    BY <2>3 DEF Shape, TypeOK
  <2>8. RequestShape(c)' /\ TransactionShape(c)'
    BY <1>4, <2>1, <2>7, DocsAssumption, ContentsAssumption
       DEF PutUpdateLock, Go, Bound, Shape, TypeOK, Transactions, RequestShape,
           TransactionShape, Writes, NoTx
  <2> QED BY <2>5, <2>6, <2>8, OthersKeepShape DEF Shape
<1>5. ASSUME NEW p \in Paths, NEW e \in Conditions, NEW f \in Edits, EditSelect(c, p, e, f)
      PROVE  Shape'
  <2> DEFINE r == [NoTx EXCEPT !.want = bind[p]]
  <2>1. p \in Paths /\ tx[c] \in Transactions /\ bind[p] \in DocIds \cup {None}
    BY <1>5 DEF EditSelect, Shape, TypeOK, RequestShape
  <2>2. r \in Transactions
    BY <1>5, <2>1 DEF Transactions, NoTx
  <2>3. tx' = [tx EXCEPT ![c] = r]
    BY <1>5 DEF EditSelect
  <2>4. tx' \in [Clients -> Transactions]
    BY <2>2, <2>3 DEF Shape, TypeOK
  <2>5. TypeOK'
    BY <1>5, <2>4, HashAssumption
       DEF EditSelect, Begin, Go, Labels, Requests, Ops, dbVars, cacheVars, Shape, TypeOK
  <2>6. OthersStay(c)
    BY <1>5, <2>3 DEF EditSelect, Begin, OthersStay, Go, Shape, TypeOK
  <2>7. tx'[c] = r
    BY <2>3 DEF Shape, TypeOK
  <2>8. RequestShape(c)' /\ TransactionShape(c)'
    BY <1>5, <2>1, <2>7, DocsAssumption, ContentsAssumption
       DEF EditSelect, Begin, Go, Bound, Shape, TypeOK, Transactions, RequestShape,
           TransactionShape, Writes, NoTx
  <2> QED BY <2>5, <2>6, <2>8, OthersKeepShape DEF Shape
<1>6. ASSUME EditLock(c) PROVE Shape'
  <2>1. req[c].edit \in Edits /\ tx[c].want \in DocIds /\ req[c].path \in Paths /\ req[c].op = "edit"
    BY <1>6 DEF EditLock, EditLockable, Shape, RequestShape, TransactionShape
  <2>2. docs[tx[c].want] \in Contents
    BY <1>6, <2>1 DEF EditLock, EditAllowed, Shape, TypeOK
  <2>3. req[c].edit[docs[tx[c].want]] \in Contents
    BY <1>6, <2>1, <2>2, ContentsAssumption DEF EditLock, EditAllowed
  <2>4. tx' \in [Clients -> Transactions]
    <3>1. [tx[c] EXCEPT !.doc = tx[c].want, !.locked = tx[c].want, !.want = None,
                        !.val = req[c].edit[docs[tx[c].want]]] \in Transactions
      BY <2>1, <2>3 DEF Shape, TypeOK, Transactions
    <3> QED BY <1>6, <3>1 DEF EditLock, Shape, TypeOK
  <2>5. TypeOK'
    BY <1>6, <2>4 DEF EditLock, Go, Labels, dbVars, cacheVars, Shape, TypeOK
  <2>6. OthersStay(c)
    BY <1>6 DEF EditLock, OthersStay, Go, Shape, TypeOK
  <2>7. RequestShape(c)' /\ TransactionShape(c)'
    <3>1. /\ tx'[c].doc \in DocIds /\ tx'[c].val \in Contents /\ tx'[c].share = tx[c].share
          /\ tx'[c].want = None /\ tx'[c].held = tx[c].held
      BY <1>6, <2>1, <2>3 DEF EditLock, Shape, TypeOK, Transactions
    <3>2. pc'[c] = "upsert" /\ req'[c] = req[c] /\ pc[c] = "editWait"
      BY <1>6 DEF EditLock, EditLockable, Go, Shape, TypeOK
    <3> QED BY <2>1, <3>1, <3>2 DEF Shape, RequestShape, TransactionShape, Writes
  <2> QED BY <2>5, <2>6, <2>7, OthersKeepShape DEF Shape
<1>7. ASSUME EditRefused(c) PROVE Shape'
  BY <1>7, FinishShape, ClientsAssumption
     DEF EditRefused, Shape, TypeOK, dbVars, cacheVars, Trees
<1>8. ASSUME Upsert(c) PROVE Shape'
  <2> DEFINE r == [tx[c] EXCEPT !.rows = {req[c].path}, !.held = {req[c].path}]
  <2>1. req[c].path \in Paths /\ tx[c] \in Transactions /\ bind[req[c].path] \in DocIds \cup {None}
    BY <1>8 DEF Upsert, Shape, TypeOK, RequestShape
  <2>2. r \in Transactions
    BY <1>8, <2>1 DEF Transactions, NoTx
  <2>3. tx' = [tx EXCEPT ![c] = r]
    BY <1>8 DEF Upsert
  <2>4. tx' \in [Clients -> Transactions]
    BY <2>2, <2>3 DEF Shape, TypeOK
  <2>5. TypeOK'
    BY <1>8, <2>4, HashAssumption
       DEF Upsert, Go, Labels, Requests, Ops, dbVars, cacheVars, Shape, TypeOK
  <2>6. OthersStay(c)
    BY <1>8, <2>3 DEF Upsert, OthersStay, Go, Shape, TypeOK
  <2>7. tx'[c] = r
    BY <2>3 DEF Shape, TypeOK
  <2>8. RequestShape(c)' /\ TransactionShape(c)'
    BY <1>8, <2>1, <2>7, DocsAssumption, ContentsAssumption
       DEF Upsert, Go, Bound, Shape, TypeOK, Transactions, RequestShape, TransactionShape,
           Writes, NoTx
  <2> QED BY <2>5, <2>6, <2>8, OthersKeepShape DEF Shape
<1>9. ASSUME ForeignKeyHolds(c) PROVE Shape'
  <2> DEFINE r == [tx[c] EXCEPT !.share = tx[c].doc]
  <2>1. req[c].path \in Paths /\ tx[c] \in Transactions /\ bind[req[c].path] \in DocIds \cup {None}
    BY <1>9 DEF ForeignKeyHolds, Shape, TypeOK, RequestShape
  <2>2. r \in Transactions
    BY <1>9, <2>1 DEF Transactions, NoTx
  <2>3. tx' = [tx EXCEPT ![c] = r]
    BY <1>9 DEF ForeignKeyHolds
  <2>4. tx' \in [Clients -> Transactions]
    BY <2>2, <2>3 DEF Shape, TypeOK
  <2>5. TypeOK'
    BY <1>9, <2>4, HashAssumption
       DEF ForeignKeyHolds, Go, Labels, Requests, Ops, dbVars, cacheVars, Shape, TypeOK
  <2>6. OthersStay(c)
    BY <1>9, <2>3 DEF ForeignKeyHolds, OthersStay, Go, Shape, TypeOK
  <2>7. tx'[c] = r
    BY <2>3 DEF Shape, TypeOK
  <2>8. RequestShape(c)' /\ TransactionShape(c)'
    BY <1>9, <2>1, <2>7, DocsAssumption, ContentsAssumption
       DEF ForeignKeyHolds, Go, Bound, Shape, TypeOK, Transactions, RequestShape,
           TransactionShape, Writes, NoTx
  <2> QED BY <2>5, <2>6, <2>8, OthersKeepShape DEF Shape
<1>10. ASSUME ForeignKeyFails(c) PROVE Shape'
  BY <1>10, FinishShape, ClientsAssumption
     DEF ForeignKeyFails, Shape, TypeOK, dbVars, cacheVars, Trees
<1>11. ASSUME NEW p \in Paths, NEW e \in Conditions, DeleteLookup(c, p, e) PROVE Shape'
  <2>1. TypeOK'
    BY <1>11, HashAssumption
       DEF DeleteLookup, Begin, Go, Labels, Ops, Requests, Expectations, dbVars, cacheVars, Shape, TypeOK
  <2>2. OthersStay(c)
    BY <1>11 DEF DeleteLookup, Begin, Go, OthersStay, Shape, TypeOK
  <2>3. RequestShape(c)' /\ TransactionShape(c)'
    BY <1>11
       DEF DeleteLookup, Begin, Go, Shape, TypeOK, RequestShape, TransactionShape, NoTx, Writes
  <2> QED BY <2>1, <2>2, <2>3, OthersKeepShape DEF Shape
<1>12. ASSUME NEW p \in Paths, ReadBegin(c, p) PROVE Shape'
  <2>1. TypeOK'
    BY <1>12, HashAssumption
       DEF ReadBegin, Begin, Go, Labels, Ops, Requests, Expectations, dbVars, cacheVars, Shape, TypeOK
  <2>2. OthersStay(c)
    BY <1>12 DEF ReadBegin, Begin, Go, OthersStay, Shape, TypeOK
  <2>3. RequestShape(c)' /\ TransactionShape(c)'
    BY <1>12
       DEF ReadBegin, Begin, Go, Shape, TypeOK, RequestShape, TransactionShape, NoTx, Writes
  <2> QED BY <2>1, <2>2, <2>3, OthersKeepShape DEF Shape
<1>13. ASSUME TreeCached(c) PROVE Shape'
  <2> DEFINE T == cache
  <2>1. T \in Trees /\ req[c].path \in Paths /\ pc[c] \in {"tree", "store"}
    BY <1>13 DEF TreeCached, Shape, TypeOK, RequestShape, TransactionShape
  <2>2. CASE Finish(c)
    BY <1>13, <2>1, <2>2, FinishShape DEF TreeCached, dbVars, cacheVars, Shape, TypeOK
  <2>3. CASE ~Finish(c)
    <3>1. /\ req[c].op = "delete" /\ Go(c, "delete") /\ UNCHANGED req
          /\ \E R \in SUBSET Paths : tx' = [tx EXCEPT ![c] = [NoTx EXCEPT !.rows = R]]
      BY <1>13, <2>1, <2>3, PathsAssumption DEF TreeCached, UseTree
    <3>2. tx' \in [Clients -> Transactions]
      BY <3>1 DEF Shape, TypeOK, Transactions, NoTx
    <3>3. TypeOK'
      BY <1>13, <2>1, <3>1, <3>2 DEF TreeCached, Go, Labels, dbVars, cacheVars, Shape, TypeOK
    <3>4. OthersStay(c)
      BY <3>1 DEF OthersStay, Go, Shape, TypeOK
    <3>5. RequestShape(c)' /\ TransactionShape(c)'
      BY <2>1, <3>1 DEF Go, Shape, TypeOK, RequestShape, TransactionShape, NoTx, Writes
    <3> QED BY <3>3, <3>4, <3>5, OthersKeepShape DEF Shape
  <2> QED BY <2>2, <2>3
<1>14. ASSUME TreeQuery(c) PROVE Shape'
  <2>1. [tx[c] EXCEPT !.tree = size] \in Transactions
    BY DEF Shape, TypeOK, Transactions
  <2>2. TypeOK'
    BY <1>14, <2>1 DEF TreeQuery, Go, Labels, dbVars, Shape, TypeOK
  <2>3. OthersStay(c)
    BY <1>14 DEF TreeQuery, Go, OthersStay, Shape, TypeOK
  <2>4. RequestShape(c)' /\ TransactionShape(c)'
    <3>1. /\ pc[c] = "tree" /\ pc'[c] = "store" /\ req'[c] = req[c]
          /\ tx'[c] = [NoTx EXCEPT !.tree = size] /\ size \in Trees
      BY <1>14 DEF TreeQuery, Go, Shape, TypeOK, TransactionShape
    <3> QED BY <3>1 DEF Shape, RequestShape, TransactionShape, NoTx, Writes
  <2> QED BY <2>2, <2>3, <2>4, OthersKeepShape DEF Shape
<1>15. ASSUME TreeStore(c) PROVE Shape'
  <2> DEFINE T == tx[c].tree
  <2>1. T \in Trees /\ req[c].path \in Paths /\ pc[c] \in {"tree", "store"}
    BY <1>15 DEF TreeStore, Shape, TypeOK, RequestShape, TransactionShape
  <2>2. CASE Finish(c)
    BY <1>15, <2>1, <2>2, FinishShape DEF TreeStore, dbVars, cacheVars, Shape, TypeOK
  <2>3. CASE ~Finish(c)
    <3>1. /\ req[c].op = "delete" /\ Go(c, "delete") /\ UNCHANGED req
          /\ \E R \in SUBSET Paths : tx' = [tx EXCEPT ![c] = [NoTx EXCEPT !.rows = R]]
      BY <1>15, <2>1, <2>3, PathsAssumption DEF TreeStore, UseTree
    <3>2. tx' \in [Clients -> Transactions]
      BY <3>1 DEF Shape, TypeOK, Transactions, NoTx
    <3>3. TypeOK'
      BY <1>15, <2>1, <3>1, <3>2 DEF TreeStore, Go, Labels, dbVars, cacheVars, Shape, TypeOK
    <3>4. OthersStay(c)
      BY <3>1 DEF OthersStay, Go, Shape, TypeOK
    <3>5. RequestShape(c)' /\ TransactionShape(c)'
      BY <2>1, <3>1 DEF Go, Shape, TypeOK, RequestShape, TransactionShape, NoTx, Writes
    <3> QED BY <3>3, <3>4, <3>5, OthersKeepShape DEF Shape
  <2> QED BY <2>2, <2>3
<1>16. ASSUME DeleteSelect(c) PROVE Shape'
  <2> DEFINE r == [tx[c] EXCEPT !.rows = {q \in tx[c].rows : Bound(q)}]
  <2>1. req[c].path \in Paths /\ tx[c] \in Transactions /\ bind[req[c].path] \in DocIds \cup {None}
    BY <1>16 DEF DeleteSelect, Shape, TypeOK, RequestShape
  <2>2. r \in Transactions
    BY <1>16, <2>1 DEF Transactions, NoTx
  <2>3. tx' = [tx EXCEPT ![c] = r]
    BY <1>16 DEF DeleteSelect
  <2>4. tx' \in [Clients -> Transactions]
    BY <2>2, <2>3 DEF Shape, TypeOK
  <2>5. TypeOK'
    BY <1>16, <2>4, HashAssumption
       DEF DeleteSelect, Go, Labels, Requests, Ops, dbVars, cacheVars, Shape, TypeOK
  <2>6. OthersStay(c)
    BY <1>16, <2>3 DEF DeleteSelect, OthersStay, Go, Shape, TypeOK
  <2>7. tx'[c] = r
    BY <2>3 DEF Shape, TypeOK
  <2>8. RequestShape(c)' /\ TransactionShape(c)'
    BY <1>16, <2>1, <2>7, DocsAssumption, ContentsAssumption
       DEF DeleteSelect, Go, Bound, Shape, TypeOK, Transactions, RequestShape,
           TransactionShape, Writes, NoTx
  <2> QED BY <2>5, <2>6, <2>8, OthersKeepShape DEF Shape
<1>17. ASSUME DeleteLock(c) PROVE Shape'
  <2>1. PICK p \in tx[c].rows : tx' = [tx EXCEPT ![c].held = @ \cup {p}]
    BY <1>17 DEF DeleteLock
  <2>2. tx[c] \in Transactions /\ p \in Paths
    BY <2>1 DEF Shape, TypeOK, Transactions
  <2>3. tx' \in [Clients -> Transactions]
    BY <2>1, <2>2 DEF Shape, TypeOK, Transactions
  <2>4. TypeOK'
    BY <1>17, <2>3 DEF DeleteLock, dbVars, cacheVars, Shape, TypeOK
  <2>5. OthersStay(c)
    BY <1>17, <2>1 DEF DeleteLock, OthersStay, Shape, TypeOK
  <2>6. RequestShape(c)' /\ TransactionShape(c)'
    BY <1>17, <2>1, <2>2
       DEF DeleteLock, Shape, TypeOK, Transactions, RequestShape, TransactionShape, Writes
  <2> QED BY <2>4, <2>5, <2>6, OthersKeepShape DEF Shape
<1>24. ASSUME DeleteLocked(c) PROVE Shape'
  <2>1. TypeOK'
    BY <1>24 DEF DeleteLocked, Go, Labels, dbVars, cacheVars, Shape, TypeOK
  <2>2. OthersStay(c)
    BY <1>24 DEF DeleteLocked, Go, OthersStay, Shape, TypeOK
  <2>3. RequestShape(c)' /\ TransactionShape(c)'
    BY <1>24 DEF DeleteLocked, Go, Shape, TypeOK, RequestShape, TransactionShape, Writes
  <2> QED BY <2>1, <2>2, <2>3, OthersKeepShape DEF Shape
<1>18. ASSUME DeleteNothing(c) PROVE Shape'
  BY <1>18, FinishShape, ClientsAssumption
     DEF DeleteNothing, Shape, TypeOK, dbVars, cacheVars, Trees
<1>19. ASSUME Commit(c) PROVE Shape'
  <2> DEFINE t == tx[c]
  <2>1. t \in Transactions /\ (req[c].op # "delete" => t.doc \in DocIds /\ t.val \in Contents)
    BY <1>19 DEF Shape, TypeOK, TransactionShape, RequestShape, Writes, Commit
  <2>2. docs' \in [DocIds -> Contents \cup {None}] /\ bind' \in [Paths -> DocIds \cup {None}]
    BY <1>19, <2>1 DEF Commit, Install, Shape, TypeOK, Transactions
  <2>3. size' \in Trees
    BY <1>19, <2>1, ContentsAssumption
       DEF Commit, Install, Shape, TypeOK, Transactions, Trees, NoSize
  <2>4. tx' \in [Clients -> Transactions]
    BY <1>19, <2>1 DEF Commit, Committed, Shape, TypeOK, Transactions, NoTx
  <2>5. pc' \in [Clients -> Labels] /\ req' \in [Clients -> Requests]
    BY <1>19 DEF Commit, Shape, TypeOK, Go, Labels, Requests, NoReq, Expectations
  <2>6. TypeOK'
    BY <1>19, <2>1, <2>2, <2>3, <2>4, <2>5
       DEF Commit, Install, cacheVars, Shape, TypeOK, Transactions
  <2>7. RequestShape(c)' /\ TransactionShape(c)'
    BY <1>19, DocsAssumption, ContentsAssumption
       DEF Commit, Committed, Go, Shape, TypeOK, RequestShape, TransactionShape, Writes, NoTx,
           NoReq
  <2>8. ASSUME NEW o \in Clients \ {c} PROVE RequestShape(o)' /\ TransactionShape(o)'
    <3>1. pc'[o] = pc[o] /\ req'[o] = req[o]
      BY <1>19 DEF Commit, Go, Shape, TypeOK
    <3>2. tx'[o] = tx[o] \/ (pc[o] = "deleteWait" /\ tx'[o] = [tx[o] EXCEPT !.rows = @ \ tx[c].rows])
      <4>1. CASE req[c].op = "delete" /\ pc[o] = "deleteWait"
        BY <1>19, <4>1 DEF Commit, Committed
      <4>2. CASE ~(req[c].op = "delete" /\ pc[o] = "deleteWait")
        BY <1>19, <4>2 DEF Commit, Committed
      <4> QED BY <4>1, <4>2
    <3>3. CASE tx'[o] = tx[o]
      BY <3>1, <3>3 DEF Shape, RequestShape, TransactionShape, Writes
    <3>4. CASE pc[o] = "deleteWait" /\ tx'[o] = [tx[o] EXCEPT !.rows = @ \ tx[c].rows]
      BY <3>1, <3>4 DEF Shape, TypeOK, RequestShape, TransactionShape, Transactions, Writes
    <3> QED BY <3>2, <3>3, <3>4
  <2> QED BY <2>6, <2>7, <2>8 DEF Shape
<1>20. ASSUME CommitUnconfirmed(c) PROVE Shape'
  <2> DEFINE t == tx[c]
  <2>1. t \in Transactions /\ (req[c].op # "delete" => t.doc \in DocIds /\ t.val \in Contents)
    BY <1>20 DEF Shape, TypeOK, TransactionShape, RequestShape, Writes, CommitUnconfirmed
  <2>2. docs' \in [DocIds -> Contents \cup {None}] /\ bind' \in [Paths -> DocIds \cup {None}]
    BY <1>20, <2>1 DEF CommitUnconfirmed, Install, Shape, TypeOK, Transactions
  <2>3. size' \in Trees
    BY <1>20, <2>1, ContentsAssumption
       DEF CommitUnconfirmed, Install, Shape, TypeOK, Transactions, Trees, NoSize
  <2>4. tx' \in [Clients -> Transactions]
    BY <1>20, <2>1 DEF CommitUnconfirmed, Committed, Shape, TypeOK, Transactions, NoTx
  <2>5. pc' \in [Clients -> Labels] /\ req' \in [Clients -> Requests]
    BY <1>20 DEF CommitUnconfirmed, Shape, TypeOK, Go, Labels, Requests, NoReq, Expectations
  <2>6. TypeOK'
    BY <1>20, <2>1, <2>2, <2>3, <2>4, <2>5
       DEF CommitUnconfirmed, Install, cacheVars, Shape, TypeOK, Transactions
  <2>7. RequestShape(c)' /\ TransactionShape(c)'
    BY <1>20, DocsAssumption, ContentsAssumption
       DEF CommitUnconfirmed, Committed, Go, Shape, TypeOK, RequestShape, TransactionShape,
           Writes, NoTx, NoReq
  <2>8. ASSUME NEW o \in Clients \ {c} PROVE RequestShape(o)' /\ TransactionShape(o)'
    <3>1. pc'[o] = pc[o] /\ req'[o] = req[o]
      BY <1>20 DEF CommitUnconfirmed, Go, Shape, TypeOK
    <3>2. tx'[o] = tx[o] \/ (pc[o] = "deleteWait" /\ tx'[o] = [tx[o] EXCEPT !.rows = @ \ tx[c].rows])
      <4>1. CASE req[c].op = "delete" /\ pc[o] = "deleteWait"
        BY <1>20, <4>1 DEF CommitUnconfirmed, Committed
      <4>2. CASE ~(req[c].op = "delete" /\ pc[o] = "deleteWait")
        BY <1>20, <4>2 DEF CommitUnconfirmed, Committed
      <4> QED BY <4>1, <4>2
    <3>3. CASE tx'[o] = tx[o]
      BY <3>1, <3>3 DEF Shape, RequestShape, TransactionShape, Writes
    <3>4. CASE pc[o] = "deleteWait" /\ tx'[o] = [tx[o] EXCEPT !.rows = @ \ tx[c].rows]
      BY <3>1, <3>4 DEF Shape, TypeOK, RequestShape, TransactionShape, Transactions, Writes
    <3> QED BY <3>2, <3>3, <3>4
  <2> QED BY <2>6, <2>7, <2>8 DEF Shape
<1>21. ASSUME Invalidate(c) PROVE Shape'
  BY <1>21, FinishShape, ClientsAssumption
     DEF Invalidate, Shape, TypeOK, dbVars, cacheVars, Trees
<1>22. ASSUME Fail(c) PROVE Shape'
  BY <1>22, FinishShape, ClientsAssumption
     DEF Fail, Abort, Shape, TypeOK, dbVars, cacheVars, Trees
<1>23. ASSUME DeadlockAbort(c) PROVE Shape'
  BY <1>23, FinishShape, ClientsAssumption
     DEF DeadlockAbort, Abort, Shape, TypeOK, dbVars, cacheVars, Trees
<1> QED
  BY <1>1, <1>2, <1>3, <1>4, <1>5, <1>6, <1>7, <1>8, <1>9, <1>10, <1>11, <1>12, <1>13, <1>14,
     <1>15, <1>16, <1>17, <1>18, <1>19, <1>20, <1>21, <1>22, <1>23, <1>24
     DEF Arrive, Proceed

\* The steps that are no request's: restarts, expiries and the collector.
Environment == Restart \/ DropCache \/ GracePasses \/ GCSelect \/ GCDelete

\* A restart empties every request; the other steps leave requests alone.
LEMMA ShapeEnvironment ==
  ASSUME Shape, Environment \/ UNCHANGED vars
  PROVE  Shape'
<1>1. ASSUME Restart PROVE Shape'
  <2>1. TypeOK'
    BY <1>1
       DEF Restart, Shape, TypeOK, dbVars, NoReq, NoTx, Requests, Transactions, Labels,
           Expectations
  <2>2. ASSUME NEW c \in Clients PROVE RequestShape(c)' /\ TransactionShape(c)'
    BY <1>1, ContentsAssumption DEF Restart, RequestShape, TransactionShape, Writes, NoReq, NoTx
  <2> QED BY <2>1, <2>2 DEF Shape
<1>2. ASSUME UNCHANGED <<pc, req, tx>>, TypeOK' PROVE Shape'
  BY <1>2 DEF Shape, RequestShape, TransactionShape, Writes
<1>3. ASSUME DropCache \/ GracePasses \/ GCSelect \/ UNCHANGED vars
      PROVE  TypeOK' /\ UNCHANGED <<pc, req, tx>>
  BY <1>3 DEF DropCache, GracePasses, GCSelect, vars, dbVars, cacheVars, Shape, TypeOK
<1>4. ASSUME GCDelete PROVE TypeOK' /\ UNCHANGED <<pc, req, tx>>
  BY <1>4 DEF GCDelete, cacheVars, Shape, TypeOK
<1> QED
  BY <1>1, <1>2, <1>3, <1>4 DEF Environment

\* Idle requests have their shape.
LEMMA ShapeInit == Init => Shape
<1> SUFFICES ASSUME Init PROVE Shape
  OBVIOUS
<1>1. TypeOK
  BY DEF Init, TypeOK, NoReq, NoTx, Requests, Transactions, Labels, Expectations, Trees, NoSize
<1>2. ASSUME NEW c \in Clients PROVE RequestShape(c) /\ TransactionShape(c)
  BY ContentsAssumption DEF Init, RequestShape, TransactionShape, Writes, NoReq, NoTx
<1> QED BY <1>1, <1>2 DEF Shape

\* At any moment the state of every request fits the statement it runs.
THEOREM ShapeInvariant == Spec => []Shape
<1>1. Shape /\ [Next]_vars => Shape'
  BY ShapeStep, ShapeEnvironment DEF Next, Environment
<1> QED
  BY ShapeInit, <1>1, PTL DEF Spec

\* The variables stay within their types.
THEOREM TypeCorrect == Spec => []TypeOK
<1>1. Shape => TypeOK
  BY DEF Shape
<1> QED
  BY ShapeInvariant, <1>1, PTL

-----------------------------------------------------------------------------
(* Locks, what they protect, and the tree *)

\* Once an Edit has its lock, its document still has the content it has read.
EditIsolated(c) ==
    req[c].op = "edit" /\ pc[c] \in {"upsert", "foreignKey", "commit"} =>
        /\ tx[c].locked = tx[c].doc
        /\ docs[tx[c].doc] # None
        /\ tx[c].val = req[c].edit[docs[tx[c].doc]]
        /\ req[c].expect \in {NoCondition, HashContent(docs[tx[c].doc])}

\* The document a transaction is about to bind is kept by a lock: of its own
\* row, of the foreign key check, or of the path row that is bound to it.
BindingKept(c) ==
    pc[c] = "commit" /\ Writes(c) =>
        \/ tx[c].doc = tx[c].locked
        \/ tx[c].doc = tx[c].share /\ docs[tx[c].doc] # None
        \/ tx[c].doc = bind[req[c].path]

\* A document a request holds is bound to the request's path or to none, and
\* all requests that hold it are for that path.
Holds(c, d) == d \in {tx[c].doc, tx[c].want, tx[c].locked} \ {None}
AtHome(c) ==
    \A d \in DocIds : Holds(c, d) =>
        /\ \A p \in Paths : bind[p] = d => p = req[c].path
        /\ \A o \in Clients : Holds(o, d) => req[o].path = req[c].path

Isolation ==
    /\ ReferencesHold
    /\ DocumentsNotShared
    /\ \A c \in Clients : EditIsolated(c) /\ BindingKept(c) /\ AtHome(c)

\* The path table with the committed writes that await their invalidation.
Pending(p) == \E c \in Clients : pc[c] = "invalidate" /\ p \in tx[c].rows
UpToDate(tree) == \A p \in Paths \ lost : tree[p] # size[p] => Pending(p)

TreeInv ==
    /\ \A c \in Clients : pc[c] = "store" <=> mu = c
    /\ mu # None => cache = None
    /\ cache # None => UpToDate(cache)
    /\ \A c \in Clients : pc[c] = "store" => UpToDate(tx[c].tree)

-----------------------------------------------------------------------------
(* The steps of a request that commit nothing *)

Works(c) ==
    \/ Arrive(c)
    \/ PutUpdate(c) \/ PutUpdateLock(c) \/ EditLock(c) \/ EditRefused(c)
    \/ Upsert(c) \/ ForeignKeyHolds(c) \/ ForeignKeyFails(c)
    \/ TreeCached(c) \/ TreeQuery(c) \/ TreeStore(c)
    \/ DeleteSelect(c) \/ DeleteLock(c) \/ DeleteLocked(c) \/ DeleteNothing(c)
    \/ Invalidate(c) \/ Fail(c) \/ DeadlockAbort(c)

Tables == <<docs, fresh, bind, size, orphans>>

\* An answered request is idle and holds nothing.
LEMMA FinishFrame ==
  ASSUME NEW c \in Clients, Shape, Finish(c)
  PROVE  OthersStay(c) /\ pc'[c] = "idle" /\ req'[c] = NoReq /\ tx'[c] = NoTx
BY DEF OthersStay, Finish, Go, Shape, TypeOK

\* A tree is at hand: the request is answered or goes on to delete.
LEMMA TreeFrame ==
  ASSUME NEW c \in Clients, Shape, NEW tree, UseTree(c, tree)
  PROVE  /\ OthersStay(c) /\ pc'[c] \in {"idle", "delete"}
         /\ req'[c] \in {req[c], NoReq}
         /\ \E R : tx'[c] = [NoTx EXCEPT !.rows = R]
<1>1. CASE Finish(c)
  <2>1. tx'[c] = [NoTx EXCEPT !.rows = {}]
    BY <1>1, FinishFrame DEF NoTx
  <2> QED BY <1>1, <2>1, FinishFrame
<1>2. CASE Go(c, "delete") /\ UNCHANGED req /\ \E R : tx' = [tx EXCEPT ![c] = [NoTx EXCEPT !.rows = R]]
  BY <1>2 DEF OthersStay, Go, Shape, TypeOK
<1> QED BY <1>1, <1>2 DEF UseTree

\* A step that commits nothing changes neither the tables nor other requests.
LEMMA WorksFrame ==
  ASSUME NEW c \in Clients, Shape, Works(c)
  PROVE  OthersStay(c) /\ UNCHANGED Tables
<1>1. UNCHANGED Tables
  BY DEF Works, Arrive, PutLookupFound, PutLookupMissing, EditSelect, DeleteLookup, ReadBegin,
         PutUpdate, PutUpdateLock, EditLock, EditRefused, Upsert, ForeignKeyHolds, ForeignKeyFails,
         TreeCached, TreeQuery, TreeStore, DeleteSelect, DeleteLock, DeleteLocked, DeleteNothing,
         Invalidate, Fail, DeadlockAbort, Abort, Tables, dbVars
<1>2. ASSUME Arrive(c) PROVE OthersStay(c)
  BY <1>2
     DEF Arrive, PutLookupFound, PutLookupMissing, EditSelect, DeleteLookup, ReadBegin, Begin,
         Go,
              OthersStay, Shape, TypeOK
<1>3. ASSUME PutUpdate(c) \/ PutUpdateLock(c) \/ EditLock(c) \/ Upsert(c) \/ ForeignKeyHolds(c)
      PROVE  OthersStay(c)
  BY <1>3
     DEF PutUpdate, PutUpdateLock, EditLock, Upsert, ForeignKeyHolds, Go, OthersStay, Shape,
         TypeOK
<1>4. ASSUME TreeQuery(c) \/ DeleteSelect(c) \/ DeleteLock(c) \/ DeleteLocked(c) PROVE OthersStay(c)
  BY <1>4 DEF TreeQuery, DeleteSelect, DeleteLock, DeleteLocked, Go, OthersStay, Shape, TypeOK
<1>5. ASSUME TreeCached(c) \/ TreeStore(c) PROVE OthersStay(c)
  BY <1>5, TreeFrame DEF TreeCached, TreeStore
<1>6. ASSUME Finish(c) PROVE OthersStay(c)
  BY <1>6, FinishFrame
<1> QED
  BY <1>1, <1>2, <1>3, <1>4, <1>5, <1>6
     DEF Works, EditRefused, ForeignKeyFails, DeleteNothing, Invalidate, Fail, DeadlockAbort, Abort

-----------------------------------------------------------------------------
(* Row locks *)

\* A request takes a document row nobody else has, and a path row nobody holds.
TakesFreeRows(c) ==
    /\ tx'[c].locked \in {None, tx[c].locked} \/ Unlocked(c, tx'[c].locked)
    /\ \A p \in tx'[c].held : HoldsPath(c, p) \/ PathFree(c, p)

\* Locks stay exclusive when a request takes only free rows.
LEMMA TakingKeepsRows ==
  ASSUME NEW c \in Clients, RowsLockedOnce, OthersStay(c), TakesFreeRows(c)
  PROVE  RowsLockedOnce'
<1>1. ASSUME NEW o \in Clients \ {c} PROVE tx'[c].locked # None => tx'[c].locked # tx'[o].locked
  BY <1>1 DEF RowsLockedOnce, OthersStay, TakesFreeRows, Unlocked
<1>2. ASSUME NEW o \in Clients \ {c}, NEW p \in Paths
      PROVE  ~(HoldsPath(c, p)' /\ HoldsPath(o, p)')
  BY <1>2 DEF RowsLockedOnce, OthersStay, TakesFreeRows, HoldsPath, PathFree
<1>3. ASSUME NEW o \in Clients \ {c}, NEW q \in Clients \ {c}, o # q
      PROVE  /\ tx'[q].locked # None => tx'[q].locked # tx'[o].locked
             /\ \A p \in Paths : ~(HoldsPath(q, p)' /\ HoldsPath(o, p)')
  BY <1>3 DEF RowsLockedOnce, OthersStay, HoldsPath
<1> QED
  BY <1>1, <1>2, <1>3 DEF RowsLockedOnce

\* Every statement that locks a row has waited for it.
LEMMA WorksTakesFreeRows ==
  ASSUME NEW c \in Clients, Shape, Works(c)
  PROVE  TakesFreeRows(c)
<1>1. ASSUME Finish(c) PROVE TakesFreeRows(c)
  BY <1>1, FinishFrame DEF TakesFreeRows, NoTx
<1>2. ASSUME Arrive(c) PROVE TakesFreeRows(c)
  <2>1. tx'[c].held = {}
    <3>1. pc[c] = "idle"
      BY <1>2
         DEF Arrive, PutLookupFound, PutLookupMissing, EditSelect, DeleteLookup, ReadBegin, Begin
    <3>2. tx[c].held = {}
      BY <3>1 DEF Shape, TransactionShape, NoTx
    <3>3. ASSUME NEW p \in Paths, NEW e \in Conditions, NEW x \in Contents,
                 PutLookupFound(c, p, e, x) \/ PutLookupMissing(c, p, e, x)
          PROVE  tx'[c].held = {}
      BY <3>3 DEF PutLookupFound, PutLookupMissing, NoTx, Shape, TypeOK
    <3>4. ASSUME NEW p \in Paths, NEW e \in Conditions, NEW f \in Edits, EditSelect(c, p, e, f)
          PROVE  tx'[c].held = {}
      BY <3>4 DEF EditSelect, NoTx, Shape, TypeOK
    <3>5. ASSUME NEW p \in Paths, NEW e \in Conditions, DeleteLookup(c, p, e) \/ ReadBegin(c, p)
          PROVE  tx'[c].held = {}
      BY <3>2, <3>5 DEF DeleteLookup, ReadBegin
    <3> QED BY <1>2, <3>3, <3>4, <3>5 DEF Arrive
  <2>2. ASSUME NEW p \in Paths, NEW e \in Conditions, NEW x \in Contents, PutLookupMissing(c, p, e, x)
        PROVE  Unlocked(c, tx'[c].locked)
    BY <2>2 DEF PutLookupMissing, Unused, Unlocked, NoTx, Shape, TypeOK
  <2>3. ASSUME NEW p \in Paths, NEW e \in Conditions, NEW x \in Contents, PutLookupFound(c, p, e, x)
        PROVE  tx'[c].locked = None
    BY <2>3 DEF PutLookupFound, NoTx, Shape, TypeOK
  <2>4. ASSUME NEW p \in Paths, NEW e \in Conditions, NEW f \in Edits, EditSelect(c, p, e, f)
        PROVE  tx'[c].locked = None
    BY <2>4 DEF EditSelect, NoTx, Shape, TypeOK
  <2>5. ASSUME NEW p \in Paths, NEW e \in Conditions, DeleteLookup(c, p, e) \/ ReadBegin(c, p)
        PROVE  tx' = tx
    BY <2>5 DEF DeleteLookup, ReadBegin
  <2> QED
    BY <1>2, <2>1, <2>2, <2>3, <2>4, <2>5 DEF Arrive, TakesFreeRows
<1>3. ASSUME PutUpdate(c) \/ TreeQuery(c) \/ DeleteSelect(c) PROVE TakesFreeRows(c)
  BY <1>3 DEF PutUpdate, TreeQuery, DeleteSelect, TakesFreeRows, HoldsPath, Shape, TypeOK, Transactions
<1>4. ASSUME PutUpdateLock(c) PROVE TakesFreeRows(c)
  BY <1>4 DEF PutUpdateLock, TakesFreeRows, HoldsPath, Shape, TypeOK, Transactions
<1>5. ASSUME EditLock(c) PROVE TakesFreeRows(c)
  BY <1>5 DEF EditLock, EditLockable, TakesFreeRows, HoldsPath, Shape, TypeOK, Transactions
<1>6. ASSUME Upsert(c) PROVE TakesFreeRows(c)
  BY <1>6 DEF Upsert, Go, TakesFreeRows, Shape, TypeOK, Transactions
<1>7. ASSUME ForeignKeyHolds(c) PROVE TakesFreeRows(c)
  BY <1>7 DEF ForeignKeyHolds, Go, TakesFreeRows, HoldsPath, Shape, TypeOK, Transactions
<1>8. ASSUME DeleteLock(c) \/ DeleteLocked(c) PROVE TakesFreeRows(c)
  BY <1>8 DEF DeleteLock, DeleteLocked, Go, TakesFreeRows, HoldsPath, Shape, TypeOK, Transactions
<1>9. ASSUME TreeCached(c) \/ TreeStore(c) PROVE TakesFreeRows(c)
  BY <1>9, TreeFrame DEF TreeCached, TreeStore, TakesFreeRows, NoTx
<1> QED
  BY <1>1, <1>2, <1>3, <1>4, <1>5, <1>6, <1>7, <1>8, <1>9
     DEF Works, EditRefused, ForeignKeyFails, DeleteNothing, Invalidate, Fail, DeadlockAbort, Abort

\* A commit leaves every lock but its own as it was.
LEMMA CommitFrame ==
  ASSUME NEW c \in Clients, Shape, Commit(c) \/ CommitUnconfirmed(c)
  PROVE  /\ pc[c] = "commit" /\ Install(c) /\ UNCHANGED orphans
         /\ pc'[c] \in {"invalidate", "idle"}
         /\ tx'[c].doc = None /\ tx'[c].want = None /\ tx'[c].locked = None /\ tx'[c].share = None
         /\ tx'[c].held = {}
         /\ \A o \in Clients \ {c} :
                /\ pc'[o] = pc[o] /\ req'[o] = req[o]
                /\ tx'[o].doc = tx[o].doc /\ tx'[o].want = tx[o].want /\ tx'[o].locked = tx[o].locked
                /\ tx'[o].share = tx[o].share /\ tx'[o].val = tx[o].val /\ tx'[o].tree = tx[o].tree
                /\ tx'[o].held = tx[o].held
                /\ pc[o] # "deleteWait" => tx'[o].rows = tx[o].rows
<1>1. /\ pc[c] = "commit" /\ Install(c) /\ UNCHANGED orphans
      /\ pc'[c] \in {"invalidate", "idle"}
  BY DEF Commit, CommitUnconfirmed, Go, Shape, TypeOK
<1>2. /\ tx'[c].doc = None /\ tx'[c].want = None /\ tx'[c].locked = None /\ tx'[c].share = None
      /\ tx'[c].held = {}
  BY DEF Commit, CommitUnconfirmed, Committed, NoTx
<1>3. ASSUME NEW o \in Clients \ {c} PROVE pc'[o] = pc[o] /\ req'[o] = req[o]
  BY <1>3 DEF Commit, CommitUnconfirmed, Go, Shape, TypeOK
<1>4. ASSUME NEW o \in Clients \ {c} PROVE
        \/ tx'[o] = tx[o]
        \/ pc[o] = "deleteWait" /\ tx'[o] = [tx[o] EXCEPT !.rows = @ \ tx[c].rows]
  BY <1>4 DEF Commit, CommitUnconfirmed, Committed
<1>5. ASSUME NEW o \in Clients \ {c} PROVE
                /\ tx'[o].doc = tx[o].doc /\ tx'[o].want = tx[o].want /\ tx'[o].locked = tx[o].locked
                /\ tx'[o].share = tx[o].share /\ tx'[o].val = tx[o].val /\ tx'[o].tree = tx[o].tree
                /\ tx'[o].held = tx[o].held
                /\ pc[o] # "deleteWait" => tx'[o].rows = tx[o].rows
  <2>1. tx[o] \in Transactions
    BY DEF Shape, TypeOK
  <2> QED BY <1>4, <2>1 DEF Transactions
<1> QED BY <1>1, <1>2, <1>3, <1>5

\* Row locks stay exclusive in every step.
LEMMA LocksStep ==
  ASSUME Shape, RowsLockedOnce, [Next]_vars
  PROVE  RowsLockedOnce'
<1>1. ASSUME NEW c \in Clients, Works(c) PROVE RowsLockedOnce'
  BY <1>1, WorksFrame, WorksTakesFreeRows, TakingKeepsRows
<1>2. ASSUME NEW c \in Clients, Commit(c) \/ CommitUnconfirmed(c) PROVE RowsLockedOnce'
  <2>1. ASSUME NEW o \in Clients, NEW p \in Paths, HoldsPath(o, p)'
        PROVE  o # c /\ HoldsPath(o, p)
    BY <1>2, <2>1, CommitFrame DEF HoldsPath
  <2>2. ASSUME NEW o \in Clients PROVE tx'[o].locked \in {None, tx[o].locked}
    BY <1>2, <2>2, CommitFrame
  <2> QED BY <2>1, <2>2 DEF RowsLockedOnce
<1>3. ASSUME Restart PROVE RowsLockedOnce'
  BY <1>3 DEF Restart, RowsLockedOnce, HoldsPath, NoTx
<1>4. ASSUME UNCHANGED <<pc, req, tx>> PROVE RowsLockedOnce'
  BY <1>4 DEF RowsLockedOnce, HoldsPath
<1>5. ASSUME DropCache \/ GracePasses \/ GCSelect \/ GCDelete \/ UNCHANGED vars
      PROVE  UNCHANGED <<pc, req, tx>>
  BY <1>5 DEF DropCache, GracePasses, GCSelect, GCDelete, vars
<1> QED
  BY <1>1, <1>2, <1>3, <1>4, <1>5 DEF Next, Works, Proceed

\* Nothing is locked at first.
LEMMA LocksInit == Init => RowsLockedOnce
BY DEF Init, RowsLockedOnce, HoldsPath, NoTx

\* No two transactions ever write one document row or one path row: the lock
\* every statement waits for, whatever it selected before it had to wait.
THEOREM LocksExclude == Spec => []RowsLockedOnce
<1>1. Shape /\ Shape' /\ RowsLockedOnce /\ [Next]_vars => RowsLockedOnce'
  BY LocksStep
<1> QED
  BY ShapeInvariant, LocksInit, <1>1, PTL DEF Spec

-----------------------------------------------------------------------------
(* What a transaction may rely on *)

\* A request takes up a document its path is bound to, or one that nobody has.
TakesOwnDocument(c) ==
    \A d \in DocIds : (Holds(c, d))' =>
        \/ Holds(c, d) /\ req'[c].path = req[c].path
        \/ d = bind[req'[c].path] /\ req'[c].path \in Paths
        \/ Unused(d)

\* While the tables stay, a request that takes up a document of its own path
\* leaves what the others rely on.
LEMMA TakingKeepsIsolation ==
  ASSUME NEW c \in Clients, Shape, Isolation, OthersStay(c), UNCHANGED <<docs, bind>>,
         EditIsolated(c)', BindingKept(c)', TakesOwnDocument(c)
  PROVE  Isolation'
<1>1. ReferencesHold' /\ DocumentsNotShared'
  BY DEF Isolation, ReferencesHold, DocumentsNotShared, Bound
<1>2. ASSUME NEW o \in Clients PROVE EditIsolated(o)' /\ BindingKept(o)'
  <2>1. CASE o # c
    BY <2>1 DEF Isolation, OthersStay, EditIsolated, BindingKept, Writes
  <2> QED BY <2>1
<1>3. ASSUME NEW d \in DocIds, Holds(c, d)'
      PROVE  /\ \A p \in Paths : bind[p] = d => p = req'[c].path
             /\ \A o \in Clients \ {c} : Holds(o, d) => req[o].path = req'[c].path
  <2>1. CASE Holds(c, d) /\ req'[c].path = req[c].path
    BY <2>1 DEF Isolation, AtHome
  <2>2. CASE d = bind[req'[c].path] /\ req'[c].path \in Paths
    BY <2>2, DocsAssumption DEF Isolation, AtHome, DocumentsNotShared, Bound
  <2>3. CASE Unused(d)
    BY <2>3, DocsAssumption DEF Unused, Isolation, ReferencesHold, Bound, Holds
  <2> QED BY <1>3, <2>1, <2>2, <2>3 DEF TakesOwnDocument
<1>4. ASSUME NEW o \in Clients \ {c}, NEW d \in DocIds
      PROVE (Holds(o, d))' <=> Holds(o, d)
  BY <1>4 DEF OthersStay, Holds
<1>5. ASSUME NEW o \in Clients PROVE AtHome(o)'
  <2> SUFFICES ASSUME NEW d \in DocIds, Holds(o, d)'
               PROVE  /\ \A p \in Paths : bind'[p] = d => p = req'[o].path
                      /\ \A q \in Clients : (Holds(q, d))' => req'[q].path = req'[o].path
    BY DEF AtHome
  <2>1. CASE o = c
    BY <2>1, <1>3, <1>4 DEF OthersStay
  <2>2. CASE o # c
    <3>1. Holds(o, d) /\ req'[o] = req[o]
      BY <2>2, <1>4 DEF OthersStay
    <3>2. /\ \A p \in Paths : bind[p] = d => p = req[o].path
          /\ \A q \in Clients : Holds(q, d) => req[q].path = req[o].path
      BY <3>1 DEF Isolation, AtHome
    <3>3. ASSUME NEW q \in Clients \ {c}, Holds(q, d)' PROVE req'[q].path = req'[o].path
      BY <3>1, <3>2, <3>3, <1>4 DEF OthersStay
    <3>4. Holds(c, d)' => req'[c].path = req'[o].path
      BY <3>1, <1>3, <2>2
    <3> QED BY <3>1, <3>2, <3>3, <3>4
  <2> QED BY <2>1, <2>2
<1> QED
  BY <1>1, <1>2, <1>5 DEF Isolation

\* Every step that commits nothing keeps what transactions rely on.
LEMMA WorksKeepsIsolation ==
  ASSUME NEW c \in Clients, Shape, Isolation, Works(c)
  PROVE  Isolation'
<1> DEFINE Good == EditIsolated(c)' /\ BindingKept(c)' /\ TakesOwnDocument(c)
<1>0. SUFFICES Good
  BY WorksFrame, TakingKeepsIsolation DEF Tables
<1>1. ASSUME Finish(c) PROVE Good
  BY <1>1, FinishFrame DEF EditIsolated, BindingKept, TakesOwnDocument, Holds, NoTx
<1>2. ASSUME pc'[c] \notin {"upsert", "foreignKey", "commit"}
      PROVE  EditIsolated(c)' /\ BindingKept(c)'
  BY <1>2 DEF EditIsolated, BindingKept
<1>3. ASSUME NEW p \in Paths, NEW e \in Conditions, NEW x \in Contents, PutLookupFound(c, p, e, x)
      PROVE  Good
  <2>1. /\ pc'[c] = "update" /\ req'[c].path = p /\ tx'[c].doc = bind[p] /\ tx'[c].want = None
        /\ tx'[c].locked = None
    BY <1>3 DEF PutLookupFound, Begin, Go, NoTx, Shape, TypeOK
  <2> QED BY <1>2, <2>1 DEF TakesOwnDocument, Holds
<1>4. ASSUME NEW p \in Paths, NEW e \in Conditions, NEW x \in Contents, PutLookupMissing(c, p, e, x)
      PROVE  Good
  <2>1. pc'[c] = "upsert" /\ req'[c].op = "put"
    BY <1>4 DEF PutLookupMissing, Begin, Go, Shape, TypeOK
  <2>2. Unused(tx'[c].doc) /\ tx'[c].want = None /\ tx'[c].locked = tx'[c].doc
    BY <1>4 DEF PutLookupMissing, NoTx, Shape, TypeOK
  <2> QED BY <2>1, <2>2 DEF EditIsolated, BindingKept, TakesOwnDocument, Holds
<1>5. ASSUME PutUpdate(c) PROVE Good
  <2>1. pc'[c] \in {"updateWait", "upsert"} /\ req'[c] = req[c] /\ req[c].op = "put" /\ req[c].path \in Paths
    BY <1>5 DEF PutUpdate, Go, Shape, TypeOK, RequestShape
  <2>2. tx'[c].doc = tx[c].doc /\ tx'[c].want = bind[req[c].path] /\ tx'[c].locked = tx[c].locked
    BY <1>5 DEF PutUpdate, Shape, TypeOK, Transactions
  <2> QED BY <2>1, <2>2 DEF EditIsolated, BindingKept, TakesOwnDocument, Holds
<1>6. ASSUME PutUpdateLock(c) PROVE Good
  <2>1. pc'[c] = "upsert" /\ req'[c] = req[c] /\ req[c].op = "put"
    BY <1>6 DEF PutUpdateLock, Go, Shape, TypeOK, RequestShape
  <2>2. /\ tx'[c].doc = tx[c].doc /\ tx'[c].want = None
        /\ tx'[c].locked \in {None, tx[c].want}
    BY <1>6 DEF PutUpdateLock, Shape, TypeOK, Transactions
  <2> QED BY <2>1, <2>2 DEF EditIsolated, BindingKept, TakesOwnDocument, Holds
<1>7. ASSUME NEW p \in Paths, NEW e \in Conditions, NEW f \in Edits, EditSelect(c, p, e, f)
      PROVE  Good
  <2>1. /\ pc'[c] = "editWait" /\ req'[c].path = p /\ tx'[c].doc = None /\ tx'[c].want = bind[p]
        /\ tx'[c].locked = None
    BY <1>7 DEF EditSelect, Begin, Go, NoTx, Shape, TypeOK
  <2> QED BY <1>2, <2>1 DEF TakesOwnDocument, Holds
<1>8. ASSUME EditLock(c) PROVE Good
  <2>1. pc'[c] = "upsert" /\ req'[c] = req[c] /\ UNCHANGED docs
    BY <1>8 DEF EditLock, Go, dbVars, Shape, TypeOK
  <2>2. /\ tx'[c].doc = tx[c].want /\ tx'[c].locked = tx[c].want /\ tx'[c].want = None
        /\ tx'[c].val = req[c].edit[docs[tx[c].want]]
    BY <1>8 DEF EditLock, Shape, TypeOK, Transactions
  <2>3. EditAllowed(c)
    BY <1>8 DEF EditLock
  <2> QED BY <2>1, <2>2, <2>3
             DEF EditAllowed, EditIsolated, BindingKept, TakesOwnDocument, Holds
<1>9. ASSUME Upsert(c) PROVE Good
  <2>1. /\ pc[c] = "upsert" /\ req'[c] = req[c] /\ UNCHANGED <<docs, bind>>
        /\ pc'[c] \in {"commit", "foreignKey"}
        /\ pc'[c] = "commit" => tx[c].doc \in {bind[req[c].path], tx[c].locked}
    BY <1>9 DEF Upsert, Go, dbVars, Shape, TypeOK
  <2>2. /\ tx'[c].doc = tx[c].doc /\ tx'[c].want = tx[c].want
        /\ tx'[c].locked = tx[c].locked /\ tx'[c].val = tx[c].val
    BY <1>9 DEF Upsert, Shape, TypeOK, Transactions
  <2>3. EditIsolated(c)
    BY DEF Isolation
  <2> QED BY <2>1, <2>2, <2>3 DEF EditIsolated, BindingKept, TakesOwnDocument, Holds
<1>10. ASSUME ForeignKeyHolds(c) PROVE Good
  <2>1. /\ pc[c] = "foreignKey" /\ req'[c] = req[c] /\ UNCHANGED <<docs, bind>>
        /\ docs[tx[c].doc] # None
    BY <1>10 DEF ForeignKeyHolds, dbVars
  <2>2. /\ tx'[c].doc = tx[c].doc /\ tx'[c].want = tx[c].want /\ tx'[c].share = tx[c].doc
        /\ tx'[c].locked = tx[c].locked /\ tx'[c].val = tx[c].val
    BY <1>10 DEF ForeignKeyHolds, Shape, TypeOK, Transactions
  <2>3. EditIsolated(c)
    BY DEF Isolation
  <2> QED BY <2>1, <2>2, <2>3 DEF EditIsolated, BindingKept, TakesOwnDocument, Holds
<1>11. ASSUME NEW p \in Paths, NEW e \in Conditions, DeleteLookup(c, p, e) \/ ReadBegin(c, p)
       PROVE  Good
  <2>1. pc'[c] = "tree" /\ tx'[c] = NoTx
    BY <1>11 DEF DeleteLookup, ReadBegin, Begin, Go, Shape, TypeOK, TransactionShape
  <2> QED BY <1>2, <2>1 DEF TakesOwnDocument, Holds, NoTx
<1>12. ASSUME TreeCached(c) \/ TreeStore(c) PROVE Good
  <2>1. /\ pc'[c] \in {"idle", "delete"} /\ tx'[c].doc = None /\ tx'[c].want = None
        /\ tx'[c].locked = None
    BY <1>12, TreeFrame DEF TreeCached, TreeStore, NoTx
  <2> QED BY <1>2, <2>1 DEF TakesOwnDocument, Holds
<1>13. ASSUME TreeQuery(c) \/ DeleteSelect(c) PROVE Good
  <2>1. pc'[c] \in {"store", "deleteWait"} /\ req'[c] = req[c]
    BY <1>13 DEF TreeQuery, DeleteSelect, Go, Shape, TypeOK
  <2>2. tx'[c].doc = tx[c].doc /\ tx'[c].want = tx[c].want /\ tx'[c].locked = tx[c].locked
    BY <1>13 DEF TreeQuery, DeleteSelect, Shape, TypeOK, Transactions
  <2> QED BY <1>2, <2>1, <2>2 DEF TakesOwnDocument, Holds
<1>14. ASSUME DeleteLock(c) \/ DeleteLocked(c) PROVE Good
  <2>1. /\ pc'[c] \in {"deleteWait", "commit"} /\ req'[c] = req[c] /\ req[c].op = "delete"
        /\ tx'[c].doc = tx[c].doc /\ tx'[c].want = tx[c].want /\ tx'[c].locked = tx[c].locked
    BY <1>14 DEF DeleteLock, DeleteLocked, Go, Shape, TypeOK, Transactions, RequestShape
  <2> QED BY <2>1 DEF EditIsolated, BindingKept, Writes, TakesOwnDocument, Holds
<1> QED
  BY <1>1, <1>3, <1>4, <1>5, <1>6, <1>7, <1>8, <1>9, <1>10, <1>11, <1>12, <1>13, <1>14
     DEF Works, Arrive, EditRefused, ForeignKeyFails, DeleteNothing, Invalidate, Fail, DeadlockAbort, Abort

\* What a commit installs: a document that was there stays, a path it does not
\* write keeps its document, and a path it writes has the request's or none.
LEMMA InstallFrame ==
  ASSUME NEW c \in Clients, Shape, pc[c] = "commit", Install(c)
  PROVE  /\ \A d \in DocIds : docs[d] # None => docs'[d] # None
         /\ \A d \in DocIds : d # tx[c].locked => docs'[d] = docs[d]
         /\ tx[c].locked # None => docs'[tx[c].locked] # None
         /\ \A p \in Paths : p \notin tx[c].rows => bind'[p] = bind[p]
         /\ \A p \in Paths : p \in tx[c].rows => bind'[p] = IF Writes(c) THEN tx[c].doc ELSE None
         /\ Writes(c) => tx[c].rows = {req[c].path} /\ tx[c].doc \in DocIds
<1>1. /\ Writes(c) \/ req[c].op = "delete"
      /\ Writes(c) => tx[c].rows = {req[c].path} /\ tx[c].doc \in DocIds /\ tx[c].val \in Contents
      /\ tx[c].locked # None => Writes(c) /\ tx[c].locked \in DocIds
  BY DEF Shape, TypeOK, Transactions, RequestShape, TransactionShape
<1>2. \A d \in DocIds : docs'[d] = IF d = tx[c].locked THEN tx[c].val ELSE docs[d]
  BY DEF Install
<1>3. \A p \in Paths : bind'[p] = IF p \notin tx[c].rows THEN bind[p]
                                  ELSE IF req[c].op = "delete" THEN None ELSE tx[c].doc
  BY DEF Install
<1> QED
  BY <1>1, <1>2, <1>3, ContentsAssumption, DocsAssumption DEF Writes

\* A commit writes its locked document and its own rows: no other transaction
\* relied on those, since the locks are exclusive.
LEMMA CommitKeepsIsolation ==
  ASSUME NEW c \in Clients, Shape, RowsLockedOnce, Isolation, Commit(c) \/ CommitUnconfirmed(c)
  PROVE  Isolation'
<1>1. pc[c] = "commit" /\ Install(c) /\ pc'[c] \in {"invalidate", "idle"}
  BY CommitFrame
<1>2. /\ \A d \in DocIds : docs[d] # None => docs'[d] # None
      /\ \A d \in DocIds : d # tx[c].locked => docs'[d] = docs[d]
      /\ tx[c].locked # None => docs'[tx[c].locked] # None
      /\ \A p \in Paths : p \notin tx[c].rows => bind'[p] = bind[p]
      /\ \A p \in Paths : p \in tx[c].rows => bind'[p] = IF Writes(c) THEN tx[c].doc ELSE None
      /\ Writes(c) => tx[c].rows = {req[c].path} /\ tx[c].doc \in DocIds
  BY <1>1, InstallFrame
<1>3. req[c].path \in Paths /\ bind \in [Paths -> DocIds \cup {None}] /\ tx \in [Clients -> Transactions]
  BY <1>1 DEF Shape, TypeOK, RequestShape
<1>4. Writes(c) => docs'[tx[c].doc] # None
  <2>1. BindingKept(c)
    BY DEF Isolation
  <2> QED BY <2>1, <1>1, <1>2, <1>3, DocsAssumption
             DEF BindingKept, Isolation, ReferencesHold, Bound
<1>5. ReferencesHold'
  BY <1>2, <1>3, <1>4 DEF Isolation, ReferencesHold, Bound
<1>6. Writes(c) => \A p \in Paths : bind[p] = tx[c].doc => p = req[c].path
  BY <1>2, DocsAssumption DEF Isolation, AtHome, Holds
<1>7. DocumentsNotShared'
  <2> SUFFICES ASSUME NEW p \in Paths, NEW q \in Paths, bind'[p] # None, bind'[p] = bind'[q] PROVE p = q
    BY DEF DocumentsNotShared, Bound
  <2> QED BY <1>2, <1>6 DEF Isolation, DocumentsNotShared, Bound
<1>8. ASSUME NEW o \in Clients PROVE EditIsolated(o)'
  <2>1. CASE o = c
    BY <2>1, <1>1 DEF EditIsolated
  <2>2. CASE o # c
    <3> SUFFICES ASSUME req'[o].op = "edit", pc'[o] \in {"upsert", "foreignKey", "commit"}
                 PROVE  /\ tx'[o].locked = tx'[o].doc
                        /\ docs'[tx'[o].doc] # None
                        /\ tx'[o].val = req'[o].edit[docs'[tx'[o].doc]]
                        /\ req'[o].expect \in {NoCondition, HashContent(docs'[tx'[o].doc])}
      BY DEF EditIsolated, HashContent
    <3>1. /\ pc'[o] = pc[o] /\ req'[o] = req[o] /\ tx'[o].doc = tx[o].doc
          /\ tx'[o].locked = tx[o].locked /\ tx'[o].val = tx[o].val
      BY <2>2, CommitFrame
    <3>2. /\ tx[o].locked = tx[o].doc /\ tx[o].doc # tx[c].locked /\ docs[tx[o].doc] # None
          /\ tx[o].val = req[o].edit[docs[tx[o].doc]]
          /\ req[o].expect \in {NoCondition, HashContent(docs[tx[o].doc])}
          /\ tx[o].doc \in DocIds
      <4>1. tx[o].doc \in DocIds
        BY <3>1 DEF Shape, TransactionShape, Writes
      <4> QED BY <2>2, <3>1, <4>1, DocsAssumption DEF Isolation, EditIsolated, RowsLockedOnce
    <3> QED BY <3>1, <3>2, <1>2
  <2> QED BY <2>1, <2>2
<1>9. ASSUME NEW o \in Clients PROVE BindingKept(o)'
  <2>1. CASE o = c
    BY <2>1, <1>1 DEF BindingKept
  <2>2. CASE o # c
    <3> SUFFICES ASSUME pc'[o] = "commit", Writes(o)'
                 PROVE  \/ tx'[o].doc = tx'[o].locked
                        \/ tx'[o].doc = tx'[o].share /\ docs'[tx'[o].doc] # None
                        \/ tx'[o].doc = bind'[req'[o].path]
      BY DEF BindingKept
    <3>1. /\ pc[o] = "commit" /\ req'[o] = req[o] /\ tx'[o].doc = tx[o].doc
          /\ tx'[o].locked = tx[o].locked /\ tx'[o].share = tx[o].share
      BY <2>2, CommitFrame
    <3>2. Writes(o)
      BY <3>1 DEF Writes
    <3>3. tx[o].doc \in DocIds /\ tx[o].rows = {req[o].path} /\ req[o].path \in Paths
      BY <3>1, <3>2 DEF Shape, RequestShape, TransactionShape
    <3>4. req[o].path \notin tx[c].rows
      BY <2>2, <1>1, <3>1, <3>3 DEF RowsLockedOnce, HoldsPath, Shape, TransactionShape
    <3>5. BindingKept(o)
      BY DEF Isolation
    <3> QED BY <3>1, <3>2, <3>3, <3>4, <3>5, <1>2 DEF BindingKept
  <2> QED BY <2>1, <2>2
<1>10. ASSUME NEW o \in Clients, NEW d \in DocIds, Holds(o, d)'
       PROVE  o # c /\ Holds(o, d) /\ req'[o] = req[o]
  BY <1>10, CommitFrame, DocsAssumption DEF Holds
<1>11. ASSUME NEW o \in Clients PROVE AtHome(o)'
  <2> SUFFICES ASSUME NEW d \in DocIds, Holds(o, d)'
               PROVE  /\ \A p \in Paths : bind'[p] = d => p = req'[o].path
                      /\ \A q \in Clients : (Holds(q, d))' => req'[q].path = req'[o].path
    BY DEF AtHome
  <2>1. /\ \A p \in Paths : bind[p] = d => p = req[o].path
        /\ \A q \in Clients : Holds(q, d) => req[q].path = req[o].path
    BY <1>10 DEF Isolation, AtHome
  <2>2. ASSUME NEW p \in Paths, bind'[p] = d PROVE p = req'[o].path
    <3>1. CASE p \notin tx[c].rows
      BY <3>1, <2>1, <2>2, <1>2, <1>10
    <3>2. CASE p \in tx[c].rows
      <4>1. d = tx[c].doc /\ p = req[c].path
        BY <3>2, <2>2, <1>2, DocsAssumption
      <4>2. Holds(c, d)
        BY <4>1, DocsAssumption DEF Holds
      <4> QED BY <4>1, <4>2, <2>1, <1>10
    <3> QED BY <3>1, <3>2
  <2> QED BY <2>1, <2>2, <1>10
<1> QED
  BY <1>5, <1>7, <1>8, <1>9, <1>11 DEF Isolation

\* The collector removes what nobody is bound to and nobody has locked.
LEMMA CollectKeepsIsolation ==
  ASSUME Shape, Isolation, GCDelete
  PROVE  Isolation'
<1>1. /\ UNCHANGED <<bind, pc, req, tx>>
      /\ \A d \in DocIds : docs'[d] # docs[d] =>
            /\ docs'[d] = None /\ Unreferenced(d)
            /\ \A c \in Clients : d \notin {tx[c].locked, tx[c].share}
  BY DEF GCDelete, Shape, TypeOK
<1>2. ReferencesHold' /\ DocumentsNotShared'
  BY <1>1 DEF Isolation, ReferencesHold, DocumentsNotShared, Bound, Unreferenced, Shape, TypeOK
<1>3. ASSUME NEW c \in Clients PROVE EditIsolated(c)'
  <2> SUFFICES ASSUME req[c].op = "edit", pc[c] \in {"upsert", "foreignKey", "commit"}
               PROVE  docs'[tx[c].doc] = docs[tx[c].doc]
    BY <1>1 DEF Isolation, EditIsolated, HashContent
  <2>1. tx[c].doc \in DocIds
    BY DEF Shape, TransactionShape, Writes
  <2> QED BY <1>1, <2>1 DEF Isolation, EditIsolated
<1>4. ASSUME NEW c \in Clients PROVE BindingKept(c)'
  <2> SUFFICES ASSUME pc[c] = "commit", Writes(c)
               PROVE  \/ tx[c].doc = tx[c].locked
                      \/ tx[c].doc = tx[c].share /\ docs'[tx[c].doc] # None
                      \/ tx[c].doc = bind[req[c].path]
    BY <1>1 DEF BindingKept, Writes
  <2>1. tx[c].doc \in DocIds
    BY DEF Shape, TransactionShape
  <2> QED BY <1>1, <2>1 DEF Isolation, BindingKept
<1>5. ASSUME NEW c \in Clients PROVE AtHome(c)'
  BY <1>1 DEF Isolation, AtHome, Holds
<1> QED
  BY <1>2, <1>3, <1>4, <1>5 DEF Isolation

\* What transactions rely on is kept by every step.
LEMMA IsolationStep ==
  ASSUME Shape, RowsLockedOnce, Isolation, [Next]_vars
  PROVE  Isolation'
<1>1. ASSUME NEW c \in Clients, Works(c) PROVE Isolation'
  BY <1>1, WorksKeepsIsolation
<1>2. ASSUME NEW c \in Clients, Commit(c) \/ CommitUnconfirmed(c) PROVE Isolation'
  BY <1>2, CommitKeepsIsolation
<1>3. ASSUME Restart PROVE Isolation'
  <2>1. UNCHANGED <<docs, bind>> /\ \A c \in Clients : pc'[c] = "idle" /\ tx'[c] = NoTx
    BY <1>3 DEF Restart, dbVars
  <2>2. \A c \in Clients : EditIsolated(c)' /\ BindingKept(c)' /\ AtHome(c)'
    BY <2>1 DEF EditIsolated, BindingKept, AtHome, Holds, NoTx
  <2> QED BY <2>1, <2>2 DEF Isolation, ReferencesHold, DocumentsNotShared, Bound
<1>4. ASSUME UNCHANGED <<docs, bind, pc, req, tx>> PROVE Isolation'
  BY <1>4
     DEF Isolation, ReferencesHold, DocumentsNotShared, Bound, EditIsolated, BindingKept,
         AtHome, Holds, Writes
<1>5. ASSUME DropCache \/ GracePasses \/ GCSelect \/ UNCHANGED vars
      PROVE  UNCHANGED <<docs, bind, pc, req, tx>>
  BY <1>5 DEF DropCache, GracePasses, GCSelect, dbVars, vars
<1>6. ASSUME GCDelete PROVE Isolation'
  BY <1>6, CollectKeepsIsolation
<1> QED
  BY <1>1, <1>2, <1>3, <1>4, <1>5, <1>6 DEF Next, Works, Proceed

\* Nothing is bound and nobody relies on anything at first.
LEMMA IsolationInit == Init => Isolation
BY DEF Init, Isolation, ReferencesHold, DocumentsNotShared, Bound, EditIsolated, BindingKept,
   AtHome, Holds, NoTx

Safe == Shape /\ RowsLockedOnce /\ Isolation

\* What a transaction relies on holds at every moment.
THEOREM SafeInvariant == Spec => []Safe
<1>1. Init => Safe
  BY ShapeInit, LocksInit, IsolationInit DEF Safe
<1>2. Safe /\ Shape' /\ RowsLockedOnce' /\ [Next]_vars => Safe'
  BY IsolationStep DEF Safe
<1> QED
  BY <1>1, <1>2, ShapeInvariant, LocksExclude, PTL DEF Spec

-----------------------------------------------------------------------------
(* The cached tree *)

\* Nobody builds the tree while nobody has the lock.
LEMMA NobodyStores ==
  ASSUME Shape, TreeInv, mu = None
  PROVE  \A c \in Clients : pc[c] # "store"
BY ClientsAssumption DEF TreeInv

\* A step that neither builds nor invalidates the tree nor changes a size keeps
\* the tree as good as it was.
LEMMA CalmTree ==
  ASSUME NEW c \in Clients, Shape, TreeInv, OthersStay(c), UNCHANGED <<size, cache, mu, lost>>,
         pc[c] \notin {"invalidate", "store"}, pc'[c] # "store"
  PROVE  TreeInv'
<1>1. ASSUME NEW p \in Paths, Pending(p) PROVE Pending(p)'
  BY <1>1 DEF Pending, OthersStay
<1>2. \A tree : UpToDate(tree) => UpToDate(tree)'
  BY <1>1 DEF UpToDate
<1>3. ASSUME NEW o \in Clients
      PROVE  (pc'[o] = "store" <=> mu' = o) /\ (pc'[o] = "store" => UpToDate(tx[o].tree)')
  BY <1>2 DEF TreeInv, OthersStay
<1>4. ASSUME NEW o \in Clients, pc'[o] = "store" PROVE UpToDate(tx[o].tree)' /\ tx'[o] = tx[o]
  BY <1>3, <1>4 DEF OthersStay
<1>5. \A o \in Clients : pc'[o] = "store" => UpToDate(tx[o].tree)'
  BY <1>4
<1> QED
  BY <1>2, <1>3, <1>5 DEF TreeInv

\* Building under the lock, and invalidating, keep the tree up to date.
LEMMA WorksKeepsTree ==
  ASSUME NEW c \in Clients, Shape, TreeInv, Works(c)
  PROVE  TreeInv'
<1>0. OthersStay(c) /\ UNCHANGED Tables
  BY WorksFrame
<1>1. ASSUME Arrive(c) PROVE TreeInv'
  <2>1. pc[c] = "idle" /\ pc'[c] # "store" /\ UNCHANGED cacheVars
    BY <1>1
       DEF Arrive, PutLookupFound, PutLookupMissing, EditSelect, DeleteLookup, ReadBegin,
           Begin, Go, Shape, TypeOK
  <2> QED BY <1>0, <2>1, CalmTree DEF Tables, cacheVars
<1>2. ASSUME PutUpdate(c) \/ PutUpdateLock(c) \/ EditLock(c) \/ Upsert(c) \/ ForeignKeyHolds(c)
             \/ DeleteSelect(c) \/ DeleteLock(c) \/ DeleteLocked(c)
      PROVE  TreeInv'
  <2>1. pc[c] \notin {"invalidate", "store"} /\ pc'[c] # "store" /\ UNCHANGED cacheVars
    BY <1>2
       DEF PutUpdate, PutUpdateLock, EditLock, EditLockable, Upsert, ForeignKeyHolds,
           DeleteSelect, DeleteLock, DeleteLocked, Go, Shape, TypeOK
  <2> QED BY <1>0, <2>1, CalmTree DEF Tables, cacheVars
<1>3. ASSUME EditRefused(c) \/ ForeignKeyFails(c) \/ DeleteNothing(c) PROVE TreeInv'
  <2>1. pc[c] \notin {"invalidate", "store"} /\ Finish(c) /\ UNCHANGED cacheVars
    BY <1>3 DEF EditRefused, EditLockable, ForeignKeyFails, DeleteNothing
  <2>2. pc'[c] # "store"
    BY <2>1, FinishFrame
  <2> QED BY <1>0, <2>1, <2>2, CalmTree DEF Tables, cacheVars
<1>4. ASSUME TreeCached(c) PROVE TreeInv'
  <2>1. pc[c] = "tree" /\ pc'[c] # "store" /\ UNCHANGED cacheVars
    BY <1>4, TreeFrame DEF TreeCached
  <2> QED BY <1>0, <2>1, CalmTree DEF Tables, cacheVars
<1>5. ASSUME TreeQuery(c) PROVE TreeInv'
  <2>1. /\ mu = None /\ cache' = None /\ mu' = c /\ lost' = {} /\ size' = size
        /\ pc'[c] = "store" /\ tx'[c].tree = size
    BY <1>5 DEF TreeQuery, Go, dbVars, Shape, TypeOK, Transactions
  <2>2. \A o \in Clients \ {c} : pc'[o] # "store"
    BY <1>0, <2>1, NobodyStores DEF OthersStay
  <2>3. \A p \in Paths : tx'[c].tree[p] = size'[p]
    BY <2>1
  <2> QED BY <2>1, <2>2, <2>3, ClientsAssumption DEF TreeInv, UpToDate
<1>6. ASSUME TreeStore(c) PROVE TreeInv'
  <2>1. /\ pc[c] = "store" /\ cache' = tx[c].tree /\ mu' = None /\ lost' = lost /\ size' = size
        /\ pc'[c] # "store"
    BY <1>6, TreeFrame DEF TreeStore, dbVars
  <2>2. \A o \in Clients : pc'[o] # "store"
    BY <1>0, <2>1 DEF OthersStay, TreeInv
  <2>3. ASSUME NEW p \in Paths, Pending(p) PROVE Pending(p)'
    BY <1>0, <2>1, <2>3 DEF Pending, OthersStay
  <2>4. UpToDate(tx[c].tree)
    BY <2>1 DEF TreeInv
  <2>5. UpToDate(cache)'
    BY <2>1, <2>3, <2>4 DEF UpToDate
  <2> QED BY <2>1, <2>2, <2>5, ClientsAssumption DEF TreeInv
<1>7. ASSUME Invalidate(c) PROVE TreeInv'
  <2>1. mu = None /\ mu' = None /\ cache' = None /\ pc'[c] = "idle"
    BY <1>7, FinishFrame DEF Invalidate
  <2>2. \A o \in Clients : pc'[o] # "store"
    BY <1>0, <2>1, NobodyStores DEF OthersStay
  <2> QED BY <2>1, <2>2, ClientsAssumption DEF TreeInv
<1>8. ASSUME pc[c] # "invalidate", Abort(c) PROVE TreeInv'
  <2>1. /\ pc'[c] = "idle" /\ cache' = cache /\ lost' = lost /\ size' = size
        /\ mu' = IF mu = c THEN None ELSE mu
    BY <1>8, FinishFrame DEF Abort, dbVars
  <2>2. CASE mu = c
    <3>1. \A o \in Clients : pc'[o] # "store"
      BY <1>0, <2>1, <2>2 DEF OthersStay, TreeInv
    <3>2. cache' = None
      BY <2>1, <2>2, ClientsAssumption DEF TreeInv
    <3> QED BY <2>1, <2>2, <3>1, <3>2, ClientsAssumption DEF TreeInv
  <2>3. CASE mu # c
    BY <1>0, <1>8, <2>1, <2>3, CalmTree DEF TreeInv
  <2> QED BY <2>2, <2>3
<1>9. ASSUME DeadlockAbort(c) PROVE pc[c] # "invalidate" /\ Abort(c)
  <2>1. Blockers(c) # {} /\ Abort(c)
    BY <1>9 DEF DeadlockAbort
  <2>2. pc[c] = "invalidate" => Blockers(c) = {}
    BY DEF Blockers
  <2> QED BY <2>1, <2>2
<1> QED
  BY <1>1, <1>2, <1>3, <1>4, <1>5, <1>6, <1>7, <1>8, <1>9 DEF Works, Fail

\* A commit changes the sizes of the rows it writes only, and those it has
\* still to invalidate, or has lost.
LEMMA CommitKeepsTree ==
  ASSUME NEW c \in Clients, Shape, TreeInv, Commit(c) \/ CommitUnconfirmed(c)
  PROVE  TreeInv'
<1>1. /\ pc[c] = "commit" /\ pc'[c] \in {"invalidate", "idle"}
      /\ UNCHANGED <<cache, mu>>
  BY CommitFrame DEF Commit, CommitUnconfirmed, cacheVars
<1>2. \A p \in Paths : p \notin tx[c].rows => size'[p] = size[p]
  BY DEF Commit, CommitUnconfirmed, Install
<1>3. ASSUME NEW p \in Paths, Pending(p) PROVE Pending(p)'
  BY <1>1, <1>3, CommitFrame DEF Pending
<1>4. cache # None \/ mu # None =>
        /\ lost \subseteq lost'
        /\ \A p \in Paths : p \in tx[c].rows => p \in lost' \/ Pending(p)'
  <2>1. CASE Commit(c)
    <3>1. lost' = lost /\ pc'[c] = "invalidate" /\ tx'[c].rows = tx[c].rows
      BY <2>1 DEF Commit, Committed, cacheVars, Go, NoTx, Shape, TypeOK
    <3> QED BY <3>1 DEF Pending
  <2>2. CASE CommitUnconfirmed(c)
    BY <2>2 DEF CommitUnconfirmed
  <2> QED BY <2>1, <2>2
<1>5. cache # None \/ mu # None => \A tree : UpToDate(tree) => UpToDate(tree)'
  BY <1>2, <1>3, <1>4 DEF UpToDate
<1>6. ASSUME NEW o \in Clients PROVE pc'[o] = "store" <=> mu' = o
  <2>1. CASE o = c
    BY <2>1, <1>1 DEF TreeInv
  <2>2. CASE o # c
    BY <2>2, <1>1, CommitFrame DEF TreeInv
  <2> QED BY <2>1, <2>2
<1>7. ASSUME NEW o \in Clients, pc'[o] = "store"
      PROVE  UpToDate(tx[o].tree)' /\ tx'[o].tree = tx[o].tree
                /\ tx'[o].held = tx[o].held
  <2>1. o # c /\ pc[o] = "store" /\ tx'[o].tree = tx[o].tree
                /\ tx'[o].held = tx[o].held
    BY <1>1, <1>7, CommitFrame
  <2>2. mu # None /\ UpToDate(tx[o].tree)
    BY <2>1, ClientsAssumption DEF TreeInv
  <2> QED BY <2>1, <2>2, <1>5
<1>8. \A o \in Clients : pc'[o] = "store" => (UpToDate(tx[o].tree))'
  <2> SUFFICES ASSUME NEW o \in Clients, pc'[o] = "store" PROVE (UpToDate(tx[o].tree))'
    OBVIOUS
  <2> QED BY <1>7 DEF UpToDate
<1>9. cache' # None => (UpToDate(cache))'
  BY <1>1, <1>5 DEF TreeInv, UpToDate
<1> QED
  BY <1>1, <1>6, <1>8, <1>9 DEF TreeInv

\* The cached tree is kept up to date by every step.
LEMMA TreeStep ==
  ASSUME Shape, TreeInv, [Next]_vars
  PROVE  TreeInv'
<1>1. ASSUME NEW c \in Clients, Works(c) PROVE TreeInv'
  BY <1>1, WorksKeepsTree
<1>2. ASSUME NEW c \in Clients, Commit(c) \/ CommitUnconfirmed(c) PROVE TreeInv'
  BY <1>2, CommitKeepsTree
<1>3. ASSUME Restart PROVE TreeInv'
  BY <1>3, ClientsAssumption DEF Restart, TreeInv
<1>4. ASSUME DropCache PROVE TreeInv'
  BY <1>4, NobodyStores, ClientsAssumption DEF DropCache, TreeInv
<1>5. ASSUME UNCHANGED <<size, cache, mu, lost, pc, tx>> PROVE TreeInv'
  BY <1>5 DEF TreeInv, UpToDate, Pending
<1>6. ASSUME GracePasses \/ GCSelect \/ GCDelete \/ UNCHANGED vars
      PROVE  UNCHANGED <<size, cache, mu, lost, pc, tx>>
  BY <1>6 DEF GracePasses, GCSelect, GCDelete, dbVars, cacheVars, vars
<1> QED
  BY <1>1, <1>2, <1>3, <1>4, <1>5, <1>6 DEF Next, Works, Proceed

\* No tree is cached at first.
LEMMA TreeInit == Init => TreeInv
BY ClientsAssumption DEF Init, TreeInv

-----------------------------------------------------------------------------
(* The properties *)

\* No path is ever left without its document: the lock under which a document
\* is bound and the foreign key the collector meets are enough for that.
THEOREM NoDanglingPath == Spec => []ReferencesHold
<1>1. Safe => ReferencesHold
  BY DEF Safe, Isolation
<1> QED BY SafeInvariant, <1>1, PTL

\* One document never serves two paths of a repository.
THEOREM OnePathPerDocument == Spec => []DocumentsNotShared
<1>1. Safe => DocumentsNotShared
  BY DEF Safe, Isolation
<1> QED BY SafeInvariant, <1>1, PTL

\* Edit's SELECT ... FOR UPDATE makes it one atomic step on its document.
THEOREM EditIsAtomic == Spec => EditAtomic
<1>1. ASSUME Safe, NEW c \in Clients, Commits(c, "edit")
      PROVE  LET x == docs[tx[c].doc] IN
             /\ x # None
             /\ docs'[tx[c].doc] = req[c].edit[x]
             /\ req[c].expect \in {NoCondition, HashContent(x)}
  <2>1. pc[c] = "commit" /\ Install(c) /\ req[c].op = "edit"
    BY <1>1 DEF Commits, Commit, CommitUnconfirmed
  <2>2. tx[c].doc \in DocIds
    BY <1>1, <2>1 DEF Safe, Shape, TransactionShape, Writes
  <2>3. EditIsolated(c)
    BY <1>1 DEF Safe, Isolation
  <2>4. docs'[tx[c].doc] = IF tx[c].doc = tx[c].locked THEN tx[c].val ELSE docs[tx[c].doc]
    BY <2>1, <2>2 DEF Install
  <2> QED BY <2>1, <2>3, <2>4 DEF EditIsolated
<1>2. Safe => [\A c \in Clients : Commits(c, "edit") =>
                 LET x == docs[tx[c].doc] IN
                 /\ x # None
                 /\ docs'[tx[c].doc] = req[c].edit[x]
                 /\ req[c].expect \in {NoCondition, HashContent(x)}]_vars
  BY <1>1
<1> QED BY SafeInvariant, <1>2, PTL DEF EditAtomic

\* Only a Put that binds a document it has not written breaks the agreement of
\* the two tables: whatever else is written, bound, deleted or collected between
\* the statements of a request, size and content of a path go together.
THEOREM SizesAgreeHolds == Spec => SizesAgree
<1>1. ASSUME Safe, Safe', [Next]_vars, NEW p \in Paths, SizeTrue(p), Bound(p)',
             \A c \in Clients :
                (Commit(c) \/ CommitUnconfirmed(c)) /\ req[c].path = p => tx[c].locked = tx[c].doc
      PROVE  \E x \in Contents : docs'[bind'[p]] = x /\ size'[p] = SizeOf[x]
  <2>1. ASSUME UNCHANGED <<bind, size>>, docs'[bind[p]] \in {docs[bind[p]], None}
        PROVE  \E x \in Contents : docs'[bind'[p]] = x /\ size'[p] = SizeOf[x]
    <3>1. docs'[bind'[p]] # None
      BY <1>1 DEF Safe, Isolation, ReferencesHold, Bound
    <3> QED BY <1>1, <2>1, <3>1 DEF SizeTrue, Bound
  <2>2. ASSUME NEW c \in Clients, Commit(c) \/ CommitUnconfirmed(c)
        PROVE  \E x \in Contents : docs'[bind'[p]] = x /\ size'[p] = SizeOf[x]
    <3>1. pc[c] = "commit" /\ Install(c) /\ req[c].path \in Paths
      BY <1>1, <2>2, CommitFrame DEF Safe, Shape, RequestShape
    <3>2. bind[p] \in DocIds \cup {None} /\ docs \in [DocIds -> Contents \cup {None}]
      BY <1>1 DEF Safe, Shape, TypeOK
    <3>3. CASE p \in tx[c].rows
      <4>1. Writes(c)
        BY <1>1, <3>1, <3>3, DocsAssumption
           DEF Safe, Shape, RequestShape, Install, Bound
      <4>2. p = req[c].path /\ tx[c].doc \in DocIds /\ tx[c].val \in Contents
        BY <1>1, <3>1, <3>3, <4>1 DEF Safe, Shape, TransactionShape
      <4>3. bind'[p] = tx[c].doc /\ size'[p] = SizeOf[tx[c].val] /\ docs'[tx[c].locked] = tx[c].val
        BY <1>1, <2>2, <3>1, <3>3, <4>1, <4>2 DEF Install, Writes
      <4> QED BY <1>1, <2>2, <4>2, <4>3
    <3>4. CASE p \notin tx[c].rows
      <4>1. bind'[p] = bind[p] /\ size'[p] = size[p] /\ Bound(p) /\ bind[p] \in DocIds
        BY <1>1, <3>1, <3>2, <3>4 DEF Install, Bound
      <4>2. ASSUME bind[p] = tx[c].locked PROVE FALSE
        <5>1. Writes(c) /\ tx[c].rows = {req[c].path} /\ tx[c].doc \in DocIds
          BY <1>1, <3>1, <4>1, <4>2, DocsAssumption DEF Safe, Shape, TransactionShape
        <5>2. AtHome(c)
          BY <1>1 DEF Safe, Isolation
        <5> QED BY <3>4, <4>1, <4>2, <5>1, <5>2, DocsAssumption DEF AtHome, Holds
      <4> QED BY <1>1, <3>1, <4>1, <4>2 DEF Install, SizeTrue
    <3> QED BY <3>3, <3>4
  <2>3. ASSUME NEW c \in Clients, Works(c)
        PROVE  UNCHANGED <<bind, size>> /\ docs'[bind[p]] = docs[bind[p]]
    BY <1>1, <2>3, WorksFrame DEF Tables, Safe
  <2>4. ASSUME Restart \/ DropCache \/ GracePasses \/ GCSelect \/ UNCHANGED vars
        PROVE  UNCHANGED <<bind, size>> /\ docs'[bind[p]] = docs[bind[p]]
    BY <2>4 DEF Restart, DropCache, GracePasses, GCSelect, dbVars, vars
  <2>5. ASSUME GCDelete
        PROVE  UNCHANGED <<bind, size>> /\ docs'[bind[p]] \in {docs[bind[p]], None}
    <3>1. UNCHANGED <<bind, size>>
      BY <2>5 DEF GCDelete
    <3>2. bind[p] \in DocIds
      BY <1>1, <3>1 DEF Safe, Shape, TypeOK, Bound
    <3> QED BY <2>5, <3>1, <3>2 DEF GCDelete
  <2> QED BY <1>1, <2>1, <2>2, <2>3, <2>4, <2>5 DEF Next, Works, Proceed
<1>2. Safe /\ Safe' /\ [Next]_vars =>
        [\A p \in Paths :
            /\ SizeTrue(p)
            /\ \A c \in Clients :
                  (Commit(c) \/ CommitUnconfirmed(c)) /\ req[c].path = p => tx[c].locked = tx[c].doc
            => SizeTrue(p)']_vars
  BY <1>1 DEF SizeTrue
<1> QED BY SafeInvariant, <1>2, PTL DEF Spec, SizesAgree

\* A write that was answered is in whatever tree is cached from then on.
THEOREM TreeIsCoherent == Spec => []CacheCoherent
<1>1. Shape /\ TreeInv /\ [Next]_vars => TreeInv'
  BY TreeStep
<1>2. TreeInv => CacheCoherent
  BY DEF TreeInv, UpToDate, Pending, CacheCoherent
<1> QED BY ShapeInvariant, TreeInit, <1>1, <1>2, PTL DEF Spec
=============================================================================
