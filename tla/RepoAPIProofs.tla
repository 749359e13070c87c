---------------------------- MODULE RepoAPIProofs ----------------------------
(***************************************************************************)
(* What the repository handlers keep, and that they implement the registry *)
(* of RepoRegistry, for any number of requests, users, names and failures. *)
(***************************************************************************)
EXTENDS RepoAPI, TLAPS

USE WorldAssumption, APIAssumption

(* The inductive invariant.  A handler that holds a row holds one for the  *)
(* key its request names, of the caller, with an id that was given out; a  *)
(* row in the table has the canonical path, and no twin; an answer exists  *)
(* exactly when the handler has returned.                                  *)
Holding == {"init", "rollback", "cr", "update", "delete", "rm"}

RowsOK ==
  /\ \A row \in rows : row.id < nextId /\ row.path = GetRepoPath(row.key)
  /\ \A row, other \in rows : row.id = other.id \/ row.key = other.key => row = other

RequestOK(r) ==
  /\ pc[r] # "idle" =>
       /\ req[r] \in Request
       /\ req[r].op = "create" => Owner(req[r].key) = req[r].caller
  /\ pc[r] \in {"create", "init", "rollback", "cr"} => req[r].op = "create"
  /\ pc[r] = "load" => req[r].op # "create"
  /\ pc[r] = "update" => req[r].op = "update"
  /\ pc[r] \in {"delete", "rm"} => req[r].op = "delete"
HoldOK(r) ==
  pc[r] \in Holding =>
    /\ got[r] \in Row /\ got[r].id < nextId
    /\ got[r].key = req[r].key /\ got[r].path = GetRepoPath(got[r].key)
    /\ req[r].caller = Owner(req[r].key)
    /\ \A row \in rows : row.id = got[r].id => row.key = got[r].key
AnswerOK(r) ==
  /\ (pc[r] = "done") <=> (answer[r] # 0)
  /\ evt[r] # "none" => pc[r] = "done" /\ got[r] \in Row
  /\ answer[r] \in {201, 204} => got[r] \in Row

Inv == /\ TypeOK
       /\ RowsOK
       /\ \A r \in Reqs : RequestOK(r) /\ HoldOK(r) /\ AnswerOK(r)

LEMMA UpdatedRow ==
  ASSUME NEW row \in Row, NEW p \in BOOLEAN
  PROVE  /\ [row EXCEPT !.priv = p] \in Row
         /\ [row EXCEPT !.priv = p].id = row.id
         /\ [row EXCEPT !.priv = p].key = row.key
         /\ [row EXCEPT !.priv = p].path = row.path
  BY DEF Row

LEMMA PathIsPath == \A k \in Keys : GetRepoPath(k) \in Paths
  BY DEF Paths

\* GetRepoPath is one to one: a slug holds no slash and no dot.
PathsApart ==
  \A k, other \in Keys : GetRepoPath(k) = GetRepoPath(other) => k = other

LEMMA PathsAreApart == PathsApart
  <1> SUFFICES ASSUME NEW k \in Keys, NEW other \in Keys,
                      GetRepoPath(k) = GetRepoPath(other)
               PROVE  k = other
    BY DEF PathsApart
  <1>1. k \in Users \X Names /\ other \in Users \X Names
    OBVIOUS
  <1>2. k[1] = other[1] /\ <<k[2], ".git">> = <<other[2], ".git">>
    BY DEF GetRepoPath
  <1> QED BY <1>1, <1>2

LEMMA RowFields == \A row \in Row : /\ row.id \in Ids /\ row.id \in Nat /\ row.key \in Keys
                                    /\ row.path \in Paths /\ row.priv \in BOOLEAN
  BY DEF Row, Ids

LEMMA RequestFields == \A q \in Request : /\ q.key \in Keys /\ q.caller \in Users
                                          /\ q.op \in {"create", "update", "delete"}
                                          /\ q.body \in Bodies
  BY DEF Request

LEMMA NewRowIsRow ==
  ASSUME TypeOK, NEW k \in Keys, NEW p \in BOOLEAN
  PROVE  /\ NewRow(k, p) \in Row /\ NewRow(k, p).id = nextId /\ NewRow(k, p).key = k
         /\ NewRow(k, p).path = GetRepoPath(k) /\ NewRow(k, p).priv = p
  BY PathIsPath DEF NewRow, Row, TypeOK, WorldTypeOK

LEMMA NewCRIsCR ==
  ASSUME NEW k \in Keys, NEW p \in BOOLEAN PROVE NewCR(k, p, "owner") \in CR
  BY DEF NewCR, CR, OwnerRefs, Phases, NoId

LEMMA InitInv == Init => Inv
  BY PathIsPath DEF Init, WorldInit, Inv, TypeOK, WorldTypeOK, RowsOK, RequestOK, HoldOK,
     AnswerOK, Holding, Ids, NoId, Pcs, InFlightPcs, Codes
-----------------------------------------------------------------------------
(* What any step may do to the tables: ids only grow, and a row is new or  *)
(* has the id, the key and the path of one that was there.                 *)
DBStep ==
  /\ rows' \subseteq Row /\ feed' \subseteq Event
  /\ nextId' \in Ids /\ nextId <= nextId'
  /\ RowsOK'
  /\ \A new \in rows' : \/ new.id >= nextId
                        \/ \E old \in rows : old.id = new.id /\ old.key = new.key

LEMMA SameTables ==
  ASSUME TypeOK, RowsOK, UNCHANGED <<rows, nextId>>, feed' \subseteq Event PROVE DBStep
  BY DEF DBStep, TypeOK, WorldTypeOK, RowsOK, Ids

LEMMA Created ==
  ASSUME TypeOK, RowsOK, NEW k \in Keys, NEW p \in BOOLEAN, CreateRepo(k, p)
  PROVE  DBStep /\ nextId' = nextId + 1 /\ rows' = rows \cup {NewRow(k, p)}
  <1> DEFINE new == NewRow(k, p)
  <1>1. new \in Row /\ new.id = nextId /\ new.key = k /\ new.path = GetRepoPath(k)
    BY NewRowIsRow
  <1>2. /\ rows' = rows \cup {new} /\ nextId' = nextId + 1 /\ feed' = feed
        /\ \A row \in rows : row.key # k
    BY DEF CreateRepo, Taken, RowsOf
  <1>3. /\ rows \subseteq Row /\ nextId \in Nat /\ nextId # 0
        /\ \A row \in rows : row.id \in Nat /\ row.id < nextId
    BY RowFields DEF TypeOK, WorldTypeOK, RowsOK, Ids, NoId
  <1> HIDE DEF new
  <1>4. RowsOK'
    BY <1>1, <1>2, <1>3 DEF RowsOK
  <1>5. DBStep
    BY <1>1, <1>2, <1>3, <1>4 DEF DBStep, TypeOK, WorldTypeOK, Ids, NoId
  <1> QED BY <1>2, <1>5 DEF new

LEMMA Updated ==
  ASSUME TypeOK, RowsOK, NEW i \in Nat, NEW p \in BOOLEAN, UpdateRepo(i, p)
  PROVE  /\ DBStep
         /\ nextId' = nextId
         /\ \A row \in rows : row.id # i => row \in rows'
         /\ \A row \in rows : \E new \in rows' :
              new.id = row.id /\ new.key = row.key /\ new.path = row.path
         /\ \A new \in rows' : \E row \in rows :
              new.id = row.id /\ new.key = row.key /\ new.path = row.path
  <1> DEFINE to(row) == IF row.id = i THEN [row EXCEPT !.priv = p] ELSE row
  <1>1. rows' = {to(row) : row \in rows} /\ nextId' = nextId /\ feed' = feed
    BY DEF UpdateRepo
  <1>2. rows \subseteq Row
    BY DEF TypeOK, WorldTypeOK
  <1>3. \A row \in rows : /\ to(row) \in Row /\ to(row).id = row.id
                          /\ to(row).key = row.key /\ to(row).path = row.path
    BY <1>2, UpdatedRow
  <1>4. \A row \in rows : row.id # i => to(row) = row
    OBVIOUS
  <1> HIDE DEF to
  <1>5. \A new \in rows' : \E row \in rows :
          /\ new = to(row)
          /\ new \in Row /\ new.id = row.id /\ new.key = row.key /\ new.path = row.path
    BY <1>1, <1>3
  <1>6. RowsOK'
    BY <1>1, <1>5 DEF RowsOK
  <1>7. DBStep
    BY <1>1, <1>5, <1>6 DEF DBStep, TypeOK, WorldTypeOK, Ids
  <1> QED BY <1>1, <1>3, <1>4, <1>5, <1>7

LEMMA Deleted ==
  ASSUME TypeOK, RowsOK, NEW i \in Nat, DeleteRepo(i)
  PROVE  DBStep /\ nextId' = nextId /\ rows' = {row \in rows : row.id # i}
  BY RowFields DEF DBStep, TypeOK, WorldTypeOK, RowsOK, DeleteRepo, Ids

LEMMA Troubled ==
  ASSUME TypeOK, Fault \/ Break \/ NoTrouble
  PROVE  faults' \in 0..MaxFaults /\ breaks' \in 0..MaxBreaks
  BY DEF Fault, Break, NoTrouble, trouble, TypeOK, WorldTypeOK

(* The step of one request leaves the others as they were, and its effect  *)
(* on the tables does not take away what they hold.                        *)
Others(r) ==
  \A s \in Reqs \ {r} :
    /\ pc'[s] = pc[s] /\ req'[s] = req[s] /\ got'[s] = got[s]
    /\ answer'[s] = answer[s] /\ evt'[s] = evt[s]

LEMMA OneRequest ==
  ASSUME Inv, NEW r \in Reqs, TypeOK', DBStep, Others(r),
         RequestOK(r)', HoldOK(r)', AnswerOK(r)'
  PROVE  Inv'
  <1>1. ASSUME NEW s \in Reqs, s # r PROVE RequestOK(s)' /\ HoldOK(s)' /\ AnswerOK(s)'
    <2>1. /\ pc'[s] = pc[s] /\ req'[s] = req[s] /\ got'[s] = got[s]
          /\ answer'[s] = answer[s] /\ evt'[s] = evt[s]
      BY <1>1 DEF Others
    <2>2. RequestOK(s) /\ HoldOK(s) /\ AnswerOK(s)
      BY DEF Inv
    <2>3. RequestOK(s)' /\ AnswerOK(s)'
      BY <2>1, <2>2 DEF RequestOK, AnswerOK
    <2>4. HoldOK(s)'
      <3> SUFFICES ASSUME pc[s] \in Holding PROVE HoldOK(s)'
        BY <2>1 DEF HoldOK
      <3>1. /\ got[s] \in Row /\ got[s].id < nextId /\ got[s].id \in Nat
            /\ \A row \in rows : row.id = got[s].id => row.key = got[s].key
        BY <2>2, RowFields DEF HoldOK
      <3>2. nextId \in Nat /\ nextId' \in Nat /\ nextId <= nextId'
        BY DEF DBStep, Inv, TypeOK, WorldTypeOK, Ids
      <3>3. \A new \in rows' : new.id = got[s].id => new.key = got[s].key
        BY <3>1, <3>2 DEF DBStep
      <3> QED
        BY <2>1, <2>2, <3>1, <3>2, <3>3 DEF HoldOK
    <2> QED BY <2>3, <2>4
  <1> QED
    BY <1>1 DEF Inv, DBStep
-----------------------------------------------------------------------------
(* The steps, one lemma for each way in which they touch the state.        *)

\* The row a handler holds, and what its request names.
LEMMA Held ==
  ASSUME Inv, NEW r \in Reqs, pc[r] \in Holding
  PROVE  /\ got[r] \in Row /\ got[r].id \in Nat /\ got[r].id \in Ids
         /\ got[r].path \in Paths /\ got[r].priv \in BOOLEAN
         /\ req[r] \in Request /\ req[r].key \in Keys /\ got[r].key = req[r].key
         /\ req[r].caller = Owner(req[r].key)
  BY RowFields, RequestFields DEF Inv, HoldOK, RequestOK, Holding

\* An error answer, with or without a change of the tables that DBStep allows.
LEMMA Answered ==
  ASSUME Inv, NEW r \in Reqs, pc[r] \in InFlightPcs,
         NEW code \in {200, 400, 403, 404, 409, 500}, Reply(r, code),
         DBStep, Fault \/ Break \/ NoTrouble,
         UNCHANGED <<disk, crs, req, got, evt, overlapped>>
  PROVE  Inv'
  <1>1. TypeOK'
    BY Troubled DEF Inv, TypeOK, WorldTypeOK, DBStep, Reply, Goto, Pcs, Codes
  <1>2. Others(r)
    BY DEF Inv, TypeOK, Others, Reply, Goto
  <1>3. RequestOK(r)' /\ HoldOK(r)' /\ AnswerOK(r)'
    BY DEF Inv, TypeOK, RequestOK, HoldOK, AnswerOK, Holding, InFlightPcs, Reply, Goto
  <1> QED BY <1>1, <1>2, <1>3, OneRequest

\* A handler goes from one point to the next, the tables and its row as before.
LEMMA Advanced ==
  ASSUME Inv, NEW r \in Reqs, NEW from, NEW to, pc[r] = from, Goto(r, to),
         <<from, to>> \in {<<"init", "cr">>, <<"init", "rollback">>},
         UNCHANGED <<db, crs, req, got, answer, evt, overlapped>>,
         disk' \in [Paths -> Reqs \cup {Operator, NoDisk}],
         Fault \/ Break \/ NoTrouble
  PROVE  Inv'
  <1>1. DBStep
    BY SameTables DEF Inv, TypeOK, WorldTypeOK, db
  <1>2. TypeOK'
    BY <1>1, Troubled DEF Inv, TypeOK, WorldTypeOK, DBStep, Goto, Pcs, InFlightPcs, db
  <1>3. Others(r)
    BY DEF Inv, TypeOK, Others, Goto
  <1>4. RequestOK(r)' /\ HoldOK(r)' /\ AnswerOK(r)'
    BY DEF Inv, TypeOK, RequestOK, HoldOK, AnswerOK, Holding, Goto, db
  <1> QED BY <1>1, <1>2, <1>3, <1>4, OneRequest

LEMMA SubmitInv ==
  ASSUME Inv, NEW r \in Reqs, NEW q \in Traffic, Submit(r, q) PROVE Inv'
  <1>1. DBStep
    BY SameTables DEF Inv, TypeOK, WorldTypeOK, Submit, world
  <1>2. q \in Request /\ q.key \in Keys /\ q.op \in {"create", "update", "delete"}
    BY RequestFields
  <1>3. TypeOK'
    BY <1>1, <1>2, Troubled
    DEF Inv, TypeOK, WorldTypeOK, Submit, Goto, Pcs, InFlightPcs, world
  <1>4. Others(r)
    BY DEF Inv, TypeOK, Others, Submit, Goto
  <1>5. RequestOK(r)' /\ HoldOK(r)' /\ AnswerOK(r)'
    BY <1>2 DEF Inv, TypeOK, RequestOK, HoldOK, AnswerOK, Holding, Submit, Goto
  <1> QED BY <1>1, <1>3, <1>4, <1>5, OneRequest

\* Every answer of Create but 201, and of loadRepo's errors, leaves the tables.
LEMMA RejectInv ==
  ASSUME Inv, NEW r \in Reqs,
         \/ CreateInvalid(r) \/ CreateConflict(r) \/ LoadMissing(r) \/ LoadFails(r)
         \/ LoadForbidden(r) \/ UpdateInvalid(r)
  PROVE  Inv'
  <1>1. /\ pc[r] \in InFlightPcs
        /\ \E code \in {400, 403, 404, 409, 500} : Reply(r, code)
        /\ Fault \/ Break \/ NoTrouble
        /\ UNCHANGED <<world, req, got, evt, overlapped>>
    BY DEF CreateInvalid, CreateConflict, LoadMissing, LoadFails, LoadForbidden,
           UpdateInvalid, InFlightPcs
  <1>2. DBStep
    BY <1>1, SameTables DEF Inv, TypeOK, WorldTypeOK, world
  <1> QED BY <1>1, <1>2, Answered DEF world

LEMMA CreateInsertInv ==
  ASSUME Inv, NEW r \in Reqs, CreateInsert(r) PROVE Inv'
  <1> DEFINE p == IsPrivate(req[r].body)
  <1>1. p \in BOOLEAN /\ req[r].key \in Keys /\ req[r] \in Request
    BY RequestFields DEF Inv, RequestOK, CreateInsert, IsPrivate
  <1>2. /\ DBStep /\ nextId' = nextId + 1
        /\ rows' = rows \cup {NewRow(req[r].key, p)}
    BY <1>1, Created DEF Inv, CreateInsert
  <1>3. /\ NewRow(req[r].key, p) \in Row /\ NewRow(req[r].key, p).id = nextId
        /\ NewRow(req[r].key, p).key = req[r].key
        /\ NewRow(req[r].key, p).path = GetRepoPath(req[r].key)
    BY <1>1, NewRowIsRow DEF Inv
  <1>4. got' = [got EXCEPT ![r] = NewRow(req[r].key, p)]
    BY DEF CreateInsert
  <1> HIDE DEF p
  <1>5. TypeOK'
    BY <1>2, <1>3, <1>4, Troubled
    DEF Inv, TypeOK, WorldTypeOK, DBStep, CreateInsert, Goto, Pcs, InFlightPcs
  <1>6. Others(r)
    BY <1>4 DEF Inv, TypeOK, Others, CreateInsert, Goto
  <1>7. /\ pc'[r] = "init" /\ got'[r] = NewRow(req[r].key, p) /\ req' = req
        /\ answer' = answer /\ evt' = evt /\ pc[r] = "create"
    BY <1>4 DEF Inv, TypeOK, CreateInsert, Goto
  <1>8. nextId \in Nat /\ \A row \in rows : row.id \in Nat /\ row.id < nextId
    BY RowFields DEF Inv, TypeOK, WorldTypeOK, RowsOK, Ids
  <1>9. RequestOK(r)' /\ AnswerOK(r)'
    BY <1>7 DEF Inv, RequestOK, AnswerOK
  <1>10. HoldOK(r)'
    BY <1>1, <1>2, <1>3, <1>7, <1>8 DEF Inv, HoldOK, RequestOK
  <1> QED BY <1>2, <1>5, <1>6, <1>9, <1>10, OneRequest

LEMMA CreateInsertFailsInv ==
  ASSUME Inv, NEW r \in Reqs, CreateInsertFails(r) PROVE Inv'
  <1>1. IsPrivate(req[r].body) \in BOOLEAN /\ req[r].key \in Keys
    BY RequestFields DEF Inv, RequestOK, CreateInsertFails, IsPrivate
  <1>2. DBStep
    BY <1>1, Created, SameTables DEF Inv, TypeOK, WorldTypeOK, CreateInsertFails, db
  <1> QED
    BY <1>2, Answered DEF CreateInsertFails, InFlightPcs

LEMMA CreateInitInv ==
  ASSUME Inv, NEW r \in Reqs, CreateInit(r) \/ CreateInitFails(r) PROVE Inv'
  <1>1. got[r].path \in Paths
    BY Held DEF CreateInit, CreateInitFails, Holding
  <1>2. disk' \in [Paths -> Reqs \cup {Operator, NoDisk}]
    BY <1>1 DEF Inv, TypeOK, WorldTypeOK, CreateInit, CreateInitFails, InitBareRepo, world
  <1>3. CASE CreateInit(r)
    BY <1>2, <1>3, Advanced DEF CreateInit
  <1>4. CASE CreateInitFails(r)
    BY <1>2, <1>4, Advanced DEF CreateInitFails, world, db
  <1> QED BY <1>3, <1>4
LEMMA CreateRollbackInv ==
  ASSUME Inv, NEW r \in Reqs, CreateRollback(r) PROVE Inv'
  <1>1. DBStep
    BY Held, Deleted, SameTables
    DEF Inv, TypeOK, WorldTypeOK, CreateRollback, Holding, db
  <1> QED
    BY <1>1, Answered DEF CreateRollback, InFlightPcs

\* 201 and 204: the tables stay, the event goroutine starts.
LEMMA Finished ==
  ASSUME Inv, NEW r \in Reqs,
         \/ pc[r] = "cr" /\ Reply(r, 201)
         \/ pc[r] = "rm" /\ Reply(r, 204),
         evt' = [evt EXCEPT ![r] = "spawned"],
         crs' \in [CRNames -> CR \cup {NoCR}],
         disk' \in [Paths -> Reqs \cup {Operator, NoDisk}],
         Fault \/ Break \/ NoTrouble,
         UNCHANGED <<db, req, got, overlapped>>
  PROVE  Inv'
  <1>1. DBStep
    BY SameTables DEF Inv, TypeOK, WorldTypeOK, db
  <1>2. TypeOK'
    BY <1>1, Troubled DEF Inv, TypeOK, WorldTypeOK, DBStep, Reply, Goto, Pcs, Codes
  <1>3. Others(r)
    BY DEF Inv, TypeOK, Others, Reply, Goto
  <1>4. RequestOK(r)' /\ HoldOK(r)' /\ AnswerOK(r)'
    BY DEF Inv, TypeOK, RequestOK, HoldOK, AnswerOK, Holding, Reply, Goto
  <1> QED BY <1>1, <1>2, <1>3, <1>4, OneRequest

LEMMA CreateFinishInv ==
  ASSUME Inv, NEW r \in Reqs, CreateFinish(r) PROVE Inv'
  <1>1. /\ req[r].key \in Keys /\ CRName[req[r].key] \in CRNames
        /\ NewCR(req[r].key, got[r].priv, "owner") \in CR
    BY Held, NewCRIsCR DEF CreateFinish, Holding
  <1>2. crs' \in [CRNames -> CR \cup {NoCR}]
    BY <1>1 DEF Inv, TypeOK, WorldTypeOK, CreateFinish
  <1> QED
    BY <1>2, Finished DEF CreateFinish, Inv, TypeOK, WorldTypeOK

LEMMA DeleteFinishInv ==
  ASSUME Inv, NEW r \in Reqs, DeleteFinish(r) PROVE Inv'
  <1>1. disk' \in [Paths -> Reqs \cup {Operator, NoDisk}]
    BY Held DEF Inv, TypeOK, WorldTypeOK, DeleteFinish, RemoveAll, Holding
  <1> QED
    BY <1>1, Finished DEF DeleteFinish, Inv, TypeOK, WorldTypeOK

LEMMA LoadInv ==
  ASSUME Inv, NEW r \in Reqs, Load(r) PROVE Inv'
  <1>1. DBStep
    BY SameTables DEF Inv, TypeOK, WorldTypeOK, Load, world
  <1>2. req[r] \in Request /\ req[r].op \in {"update", "delete"}
    BY RequestFields DEF Inv, RequestOK, Load
  <1>3. PICK row \in RowsOf(req[r].key) : got' = [got EXCEPT ![r] = row]
    BY DEF Load
  <1>4. row \in rows /\ row \in Row /\ row.key = req[r].key
    BY <1>3 DEF RowsOf, Inv, TypeOK, WorldTypeOK
  <1>5. TypeOK'
    BY <1>2, <1>3, <1>4, Troubled
    DEF Inv, TypeOK, WorldTypeOK, Load, Goto, Pcs, InFlightPcs, world
  <1>6. Others(r)
    BY <1>3 DEF Inv, TypeOK, Others, Load, Goto
  <1>7. RequestOK(r)' /\ HoldOK(r)' /\ AnswerOK(r)'
    BY <1>2, <1>3, <1>4
    DEF Inv, TypeOK, RowsOK, RequestOK, HoldOK, AnswerOK, Holding, Load, Goto, world
  <1> QED BY <1>1, <1>5, <1>6, <1>7, OneRequest

LEMMA UpdateRowInv ==
  ASSUME Inv, NEW r \in Reqs, UpdateRow(r) \/ UpdateRowFails(r) PROVE Inv'
  <1>1. IsPrivate(req[r].body) \in BOOLEAN /\ got[r].id \in Nat /\ pc[r] = "update"
    BY Held DEF UpdateRow, UpdateRowFails, Holding, IsPrivate
  <1>2. DBStep
    BY <1>1, Updated, SameTables
    DEF Inv, TypeOK, WorldTypeOK, UpdateRow, UpdateRowFails, db
  <1> QED
    BY <1>1, <1>2, Answered DEF UpdateRow, UpdateRowFails, InFlightPcs

LEMMA DeleteRowFailsInv ==
  ASSUME Inv, NEW r \in Reqs, DeleteRowFails(r) PROVE Inv'
  <1>1. got[r].id \in Nat
    BY Held DEF DeleteRowFails, Holding
  <1>2. DBStep
    BY <1>1, Deleted, SameTables DEF Inv, TypeOK, WorldTypeOK, DeleteRowFails, db
  <1> QED
    BY <1>2, Answered DEF DeleteRowFails, InFlightPcs

LEMMA DeleteRowInv ==
  ASSUME Inv, NEW r \in Reqs, DeleteRow(r) PROVE Inv'
  <1>1. got[r] \in Row /\ got[r].id \in Nat
    BY Held DEF DeleteRow, Holding
  <1>2. /\ DBStep /\ nextId' = nextId /\ rows' \subseteq rows
    BY <1>1, Deleted DEF Inv, DeleteRow
  <1>3. TypeOK'
    BY <1>2, Troubled
    DEF Inv, TypeOK, WorldTypeOK, DBStep, DeleteRow, Goto, Pcs, InFlightPcs
  <1>4. Others(r)
    BY DEF Inv, TypeOK, Others, DeleteRow, Goto
  <1>5. RequestOK(r)' /\ HoldOK(r)' /\ AnswerOK(r)'
    BY <1>2 DEF Inv, TypeOK, RequestOK, HoldOK, AnswerOK, Holding, DeleteRow, Goto
  <1> QED BY <1>2, <1>3, <1>4, <1>5, OneRequest

LEMMA EventIsEvent ==
  ASSUME Inv, NEW r \in Reqs, evt[r] = "spawned" PROVE EventOf(r) \in Event
  BY RowFields DEF Inv, AnswerOK, EventOf, Event, NoId

LEMMA RecordEventInv ==
  ASSUME Inv, NEW r \in Reqs, RecordEvent(r) \/ RecordEventFails(r) PROVE Inv'
  <1>1. feed' \subseteq Event /\ UNCHANGED <<rows, nextId, disk, crs>>
    BY EventIsEvent DEF Inv, TypeOK, WorldTypeOK, RecordEvent, RecordEventFails, world
  <1>2. DBStep
    BY <1>1, SameTables DEF Inv
  <1>3. TypeOK'
    BY <1>1, Troubled DEF Inv, TypeOK, WorldTypeOK, RecordEvent, RecordEventFails
  <1>4. Others(r)
    BY DEF Inv, TypeOK, Others, RecordEvent, RecordEventFails
  <1>5. RequestOK(r)' /\ HoldOK(r)' /\ AnswerOK(r)'
    BY <1>1 DEF Inv, TypeOK, RequestOK, HoldOK, AnswerOK, Holding, RecordEvent,
                RecordEventFails
  <1> QED BY <1>2, <1>3, <1>4, <1>5, OneRequest

LEMMA CrashInv ==
  ASSUME Inv, Crash PROVE Inv'
  <1>1. TypeOK'
    BY Troubled DEF Inv, TypeOK, WorldTypeOK, Crash, Pcs, world
  <1>2. RowsOK'
    BY DEF Inv, RowsOK, Crash, world
  <1>3. ASSUME NEW r \in Reqs PROVE RequestOK(r)' /\ HoldOK(r)' /\ AnswerOK(r)'
    BY DEF Inv, TypeOK, RequestOK, HoldOK, AnswerOK, Holding, Crash, world, InFlight,
           InFlightPcs, Pcs
  <1> QED BY <1>1, <1>2, <1>3 DEF Inv

LEMMA StutterInv ==
  ASSUME Inv, UNCHANGED vars PROVE Inv'
  BY DEF Inv, vars, world, trouble, TypeOK, WorldTypeOK, RowsOK, RequestOK, HoldOK, AnswerOK

LEMMA StepInv == Inv /\ [Next]_vars => Inv'
  <1> SUFFICES ASSUME Inv, [Next]_vars PROVE Inv'
    OBVIOUS
  <1>1. ASSUME NEW r \in Reqs, Create(r) PROVE Inv'
    BY <1>1, RejectInv, CreateInsertInv, CreateInsertFailsInv, CreateInitInv,
       CreateRollbackInv, CreateFinishInv DEF Create
  <1>2. ASSUME NEW r \in Reqs, Change(r) PROVE Inv'
    BY <1>2, RejectInv, LoadInv, UpdateRowInv, DeleteRowInv, DeleteRowFailsInv,
       DeleteFinishInv DEF Change
  <1> QED
    BY <1>1, <1>2, SubmitInv, RecordEventInv, CrashInv, StutterInv DEF Next

LEMMA InvHolds == Spec => []Inv
  BY InitInv, StepInv, PTL DEF Spec

(* Type correctness of the handlers' state, for any values of the          *)
(* constants: no handler is ever at a point, or holds a row, that the code *)
(* does not know.                                                          *)
THEOREM TypeCorrect == Spec => []TypeOK
  <1>1. Inv => TypeOK
    BY DEF Inv
  <1> QED BY <1>1, InvHolds, PTL
-----------------------------------------------------------------------------
(* Who changes a row. *)

LEMMA HolderOf ==
  ASSUME Inv, NEW r \in Reqs, pc[r] \in Holding, NEW row \in rows, row.id = got[r].id
  PROVE  InFlight(r) /\ got[r] # NoRow /\ req[r].caller = Owner(row.key)
  BY DEF Inv, HoldOK, Holding, InFlight, InFlightPcs

LEMMA RemoverHolds ==
  ASSUME Inv, NEW r \in Reqs, pc[r] \in {"rollback", "delete"}, DeleteRepo(got[r].id)
  PROVE  OnlyHoldersAct
  <1>1. pc[r] \in Holding /\ req[r].op # "update"
    BY DEF Inv, RequestOK, Holding
  <1>2. rows' = {row \in rows : row.id # got[r].id}
    BY DEF DeleteRepo
  <1>3. ASSUME NEW row \in rows, row \notin rows' PROVE HolderActs(row)
    BY <1>1, <1>2, <1>3, HolderOf DEF HolderActs
  <1> QED BY <1>3 DEF OnlyHoldersAct

LEMMA UpdaterHolds ==
  ASSUME Inv, NEW r \in Reqs, pc[r] = "update",
         UpdateRepo(got[r].id, IsPrivate(req[r].body))
  PROVE  OnlyHoldersAct
  <1>1. pc[r] \in Holding /\ req[r].op = "update" /\ got[r].id \in Nat
    BY Held DEF Inv, RequestOK, Holding
  <1>2. /\ \A row \in rows : row.id # got[r].id => row \in rows'
        /\ \A row \in rows : \E new \in rows' :
             new.id = row.id /\ new.key = row.key /\ new.path = row.path
    BY <1>1, Updated DEF Inv, IsPrivate
  <1>3. ASSUME NEW row \in rows, row \notin rows' PROVE HolderActs(row)
    BY <1>1, <1>2, <1>3, HolderOf DEF HolderActs
  <1> QED BY <1>3 DEF OnlyHoldersAct

LEMMA OnlyHolders == Inv /\ [Next]_vars => [OnlyHoldersAct]_vars
  <1> SUFFICES ASSUME Inv, Next PROVE OnlyHoldersAct
    OBVIOUS
  <1>1. CASE rows \subseteq rows'
    BY <1>1 DEF OnlyHoldersAct
  <1>2. ASSUME NEW r \in Reqs, Create(r), ~ (rows \subseteq rows') PROVE OnlyHoldersAct
    <2>1. pc[r] = "rollback" /\ DeleteRepo(got[r].id)
      BY <1>2 DEF Create, CreateInvalid, CreateInsert, CreateConflict, CreateInsertFails,
         CreateInit, CreateInitFails, CreateRollback, CreateFinish, CreateRepo, world, db
    <2> QED BY <2>1, RemoverHolds
  <1>3. ASSUME NEW r \in Reqs, Change(r), ~ (rows \subseteq rows') PROVE OnlyHoldersAct
    <2>1. \/ pc[r] = "delete" /\ DeleteRepo(got[r].id)
          \/ pc[r] = "update" /\ UpdateRepo(got[r].id, IsPrivate(req[r].body))
      BY <1>3 DEF Change, LoadMissing, LoadFails, LoadForbidden, UpdateInvalid, Load,
         UpdateRow, UpdateRowFails, DeleteRow, DeleteRowFails, DeleteFinish, world, db
    <2> QED BY <2>1, RemoverHolds, UpdaterHolds
  <1> QED
    BY <1>1, <1>2, <1>3 DEF Next, Submit, RecordEvent, RecordEventFails, Crash, world

(* A handler acts on the row it loaded and on no other, for any number of  *)
(* requests: ids are given out once, and a statement names its row by id.  *)
THEOREM HandlersActOnWhatTheyLoaded == Spec => ActsOnWhatItLoaded
  BY InvHolds, OnlyHolders, PTL DEF Spec, ActsOnWhatItLoaded
-----------------------------------------------------------------------------
(* Each step of a handler is a step of the registry, or none.              *)

LEMMA OutcomeKept ==
  ASSUME NEW r \in Reqs, pc'[r] = pc[r], answer'[r] = answer[r], got'[r] = got[r]
  PROVE  Outcome(r)' = Outcome(r)
  BY DEF Outcome

\* What a handler's point and answer make of its outcome.
OutcomeIs(r) ==
  /\ pc[r] \in {"idle", "create", "load", "update", "delete"} =>
       Outcome(r) = [kind |-> "none", id |-> 0]
  /\ pc[r] \in {"init", "rollback", "cr"} =>
       Outcome(r) = [kind |-> "tentative", id |-> got[r].id]
  /\ pc[r] = "rm" => Outcome(r) = [kind |-> "removing", id |-> got[r].id]
  /\ pc[r] = "dead" => Outcome(r) = [kind |-> "dead", id |-> 0]
  /\ pc[r] = "done" =>
       /\ answer[r] = 201 => Outcome(r) = [kind |-> "created", id |-> got[r].id]
       /\ answer[r] = 204 => Outcome(r) = [kind |-> "removed", id |-> got[r].id]
       /\ answer[r] = 409 => Outcome(r) = [kind |-> "conflict", id |-> 0]
       /\ answer[r] = 404 => Outcome(r) = [kind |-> "missing", id |-> 0]
       /\ answer[r] = 200 => Outcome(r) = [kind |-> "updated", id |-> 0]
       /\ answer[r] \in {400, 403, 500} => Outcome(r) = [kind |-> "refused", id |-> 0]

OutcomesAre == \A r \in Reqs : OutcomeIs(r)

LEMMA OutcomeNow == Inv => \A r \in Reqs : OutcomeIs(r)
  <1> SUFFICES ASSUME Inv, NEW r \in Reqs PROVE OutcomeIs(r)
    OBVIOUS
  <1>1. (pc[r] = "done") <=> (answer[r] # 0)
    BY DEF Inv, AnswerOK
  <1> QED BY <1>1 DEF Outcome, OutcomeIs

LEMMA OutcomeNext == Inv' => \A r \in Reqs : OutcomeIs(r)'
  <1>1. Inv => OutcomesAre
    BY OutcomeNow DEF OutcomesAre
  <1>2. Inv' => OutcomesAre'
    BY <1>1, PTL
  <1> QED BY <1>2 DEF OutcomesAre

LEMMA OutcomesBecome ==
  ASSUME NEW r \in Reqs, Others(r)
  PROVE  Outcomes' = [Outcomes EXCEPT ![r] = Outcome(r)']
  BY OutcomeKept DEF Others, Outcomes

LEMMA TableEntries ==
  /\ \A e \in Table : \E row \in rows :
       e = [id |-> row.id, key |-> row.key] /\ e.id = row.id /\ e.key = row.key
  /\ \A row \in rows : [id |-> row.id, key |-> row.key] \in Table
  BY DEF Table

LEMMA RegisteredIsTaken ==
  ASSUME NEW k \in Keys PROVE Registry!Registered(k) <=> Taken(k)
  BY TableEntries DEF Registry!Registered, Taken, RowsOf

LEMMA CreatedAdds ==
  ASSUME Inv, NEW k \in Keys, NEW p \in BOOLEAN, CreateRepo(k, p)
  PROVE  Registry!AddEntry(k)
  <1> DEFINE new == NewRow(k, p)
  <1>1. new.id = nextId /\ new.key = k
    BY NewRowIsRow DEF Inv
  <1>2. rows' = rows \cup {new} /\ nextId' = nextId + 1 /\ ~ Taken(k)
    BY DEF CreateRepo
  <1> HIDE DEF new
  <1>3. Table' = Table \cup {[id |-> nextId, key |-> k]}
    BY <1>1, <1>2 DEF Table
  <1> QED BY <1>2, <1>3, RegisteredIsTaken DEF Registry!AddEntry

LEMMA DeletedDrops ==
  ASSUME NEW i, DeleteRepo(i) PROVE Registry!DropEntry(i)
  <1>1. rows' = {row \in rows : row.id # i} /\ nextId' = nextId
    BY DEF DeleteRepo
  <1>2. \A row \in rows : [id |-> row.id, key |-> row.key].id = row.id
    OBVIOUS
  <1>3. Table' = {e \in Table : e.id # i}
    BY <1>1, <1>2 DEF Table
  <1> QED BY <1>1, <1>3 DEF Registry!DropEntry

LEMMA UpdatedKeeps ==
  ASSUME Inv, NEW i \in Nat, NEW p \in BOOLEAN, UpdateRepo(i, p)
  PROVE  UNCHANGED <<Table, nextId>>
  <1>1. /\ nextId' = nextId
        /\ \A row \in rows : \E new \in rows' : new.id = row.id /\ new.key = row.key
        /\ \A new \in rows' : \E row \in rows : new.id = row.id /\ new.key = row.key
    BY Updated DEF Inv
  <1> QED BY <1>1 DEF Table

LEMMA SameTable ==
  ASSUME UNCHANGED db \/ UNCHANGED world \/ UNCHANGED <<rows, nextId>>
  PROVE  UNCHANGED <<Table, nextId>>
  BY DEF db, world, Table

LEMMA InitMaps == Init => Registry!Init
  BY DEF Init, WorldInit, Registry!Init, Registry!Plain, Table, Outcomes, Outcome

\* A step of r that the table does not see, and that leaves r's outcome alone.
LEMMA Silent ==
  ASSUME NEW r \in Reqs, Others(r), UNCHANGED <<Table, nextId>>,
         Outcome(r)' = Outcome(r)
  PROVE  UNCHANGED Registry!vars
  <1>1. Outcomes' = Outcomes
    BY OutcomesBecome DEF Outcomes
  <1> QED BY <1>1 DEF Registry!vars

\* An error answer, whatever the failed step did to the table.
LEMMA Refused ==
  ASSUME Inv, Inv', NEW r \in Reqs, Others(r),
         pc[r] \in {"create", "load", "update", "delete"}, pc'[r] = "done",
         answer'[r] \in {400, 403, 500},
         \/ UNCHANGED <<Table, nextId>>
         \/ \E k \in Keys : Registry!AddEntry(k)
         \/ \E e \in Table : Registry!DropEntry(e.id)
  PROVE  Registry!Refuse(r)
  <1>1. Outcome(r) = [kind |-> "none", id |-> 0] /\ Outcome(r)' = [kind |-> "refused", id |-> 0]
    BY OutcomeNow, OutcomeNext DEF OutcomeIs
  <1>2. Outcomes[r].kind = "none" /\ Outcomes' = [Outcomes EXCEPT ![r] = Outcome(r)']
    BY <1>1, OutcomesBecome DEF Outcomes
  <1> QED BY <1>1, <1>2 DEF Registry!Refuse, Registry!Becomes, Registry!Plain

LEMMA RejectMaps ==
  ASSUME Inv, Inv', NEW r \in Reqs,
         CreateInvalid(r) \/ LoadFails(r) \/ LoadForbidden(r) \/ UpdateInvalid(r)
  PROVE  Registry!Refuse(r)
  <1>1. /\ pc[r] \in {"create", "load"} /\ pc'[r] = "done" /\ Others(r)
        /\ answer'[r] \in {400, 403, 500} /\ UNCHANGED world
    BY DEF Inv, TypeOK, Others, Reply, Goto, CreateInvalid, LoadFails, LoadForbidden,
           UpdateInvalid
  <1> QED BY <1>1, Refused, SameTable

LEMMA FailureMaps ==
  ASSUME Inv, Inv', NEW r \in Reqs,
         CreateInsertFails(r) \/ UpdateRowFails(r) \/ DeleteRowFails(r)
  PROVE  Registry!Refuse(r)
  <1>1. /\ pc[r] \in {"create", "update", "delete"} /\ pc'[r] = "done" /\ Others(r)
        /\ answer'[r] \in {400, 403, 500}
    BY DEF Inv, TypeOK, Others, Reply, Goto, CreateInsertFails, UpdateRowFails,
           DeleteRowFails
  <1>2. \/ UNCHANGED <<Table, nextId>>
        \/ \E k \in Keys : Registry!AddEntry(k)
        \/ \E e \in Table : Registry!DropEntry(e.id)
    <2>1. CASE CreateInsertFails(r)
      <3>1. req[r].key \in Keys /\ IsPrivate(req[r].body) \in BOOLEAN
        BY <2>1, RequestFields DEF Inv, RequestOK, CreateInsertFails, IsPrivate
      <3> QED BY <2>1, <3>1, CreatedAdds, SameTable DEF CreateInsertFails
    <2>2. CASE UpdateRowFails(r)
      <3>1. got[r].id \in Nat /\ IsPrivate(req[r].body) \in BOOLEAN
        BY <2>2, Held DEF UpdateRowFails, Holding, IsPrivate
      <3> QED BY <2>2, <3>1, UpdatedKeeps, SameTable DEF UpdateRowFails
    <2>3. CASE DeleteRowFails(r)
      <3>1. CASE UNCHANGED db
        BY <3>1, SameTable
      <3>2. CASE DeleteRepo(got[r].id) /\ ~ Live(got[r].id)
        <4>1. rows' = rows /\ nextId' = nextId
          BY <3>2 DEF DeleteRepo, Live
        <4> QED BY <4>1, SameTable
      <3>3. CASE DeleteRepo(got[r].id) /\ Live(got[r].id)
        <4>1. PICK row \in rows : row.id = got[r].id
          BY <3>3 DEF Live
        <4>2. \E e \in Table : e.id = got[r].id
          BY <4>1, TableEntries
        <4> QED BY <3>3, <4>2, DeletedDrops
      <3> QED BY <2>3, <3>1, <3>2, <3>3 DEF DeleteRowFails
    <2> QED BY <2>1, <2>2, <2>3
  <1> QED BY <1>1, <1>2, Refused

LEMMA AnswerMaps ==
  ASSUME Inv, Inv', NEW r \in Reqs, CreateConflict(r) \/ LoadMissing(r) \/ UpdateRow(r)
  PROVE  \E k \in Keys : \/ Registry!Conflict(r, k) \/ Registry!Missing(r, k)
                         \/ Registry!Update(r, k)
  <1> DEFINE k == req[r].key
  <1>1. k \in Keys
    BY RequestFields DEF Inv, RequestOK, CreateConflict, LoadMissing, UpdateRow
  <1>2. /\ Others(r) /\ pc'[r] = "done"
        /\ pc[r] \in {"create", "load", "update"}
    BY DEF Inv, TypeOK, Others, Reply, Goto, CreateConflict, LoadMissing, UpdateRow
  <1>3. UNCHANGED <<Table, nextId>>
    <2>1. CASE UpdateRow(r)
      <3>1. got[r].id \in Nat /\ IsPrivate(req[r].body) \in BOOLEAN
        BY <2>1, Held DEF UpdateRow, Holding, IsPrivate
      <3> QED BY <2>1, <3>1, UpdatedKeeps DEF UpdateRow
    <2> QED BY <2>1, SameTable DEF CreateConflict, LoadMissing
  <1>4. /\ Outcomes[r].kind = "none"
        /\ Outcomes' = [Outcomes EXCEPT ![r] = Outcome(r)']
    BY <1>2, OutcomeNow, OutcomesBecome DEF OutcomeIs, Outcomes
  <1>5. CASE CreateConflict(r)
    <2>1. answer'[r] = 409 /\ Registry!Registered(k)
      BY <1>1, <1>5, RegisteredIsTaken DEF Inv, TypeOK, CreateConflict, Reply
    <2>2. Outcome(r)' = [kind |-> "conflict", id |-> 0]
      BY <1>2, <2>1, OutcomeNext DEF OutcomeIs
    <2>3. Registry!Conflict(r, k)
      BY <1>3, <1>4, <2>1, <2>2 DEF Registry!Conflict, Registry!Becomes, Registry!Plain
    <2> QED BY <1>1, <2>3
  <1>6. CASE LoadMissing(r)
    <2>1. answer'[r] = 404 /\ ~ Registry!Registered(k)
      BY <1>1, <1>6, RegisteredIsTaken DEF Inv, TypeOK, LoadMissing, Reply
    <2>2. Outcome(r)' = [kind |-> "missing", id |-> 0]
      BY <1>2, <2>1, OutcomeNext DEF OutcomeIs
    <2>3. Registry!Missing(r, k)
      BY <1>3, <1>4, <2>1, <2>2 DEF Registry!Missing, Registry!Becomes, Registry!Plain
    <2> QED BY <1>1, <2>3
  <1>7. CASE UpdateRow(r)
    <2>1. answer'[r] = 200 /\ Taken(k)
      <3>1. PICK row \in rows : row.id = got[r].id
        BY <1>7 DEF UpdateRow, Live
      <3>2. row.key = k
        BY <1>7, <3>1 DEF Inv, HoldOK, Holding, UpdateRow
      <3> QED BY <1>7, <3>1, <3>2 DEF Inv, TypeOK, UpdateRow, Reply, Taken, RowsOf
    <2>2. Outcome(r)' = [kind |-> "updated", id |-> 0] /\ Registry!Registered(k)
      BY <1>1, <1>2, <2>1, OutcomeNext, RegisteredIsTaken DEF OutcomeIs
    <2>3. Registry!Update(r, k)
      BY <1>3, <1>4, <2>2 DEF Registry!Update, Registry!Becomes, Registry!Plain
    <2> QED BY <1>1, <2>3
  <1> QED BY <1>5, <1>6, <1>7

LEMMA InsertMaps ==
  ASSUME Inv, Inv', NEW r \in Reqs, CreateInsert(r)
  PROVE  \E k \in Keys : Registry!Register(r, k)
  <1> DEFINE k == req[r].key
             p == IsPrivate(req[r].body)
  <1>1. k \in Keys /\ p \in BOOLEAN
    BY RequestFields DEF Inv, RequestOK, CreateInsert, IsPrivate
  <1>2. /\ Others(r) /\ pc[r] = "create" /\ pc'[r] = "init"
        /\ got'[r] = NewRow(k, p)
    BY DEF Inv, TypeOK, Others, Goto, CreateInsert
  <1>3. NewRow(k, p).id = nextId
    BY <1>1, NewRowIsRow DEF Inv
  <1>4. Registry!AddEntry(k)
    BY <1>1, CreatedAdds DEF CreateInsert
  <1>5. Outcome(r)' = [kind |-> "tentative", id |-> nextId]
    BY <1>2, <1>3, OutcomeNext DEF OutcomeIs
  <1>6. /\ Outcomes[r].kind = "none"
        /\ Outcomes' = [Outcomes EXCEPT ![r] = Outcome(r)']
    BY <1>2, OutcomeNow, OutcomesBecome DEF OutcomeIs, Outcomes
  <1> QED
    BY <1>1, <1>4, <1>5, <1>6 DEF Registry!Register, Registry!Becomes

LEMMA DeleteMaps ==
  ASSUME Inv, Inv', NEW r \in Reqs, DeleteRow(r)
  PROVE  \E e \in Table : Registry!Unregister(r, e)
  <1>1. /\ Others(r) /\ pc[r] = "delete" /\ pc'[r] = "rm" /\ got'[r] = got[r]
    BY DEF Inv, TypeOK, Others, Goto, DeleteRow
  <1>2. PICK row \in rows : row.id = got[r].id
    BY DEF DeleteRow, Live
  <1>3. PICK e \in Table : e.id = got[r].id
    BY <1>2, TableEntries
  <1>4. Registry!DropEntry(e.id)
    BY <1>3, DeletedDrops DEF DeleteRow
  <1>5. Outcome(r)' = [kind |-> "removing", id |-> e.id]
    BY <1>1, <1>3, OutcomeNext DEF OutcomeIs
  <1>6. /\ Outcomes[r].kind = "none"
        /\ Outcomes' = [Outcomes EXCEPT ![r] = Outcome(r)']
    BY <1>1, OutcomeNow, OutcomesBecome DEF OutcomeIs, Outcomes
  <1> QED
    BY <1>4, <1>5, <1>6 DEF Registry!Unregister, Registry!Becomes

LEMMA FinishMaps ==
  ASSUME Inv, Inv', NEW r \in Reqs, CreateRollback(r) \/ CreateFinish(r) \/ DeleteFinish(r)
  PROVE  Registry!Withdraw(r) \/ Registry!Confirm(r) \/ Registry!Removed(r)
  <1>1. /\ Others(r) /\ pc'[r] = "done" /\ got'[r] = got[r]
        /\ pc[r] \in {"rollback", "cr", "rm"}
    BY DEF Inv, TypeOK, Others, Reply, Goto, CreateRollback, CreateFinish, DeleteFinish
  <1>2. Outcomes' = [Outcomes EXCEPT ![r] = Outcome(r)'] /\ Outcomes[r] = Outcome(r)
    BY <1>1, OutcomesBecome DEF Outcomes
  <1>3. CASE CreateRollback(r)
    <2>1. Outcome(r) = [kind |-> "tentative", id |-> got[r].id] /\ answer'[r] = 500
      BY <1>3, OutcomeNow DEF Inv, TypeOK, OutcomeIs, CreateRollback, Reply
    <2>2. Outcome(r)' = [kind |-> "refused", id |-> 0]
      BY <1>1, <2>1, OutcomeNext DEF OutcomeIs
    <2>3. Registry!DropEntry(got[r].id) \/ UNCHANGED <<Table, nextId>>
      BY <1>3, DeletedDrops, SameTable DEF CreateRollback
    <2> QED
      BY <1>2, <2>1, <2>2, <2>3 DEF Registry!Withdraw, Registry!Becomes, Registry!Plain
  <1>4. CASE CreateFinish(r)
    <2>1. Outcome(r) = [kind |-> "tentative", id |-> got[r].id] /\ answer'[r] = 201
      BY <1>4, OutcomeNow DEF Inv, TypeOK, OutcomeIs, CreateFinish, Reply
    <2>2. Outcome(r)' = [kind |-> "created", id |-> got[r].id]
      BY <1>1, <2>1, OutcomeNext DEF OutcomeIs
    <2>3. UNCHANGED <<Table, nextId>>
      BY <1>4, SameTable DEF CreateFinish
    <2>4. Outcome(r)' = [Outcome(r) EXCEPT !.kind = "created"]
      BY <2>1, <2>2
    <2> QED
      BY <1>2, <2>1, <2>3, <2>4 DEF Registry!Confirm, Registry!Becomes
  <1>5. CASE DeleteFinish(r)
    <2>1. Outcome(r) = [kind |-> "removing", id |-> got[r].id] /\ answer'[r] = 204
      BY <1>5, OutcomeNow DEF Inv, TypeOK, OutcomeIs, DeleteFinish, Reply
    <2>2. Outcome(r)' = [kind |-> "removed", id |-> got[r].id]
      BY <1>1, <2>1, OutcomeNext DEF OutcomeIs
    <2>3. UNCHANGED <<Table, nextId>>
      BY <1>5, SameTable DEF DeleteFinish
    <2>4. Outcome(r)' = [Outcome(r) EXCEPT !.kind = "removed"]
      BY <2>1, <2>2
    <2> QED
      BY <1>2, <2>1, <2>3, <2>4 DEF Registry!Removed, Registry!Becomes
  <1> QED BY <1>3, <1>4, <1>5

LEMMA SilentMaps ==
  ASSUME Inv, Inv', NEW r \in Reqs,
         \/ \E q \in Traffic : Submit(r, q)
         \/ CreateInit(r) \/ CreateInitFails(r) \/ Load(r)
         \/ RecordEvent(r) \/ RecordEventFails(r)
  PROVE  UNCHANGED Registry!vars
  <1>1. Others(r)
    BY DEF Inv, TypeOK, Others, Goto, Submit, CreateInit, CreateInitFails, Load,
           RecordEvent, RecordEventFails
  <1>2. UNCHANGED <<Table, nextId>>
    BY SameTable DEF Submit, CreateInit, CreateInitFails, Load, RecordEvent,
                     RecordEventFails, world
  <1>3. CASE RecordEvent(r) \/ RecordEventFails(r)
    <2>1. Outcome(r)' = Outcome(r)
      BY <1>3, OutcomeKept DEF RecordEvent, RecordEventFails
    <2> QED BY <1>1, <1>2, <2>1, Silent
  <1>4. CASE CreateInit(r) \/ CreateInitFails(r)
    <2>1. /\ pc[r] \in {"init", "rollback", "cr"} /\ pc'[r] \in {"init", "rollback", "cr"}
          /\ got'[r] = got[r]
      BY <1>4 DEF Inv, TypeOK, Goto, CreateInit, CreateInitFails
    <2>2. Outcome(r)' = Outcome(r)
      BY <2>1, OutcomeNow, OutcomeNext DEF OutcomeIs
    <2> QED BY <1>1, <1>2, <2>2, Silent
  <1>5. CASE (\E q \in Traffic : Submit(r, q)) \/ Load(r)
    <2>1. /\ pc[r] \in {"idle", "load"}
          /\ pc'[r] \in {"create", "load", "update", "delete"}
      BY <1>5 DEF Inv, TypeOK, RequestOK, Request, Goto, Submit, Load
    <2>2. Outcome(r)' = Outcome(r)
      BY <2>1, OutcomeNow, OutcomeNext DEF OutcomeIs
    <2> QED BY <1>1, <1>2, <2>2, Silent
  <1> QED BY <1>3, <1>4, <1>5

LEMMA CrashMaps ==
  ASSUME Inv, Inv', Crash PROVE Registry!Crash
  <1> DEFINE S == {r \in Reqs : InFlight(r)}
  <1>1. UNCHANGED <<Table, nextId>>
    BY SameTable DEF Crash
  <1>2. ASSUME NEW r \in S
        PROVE  /\ Outcome(r).kind \in {"none", "tentative", "removing"}
               /\ Outcome(r)' = [kind |-> "dead", id |-> 0]
    <2>1. pc[r] \in InFlightPcs /\ pc'[r] = "dead"
      BY DEF Crash, InFlight
    <2>2. Outcome(r).kind \in {"none", "tentative", "removing"}
      BY <2>1, OutcomeNow DEF OutcomeIs, InFlightPcs
    <2>3. Outcome(r)' = [kind |-> "dead", id |-> 0]
      BY <2>1, OutcomeNext DEF OutcomeIs
    <2> QED BY <2>2, <2>3
  <1>3. ASSUME NEW r \in Reqs, r \notin S PROVE Outcome(r)' = Outcome(r)
    BY <1>3, OutcomeKept DEF Crash
  <1>4. /\ \A r \in S : Outcomes[r].kind \in {"none", "tentative", "removing"}
        /\ Outcomes' = [r \in Reqs |-> IF r \in S THEN [kind |-> "dead", id |-> 0]
                                       ELSE Outcomes[r]]
    BY <1>2, <1>3 DEF Outcomes
  <1> QED BY <1>1, <1>4 DEF Registry!Crash, Registry!Plain

LEMMA StepMaps == Inv /\ Inv' /\ [Next]_vars => [Registry!Next]_(Registry!vars)
  <1> SUFFICES ASSUME Inv, Inv', [Next]_vars PROVE [Registry!Next]_(Registry!vars)
    OBVIOUS
  <1>1. CASE UNCHANGED vars
    BY <1>1 DEF vars, world, Table, Outcomes, Outcome, Registry!vars
  <1>2. CASE Crash
    BY <1>2, CrashMaps DEF Registry!Next
  <1>3. ASSUME NEW r \in Reqs, NEW q \in Traffic, Submit(r, q)
        PROVE  [Registry!Next]_(Registry!vars)
    BY <1>3, SilentMaps
  <1>4. ASSUME NEW r \in Reqs, Create(r) PROVE [Registry!Next]_(Registry!vars)
    BY <1>4, RejectMaps, FailureMaps, AnswerMaps, InsertMaps, FinishMaps, SilentMaps
    DEF Create, Registry!Next
  <1>5. ASSUME NEW r \in Reqs, Change(r) PROVE [Registry!Next]_(Registry!vars)
    BY <1>5, RejectMaps, FailureMaps, AnswerMaps, DeleteMaps, FinishMaps, SilentMaps
    DEF Change, Registry!Next
  <1>6. ASSUME NEW r \in Reqs, RecordEvent(r) \/ RecordEventFails(r)
        PROVE  [Registry!Next]_(Registry!vars)
    BY <1>6, SilentMaps
  <1> QED BY <1>1, <1>2, <1>3, <1>4, <1>5, <1>6 DEF Next

(* The handlers implement the registry, for any number of requests, users, *)
(* names and failures: every answer is explained by one atomic change of   *)
(* the table of repositories, although Create (repos.go:63) inserts, may   *)
(* take back and then answers, and Update and Delete read before they act. *)
THEOREM HandlersImplementRegistry == Spec => ImplementsRegistry
  BY InvHolds, InitMaps, StepMaps, PTL DEF Spec, ImplementsRegistry, Registry!Spec

RegistryFacts == INSTANCE RepoRegistryProofs WITH
  reg <- Table, fresh <- nextId, outcome <- Outcomes

(* Two different answers never concern the same registration: no two 201s  *)
(* name one repository, no two 204s claim one removal, and what a 204 says *)
(* is gone is not in the table again.                                      *)
THEOREM AnswersNeverShareAnId == Spec => []AnswersConcernDistinctIds
  <1>1. Registry!Init => RegistryFacts!Init
    BY DEF Registry!Init, RegistryFacts!Init, Registry!Plain, RegistryFacts!Plain
  <1>2. [Registry!Next]_(Registry!vars) => [RegistryFacts!Next]_(RegistryFacts!vars)
    BY DEF
       Registry!vars, RegistryFacts!vars, Registry!Next, RegistryFacts!Next,
       Registry!Register, RegistryFacts!Register, Registry!Conflict,
       RegistryFacts!Conflict, Registry!Missing, RegistryFacts!Missing,
       Registry!Update, RegistryFacts!Update, Registry!Unregister,
       RegistryFacts!Unregister, Registry!Withdraw, RegistryFacts!Withdraw,
       Registry!Confirm, RegistryFacts!Confirm, Registry!Removed,
       RegistryFacts!Removed, Registry!Refuse, RegistryFacts!Refuse,
       Registry!Crash, RegistryFacts!Crash, Registry!AddEntry,
       RegistryFacts!AddEntry, Registry!DropEntry, RegistryFacts!DropEntry,
       Registry!Becomes, RegistryFacts!Becomes, Registry!Plain,
       RegistryFacts!Plain, Registry!Registered, RegistryFacts!Registered
  <1>3. RegistryFacts!EachIdOnce => AnswersConcernDistinctIds
    BY DEF RegistryFacts!EachIdOnce, Registry!EachIdOnce, AnswersConcernDistinctIds
  <1>4. RegistryFacts!Spec => []RegistryFacts!EachIdOnce
    BY RegistryFacts!IdsAnsweredOnce
  <1> QED
    BY <1>1, <1>2, <1>3, <1>4, HandlersImplementRegistry, PTL
    DEF ImplementsRegistry, Registry!Spec, RegistryFacts!Spec
-----------------------------------------------------------------------------
(* The steps of one request, by what they do to the tables.                *)
StepOf(r) == \/ \E q \in Traffic : Submit(r, q)
             \/ Create(r) \/ Change(r) \/ RecordEvent(r) \/ RecordEventFails(r)

TableStep(r) ==
  \/ UNCHANGED db
  \/ pc[r] = "create" /\ CreateRepo(req[r].key, IsPrivate(req[r].body))
  \/ pc[r] = "update" /\ UpdateRepo(got[r].id, IsPrivate(req[r].body))
  \/ pc[r] \in {"rollback", "delete"} /\ DeleteRepo(got[r].id)
  \/ /\ evt[r] = "spawned" /\ (EventOf(r).repo # NoId => Live(EventOf(r).repo))
     /\ UNCHANGED <<rows, nextId>> /\ feed' = feed \cup {EventOf(r)}

LEMMA NextIsOf ==
  Next <=> (\E r \in Reqs : StepOf(r)) \/ Crash
  BY DEF Next, StepOf

LEMMA APITrouble == Next => Fault \/ Break \/ NoTrouble
  BY DEF Next, Create, Change, Submit, RecordEvent, RecordEventFails, Crash,
     CreateInvalid, CreateInsert, CreateConflict, CreateInsertFails, CreateInit,
     CreateInitFails, CreateRollback, CreateFinish, LoadMissing, LoadFails, LoadForbidden,
     UpdateInvalid, Load, UpdateRow, UpdateRowFails, DeleteRow, DeleteRowFails, DeleteFinish

LEMMA OthersStay ==
  ASSUME Inv, NEW r \in Reqs, StepOf(r) PROVE Others(r)
  <1>1. CASE \E q \in Traffic : Submit(r, q)
    BY <1>1 DEF Inv, TypeOK, Others, Submit, Goto
  <1>2. CASE Create(r)
    BY <1>2 DEF Inv, TypeOK, Others, Goto, Reply, Create, CreateInvalid, CreateInsert,
       CreateConflict, CreateInsertFails, CreateInit, CreateInitFails, CreateRollback,
       CreateFinish
  <1>3. CASE Change(r)
    BY <1>3 DEF Inv, TypeOK, Others, Goto, Reply, Change, LoadMissing, LoadFails,
       LoadForbidden, UpdateInvalid, Load, UpdateRow, UpdateRowFails, DeleteRow,
       DeleteRowFails, DeleteFinish
  <1>4. CASE RecordEvent(r) \/ RecordEventFails(r)
    BY <1>4 DEF Inv, TypeOK, Others, RecordEvent, RecordEventFails
  <1> QED BY <1>1, <1>2, <1>3, <1>4 DEF StepOf

LEMMA TablesStep ==
  ASSUME NEW r \in Reqs, StepOf(r) PROVE TableStep(r)
  <1>1. CASE \E q \in Traffic : Submit(r, q)
    BY <1>1 DEF TableStep, Submit, world, db
  <1>2. CASE Create(r)
    BY <1>2 DEF TableStep, world, db, Create, CreateInvalid, CreateInsert,
       CreateConflict, CreateInsertFails, CreateInit, CreateInitFails, CreateRollback,
       CreateFinish
  <1>3. CASE Change(r)
    BY <1>3 DEF TableStep, world, db, Change, LoadMissing, LoadFails,
       LoadForbidden, UpdateInvalid, Load, UpdateRow, UpdateRowFails, DeleteRow,
       DeleteRowFails, DeleteFinish
  <1>4. CASE RecordEvent(r) \/ RecordEventFails(r)
    BY <1>4 DEF TableStep, RecordEvent, RecordEventFails, world, db
  <1> QED BY <1>1, <1>2, <1>3, <1>4 DEF StepOf

LEMMA TableStepIs ==
  ASSUME Inv, NEW r \in Reqs, TableStep(r) PROVE DBStep
  <1>1. ASSUME pc[r] # "idle" PROVE IsPrivate(req[r].body) \in BOOLEAN /\ req[r].key \in Keys
    BY <1>1, RequestFields DEF Inv, RequestOK, IsPrivate
  <1>2. pc[r] \in {"update", "rollback", "delete"} => got[r].id \in Nat
    BY Held DEF Holding
  <1>3. evt[r] = "spawned" => EventOf(r) \in Event
    BY EventIsEvent
  <1>4. CASE UNCHANGED db
    BY <1>4, SameTables DEF Inv, TypeOK, WorldTypeOK, db
  <1>5. CASE pc[r] = "create" /\ CreateRepo(req[r].key, IsPrivate(req[r].body))
    BY <1>1, <1>5, Created DEF Inv
  <1>6. CASE pc[r] = "update" /\ UpdateRepo(got[r].id, IsPrivate(req[r].body))
    BY <1>1, <1>2, <1>6, Updated DEF Inv
  <1>7. CASE pc[r] \in {"rollback", "delete"} /\ DeleteRepo(got[r].id)
    BY <1>2, <1>7, Deleted DEF Inv
  <1>8. CASE /\ evt[r] = "spawned" /\ UNCHANGED <<rows, nextId>>
             /\ feed' = feed \cup {EventOf(r)}
    BY <1>3, <1>8, SameTables DEF Inv, TypeOK, WorldTypeOK
  <1> QED BY <1>4, <1>5, <1>6, <1>7, <1>8 DEF TableStep
-----------------------------------------------------------------------------
(* What makes the feed truthful.  An event is recorded by the goroutine of *)
(* a request that was answered, and is what that request would record; the *)
(* id a deletion took away is given out and gone for good; and what an     *)
(* event is about is there, since the foreign key takes the event away     *)
(* with the row.                                                           *)
FeedLive == \A e \in feed : e.repo # NoId => Live(e.repo)
Reported(r) ==
  evt[r] # "none" => \/ req[r].op = "create" /\ answer[r] = 201
                     \/ req[r].op = "delete" /\ answer[r] = 204
GoneForGood(r) ==
  pc[r] = "rm" \/ answer[r] = 204 => ~ Live(got[r].id) /\ got[r].id < nextId
OwnEvents(r) == \A e \in feed : e.by = r => evt[r] = "stored" /\ e = EventOf(r)

FeedInv == /\ Inv /\ FeedLive
           /\ \A r \in Reqs : Reported(r) /\ GoneForGood(r) /\ OwnEvents(r)

LEMMA FeedInitInv == Init => FeedInv
  BY InitInv DEF Init, WorldInit, FeedInv, FeedLive, Reported, GoneForGood, OwnEvents

LEMMA EventOfBy ==
  ASSUME NEW r
  PROVE  /\ EventOf(r).by = r
         /\ req[r].op = "create" =>
              EventOf(r).repo = got[r].id /\ EventOf(r).type = "repo.create"
         /\ req[r].op # "create" =>
              EventOf(r).repo = NoId /\ EventOf(r).type = "repo.delete"
  BY DEF EventOf

\* An id that was given out and is gone stays gone.
LEMMA GoneStaysGone ==
  ASSUME Inv, DBStep, NEW i \in Nat, ~ Live(i), i < nextId
  PROVE  ~ Live(i)' /\ i < nextId'
  <1>1. nextId \in Nat /\ nextId' \in Nat /\ nextId <= nextId'
    BY DEF DBStep, Inv, TypeOK, WorldTypeOK, Ids
  <1>2. \A new \in rows' : new.id \in Nat
    BY RowFields DEF DBStep
  <1> QED BY <1>1, <1>2 DEF DBStep, Live

\* What the tables' steps do to the events, and to what the events are about.
LEMMA FeedStaysLive ==
  ASSUME FeedInv, NEW r \in Reqs, TableStep(r)
  PROVE  FeedLive' /\ feed' \subseteq feed \cup {EventOf(r)}
  <1>1. IsPrivate(req[r].body) \in BOOLEAN
    BY DEF IsPrivate
  <1>2. pc[r] = "update" => got[r].id \in Nat
    BY Held DEF FeedInv, Holding
  <1>3. CASE UNCHANGED db
    BY <1>3 DEF FeedInv, FeedLive, Live, db
  <1>4. CASE pc[r] = "create" /\ CreateRepo(req[r].key, IsPrivate(req[r].body))
    BY <1>4 DEF FeedInv, FeedLive, Live, CreateRepo
  <1>5. CASE pc[r] = "update" /\ UpdateRepo(got[r].id, IsPrivate(req[r].body))
    <2>1. \A row \in rows : \E new \in rows' : new.id = row.id
      BY <1>1, <1>2, <1>5, Updated DEF FeedInv, Inv
    <2>2. feed' = feed
      BY <1>5 DEF UpdateRepo
    <2> QED BY <2>1, <2>2 DEF FeedInv, FeedLive, Live
  <1>6. CASE pc[r] \in {"rollback", "delete"} /\ DeleteRepo(got[r].id)
    BY <1>6 DEF FeedInv, FeedLive, Live, DeleteRepo
  <1>7. CASE /\ evt[r] = "spawned" /\ (EventOf(r).repo # NoId => Live(EventOf(r).repo))
             /\ UNCHANGED <<rows, nextId>> /\ feed' = feed \cup {EventOf(r)}
    BY <1>7 DEF FeedInv, FeedLive, Live
  <1> QED BY <1>3, <1>4, <1>5, <1>6, <1>7 DEF TableStep

\* What a step of another request leaves of r's part.
LEMMA OthersReport ==
  ASSUME FeedInv, DBStep, NEW r \in Reqs, NEW s \in Reqs, s # r, Others(r),
         feed' \subseteq feed \cup {EventOf(r)}
  PROVE  Reported(s)' /\ GoneForGood(s)' /\ OwnEvents(s)'
  <1>1. /\ pc'[s] = pc[s] /\ req'[s] = req[s] /\ got'[s] = got[s]
        /\ answer'[s] = answer[s] /\ evt'[s] = evt[s]
    BY DEF Others
  <1>2. Reported(s)'
    BY <1>1 DEF FeedInv, Reported
  <1>3. GoneForGood(s)'
    <2>1. pc[s] = "rm" \/ answer[s] = 204 => got[s].id \in Nat
      BY Held, RowFields DEF FeedInv, Inv, AnswerOK, Holding
    <2> QED BY <1>1, <2>1, GoneStaysGone DEF FeedInv, GoneForGood
  <1>4. OwnEvents(s)'
    <2>1. EventOf(s)' = EventOf(s)
      BY <1>1 DEF EventOf
    <2> QED BY <1>1, <2>1, EventOfBy DEF FeedInv, OwnEvents
  <1> QED BY <1>2, <1>3, <1>4

\* A request that has not been answered has nothing in the feed.
LEMMA SilentTillAnswered ==
  ASSUME FeedInv, NEW r \in Reqs, pc[r] # "done"
  PROVE  evt[r] = "none" /\ answer[r] = 0 /\ \A e \in feed : e.by # r
  BY DEF FeedInv, Inv, AnswerOK, OwnEvents

LEMMA UnreportedStep ==
  ASSUME FeedInv, NEW r \in Reqs, pc[r] # "done", evt'[r] = evt[r], feed' \subseteq feed,
         pc'[r] # "rm", answer'[r] # 204
  PROVE  Reported(r)' /\ GoneForGood(r)' /\ OwnEvents(r)'
  BY SilentTillAnswered DEF Reported, GoneForGood, OwnEvents

LEMMA StepReports ==
  ASSUME FeedInv, DBStep, NEW r \in Reqs, StepOf(r)
  PROVE  Reported(r)' /\ GoneForGood(r)' /\ OwnEvents(r)'
  <1>1. CASE \/ \E q \in Traffic : Submit(r, q)
             \/ CreateInvalid(r) \/ CreateInsert(r) \/ CreateConflict(r)
             \/ CreateInsertFails(r) \/ CreateInit(r) \/ CreateInitFails(r)
             \/ CreateRollback(r)
    <2>1. /\ pc[r] # "done" /\ evt' = evt /\ feed' \subseteq feed
          /\ pc'[r] # "rm"
          /\ answer' = answer \/ \E code \in {400, 409, 500} : answer'[r] = code
      BY <1>1 DEF FeedInv, Inv, TypeOK, Goto, Reply, Submit, CreateInvalid, CreateInsert,
         CreateConflict, CreateInsertFails, CreateInit, CreateInitFails, CreateRollback,
         CreateRepo, DeleteRepo, world, db
    <2>2. answer'[r] # 204
      BY <2>1, SilentTillAnswered
    <2> QED BY <2>1, <2>2, UnreportedStep
  <1>2. CASE \/ LoadMissing(r) \/ LoadFails(r) \/ LoadForbidden(r) \/ UpdateInvalid(r)
             \/ Load(r) \/ UpdateRow(r) \/ UpdateRowFails(r) \/ DeleteRowFails(r)
    <2>1. /\ pc[r] # "done" /\ evt' = evt /\ feed' \subseteq feed
          /\ answer' = answer \/ \E code \in {200, 400, 403, 404, 500} : answer'[r] = code
      BY <1>2 DEF FeedInv, Inv, TypeOK, Goto, Reply, LoadMissing, LoadFails,
         LoadForbidden, UpdateInvalid, Load, UpdateRow, UpdateRowFails, DeleteRowFails,
         UpdateRepo, DeleteRepo, world, db
    <2>2. pc'[r] # "rm"
      BY <1>2, RequestFields DEF FeedInv, Inv, TypeOK, RequestOK, Goto, Reply,
         LoadMissing, LoadFails, LoadForbidden, UpdateInvalid, Load, UpdateRow,
         UpdateRowFails, DeleteRowFails
    <2>3. answer'[r] # 204
      BY <2>1, SilentTillAnswered
    <2> QED BY <2>1, <2>2, <2>3, UnreportedStep
  <1>3. CASE CreateFinish(r) \/ DeleteFinish(r)
    <2>1. /\ pc[r] # "done" /\ pc'[r] = "done" /\ UNCHANGED <<rows, nextId, feed, req, got>>
          /\ \/ pc[r] = "cr" /\ answer'[r] = 201
             \/ pc[r] = "rm" /\ answer'[r] = 204
      BY <1>3 DEF FeedInv, Inv, TypeOK, Reply, Goto, CreateFinish, DeleteFinish, db
    <2>2. OwnEvents(r)'
      BY <2>1, SilentTillAnswered DEF OwnEvents
    <2>3. Reported(r)'
      BY <2>1 DEF FeedInv, Inv, RequestOK, Reported
    <2>4. GoneForGood(r)'
      BY <2>1 DEF FeedInv, GoneForGood, Live
    <2> QED BY <2>2, <2>3, <2>4
  <1>4. CASE DeleteRow(r)
    <2>1. /\ pc[r] = "delete" /\ pc'[r] = "rm" /\ UNCHANGED <<req, got, answer, evt>>
          /\ DeleteRepo(got[r].id)
      BY <1>4 DEF FeedInv, Inv, TypeOK, Goto, DeleteRow
    <2>2. Reported(r)' /\ OwnEvents(r)'
      BY <2>1, SilentTillAnswered DEF Reported, OwnEvents, DeleteRepo
    <2>3. got[r].id < nextId
      BY <2>1 DEF FeedInv, Inv, HoldOK, Holding
    <2>4. GoneForGood(r)'
      BY <2>1, <2>3 DEF GoneForGood, Live, DeleteRepo
    <2> QED BY <2>2, <2>4
  <1>5. CASE RecordEvent(r) \/ RecordEventFails(r)
    <2>1. /\ evt[r] = "spawned" /\ evt'[r] \in {"stored", "dropped"}
          /\ UNCHANGED <<rows, nextId, pc, req, got, answer>>
          /\ \/ evt'[r] = "stored" /\ feed' = feed \cup {EventOf(r)}
             \/ UNCHANGED feed
      BY <1>5 DEF FeedInv, Inv, TypeOK, RecordEvent, RecordEventFails, world
    <2>2. EventOf(r)' = EventOf(r) /\ \A e \in feed : e.by # r
      BY <2>1 DEF EventOf, FeedInv, OwnEvents
    <2>3. OwnEvents(r)'
      BY <2>1, <2>2 DEF OwnEvents
    <2>4. Reported(r)'
      BY <2>1 DEF FeedInv, Reported
    <2>5. GoneForGood(r)'
      BY <2>1 DEF FeedInv, GoneForGood, Live
    <2> QED BY <2>3, <2>4, <2>5
  <1> QED BY <1>1, <1>2, <1>3, <1>4, <1>5 DEF StepOf, Create, Change

LEMMA CrashReports == ASSUME FeedInv, Crash PROVE FeedInv'
  <1>1. Inv' /\ FeedLive'
    BY CrashInv DEF FeedInv, FeedLive, Live, Crash, world
  <1>2. ASSUME NEW r \in Reqs PROVE Reported(r)' /\ GoneForGood(r)' /\ OwnEvents(r)'
    <2>1. /\ UNCHANGED <<rows, nextId, feed, req, got, answer>>
          /\ pc'[r] = (IF InFlight(r) THEN "dead" ELSE pc[r])
          /\ evt'[r] = (IF evt[r] = "spawned" THEN "dropped" ELSE evt[r])
      BY DEF Crash, world
    <2>2. EventOf(r)' = EventOf(r)
      BY <2>1 DEF EventOf
    <2> QED
      BY <2>1, <2>2 DEF FeedInv, Reported, GoneForGood, OwnEvents, Live
  <1> QED BY <1>1, <1>2 DEF FeedInv

LEMMA FeedStep == FeedInv /\ [Next]_vars => FeedInv'
  <1> SUFFICES ASSUME FeedInv, [Next]_vars PROVE FeedInv'
    OBVIOUS
  <1>1. Inv'
    BY StepInv DEF FeedInv
  <1>2. CASE UNCHANGED vars
    BY <1>1, <1>2
    DEF FeedInv, FeedLive, Reported, GoneForGood, OwnEvents, Live, EventOf, vars, world
  <1>3. CASE Crash
    BY <1>3, CrashReports
  <1>4. ASSUME NEW r \in Reqs, StepOf(r) PROVE FeedInv'
    <2>1. Others(r) /\ TableStep(r) /\ DBStep
      BY <1>4, OthersStay, TablesStep, TableStepIs DEF FeedInv
    <2>2. FeedLive' /\ feed' \subseteq feed \cup {EventOf(r)}
      BY <2>1, FeedStaysLive
    <2>3. Reported(r)' /\ GoneForGood(r)' /\ OwnEvents(r)'
      BY <1>4, <2>1, StepReports
    <2>4. ASSUME NEW s \in Reqs, s # r PROVE Reported(s)' /\ GoneForGood(s)' /\ OwnEvents(s)'
      BY <2>1, <2>2, <2>4, OthersReport
    <2> QED BY <1>1, <2>2, <2>3, <2>4 DEF FeedInv
  <1> QED BY <1>2, <1>3, <1>4, NextIsOf

LEMMA FeedInvTells == FeedInv => FeedIsTruthful
  <1> SUFFICES ASSUME FeedInv PROVE FeedIsTruthful
    OBVIOUS
  <1>1. ASSUME NEW e \in feed
        PROVE  /\ e.by \in Reqs /\ e = EventOf(e.by) /\ evt[e.by] # "none"
               /\ IF e.type = "repo.create"
                  THEN answer[e.by] = 201 /\ got[e.by].id = e.repo /\ Live(e.repo)
                  ELSE answer[e.by] = 204 /\ ~ Live(got[e.by].id)
    <2>1. e.by \in Reqs
      BY DEF FeedInv, Inv, TypeOK, WorldTypeOK, Event
    <2>2. e = EventOf(e.by) /\ evt[e.by] # "none"
      BY <2>1 DEF FeedInv, OwnEvents
    <2>3. got[e.by].id # NoId
      BY <2>1, <2>2, RowFields DEF FeedInv, Inv, AnswerOK, Ids
    <2>4. CASE req[e.by].op = "create"
      BY <2>1, <2>2, <2>3, <2>4, EventOfBy DEF FeedInv, Reported, FeedLive
    <2>5. CASE req[e.by].op # "create"
      BY <2>1, <2>2, <2>5, EventOfBy DEF FeedInv, Reported, GoneForGood
    <2> QED BY <2>1, <2>2, <2>4, <2>5
  <1>2. \A e, f \in feed : e.by = f.by => e = f
    BY <1>1
  <1> QED BY <1>1, <1>2 DEF FeedIsTruthful

(* The activity feed (activity.go, filled by goroutines that outlive the   *)
(* request) tells no lies for any number of requests and any delay: what   *)
(* it says was created was answered 201 and exists, what it says was       *)
(* deleted was answered 204 and is gone, each at most once.                *)
THEOREM FeedTellsNoLies == Spec => []FeedIsTruthful
  BY FeedInitInv, FeedStep, FeedInvTells, PTL DEF Spec
-----------------------------------------------------------------------------
(* What keeps the table and the volume in step.  On a name where requests  *)
(* never overlapped one request at a time is at work, so what it does to   *)
(* the row and to the directory is not undone by another; and while        *)
(* nothing crashed and at most one step failed, a row without a directory  *)
(* is one that a request in flight is about to give one to or take back.   *)
On(r, k) == InFlight(r) /\ req[r].key = k

Alone(k) == \A r, s \in Reqs : On(r, k) /\ On(s, k) => r = s
RemovingOK(k) == \A r \in Reqs : On(r, k) /\ pc[r] = "rm" => ~ Taken(k)
HeldOK(k) == \A r \in Reqs : On(r, k) /\ pc[r] \in {"init", "cr"} => Live(got[r].id)
Finishing(r, k, i) == On(r, k) /\ pc[r] \in {"init", "rollback"} /\ got[r].id = i
DiskOK(k) ==
  breaks = 0 /\ faults <= 1 =>
    \A row \in RowsOf(k) :
      disk[GetRepoPath(k)] = NoDisk => \E r \in Reqs : Finishing(r, k, row.id)
Made(r, k, i) ==
  /\ req[r] \in Request /\ req[r].op = "create" /\ req[r].key = k
  /\ got[r] \in Row /\ got[r].id = i
  /\ \/ disk[GetRepoPath(k)] = r
     \/ disk[GetRepoPath(k)] = NoDisk /\ pc[r] = "init"
Clearing(k) == \E r \in Reqs : On(r, k) /\ pc[r] = "rm"
BornOK(k) ==
  breaks = 0 /\ faults = 0 =>
    /\ \A row \in RowsOf(k) : \E r \in Reqs : Made(r, k, row.id)
    /\ ~ Taken(k) => disk[GetRepoPath(k)] = NoDisk \/ Clearing(k)
KeyOK(k) == Alone(k) /\ RemovingOK(k) /\ HeldOK(k) /\ DiskOK(k) /\ BornOK(k)

StepsOK(r) ==
  /\ pc[r] \in {"idle", "create", "load"} => got[r] = NoRow
  /\ pc[r] = "rollback" => faults # 0
  /\ pc[r] = "idle" => req[r] = NoReq

TidyInv == /\ Inv
           /\ \A r \in Reqs : StepsOK(r)
           /\ \A k \in Keys : k \notin overlapped => KeyOK(k)

LEMMA TidyInitInv == Init => TidyInv
  <1> SUFFICES ASSUME Init PROVE TidyInv
    OBVIOUS
  <1>1. \A k \in Keys : disk[GetRepoPath(k)] = NoDisk
    BY PathIsPath DEF Init, WorldInit
  <1>2. rows = {} /\ \A r \in Reqs : pc[r] = "idle" /\ got[r] = NoRow /\ req[r] = NoReq
    BY DEF Init, WorldInit
  <1>3. \A k \in Keys : KeyOK(k)
    BY <1>1, <1>2 DEF KeyOK, Alone, RemovingOK, HeldOK, DiskOK, BornOK, On, InFlight,
       InFlightPcs, Taken, RowsOf
  <1> QED BY <1>2, <1>3, InitInv DEF TidyInv, StepsOK

LEMMA TidyShows == TidyInv => RowHasDisk /\ FreshContent
  <1> SUFFICES ASSUME TidyInv PROVE RowHasDisk /\ FreshContent
    OBVIOUS
  <1>1. \A k \in Keys, r \in Reqs : ~ Busy(k) => ~ On(r, k)
    BY DEF Busy, On
  <1>2. \A row \in rows : row.key \in Keys /\ row \in RowsOf(row.key)
                          /\ row.path = GetRepoPath(row.key)
    BY RowFields DEF TidyInv, Inv, TypeOK, WorldTypeOK, RowsOK, RowsOf
  <1>3. RowHasDisk
    BY <1>1, <1>2 DEF RowHasDisk, TidyInv, KeyOK, DiskOK, Finishing
  <1>4. ASSUME NEW k \in Keys, ~ Busy(k), k \notin overlapped, breaks = 0, faults = 0
        PROVE  IF Taken(k)
               THEN \A row \in RowsOf(k) : \E r \in Reqs :
                      disk[row.path] = r /\ req[r].op = "create" /\ got[r].id = row.id
               ELSE disk[GetRepoPath(k)] = NoDisk
    <2>1. BornOK(k)
      BY <1>4 DEF TidyInv, KeyOK
    <2>2. ~ Clearing(k)
      BY <1>1, <1>4 DEF Clearing
    <2>3. ASSUME NEW row \in RowsOf(k)
          PROVE \E r \in Reqs :
                  disk[row.path] = r /\ req[r].op = "create" /\ got[r].id = row.id
      <3>1. PICK r \in Reqs : Made(r, k, row.id)
        BY <1>4, <2>1 DEF BornOK
      <3>2. pc[r] # "init"
        BY <1>1, <1>4, <3>1 DEF Made, On, InFlight, InFlightPcs
      <3>3. row.path = GetRepoPath(k)
        BY <1>2 DEF RowsOf
      <3> QED BY <3>1, <3>2, <3>3 DEF Made
    <2> QED BY <1>4, <2>1, <2>2, <2>3 DEF BornOK
  <1> QED BY <1>3, <1>4 DEF FreshContent

\* Failures and crashes are only ever added.
Troubles ==
  /\ faults \in Nat /\ faults' \in Nat /\ breaks \in Nat /\ breaks' \in Nat
  /\ faults <= faults' /\ breaks <= breaks'

LEMMA TroublesGrow == ASSUME Inv, [Next]_vars PROVE Troubles
  <1>1. Fault \/ Break \/ NoTrouble
    BY APITrouble DEF vars, NoTrouble
  <1> QED
    BY <1>1 DEF Troubles, Fault, Break, NoTrouble, trouble, Inv, TypeOK, WorldTypeOK
-----------------------------------------------------------------------------
(* Steps that k does not see. *)
Unseen(k) == RowsOf(k)' = RowsOf(k) /\ disk'[GetRepoPath(k)] = disk[GetRepoPath(k)]

\* A step of r elsewhere: its request is about another name.
LEMMA ElsewhereKept ==
  ASSUME Inv, Inv', Troubles, NEW k \in Keys, KeyOK(k), Unseen(k),
         NEW r \in Reqs, Others(r), pc[r] # "idle", req'[r] = req[r], req[r].key # k
  PROVE  KeyOK(k)'
  <1>1. \A s \in Reqs : On(s, k)' => On(s, k) /\ s # r
    BY DEF On, InFlight, Others
  <1>2. \A s \in Reqs : s # r => /\ On(s, k)' <=> On(s, k)
                                 /\ pc'[s] = pc[s] /\ got'[s] = got[s] /\ req'[s] = req[s]
    BY DEF On, InFlight, Others
  <1>3. ~ On(r, k)
    BY DEF On
  <1>4. RowsOf(k)' = RowsOf(k) /\ (Taken(k)' <=> Taken(k))
        /\ disk'[GetRepoPath(k)] = disk[GetRepoPath(k)]
    BY DEF Unseen, Taken
  <1>5. Alone(k)' /\ RemovingOK(k)'
    BY <1>1, <1>2, <1>4 DEF KeyOK, Alone, RemovingOK
  <1>6. HeldOK(k)'
    <2> SUFFICES ASSUME NEW s \in Reqs, On(s, k)', pc'[s] \in {"init", "cr"}
                 PROVE  Live(got[s].id)'
      BY <1>1, <1>2 DEF HeldOK
    <2>1. s # r /\ On(s, k) /\ pc[s] \in {"init", "cr"}
      BY <1>1, <1>2
    <2>2. PICK row \in rows : row.id = got[s].id
      BY <2>1 DEF KeyOK, HeldOK, Live
    <2>3. row.key = k
      BY <2>1, <2>2 DEF Inv, HoldOK, Holding, On
    <2>4. row \in rows'
      BY <1>4, <2>3 DEF RowsOf
    <2> QED BY <1>2, <2>1, <2>2, <2>4 DEF Live
  <1>7. DiskOK(k)'
    <2>1. \A s \in Reqs : \A i : Finishing(s, k, i) => Finishing(s, k, i)'
      BY <1>2, <1>3 DEF Finishing
    <2> QED BY <1>4, <2>1 DEF KeyOK, DiskOK, Troubles
  <1>8. BornOK(k)'
    <2>1. \A s \in Reqs : \A i : Made(s, k, i) => Made(s, k, i)'
      BY <1>2, <1>4 DEF Made
    <2>2. Clearing(k) => Clearing(k)'
      BY <1>2, <1>3 DEF Clearing
    <2> QED BY <1>4, <2>1, <2>2 DEF KeyOK, BornOK, Troubles
  <1> QED BY <1>5, <1>6, <1>7, <1>8 DEF KeyOK

\* A step that touches neither rows, nor directories, nor handlers.
LEMMA UnmovedKept ==
  ASSUME Troubles, NEW k \in Keys, KeyOK(k), UNCHANGED <<rows, disk, pc, req, got>>
  PROVE  KeyOK(k)'
  <1>1. /\ \A s \in Reqs : On(s, k)' <=> On(s, k)
        /\ RowsOf(k)' = RowsOf(k) /\ (Taken(k)' <=> Taken(k))
        /\ \A i : Live(i)' <=> Live(i)
    BY DEF On, InFlight, RowsOf, Taken, Live
  <1>2. \A s \in Reqs : \A i : Finishing(s, k, i)' <=> Finishing(s, k, i)
    BY <1>1 DEF Finishing
  <1>3. \A s \in Reqs : \A i : Made(s, k, i)' <=> Made(s, k, i)
    BY <1>1 DEF Made
  <1>4. Alone(k)' /\ RemovingOK(k)' /\ HeldOK(k)'
    BY <1>1 DEF KeyOK, Alone, RemovingOK, HeldOK
  <1>5. DiskOK(k)'
    BY <1>1, <1>2 DEF KeyOK, DiskOK, Troubles
  <1>6. Clearing(k)' <=> Clearing(k)
    BY <1>1 DEF Clearing
  <1>7. BornOK(k)'
    BY <1>1, <1>3, <1>6 DEF KeyOK, BornOK, Troubles
  <1> QED BY <1>4, <1>5, <1>7 DEF KeyOK

\* A request that arrives on a name where none is in flight.
LEMMA SubmitKept ==
  ASSUME Inv, NEW r \in Reqs, StepsOK(r), NEW q \in Traffic, Submit(r, q),
         Troubles, NEW k \in Keys, KeyOK(k), k \notin overlapped'
  PROVE  KeyOK(k)'
  <1>1. /\ pc[r] = "idle" /\ pc'[r] \in {"create", "load"} /\ req[r] = NoReq /\ req'[r] = q
        /\ got' = got /\ rows' = rows /\ disk' = disk /\ Others(r)
    BY OthersStay DEF Submit, StepOf, Inv, TypeOK, Goto, StepsOK, world
  <1>2. \A s \in Reqs : s # r => /\ On(s, k)' <=> On(s, k)
                                 /\ pc'[s] = pc[s] /\ req'[s] = req[s]
    BY <1>1 DEF On, InFlight, Others
  <1>3. ~ On(r, k) /\ (q.key = k => \A s \in Reqs : ~ On(s, k))
    BY <1>1 DEF On, InFlight, InFlightPcs, Busy, Submit
  <1>4. On(r, k)' => q.key = k
    BY <1>1 DEF On
  <1>5. RowsOf(k)' = RowsOf(k) /\ (Taken(k)' <=> Taken(k)) /\ \A i : Live(i)' <=> Live(i)
    BY <1>1 DEF RowsOf, Taken, Live
  <1>6. Alone(k)'
    BY <1>2, <1>3, <1>4 DEF KeyOK, Alone
  <1>7. RemovingOK(k)' /\ HeldOK(k)'
    BY <1>1, <1>2, <1>5 DEF KeyOK, RemovingOK, HeldOK
  <1>8. \A s \in Reqs : \A i : Finishing(s, k, i) => Finishing(s, k, i)'
    BY <1>1, <1>2, <1>3 DEF Finishing
  <1>9. \A s \in Reqs : \A i : Made(s, k, i) => Made(s, k, i)'
    BY <1>1, <1>2 DEF Made
  <1>10. Clearing(k) => Clearing(k)'
    BY <1>2, <1>3, <1>1 DEF Clearing
  <1>11. DiskOK(k)'
    BY <1>1, <1>5, <1>8 DEF KeyOK, DiskOK, Troubles
  <1>12. BornOK(k)'
    BY <1>1, <1>5, <1>9, <1>10 DEF KeyOK, BornOK, Troubles
  <1> QED BY <1>6, <1>7, <1>11, <1>12 DEF KeyOK

\* The rows of other names, and their directories, are out of a step's reach.
LEMMA RowsElsewhere ==
  ASSUME Inv, Inv', NEW r \in Reqs, TableStep(r), NEW k \in Keys, req[r].key # k
  PROVE  RowsOf(k)' = RowsOf(k)
  <1>1. \A row \in rows :
          pc[r] \in {"update", "rollback", "delete"} /\ row.id = got[r].id => row.key # k
    BY DEF Inv, HoldOK, Holding
  <1>2. pc[r] \in {"create", "update"} =>
          IsPrivate(req[r].body) \in BOOLEAN /\ req[r].key \in Keys
    BY RequestFields DEF Inv, RequestOK, IsPrivate
  <1>3. CASE rows' = rows
    BY <1>3 DEF RowsOf
  <1>4. CASE pc[r] = "create" /\ CreateRepo(req[r].key, IsPrivate(req[r].body))
    <2>1. NewRow(req[r].key, IsPrivate(req[r].body)).key # k
      BY <1>2, <1>4, NewRowIsRow DEF Inv
    <2> QED BY <1>4, <2>1 DEF CreateRepo, RowsOf
  <1>5. CASE pc[r] = "update" /\ UpdateRepo(got[r].id, IsPrivate(req[r].body))
    <2>1. got[r].id \in Nat
      BY <1>5, Held DEF Holding
    <2>2. /\ \A row \in rows : row.id # got[r].id => row \in rows'
          /\ \A new \in rows' : \E row \in rows : new.id = row.id /\ new.key = row.key
      BY <1>2, <1>5, <2>1, Updated DEF Inv
    <2>3. ASSUME NEW new \in rows', new.key = k PROVE new \in rows
      <3>1. PICK row \in rows : new.id = row.id /\ new.key = row.key
        BY <2>2
      <3>2. row \in rows'
        BY <1>1, <1>5, <2>2, <2>3, <3>1
      <3>3. new = row
        BY <3>1, <3>2 DEF Inv, RowsOK
      <3> QED BY <3>3
    <2>4. ASSUME NEW row \in rows, row.key = k PROVE row \in rows'
      BY <1>1, <1>5, <2>2, <2>4
    <2> QED BY <2>3, <2>4 DEF RowsOf
  <1>6. CASE pc[r] \in {"rollback", "delete"} /\ DeleteRepo(got[r].id)
    BY <1>1, <1>6 DEF DeleteRepo, RowsOf
  <1> QED BY <1>3, <1>4, <1>5, <1>6 DEF TableStep, db

LEMMA DiskStep ==
  ASSUME NEW r \in Reqs, StepOf(r)
  PROVE  \/ UNCHANGED disk
         \/ pc[r] = "init" /\ InitBareRepo(got[r].path, r)
         \/ pc[r] = "rm" /\ RemoveAll(got[r].path)
  BY DEF StepOf, Submit, Create, Change, RecordEvent, RecordEventFails, CreateInvalid,
     CreateInsert, CreateConflict, CreateInsertFails, CreateInit, CreateInitFails,
     CreateRollback, CreateFinish, LoadMissing, LoadFails, LoadForbidden, UpdateInvalid,
     Load, UpdateRow, UpdateRowFails, DeleteRow, DeleteRowFails, DeleteFinish, world

LEMMA ElsewhereUnseen ==
  ASSUME Inv, Inv', NEW r \in Reqs, StepOf(r), NEW k \in Keys, req[r].key # k
  PROVE  Unseen(k)
  <1>1. RowsOf(k)' = RowsOf(k)
    BY TablesStep, RowsElsewhere
  <1>2. pc[r] \in {"init", "rm"} => got[r].path # GetRepoPath(k)
    BY Held, PathsAreApart DEF PathsApart, Holding, Inv, HoldOK
  <1>3. disk \in [Paths -> Reqs \cup {Operator, NoDisk}] /\ GetRepoPath(k) \in Paths
    BY PathIsPath DEF Inv, TypeOK, WorldTypeOK
  <1>4. disk'[GetRepoPath(k)] = disk[GetRepoPath(k)]
    BY <1>2, <1>3, DiskStep DEF InitBareRepo, RemoveAll
  <1> QED BY <1>1, <1>4 DEF Unseen
-----------------------------------------------------------------------------
(* Steps of the one request in flight on k.                                *)

\* No other request is at work on k, before or after.
LEMMA NoneElse ==
  ASSUME NEW k \in Keys, KeyOK(k), NEW r \in Reqs, On(r, k), Others(r)
  PROVE  /\ \A s \in Reqs : s # r => ~ On(s, k) /\ ~ On(s, k)'
         /\ Alone(k)'
  <1>1. \A s \in Reqs : s # r => ~ On(s, k)
    BY DEF KeyOK, Alone
  <1>2. \A s \in Reqs : s # r => ~ On(s, k)'
    BY <1>1 DEF Others, On, InFlight
  <1> QED BY <1>1, <1>2 DEF Alone

\* Whatever became of the row, when the database broke off and r gave up.
LEMMA BrokenKept ==
  ASSUME NEW k \in Keys, KeyOK(k), NEW r \in Reqs, On(r, k), Others(r),
         pc'[r] \notin {"init", "cr", "rm"}, breaks' # 0
  PROVE  KeyOK(k)'
  <1>1. RemovingOK(k)' /\ HeldOK(k)'
    BY NoneElse DEF RemovingOK, HeldOK
  <1>2. DiskOK(k)' /\ BornOK(k)'
    BY DEF DiskOK, BornOK
  <1> QED BY <1>1, <1>2, NoneElse DEF KeyOK

\* Neither a row nor a directory comes or goes: ids at most change visibility.
SameIds(k) ==
  /\ \A new \in RowsOf(k)' : \E row \in RowsOf(k) : row.id = new.id
  /\ Taken(k)' <=> Taken(k)

LEMMA SettledKept ==
  ASSUME Troubles, NEW k \in Keys, KeyOK(k), NEW r \in Reqs, On(r, k), Others(r),
         pc[r] \notin {"init", "rollback", "rm"},
         pc'[r] \notin {"init", "cr", "rollback", "rm"},
         req'[r] = req[r], got'[r] = got[r] \/ got[r] = NoRow,
         SameIds(k), disk'[GetRepoPath(k)] = disk[GetRepoPath(k)]
  PROVE  KeyOK(k)'
  <1>1. \A s \in Reqs : s # r => ~ On(s, k) /\ ~ On(s, k)'
    BY NoneElse
  <1>2. RemovingOK(k)' /\ HeldOK(k)'
    BY <1>1 DEF RemovingOK, HeldOK
  <1>3. DiskOK(k)'
    <2>1. \A s \in Reqs : \A i : ~ Finishing(s, k, i)
      BY <1>1 DEF Finishing
    <2>2. breaks' = 0 /\ faults' <= 1 => breaks = 0 /\ faults <= 1
      BY DEF Troubles
    <2> QED BY <2>1, <2>2 DEF KeyOK, DiskOK, SameIds
  <1>4. BornOK(k)'
    <2>1. \A s \in Reqs : \A i : Made(s, k, i) => Made(s, k, i)'
      BY DEF Made, Others
    <2>2. ~ Clearing(k)
      BY <1>1 DEF Clearing
    <2>3. breaks' = 0 /\ faults' = 0 => breaks = 0 /\ faults = 0
      BY DEF Troubles
    <2> QED BY <2>1, <2>2, <2>3 DEF KeyOK, BornOK, SameIds
  <1> QED BY <1>2, <1>3, <1>4, NoneElse DEF KeyOK

LEMMA RowsSameIds ==
  ASSUME NEW k \in Keys, rows' = rows PROVE SameIds(k)
  BY DEF SameIds, RowsOf, Taken

\* INSERT: the row is new, and the directory is still to come.
LEMMA InsertKept ==
  ASSUME Inv, Inv', NEW k \in Keys, KeyOK(k), NEW r \in Reqs, On(r, k), Troubles,
         CreateInsert(r)
  PROVE  KeyOK(k)'
  <1>1. /\ Others(r) /\ req' = req /\ req[r].key = k /\ pc'[r] = "init" /\ disk' = disk
        /\ pc[r] = "create" /\ UNCHANGED trouble
    BY OthersStay DEF CreateInsert, StepOf, Create, Inv, TypeOK, Goto, On, NoTrouble
  <1>2. PICK new \in Row : new = NewRow(k, IsPrivate(req[r].body)) /\ new.key = k
    BY NewRowIsRow DEF Inv, IsPrivate
  <1>3. rows' = rows \cup {new} /\ ~ Taken(k) /\ got'[r] = new
    BY <1>1, <1>2 DEF CreateInsert, CreateRepo, Inv, TypeOK
  <1>4. On(r, k)' /\ req[r] \in Request /\ req[r].op = "create"
    BY <1>1 DEF On, InFlight, InFlightPcs, Inv, RequestOK
  <1>5. \A s \in Reqs : s # r => ~ On(s, k) /\ ~ On(s, k)'
    BY <1>1, NoneElse
  <1>6. RowsOf(k)' = {new}
    BY <1>2, <1>3 DEF RowsOf, Taken
  <1>7. RemovingOK(k)' /\ HeldOK(k)'
    BY <1>1, <1>3, <1>5 DEF RemovingOK, HeldOK, Live
  <1>8. Finishing(r, k, new.id)'
    BY <1>1, <1>3, <1>4 DEF Finishing
  <1>9. DiskOK(k)'
    BY <1>6, <1>8 DEF DiskOK
  <1>10. BornOK(k)'
    <2> SUFFICES ASSUME breaks = 0, faults = 0 PROVE Made(r, k, new.id)'
      BY <1>1, <1>6 DEF BornOK, trouble, Taken
    <2>1. ~ Clearing(k)
      BY <1>1, <1>5 DEF Clearing
    <2>2. disk[GetRepoPath(k)] = NoDisk
      BY <1>3, <2>1 DEF KeyOK, BornOK
    <2> QED BY <1>1, <1>2, <1>3, <1>4, <2>2 DEF Made
  <1> QED BY <1>1, <1>7, <1>9, <1>10, NoneElse DEF KeyOK

\* git init: the directory is there from now on, and in a clean past it is r's.
LEMMA InitKept ==
  ASSUME Inv, Inv', NEW k \in Keys, KeyOK(k), NEW r \in Reqs, On(r, k), Troubles,
         CreateInit(r)
  PROVE  KeyOK(k)'
  <1> DEFINE p == GetRepoPath(k)
  <1>1. /\ Others(r) /\ req' = req /\ got' = got /\ rows' = rows /\ UNCHANGED trouble
        /\ pc[r] = "init" /\ pc'[r] = "cr" /\ InitBareRepo(got[r].path, r)
    BY OthersStay DEF CreateInit, StepOf, Create, Inv, TypeOK, Goto, NoTrouble, db
  <1>2. got[r].path = p /\ got[r].key = k /\ req[r].key = k
    BY <1>1 DEF Inv, HoldOK, Holding, On
  <1>3. disk \in [Paths -> Reqs \cup {Operator, NoDisk}] /\ p \in Paths
    BY PathIsPath DEF Inv, TypeOK, WorldTypeOK
  <1> HIDE DEF p
  <1>4. disk'[p] = (IF disk[p] = NoDisk THEN r ELSE disk[p]) /\ disk'[p] # NoDisk
    BY <1>1, <1>2, <1>3 DEF InitBareRepo
  <1>5. \A s \in Reqs : s # r => ~ On(s, k) /\ ~ On(s, k)'
    BY <1>1, NoneElse
  <1>6. RowsOf(k)' = RowsOf(k) /\ (Taken(k)' <=> Taken(k)) /\ \A i : Live(i)' <=> Live(i)
    BY <1>1 DEF RowsOf, Taken, Live
  <1>7. Live(got[r].id)
    BY <1>1 DEF KeyOK, HeldOK
  <1>8. RemovingOK(k)' /\ HeldOK(k)'
    BY <1>1, <1>5, <1>6, <1>7 DEF RemovingOK, HeldOK
  <1>9. DiskOK(k)'
    BY <1>4 DEF DiskOK, p
  <1>10. Taken(k)
    <2>1. PICK row \in rows : row.id = got[r].id
      BY <1>7 DEF Live
    <2>2. row.key = k
      BY <1>1, <1>2, <2>1 DEF Inv, HoldOK, Holding
    <2> QED BY <2>2 DEF Taken, RowsOf
  <1>11. BornOK(k)'
    <2>1. ASSUME NEW s \in Reqs, NEW i, Made(s, k, i) PROVE Made(s, k, i)'
      <3>1. CASE s = r
        BY <1>1, <1>4, <2>1, <3>1 DEF Made, p
      <3>2. CASE s # r
        <4>1. pc[s] # "init"
          BY <1>5, <2>1, <3>2 DEF Made, On, InFlight, InFlightPcs
        <4>2. disk[p] = s /\ disk[p] # NoDisk
          BY <2>1, <4>1 DEF Made, p
        <4> QED BY <1>1, <1>4, <2>1, <4>2 DEF Made, p
      <3> QED BY <3>1, <3>2
    <2> QED BY <1>1, <1>6, <1>10, <2>1 DEF KeyOK, BornOK, trouble
  <1> QED BY <1>1, <1>8, <1>9, <1>11, NoneElse DEF KeyOK

\* git init failed: the row is there without a directory, and r will take it back.
LEMMA InitFailsKept ==
  ASSUME Inv, Inv', NEW k \in Keys, KeyOK(k), NEW r \in Reqs, On(r, k), Troubles,
         CreateInitFails(r)
  PROVE  KeyOK(k)'
  <1>1. /\ Others(r) /\ req' = req /\ got' = got /\ rows' = rows /\ disk' = disk
        /\ pc[r] = "init" /\ pc'[r] = "rollback" /\ faults' = faults + 1
    BY OthersStay DEF CreateInitFails, StepOf, Create, Inv, TypeOK, Goto, Fault, world
  <1>2. \A s \in Reqs : s # r => ~ On(s, k) /\ ~ On(s, k)'
    BY <1>1, NoneElse
  <1>3. RemovingOK(k)' /\ HeldOK(k)'
    BY <1>1, <1>2 DEF RemovingOK, HeldOK
  <1>4. RowsOf(k)' = RowsOf(k) /\ On(r, k)'
    BY <1>1 DEF RowsOf, On, InFlight, InFlightPcs
  <1>5. \A s \in Reqs : \A i : Finishing(s, k, i) => Finishing(s, k, i)'
    BY <1>1, <1>2, <1>4 DEF Finishing
  <1>6. DiskOK(k)'
    BY <1>1, <1>4, <1>5 DEF KeyOK, DiskOK, Troubles
  <1>7. BornOK(k)'
    BY <1>1 DEF BornOK, Troubles
  <1> QED BY <1>1, <1>3, <1>6, <1>7, NoneElse DEF KeyOK

\* The compensating DELETE: the row is gone, or this was the second failure.
LEMMA RollbackKept ==
  ASSUME Inv, Inv', NEW k \in Keys, KeyOK(k), NEW r \in Reqs, On(r, k), Troubles,
         StepsOK(r), CreateRollback(r)
  PROVE  KeyOK(k)'
  <1>1. /\ Others(r) /\ req' = req /\ got' = got /\ disk' = disk
        /\ pc[r] = "rollback" /\ pc'[r] = "done" /\ faults # 0
        /\ \/ DeleteRepo(got[r].id)
           \/ rows' = rows /\ faults' = faults + 1
    BY OthersStay
    DEF CreateRollback, StepOf, Create, Inv, TypeOK, Goto, Reply, Fault, StepsOK, db
  <1>2. \A s \in Reqs : s # r => ~ On(s, k) /\ ~ On(s, k)'
    BY <1>1, NoneElse
  <1>3. RemovingOK(k)' /\ HeldOK(k)'
    BY <1>1, <1>2 DEF RemovingOK, HeldOK
  <1>4. BornOK(k)'
    BY <1>1 DEF BornOK, Troubles
  <1>5. DiskOK(k)'
    <2>1. CASE rows' = rows /\ faults' = faults + 1
      BY <1>1, <2>1 DEF DiskOK, Troubles
    <2>2. CASE DeleteRepo(got[r].id)
      <3>1. \A row \in RowsOf(k)' : row \in RowsOf(k) /\ row.id # got[r].id
        BY <2>2 DEF RowsOf, DeleteRepo
      <3>2. \A s \in Reqs : \A i : Finishing(s, k, i) => i = got[r].id
        BY <1>1, <1>2 DEF Finishing
      <3> QED BY <1>1, <3>1, <3>2 DEF KeyOK, DiskOK, Troubles
    <2> QED BY <1>1, <2>1, <2>2
  <1> QED BY <1>1, <1>3, <1>4, <1>5, NoneElse DEF KeyOK

\* DELETE: the name is free, and r goes on to clear the directory.
LEMMA DeleteKept ==
  ASSUME Inv, Inv', NEW k \in Keys, KeyOK(k), NEW r \in Reqs, On(r, k), Troubles,
         DeleteRow(r)
  PROVE  KeyOK(k)'
  <1>1. /\ Others(r) /\ req' = req /\ got' = got
        /\ pc[r] = "delete" /\ pc'[r] = "rm" /\ Live(got[r].id) /\ DeleteRepo(got[r].id)
    BY OthersStay DEF DeleteRow, StepOf, Change, Inv, TypeOK, Goto
  <1>2. \A s \in Reqs : s # r => ~ On(s, k) /\ ~ On(s, k)'
    BY <1>1, NoneElse
  <1>3. PICK row \in rows : row.id = got[r].id /\ row.key = k
    BY <1>1 DEF Live, Inv, HoldOK, Holding, On
  <1>4. RowsOf(k)' = {}
    BY <1>1, <1>3 DEF Inv, RowsOK, RowsOf, DeleteRepo
  <1>5. RemovingOK(k)' /\ HeldOK(k)'
    BY <1>1, <1>2, <1>4 DEF RemovingOK, HeldOK, Taken
  <1>6. On(r, k)' /\ pc'[r] = "rm"
    BY <1>1 DEF On, InFlight, InFlightPcs
  <1>7. DiskOK(k)' /\ BornOK(k)'
    BY <1>4, <1>6 DEF DiskOK, BornOK, Clearing
  <1> QED BY <1>1, <1>5, <1>7, NoneElse DEF KeyOK

\* RemoveAll, after the row is gone: the directory goes, or the step failed.
LEMMA ClearKept ==
  ASSUME Inv, Inv', NEW k \in Keys, KeyOK(k), NEW r \in Reqs, On(r, k), Troubles,
         DeleteFinish(r)
  PROVE  KeyOK(k)'
  <1>1. /\ Others(r) /\ req' = req /\ got' = got /\ rows' = rows
        /\ pc[r] = "rm" /\ pc'[r] = "done"
        /\ RemoveAll(got[r].path) \/ faults' = faults + 1
    BY OthersStay DEF DeleteFinish, StepOf, Change, Inv, TypeOK, Goto, Reply, Fault, db
  <1>2. \A s \in Reqs : s # r => ~ On(s, k) /\ ~ On(s, k)'
    BY <1>1, NoneElse
  <1>3. RowsOf(k)' = {}
    BY <1>1 DEF KeyOK, RemovingOK, Taken, RowsOf
  <1>4. RemovingOK(k)' /\ HeldOK(k)'
    BY <1>1, <1>2 DEF RemovingOK, HeldOK
  <1>5. DiskOK(k)'
    BY <1>3 DEF DiskOK
  <1>6. BornOK(k)'
    <2>1. got[r].path = GetRepoPath(k) /\ GetRepoPath(k) \in Paths
      BY <1>1, PathIsPath DEF Inv, HoldOK, Holding, On
    <2>2. CASE RemoveAll(got[r].path)
      BY <1>3, <2>1, <2>2 DEF BornOK, RemoveAll, Inv, TypeOK, WorldTypeOK
    <2>3. CASE faults' = faults + 1
      BY <2>3 DEF BornOK, Troubles
    <2> QED BY <1>1, <2>2, <2>3
  <1> QED BY <1>1, <1>4, <1>5, <1>6, NoneElse DEF KeyOK

\* PATCH, and the steps that fail or only answer.
LEMMA UpdateKeepsIds ==
  ASSUME Inv, NEW k \in Keys, NEW i \in Nat, NEW p \in BOOLEAN, UpdateRepo(i, p)
  PROVE  SameIds(k)
  <1>1. /\ \A row \in rows : \E new \in rows' : new.id = row.id /\ new.key = row.key
        /\ \A new \in rows' : \E row \in rows : new.id = row.id /\ new.key = row.key
    BY Updated DEF Inv
  <1> QED BY <1>1 DEF SameIds, RowsOf, Taken

LEMMA AnswerKept ==
  ASSUME Inv, Inv', NEW k \in Keys, KeyOK(k), NEW r \in Reqs, On(r, k), Troubles,
         \/ CreateInvalid(r) \/ CreateConflict(r) \/ CreateFinish(r)
         \/ LoadMissing(r) \/ LoadFails(r) \/ LoadForbidden(r) \/ UpdateInvalid(r)
  PROVE  KeyOK(k)'
  <1>1. /\ Others(r) /\ req' = req /\ got' = got /\ rows' = rows /\ disk' = disk
        /\ pc[r] \in {"create", "cr", "load"} /\ pc'[r] = "done"
    BY OthersStay DEF CreateInvalid, CreateConflict, CreateFinish, LoadMissing, LoadFails,
       LoadForbidden, UpdateInvalid, StepOf, Create, Change, Inv, TypeOK, Goto, Reply,
       world, db
  <1> QED BY <1>1, RowsSameIds, SettledKept

LEMMA LoadKept ==
  ASSUME Inv, Inv', NEW k \in Keys, KeyOK(k), NEW r \in Reqs, On(r, k), Troubles,
         StepsOK(r), Load(r)
  PROVE  KeyOK(k)'
  <1>1. /\ Others(r) /\ req' = req /\ rows' = rows /\ disk' = disk /\ got[r] = NoRow
        /\ pc[r] = "load" /\ pc'[r] \in {"update", "delete"}
    BY OthersStay, RequestFields
    DEF Load, StepOf, Change, Inv, TypeOK, RequestOK, Goto, StepsOK, world
  <1> QED BY <1>1, RowsSameIds, SettledKept

LEMMA ChangeKept ==
  ASSUME Inv, Inv', NEW k \in Keys, KeyOK(k), NEW r \in Reqs, On(r, k), Troubles,
         UpdateRow(r) \/ CreateInsertFails(r) \/ UpdateRowFails(r) \/ DeleteRowFails(r)
  PROVE  KeyOK(k)'
  <1>1. /\ Others(r) /\ req' = req /\ got' = got /\ disk' = disk
        /\ pc[r] \in {"create", "update", "delete"} /\ pc'[r] = "done"
    BY OthersStay DEF UpdateRow, CreateInsertFails, UpdateRowFails, DeleteRowFails,
       StepOf, Create, Change, Inv, TypeOK, Goto, Reply
  <1>2. CASE UpdateRow(r)
    <2>1. got[r].id \in Nat /\ IsPrivate(req[r].body) \in BOOLEAN
      BY <1>2, Held DEF UpdateRow, Holding, IsPrivate
    <2>2. SameIds(k)
      BY <1>2, <2>1, UpdateKeepsIds DEF UpdateRow
    <2> QED BY <1>1, <2>2, SettledKept
  <1>3. CASE ~ UpdateRow(r)
    <2>1. rows' = rows \/ (Break /\ breaks' # 0)
      BY <1>3 DEF CreateInsertFails, UpdateRowFails, DeleteRowFails, Break, Inv, TypeOK,
         WorldTypeOK, db
    <2> QED BY <1>1, <2>1, RowsSameIds, SettledKept, BrokenKept
  <1> QED BY <1>2, <1>3

LEMMA HandlerKept ==
  ASSUME TidyInv, Inv', Troubles, NEW k \in Keys, KeyOK(k), NEW r \in Reqs,
         Create(r) \/ Change(r)
  PROVE  KeyOK(k)'
  <1>1. /\ InFlight(r) /\ req' = req
    BY DEF Create, Change, CreateInvalid, CreateInsert, CreateConflict,
       CreateInsertFails, CreateInit, CreateInitFails, CreateRollback, CreateFinish,
       LoadMissing, LoadFails, LoadForbidden, UpdateInvalid, Load, UpdateRow,
       UpdateRowFails, DeleteRow, DeleteRowFails, DeleteFinish, InFlight, InFlightPcs
  <1>2. StepOf(r) /\ StepsOK(r) /\ Inv
    BY DEF StepOf, TidyInv
  <1>3. CASE req[r].key # k
    <2>1. pc[r] # "idle"
      BY <1>1 DEF InFlight, InFlightPcs
    <2> QED BY <1>1, <1>2, <1>3, <2>1, OthersStay, ElsewhereUnseen, ElsewhereKept
  <1>4. CASE req[r].key = k
    <2>1. On(r, k)
      BY <1>1, <1>4 DEF On
    <2>2. CASE Create(r)
      BY <1>2, <2>1, <2>2, AnswerKept, InsertKept, ChangeKept, InitKept, InitFailsKept,
         RollbackKept DEF Create
    <2>3. CASE Change(r)
      BY <1>2, <2>1, <2>3, AnswerKept, LoadKept, ChangeKept, DeleteKept, ClearKept
      DEF Change
    <2> QED BY <2>2, <2>3
  <1> QED BY <1>3, <1>4
-----------------------------------------------------------------------------
LEMMA HistoryGrows == Inv /\ [Next]_vars => overlapped \subseteq overlapped'
  BY DEF Next, Create, Change, Submit, RecordEvent, RecordEventFails, Crash,
     CreateInvalid, CreateInsert, CreateConflict, CreateInsertFails, CreateInit,
     CreateInitFails, CreateRollback, CreateFinish, LoadMissing, LoadFails, LoadForbidden,
     UpdateInvalid, Load, UpdateRow, UpdateRowFails, DeleteRow, DeleteRowFails,
     DeleteFinish, vars

LEMMA CrashKept ==
  ASSUME Inv, Inv', Crash, NEW k \in Keys PROVE KeyOK(k)'
  <1>1. \A s \in Reqs : ~ On(s, k)'
    BY DEF Crash, On, InFlight, InFlightPcs
  <1>2. breaks' # 0
    BY DEF Crash, Break, Inv, TypeOK, WorldTypeOK
  <1> QED
    BY <1>1, <1>2 DEF KeyOK, Alone, RemovingOK, HeldOK, DiskOK, BornOK

\* Where a handler stands tells what it holds, and that it failed.
LEMMA StepsKept ==
  ASSUME TidyInv, Inv', [Next]_vars, NEW s \in Reqs PROVE StepsOK(s)'
  <1>1. Troubles
    BY TroublesGrow DEF TidyInv
  <1>2. CASE pc'[s] = pc[s] /\ got'[s] = got[s] /\ req'[s] = req[s]
    BY <1>1, <1>2 DEF TidyInv, StepsOK, Troubles
  <1>3. CASE Crash
    BY <1>1, <1>3 DEF Crash, TidyInv, StepsOK, Troubles
  <1>4. ASSUME NEW q \in Traffic, Submit(s, q) PROVE StepsOK(s)'
    BY <1>4 DEF TidyInv, Inv, TypeOK, StepsOK, Submit, Goto
  <1>5. CASE CreateInitFails(s)
    BY <1>1, <1>5 DEF TidyInv, Inv, TypeOK, StepsOK, CreateInitFails, Goto, Fault, Troubles
  <1>6. CASE Create(s) /\ ~ CreateInitFails(s)
    <2>1. pc'[s] \in {"init", "cr", "done"}
      BY <1>6 DEF Create, CreateInvalid, CreateInsert, CreateConflict, CreateInsertFails,
         CreateInit, CreateRollback, CreateFinish, Goto, Reply, TidyInv, Inv, TypeOK
    <2> QED BY <2>1 DEF StepsOK
  <1>7. CASE Change(s)
    <2>1. pc'[s] \in {"update", "delete", "rm", "done"}
      BY <1>7, RequestFields DEF Change, LoadMissing, LoadFails, LoadForbidden,
         UpdateInvalid, Load, UpdateRow, UpdateRowFails, DeleteRow, DeleteRowFails,
         DeleteFinish, Goto, Reply, TidyInv, Inv, TypeOK, RequestOK
    <2> QED BY <2>1 DEF StepsOK
  <1>8. ASSUME NEW r \in Reqs, StepOf(r), r # s PROVE StepsOK(s)'
    BY <1>2, <1>8, OthersStay DEF Others, TidyInv
  <1>9. CASE RecordEvent(s) \/ RecordEventFails(s) \/ UNCHANGED vars
    BY <1>2, <1>9 DEF RecordEvent, RecordEventFails, vars
  <1> QED BY <1>3, <1>4, <1>5, <1>6, <1>7, <1>8, <1>9, NextIsOf DEF StepOf

LEMMA TidyStep == TidyInv /\ [Next]_vars => TidyInv'
  <1> SUFFICES ASSUME TidyInv, [Next]_vars PROVE TidyInv'
    OBVIOUS
  <1>1. Inv /\ Inv' /\ Troubles /\ overlapped \subseteq overlapped'
    BY StepInv, TroublesGrow, HistoryGrows DEF TidyInv
  <1>2. ASSUME NEW k \in Keys, k \notin overlapped' PROVE KeyOK(k)'
    <2>1. KeyOK(k)
      BY <1>1, <1>2 DEF TidyInv
    <2>2. CASE UNCHANGED vars
      BY <1>1, <2>1, <2>2, UnmovedKept DEF vars, world
    <2>3. CASE Crash
      BY <1>1, <2>3, CrashKept
    <2>4. ASSUME NEW r \in Reqs, NEW q \in Traffic, Submit(r, q) PROVE KeyOK(k)'
      BY <1>1, <1>2, <2>1, <2>4, SubmitKept DEF TidyInv
    <2>5. ASSUME NEW r \in Reqs, RecordEvent(r) \/ RecordEventFails(r) PROVE KeyOK(k)'
      BY <1>1, <2>1, <2>5, UnmovedKept DEF RecordEvent, RecordEventFails, world
    <2>6. ASSUME NEW r \in Reqs, Create(r) \/ Change(r) PROVE KeyOK(k)'
      BY <1>1, <2>1, <2>6, HandlerKept
    <2> QED BY <2>2, <2>3, <2>4, <2>5, <2>6 DEF Next
  <1> QED BY <1>1, <1>2, StepsKept DEF TidyInv

LEMMA TidyInvHolds == Spec => []TidyInv
  BY TidyInitInv, TidyStep, PTL DEF Spec

(* No single failed step leaves a repository without its directory, for    *)
(* any number of requests and names: on a name where requests never        *)
(* overlapped, without a crash and with at most one failed step, a row at  *)
(* rest has a bare repository at its path (CreateUserRepo rolls back,      *)
(* DeleteRepo removes the row before the directory).                       *)
THEOREM SingleFailuresKeepDisk == Spec => []RowHasDisk
  BY TidyInvHolds, TidyShows, PTL

(* A new repository never opens on the content of one deleted before it:   *)
(* without failures and overlaps its directory was initialised by the very *)
(* request that inserted its row, and a free name has no directory.        *)
THEOREM NewRepositoriesAreFresh == Spec => []FreshContent
  BY TidyInvHolds, TidyShows, PTL
=============================================================================
