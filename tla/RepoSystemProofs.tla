--------------------------- MODULE RepoSystemProofs ---------------------------
(***************************************************************************)
(* What the API server and the operator keep together, for any number of   *)
(* requests, objects and manifests, any sharing of CR names, and any       *)
(* failures, restarts and kubectl commands.                                *)
(***************************************************************************)
EXTENDS RepoSystem, RepoAPIProofs

USE WorldAssumption, APIAssumption, ControllerAssumption

(* The inductive invariant.  The handlers' part is Inv of RepoAPIProofs.   *)
(* Of each object: an id in a copy of it was given out, for its key and no *)
(* other; a copy that passes for current is the stored object, up to what  *)
(* this Reconcile has set in it; and a Reconcile that was overtaken will   *)
(* hear of it, from the queue or from the informer.                        *)
CreatePcs == {"badowner", "db", "insert", "reread", "createfailed", "sync", "ready"}
FinalPcs == {"rmdisk", "rmrow", "strip"}

IsOwn(cr) ==
  cr # NoCR => /\ cr.dbID < nextId
               /\ \A row \in rows : row.id = cr.dbID => row.key = cr.key

ObjectOK(c) ==
  /\ IsOwn(crs[c]) /\ IsOwn(cache[c]) /\ IsOwn(copy[c])
  /\ cacheFresh[c] => cache[c] = crs[c]

FoundOK(c) ==
  rpc[c] \in {"sync", "ready"} =>
    /\ found[c] # NoId /\ found[c] < nextId
    /\ \A row \in rows : row.id = found[c] => row.key = copy[c].key

WorkerOK(c) ==
  /\ rpc[c] = "idle" => copy[c] = NoCR /\ ~ fresh[c]
  /\ rpc[c] # "idle" => copy[c] # NoCR
  /\ rpc[c] \in CreatePcs => ~ copy[c].deleting
  /\ rpc[c] \in FinalPcs => copy[c].deleting
  /\ rpc[c] \in {"sync", "ready", "reread"} => copy[c].userID = "owner"
  /\ rpc[c] # "idle" /\ ~ fresh[c] => ~ cacheFresh[c] \/ queued[c]
  /\ rpc[c] = "strip" /\ faults = 0 => ~ Live(copy[c].dbID)

FreshOK(c) ==
  fresh[c] => /\ crs[c] # NoCR
              /\ rpc[c] \in CreatePcs => copy[c] = [crs[c] EXCEPT !.hasDisk = TRUE]
              /\ rpc[c] \in FinalPcs => copy[c] = [crs[c] EXCEPT !.phase = "Deleting"]

SysInv ==
  /\ Inv /\ OpTypeOK
  /\ \A c \in CRNames : ObjectOK(c) /\ FoundOK(c) /\ WorkerOK(c) /\ FreshOK(c)

LEMMA SystemInitInv == SystemInit => SysInv
  BY InitInv DEF SystemInit, OpInit, Init, WorldInit, SysInv, OpTypeOK, ObjectOK, FoundOK,
     WorkerOK, FreshOK, IsOwn, RunPcs, CreatePcs, FinalPcs, NoId
-----------------------------------------------------------------------------
(* Edits of an object. *)

\* new is an object of the same repository and owner, with the same row.
Same(new, old) ==
  /\ new \in CR /\ new # NoCR
  /\ new.key = old.key /\ new.userID = old.userID /\ new.dbID = old.dbID

LEMMA CRFields ==
  ASSUME NEW cr \in CR
  PROVE  /\ cr # NoCR /\ cr.key \in Keys /\ cr.priv \in BOOLEAN /\ cr.userID \in OwnerRefs
         /\ cr.deleting \in BOOLEAN /\ cr.phase \in Phases /\ cr.dbID \in Nat
         /\ cr.finalizer \in BOOLEAN
  BY DEF CR

LEMMA OwnerIsRef == "owner" \in OwnerRefs
  BY DEF OwnerRefs

LEMMA NewCRFields ==
  \A k \in Keys, p \in BOOLEAN, ref \in OwnerRefs :
    NewCR(k, p, ref) \in CR /\ NewCR(k, p, ref).key = k /\ NewCR(k, p, ref).dbID = NoId
  BY DEF NewCR, CR, Phases, NoId

LEMMA NewCRPhase ==
  \A k \in Keys, p \in BOOLEAN, ref \in OwnerRefs : NewCR(k, p, ref).phase = ""
  BY DEF NewCR

LEMMA PhaseSet ==
  ASSUME NEW cr \in CR, NEW p \in Phases
  PROVE  LET new == [cr EXCEPT !.phase = p]
         IN /\ Same(new, cr) /\ new.phase = p /\ new.priv = cr.priv
            /\ new.deleting = cr.deleting /\ new.finalizer = cr.finalizer
  BY DEF CR, Same

LEMMA HasDiskSet ==
  ASSUME NEW cr \in CR
  PROVE  LET new == [cr EXCEPT !.hasDisk = TRUE]
         IN /\ Same(new, cr) /\ new.phase = cr.phase /\ new.priv = cr.priv
            /\ new.deleting = cr.deleting
  BY DEF CR, Same

LEMMA FinalizerSet ==
  ASSUME NEW cr \in CR
  PROVE  LET new == [cr EXCEPT !.finalizer = TRUE]
         IN /\ Same(new, cr) /\ new.phase = cr.phase /\ new.priv = cr.priv
            /\ new.deleting = cr.deleting /\ new.finalizer
  BY DEF CR, Same

LEMMA DeletingSet ==
  ASSUME NEW cr \in CR
  PROVE  LET new == [cr EXCEPT !.deleting = TRUE]
         IN Same(new, cr) /\ new.deleting
  BY DEF CR, Same

LEMMA PrivFlipped ==
  ASSUME NEW cr \in CR
  PROVE  LET new == [cr EXCEPT !.priv = ~ @, !.observed = FALSE]
         IN /\ Same(new, cr) /\ new.phase = cr.phase /\ new.deleting = cr.deleting
            /\ new.priv # cr.priv
  BY DEF CR, Same

LEMMA SyncedUnset ==
  ASSUME NEW cr \in CR
  PROVE  LET new == [cr EXCEPT !.synced = FALSE]
         IN /\ Same(new, cr) /\ new.phase = cr.phase /\ new.priv = cr.priv
            /\ new.deleting = cr.deleting
  BY DEF CR, Same

LEMMA FailedSet ==
  ASSUME NEW cr \in CR
  PROVE  LET new == [cr EXCEPT !.phase = "Failed", !.synced = FALSE]
         IN Same(new, cr) /\ new.phase = "Failed" /\ new.deleting = cr.deleting
  BY DEF CR, Same, Phases

ReadyOf(cr, i) ==
  [cr EXCEPT !.dbID = i, !.synced = TRUE, !.phase = "Ready", !.observed = TRUE]

LEMMA ReadySet ==
  ASSUME NEW cr \in CR, NEW i \in Nat
  PROVE  /\ ReadyOf(cr, i) \in CR /\ ReadyOf(cr, i) # NoCR
         /\ ReadyOf(cr, i).key = cr.key /\ ReadyOf(cr, i).userID = cr.userID
         /\ ReadyOf(cr, i).dbID = i /\ ReadyOf(cr, i).phase = "Ready"
         /\ ReadyOf(cr, i).priv = cr.priv /\ ReadyOf(cr, i).deleting = cr.deleting
  BY DEF CR, Phases, ReadyOf

LEMMA SameIsOwn ==
  ASSUME NEW new, NEW old \in CR, Same(new, old), IsOwn(old) PROVE IsOwn(new)
  BY CRFields DEF Same, IsOwn
-----------------------------------------------------------------------------
(* A step of the operator about c leaves the other objects, and all copies *)
(* of them, as they were.                                                  *)
LeavesAlone(d) ==
  /\ crs'[d] = crs[d] /\ cache'[d] = cache[d] /\ cacheFresh'[d] = cacheFresh[d]
  /\ queued'[d] = queued[d] /\ rpc'[d] = rpc[d] /\ copy'[d] = copy[d]
  /\ fresh'[d] = fresh[d] /\ found'[d] = found[d]

OneObject(c) == \A d \in CRNames \ {c} : LeavesAlone(d)

LEMMA Counted ==
  ASSUME SysInv, Fault \/ Break \/ NoTrouble
  PROVE  /\ faults' \in 0..MaxFaults /\ breaks' \in 0..MaxBreaks
         /\ faults \in Nat /\ faults' \in Nat /\ faults <= faults'
  BY DEF Fault, Break, NoTrouble, trouble, SysInv, Inv, TypeOK, WorldTypeOK

\* The handlers' invariant bears any change of the world that DBStep allows.
LEMMA OpKeepsInv ==
  ASSUME SysInv, DBStep, UNCHANGED local, Fault \/ Break \/ NoTrouble,
         disk' \in [Paths -> Reqs \cup {Operator, NoDisk}],
         crs' \in [CRNames -> CR \cup {NoCR}]
  PROVE  Inv'
  <1>1. TypeOK'
    BY Counted DEF SysInv, Inv, DBStep, TypeOK, WorldTypeOK, local
  <1>2. ASSUME NEW r \in Reqs PROVE RequestOK(r)' /\ HoldOK(r)' /\ AnswerOK(r)'
    <2>1. RequestOK(r) /\ HoldOK(r) /\ AnswerOK(r)
      BY DEF SysInv, Inv
    <2>2. RequestOK(r)' /\ AnswerOK(r)'
      BY <2>1 DEF local, RequestOK, AnswerOK
    <2>3. HoldOK(r)'
      <3> SUFFICES ASSUME pc[r] \in Holding PROVE HoldOK(r)'
        BY DEF HoldOK, local
      <3>1. /\ got[r] \in Row /\ got[r].id < nextId /\ got[r].id \in Nat
            /\ \A row \in rows : row.id = got[r].id => row.key = got[r].key
        BY <2>1, RowFields DEF HoldOK
      <3>2. nextId \in Nat /\ nextId' \in Nat /\ nextId <= nextId'
        BY DEF DBStep, SysInv, Inv, TypeOK, WorldTypeOK, Ids
      <3>3. \A new \in rows' : new.id = got[r].id => new.key = got[r].key
        BY <3>1, <3>2 DEF DBStep
      <3> QED BY <2>1, <3>1, <3>2, <3>3 DEF HoldOK, local
    <2> QED BY <2>2, <2>3
  <1>3. RowsOK'
    BY DEF DBStep
  <1> QED BY <1>1, <1>2, <1>3 DEF Inv

\* An id given out for a key stays the id of that key.
LEMMA OwnStays ==
  ASSUME SysInv, DBStep, NEW i \in Nat, i < nextId, NEW k,
         \A row \in rows : row.id = i => row.key = k
  PROVE  i < nextId' /\ \A row \in rows' : row.id = i => row.key = k
  BY DEF DBStep, SysInv, Inv, TypeOK, WorldTypeOK, Ids

LEMMA IsOwnStays ==
  ASSUME SysInv, DBStep, NEW cr \in CR \cup {NoCR}, IsOwn(cr)
  PROVE  cr # NoCR => /\ cr.dbID < nextId'
                      /\ \A row \in rows' : row.id = cr.dbID => row.key = cr.key
  BY OwnStays, CRFields DEF IsOwn

LEMMA DeadStaysDead ==
  ASSUME SysInv, DBStep, NEW i \in Nat, i < nextId, ~ Live(i) PROVE ~ Live(i)'
  BY DEF DBStep, SysInv, Inv, TypeOK, WorldTypeOK, Ids, Live

LEMMA Types ==
  ASSUME SysInv, NEW c \in CRNames
  PROVE  /\ crs[c] \in CR \cup {NoCR} /\ cache[c] \in CR \cup {NoCR}
         /\ copy[c] \in CR \cup {NoCR} /\ found[c] \in Nat /\ nextId \in Nat
         /\ rpc[c] \in RunPcs \cup {"idle"}
         /\ cacheFresh[c] \in BOOLEAN /\ queued[c] \in BOOLEAN /\ fresh[c] \in BOOLEAN
  BY DEF SysInv, Inv, TypeOK, WorldTypeOK, OpTypeOK, Ids

\* What was left alone stays well, whatever the step did to the tables.
LEMMA LeftAlone ==
  ASSUME SysInv, DBStep, Fault \/ Break \/ NoTrouble, NEW d \in CRNames, LeavesAlone(d)
  PROVE  ObjectOK(d)' /\ FoundOK(d)' /\ WorkerOK(d)' /\ FreshOK(d)'
  <1>1. ObjectOK(d) /\ FoundOK(d) /\ WorkerOK(d) /\ FreshOK(d)
    BY DEF SysInv
  <1>2. ObjectOK(d)'
    BY <1>1, IsOwnStays, Types DEF ObjectOK, IsOwn, LeavesAlone
  <1>3. FoundOK(d)'
    <2>1. rpc[d] \in {"sync", "ready"} =>
            /\ found[d] < nextId'
            /\ \A row \in rows' : row.id = found[d] => row.key = copy[d].key
      <3> SUFFICES ASSUME rpc[d] \in {"sync", "ready"}
                   PROVE  /\ found[d] < nextId'
                          /\ \A row \in rows' : row.id = found[d] => row.key = copy[d].key
        OBVIOUS
      <3>1. /\ found[d] \in Nat /\ found[d] < nextId
            /\ \A row \in rows : row.id = found[d] => row.key = copy[d].key
        BY <1>1, Types DEF FoundOK
      <3> QED BY <3>1, OwnStays
    <2> QED BY <1>1, <2>1 DEF FoundOK, LeavesAlone
  <1>4. WorkerOK(d)'
    <2>1. rpc[d] = "strip" /\ faults' = 0 => ~ Live(copy[d].dbID)'
      <3> SUFFICES ASSUME rpc[d] = "strip", faults' = 0 PROVE ~ Live(copy[d].dbID)'
        OBVIOUS
      <3>1. faults = 0 /\ copy[d] # NoCR /\ copy[d] \in CR
        BY <1>1, Counted, Types DEF WorkerOK
      <3>2. ~ Live(copy[d].dbID) /\ copy[d].dbID \in Nat /\ copy[d].dbID < nextId
        BY <1>1, <3>1, CRFields DEF WorkerOK, ObjectOK, IsOwn
      <3>3. ~ \E row \in rows' : row.id = copy[d].dbID
        BY <3>2, DeadStaysDead DEF Live
      <3> QED BY <3>3 DEF LeavesAlone, Live
    <2> QED BY <1>1, <2>1 DEF WorkerOK, LeavesAlone, Live
  <1>5. FreshOK(d)'
    BY <1>1 DEF FreshOK, LeavesAlone
  <1> QED BY <1>2, <1>3, <1>4, <1>5

\* The step of the operator about c.
LEMMA OneObjectKeeps ==
  ASSUME SysInv, NEW c \in CRNames, OneObject(c), DBStep, UNCHANGED local,
         Fault \/ Break \/ NoTrouble,
         disk' \in [Paths -> Reqs \cup {Operator, NoDisk}],
         crs' \in [CRNames -> CR \cup {NoCR}], OpTypeOK',
         ObjectOK(c)', FoundOK(c)', WorkerOK(c)', FreshOK(c)'
  PROVE  SysInv'
  BY LeftAlone, OpKeepsInv DEF OneObject, SysInv
-----------------------------------------------------------------------------
(* Each step about c leaves the others alone. *)

ReconcileStep(c) == Reconcile(c) \/ WatchEvent(c) \/ Resync(c)

\* What a step writes at c.
Puts(f, next, c) == \E v : next = Set(f, c, v)

LEMMA KeptIsPut ==
  ASSUME NEW S, NEW f \in [CRNames -> S], NEW c \in CRNames PROVE Puts(f, f, c)
  <1>1. f = Set(f, c, f[c])
    BY DEF Set
  <1> QED BY <1>1 DEF Puts

LEMMA PutsOne ==
  ASSUME SysInv, NEW c \in CRNames,
         Puts(crs, crs', c), Puts(cache, cache', c), Puts(cacheFresh, cacheFresh', c),
         Puts(queued, queued', c), Puts(rpc, rpc', c), Puts(copy, copy', c),
         Puts(fresh, fresh', c), Puts(found, found', c)
  PROVE  OneObject(c)
  <1> SUFFICES ASSUME NEW d \in CRNames, d # c PROVE LeavesAlone(d)
    BY DEF OneObject
  <1>1. crs'[d] = crs[d]
    BY DEF SysInv, Inv, TypeOK, WorldTypeOK, Puts, Set
  <1>2. /\ cache'[d] = cache[d] /\ cacheFresh'[d] = cacheFresh[d]
        /\ queued'[d] = queued[d] /\ rpc'[d] = rpc[d]
    BY DEF SysInv, OpTypeOK, Puts, Set
  <1>3. copy'[d] = copy[d] /\ fresh'[d] = fresh[d] /\ found'[d] = found[d]
    BY DEF SysInv, OpTypeOK, Puts, Set
  <1> QED BY <1>1, <1>2, <1>3 DEF LeavesAlone

LEMMA AllKept ==
  ASSUME SysInv, NEW c \in CRNames
  PROVE  /\ Puts(crs, crs, c) /\ Puts(cache, cache, c) /\ Puts(cacheFresh, cacheFresh, c)
         /\ Puts(queued, queued, c) /\ Puts(rpc, rpc, c) /\ Puts(copy, copy, c)
         /\ Puts(fresh, fresh, c) /\ Puts(found, found, c)
  BY KeptIsPut DEF SysInv, Inv, TypeOK, WorldTypeOK, OpTypeOK

\* A write is refused, or is made from a copy that is current.
Written(c, cr) == fresh[c] /\ Store(c, cr) /\ NoTrouble
NotWritten(c) == /\ UNCHANGED <<crs, cacheFresh>>
                 /\ IF fresh[c] THEN Fault ELSE NoTrouble

LEMMA WriteCases ==
  ASSUME NEW c \in CRNames, NEW cr
  PROVE  /\ WriteIgnoringErrors(c, cr) => Written(c, cr) \/ NotWritten(c)
         /\ Write(c, cr) /\ NoTrouble => Written(c, cr)
         /\ WriteRefused(c) => NotWritten(c)
  BY DEF WriteIgnoringErrors, Write, WriteRefused, Written, NotWritten

LEMMA WritesAreOne ==
  ASSUME SysInv, NEW c \in CRNames, NEW cr, NEW again, Return(c, again), cache' = cache,
         Written(c, cr) \/ NotWritten(c)
  PROVE  OneObject(c)
  <1>1. Puts(crs, crs', c) /\ Puts(cacheFresh, cacheFresh', c)
    BY AllKept DEF Written, NotWritten, Store, Puts
  <1>2. /\ Puts(queued, queued', c) /\ Puts(rpc, rpc', c) /\ Puts(copy, copy', c)
        /\ Puts(fresh, fresh', c) /\ Puts(found, found', c) /\ Puts(cache, cache', c)
    BY AllKept DEF Return, Puts
  <1> QED BY <1>1, <1>2, PutsOne

LEMMA StepsAreOne ==
  ASSUME SysInv, NEW c \in CRNames, ReconcileStep(c) PROVE OneObject(c)
  <1>1. CASE ReconcileGone(c)
    BY <1>1, AllKept, PutsOne DEF ReconcileGone, Puts, world
  <1>2. CASE AddFinalizer(c)
    BY <1>2, AllKept, PutsOne DEF AddFinalizer, Store, Puts, world
  <1>3. CASE SetPending(c)
    BY <1>3, AllKept, PutsOne DEF SetPending, Store, Puts, world
  <1>4. CASE EnsureDiskFails(c)
    BY <1>4, AllKept, PutsOne DEF EnsureDiskFails, Store, Puts, world
  <1>5. CASE EnsureDisk(c)
    BY <1>5, AllKept, PutsOne DEF EnsureDisk, Store, Puts, world
  <1>6. CASE BeginFinalize(c)
    BY <1>6, AllKept, PutsOne DEF BeginFinalize, Store, Puts, world
  <1>7. CASE RejectOwner(c) \/ CreateFailed(c) \/ MarkReady(c) \/ StripFinalizer(c)
    <2>1. \E cr, again : /\ Return(c, again) /\ cache' = cache
                         /\ Written(c, cr) \/ NotWritten(c)
      BY <1>7, WriteCases DEF RejectOwner, CreateFailed, MarkReady, StripFinalizer
    <2> QED BY <2>1, WritesAreOne
  <1>8. CASE Lookup(c)
    BY <1>8, AllKept, PutsOne DEF Lookup, Then, Puts, world
  <1>9. CASE LookupFails(c)
    BY <1>9, AllKept, PutsOne DEF LookupFails, Return, Puts, world
  <1>10. CASE InsertRow(c)
    BY <1>10, AllKept, PutsOne DEF InsertRow, Then, Puts
  <1>11. CASE InsertRowFails(c)
    BY <1>11, AllKept, PutsOne DEF InsertRowFails, Then, Puts
  <1>12. CASE Reread(c)
    BY <1>12, AllKept, PutsOne DEF Reread, Then, Puts, world
  <1>13. CASE SyncRow(c)
    BY <1>13, AllKept, PutsOne DEF SyncRow, Then, Puts
  <1>14. CASE FinalizeDisk(c) \/ FinalizeRow(c)
    BY <1>14, AllKept, PutsOne DEF FinalizeDisk, FinalizeRow, Then, Puts
  <1>15. CASE WatchEvent(c)
    BY <1>15, AllKept, PutsOne DEF WatchEvent, Puts, world
  <1>16. CASE Resync(c)
    BY <1>16, AllKept, PutsOne DEF Resync, Puts, world
  <1> QED
    BY <1>1, <1>2, <1>3, <1>4, <1>5, <1>6, <1>7, <1>8, <1>9, <1>10, <1>11, <1>12, <1>13,
       <1>14, <1>15, <1>16 DEF ReconcileStep, Reconcile
-----------------------------------------------------------------------------
(* A Reconcile goes from one call to the next, with the object as it is.   *)
LEMMA Proceeds ==
  ASSUME SysInv, NEW c \in CRNames, OneObject(c), NEW to, Then(c, to),
         UNCHANGED <<crs, cache, cacheFresh, copy, fresh, kubectl, local>>,
         found' \in [CRNames -> Nat], FoundOK(c)', DBStep,
         disk' \in [Paths -> Reqs \cup {Operator, NoDisk}], Fault \/ Break \/ NoTrouble,
         \/ rpc[c] \in CreatePcs /\ to \in CreatePcs
         \/ rpc[c] \in FinalPcs /\ to \in FinalPcs,
         to \in {"sync", "ready", "reread"} => copy[c].userID = "owner",
         to = "strip" /\ faults' = 0 => ~ \E row \in rows' : row.id = copy[c].dbID
  PROVE  SysInv'
  <1>1. ObjectOK(c) /\ FoundOK(c) /\ WorkerOK(c) /\ FreshOK(c)
    BY DEF SysInv
  <1>2. rpc'[c] = to /\ queued' = queued
    BY DEF Then, Set, SysInv, OpTypeOK
  <1>3. crs' \in [CRNames -> CR \cup {NoCR}]
    BY DEF SysInv, Inv, TypeOK, WorldTypeOK
  <1>4. OpTypeOK'
    BY DEF SysInv, OpTypeOK, Then, Set, CreatePcs, FinalPcs, RunPcs
  <1>5. ObjectOK(c)'
    BY <1>1, IsOwnStays, Types DEF ObjectOK, IsOwn
  <1>6. WorkerOK(c)'
    BY <1>1, <1>2 DEF WorkerOK, CreatePcs, FinalPcs, Live
  <1>7. FreshOK(c)'
    BY <1>1, <1>2 DEF FreshOK, CreatePcs, FinalPcs
  <1> QED BY <1>3, <1>4, <1>5, <1>6, <1>7, OneObjectKeeps

\* A step that only writes the object or the queue, with no Reconcile going on
\* about c after it.
LEMMA Settles ==
  ASSUME SysInv, NEW c \in CRNames, OneObject(c), OpTypeOK',
         crs' \in [CRNames -> CR \cup {NoCR}],
         Fault \/ Break \/ NoTrouble, UNCHANGED <<db, disk, local>>,
         rpc'[c] = "idle", copy'[c] = NoCR, ~ fresh'[c],
         crs'[c] = crs[c] \/ IsOwn(crs'[c]), cache'[c] \in {cache[c], crs'[c]},
         cacheFresh'[c] => cache'[c] = crs'[c]
  PROVE  SysInv'
  <1>1. ObjectOK(c)
    BY DEF SysInv
  <1>2. DBStep
    BY SameTables DEF SysInv, Inv, TypeOK, WorldTypeOK, db
  <1>3. disk' \in [Paths -> Reqs \cup {Operator, NoDisk}]
    BY DEF SysInv, Inv, TypeOK, WorldTypeOK
  <1>4. ObjectOK(c)'
    BY <1>1 DEF ObjectOK, IsOwn, db
  <1>5. FoundOK(c)' /\ WorkerOK(c)' /\ FreshOK(c)'
    BY DEF FoundOK, WorkerOK, FreshOK, CreatePcs, FinalPcs
  <1> QED BY <1>2, <1>3, <1>4, <1>5, OneObjectKeeps

LEMMA Stored ==
  ASSUME SysInv, NEW c \in CRNames, NEW cr \in CR \cup {NoCR}, Store(c, cr)
  PROVE  /\ crs' \in [CRNames -> CR \cup {NoCR}] /\ cacheFresh' \in [CRNames -> BOOLEAN]
         /\ crs'[c] = cr /\ cacheFresh'[c] = (cacheFresh[c] /\ cr = crs[c])
  <1>1. crs \in [CRNames -> CR \cup {NoCR}] /\ crs' = [crs EXCEPT ![c] = cr]
    BY DEF SysInv, Inv, TypeOK, WorldTypeOK, Store, Set
  <1> DEFINE b == cacheFresh[c] /\ cr = crs[c]
  <1>2. /\ cacheFresh \in [CRNames -> BOOLEAN] /\ cacheFresh' = [cacheFresh EXCEPT ![c] = b]
        /\ b \in BOOLEAN
    BY DEF SysInv, OpTypeOK, Store, Set
  <1>3. crs' \in [CRNames -> CR \cup {NoCR}] /\ crs'[c] = cr
    BY <1>1
  <1> HIDE DEF b
  <1>4. cacheFresh' \in [CRNames -> BOOLEAN] /\ cacheFresh'[c] = b
    BY <1>2
  <1> QED BY <1>3, <1>4 DEF b

LEMMA StoredOrKept ==
  ASSUME SysInv, NEW c \in CRNames, NEW cr \in CR \cup {NoCR}, IsOwn(cr),
         Store(c, cr) \/ UNCHANGED <<crs, cacheFresh>>
  PROVE  /\ crs' \in [CRNames -> CR \cup {NoCR}] /\ cacheFresh' \in [CRNames -> BOOLEAN]
         /\ crs'[c] = crs[c] \/ IsOwn(crs'[c])
         /\ cacheFresh'[c] => cache[c] = crs'[c]
  <1>1. cacheFresh[c] => cache[c] = crs[c]
    BY DEF SysInv, ObjectOK
  <1>2. CASE Store(c, cr)
    BY <1>1, <1>2, Stored
  <1>3. CASE UNCHANGED <<crs, cacheFresh>>
    BY <1>1, <1>3 DEF SysInv, Inv, TypeOK, WorldTypeOK, OpTypeOK
  <1> QED BY <1>2, <1>3

LEMMA ReturnsSettle ==
  ASSUME SysInv, NEW c \in CRNames, OneObject(c), NEW again \in BOOLEAN, Return(c, again),
         UNCHANGED <<db, disk, cache, kubectl, local>>, Fault \/ Break \/ NoTrouble,
         NEW cr \in CR \cup {NoCR}, IsOwn(cr),
         Store(c, cr) \/ UNCHANGED <<crs, cacheFresh>>
  PROVE  SysInv'
  <1>1. /\ crs' \in [CRNames -> CR \cup {NoCR}] /\ cacheFresh' \in [CRNames -> BOOLEAN]
        /\ crs'[c] = crs[c] \/ IsOwn(crs'[c])
        /\ cacheFresh'[c] => cache'[c] = crs'[c]
    BY StoredOrKept
  <1>2. OpTypeOK'
    BY <1>1 DEF SysInv, OpTypeOK, Return, Set, NoId
  <1>3. rpc'[c] = "idle" /\ copy'[c] = NoCR /\ ~ fresh'[c]
    BY DEF SysInv, OpTypeOK, Return, Set
  <1> QED BY <1>1, <1>2, <1>3, Settles

\* The finalizer, the phase Pending, or the phase Failed after InitBareRepo.
LEMMA StoresSettle ==
  ASSUME SysInv, NEW c \in CRNames, OneObject(c), rpc[c] = "idle",
         UNCHANGED <<db, disk, cache, queued, rpc, copy, fresh, found, kubectl, local>>,
         Fault \/ Break \/ NoTrouble, NEW cr \in CR, IsOwn(cr),
         Store(c, cr) \/ UNCHANGED <<crs, cacheFresh>>
  PROVE  SysInv'
  <1>1. /\ crs' \in [CRNames -> CR \cup {NoCR}] /\ cacheFresh' \in [CRNames -> BOOLEAN]
        /\ crs'[c] = crs[c] \/ IsOwn(crs'[c])
        /\ cacheFresh'[c] => cache'[c] = crs'[c]
    BY StoredOrKept
  <1>2. OpTypeOK'
    BY <1>1 DEF SysInv, OpTypeOK
  <1>3. rpc'[c] = "idle" /\ copy'[c] = NoCR /\ ~ fresh'[c]
    BY DEF SysInv, WorkerOK
  <1> QED BY <1>1, <1>2, <1>3, Settles

\* What a worker reads from the cache is an object, its id its own.
LEMMA FetchedIsOwn ==
  ASSUME SysInv, NEW c \in CRNames, Fetched(c)
  PROVE  /\ cache[c] \in CR /\ IsOwn(cache[c]) /\ rpc[c] = "idle" /\ queued[c]
         /\ cacheFresh[c] => cache[c] = crs[c]
         /\ copy[c] = NoCR /\ ~ fresh[c]
  BY Types DEF Fetched, SysInv, ObjectOK, WorkerOK

LEMMA StoringInv ==
  ASSUME SysInv, NEW c \in CRNames, UNCHANGED local,
         AddFinalizer(c) \/ SetPending(c) \/ EnsureDiskFails(c)
  PROVE  SysInv'
  <1>1. Fetched(c) /\ OneObject(c)
    BY StepsAreOne DEF AddFinalizer, SetPending, EnsureDiskFails, ReconcileStep, Reconcile
  <1>2. \E cr : /\ Same(cr, cache[c])
                /\ Store(c, cr) \/ UNCHANGED <<crs, cacheFresh>>
    BY <1>1, FetchedIsOwn, FinalizerSet, PhaseSet
    DEF AddFinalizer, SetPending, EnsureDiskFails, Phases
  <1>3. /\ UNCHANGED <<db, disk, cache, queued, rpc, copy, fresh, found, kubectl>>
        /\ Fault \/ Break \/ NoTrouble
    BY DEF AddFinalizer, SetPending, EnsureDiskFails
  <1> QED
    BY <1>1, <1>2, <1>3, FetchedIsOwn, SameIsOwn, StoresSettle DEF Same

\* The object in the hands of a Reconcile.
LEMMA CopyIsOwn ==
  ASSUME SysInv, NEW c \in CRNames, rpc[c] # "idle"
  PROVE  copy[c] \in CR /\ copy[c] # NoCR /\ IsOwn(copy[c])
  BY Types DEF SysInv, WorkerOK, ObjectOK

LEMMA FoundIsOwn ==
  ASSUME SysInv, NEW c \in CRNames, rpc[c] = "ready"
  PROVE  ReadyOf(copy[c], found[c]) \in CR /\ IsOwn(ReadyOf(copy[c], found[c]))
  <1>1. copy[c] \in CR /\ found[c] \in Nat /\ FoundOK(c)
    BY Types, CopyIsOwn DEF SysInv
  <1>2. /\ ReadyOf(copy[c], found[c]) \in CR
        /\ ReadyOf(copy[c], found[c]).key = copy[c].key
        /\ ReadyOf(copy[c], found[c]).dbID = found[c]
    BY <1>1, ReadySet
  <1>3. found[c] < nextId /\ \A row \in rows : row.id = found[c] => row.key = copy[c].key
    BY <1>1 DEF FoundOK
  <1> QED BY <1>2, <1>3 DEF IsOwn

LEMMA ReturningInv ==
  ASSUME SysInv, NEW c \in CRNames, UNCHANGED local,
         \/ RejectOwner(c) \/ CreateFailed(c) \/ MarkReady(c) \/ StripFinalizer(c)
         \/ LookupFails(c)
  PROVE  SysInv'
  <1>1. OneObject(c) /\ rpc[c] # "idle"
    BY StepsAreOne DEF RejectOwner, CreateFailed, MarkReady, StripFinalizer, LookupFails,
                       ReconcileStep, Reconcile
  <1>2. \E cr \in CR \cup {NoCR} :
          IsOwn(cr) /\ (Store(c, cr) \/ UNCHANGED <<crs, cacheFresh>>)
    <2>1. CASE RejectOwner(c)
      BY <1>1, <2>1, CopyIsOwn, FailedSet, SameIsOwn, WriteCases
      DEF RejectOwner, Written, NotWritten, Same
    <2>2. CASE CreateFailed(c)
      BY <1>1, <2>2, CopyIsOwn, SyncedUnset, SameIsOwn, WriteCases
      DEF CreateFailed, Written, NotWritten, Same
    <2>3. CASE MarkReady(c)
      BY <2>3, FoundIsOwn DEF MarkReady, Write, WriteRefused, ReadyOf
    <2>4. CASE StripFinalizer(c) \/ LookupFails(c)
      BY <2>4 DEF StripFinalizer, LookupFails, Write, WriteRefused, IsOwn, world
    <2> QED BY <2>1, <2>2, <2>3, <2>4
  <1>3. /\ \E again \in BOOLEAN : Return(c, again)
        /\ UNCHANGED <<db, disk, cache, kubectl>>
        /\ Fault \/ Break \/ NoTrouble
    BY DEF RejectOwner, CreateFailed, MarkReady, StripFinalizer, LookupFails,
           WriteIgnoringErrors, Write, WriteRefused, world, db
  <1>4. PICK cr \in CR \cup {NoCR}, again \in BOOLEAN :
          /\ IsOwn(cr) /\ (Store(c, cr) \/ UNCHANGED <<crs, cacheFresh>>)
          /\ Return(c, again)
    BY <1>2, <1>3
  <1> QED BY <1>1, <1>3, <1>4, ReturnsSettle

\* The calls to the database in the midst of a Reconcile.
LEMMA TablesStay ==
  ASSUME SysInv, UNCHANGED db PROVE DBStep
  BY SameTables DEF SysInv, Inv, TypeOK, WorldTypeOK, db

LEMMA RowFound ==
  ASSUME SysInv, NEW k, NEW row \in RowsOf(k)
  PROVE  /\ row.id \in Nat /\ row.id # NoId /\ row.id < nextId
         /\ \A other \in rows : other.id = row.id => other.key = k
  BY RowFields DEF SysInv, Inv, RowsOK, TypeOK, WorldTypeOK, RowsOf, Ids

\* What a Reconcile that has asked the database for its row knows.
LEMMA FoundTypes ==
  ASSUME SysInv, NEW c \in CRNames, NEW i \in Nat,
         found' = Set(found, c, i) \/ UNCHANGED found
  PROVE  found' \in [CRNames -> Nat] /\ (found' = Set(found, c, i) => found'[c] = i)
  BY DEF SysInv, OpTypeOK, Set

LEMMA DiskStays ==
  ASSUME SysInv, disk' = disk PROVE disk' \in [Paths -> Reqs \cup {Operator, NoDisk}]
  BY DEF SysInv, Inv, TypeOK, WorldTypeOK

LEMMA ThenAt ==
  ASSUME SysInv, NEW c \in CRNames, NEW to, Then(c, to) PROVE rpc'[c] = to
  BY DEF Then, Set, SysInv, OpTypeOK

LEMMA ReadingInv ==
  ASSUME SysInv, NEW c \in CRNames, UNCHANGED local, Lookup(c) \/ Reread(c)
  PROVE  SysInv'
  <1>1. /\ OneObject(c) /\ rpc[c] \in CreatePcs
        /\ UNCHANGED <<crs, cache, cacheFresh, copy, fresh, kubectl, db, disk>>
        /\ Fault \/ Break \/ NoTrouble
    BY StepsAreOne DEF Lookup, Reread, ReconcileStep, Reconcile, world, db, CreatePcs
  <1>2. DBStep /\ disk' \in [Paths -> Reqs \cup {Operator, NoDisk}]
    BY <1>1, TablesStay, DiskStays
  <1>3. CASE /\ \E row \in RowsOf(copy[c].key) : found' = Set(found, c, row.id)
             /\ copy[c].userID = "owner"
             /\ Then(c, "sync") \/ Then(c, "ready")
    <2>1. PICK row \in RowsOf(copy[c].key) : found' = Set(found, c, row.id)
      BY <1>3
    <2>2. found' \in [CRNames -> Nat] /\ found'[c] = row.id
      BY <2>1, RowFound, FoundTypes
    <2>3. FoundOK(c)'
      BY <1>1, <2>2, RowFound DEF FoundOK, db
    <2>4. PICK to \in {"sync", "ready"} : Then(c, to)
      BY <1>3
    <2> QED BY <1>1, <1>2, <1>3, <2>2, <2>3, <2>4, Proceeds DEF CreatePcs
  <1>4. CASE UNCHANGED found /\ (Then(c, "insert") \/ Then(c, "createfailed"))
    <2>1. PICK to \in {"insert", "createfailed"} : Then(c, to)
      BY <1>4
    <2>2. found' \in [CRNames -> Nat] /\ FoundOK(c)'
      BY <1>4, <2>1, ThenAt DEF FoundOK, SysInv, OpTypeOK
    <2> QED BY <1>1, <1>2, <1>4, <2>1, <2>2, Proceeds DEF CreatePcs
  <1>5. CASE /\ \E row \in RowsOf(copy[c].key) : found' = Set(found, c, row.id)
             /\ rpc[c] = "reread" /\ Then(c, "ready")
    BY <1>3, <1>5 DEF SysInv, WorkerOK
  <1> QED BY <1>3, <1>4, <1>5 DEF Lookup, Reread

LEMMA InsertingInv ==
  ASSUME SysInv, NEW c \in CRNames, UNCHANGED local, InsertRow(c) \/ InsertRowFails(c)
  PROVE  SysInv'
  <1>1. /\ OneObject(c) /\ rpc[c] = "insert"
        /\ UNCHANGED <<crs, cache, cacheFresh, copy, fresh, kubectl, disk>>
        /\ Fault \/ Break \/ NoTrouble
    BY StepsAreOne DEF InsertRow, InsertRowFails, ReconcileStep, Reconcile
  <1>2. copy[c] \in CR /\ copy[c].key \in Keys /\ copy[c].priv \in BOOLEAN
    BY <1>1, CopyIsOwn, CRFields
  <1>3. disk' \in [Paths -> Reqs \cup {Operator, NoDisk}]
    BY <1>1, DiskStays
  <1>4. CASE /\ CreateRepo(copy[c].key, copy[c].priv)
             /\ found' = Set(found, c, nextId)
             /\ Then(c, "ready") /\ copy[c].userID = "owner"
    <2>1. /\ DBStep /\ nextId' = nextId + 1
          /\ rows' = rows \cup {NewRow(copy[c].key, copy[c].priv)}
      BY <1>2, <1>4, Created DEF SysInv, Inv
    <2>2. /\ nextId \in Nat /\ nextId # NoId
          /\ \A row \in rows : row.id < nextId /\ row.id \in Nat
      BY RowFields DEF SysInv, Inv, TypeOK, WorldTypeOK, RowsOK, Ids
    <2>3. found' \in [CRNames -> Nat] /\ found'[c] = nextId
      BY <1>4, <2>2, FoundTypes
    <2>4. NewRow(copy[c].key, copy[c].priv).key = copy[c].key
      BY <1>2, NewRowIsRow DEF SysInv, Inv
    <2>5. FoundOK(c)'
      BY <1>1, <2>1, <2>2, <2>3, <2>4 DEF FoundOK
    <2> QED BY <1>1, <1>3, <1>4, <2>1, <2>3, <2>5, Proceeds DEF CreatePcs
  <1>5. CASE /\ UNCHANGED found /\ (Then(c, "reread") \/ Then(c, "createfailed"))
             /\ UNCHANGED db \/ CreateRepo(copy[c].key, copy[c].priv)
             /\ Then(c, "reread") => copy[c].userID = "owner"
    <2>1. DBStep
      BY <1>2, <1>5, Created, TablesStay DEF SysInv, Inv
    <2>2. PICK to \in {"reread", "createfailed"} :
            Then(c, to) /\ (to = "reread" => copy[c].userID = "owner")
      BY <1>5
    <2>3. found' \in [CRNames -> Nat] /\ FoundOK(c)'
      BY <1>5, <2>2, ThenAt DEF FoundOK, SysInv, OpTypeOK
    <2> QED BY <1>1, <1>3, <1>5, <2>1, <2>2, <2>3, Proceeds DEF CreatePcs
  <1>6. Then(c, "createfailed") => ~ Then(c, "reread")
    BY ThenAt
  <1> QED BY <1>4, <1>5, <1>6 DEF InsertRow, InsertRowFails

LEMMA SyncRowInv ==
  ASSUME SysInv, NEW c \in CRNames, UNCHANGED local, SyncRow(c) PROVE SysInv'
  <1>1. /\ OneObject(c) /\ rpc[c] = "sync" /\ Then(c, "ready")
        /\ UNCHANGED <<crs, cache, cacheFresh, copy, fresh, found, kubectl, disk>>
        /\ Fault \/ Break \/ NoTrouble
    BY StepsAreOne DEF SyncRow, ReconcileStep, Reconcile
  <1>2. copy[c].priv \in BOOLEAN /\ found[c] \in Nat /\ found' \in [CRNames -> Nat]
    BY <1>1, CopyIsOwn, CRFields, Types DEF SysInv, OpTypeOK
  <1>3. DBStep
    BY <1>2, Updated, TablesStay DEF SyncRow, SysInv, Inv
  <1>4. FoundOK(c) /\ copy[c].userID = "owner"
    BY <1>1 DEF SysInv, WorkerOK
  <1>5. /\ found[c] # NoId /\ found[c] < nextId'
        /\ \A row \in rows' : row.id = found[c] => row.key = copy[c].key
    BY <1>1, <1>2, <1>3, <1>4, OwnStays DEF FoundOK
  <1>6. FoundOK(c)'
    BY <1>1, <1>5 DEF FoundOK
  <1> QED BY <1>1, <1>2, <1>3, <1>4, <1>6, DiskStays, Proceeds DEF CreatePcs

LEMMA FinalizingInv ==
  ASSUME SysInv, NEW c \in CRNames, UNCHANGED local, FinalizeDisk(c) \/ FinalizeRow(c)
  PROVE  SysInv'
  <1>1. /\ OneObject(c) /\ rpc[c] \in {"rmdisk", "rmrow"}
        /\ UNCHANGED <<crs, cache, cacheFresh, copy, fresh, found, kubectl>>
        /\ Fault \/ Break \/ NoTrouble
    BY StepsAreOne DEF FinalizeDisk, FinalizeRow, ReconcileStep, Reconcile
  <1>2. /\ copy[c] \in CR /\ copy[c].key \in Keys /\ copy[c].dbID \in Nat
        /\ found' \in [CRNames -> Nat]
    BY <1>1, CopyIsOwn, CRFields DEF SysInv, OpTypeOK
  <1>3. CASE FinalizeDisk(c)
    <2>1. disk' \in [Paths -> Reqs \cup {Operator, NoDisk}]
      BY <1>2, <1>3, PathIsPath
      DEF FinalizeDisk, RemoveAll, SysInv, Inv, TypeOK, WorldTypeOK
    <2>2. DBStep /\ Then(c, "rmrow") /\ rpc'[c] = "rmrow"
      BY <1>3, TablesStay, ThenAt DEF FinalizeDisk
    <2>3. FoundOK(c)'
      BY <2>2 DEF FoundOK
    <2> QED BY <1>1, <1>2, <2>1, <2>2, <2>3, Proceeds DEF FinalPcs
  <1>4. CASE FinalizeRow(c)
    <2>1. DBStep
      BY <1>2, <1>4, Deleted, TablesStay DEF FinalizeRow, SysInv, Inv
    <2>2. Then(c, "strip") /\ rpc'[c] = "strip" /\ disk' = disk
      BY <1>4, ThenAt DEF FinalizeRow
    <2>3. FoundOK(c)'
      BY <2>2 DEF FoundOK
    <2>4. faults' = 0 => ~ \E row \in rows' : row.id = copy[c].dbID
      <3>1. Fault => faults' # 0
        BY Counted DEF Fault, SysInv, Inv, TypeOK, WorldTypeOK
      <3>2. \A row \in rows : row.id # NoId
        BY RowFields DEF SysInv, Inv, TypeOK, WorldTypeOK, Ids
      <3> QED BY <1>4, <3>1, <3>2 DEF FinalizeRow, DeleteRepo, db
    <2> QED BY <1>1, <1>2, <2>1, <2>2, <2>3, <2>4, DiskStays, Proceeds DEF FinalPcs
  <1> QED BY <1>3, <1>4

\* A Reconcile begins: it takes what the cache holds.
LEMMA BeginningInv ==
  ASSUME SysInv, NEW c \in CRNames, UNCHANGED local, EnsureDisk(c) \/ BeginFinalize(c)
  PROVE  SysInv'
  <1> DEFINE made == IF cache[c].deleting THEN [cache[c] EXCEPT !.phase = "Deleting"]
                     ELSE [cache[c] EXCEPT !.hasDisk = TRUE]
  <1>1. /\ Fetched(c) /\ OneObject(c)
        /\ copy' = Set(copy, c, made) /\ fresh' = Set(fresh, c, cacheFresh[c])
        /\ queued' = Set(queued, c, FALSE)
        /\ UNCHANGED <<db, cache, found, kubectl>>
        /\ Fault \/ Break \/ NoTrouble
    BY StepsAreOne DEF EnsureDisk, BeginFinalize, ReconcileStep, Reconcile
  <1>2. /\ cache[c] \in CR /\ IsOwn(cache[c]) /\ cacheFresh[c] \in BOOLEAN
        /\ cacheFresh[c] => cache[c] = crs[c]
    BY <1>1, FetchedIsOwn, Types
  <1>3. Same(made, cache[c]) /\ made.deleting = cache[c].deleting
    BY <1>2, PhaseSet, HasDiskSet DEF Phases
  <1>4. DBStep
    BY <1>1, TablesStay
  <1>5. disk' \in [Paths -> Reqs \cup {Operator, NoDisk}]
    <2>1. GetRepoPath(cache[c].key) \in Paths
      BY <1>2, CRFields, PathIsPath
    <2>2. disk \in [Paths -> Reqs \cup {Operator, NoDisk}]
      BY DEF SysInv, Inv, TypeOK, WorldTypeOK
    <2>3. disk' = disk \/ InitBareRepo(GetRepoPath(cache[c].key), Operator)
      BY DEF EnsureDisk, BeginFinalize
    <2> QED BY <2>1, <2>2, <2>3 DEF InitBareRepo
  <1>6. /\ crs' \in [CRNames -> CR \cup {NoCR}] /\ cacheFresh' \in [CRNames -> BOOLEAN]
        /\ IsOwn(crs'[c])
        /\ cacheFresh'[c] => cacheFresh[c] /\ cache[c] = crs'[c]
        /\ cacheFresh[c] => crs'[c] = crs[c] \/ crs'[c] = made
    <2>1. CASE UNCHANGED <<crs, cacheFresh>>
      BY <1>2, <2>1 DEF SysInv, Inv, TypeOK, WorldTypeOK, OpTypeOK, ObjectOK
    <2> HIDE DEF made
    <2>2. CASE cacheFresh[c] /\ cache[c].deleting /\ Store(c, made)
      <3>1. made \in CR \cup {NoCR} /\ IsOwn(made) /\ cache[c] = crs[c]
        BY <1>2, <1>3, <2>2, SameIsOwn DEF Same
      <3>2. /\ crs' \in [CRNames -> CR \cup {NoCR}] /\ cacheFresh' \in [CRNames -> BOOLEAN]
            /\ crs'[c] = made /\ cacheFresh'[c] = (cacheFresh[c] /\ made = crs[c])
        BY <2>2, <3>1, Stored
      <3> QED BY <2>2, <3>1, <3>2
    <2>3. \/ UNCHANGED <<crs, cacheFresh>>
          \/ cacheFresh[c] /\ cache[c].deleting /\ Store(c, made)
      BY DEF EnsureDisk, BeginFinalize, made
    <2> QED BY <2>1, <2>2, <2>3
  <1>7. /\ rpc' \in [CRNames -> RunPcs \cup {"idle"}]
        /\ cache[c].deleting => rpc'[c] = "rmdisk"
        /\ ~ cache[c].deleting => rpc'[c] \in {"badowner", "db"}
    <2>1. \/ rpc' = [rpc EXCEPT ![c] = "rmdisk"] /\ cache[c].deleting
          \/ rpc' = [rpc EXCEPT ![c] = "badowner"] /\ ~ cache[c].deleting
          \/ rpc' = [rpc EXCEPT ![c] = "db"] /\ ~ cache[c].deleting
      BY DEF EnsureDisk, BeginFinalize, Set
    <2> QED BY <2>1 DEF SysInv, OpTypeOK, RunPcs
  <1> HIDE DEF made
  <1>8. /\ copy'[c] = made /\ fresh'[c] = cacheFresh[c] /\ queued'[c] = FALSE
        /\ copy' \in [CRNames -> CR \cup {NoCR}] /\ fresh' \in [CRNames -> BOOLEAN]
        /\ queued' \in [CRNames -> BOOLEAN]
    BY <1>1, <1>2, <1>3 DEF Set, SysInv, OpTypeOK, Same
  <1>9. OpTypeOK'
    BY <1>1, <1>6, <1>7, <1>8 DEF SysInv, OpTypeOK
  <1>10. ObjectOK(c)'
    BY <1>1, <1>2, <1>3, <1>6, <1>8, SameIsOwn DEF ObjectOK, IsOwn, db
  <1>11. FoundOK(c)' /\ WorkerOK(c)'
    BY <1>2, <1>3, <1>6, <1>7, <1>8 DEF FoundOK, WorkerOK, CreatePcs, FinalPcs, Same
  <1>12. FreshOK(c)'
    <2> SUFFICES ASSUME cacheFresh[c] PROVE FreshOK(c)'
      BY <1>8 DEF FreshOK
    <2>1. cache[c] = crs[c] /\ crs'[c] # NoCR
      BY <1>2, <1>3, <1>6 DEF Same
    <2>2. CASE cache[c].deleting
      <3>1. crs'[c] \in CR /\ made = [crs'[c] EXCEPT !.phase = "Deleting"]
        <4>1. crs[c] \in CR /\ made = [crs[c] EXCEPT !.phase = "Deleting"]
          BY <1>2, <2>1, <2>2 DEF made
        <4>2. crs'[c] = crs[c] \/ crs'[c] = made
          BY <1>6
        <4>3. made \in CR /\ made = [made EXCEPT !.phase = "Deleting"]
          BY <4>1 DEF CR, Phases
        <4> HIDE DEF made
        <4> QED BY <4>1, <4>2, <4>3
      <3> QED BY <1>7, <1>8, <2>1, <2>2, <3>1 DEF FreshOK, CreatePcs, FinalPcs
    <2>3. CASE ~ cache[c].deleting
      <3>1. crs' = crs
        BY <2>3 DEF EnsureDisk, BeginFinalize
      <3>2. made = [crs'[c] EXCEPT !.hasDisk = TRUE]
        BY <2>1, <2>3, <3>1 DEF made
      <3> QED BY <1>7, <1>8, <2>1, <2>3, <3>2 DEF FreshOK, CreatePcs, FinalPcs
    <2> QED BY <2>2, <2>3
  <1> QED BY <1>1, <1>4, <1>5, <1>6, <1>9, <1>10, <1>11, <1>12, OneObjectKeeps

\* The work queue and the informer.
LEMMA QueueInv ==
  ASSUME SysInv, NEW c \in CRNames, UNCHANGED local,
         ReconcileGone(c) \/ WatchEvent(c) \/ Resync(c)
  PROVE  SysInv'
  <1>1. /\ OneObject(c)
        /\ UNCHANGED <<world, rpc, copy, fresh, found, kubectl>>
        /\ Fault \/ Break \/ NoTrouble
    BY StepsAreOne
    DEF ReconcileGone, WatchEvent, Resync, ReconcileStep, Reconcile, world
  <1>2. ObjectOK(c) /\ FoundOK(c) /\ WorkerOK(c) /\ FreshOK(c)
    BY DEF SysInv
  <1>3. OpTypeOK'
    <2>1. crs[c] \in CR \cup {NoCR}
      BY Types
    <2>2. \/ cache' = cache
          \/ cache' = [cache EXCEPT ![c] = crs[c]]
      BY DEF ReconcileGone, WatchEvent, Resync, Set
    <2>3. cacheFresh' = cacheFresh \/ cacheFresh' = [cacheFresh EXCEPT ![c] = TRUE]
      BY DEF ReconcileGone, WatchEvent, Resync, Set
    <2>4. queued' = [queued EXCEPT ![c] = FALSE] \/ queued' = [queued EXCEPT ![c] = TRUE]
      BY DEF ReconcileGone, WatchEvent, Resync, Set
    <2>5. queued' \in [CRNames -> BOOLEAN]
      BY <2>4 DEF SysInv, OpTypeOK
    <2>6. cacheFresh' \in [CRNames -> BOOLEAN]
      BY <2>3 DEF SysInv, OpTypeOK
    <2>7. cache' \in [CRNames -> CR \cup {NoCR}]
      BY <2>1, <2>2 DEF SysInv, OpTypeOK
    <2> QED BY <1>1, <2>5, <2>6, <2>7 DEF SysInv, OpTypeOK
  <1>4. DBStep /\ disk' \in [Paths -> Reqs \cup {Operator, NoDisk}]
               /\ crs' \in [CRNames -> CR \cup {NoCR}]
    BY <1>1, TablesStay, DiskStays DEF world, db, SysInv, Inv, TypeOK, WorldTypeOK
  <1>5. /\ cache'[c] = cache[c] \/ cache'[c] = crs[c]
        /\ cacheFresh'[c] => cache'[c] = crs[c]
        /\ queued'[c] \/ rpc[c] = "idle"
    BY <1>2 DEF ReconcileGone, WatchEvent, Resync, Set, SysInv, OpTypeOK, ObjectOK
  <1>6. ObjectOK(c)'
    BY <1>1, <1>2, <1>5 DEF ObjectOK, IsOwn, world
  <1>7. FoundOK(c)' /\ FreshOK(c)'
    BY <1>1, <1>2 DEF FoundOK, FreshOK, world
  <1>8. WorkerOK(c)'
    <2>1. faults' = 0 => faults = 0
      BY <1>1, Counted
    <2> QED BY <1>1, <1>2, <1>5, <2>1 DEF WorkerOK, Live, world
  <1> QED BY <1>1, <1>3, <1>4, <1>6, <1>7, <1>8, OneObjectKeeps

\* The operator starts again with the objects the API server has.
LEMMA RestartInv ==
  ASSUME SysInv, UNCHANGED local, Restart PROVE SysInv'
  <1>1. /\ DBStep /\ disk' \in [Paths -> Reqs \cup {Operator, NoDisk}]
        /\ crs' \in [CRNames -> CR \cup {NoCR}]
        /\ Fault \/ Break \/ NoTrouble
    BY TablesStay, DiskStays DEF Restart, world, db, SysInv, Inv, TypeOK, WorldTypeOK
  <1>2. OpTypeOK'
    BY DEF Restart, world, SysInv, Inv, TypeOK, WorldTypeOK, OpTypeOK, NoId
  <1>3. ASSUME NEW c \in CRNames
        PROVE  ObjectOK(c)' /\ FoundOK(c)' /\ WorkerOK(c)' /\ FreshOK(c)'
    <2>1. /\ crs'[c] = crs[c] /\ cache'[c] = crs[c] /\ copy'[c] = NoCR
          /\ rpc'[c] = "idle" /\ ~ fresh'[c] /\ UNCHANGED <<rows, nextId>>
      BY DEF Restart, world
    <2>2. IsOwn(crs[c])
      BY DEF SysInv, ObjectOK
    <2>3. ObjectOK(c)'
      BY <2>1, <2>2 DEF ObjectOK, IsOwn
    <2>4. FoundOK(c)' /\ WorkerOK(c)' /\ FreshOK(c)'
      BY <2>1 DEF FoundOK, WorkerOK, FreshOK, CreatePcs, FinalPcs
    <2> QED BY <2>3, <2>4
  <1> QED BY <1>1, <1>2, <1>3, OpKeepsInv DEF SysInv

\* Others write objects: a user with kubectl, and the API server with Create.
LEMMA NoticeInv ==
  ASSUME SysInv, Inv', DBStep, Notice, Fault \/ Break \/ NoTrouble,
         kubectl' \in 0..MaxKubectl,
         \A c \in CRNames : \/ crs'[c] = crs[c]
                            \/ crs'[c] = NoCR
                            \/ crs'[c] \in CR /\ IsOwn(crs'[c])
  PROVE  SysInv'
  <1>1. OpTypeOK'
    BY DEF Notice, SysInv, OpTypeOK
  <1>2. ASSUME NEW c \in CRNames
        PROVE  ObjectOK(c)' /\ FoundOK(c)' /\ WorkerOK(c)' /\ FreshOK(c)'
    <2>1. ObjectOK(c) /\ FoundOK(c) /\ WorkerOK(c) /\ FreshOK(c)
      BY DEF SysInv
    <2>2. /\ UNCHANGED <<cache, queued, rpc, copy, found>>
          /\ cacheFresh'[c] <=> cacheFresh[c] /\ crs'[c] = crs[c]
          /\ fresh'[c] <=> fresh[c] /\ crs'[c] = crs[c]
      BY DEF Notice
    <2>3. ObjectOK(c)'
      <3>1. IsOwn(crs'[c]) /\ crs'[c] \in CR \cup {NoCR}
        BY <2>1, Types DEF ObjectOK, IsOwn
      <3>2. \A cr \in CR \cup {NoCR} : IsOwn(cr) =>
              (cr # NoCR => /\ cr.dbID < nextId'
                            /\ \A row \in rows' : row.id = cr.dbID => row.key = cr.key)
        BY IsOwnStays
      <3> QED BY <2>1, <2>2, <3>1, <3>2, Types DEF ObjectOK, IsOwn
    <2>4. FoundOK(c)'
      <3>1. rpc[c] \in {"sync", "ready"} =>
              /\ found[c] < nextId'
              /\ \A row \in rows' : row.id = found[c] => row.key = copy[c].key
        <4> SUFFICES ASSUME rpc[c] \in {"sync", "ready"}
                     PROVE  /\ found[c] < nextId'
                            /\ \A row \in rows' : row.id = found[c] => row.key = copy[c].key
          OBVIOUS
        <4>1. /\ found[c] \in Nat /\ found[c] < nextId
              /\ \A row \in rows : row.id = found[c] => row.key = copy[c].key
          BY <2>1, Types DEF FoundOK
        <4> QED BY <4>1, OwnStays
      <3> QED BY <2>1, <2>2, <3>1 DEF FoundOK
    <2>5. WorkerOK(c)'
      <3>1. rpc[c] = "strip" /\ faults' = 0 => ~ \E row \in rows' : row.id = copy[c].dbID
        <4> SUFFICES ASSUME rpc[c] = "strip", faults' = 0
                     PROVE  ~ \E row \in rows' : row.id = copy[c].dbID
          OBVIOUS
        <4>1. faults = 0 /\ copy[c] \in CR /\ IsOwn(copy[c])
          BY Counted, CopyIsOwn
        <4>2. ~ Live(copy[c].dbID) /\ copy[c].dbID \in Nat /\ copy[c].dbID < nextId
          BY <2>1, <4>1, CRFields DEF WorkerOK, IsOwn
        <4> QED BY <4>2, DeadStaysDead DEF Live
      <3> QED BY <2>1, <2>2, <3>1 DEF WorkerOK, Live
    <2>6. FreshOK(c)'
      BY <2>1, <2>2 DEF FreshOK
    <2> QED BY <2>3, <2>4, <2>5, <2>6
  <1> QED BY <1>1, <1>2 DEF SysInv

LEMMA KubectlInv ==
  ASSUME SysInv, UNCHANGED local,
         \/ \E c \in CRNames : Edit(c) \/ Delete(c)
         \/ \E m \in Manifests : Apply(m)
  PROVE  SysInv'
  <1>1. /\ UNCHANGED <<db, disk>> /\ Notice /\ NoTrouble
        /\ kubectl < MaxKubectl /\ kubectl' = kubectl + 1
    BY DEF Edit, Delete, Apply, Kubectl
  <1>6. kubectl' \in 0..MaxKubectl
    BY <1>1 DEF SysInv, OpTypeOK
  <1>2. PICK c \in CRNames, cr \in CR \cup {NoCR} : crs' = Set(crs, c, cr) /\ IsOwn(cr)
    <2>1. ASSUME NEW c \in CRNames, Edit(c) \/ Delete(c)
          PROVE  \E cr \in CR \cup {NoCR} : crs' = Set(crs, c, cr) /\ IsOwn(cr)
      <3>1. crs[c] \in CR /\ IsOwn(crs[c])
        BY <2>1, Types DEF Edit, Delete, SysInv, ObjectOK
      <3>2. \E cr : crs' = Set(crs, c, cr) /\ (cr = NoCR \/ Same(cr, crs[c]))
        BY <2>1, <3>1, PrivFlipped, DeletingSet DEF Edit, Delete, Kubectl
      <3> QED BY <3>1, <3>2, SameIsOwn DEF Same, IsOwn
    <2>2. ASSUME NEW m \in Manifests, Apply(m)
          PROVE  \E cr \in CR \cup {NoCR} : crs' = Set(crs, m.name, cr) /\ IsOwn(cr)
      <3>1. m.key \in Keys /\ m.priv \in BOOLEAN /\ m.userID \in OwnerRefs
        BY DEF Manifest
      <3>2. NewCR(m.key, m.priv, m.userID) \in CR
            /\ NewCR(m.key, m.priv, m.userID).dbID = NoId
        BY <3>1, NewCRFields
      <3>3. NoId < nextId /\ \A row \in rows : row.id # NoId
        BY RowFields DEF SysInv, Inv, TypeOK, WorldTypeOK, Ids, NoId
      <3>4. IsOwn(NewCR(m.key, m.priv, m.userID))
        BY <3>2, <3>3 DEF IsOwn
      <3> QED BY <2>2, <3>2, <3>4 DEF Apply, Kubectl
    <2>3. \A m \in Manifests : m.name \in CRNames
      BY DEF Manifest
    <2> QED BY <2>1, <2>2, <2>3
  <1>3. crs' \in [CRNames -> CR \cup {NoCR}]
    BY <1>2 DEF Set, SysInv, Inv, TypeOK, WorldTypeOK
  <1>4. \A d \in CRNames : \/ crs'[d] = crs[d] \/ crs'[d] = NoCR
                           \/ crs'[d] \in CR /\ IsOwn(crs'[d])
    BY <1>2 DEF Set, SysInv, Inv, TypeOK, WorldTypeOK
  <1>5. Inv' /\ DBStep
    BY <1>1, <1>3, TablesStay, DiskStays, OpKeepsInv
  <1> QED BY <1>1, <1>4, <1>5, <1>6, NoticeInv

\* What a step of the API server does to the tables and the objects.
LEMMA APITables ==
  ASSUME Inv, Next PROVE DBStep
  <1>1. CASE Crash
    BY <1>1, SameTables DEF Crash, world, Inv, TypeOK, WorldTypeOK
  <1>2. ASSUME NEW r \in Reqs, StepOf(r) PROVE DBStep
    BY <1>2, TablesStep, TableStepIs
  <1> QED BY <1>1, <1>2, NextIsOf

LEMMA APIObjects ==
  ASSUME Inv, Next, NEW c \in CRNames
  PROVE  \/ crs'[c] = crs[c]
         \/ /\ crs[c] = NoCR
            /\ \E k \in Keys, p \in BOOLEAN : CRName[k] = c /\ crs'[c] = NewCR(k, p, "owner")
  <1> SUFFICES ASSUME crs' # crs
               PROVE  \/ crs'[c] = crs[c]
                      \/ /\ crs[c] = NoCR
                         /\ \E k \in Keys, p \in BOOLEAN :
                              CRName[k] = c /\ crs'[c] = NewCR(k, p, "owner")
    OBVIOUS
  <1>1. PICK r \in Reqs : CreateFinish(r)
    BY DEF Next, Create, Change, Submit, RecordEvent, RecordEventFails, Crash,
       CreateInvalid, CreateInsert, CreateConflict, CreateInsertFails, CreateInit,
       CreateInitFails, CreateRollback, LoadMissing, LoadFails, LoadForbidden,
       UpdateInvalid, Load, UpdateRow, UpdateRowFails, DeleteRow, DeleteRowFails,
       DeleteFinish, world
  <1>2. req[r].key \in Keys /\ got[r].priv \in BOOLEAN
    BY <1>1, Held DEF CreateFinish, Holding
  <1>3. /\ crs[CRName[req[r].key]] = NoCR
        /\ crs' = [crs EXCEPT ![CRName[req[r].key]] = NewCR(req[r].key, got[r].priv, "owner")]
    BY <1>1 DEF CreateFinish
  <1> QED BY <1>2, <1>3 DEF Inv, TypeOK, WorldTypeOK

LEMMA APIInv ==
  ASSUME SysInv, APIStep PROVE SysInv'
  <1>1. Inv /\ Inv'
    BY StepInv DEF APIStep, SysInv
  <1>2. DBStep
    BY <1>1, APITables DEF APIStep
  <1>3. ASSUME NEW c \in CRNames
        PROVE  crs'[c] = crs[c] \/ (crs'[c] \in CR /\ IsOwn(crs'[c]))
    <2>1. ASSUME NEW k \in Keys, NEW p \in BOOLEAN, crs'[c] = NewCR(k, p, "owner")
          PROVE  crs'[c] \in CR /\ IsOwn(crs'[c])
      <3>1. crs'[c] \in CR /\ crs'[c].dbID = NoId
        BY <2>1, NewCRFields, OwnerIsRef
      <3>2. NoId < nextId /\ \A row \in rows : row.id # NoId
        BY RowFields DEF SysInv, Inv, TypeOK, WorldTypeOK, Ids, NoId
      <3> QED BY <3>1, <3>2 DEF IsOwn
    <2> QED BY <1>1, <2>1, APIObjects DEF APIStep
  <1>4. kubectl' \in 0..MaxKubectl
    BY DEF APIStep, SysInv, OpTypeOK
  <1> QED BY <1>1, <1>2, <1>3, <1>4, APITrouble, NoticeInv DEF APIStep

LEMMA SystemStepInv == SysInv /\ [SystemNext]_sysVars => SysInv'
  <1> SUFFICES ASSUME SysInv, [SystemNext]_sysVars PROVE SysInv'
    OBVIOUS
  <1>1. CASE APIStep
    BY <1>1, APIInv
  <1>2. ASSUME NEW c \in CRNames, UNCHANGED local, Reconcile(c) PROVE SysInv'
    BY <1>2, QueueInv, StoringInv, ReturningInv, ReadingInv, InsertingInv, SyncRowInv,
       FinalizingInv, BeginningInv DEF Reconcile
  <1>3. CASE OpStep
    BY <1>2, <1>3, QueueInv, KubectlInv, RestartInv DEF OpStep, OpNext
  <1>4. CASE UNCHANGED sysVars
    <2>1. Inv'
      BY <1>4, StutterInv DEF sysVars, vars, local, SysInv
    <2>2. OpTypeOK'
      BY <1>4 DEF sysVars, opLocal, SysInv, OpTypeOK
    <2>3. ASSUME NEW c \in CRNames
          PROVE  ObjectOK(c)' /\ FoundOK(c)' /\ WorkerOK(c)' /\ FreshOK(c)'
      <3>1. ObjectOK(c) /\ FoundOK(c) /\ WorkerOK(c) /\ FreshOK(c)
        BY DEF SysInv
      <3> QED
        BY <1>4, <3>1
        DEF sysVars, world, trouble, opLocal, ObjectOK, FoundOK, WorkerOK, FreshOK, IsOwn, Live
    <2> QED BY <2>1, <2>2, <2>3 DEF SysInv
  <1> QED BY <1>1, <1>3, <1>4 DEF SystemNext

LEMMA SystemInvHolds == SystemSpec => []SysInv
  BY SystemInitInv, SystemStepInv, PTL DEF SystemSpec
-----------------------------------------------------------------------------
(* Type correctness of the whole system: handlers and Reconcile only ever  *)
(* stand at points the code has, over rows and objects that are well       *)
(* formed, whatever the other process does meanwhile.                      *)
THEOREM SystemTypes == SystemSpec => []SystemTypeOK
  <1>1. SysInv => SystemTypeOK
    BY DEF SysInv, Inv, SystemTypeOK
  <1> QED BY <1>1, SystemInvHolds, PTL

(* status.databaseID was given out for the CR's own key, in the object and *)
(* in every stale copy of it (repository_controller.go:149, 181).          *)
THEOREM DatabaseIDsAreOwn == SystemSpec => []DatabaseIDIsOwn
  <1>1. SysInv => DatabaseIDIsOwn
    BY DEF SysInv, ObjectOK, IsOwn, DatabaseIDIsOwn
  <1> QED BY <1>1, SystemInvHolds, PTL
-----------------------------------------------------------------------------
(* Who changes a row, and when an object goes away. *)

\* The two statements of Reconcile that take or change a row.
LEMMA FinalizerHolds ==
  ASSUME SysInv, NEW c \in CRNames, FinalizeRow(c) PROVE SomebodyHolds
  <1>1. rpc[c] = "rmrow" /\ copy[c].deleting /\ copy[c] \in CR /\ IsOwn(copy[c])
    BY CopyIsOwn DEF FinalizeRow, SysInv, WorkerOK, FinalPcs
  <1>2. rows' = rows \/ rows' = {row \in rows : row.id # copy[c].dbID}
    BY DEF FinalizeRow, DeleteRepo, db
  <1>3. ASSUME NEW row \in rows, row \notin rows' PROVE ReconcileHolds(row)
    BY <1>1, <1>2, <1>3 DEF ReconcileHolds, IsOwn
  <1> QED BY <1>3 DEF SomebodyHolds

LEMMA SyncerHolds ==
  ASSUME SysInv, NEW c \in CRNames, SyncRow(c) PROVE SomebodyHolds
  <1>1. rpc[c] = "sync" /\ ~ copy[c].deleting /\ FoundOK(c) /\ found[c] \in Nat
    BY Types DEF SyncRow, SysInv, WorkerOK, CreatePcs
  <1>2. copy[c].priv \in BOOLEAN
    BY <1>1, CopyIsOwn, CRFields
  <1>3. \A row \in rows : row.id # found[c] => row \in rows'
    BY <1>1, <1>2, Updated DEF SyncRow, SysInv, Inv, db
  <1>4. ASSUME NEW row \in rows, row \notin rows' PROVE ReconcileHolds(row)
    BY <1>1, <1>3, <1>4 DEF ReconcileHolds, FoundOK
  <1> QED BY <1>4 DEF SomebodyHolds

\* The other steps of a Reconcile leave every row.
LEMMA RowsKept ==
  ASSUME NEW c \in CRNames, Reconcile(c), ~ FinalizeRow(c), ~ SyncRow(c)
  PROVE  rows \subseteq rows'
  <1>1. CASE \/ ReconcileGone(c) \/ AddFinalizer(c) \/ SetPending(c) \/ EnsureDisk(c)
             \/ EnsureDiskFails(c) \/ RejectOwner(c) \/ Lookup(c) \/ LookupFails(c)
    BY <1>1 DEF ReconcileGone, AddFinalizer, SetPending, EnsureDisk, EnsureDiskFails,
                RejectOwner, Lookup, LookupFails, world, db
  <1>2. CASE InsertRow(c) \/ InsertRowFails(c)
    BY <1>2 DEF InsertRow, InsertRowFails, CreateRepo, db
  <1>3. CASE \/ Reread(c) \/ CreateFailed(c) \/ MarkReady(c) \/ BeginFinalize(c)
             \/ FinalizeDisk(c) \/ StripFinalizer(c)
    BY <1>3 DEF Reread, CreateFailed, MarkReady, BeginFinalize, FinalizeDisk,
                StripFinalizer, world, db
  <1> QED BY <1>1, <1>2, <1>3 DEF Reconcile

\* Every other step of the operator leaves every row.
LEMMA OthersKeepRows ==
  ASSUME SysInv, OpNext, \A c \in CRNames : ~ FinalizeRow(c) /\ ~ SyncRow(c)
  PROVE  rows \subseteq rows'
  <1>1. CASE Restart \/ \E m \in Manifests : Apply(m)
    BY <1>1 DEF Restart, Apply, Kubectl, world, db
  <1>2. ASSUME NEW c \in CRNames, WatchEvent(c) \/ Resync(c) \/ Edit(c) \/ Delete(c)
        PROVE  rows \subseteq rows'
    BY <1>2 DEF WatchEvent, Resync, Edit, Delete, Kubectl, world, db
  <1>3. ASSUME NEW c \in CRNames, Reconcile(c) PROVE rows \subseteq rows'
    BY <1>3, RowsKept
  <1> QED BY <1>1, <1>2, <1>3 DEF OpNext

LEMMA SomebodyAlwaysHolds == SysInv /\ [SystemNext]_sysVars => [SomebodyHolds]_sysVars
  <1> SUFFICES ASSUME SysInv, [SystemNext]_sysVars PROVE SomebodyHolds
    OBVIOUS
  <1>1. CASE rows \subseteq rows'
    BY <1>1 DEF SomebodyHolds
  <1>2. CASE APIStep /\ ~ (rows \subseteq rows')
    <2>1. ~ UNCHANGED vars
      BY <1>2 DEF vars, world
    <2>2. OnlyHoldersAct
      BY <1>2, <2>1, OnlyHolders DEF APIStep, SysInv
    <2> QED BY <2>2 DEF OnlyHoldersAct, HolderActs, SomebodyHolds, HandlerHolds
  <1>3. CASE OpStep
    BY <1>1, <1>3, OthersKeepRows, FinalizerHolds, SyncerHolds DEF OpStep
  <1>4. CASE UNCHANGED sysVars
    BY <1>1, <1>4 DEF sysVars, world
  <1> QED BY <1>1, <1>2, <1>3, <1>4 DEF SystemNext

(* Nobody removes or changes a row but who holds it, for any number of     *)
(* requests and objects: a handler by the id it loaded, a Reconcile by the *)
(* id its object's status recorded or it has just read, for its own key.   *)
THEOREM SystemActsOnWhatItHolds == SystemSpec => ActsOnWhatItHolds
  BY SystemInvHolds, SomebodyAlwaysHolds, PTL DEF SystemSpec, ActsOnWhatItHolds

\* Who can remove an object that has a finalizer.
LEMMA OnlyStripRemoves ==
  ASSUME SysInv, OpNext, NEW c \in CRNames, crs[c] # NoCR, crs'[c] = NoCR,
         crs[c].finalizer
  PROVE  StripFinalizer(c) /\ fresh[c]
  <1>1. crs[c] \in CR /\ crs'[c] \notin CR
    BY Types
  <1>2. ~ Restart
    BY <1>1 DEF Restart, world
  <1>3. ASSUME NEW m \in Manifests PROVE ~ Apply(m)
    BY <1>1 DEF Apply, Kubectl, Set, SysInv, Inv, TypeOK, WorldTypeOK
  <1>4. ASSUME NEW d \in CRNames, Edit(d) \/ Delete(d) PROVE FALSE
    <2>1. d = c
      BY <1>1, <1>4 DEF Edit, Delete, Kubectl, Set, SysInv, Inv, TypeOK, WorldTypeOK
    <2>2. crs'[c] \in {[crs[c] EXCEPT !.priv = ~ @, !.observed = FALSE],
                       [crs[c] EXCEPT !.deleting = TRUE]}
      BY <1>4, <2>1 DEF Edit, Delete, Kubectl, Set, SysInv, Inv, TypeOK, WorldTypeOK
    <2> QED BY <1>1, <2>2, PrivFlipped, DeletingSet DEF Same
  <1>5. ASSUME NEW d \in CRNames, ReconcileStep(d) PROVE StripFinalizer(c) /\ fresh[c]
    <2>1. d = c
      BY <1>1, <1>5, StepsAreOne DEF OneObject, LeavesAlone
    <2>2. ASSUME NEW cr \in CR, Store(c, cr) PROVE FALSE
      BY <1>1, <2>2, Stored
    <2>3. crs' # crs
      BY <1>1
    <2>4. CASE AddFinalizer(c) \/ SetPending(c) \/ EnsureDiskFails(c) \/ BeginFinalize(c)
      <3>1. cache[c] \in CR
        BY <2>4, FetchedIsOwn
        DEF AddFinalizer, SetPending, EnsureDiskFails, BeginFinalize
      <3> QED
        BY <2>2, <2>3, <2>4, <3>1, FinalizerSet, PhaseSet
        DEF AddFinalizer, SetPending, EnsureDiskFails, BeginFinalize, Phases, Same
    <2>5. CASE RejectOwner(c) \/ CreateFailed(c)
      BY <2>2, <2>3, <2>5, CopyIsOwn, FailedSet, SyncedUnset, WriteCases
      DEF RejectOwner, CreateFailed, Written, NotWritten, Same
    <2>6. CASE MarkReady(c)
      BY <2>2, <2>3, <2>6, FoundIsOwn DEF MarkReady, Write, WriteRefused, ReadyOf
    <2>7. CASE StripFinalizer(c)
      BY <2>3, <2>7 DEF StripFinalizer, Write, WriteRefused
    <2> QED
      BY <1>5, <2>1, <2>3, <2>4, <2>5, <2>6, <2>7
      DEF ReconcileStep, Reconcile, ReconcileGone, EnsureDisk, Lookup, LookupFails,
          InsertRow, InsertRowFails, Reread, SyncRow, FinalizeDisk, FinalizeRow, WatchEvent,
          Resync, world
  <1> QED BY <1>2, <1>3, <1>4, <1>5 DEF OpNext, ReconcileStep

LEMMA RowsGoFirst == SysInv /\ [SystemNext]_sysVars => [RowGoesFirst]_sysVars
  <1> SUFFICES ASSUME SysInv, [SystemNext]_sysVars, NEW c \in CRNames,
                      crs[c] # NoCR, crs'[c] = NoCR, crs[c].finalizer, faults = 0
               PROVE  ~ Live(crs[c].dbID)
    BY DEF RowGoesFirst
  <1>1. OpNext
    BY APIObjects DEF SystemNext, APIStep, OpStep, sysVars, world, SysInv
  <1>2. rpc[c] = "strip" /\ fresh[c]
    BY <1>1, OnlyStripRemoves DEF StripFinalizer
  <1>3. crs[c] \in CR /\ copy[c] = [crs[c] EXCEPT !.phase = "Deleting"]
    BY <1>2, Types DEF SysInv, FreshOK, FinalPcs
  <1>4. copy[c].dbID = crs[c].dbID
    BY <1>3 DEF CR
  <1> QED BY <1>2, <1>4 DEF SysInv, WorkerOK

(* The finalizer outlives the row, for any number of objects and any stale *)
(* copies, conflicts and restarts (repository_controller.go:165).          *)
THEOREM FinalizersGuardRows == SystemSpec => FinalizerGuardsRow
  BY SystemInvHolds, RowsGoFirst, PTL DEF SystemSpec, FinalizerGuardsRow
-----------------------------------------------------------------------------
(* A Ready object at rest.  Two objects for one repository would undo each *)
(* other's work, so that here a manifest is named like the object the API  *)
(* makes of its key (repos.go:134); a name may still serve several keys.   *)
NamedByKey == \A m \in Manifests : m.name = CRName[m.key]

Named(c) == \A cr \in {crs[c], cache[c], copy[c]} \ {NoCR} : CRName[cr.key] = c

\* No request but creations so far, and no failed step.
OnlyCreates == \A r \in Reqs : req[r] = NoReq \/ req[r].op = "create"
Quiet == OnlyCreates /\ faults = 0

HasRow(R, k, i) == \E row \in R : row.key = k /\ row.id = i
HasRowAs(R, k, i, p) == \E row \in R : row.key = k /\ row.id = i /\ row.priv = p

(* Then a Ready object has its row and its directory, and once its queue   *)
(* is empty the row says what the object says; an object being deleted is  *)
(* out of the way of whoever finalizes it; and a Reconcile that creates    *)
(* keeps what it has made, and comes to a write that changes nothing only  *)
(* from a row that it has just brought in line.                            *)
ReadyOK(c) ==
  crs[c] # NoCR /\ crs[c].phase = "Ready" =>
    /\ crs[c].userID = "owner"
    /\ ~ crs[c].deleting => /\ disk[GetRepoPath(crs[c].key)] # NoDisk
                            /\ HasRow(rows, crs[c].key, crs[c].dbID)
RestOK(c) ==
  /\ crs[c] # NoCR /\ crs[c].phase = "Ready" /\ ~ crs[c].deleting
  /\ cacheFresh[c] /\ ~ queued[c] /\ rpc[c] = "idle"
  => HasRowAs(rows, crs[c].key, crs[c].dbID, crs[c].priv)

OutOfTheWay(c) == crs[c] = NoCR \/ crs[c].deleting \/ crs[c].phase = ""
DeletedOK(c) ==
  /\ cache[c] # NoCR /\ cache[c].deleting => OutOfTheWay(c)
  /\ rpc[c] \in FinalPcs => OutOfTheWay(c)

MakingOK(c) ==
  rpc[c] \in CreatePcs =>
    /\ disk[GetRepoPath(copy[c].key)] # NoDisk
    /\ fresh[c] => cache[c] # NoCR /\ ~ cache[c].deleting
    /\ rpc[c] \in {"sync", "ready"} => HasRow(rows, copy[c].key, found[c])
    /\ rpc[c] = "ready" /\ fresh[c] /\ copy[c].phase = "Ready" =>
         HasRowAs(rows, copy[c].key, found[c], copy[c].priv)
    /\ rpc[c] \in {"insert", "reread", "createfailed"} /\ fresh[c] =>
         copy[c].phase # "Ready"

QuietOK(c) == ReadyOK(c) /\ RestOK(c) /\ DeletedOK(c) /\ MakingOK(c)

RequestsOK == \A r \in Reqs : /\ pc[r] = "idle" => req[r] = NoReq
                              /\ pc[r] = "rollback" => faults # 0

ReadyInv ==
  /\ SysInv /\ RequestsOK
  /\ \A c \in CRNames : Named(c)
  /\ Quiet => \A c \in CRNames : QuietOK(c)

LEMMA ReadyInitInv == SystemInit => ReadyInv
  BY SystemInitInv DEF SystemInit, OpInit, Init, WorldInit, ReadyInv, RequestsOK, Named,
     QuietOK, ReadyOK, RestOK, DeletedOK, MakingOK, CreatePcs, FinalPcs

LEMMA ReadyInvSuffices == ReadyInv => ReadyWithoutPatches
  <1> SUFFICES ASSUME ReadyInv, \A r \in Reqs : req[r] = NoReq \/ req[r].op = "create",
                      NEW c \in CRNames, AtRest(c), Wanted(c), crs[c].phase = "Ready"
               PROVE  InSync(c)
    BY DEF ReadyWithoutPatches, ReadyInSync
  <1>1. ReadyOK(c) /\ RestOK(c)
    BY DEF ReadyInv, Quiet, OnlyCreates, QuietOK, AtRest
  <1>2. disk[GetRepoPath(crs[c].key)] # NoDisk
    BY <1>1 DEF ReadyOK, Wanted
  <1>3. HasRowAs(rows, crs[c].key, crs[c].dbID, crs[c].priv)
    BY <1>1 DEF RestOK, AtRest, Wanted
  <1> QED BY <1>2, <1>3 DEF InSync, HasRowAs, RowsOf

LEMMA OpTrouble == OpNext => Fault \/ Break \/ NoTrouble
  <1> SUFFICES ASSUME OpNext PROVE Fault \/ Break \/ NoTrouble
    OBVIOUS
  <1>1. CASE \E c \in CRNames : Reconcile(c)
    BY <1>1 DEF Reconcile, ReconcileGone, AddFinalizer, SetPending, EnsureDisk,
       EnsureDiskFails, RejectOwner, WriteIgnoringErrors, Write, WriteRefused, Lookup,
       LookupFails, InsertRow, InsertRowFails, Reread, CreateFailed, SyncRow, MarkReady,
       BeginFinalize, FinalizeDisk, FinalizeRow, StripFinalizer
  <1> QED
    BY <1>1 DEF OpNext, WatchEvent, Resync, Edit, Delete, Apply, Kubectl, Restart

LEMMA TroubleGrows ==
  ASSUME SysInv, SystemNext PROVE faults' = 0 => faults = 0
  BY APITrouble, OpTrouble, Counted DEF SystemNext, APIStep, OpStep

\* A request asks for one thing, and rolls back only what has failed.
LEMMA RequestsKept ==
  ASSUME SysInv, RequestsOK, SystemNext
  PROVE  RequestsOK' /\ \A r \in Reqs : req[r] = NoReq \/ req'[r] = req[r]
  <1>1. faults' = 0 => faults = 0
    BY TroubleGrows
  <1>2. CASE OpStep
    BY <1>1, <1>2 DEF OpStep, local, RequestsOK
  <1>3. ASSUME NEW s \in Reqs, NEW q \in Traffic, APIStep, Submit(s, q)
        PROVE  RequestsOK' /\ \A r \in Reqs : req[r] = NoReq \/ req'[r] = req[r]
    <2>1. /\ pc'[s] \in {"create", "load"} /\ req[s] = NoReq
          /\ \A r \in Reqs \ {s} : pc'[r] = pc[r] /\ req'[r] = req[r]
      BY <1>3 DEF Submit, Goto, SysInv, Inv, TypeOK, RequestsOK
    <2> QED BY <1>1, <2>1 DEF RequestsOK
  <1>4. ASSUME NEW s \in Reqs, Create(s) \/ Change(s)
        PROVE  RequestsOK' /\ \A r \in Reqs : req[r] = NoReq \/ req'[r] = req[r]
    <2>1. /\ req' = req /\ pc'[s] # "idle"
          /\ pc'[s] = "rollback" => Fault
          /\ \A r \in Reqs \ {s} : pc'[r] = pc[r]
      <3>1. CASE Create(s)
        BY <3>1 DEF Create, CreateInvalid, CreateInsert, CreateConflict, CreateInsertFails,
           CreateInit, CreateInitFails, CreateRollback, CreateFinish, Reply, Goto, SysInv,
           Inv, TypeOK
      <3>2. CASE Change(s)
        <4>1. CASE Load(s)
          <5>1. req[s].op \in {"update", "delete"}
            BY <4>1, RequestFields DEF Load, SysInv, Inv, RequestOK
          <5> QED BY <4>1, <5>1 DEF Load, Goto, SysInv, Inv, TypeOK
        <4> QED
          BY <3>2, <4>1 DEF Change, LoadMissing, LoadFails, LoadForbidden, UpdateInvalid,
             UpdateRow, UpdateRowFails, DeleteRow, DeleteRowFails, DeleteFinish, Reply,
             Goto, SysInv, Inv, TypeOK
      <3> QED BY <1>4, <3>1, <3>2
    <2>2. Fault => faults' # 0
      BY Counted DEF Fault
    <2> QED BY <1>1, <2>1, <2>2 DEF RequestsOK
  <1>5. ASSUME NEW s \in Reqs, RecordEvent(s) \/ RecordEventFails(s)
        PROVE  RequestsOK' /\ \A r \in Reqs : req[r] = NoReq \/ req'[r] = req[r]
    BY <1>1, <1>5 DEF RecordEvent, RecordEventFails, RequestsOK
  <1>6. CASE Crash
    BY <1>1, <1>6 DEF Crash, RequestsOK, InFlight, InFlightPcs, SysInv, Inv, TypeOK
  <1> QED BY <1>2, <1>3, <1>4, <1>5, <1>6 DEF SystemNext, APIStep, Next

\* A quiet past has a quiet past.
LEMMA QuietBefore ==
  ASSUME SysInv, RequestsOK, SystemNext, Quiet' PROVE Quiet
  BY TroubleGrows, RequestsKept DEF Quiet, OnlyCreates
-----------------------------------------------------------------------------
(* Names. *)

\* What cr is called, when it is an object.
CalledBy(cr, c) == cr # NoCR => CRName[cr.key] = c

LEMMA NamedIsCalled ==
  ASSUME NEW c \in CRNames
  PROVE  /\ Named(c) <=> CalledBy(crs[c], c) /\ CalledBy(cache[c], c) /\ CalledBy(copy[c], c)
         /\ Named(c)' <=> /\ CalledBy(crs'[c], c) /\ CalledBy(cache'[c], c)
                          /\ CalledBy(copy'[c], c)
  BY DEF Named, CalledBy

LEMMA SameIsCalled ==
  ASSUME NEW new, NEW old \in CR, NEW c, Same(new, old), CalledBy(old, c)
  PROVE  CalledBy(new, c)
  BY CRFields DEF Same, CalledBy

LEMMA ReconcileNames ==
  ASSUME SysInv, NEW c \in CRNames, Named(c), ReconcileStep(c) PROVE Named(c)'
  <1>1. CalledBy(crs[c], c) /\ CalledBy(cache[c], c) /\ CalledBy(copy[c], c)
    BY NamedIsCalled
  <1>2. CASE AddFinalizer(c) \/ SetPending(c) \/ EnsureDiskFails(c)
    <2>1. cache[c] \in CR /\ UNCHANGED <<cache, copy>>
      BY <1>2, FetchedIsOwn DEF AddFinalizer, SetPending, EnsureDiskFails
    <2>2. \E cr \in CR : /\ Same(cr, cache[c])
                         /\ Store(c, cr) \/ UNCHANGED <<crs, cacheFresh>>
      BY <1>2, <2>1, FinalizerSet, PhaseSet
      DEF AddFinalizer, SetPending, EnsureDiskFails, Phases, Same
    <2>3. CalledBy(crs'[c], c)
      BY <1>1, <2>1, <2>2, Stored, SameIsCalled
    <2> QED BY <1>1, <2>1, <2>3, NamedIsCalled
  <1>3. CASE EnsureDisk(c) \/ BeginFinalize(c)
    <2>1. cache[c] \in CR /\ UNCHANGED cache
      BY <1>3, FetchedIsOwn DEF EnsureDisk, BeginFinalize
    <2>2. \E cr \in CR : Same(cr, cache[c]) /\ copy' = Set(copy, c, cr)
      BY <1>3, <2>1, PhaseSet, HasDiskSet DEF EnsureDisk, BeginFinalize, Phases, Same
    <2>3. CalledBy(copy'[c], c)
      BY <1>1, <2>1, <2>2, SameIsCalled DEF Set, SysInv, OpTypeOK
    <2>4. \E cr \in CR : /\ Same(cr, cache[c])
                         /\ Store(c, cr) \/ UNCHANGED <<crs, cacheFresh>>
      BY <1>3, <2>1, <2>2, PhaseSet DEF EnsureDisk, BeginFinalize, Phases, Same
    <2>5. CalledBy(crs'[c], c)
      BY <1>1, <2>1, <2>4, Stored, SameIsCalled
    <2> QED BY <1>1, <2>1, <2>3, <2>5, NamedIsCalled
  <1>4. CASE RejectOwner(c) \/ CreateFailed(c) \/ MarkReady(c) \/ StripFinalizer(c)
    <2>1. copy[c] \in CR /\ found[c] \in Nat /\ rpc[c] # "idle"
      BY <1>4, CopyIsOwn, Types DEF RejectOwner, CreateFailed, MarkReady, StripFinalizer
    <2>2. \E cr : /\ cr = NoCR \/ (cr \in CR /\ cr.key = copy[c].key)
                  /\ Store(c, cr) \/ UNCHANGED <<crs, cacheFresh>>
      <3>1. CASE RejectOwner(c)
        BY <2>1, <3>1, FailedSet, WriteCases DEF RejectOwner, Written, NotWritten, Same
      <3>2. CASE CreateFailed(c)
        BY <2>1, <3>2, SyncedUnset, WriteCases DEF CreateFailed, Written, NotWritten, Same
      <3>3. CASE MarkReady(c)
        BY <2>1, <3>3, ReadySet DEF MarkReady, Write, WriteRefused, ReadyOf
      <3>4. CASE StripFinalizer(c)
        BY <3>4 DEF StripFinalizer, Write, WriteRefused
      <3> QED BY <1>4, <3>1, <3>2, <3>3, <3>4
    <2>3. CalledBy(crs'[c], c)
      BY <1>1, <2>1, <2>2, Stored, CRFields DEF CalledBy
    <2>4. cache' = cache /\ copy'[c] = NoCR
      BY <1>4 DEF RejectOwner, CreateFailed, MarkReady, StripFinalizer, Return, Set,
                  SysInv, OpTypeOK
    <2> QED BY <1>1, <2>3, <2>4, NamedIsCalled DEF CalledBy
  <1>5. CASE \/ ReconcileGone(c) \/ Lookup(c) \/ LookupFails(c) \/ InsertRow(c)
             \/ InsertRowFails(c) \/ Reread(c) \/ SyncRow(c) \/ FinalizeDisk(c)
             \/ FinalizeRow(c) \/ WatchEvent(c) \/ Resync(c)
    <2>1. crs' = crs
      BY <1>5 DEF ReconcileGone, Lookup, LookupFails, InsertRow, InsertRowFails, Reread,
         SyncRow, FinalizeDisk, FinalizeRow, WatchEvent, Resync, world
    <2>2. cache' = cache \/ cache' = [cache EXCEPT ![c] = crs[c]]
      BY <1>5 DEF ReconcileGone, Lookup, LookupFails, InsertRow, InsertRowFails, Reread,
         SyncRow, FinalizeDisk, FinalizeRow, WatchEvent, Resync, Set
    <2>3. copy' = copy \/ copy' = [copy EXCEPT ![c] = NoCR]
      BY <1>5 DEF ReconcileGone, Lookup, LookupFails, InsertRow, InsertRowFails, Reread,
         SyncRow, FinalizeDisk, FinalizeRow, WatchEvent, Resync, Return, Set
    <2>4. cache'[c] \in {cache[c], crs[c]} /\ copy'[c] \in {copy[c], NoCR}
      BY <2>2, <2>3 DEF SysInv, OpTypeOK
    <2> QED BY <1>1, <2>1, <2>4, NamedIsCalled DEF CalledBy
  <1> QED BY <1>2, <1>3, <1>4, <1>5 DEF ReconcileStep, Reconcile

\* What a user does to an object with kubectl, and what the API does.
Rewritten(c) ==
  \/ crs'[c] = crs[c]
  \/ crs'[c] = NoCR
  \/ crs[c] = NoCR /\ crs'[c] \in CR /\ crs'[c].phase = "" /\ CRName[crs'[c].key] = c
  \/ /\ crs[c] \in CR /\ Same(crs'[c], crs[c]) /\ crs'[c].phase = crs[c].phase
     /\ crs[c].deleting => crs'[c].deleting

LEMMA SetAt ==
  ASSUME SysInv, NEW d \in CRNames, NEW cr, crs' = Set(crs, d, cr), NEW c \in CRNames
  PROVE  crs'[c] = IF c = d THEN cr ELSE crs[c]
  <1>1. crs \in [CRNames -> CR \cup {NoCR}] /\ crs' = [crs EXCEPT ![d] = cr]
    BY DEF Set, SysInv, Inv, TypeOK, WorldTypeOK
  <1> QED BY <1>1

LEMMA KubectlRewrites ==
  ASSUME NamedByKey, SysInv, NEW c \in CRNames,
         \/ \E d \in CRNames : Edit(d) \/ Delete(d)
         \/ \E m \in Manifests : Apply(m)
  PROVE  Rewritten(c) /\ Notice
  <1>1. Notice
    BY DEF Edit, Delete, Apply, Kubectl
  <1>3. ASSUME NEW d \in CRNames, Edit(d) \/ Delete(d) PROVE Rewritten(c)
    <2>1. crs[d] \in CR
      BY <1>3, Types DEF Edit, Delete
    <2>2. CASE Edit(d)
      <3>1. /\ Same([crs[d] EXCEPT !.priv = ~ @, !.observed = FALSE], crs[d])
            /\ [crs[d] EXCEPT !.priv = ~ @, !.observed = FALSE].deleting = crs[d].deleting
            /\ [crs[d] EXCEPT !.priv = ~ @, !.observed = FALSE].phase = crs[d].phase
        BY <2>1, PrivFlipped
      <3>2. crs' = Set(crs, d, [crs[d] EXCEPT !.priv = ~ @, !.observed = FALSE])
        BY <2>2 DEF Edit, Kubectl
      <3>3. crs'[c] = IF c = d THEN [crs[d] EXCEPT !.priv = ~ @, !.observed = FALSE]
                      ELSE crs[c]
        BY <3>2, SetAt
      <3> QED BY <2>1, <3>1, <3>3 DEF Rewritten
    <2>3. CASE Delete(d)
      <3>1. Same([crs[d] EXCEPT !.deleting = TRUE], crs[d])
        BY <2>1, DeletingSet
      <3>2. /\ [crs[d] EXCEPT !.deleting = TRUE].deleting
            /\ [crs[d] EXCEPT !.deleting = TRUE].phase = crs[d].phase
        BY <2>1 DEF CR
      <3>3. crs' = Set(crs, d, NoCR) \/ crs' = Set(crs, d, [crs[d] EXCEPT !.deleting = TRUE])
        BY <2>3 DEF Delete, Kubectl
      <3>4. CASE crs' = Set(crs, d, NoCR)
        <4>1. crs'[c] = IF c = d THEN NoCR ELSE crs[c]
          BY <3>4, SetAt
        <4> QED BY <4>1 DEF Rewritten
      <3>5. CASE crs' = Set(crs, d, [crs[d] EXCEPT !.deleting = TRUE])
        <4> DEFINE new == [crs[d] EXCEPT !.deleting = TRUE]
        <4>1. Same(new, crs[d]) /\ new.deleting /\ new.phase = crs[d].phase
          BY <3>1, <3>2
        <4> HIDE DEF new
        <4>2. crs'[c] = IF c = d THEN new ELSE crs[c]
          BY <3>5, SetAt DEF new
        <4>3. CASE c = d
          <5>1. Same(crs'[c], crs[c]) /\ crs'[c].deleting /\ crs'[c].phase = crs[c].phase
            BY <4>1, <4>2, <4>3
          <5> QED BY <2>1, <4>3, <5>1 DEF Rewritten
        <4> QED BY <4>2, <4>3 DEF Rewritten
      <3> QED BY <3>3, <3>4, <3>5
    <2> QED BY <1>3, <2>2, <2>3
  <1>4. ASSUME NEW m \in Manifests, Apply(m) PROVE Rewritten(c)
    <2>1. /\ m.key \in Keys /\ m.priv \in BOOLEAN /\ m.userID \in OwnerRefs
          /\ m.name \in CRNames /\ CRName[m.key] = m.name
      BY DEF Manifest, NamedByKey
    <2> DEFINE new == NewCR(m.key, m.priv, m.userID)
    <2>2. /\ new \in CR /\ new.key = m.key
      BY <2>1, NewCRFields
    <2>5. new.phase = ""
      BY <2>1, NewCRPhase
    <2>3. crs[m.name] = NoCR /\ crs' = Set(crs, m.name, new)
      BY <1>4 DEF Apply, Kubectl
    <2> HIDE DEF new
    <2>4. crs'[c] = IF c = m.name THEN new ELSE crs[c]
      BY <2>1, <2>3, SetAt
    <2> QED BY <2>1, <2>2, <2>3, <2>4, <2>5 DEF Rewritten
  <1> QED BY <1>1, <1>3, <1>4

LEMMA APIRewrites ==
  ASSUME SysInv, APIStep, NEW c \in CRNames PROVE Rewritten(c) /\ Notice
  <1>1. Inv /\ Next /\ Notice
    BY DEF SysInv, APIStep
  <1>2. ASSUME NEW k \in Keys, NEW p \in BOOLEAN, CRName[k] = c,
               crs'[c] = NewCR(k, p, "owner")
        PROVE  crs'[c] \in CR /\ CRName[crs'[c].key] = c /\ crs'[c].phase = ""
    <2>1. crs'[c] \in CR /\ crs'[c].key = k
      BY <1>2, NewCRFields, OwnerIsRef
    <2>2. crs'[c].phase = ""
      BY <1>2, NewCRPhase, OwnerIsRef
    <2> QED BY <1>2, <2>1, <2>2
  <1>3. CASE crs'[c] = crs[c]
    BY <1>1, <1>3 DEF Rewritten
  <1>4. CASE crs[c] = NoCR /\ \E k \in Keys, p \in BOOLEAN :
               CRName[k] = c /\ crs'[c] = NewCR(k, p, "owner")
    <2>1. crs'[c] \in CR /\ CRName[crs'[c].key] = c /\ crs'[c].phase = ""
      BY <1>2, <1>4
    <2> QED BY <1>1, <1>4, <2>1 DEF Rewritten
  <1> QED BY <1>1, <1>3, <1>4, APIObjects

LEMMA RewrittenNames ==
  ASSUME SysInv, NEW c \in CRNames, Named(c), Rewritten(c), Notice PROVE Named(c)'
  <1>1. CalledBy(crs[c], c) /\ CalledBy(cache[c], c) /\ CalledBy(copy[c], c)
    BY NamedIsCalled
  <1>2. cache' = cache /\ copy' = copy
    BY DEF Notice
  <1>3. CalledBy(crs'[c], c)
    BY <1>1, SameIsCalled DEF Rewritten, CalledBy
  <1> QED BY <1>1, <1>2, <1>3, NamedIsCalled

LEMMA NamesKept ==
  ASSUME NamedByKey, SysInv, SystemNext, NEW c \in CRNames, Named(c) PROVE Named(c)'
  <1>1. CASE APIStep
    BY <1>1, APIRewrites, RewrittenNames
  <1>2. CASE Restart
    <2>1. crs'[c] = crs[c] /\ cache'[c] = crs[c] /\ copy'[c] = NoCR
      BY <1>2 DEF Restart, world
    <2> QED BY <2>1, NamedIsCalled DEF CalledBy
  <1>3. ASSUME NEW d \in CRNames, ReconcileStep(d) PROVE Named(c)'
    <2>1. CASE d = c
      BY <1>3, <2>1, ReconcileNames
    <2>2. CASE d # c
      BY <1>3, <2>2, StepsAreOne, NamedIsCalled DEF OneObject, LeavesAlone
    <2> QED BY <2>1, <2>2
  <1>4. CASE \/ \E d \in CRNames : Edit(d) \/ Delete(d)
             \/ \E m \in Manifests : Apply(m)
    BY <1>4, KubectlRewrites, RewrittenNames
  <1> QED BY <1>1, <1>2, <1>3, <1>4 DEF SystemNext, OpStep, OpNext, ReconcileStep
-----------------------------------------------------------------------------
(* What a step takes from a name: neither a row nor a directory of a key   *)
(* of d goes away.                                                         *)
KeepsRows(d) == \A row \in rows : CRName[row.key] = d => row \in rows'
KeepsDisk(d) ==
  \A k \in Keys :
    CRName[k] = d /\ disk[GetRepoPath(k)] # NoDisk => disk'[GetRepoPath(k)] # NoDisk
Spares(d) == KeepsRows(d) /\ KeepsDisk(d)

LEMMA SparedStaysQuiet ==
  ASSUME SysInv, NEW d \in CRNames, Named(d), QuietOK(d), LeavesAlone(d), Spares(d)
  PROVE  QuietOK(d)'
  <1>1. ASSUME NEW k \in Keys, NEW i, NEW p, CRName[k] = d
        PROVE  /\ HasRow(rows, k, i) => HasRow(rows', k, i)
               /\ HasRowAs(rows, k, i, p) => HasRowAs(rows', k, i, p)
               /\ disk[GetRepoPath(k)] # NoDisk => disk'[GetRepoPath(k)] # NoDisk
    BY <1>1 DEF Spares, KeepsRows, KeepsDisk, HasRow, HasRowAs
  <1>2. ASSUME crs[d] # NoCR PROVE crs[d].key \in Keys /\ CRName[crs[d].key] = d
    BY <1>2, Types, CRFields, NamedIsCalled DEF CalledBy
  <1>3. ASSUME rpc[d] # "idle" PROVE copy[d].key \in Keys /\ CRName[copy[d].key] = d
    BY <1>3, CopyIsOwn, CRFields, NamedIsCalled DEF CalledBy
  <1>4. ReadyOK(d)' /\ RestOK(d)'
    BY <1>1, <1>2 DEF QuietOK, ReadyOK, RestOK, LeavesAlone
  <1>5. DeletedOK(d)'
    BY DEF QuietOK, DeletedOK, OutOfTheWay, LeavesAlone
  <1>6. MakingOK(d)'
    BY <1>1, <1>3 DEF QuietOK, MakingOK, LeavesAlone, CreatePcs
  <1> QED BY <1>4, <1>5, <1>6 DEF QuietOK

\* Every step of a Reconcile but one leaves every directory.
LEMMA DiskKept ==
  ASSUME SysInv, NEW c \in CRNames, Reconcile(c), ~ FinalizeDisk(c)
  PROVE  \A k \in Keys : disk[GetRepoPath(k)] # NoDisk => disk'[GetRepoPath(k)] # NoDisk
  <1>1. CASE disk' = disk
    BY <1>1
  <1>2. CASE EnsureDisk(c)
    <2>1. disk' = IF disk[GetRepoPath(cache[c].key)] = NoDisk
                  THEN [disk EXCEPT ![GetRepoPath(cache[c].key)] = Operator] ELSE disk
      BY <1>2 DEF EnsureDisk, InitBareRepo
    <2> QED BY <2>1, PathIsPath DEF SysInv, Inv, TypeOK, WorldTypeOK
  <1> QED
    BY <1>1, <1>2 DEF Reconcile, ReconcileGone, AddFinalizer, SetPending, EnsureDiskFails,
       RejectOwner, Lookup, LookupFails, InsertRow, InsertRowFails, Reread, CreateFailed,
       SyncRow, MarkReady, BeginFinalize, FinalizeRow, StripFinalizer, world

\* A Reconcile for another name takes nothing from d.
LEMMA OthersSpare ==
  ASSUME SysInv, NEW c \in CRNames, Named(c), ReconcileStep(c), NEW d \in CRNames \ {c}
  PROVE  Spares(d)
  <1>1. ASSUME rpc[c] # "idle"
        PROVE  /\ copy[c] \in CR /\ IsOwn(copy[c]) /\ copy[c].key \in Keys
               /\ copy[c].priv \in BOOLEAN /\ CRName[copy[c].key] = c
    BY <1>1, CopyIsOwn, CRFields, NamedIsCalled DEF CalledBy
  <1>2. KeepsRows(d)
    <2>1. CASE FinalizeRow(c)
      <3>1. \A row \in rows : row.id = copy[c].dbID => CRName[row.key] = c
        BY <1>1, <2>1 DEF FinalizeRow, IsOwn
      <3>2. rows' = rows \/ rows' = {row \in rows : row.id # copy[c].dbID}
        BY <2>1 DEF FinalizeRow, DeleteRepo, db
      <3> QED BY <3>1, <3>2 DEF KeepsRows
    <2>2. CASE SyncRow(c)
      <3>1. \A row \in rows : row.id = found[c] => CRName[row.key] = c
        BY <1>1, <2>2 DEF SyncRow, SysInv, FoundOK
      <3>2. \A row \in rows : row.id # found[c] => row \in rows'
        BY <1>1, <2>2, Types, Updated DEF SyncRow, SysInv, Inv, db
      <3> QED BY <3>1, <3>2 DEF KeepsRows
    <2>3. CASE ~ FinalizeRow(c) /\ ~ SyncRow(c)
      BY <2>3, RowsKept DEF KeepsRows, ReconcileStep, WatchEvent, Resync, world
    <2> QED BY <2>1, <2>2, <2>3
  <1>3. KeepsDisk(d)
    <2>1. disk \in [Paths -> Reqs \cup {Operator, NoDisk}]
      BY DEF SysInv, Inv, TypeOK, WorldTypeOK
    <2>2. CASE FinalizeDisk(c)
      <3>1. GetRepoPath(copy[c].key) \in Paths /\ CRName[copy[c].key] = c
        BY <1>1, <2>2, PathIsPath DEF FinalizeDisk
      <3>2. disk' = disk \/ disk' = [disk EXCEPT ![GetRepoPath(copy[c].key)] = NoDisk]
        BY <2>2 DEF FinalizeDisk, RemoveAll
      <3>3. \A k \in Keys : CRName[k] = d => GetRepoPath(k) # GetRepoPath(copy[c].key)
        BY <1>1, <2>2, <3>1, PathsAreApart DEF PathsApart, FinalizeDisk
      <3> QED BY <2>1, <3>1, <3>2, <3>3, PathIsPath DEF KeepsDisk
    <2>3. CASE ~ FinalizeDisk(c)
      BY <2>3, DiskKept DEF KeepsDisk, ReconcileStep, WatchEvent, Resync, world
    <2> QED BY <2>2, <2>3
  <1> QED BY <1>2, <1>3 DEF Spares

LEMMA APISpares ==
  ASSUME SysInv, RequestsOK, APIStep, Quiet, faults' = 0, NEW d \in CRNames
  PROVE  Spares(d)
  <1>1. faults \in Nat /\ ~ Fault
    BY Counted DEF Fault, SysInv, Inv, TypeOK, WorldTypeOK
  <1>2. ASSUME NEW r \in Reqs, pc[r] # "idle" PROVE req[r].op = "create"
    BY <1>2 DEF SysInv, Inv, RequestOK, Quiet, OnlyCreates
  <1>3. ASSUME NEW r \in Reqs
        PROVE  pc[r] \notin {"load", "update", "delete", "rm", "rollback"}
    BY <1>2 DEF SysInv, Inv, RequestOK, RequestsOK, Quiet
  <1>4. ASSUME NEW r \in Reqs PROVE ~ Change(r) /\ ~ CreateRollback(r)
    BY <1>3 DEF Change, LoadMissing, LoadFails, LoadForbidden, UpdateInvalid, Load,
       UpdateRow, UpdateRowFails, DeleteRow, DeleteRowFails, DeleteFinish, CreateRollback
  <1>5. KeepsRows(d) /\ KeepsDisk(d)
    <2>1. CASE UNCHANGED <<rows, disk>>
      BY <2>1 DEF KeepsRows, KeepsDisk
    <2>2. ASSUME NEW r \in Reqs, CreateInsert(r) \/ CreateInsertFails(r)
          PROVE  KeepsRows(d) /\ KeepsDisk(d)
      BY <2>2 DEF CreateInsert, CreateInsertFails, CreateRepo, KeepsRows, KeepsDisk, db
    <2>3. ASSUME NEW r \in Reqs, CreateInit(r) PROVE KeepsRows(d) /\ KeepsDisk(d)
      <3>1. rows' = rows /\ disk' = IF disk[got[r].path] = NoDisk
                                    THEN [disk EXCEPT ![got[r].path] = r] ELSE disk
        BY <2>3 DEF CreateInit, InitBareRepo, db
      <3> QED
        BY <3>1, PathIsPath
        DEF KeepsRows, KeepsDisk, SysInv, Inv, TypeOK, WorldTypeOK
    <2> QED
      BY <1>4, <2>1, <2>2, <2>3
      DEF APIStep, Next, Submit, RecordEvent, RecordEventFails, Crash, Create,
          CreateInvalid, CreateConflict, CreateInitFails, CreateFinish, world, db
  <1> QED BY <1>5 DEF Spares
-----------------------------------------------------------------------------
(* The steps about c itself, of a past in which nothing has failed.        *)

\* A past that is quiet after this step.
StillQuiet == faults = 0 /\ faults' = 0

LEMMA NoFault == ASSUME SysInv, StillQuiet PROVE ~ Fault
  BY DEF StillQuiet, Fault, SysInv, Inv, TypeOK, WorldTypeOK

\* Others write the object: both copies of it are stale, and say so.
LEMMA RewrittenStaysQuiet ==
  ASSUME SysInv, NEW c \in CRNames, Named(c), QuietOK(c), Rewritten(c), Notice, Spares(c)
  PROVE  QuietOK(c)'
  <1>1. CASE crs'[c] = crs[c]
    <2>1. cacheFresh[c] \in BOOLEAN /\ fresh[c] \in BOOLEAN
      BY Types
    <2>2. LeavesAlone(c)
      BY <1>1, <2>1 DEF LeavesAlone, Notice
    <2> QED BY <2>2, SparedStaysQuiet
  <1>2. CASE crs'[c] # crs[c]
    <2>1. /\ ~ cacheFresh'[c] /\ ~ fresh'[c]
          /\ UNCHANGED <<cache, queued, rpc, copy, found>>
      BY <1>2 DEF Notice
    <2>2. ASSUME NEW k \in Keys, NEW i, CRName[k] = c
          PROVE  /\ HasRow(rows, k, i) => HasRow(rows', k, i)
                 /\ disk[GetRepoPath(k)] # NoDisk => disk'[GetRepoPath(k)] # NoDisk
      BY <2>2 DEF Spares, KeepsRows, KeepsDisk, HasRow
    <2>3. ReadyOK(c)'
      <3> SUFFICES ASSUME crs'[c] # NoCR, crs'[c].phase = "Ready" PROVE ReadyOK(c)'
        BY DEF ReadyOK
      <3>1. /\ crs[c] \in CR /\ Same(crs'[c], crs[c]) /\ crs[c].phase = "Ready"
            /\ crs[c].deleting => crs'[c].deleting
        BY <1>2 DEF Rewritten
      <3>2. crs[c] # NoCR /\ crs[c].key \in Keys /\ CRName[crs[c].key] = c
        BY <3>1, CRFields, NamedIsCalled DEF CalledBy
      <3>3. ReadyOK(c)
        BY DEF QuietOK
      <3> QED BY <2>2, <3>1, <3>2, <3>3 DEF ReadyOK, Same
    <2>4. RestOK(c)'
      BY <2>1 DEF RestOK
    <2>5. OutOfTheWay(c) => OutOfTheWay(c)'
      BY Types, CRFields DEF OutOfTheWay, Rewritten
    <2>6. DeletedOK(c)'
      BY <2>1, <2>5 DEF QuietOK, DeletedOK
    <2>7. MakingOK(c)'
      <3> SUFFICES ASSUME rpc[c] \in CreatePcs PROVE MakingOK(c)'
        BY <2>1 DEF MakingOK
      <3>1. copy[c].key \in Keys /\ CRName[copy[c].key] = c
        BY CopyIsOwn, CRFields, NamedIsCalled DEF CalledBy, CreatePcs
      <3> QED BY <2>1, <2>2, <3>1 DEF QuietOK, MakingOK
    <2> QED BY <2>3, <2>4, <2>6, <2>7 DEF QuietOK
  <1> QED BY <1>1, <1>2

\* The queue and the informer: a resync and an event are for Reconcile to see.
LEMMA QueueStaysQuiet ==
  ASSUME SysInv, NEW c \in CRNames, QuietOK(c),
         ReconcileGone(c) \/ WatchEvent(c) \/ Resync(c)
  PROVE  QuietOK(c)'
  <1>1. UNCHANGED <<rows, disk, crs, rpc, copy, fresh, found>>
    BY DEF ReconcileGone, WatchEvent, Resync, world
  <1>2. ObjectOK(c) /\ WorkerOK(c) /\ FreshOK(c)
    BY DEF SysInv
  <1>3. ReadyOK(c)'
    BY <1>1 DEF QuietOK, ReadyOK
  <1>4. CASE ReconcileGone(c)
    <2>1. cache[c] = NoCR /\ UNCHANGED <<cache, cacheFresh>>
      BY <1>4 DEF ReconcileGone
    <2>2. RestOK(c)'
      BY <1>1, <1>2, <2>1 DEF RestOK, ObjectOK
    <2> QED BY <1>1, <1>3, <2>1, <2>2 DEF QuietOK, DeletedOK, OutOfTheWay, MakingOK
  <1>5. CASE WatchEvent(c)
    <2>1. queued'[c] /\ cache'[c] = crs[c]
      BY <1>5 DEF WatchEvent, Set, SysInv, OpTypeOK
    <2>2. RestOK(c)'
      BY <2>1 DEF RestOK
    <2>3. DeletedOK(c)'
      BY <1>1, <2>1 DEF QuietOK, DeletedOK, OutOfTheWay
    <2>4. rpc[c] \in CreatePcs /\ fresh[c] => crs[c] # NoCR /\ ~ crs[c].deleting
      <3> SUFFICES ASSUME rpc[c] \in CreatePcs, fresh[c]
                   PROVE  crs[c] # NoCR /\ ~ crs[c].deleting
        OBVIOUS
      <3>1. crs[c] \in CR /\ copy[c] = [crs[c] EXCEPT !.hasDisk = TRUE] /\ ~ copy[c].deleting
        BY <1>2, Types DEF FreshOK, WorkerOK
      <3> QED BY <3>1, HasDiskSet, CRFields
    <2>5. MakingOK(c)'
      BY <1>1, <2>1, <2>4 DEF QuietOK, MakingOK
    <2> QED BY <1>3, <2>2, <2>3, <2>5 DEF QuietOK
  <1>6. CASE Resync(c)
    <2>1. queued'[c] /\ cache' = cache
      BY <1>6 DEF Resync, Set, SysInv, OpTypeOK
    <2>2. RestOK(c)'
      BY <2>1 DEF RestOK
    <2> QED BY <1>1, <1>3, <2>1, <2>2 DEF QuietOK, DeletedOK, OutOfTheWay, MakingOK
  <1> QED BY <1>4, <1>5, <1>6

\* The finalizer and the phase Pending.
LEMMA StoringStaysQuiet ==
  ASSUME SysInv, NEW c \in CRNames, QuietOK(c), AddFinalizer(c) \/ SetPending(c)
  PROVE  QuietOK(c)'
  <1>1. /\ cache[c] \in CR /\ rpc[c] = "idle" /\ queued[c] /\ cache[c] = crs[c]
        /\ ~ cache[c].deleting /\ UNCHANGED <<rows, disk, rpc, queued, cache>>
    BY FetchedIsOwn DEF AddFinalizer, SetPending, db
  <1>2. RestOK(c)' /\ DeletedOK(c)' /\ MakingOK(c)'
    BY <1>1 DEF RestOK, DeletedOK, MakingOK, CreatePcs, FinalPcs
  <1>3. ReadyOK(c)'
    <2>1. CASE AddFinalizer(c)
      <3> DEFINE new == [cache[c] EXCEPT !.finalizer = TRUE]
      <3>1. /\ new \in CR /\ Same(new, cache[c]) /\ new.phase = cache[c].phase
            /\ new.deleting = cache[c].deleting
        BY <1>1, FinalizerSet DEF Same
      <3>2. Store(c, new)
        BY <2>1 DEF AddFinalizer
      <3> HIDE DEF new
      <3>3. crs'[c] = new
        BY <3>1, <3>2, Stored
      <3> QED BY <1>1, <3>1, <3>3 DEF QuietOK, ReadyOK, Same
    <2>2. CASE SetPending(c)
      <3> DEFINE new == [cache[c] EXCEPT !.phase = "Pending"]
      <3>1. new \in CR /\ new.phase = "Pending"
        BY <1>1 DEF CR, Phases
      <3>2. Store(c, new)
        BY <2>2 DEF SetPending
      <3> HIDE DEF new
      <3>3. crs'[c].phase = "Pending"
        BY <3>1, <3>2, Stored
      <3> QED BY <3>3 DEF ReadyOK
    <2> QED BY <2>1, <2>2
  <1> QED BY <1>2, <1>3 DEF QuietOK

\* A Reconcile that finds the object wanted makes its directory.
LEMMA EnsureDiskStaysQuiet ==
  ASSUME SysInv, NEW c \in CRNames, QuietOK(c), EnsureDisk(c) PROVE QuietOK(c)'
  <1>1. /\ cache[c] \in CR /\ ~ cache[c].deleting
        /\ UNCHANGED <<rows, crs, cache, cacheFresh>>
        /\ copy' = Set(copy, c, [cache[c] EXCEPT !.hasDisk = TRUE])
        /\ InitBareRepo(GetRepoPath(cache[c].key), Operator)
    BY FetchedIsOwn DEF EnsureDisk, db
  <1>2. rpc'[c] \in {"badowner", "db"}
    BY DEF EnsureDisk, Set, SysInv, OpTypeOK
  <1>3. copy'[c].key = cache[c].key
    BY <1>1, HasDiskSet DEF Set, Same, SysInv, OpTypeOK
  <1>4. disk'[GetRepoPath(cache[c].key)] # NoDisk
    BY <1>1, CRFields, PathIsPath DEF InitBareRepo, SysInv, Inv, TypeOK, WorldTypeOK
  <1>5. ReadyOK(c)'
    <2>1. ~ FinalizeDisk(c)
      BY FetchedIsOwn DEF EnsureDisk, FinalizeDisk
    <2>2. \A k \in Keys : disk[GetRepoPath(k)] # NoDisk => disk'[GetRepoPath(k)] # NoDisk
      BY <2>1, DiskKept DEF Reconcile
    <2> QED BY <1>1, <2>2, Types, CRFields DEF QuietOK, ReadyOK
  <1>6. RestOK(c)'
    BY <1>2 DEF RestOK
  <1>7. DeletedOK(c)'
    BY <1>1, <1>2 DEF DeletedOK, FinalPcs
  <1>8. MakingOK(c)'
    BY <1>1, <1>2, <1>3, <1>4, CRFields DEF MakingOK
  <1> QED BY <1>5, <1>6, <1>7, <1>8 DEF QuietOK

\* What a Reconcile that creates has in hand, when its copy is current.
LEMMA CopyIsObject ==
  ASSUME SysInv, NEW c \in CRNames, rpc[c] \in CreatePcs, fresh[c]
  PROVE  /\ crs[c] \in CR /\ copy[c] \in CR /\ ~ crs[c].deleting
         /\ copy[c].key = crs[c].key /\ copy[c].dbID = crs[c].dbID
         /\ copy[c].phase = crs[c].phase /\ copy[c].userID = crs[c].userID
         /\ copy[c].priv = crs[c].priv
  <1>1. crs[c] \in CR /\ copy[c] = [crs[c] EXCEPT !.hasDisk = TRUE] /\ ~ copy[c].deleting
    BY Types DEF SysInv, FreshOK, WorkerOK
  <1> QED BY <1>1, HasDiskSet DEF Same

LEMMA ReturnAt ==
  ASSUME SysInv, NEW c \in CRNames, NEW again \in BOOLEAN, Return(c, again)
  PROVE  rpc'[c] = "idle" /\ (queued'[c] <=> queued[c] \/ again)
  <1> DEFINE q == queued[c] \/ again
  <1>1. queued \in [CRNames -> BOOLEAN] /\ queued' = [queued EXCEPT ![c] = q]
    BY DEF Return, Set, SysInv, OpTypeOK
  <1>2. q \in BOOLEAN
    OBVIOUS
  <1> HIDE DEF q
  <1>3. queued'[c] = q
    BY <1>1, <1>2
  <1>4. rpc'[c] = "idle"
    BY DEF Return, Set, SysInv, OpTypeOK
  <1> QED BY <1>3, <1>4 DEF q

\* A Reconcile returns without a write: it, or the informer, comes back.
LEMMA UnwrittenStaysQuiet ==
  ASSUME SysInv, StillQuiet, NEW c \in CRNames, QuietOK(c), rpc[c] # "idle",
         NotWritten(c), NEW again \in BOOLEAN, Return(c, again),
         UNCHANGED <<db, disk, cache>>
  PROVE  QuietOK(c)'
  <1>1. rpc'[c] = "idle" /\ (queued'[c] <=> queued[c] \/ again)
    BY ReturnAt
  <1>2. ~ fresh[c] /\ UNCHANGED <<crs, cacheFresh, rows>>
    BY NoFault DEF NotWritten, db
  <1>3. ~ cacheFresh[c] \/ queued[c]
    BY <1>2 DEF SysInv, WorkerOK
  <1>4. ReadyOK(c)'
    BY <1>2 DEF QuietOK, ReadyOK
  <1>5. RestOK(c)'
    BY <1>1, <1>2, <1>3 DEF RestOK
  <1>6. DeletedOK(c)' /\ MakingOK(c)'
    BY <1>1, <1>2 DEF QuietOK, DeletedOK, OutOfTheWay, MakingOK, CreatePcs, FinalPcs
  <1> QED BY <1>4, <1>5, <1>6 DEF QuietOK

\* RejectOwner and CreateFailed never leave an object Ready.
LEMMA GivingUpStaysQuiet ==
  ASSUME SysInv, StillQuiet, NEW c \in CRNames, QuietOK(c), RejectOwner(c) \/ CreateFailed(c)
  PROVE  QuietOK(c)'
  <1>1. /\ rpc[c] \in {"badowner", "createfailed"}
        /\ \E again \in BOOLEAN : Return(c, again)
        /\ UNCHANGED <<db, disk, cache>>
    BY DEF RejectOwner, CreateFailed
  <1>2. CASE NotWritten(c)
    BY <1>1, <1>2, UnwrittenStaysQuiet
  <1>3. CASE \E cr \in CR : Written(c, cr) /\ cr.phase # "Ready"
    <2>1. rpc'[c] = "idle"
      BY <1>1, ReturnAt
    <2>2. fresh[c] /\ crs'[c] \in CR /\ crs'[c].phase # "Ready"
      BY <1>3, Stored DEF Written
    <2>3. cache[c] # NoCR /\ ~ cache[c].deleting
      BY <1>1, <2>2 DEF QuietOK, MakingOK, CreatePcs
    <2> QED
      BY <1>1, <2>1, <2>2, <2>3
      DEF QuietOK, ReadyOK, RestOK, DeletedOK, MakingOK, CreatePcs, FinalPcs
  <1>4. CASE RejectOwner(c)
    <2>1. copy[c] \in CR
      BY <1>1, CopyIsOwn
    <2>2. /\ [copy[c] EXCEPT !.phase = "Failed", !.synced = FALSE] \in CR
          /\ [copy[c] EXCEPT !.phase = "Failed", !.synced = FALSE].phase # "Ready"
      BY <2>1 DEF CR, Phases
    <2>3. \/ Written(c, [copy[c] EXCEPT !.phase = "Failed", !.synced = FALSE])
          \/ NotWritten(c)
      BY <1>4, WriteCases DEF RejectOwner
    <2> QED BY <1>2, <1>3, <2>2, <2>3
  <1>5. CASE CreateFailed(c)
    <2> DEFINE new == [copy[c] EXCEPT !.synced = FALSE]
    <2>1. copy[c] \in CR
      BY <1>1, CopyIsOwn
    <2>2. new \in CR /\ new.phase = copy[c].phase
      BY <2>1, SyncedUnset DEF Same, CR
    <2>3. Written(c, new) \/ NotWritten(c)
      BY <1>5, WriteCases DEF CreateFailed
    <2>4. fresh[c] => copy[c].phase # "Ready"
      BY <1>1, <1>5 DEF QuietOK, MakingOK, CreatePcs, CreateFailed
    <2>5. Written(c, new) => fresh[c]
      BY DEF Written
    <2> HIDE DEF new
    <2> QED BY <1>2, <1>3, <2>2, <2>3, <2>4, <2>5
  <1> QED BY <1>4, <1>5

\* MarkReady writes what it has made, or learns that it was overtaken.
LEMMA MarkReadyStaysQuiet ==
  ASSUME SysInv, StillQuiet, NEW c \in CRNames, QuietOK(c), MarkReady(c)
  PROVE  QuietOK(c)'
  <1>1. /\ rpc[c] = "ready" /\ copy[c] \in CR /\ found[c] \in Nat
        /\ UNCHANGED <<db, disk, cache, rows>>
    BY CopyIsOwn, Types DEF MarkReady, db
  <1>2. CASE WriteRefused(c) /\ Return(c, TRUE)
    BY <1>1, <1>2, WriteCases, UnwrittenStaysQuiet
  <1>3. CASE Write(c, ReadyOf(copy[c], found[c])) /\ Return(c, FALSE)
    <2> DEFINE new == ReadyOf(copy[c], found[c])
    <2>1. /\ new \in CR /\ new.key = copy[c].key /\ new.userID = copy[c].userID
          /\ new.dbID = found[c] /\ new.phase = "Ready" /\ new.priv = copy[c].priv
      BY <1>1, ReadySet
    <2>2. fresh[c] /\ Store(c, new)
      BY <1>3 DEF Write
    <2> HIDE DEF new
    <2>3. crs'[c] = new /\ cacheFresh'[c] = (cacheFresh[c] /\ new = crs[c])
      BY <2>1, <2>2, Stored
    <2>4. rpc'[c] = "idle"
      BY <1>3, ReturnAt
    <2>5. /\ disk[GetRepoPath(copy[c].key)] # NoDisk /\ HasRow(rows, copy[c].key, found[c])
          /\ cache[c] # NoCR /\ ~ cache[c].deleting
          /\ copy[c].phase = "Ready" => HasRowAs(rows, copy[c].key, found[c], copy[c].priv)
      BY <1>1, <2>2 DEF QuietOK, MakingOK, CreatePcs
    <2>6. copy[c].userID = "owner"
      BY <1>1 DEF SysInv, WorkerOK
    <2>7. ReadyOK(c)'
      BY <1>1, <2>1, <2>3, <2>5, <2>6 DEF ReadyOK
    <2>8. RestOK(c)'
      <3> SUFFICES ASSUME cacheFresh'[c] PROVE HasRowAs(rows, new.key, new.dbID, new.priv)
        BY <1>1, <2>3 DEF RestOK
      <3>1. new = crs[c]
        BY <2>3
      <3>2. copy[c].phase = "Ready"
        BY <1>1, <2>1, <2>2, <3>1, CopyIsObject DEF CreatePcs
      <3> QED BY <2>1, <2>5, <3>2
    <2>9. DeletedOK(c)' /\ MakingOK(c)'
      BY <1>1, <2>4, <2>5 DEF DeletedOK, MakingOK, CreatePcs, FinalPcs
    <2> QED BY <2>7, <2>8, <2>9 DEF QuietOK
  <1> QED BY <1>2, <1>3 DEF MarkReady, ReadyOf

\* The calls to the database on the way to the write, none of which takes a row.
LEMMA AskingStaysQuiet ==
  ASSUME SysInv, StillQuiet, NEW c \in CRNames, QuietOK(c),
         Lookup(c) \/ InsertRow(c) \/ InsertRowFails(c) \/ Reread(c)
  PROVE  QuietOK(c)'
  <1>1. /\ UNCHANGED <<disk, crs, cache, cacheFresh, copy, fresh>>
        /\ rpc[c] \in CreatePcs /\ ~ Fault
    BY NoFault DEF Lookup, InsertRow, InsertRowFails, Reread, world, CreatePcs
  <1>2. rows \subseteq rows'
    BY RowsKept DEF Lookup, InsertRow, InsertRowFails, Reread, Reconcile, CreateRepo,
                    world, db
  <1>3. ReadyOK(c)'
    BY <1>1, <1>2 DEF QuietOK, ReadyOK, HasRow
  <1>4. /\ disk[GetRepoPath(copy[c].key)] # NoDisk
        /\ fresh[c] => cache[c] # NoCR /\ ~ cache[c].deleting
        /\ rpc[c] \in {"insert", "reread"} /\ fresh[c] => copy[c].phase # "Ready"
    BY <1>1 DEF QuietOK, MakingOK
  <1>5. ASSUME NEW to \in {"sync", "ready", "insert", "reread", "createfailed"},
               Then(c, to),
               to \in {"sync", "ready"} => HasRow(rows', copy[c].key, found'[c]),
               to = "ready" /\ fresh[c] /\ copy[c].phase = "Ready" =>
                 HasRowAs(rows', copy[c].key, found'[c], copy[c].priv),
               to \in {"insert", "reread", "createfailed"} /\ fresh[c] =>
                 copy[c].phase # "Ready"
        PROVE  QuietOK(c)'
    <2>1. rpc'[c] = to
      BY <1>5, ThenAt
    <2>2. RestOK(c)'
      BY <2>1 DEF RestOK
    <2>3. DeletedOK(c)'
      BY <1>1, <2>1 DEF QuietOK, DeletedOK, OutOfTheWay, FinalPcs
    <2>4. MakingOK(c)'
      BY <1>1, <1>4, <1>5, <2>1 DEF MakingOK
    <2> QED BY <1>3, <2>2, <2>3, <2>4 DEF QuietOK
  <1>6. ASSUME NEW row \in RowsOf(copy[c].key), found' = Set(found, c, row.id), rows' = rows
        PROVE  HasRow(rows', copy[c].key, found'[c])
    <2>1. found'[c] = row.id
      BY <1>6, RowFound, FoundTypes
    <2> QED BY <1>6, <2>1 DEF HasRow, RowsOf
  <1>7. CASE Lookup(c)
    <2>1. CASE Then(c, "insert") /\ (~ Taken(copy[c].key) \/ copy[c].userID # "owner")
      <3> SUFFICES ASSUME fresh[c], copy[c].phase = "Ready" PROVE FALSE
        BY <1>5, <2>1
      <3>1. /\ crs[c] \in CR /\ ~ crs[c].deleting /\ copy[c].key = crs[c].key
            /\ crs[c].phase = "Ready" /\ copy[c].userID = crs[c].userID
        BY <1>1, CopyIsObject
      <3>2. crs[c].userID = "owner" /\ HasRow(rows, crs[c].key, crs[c].dbID)
        BY <3>1, CRFields DEF QuietOK, ReadyOK
      <3> QED BY <2>1, <3>1, <3>2 DEF HasRow, Taken, RowsOf
    <2>2. CASE /\ \E row \in RowsOf(copy[c].key) : found' = Set(found, c, row.id)
               /\ Then(c, "sync")
      <3>1. rows' = rows
        BY <1>7 DEF Lookup, world
      <3> QED BY <1>5, <1>6, <2>2, <3>1
    <2> QED BY <1>7, <2>1, <2>2 DEF Lookup
  <1>8. CASE InsertRow(c)
    <2>1. CASE /\ CreateRepo(copy[c].key, copy[c].priv)
               /\ found' = Set(found, c, nextId) /\ Then(c, "ready")
      <3>1. copy[c].key \in Keys /\ copy[c].priv \in BOOLEAN /\ nextId \in Nat
        BY <1>1, CopyIsOwn, CRFields, Types DEF CreatePcs
      <3>2. found'[c] = nextId
        BY <2>1, <3>1, FoundTypes
      <3> DEFINE new == NewRow(copy[c].key, copy[c].priv)
      <3>3. new.id = nextId /\ new.key = copy[c].key /\ new.priv = copy[c].priv
        BY <3>1, NewRowIsRow DEF SysInv, Inv
      <3>4. new \in rows'
        BY <2>1 DEF CreateRepo
      <3> HIDE DEF new
      <3>5. /\ HasRow(rows', copy[c].key, found'[c])
            /\ HasRowAs(rows', copy[c].key, found'[c], copy[c].priv)
        BY <3>2, <3>3, <3>4 DEF HasRow, HasRowAs
      <3> QED BY <1>5, <2>1, <3>5
    <2>2. CASE Then(c, "reread")
      BY <1>4, <1>5, <1>8, <2>2 DEF InsertRow
    <2> QED BY <1>8, <2>1, <2>2 DEF InsertRow
  <1>9. CASE InsertRowFails(c)
    BY <1>4, <1>5, <1>9 DEF InsertRowFails
  <1>10. CASE Reread(c)
    <2>1. rows' = rows /\ rpc[c] = "reread"
      BY <1>10 DEF Reread, world
    <2>2. CASE /\ \E row \in RowsOf(copy[c].key) : found' = Set(found, c, row.id)
               /\ Then(c, "ready")
      BY <1>4, <1>5, <1>6, <2>1, <2>2
    <2>3. CASE Then(c, "createfailed")
      BY <1>4, <1>5, <2>1, <2>3
    <2> QED BY <1>10, <2>2, <2>3 DEF Reread
  <1> QED BY <1>7, <1>8, <1>9, <1>10

\* syncDBRecord writes what the copy says, into the row that was found.
LEMMA SyncRowStaysQuiet ==
  ASSUME SysInv, StillQuiet, NEW c \in CRNames, QuietOK(c), SyncRow(c) PROVE QuietOK(c)'
  <1>1. /\ UNCHANGED <<disk, crs, cache, cacheFresh, copy, fresh, found>>
        /\ rpc[c] = "sync" /\ rpc'[c] = "ready" /\ ~ Fault
    BY NoFault, ThenAt DEF SyncRow
  <1>2. /\ disk[GetRepoPath(copy[c].key)] # NoDisk
        /\ fresh[c] => cache[c] # NoCR /\ ~ cache[c].deleting
        /\ HasRow(rows, copy[c].key, found[c])
    BY <1>1 DEF QuietOK, MakingOK, CreatePcs
  <1>3. UpdateRepo(found[c], copy[c].priv)
    BY <1>1, <1>2 DEF SyncRow, HasRow, Live
  <1>4. copy[c].priv \in BOOLEAN /\ found[c] \in Nat
    BY <1>1, CopyIsOwn, CRFields, Types
  <1>5. \A k, i : HasRow(rows, k, i) => HasRow(rows', k, i)
    BY <1>3, <1>4, Updated DEF HasRow, SysInv, Inv
  <1>6. HasRowAs(rows', copy[c].key, found[c], copy[c].priv)
    <2>1. PICK row \in rows : row.key = copy[c].key /\ row.id = found[c]
      BY <1>2 DEF HasRow
    <2> DEFINE new == [row EXCEPT !.priv = copy[c].priv]
    <2>2. new.id = row.id /\ new.key = row.key /\ new.priv = copy[c].priv
      BY <1>4, <2>1, UpdatedRow DEF Row, SysInv, Inv, TypeOK, WorldTypeOK
    <2>3. new \in rows'
      BY <1>3, <2>1 DEF UpdateRepo
    <2> HIDE DEF new
    <2> QED BY <2>1, <2>2, <2>3 DEF HasRowAs
  <1>7. ReadyOK(c)'
    BY <1>1, <1>5 DEF QuietOK, ReadyOK
  <1>8. RestOK(c)' /\ DeletedOK(c)'
    BY <1>1 DEF QuietOK, RestOK, DeletedOK, OutOfTheWay, FinalPcs
  <1>9. MakingOK(c)'
    BY <1>1, <1>2, <1>5, <1>6 DEF MakingOK
  <1> QED BY <1>7, <1>8, <1>9 DEF QuietOK

\* Finalization takes a row and a directory from an object that is being
\* deleted, or was made anew since and has got nothing yet.
LEMMA FinalizingStaysQuiet ==
  ASSUME SysInv, StillQuiet, NEW c \in CRNames, QuietOK(c),
         BeginFinalize(c) \/ FinalizeDisk(c) \/ FinalizeRow(c) \/ StripFinalizer(c)
  PROVE  QuietOK(c)'
  <1>1. cache' = cache /\ OutOfTheWay(c)
    BY FetchedIsOwn, CRFields DEF BeginFinalize, FinalizeDisk, FinalizeRow, StripFinalizer,
       QuietOK, DeletedOK, FinalPcs
  <1>2. CASE FinalizeDisk(c) \/ FinalizeRow(c)
    <2>1. rpc'[c] \in FinalPcs /\ crs' = crs
      BY <1>2, ThenAt DEF FinalizeDisk, FinalizeRow, FinalPcs
    <2>2. ReadyOK(c)'
      BY <1>1, <2>1 DEF QuietOK, ReadyOK, OutOfTheWay
    <2> QED BY <1>1, <2>1, <2>2 DEF QuietOK, RestOK, DeletedOK, OutOfTheWay, MakingOK,
                                    CreatePcs, FinalPcs
  <1>3. CASE BeginFinalize(c)
    <2>1. rpc'[c] = "rmdisk" /\ cache[c] \in CR /\ cache[c].deleting /\ UNCHANGED <<rows, disk>>
      BY <1>3, FetchedIsOwn DEF BeginFinalize, Set, SysInv, OpTypeOK, db
    <2>2. crs' = crs \/ (crs'[c].deleting /\ crs'[c].phase = "Deleting")
      <3> DEFINE new == [cache[c] EXCEPT !.phase = "Deleting"]
      <3>1. new \in CR /\ new.deleting /\ new.phase = "Deleting"
        BY <2>1 DEF CR, Phases
      <3>2. Store(c, new) \/ crs' = crs
        BY <1>3 DEF BeginFinalize
      <3> HIDE DEF new
      <3> QED BY <3>1, <3>2, Stored
    <2>3. OutOfTheWay(c)' /\ ReadyOK(c)'
      BY <1>1, <2>1, <2>2 DEF OutOfTheWay, QuietOK, ReadyOK
    <2> QED BY <2>1, <2>3 DEF QuietOK, RestOK, DeletedOK, MakingOK, CreatePcs
  <1>4. CASE StripFinalizer(c)
    <2>1. rpc[c] = "strip" /\ UNCHANGED <<db, disk, cache>>
      BY <1>4 DEF StripFinalizer
    <2>2. CASE WriteRefused(c) /\ Return(c, TRUE)
      BY <2>1, <2>2, WriteCases, UnwrittenStaysQuiet
    <2>3. CASE Write(c, NoCR) /\ Return(c, FALSE)
      <3>1. crs'[c] = NoCR /\ rpc'[c] = "idle"
        BY <2>3, Stored, ReturnAt DEF Write
      <3> QED BY <3>1 DEF QuietOK, ReadyOK, RestOK, DeletedOK, OutOfTheWay, MakingOK,
                          CreatePcs, FinalPcs
    <2> QED BY <1>4, <2>2, <2>3 DEF StripFinalizer
  <1> QED BY <1>2, <1>3, <1>4

LEMMA RestartStaysQuiet ==
  ASSUME NEW c \in CRNames, QuietOK(c), Restart PROVE QuietOK(c)'
  <1>1. /\ UNCHANGED <<rows, disk, crs>> /\ rpc'[c] = "idle" /\ cache'[c] = crs[c]
        /\ queued'[c] <=> crs[c] # NoCR
    BY DEF Restart, world
  <1> QED BY <1>1 DEF QuietOK, ReadyOK, RestOK, DeletedOK, OutOfTheWay, MakingOK,
                      CreatePcs, FinalPcs
-----------------------------------------------------------------------------
LEMMA QuietKept ==
  ASSUME NamedByKey, ReadyInv, SystemNext, Quiet', NEW c \in CRNames PROVE QuietOK(c)'
  <1>1. SysInv /\ Named(c) /\ Quiet /\ QuietOK(c) /\ RequestsOK
    BY QuietBefore DEF ReadyInv
  <1>2. StillQuiet
    BY <1>1 DEF StillQuiet, Quiet
  <1>3. CASE APIStep
    BY <1>1, <1>2, <1>3, APIRewrites, APISpares, RewrittenStaysQuiet DEF StillQuiet
  <1>4. CASE \/ \E d \in CRNames : Edit(d) \/ Delete(d)
             \/ \E m \in Manifests : Apply(m)
    <2>1. UNCHANGED <<rows, disk>>
      BY <1>4 DEF Edit, Delete, Apply, Kubectl, db
    <2>2. Spares(c)
      BY <2>1 DEF Spares, KeepsRows, KeepsDisk
    <2> QED BY <1>1, <1>4, <2>2, KubectlRewrites, RewrittenStaysQuiet
  <1>5. ASSUME NEW d \in CRNames, ReconcileStep(d) PROVE QuietOK(c)'
    <2>1. CASE d # c
      <3>1. LeavesAlone(c)
        BY <1>1, <1>5, <2>1, StepsAreOne DEF OneObject
      <3>2. Named(d)
        BY DEF ReadyInv
      <3> QED BY <1>1, <1>5, <2>1, <3>1, <3>2, OthersSpare, SparedStaysQuiet
    <2>2. CASE d = c
      <3>1. ~ Fault
        BY <1>1, <1>2, NoFault
      <3> QED
        BY <1>1, <1>2, <1>5, <2>2, <3>1, QueueStaysQuiet, StoringStaysQuiet,
           EnsureDiskStaysQuiet, GivingUpStaysQuiet, MarkReadyStaysQuiet, AskingStaysQuiet,
           SyncRowStaysQuiet, FinalizingStaysQuiet
        DEF ReconcileStep, Reconcile, EnsureDiskFails, LookupFails
    <2> QED BY <2>1, <2>2
  <1> QED
    BY <1>1, <1>3, <1>4, <1>5, RestartStaysQuiet
    DEF SystemNext, OpStep, OpNext, ReconcileStep

LEMMA ReadyInvStep ==
  ASSUME NamedByKey, ReadyInv, [SystemNext]_sysVars PROVE ReadyInv'
  <1>1. SysInv /\ SysInv'
    BY SystemStepInv DEF ReadyInv
  <1>2. CASE SystemNext
    <2>1. RequestsOK'
      BY <1>1, <1>2, RequestsKept DEF ReadyInv
    <2>2. \A c \in CRNames : Named(c)'
      BY <1>1, <1>2, NamesKept DEF ReadyInv
    <2> QED BY <1>1, <1>2, <2>1, <2>2, QuietKept DEF ReadyInv
  <1>3. CASE UNCHANGED sysVars
    <2>1. /\ UNCHANGED <<rows, disk, crs, faults, pc, req, cache, cacheFresh, queued, rpc>>
          /\ UNCHANGED <<copy, fresh, found>>
      BY <1>3 DEF sysVars, world, trouble, local, opLocal
    <2>2. RequestsOK' /\ (Quiet' <=> Quiet)
      BY <2>1 DEF ReadyInv, RequestsOK, Quiet, OnlyCreates
    <2>3. ASSUME NEW c \in CRNames PROVE Named(c)' /\ (QuietOK(c) => QuietOK(c)')
      BY <2>1 DEF ReadyInv, Named, QuietOK, ReadyOK, RestOK, DeletedOK, OutOfTheWay,
                  MakingOK
    <2> QED BY <1>1, <2>2, <2>3 DEF ReadyInv
  <1> QED BY <1>2, <1>3

(* An object at rest that says Ready is in step with its row and its       *)
(* directory, for any number of POSTs, objects, edits, deletions, restarts *)
(* and lost replies, when nothing has failed and the API only created      *)
(* (repository_types.go:15).  The hypothesis says that a manifest calls    *)
(* its object what the API would call it, so that one repository never has *)
(* two objects; keys may share a name all the same.                        *)
THEOREM ReadyIsInSync ==
  ASSUME NamedByKey PROVE SystemSpec => []ReadyWithoutPatches
  <1>1. ReadyInv /\ [SystemNext]_sysVars => ReadyInv'
    BY ReadyInvStep
  <1> QED BY <1>1, ReadyInitInv, ReadyInvSuffices, PTL DEF SystemSpec
=============================================================================
