---------------------------- MODULE RepoController ----------------------------
(***************************************************************************)
(* The operator's Repository controller                                    *)
(* (operator/controllers/repository_controller.go) under the scheduling of *)
(* controller-runtime: a work queue that runs one Reconcile per object at  *)
(* a time, reads through an informer cache that lags the API server, and   *)
(* writes with optimistic concurrency, so that a write made from a copy    *)
(* that is no longer current is refused.                                   *)
(*                                                                         *)
(* A resourceVersion serves only to compare a copy with the stored object; *)
(* cacheFresh and fresh hold the outcome of that comparison.               *)
(***************************************************************************)
EXTENDS RepoWorld

CONSTANTS
  MaxConcurrentReconciles,
  Manifests,          \* the Repository manifests a user may apply
  MaxKubectl          \* bound on kubectl commands

Manifest == [name : CRNames, key : Keys, priv : BOOLEAN, userID : OwnerRefs]

ASSUME ControllerAssumption ==
  /\ MaxConcurrentReconciles \in Nat \ {0}
  /\ Manifests \subseteq Manifest
  /\ MaxKubectl \in Nat
  /\ NoCR \notin CR

VARIABLES
  cache,      \* per object, the informer's copy of it
  cacheFresh, \* whether that copy has the stored resourceVersion
  queued,     \* the work queue
  rpc,        \* per object, where its Reconcile is
  copy,       \* the object in the hands of that Reconcile
  fresh,      \* whether it was made from the stored resourceVersion
  found,      \* dbRepo.ID in that Reconcile
  kubectl     \* commands given so far

opLocal == <<cache, cacheFresh, queued, rpc, copy, fresh, found, kubectl>>
opVars == <<world, trouble, opLocal>>
-----------------------------------------------------------------------------
RunPcs == {"badowner", "db", "insert", "reread", "createfailed", "sync", "ready",
           "rmdisk", "rmrow", "strip"}

OpTypeOK ==
  /\ cache \in [CRNames -> CR \cup {NoCR}]
  /\ cacheFresh \in [CRNames -> BOOLEAN]
  /\ queued \in [CRNames -> BOOLEAN]
  /\ rpc \in [CRNames -> RunPcs \cup {"idle"}]
  /\ copy \in [CRNames -> CR \cup {NoCR}]
  /\ fresh \in [CRNames -> BOOLEAN]
  /\ found \in [CRNames -> Nat]
  /\ kubectl \in 0..MaxKubectl

OpInit ==
  /\ cache = [c \in CRNames |-> NoCR]
  /\ cacheFresh = [c \in CRNames |-> TRUE]
  /\ queued = [c \in CRNames |-> FALSE]
  /\ rpc = [c \in CRNames |-> "idle"]
  /\ copy = [c \in CRNames |-> NoCR]
  /\ fresh = [c \in CRNames |-> FALSE]
  /\ found = [c \in CRNames |-> NoId]
  /\ kubectl = 0

Set(f, c, v) == [f EXCEPT ![c] = v]

\* The stored object becomes cr: every copy of another version is stale now.
Store(c, cr) ==
  /\ crs' = Set(crs, c, cr)
  /\ cacheFresh' = Set(cacheFresh, c, cacheFresh[c] /\ cr = crs[c])

\* r.Update or r.Status().Update from a copy that is current.
Write(c, cr) == fresh[c] /\ Store(c, cr)

\* The same from a copy that is not, or refused for another reason.
WriteRefused(c) ==
  /\ IF fresh[c] THEN Fault ELSE NoTrouble
  /\ UNCHANGED <<crs, cacheFresh>>

\* A status write whose error is dropped (_ = r.Status().Update).
WriteIgnoringErrors(c, cr) == (Write(c, cr) /\ NoTrouble) \/ WriteRefused(c)

\* Reconcile returns; again says whether the key goes back into the queue.
Return(c, again) ==
  /\ rpc' = Set(rpc, c, "idle")
  /\ queued' = Set(queued, c, queued[c] \/ again)
  /\ copy' = Set(copy, c, NoCR)
  /\ fresh' = Set(fresh, c, FALSE)
  /\ found' = Set(found, c, NoId)

Then(c, l) == rpc' = Set(rpc, c, l) /\ UNCHANGED queued
-----------------------------------------------------------------------------
(* A worker takes c off the queue and Reconcile reads it from the cache.   *)
Fetched(c) ==
  /\ rpc[c] = "idle" /\ queued[c]
  /\ Cardinality({d \in CRNames : rpc[d] # "idle"}) < MaxConcurrentReconciles
  /\ cache[c] # NoCR

\* The object is gone: nothing to do.
ReconcileGone(c) ==
  /\ rpc[c] = "idle" /\ queued[c] /\ cache[c] = NoCR
  /\ queued' = Set(queued, c, FALSE)
  /\ NoTrouble
  /\ UNCHANGED <<world, cache, cacheFresh, rpc, copy, fresh, found, kubectl>>

\* Steps 3 and 4 make one write and requeue.  A refused write changes nothing
\* and is retried: the key stays in the queue.
AddFinalizer(c) ==
  LET cr == cache[c] IN
    /\ Fetched(c)
    /\ ~ cr.deleting /\ ~ cr.finalizer
    /\ cacheFresh[c]
    /\ Store(c, [cr EXCEPT !.finalizer = TRUE])
    /\ NoTrouble
    /\ UNCHANGED <<db, disk, cache, queued, rpc, copy, fresh, found, kubectl>>

\* With a bug: a phase the CRD does not know.
SetInitializing(c) ==
  LET cr == cache[c] IN
    /\ Fetched(c)
    /\ ~ cr.deleting /\ cr.finalizer /\ cr.phase = ""
    /\ cacheFresh[c]
    /\ Store(c, [cr EXCEPT !.phase = "Initializing"])
    /\ NoTrouble
    /\ UNCHANGED <<db, disk, cache, queued, rpc, copy, fresh, found, kubectl>>

SetPending(c) ==
  LET cr == cache[c] IN
    /\ Fetched(c)
    /\ ~ cr.deleting /\ cr.finalizer /\ cr.phase = ""
    /\ cacheFresh[c]
    /\ Store(c, [cr EXCEPT !.phase = "Pending"])
    /\ NoTrouble
    /\ UNCHANGED <<db, disk, cache, queued, rpc, copy, fresh, found, kubectl>>

\* Step 5, and uuid.Parse of step 6.
EnsureDisk(c) ==
  LET cr == cache[c] IN
    /\ Fetched(c)
    /\ ~ cr.deleting /\ cr.finalizer /\ cr.phase # ""
    /\ InitBareRepo(GetRepoPath(cr.key), Operator)
    /\ copy' = Set(copy, c, [cr EXCEPT !.hasDisk = TRUE])
    /\ fresh' = Set(fresh, c, cacheFresh[c])
    /\ rpc' = Set(rpc, c, IF cr.userID = "unparsable" THEN "badowner" ELSE "db")
    /\ queued' = Set(queued, c, FALSE)
    /\ NoTrouble
    /\ UNCHANGED <<db, crs, cache, cacheFresh, found, kubectl>>

\* InitFailed: phase Failed, if that can be written, and another attempt.
EnsureDiskFails(c) ==
  LET cr == cache[c] IN
    /\ Fetched(c)
    /\ ~ cr.deleting /\ cr.finalizer /\ cr.phase # ""
    /\ disk[GetRepoPath(cr.key)] = NoDisk
    /\ Fault
    /\ \/ cacheFresh[c] /\ Store(c, [cr EXCEPT !.phase = "Failed"])
       \/ UNCHANGED <<crs, cacheFresh>>
    /\ UNCHANGED <<db, disk, cache, queued, rpc, copy, fresh, found, kubectl>>

\* InvalidOwnerID: phase Failed and no requeue.
RejectOwner(c) ==
  /\ rpc[c] = "badowner"
  /\ WriteIgnoringErrors(c, [copy[c] EXCEPT !.phase = "Failed", !.synced = FALSE])
  /\ Return(c, FALSE)
  /\ UNCHANGED <<db, disk, cache, kubectl>>

Lookup(c) ==
  /\ rpc[c] = "db"
  /\ \/ /\ ~ Taken(copy[c].key) \/ copy[c].userID # "owner"
        /\ Then(c, "insert")
        /\ UNCHANGED found
     \/ /\ copy[c].userID = "owner"
        /\ \E row \in RowsOf(copy[c].key) : found' = Set(found, c, row.id)
        /\ Then(c, "sync")
  /\ NoTrouble
  /\ UNCHANGED <<world, cache, cacheFresh, copy, fresh, kubectl>>

LookupFails(c) ==
  /\ rpc[c] = "db"
  /\ Fault
  /\ Return(c, TRUE)
  /\ UNCHANGED <<world, cache, cacheFresh, kubectl>>

\* createDBRecord; on a conflict it reads the row that beat it.
InsertRow(c) ==
  /\ rpc[c] = "insert"
  /\ copy[c].userID = "owner"
  /\ \/ /\ CreateRepo(copy[c].key, copy[c].priv)
        /\ found' = Set(found, c, nextId)
        /\ Then(c, "ready")
     \/ /\ Taken(copy[c].key)
        /\ Then(c, "reread")
        /\ UNCHANGED <<db, found>>
  /\ NoTrouble
  /\ UNCHANGED <<disk, crs, cache, cacheFresh, copy, fresh, kubectl>>

\* No such user (foreign key), another failure, or a lost reply.
InsertRowFails(c) ==
  /\ rpc[c] = "insert"
  /\ \/ copy[c].userID = "unknown" /\ NoTrouble /\ UNCHANGED db
     \/ Fault /\ UNCHANGED db
     \/ Break /\ copy[c].userID = "owner" /\ CreateRepo(copy[c].key, copy[c].priv)
  /\ Then(c, "createfailed")
  /\ UNCHANGED <<disk, crs, cache, cacheFresh, copy, fresh, found, kubectl>>

Reread(c) ==
  /\ rpc[c] = "reread"
  /\ \/ /\ \E row \in RowsOf(copy[c].key) : found' = Set(found, c, row.id)
        /\ Then(c, "ready")
        /\ NoTrouble
     \/ /\ (~ Taken(copy[c].key) /\ NoTrouble) \/ Fault
        /\ Then(c, "createfailed")
        /\ UNCHANGED found
  /\ UNCHANGED <<world, cache, cacheFresh, copy, fresh, kubectl>>

CreateFailed(c) ==
  /\ rpc[c] = "createfailed"
  /\ WriteIgnoringErrors(c, [copy[c] EXCEPT !.synced = FALSE])
  /\ Return(c, TRUE)
  /\ UNCHANGED <<db, disk, cache, kubectl>>

\* With a bug: IsPrivate is left nil, and COALESCE keeps the column.
SyncRowButVisibility(c) ==
  /\ rpc[c] = "sync"
  /\ Then(c, "ready")
  /\ NoTrouble
  /\ UNCHANGED <<world, cache, cacheFresh, copy, fresh, found, kubectl>>

\* syncDBRecord: a row that is gone, or a failed UPDATE, is only logged.
SyncRow(c) ==
  /\ rpc[c] = "sync"
  /\ \/ Live(found[c]) /\ UpdateRepo(found[c], copy[c].priv) /\ NoTrouble
     \/ ~ Live(found[c]) /\ UNCHANGED db /\ NoTrouble
     \/ Fault /\ UNCHANGED db
  /\ Then(c, "ready")
  /\ UNCHANGED <<disk, crs, cache, cacheFresh, copy, fresh, found, kubectl>>

\* Step 7.
MarkReady(c) ==
  /\ rpc[c] = "ready"
  /\ \/ /\ Write(c, [copy[c] EXCEPT !.dbID = found[c], !.synced = TRUE,
                                    !.phase = "Ready", !.observed = TRUE])
        /\ NoTrouble
        /\ Return(c, FALSE)
     \/ WriteRefused(c) /\ Return(c, TRUE)
  /\ UNCHANGED <<db, disk, cache, kubectl>>

\* With a bug: the finalizer is stripped first.
BeginFinalizeStrips(c) ==
  LET cr == cache[c] IN
    /\ Fetched(c)
    /\ cr.deleting
    /\ copy' = Set(copy, c, [cr EXCEPT !.phase = "Deleting"])
    /\ fresh' = Set(fresh, c, cacheFresh[c])
    /\ rpc' = Set(rpc, c, "strip")
    /\ queued' = Set(queued, c, FALSE)
    /\ NoTrouble
    /\ UNCHANGED <<world, cache, cacheFresh, found, kubectl>>

(* handleDeletion: phase Deleting if that can be written, then the         *)
(* directory and the row the status names, then the finalizer.             *)
BeginFinalize(c) ==
  LET cr == cache[c] IN
    /\ Fetched(c)
    /\ cr.deleting
    /\ copy' = Set(copy, c, [cr EXCEPT !.phase = "Deleting"])
    /\ fresh' = Set(fresh, c, cacheFresh[c])
    /\ \/ /\ cacheFresh[c]
          /\ Store(c, [cr EXCEPT !.phase = "Deleting"])
          /\ NoTrouble
       \/ /\ IF cacheFresh[c] THEN Fault ELSE NoTrouble
          /\ UNCHANGED <<crs, cacheFresh>>
    /\ rpc' = Set(rpc, c, "rmdisk")
    /\ queued' = Set(queued, c, FALSE)
    /\ UNCHANGED <<db, disk, cache, found, kubectl>>

FinalizeDisk(c) ==
  /\ rpc[c] = "rmdisk"
  /\ \/ copy[c].hasDisk /\ RemoveAll(GetRepoPath(copy[c].key)) /\ NoTrouble
     \/ copy[c].hasDisk /\ Fault /\ UNCHANGED disk
     \/ ~ copy[c].hasDisk /\ NoTrouble /\ UNCHANGED disk
  /\ Then(c, "rmrow")
  /\ UNCHANGED <<db, crs, cache, cacheFresh, copy, fresh, found, kubectl>>

\* With a bug: DELETE ... WHERE owner_id = ... AND name = ...
FinalizeRowByName(c) ==
  /\ rpc[c] = "rmrow"
  /\ \/ \E row \in RowsOf(copy[c].key) : DeleteRepo(row.id)
     \/ ~ Taken(copy[c].key) /\ UNCHANGED db
  /\ NoTrouble
  /\ Then(c, "strip")
  /\ UNCHANGED <<disk, crs, cache, cacheFresh, copy, fresh, found, kubectl>>

\* With a bug: ErrNotFound is an error like any other, to be retried.
FinalizeRowStrictly(c) ==
  /\ rpc[c] = "rmrow"
  /\ IF copy[c].dbID # NoId /\ ~ Live(copy[c].dbID)
     THEN Return(c, TRUE) /\ UNCHANGED db
     ELSE /\ IF copy[c].dbID = NoId THEN UNCHANGED db ELSE DeleteRepo(copy[c].dbID)
          /\ Then(c, "strip")
          /\ UNCHANGED <<copy, fresh, found>>
  /\ NoTrouble
  /\ UNCHANGED <<disk, crs, cache, cacheFresh, kubectl>>

FinalizeRow(c) ==
  /\ rpc[c] = "rmrow"
  /\ \/ copy[c].dbID # NoId /\ DeleteRepo(copy[c].dbID) /\ NoTrouble
     \/ copy[c].dbID # NoId /\ Fault /\ UNCHANGED db
     \/ copy[c].dbID = NoId /\ NoTrouble /\ UNCHANGED db
  /\ Then(c, "strip")
  /\ UNCHANGED <<disk, crs, cache, cacheFresh, copy, fresh, found, kubectl>>

\* The API server removes a deleted object with its last finalizer.
StripFinalizer(c) ==
  /\ rpc[c] = "strip"
  /\ \/ Write(c, NoCR) /\ NoTrouble /\ Return(c, FALSE)
     \/ WriteRefused(c) /\ Return(c, TRUE)
  /\ UNCHANGED <<db, disk, cache, kubectl>>
-----------------------------------------------------------------------------
(* The machinery around Reconcile. *)

\* A watch event brings the informer up to date and queues the object.
WatchEvent(c) ==
  /\ ~ cacheFresh[c]
  /\ cache' = Set(cache, c, crs[c])
  /\ cacheFresh' = Set(cacheFresh, c, TRUE)
  /\ queued' = Set(queued, c, TRUE)
  /\ NoTrouble
  /\ UNCHANGED <<world, rpc, copy, fresh, found, kubectl>>

\* The informer's periodic resync queues what it holds.
Resync(c) ==
  /\ cache[c] # NoCR /\ ~ queued[c]
  /\ queued' = Set(queued, c, TRUE)
  /\ NoTrouble
  /\ UNCHANGED <<world, cache, cacheFresh, rpc, copy, fresh, found, kubectl>>

\* The operator restarts, or another replica takes the lease: what was in
\* memory is lost, and every stored object is listed and queued.
Restart ==
  /\ Break
  /\ rpc' = [c \in CRNames |-> "idle"]
  /\ copy' = [c \in CRNames |-> NoCR]
  /\ fresh' = [c \in CRNames |-> FALSE]
  /\ found' = [c \in CRNames |-> NoId]
  /\ cache' = crs
  /\ cacheFresh' = [c \in CRNames |-> TRUE]
  /\ queued' = [c \in CRNames |-> crs[c] # NoCR]
  /\ UNCHANGED <<world, kubectl>>

\* Somebody else writes a Repository object: both copies of it go stale.
Notice ==
  /\ cacheFresh' = [c \in CRNames |-> cacheFresh[c] /\ crs'[c] = crs[c]]
  /\ fresh' = [c \in CRNames |-> fresh[c] /\ crs'[c] = crs[c]]
  /\ UNCHANGED <<cache, queued, rpc, copy, found>>

Kubectl(c, cr) ==
  /\ kubectl < MaxKubectl /\ kubectl' = kubectl + 1
  /\ crs' = Set(crs, c, cr)
  /\ Notice
  /\ NoTrouble
  /\ UNCHANGED <<db, disk>>

Apply(m) ==
  /\ crs[m.name] = NoCR
  /\ Kubectl(m.name, NewCR(m.key, m.priv, m.userID))

Edit(c) ==
  /\ crs[c] # NoCR
  /\ Kubectl(c, [crs[c] EXCEPT !.priv = ~ @, !.observed = FALSE])

Delete(c) ==
  /\ crs[c] # NoCR /\ ~ crs[c].deleting
  /\ Kubectl(c, IF crs[c].finalizer THEN [crs[c] EXCEPT !.deleting = TRUE] ELSE NoCR)

Reconcile(c) ==
  \/ ReconcileGone(c) \/ AddFinalizer(c) \/ SetPending(c)
  \/ EnsureDisk(c) \/ EnsureDiskFails(c) \/ RejectOwner(c)
  \/ Lookup(c) \/ LookupFails(c) \/ InsertRow(c) \/ InsertRowFails(c)
  \/ Reread(c) \/ CreateFailed(c) \/ SyncRow(c) \/ MarkReady(c)
  \/ BeginFinalize(c) \/ FinalizeDisk(c) \/ FinalizeRow(c) \/ StripFinalizer(c)

OpNext ==
  \/ \E c \in CRNames : Reconcile(c) \/ WatchEvent(c) \/ Resync(c) \/ Edit(c) \/ Delete(c)
  \/ \E m \in Manifests : Apply(m)
  \/ Restart

AloneInit == WorldInit /\ OpInit

OpSpec == AloneInit /\ [][OpNext]_opVars
-----------------------------------------------------------------------------
Wanted(c) == crs[c] # NoCR /\ crs[c].userID = "owner" /\ ~ crs[c].deleting

InSync(c) ==
  LET cr == crs[c] IN
    /\ disk[GetRepoPath(cr.key)] # NoDisk
    /\ \E row \in RowsOf(cr.key) : row.id = cr.dbID /\ row.priv = cr.priv

\* Nothing left to do for c, and nothing failed on the way.
AtRest(c) == cacheFresh[c] /\ ~ queued[c] /\ rpc[c] = "idle" /\ faults = 0

(* "Ready means the bare git repository is initialised and in sync with    *)
(* the DB" (repository_types.go:15), here of an object at rest, after any  *)
(* edits, deletions, restarts and lost replies of the database, and after  *)
(* losing the insert to a POST whose row is then used as it is.            *)
ReadyInSync ==
  \A c \in CRNames :
    AtRest(c) /\ Wanted(c) /\ crs[c].phase = "Ready" => InSync(c)

(* "handleDeletion removes all external resources and strips the           *)
(* finalizer" (repository_controller.go:165): when nothing fails, no row   *)
(* is left behind of a key that has no object any more.                    *)
DeletionLeavesNothing ==
  \A row \in rows : AtRest(CRName[row.key]) => crs[CRName[row.key]] # NoCR
=============================================================================
