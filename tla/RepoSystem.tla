------------------------------ MODULE RepoSystem ------------------------------
(***************************************************************************)
(* The API server and the operator over one database, one volume and one   *)
(* Kubernetes API server.  Nothing coordinates the two: the API creates a  *)
(* CR after the fact and never deletes one; the operator is driven by CRs. *)
(***************************************************************************)
EXTENDS RepoAPI, RepoController

sysVars == <<world, trouble, local, opLocal>>

SystemInit == Init /\ OpInit

APIStep == Next /\ Notice /\ UNCHANGED kubectl
OpStep == OpNext /\ UNCHANGED local

SystemNext == APIStep \/ OpStep

SystemSpec == SystemInit /\ [][SystemNext]_sysVars

(***************************************************************************)
(* Handlers run to their end; workers run Reconcile on what is queued,     *)
(* after a failure too; watch events arrive; the resync timer goes off.    *)
(* Nothing says that a request or a kubectl command ever comes.            *)
(***************************************************************************)
Fairness ==
  /\ \A r \in Reqs : WF_sysVars((Create(r) \/ Change(r)) /\ Notice /\ UNCHANGED kubectl)
  /\ \A c \in CRNames :
       /\ WF_sysVars(Reconcile(c) /\ UNCHANGED local)
       /\ WF_sysVars(WatchEvent(c) /\ UNCHANGED local)
       /\ WF_sysVars(Resync(c) /\ UNCHANGED local)

FairSpec == SystemSpec /\ Fairness
-----------------------------------------------------------------------------
SystemTypeOK == TypeOK /\ OpTypeOK

HandlerHolds(row) ==
  \E r \in Reqs : InFlight(r) /\ got[r] # NoRow /\ got[r].id = row.id
ReconcileHolds(row) ==
  \E c \in CRNames :
    /\ rpc[c] \in {"rmrow", "sync"}
    /\ copy[c].key = row.key
    /\ rpc[c] = "rmrow" => copy[c].deleting /\ copy[c].dbID = row.id
    /\ rpc[c] = "sync" => found[c] = row.id /\ ~ copy[c].deleting
SomebodyHolds ==
  \A row \in rows : row \in rows' \/ HandlerHolds(row) \/ ReconcileHolds(row)

(* Whoever removes or changes a row holds it: a handler as in RepoAPI, or  *)
(* a Reconcile of a CR for the same key, which deletes only the id that    *)
(* this CR's status recorded, and only when the CR was deleted.  A stale   *)
(* status.databaseID, an informer that lags or a CR name two repositories  *)
(* share never costs another repository its row.                           *)
ActsOnWhatItHolds == [][SomebodyHolds]_sysVars

(* status.databaseID, in the stored object and in every copy of it, is an  *)
(* id that was given out for the CR's own key.                             *)
DatabaseIDIsOwn ==
  \A c \in CRNames, row \in rows :
    \A cr \in {crs[c], cache[c], copy[c]} \ {NoCR} :
      cr.dbID = row.id => cr.key = row.key

(* The finalizer outlives the row: without failures the object is removed  *)
(* only after the row its status names is gone, whatever restarts, stale   *)
(* reads and conflicting writes its finalization went through.             *)
RowGoesFirst ==
  \A c \in CRNames :
    /\ crs[c] # NoCR /\ crs'[c] = NoCR
    /\ crs[c].finalizer /\ faults = 0
    => ~ Live(crs[c].dbID)
FinalizerGuardsRow == [][RowGoesFirst]_sysVars

(* A deleted CR goes away: the finalizer never blocks it for good.         *)
DeletionCompletes ==
  \A c \in CRNames : (crs[c] # NoCR /\ crs[c].deleting) ~> crs[c] = NoCR

(* The CR of an existing user becomes Ready and stays so, with its row and *)
(* its directory: the requeues and the periodic resync repair in the end   *)
(* whatever finitely many failures, restarts, edits and API requests did,  *)
(* also what no watch event reports, such as a repository deleted, or made *)
(* public, through the API.                                                *)
Converges ==
  <>[](\A c \in CRNames : Wanted(c) =>
         crs[c].phase = "Ready" /\ crs[c].observed /\ InSync(c))

(* The same comment as ReadyInSync, of the whole system: no request in     *)
(* flight, no crash, and still a Ready object may be out of step, because  *)
(* the API never touches the object of what it changes.                    *)
ReadyMeansInSync ==
  breaks = 0 /\ (\A r \in Reqs : ~ InFlight(r)) => ReadyInSync

(* The same in a system whose API only creates repositories: after any     *)
(* edits, deletions, restarts and lost replies, and after losing the       *)
(* insert to a POST whose row is then used as it is, an object at rest     *)
(* that says Ready is in step with its row and its directory.              *)
ReadyWithoutPatches ==
  (\A r \in Reqs : req[r] = NoReq \/ req[r].op = "create") => ReadyInSync
=============================================================================
