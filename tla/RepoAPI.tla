------------------------------- MODULE RepoAPI -------------------------------
(***************************************************************************)
(* The API server's repository handlers (internal/api/handlers/repos.go)   *)
(* as net/http runs them: one goroutine per request, with no lock and no   *)
(* transaction, so the steps of requests interleave between any two calls  *)
(* that leave the process.                                                 *)
(***************************************************************************)
EXTENDS RepoWorld

CONSTANTS
  UseK8s,     \* FALSE when no cluster configuration is found (k8sClient = nil)
  Accepted,   \* the keys whose CR the CRD's validation accepts
  Traffic,    \* the requests clients may send
  NoReq

Bodies == {"private", "public", "omitted", "invalid"}
Request == [op : {"create", "update", "delete"}, key : Keys, caller : Users, body : Bodies]

ASSUME APIAssumption ==
  /\ UseK8s \in BOOLEAN
  /\ Accepted \subseteq Keys
  /\ Traffic \subseteq Request
  /\ NoReq \notin Request
  /\ NoRow \notin Row

VARIABLES
  pc,         \* where each request's goroutine is
  req,        \* what each request asks for
  got,        \* the row each handler loaded or inserted
  answer,     \* the status code sent, or 0
  evt,        \* the goroutine that records each request's activity event
  overlapped  \* history: keys on which two requests were once in flight at a time

local == <<pc, req, got, answer, evt, overlapped>>
vars == <<world, trouble, pc, req, got, answer, evt, overlapped>>
-----------------------------------------------------------------------------
InFlightPcs == {"create", "init", "rollback", "cr", "load", "update", "delete", "rm"}
Pcs == InFlightPcs \cup {"idle", "done", "dead"}
Codes == {0, 200, 201, 204, 400, 403, 404, 409, 500}

InFlight(r) == pc[r] \in InFlightPcs
Busy(k) == \E r \in Reqs : InFlight(r) /\ req[r].key = k

\* is_private of a decoded body: a JSON field that is left out decodes to false.
IsPrivate(body) == body = "private"

Goto(r, l) == pc' = [pc EXCEPT ![r] = l]
Reply(r, code) == /\ answer' = [answer EXCEPT ![r] = code]
                  /\ Goto(r, "done")

TypeOK ==
  /\ WorldTypeOK
  /\ pc \in [Reqs -> Pcs]
  /\ req \in [Reqs -> Request \cup {NoReq}]
  /\ got \in [Reqs -> Row \cup {NoRow}]
  /\ answer \in [Reqs -> Codes]
  /\ evt \in [Reqs -> {"none", "spawned", "stored", "dropped"}]
  /\ overlapped \subseteq Keys

Init ==
  /\ WorldInit
  /\ pc = [r \in Reqs |-> "idle"]
  /\ req = [r \in Reqs |-> NoReq]
  /\ got = [r \in Reqs |-> NoRow]
  /\ answer = [r \in Reqs |-> 0]
  /\ evt = [r \in Reqs |-> "none"]
  /\ overlapped = {}
-----------------------------------------------------------------------------
(* A request reaches its handler.  RequireAuth has put a user into the     *)
(* context; POST takes its owner from there, PATCH and DELETE from the URL. *)
Submit(r, q) ==
  /\ pc[r] = "idle"
  /\ q.op = "create" => Owner(q.key) = q.caller
  /\ req' = [req EXCEPT ![r] = q]
  /\ Goto(r, IF q.op = "create" THEN "create" ELSE "load")
  /\ overlapped' = IF Busy(q.key) THEN overlapped \cup {q.key} ELSE overlapped
  /\ NoTrouble
  /\ UNCHANGED <<world, got, answer, evt>>

(* ---- POST /api/v1/user/repos ---- *)

CreateInvalid(r) ==
  /\ pc[r] = "create"
  /\ req[r].body = "invalid"
  /\ Reply(r, 400)
  /\ NoTrouble
  /\ UNCHANGED <<world, req, got, evt, overlapped>>

CreateInsert(r) ==
  /\ pc[r] = "create"
  /\ req[r].body # "invalid"
  /\ CreateRepo(req[r].key, IsPrivate(req[r].body))
  /\ got' = [got EXCEPT ![r] = NewRow(req[r].key, IsPrivate(req[r].body))]
  /\ Goto(r, "init")
  /\ NoTrouble
  /\ UNCHANGED <<disk, crs, req, answer, evt, overlapped>>

CreateConflict(r) ==
  /\ pc[r] = "create"
  /\ req[r].body # "invalid"
  /\ Taken(req[r].key)
  /\ Reply(r, 409)
  /\ NoTrouble
  /\ UNCHANGED <<world, req, got, evt, overlapped>>

\* EnsureOwnerDir or the INSERT fails, or its reply is lost: no row in hand.
CreateInsertFails(r) ==
  /\ pc[r] = "create"
  /\ req[r].body # "invalid"
  /\ \/ Fault /\ UNCHANGED db
     \/ Break /\ CreateRepo(req[r].key, IsPrivate(req[r].body))
  /\ Reply(r, 500)
  /\ UNCHANGED <<disk, crs, req, got, evt, overlapped>>

CreateInit(r) ==
  /\ pc[r] = "init"
  /\ InitBareRepo(got[r].path, r)
  /\ Goto(r, "cr")
  /\ NoTrouble
  /\ UNCHANGED <<db, crs, req, got, answer, evt, overlapped>>

CreateInitFails(r) ==
  /\ pc[r] = "init"
  /\ Fault
  /\ Goto(r, "rollback")
  /\ UNCHANGED <<world, req, got, answer, evt, overlapped>>

\* With a bug: the row is not taken back.
CreateRollbackForgotten(r) ==
  /\ pc[r] = "rollback"
  /\ Reply(r, 500)
  /\ NoTrouble
  /\ UNCHANGED <<world, req, got, evt, overlapped>>

\* The compensating DeleteRepo; its own failure is only logged.
CreateRollback(r) ==
  /\ pc[r] = "rollback"
  /\ \/ NoTrouble /\ DeleteRepo(got[r].id)
     \/ Fault /\ UNCHANGED db
  /\ Reply(r, 500)
  /\ UNCHANGED <<disk, crs, req, got, evt, overlapped>>

\* With a bug: the CR is applied, not created, and replaces the spec of another.
CreateFinishApplies(r) ==
  /\ pc[r] = "cr"
  /\ LET k == req[r].key
         c == CRName[k]
     IN crs' = [crs EXCEPT ![c] = IF crs[c] = NoCR THEN NewCR(k, got[r].priv, "owner")
                                  ELSE [crs[c] EXCEPT !.key = k]]
  /\ evt' = [evt EXCEPT ![r] = "spawned"]
  /\ Reply(r, 201)
  /\ NoTrouble
  /\ UNCHANGED <<db, disk, req, got, overlapped>>

\* createRepositoryCR (no failure of it is reported), the event, the response.
CreateFinish(r) ==
  /\ pc[r] = "cr"
  /\ LET k == req[r].key
         stored == [crs EXCEPT ![CRName[k]] = NewCR(k, got[r].priv, "owner")]
     IN \/ /\ UseK8s /\ k \in Accepted /\ crs[CRName[k]] = NoCR
           /\ crs' = stored
           /\ NoTrouble
        \/ /\ ~ (UseK8s /\ k \in Accepted /\ crs[CRName[k]] = NoCR)
           /\ UNCHANGED crs
           /\ NoTrouble
        \/ /\ UseK8s
           /\ Fault
           /\ UNCHANGED crs
  /\ evt' = [evt EXCEPT ![r] = "spawned"]
  /\ Reply(r, 201)
  /\ UNCHANGED <<db, disk, req, got, overlapped>>

(* ---- PATCH and DELETE /api/v1/repos/{owner}/{repo} ---- *)

\* With a bug: every error of loadRepo is taken for ErrNotFound.
LoadMissingOrFailed(r) ==
  /\ pc[r] = "load"
  /\ \/ ~ Taken(req[r].key) /\ NoTrouble
     \/ Fault
  /\ Reply(r, 404)
  /\ UNCHANGED <<world, req, got, evt, overlapped>>

LoadMissing(r) ==
  /\ pc[r] = "load"
  /\ ~ Taken(req[r].key)
  /\ Reply(r, 404)
  /\ NoTrouble
  /\ UNCHANGED <<world, req, got, evt, overlapped>>

LoadFails(r) ==
  /\ pc[r] = "load"
  /\ Fault
  /\ Reply(r, 500)
  /\ UNCHANGED <<world, req, got, evt, overlapped>>

LoadForbidden(r) ==
  /\ pc[r] = "load"
  /\ Taken(req[r].key)
  /\ req[r].caller # Owner(req[r].key)
  /\ Reply(r, 403)
  /\ NoTrouble
  /\ UNCHANGED <<world, req, got, evt, overlapped>>

UpdateInvalid(r) ==
  /\ pc[r] = "load"
  /\ Taken(req[r].key)
  /\ req[r].caller = Owner(req[r].key)
  /\ req[r].op = "update" /\ req[r].body = "invalid"
  /\ Reply(r, 400)
  /\ NoTrouble
  /\ UNCHANGED <<world, req, got, evt, overlapped>>

Load(r) ==
  /\ pc[r] = "load"
  /\ req[r].caller = Owner(req[r].key)
  /\ req[r].op = "update" => req[r].body # "invalid"
  /\ \E row \in RowsOf(req[r].key) : got' = [got EXCEPT ![r] = row]
  /\ Goto(r, req[r].op)
  /\ NoTrouble
  /\ UNCHANGED <<world, req, answer, evt, overlapped>>

UpdateRow(r) ==
  /\ pc[r] = "update"
  /\ Live(got[r].id)
  /\ UpdateRepo(got[r].id, IsPrivate(req[r].body))
  /\ Reply(r, 200)
  /\ NoTrouble
  /\ UNCHANGED <<disk, crs, req, got, evt, overlapped>>

\* The row is gone by now, the UPDATE fails, or its reply is lost.
UpdateRowFails(r) ==
  /\ pc[r] = "update"
  /\ \/ ~ Live(got[r].id) /\ NoTrouble /\ UNCHANGED db
     \/ Fault /\ UNCHANGED db
     \/ Break /\ UpdateRepo(got[r].id, IsPrivate(req[r].body))
  /\ Reply(r, 500)
  /\ UNCHANGED <<disk, crs, req, got, evt, overlapped>>

\* With a bug: RowsAffected is not looked at.
DeleteRowUnchecked(r) ==
  /\ pc[r] = "delete"
  /\ DeleteRepo(got[r].id)
  /\ Goto(r, "rm")
  /\ NoTrouble
  /\ UNCHANGED <<disk, crs, req, got, answer, evt, overlapped>>

\* With a bug: DELETE ... WHERE owner_id = ... AND name = ...
DeleteRowByName(r) ==
  /\ pc[r] = "delete"
  /\ \E row \in RowsOf(req[r].key) : DeleteRepo(row.id)
  /\ Goto(r, "rm")
  /\ NoTrouble
  /\ UNCHANGED <<disk, crs, req, got, answer, evt, overlapped>>

DeleteRow(r) ==
  /\ pc[r] = "delete"
  /\ Live(got[r].id)
  /\ DeleteRepo(got[r].id)
  /\ Goto(r, "rm")
  /\ NoTrouble
  /\ UNCHANGED <<disk, crs, req, got, answer, evt, overlapped>>

\* The row is gone by now, the DELETE fails, or its reply is lost: 500 in each
\* case, and the directory stays.
DeleteRowFails(r) ==
  /\ pc[r] = "delete"
  /\ \/ ~ Live(got[r].id) /\ NoTrouble /\ UNCHANGED db
     \/ Fault /\ UNCHANGED db
     \/ Break /\ DeleteRepo(got[r].id)
  /\ Reply(r, 500)
  /\ UNCHANGED <<disk, crs, req, got, evt, overlapped>>

\* With a bug: the directory is left behind.
DeleteFinishKeepsDisk(r) ==
  /\ pc[r] = "rm"
  /\ evt' = [evt EXCEPT ![r] = "spawned"]
  /\ Reply(r, 204)
  /\ NoTrouble
  /\ UNCHANGED <<world, req, got, overlapped>>

\* Best-effort RemoveAll, the event, the response.
DeleteFinish(r) ==
  /\ pc[r] = "rm"
  /\ \/ NoTrouble /\ RemoveAll(got[r].path)
     \/ Fault /\ UNCHANGED disk
  /\ evt' = [evt EXCEPT ![r] = "spawned"]
  /\ Reply(r, 204)
  /\ UNCHANGED <<db, crs, req, got, overlapped>>

(* ---- the event goroutine and the process ---- *)

EventOf(r) ==
  IF req[r].op = "create"
  THEN [by |-> r, type |-> "repo.create", repo |-> got[r].id]
  ELSE [by |-> r, type |-> "repo.delete", repo |-> NoId]

\* RecordEvent; the foreign key refuses an event about a row that is gone.
RecordEvent(r) ==
  /\ evt[r] = "spawned"
  /\ EventOf(r).repo # NoId => Live(EventOf(r).repo)
  /\ feed' = feed \cup {EventOf(r)}
  /\ evt' = [evt EXCEPT ![r] = "stored"]
  /\ NoTrouble
  /\ UNCHANGED <<rows, nextId, disk, crs, pc, req, got, answer, overlapped>>

RecordEventFails(r) ==
  /\ evt[r] = "spawned"
  /\ \/ EventOf(r).repo # NoId /\ ~ Live(EventOf(r).repo) /\ NoTrouble
     \/ Fault
  /\ evt' = [evt EXCEPT ![r] = "dropped"]
  /\ UNCHANGED <<world, pc, req, got, answer, overlapped>>

\* The process dies: handlers stop where they are, unsent events are lost.
Crash ==
  /\ \E r \in Reqs : InFlight(r) \/ evt[r] = "spawned"
  /\ Break
  /\ pc' = [r \in Reqs |-> IF InFlight(r) THEN "dead" ELSE pc[r]]
  /\ evt' = [r \in Reqs |-> IF evt[r] = "spawned" THEN "dropped" ELSE evt[r]]
  /\ UNCHANGED <<world, req, got, answer, overlapped>>

Create(r) ==
  \/ CreateInvalid(r) \/ CreateInsert(r) \/ CreateConflict(r) \/ CreateInsertFails(r)
  \/ CreateInit(r) \/ CreateInitFails(r) \/ CreateRollback(r) \/ CreateFinish(r)

Change(r) ==
  \/ LoadMissing(r) \/ LoadFails(r) \/ LoadForbidden(r) \/ UpdateInvalid(r) \/ Load(r)
  \/ UpdateRow(r) \/ UpdateRowFails(r)
  \/ DeleteRow(r) \/ DeleteRowFails(r) \/ DeleteFinish(r)

Next ==
  \/ \E r \in Reqs, q \in Traffic : Submit(r, q)
  \/ \E r \in Reqs : Create(r) \/ Change(r) \/ RecordEvent(r) \/ RecordEventFails(r)
  \/ Crash

Spec == Init /\ [][Next]_vars
-----------------------------------------------------------------------------
(* What each request has come to, in the terms of the abstract registry.   *)
Outcome(r) ==
  LET tell(kind) == [kind |-> kind, id |-> 0]
      about(kind) == [kind |-> kind, id |-> got[r].id]
  IN CASE pc[r] = "dead" -> tell("dead")
       [] pc[r] \in {"init", "rollback", "cr"} -> about("tentative")
       [] pc[r] = "rm" -> about("removing")
       [] answer[r] = 201 -> about("created")
       [] answer[r] = 204 -> about("removed")
       [] answer[r] = 409 -> tell("conflict")
       [] answer[r] = 404 -> tell("missing")
       [] answer[r] = 200 -> tell("updated")
       [] answer[r] \in {400, 403, 500} -> tell("refused")
       [] OTHER -> tell("none")

Table == {[id |-> row.id, key |-> row.key] : row \in rows}
Outcomes == [r \in Reqs |-> Outcome(r)]

Registry == INSTANCE RepoRegistry WITH
  reg <- Table, fresh <- nextId, outcome <- Outcomes

(* The handlers implement the registry: every answer is explained by one   *)
(* change of the table at one instant between the request and the answer,  *)
(* although Create writes and may take back, and Delete reads, then acts.  *)
ImplementsRegistry == Registry!Spec

(* Two different answers never concern the same registration, in the terms *)
(* of the registry above.                                                  *)
AnswersConcernDistinctIds == Registry!EachIdOnce

(* A handler acts on the repository it loaded and on no other: a row goes  *)
(* away or changes only at a step of its owner's request that holds that   *)
(* very row, even when the name was freed and taken again in between; its  *)
(* name and its path never change (DELETE and UPDATE ... WHERE id).        *)
HolderActs(row) ==
  \E r \in Reqs :
    /\ InFlight(r) /\ got[r] # NoRow /\ got[r].id = row.id
    /\ req[r].caller = Owner(row.key)
    /\ \/ req[r].op # "update" /\ ~ (\E new \in rows' : new.id = row.id)
       \/ /\ req[r].op = "update"
          /\ \E new \in rows' : /\ new.id = row.id /\ new.key = row.key
                                /\ new.path = row.path
OnlyHoldersAct == \A row \in rows : row \in rows' \/ HolderActs(row)
ActsOnWhatItLoaded == [][OnlyHoldersAct]_vars

(* No single failed step leaves a repository without its directory: when   *)
(* the requests on a name never overlapped, nothing crashed and at most    *)
(* one step failed, a row at rest has a bare repository at its path        *)
(* (Create's rollback, and Delete's order: row first, then directory).     *)
RowHasDisk ==
  \A row \in rows :
    ~ Busy(row.key) /\ row.key \notin overlapped /\ breaks = 0 /\ faults <= 1
      => disk[row.path] # NoDisk

(* Without failures and overlaps the directory was initialised by the very *)
(* request that inserted the row, and a free name has no directory: a new  *)
(* repository never opens on the content of one deleted before it.         *)
FreshContent ==
  \A k \in Keys :
    ~ Busy(k) /\ k \notin overlapped /\ breaks = 0 /\ faults = 0
      => IF Taken(k)
         THEN \A row \in RowsOf(k) : \E r \in Reqs :
                disk[row.path] = r /\ req[r].op = "create" /\ got[r].id = row.id
         ELSE disk[GetRepoPath(k)] = NoDisk

(* The feed tells no lies whatever the asynchronous recorder's delay: a    *)
(* creation in it is of a repository that exists and was answered 201, a   *)
(* deletion in it was answered 204, and a request is in it at most once.   *)
FeedIsTruthful ==
  /\ \A e \in feed :
       IF e.type = "repo.create"
       THEN answer[e.by] = 201 /\ got[e.by].id = e.repo /\ Live(e.repo)
       ELSE answer[e.by] = 204 /\ ~ Live(got[e.by].id)
  /\ \A e, f \in feed : e.by = f.by => e = f

(* "Non-fatal - the repo already exists in the DB and on disk"             *)
(* (repos.go:111): with no failure at all, a row at rest has a directory.  *)
ExistsInDBAndOnDisk ==
  breaks = 0 /\ faults = 0 =>
    \A row \in rows : ~ Busy(row.key) => disk[row.path] # NoDisk
=============================================================================
