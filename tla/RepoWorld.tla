------------------------------ MODULE RepoWorld ------------------------------
(***************************************************************************)
(* The state that gforce's two processes, the API server and the operator, *)
(* share: the repositories and activity_events tables of PostgreSQL, the   *)
(* volume with the bare repositories, and the Repository objects in the    *)
(* Kubernetes API server.  The operators below are what one statement or   *)
(* one system call does to it; RepoAPI and RepoController decide when.     *)
(*                                                                         *)
(* Three things go wrong with a step.  It fails and changes nothing (the   *)
(* database, the volume or the Kubernetes API refuses it, or the client    *)
(* went away and the request's context is cancelled): faults counts these. *)
(* The database commits but the reply is lost, or a process crashes:       *)
(* breaks counts these two.                                                *)
(***************************************************************************)
EXTENDS Naturals, FiniteSets

CONSTANTS
  Users,      \* usernames
  Names,      \* repository names
  Keys,       \* the (owner, repository name) pairs in play
  Reqs,       \* HTTP requests; each is sent at most once
  CRNames,    \* object names in the Kubernetes namespace
  CRName,     \* the CR name the API derives from a key; need not be injective
  MaxFaults,  \* bound on faults
  MaxBreaks,  \* bound on breaks
  NoRow, NoCR, NoDisk, Operator

ASSUME WorldAssumption ==
  /\ Keys \subseteq Users \X Names
  /\ CRName \in [Keys -> CRNames]
  /\ MaxFaults \in Nat
  /\ MaxBreaks \in Nat
  /\ NoDisk \notin Reqs \cup {Operator}

VARIABLES
  rows,       \* table repositories
  nextId,     \* source of fresh ids (gen_random_uuid never repeats one)
  feed,       \* table activity_events
  disk,       \* per path, who initialised the bare repository there, or NoDisk
  crs,        \* per CR name, the Repository object stored, or NoCR
  faults, breaks

db == <<rows, nextId, feed>>
world == <<rows, nextId, feed, disk, crs>>
trouble == <<faults, breaks>>
-----------------------------------------------------------------------------
NoId == 0
Ids == Nat \ {NoId}

Owner(k) == k[1]

\* gitserver.GetRepoPath: <root>/<owner>/<name>.git under one root for both
\* processes.  A slug holds neither a slash nor a dot, so paths do not clash.
GetRepoPath(k) == [dir |-> k[1], base |-> <<k[2], ".git">>]
Paths == {GetRepoPath(k) : k \in Keys}

\* One row; priv stands for the columns a client may change.
Row == [id : Ids, key : Keys, path : Paths, priv : BOOLEAN]

\* One activity event, by the request that reported it; repo is NoId for NULL.
Event == [by : Reqs, type : {"repo.create", "repo.delete"}, repo : Nat]

(***************************************************************************)
(* A Repository object.  hasDisk and dbID are status.diskPath and          *)
(* status.databaseID, synced the DatabaseSynced condition, and observed    *)
(* says whether status.observedGeneration equals metadata.generation.      *)
(* userID says what spec.ownerRef.userID is: the key's owner, a UUID no    *)
(* user has, or no UUID at all; ownerRef.username is always the owner's.   *)
(***************************************************************************)
OwnerRefs == {"owner", "unknown", "unparsable"}
Phases == {"", "Pending", "Ready", "Failed", "Deleting"}
CR == [key : Keys, priv : BOOLEAN, userID : OwnerRefs, finalizer : BOOLEAN,
       deleting : BOOLEAN, phase : Phases, hasDisk : BOOLEAN, dbID : Nat,
       synced : BOOLEAN, observed : BOOLEAN]

NewCR(k, p, ref) ==
  [key |-> k, priv |-> p, userID |-> ref, finalizer |-> FALSE,
   deleting |-> FALSE, phase |-> "", hasDisk |-> FALSE, dbID |-> NoId,
   synced |-> FALSE, observed |-> FALSE]
-----------------------------------------------------------------------------
(* Queries. *)
Live(i) == \E row \in rows : row.id = i
RowsOf(k) == {row \in rows : row.key = k}
Taken(k) == RowsOf(k) # {}

(* Statements.  Each commits on its own: no handler opens a transaction. *)
\* With a bug: INSERT without RETURNING leaves the id zero.
NewRowUnread(k, p) == [id |-> NoId, key |-> k, path |-> GetRepoPath(k), priv |-> p]

NewRow(k, p) == [id |-> nextId, key |-> k, path |-> GetRepoPath(k), priv |-> p]

\* INSERT INTO repositories, with the UNIQUE (owner_id, name) constraint.
CreateRepo(k, p) ==
  /\ ~ Taken(k)
  /\ rows' = rows \cup {NewRow(k, p)}
  /\ nextId' = nextId + 1
  /\ UNCHANGED feed

\* UPDATE repositories ... WHERE id = i; the name is never among the parameters.
UpdateRepo(i, p) ==
  /\ rows' = {IF row.id = i THEN [row EXCEPT !.priv = p] ELSE row : row \in rows}
  /\ UNCHANGED <<nextId, feed>>

\* With a bug: activity_events.repo_id does not cascade.
DeleteRepoNoCascade(i) ==
  /\ rows' = {row \in rows : row.id # i}
  /\ UNCHANGED <<nextId, feed>>

\* DELETE FROM repositories WHERE id = i; activity_events.repo_id cascades.
DeleteRepo(i) ==
  /\ rows' = {row \in rows : row.id # i}
  /\ feed' = {e \in feed : e.repo # i}
  /\ UNCHANGED nextId

\* InitBareRepo: makes the bare repository, and leaves one that is there alone.
InitBareRepo(p, who) ==
  disk' = IF disk[p] = NoDisk THEN [disk EXCEPT ![p] = who] ELSE disk

RemoveAll(p) == disk' = [disk EXCEPT ![p] = NoDisk]

Fault == faults < MaxFaults /\ faults' = faults + 1 /\ UNCHANGED breaks
Break == breaks < MaxBreaks /\ breaks' = breaks + 1 /\ UNCHANGED faults
NoTrouble == UNCHANGED trouble

WorldTypeOK ==
  /\ rows \subseteq Row
  /\ nextId \in Ids
  /\ feed \subseteq Event
  /\ disk \in [Paths -> Reqs \cup {Operator, NoDisk}]
  /\ crs \in [CRNames -> CR \cup {NoCR}]
  /\ faults \in 0..MaxFaults
  /\ breaks \in 0..MaxBreaks

WorldInit ==
  /\ rows = {}
  /\ nextId = 1
  /\ feed = {}
  /\ disk = [p \in Paths |-> NoDisk]
  /\ crs = [c \in CRNames |-> NoCR]
  /\ faults = 0
  /\ breaks = 0
=============================================================================
