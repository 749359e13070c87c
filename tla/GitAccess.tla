------------------------------- MODULE GitAccess -------------------------------
(***************************************************************************)
(* Git sessions of the API server over one repository: over HTTP with a    *)
(* personal access token (internal/gitserver/handler.go) and over SSH with *)
(* a key (internal/sshserver), while its owner changes the repository and  *)
(* users come by and lose their credentials.                               *)
(*                                                                         *)
(* A statement takes a connection of the pool for as long as it runs, and  *)
(* is one step here, which needs a free one.  ValidatePAT alone (postgres/ *)
(* pats.go) asks for a second connection while its rows keep the first.    *)
(* The git process is external: it runs, and ends well or not.             *)
(***************************************************************************)
EXTENDS Naturals, FiniteSets

CONSTANTS
  HTTP, SSH,            \* sessions; those over SSH are connections
  PATs, Keys,           \* tokens, and key fingerprints
  Users, Owner, Nobody,
  MaxConns,             \* MaxOpenConns of the pool
  MaxSSH,               \* defaultMaxConns of sshserver
  MaxRequests,          \* bound on git requests
  MaxChanges,           \* bound on requests that change repository or credentials
  MaxTroubles           \* bound on statements that fail and on crashes

ASSUME GitAssumption ==
  /\ HTTP \cap SSH = {} /\ PATs \cap Keys = {}
  /\ Owner \in Users /\ Nobody \notin Users /\ "gone" \notin Users \cup {Nobody}
  /\ (Users \cup {Nobody}) \cap (PATs \cup Keys) = {}

Sessions == HTTP \cup SSH
Creds == PATs \cup Keys

\* info/refs for either service, upload-pack and receive-pack.
Ops == {"refs", "pushrefs", "fetch", "push"}
Writes(op) == op \in {"pushrefs", "push"}
HasBody(op) == op \in {"fetch", "push"}

NoRow == [id |-> 0, priv |-> FALSE]
Row == [id : Nat, priv : BOOLEAN]
Push == [actor : Users, repo : Nat, n : Nat]

VARIABLES
  row,          \* the repository's row, or NoRow
  nextId,
  creds,        \* whose each token and key is; "gone" for a token that was
  sess,         \* the goroutine of each session
  touching,     \* goroutines about to write last_used_at
  recording,    \* goroutines about to record a push
  feed,         \* the git.push rows of activity_events
  pushed,       \* history: the pushes that succeeded
  requests, changes, troubles

world == <<row, nextId, creds, feed, changes>>
work == <<touching, recording, pushed>>
vars == <<world, work, sess, requests, troubles>>

\* A fact that held at some time of a request: the row, or the holder of a credential.
HeldBy(c, u) == [cred |-> c, user |-> u]
Facts == Row \cup [cred : Creds, user : Users \cup {Nobody, "gone"}]

\* What the goroutine has in hand; seen is history.
Session == [pc : {"idle", "open", "resolve", "auth", "user", "check", "git"},
            op : Ops,
            cred : Creds \cup Users \cup {Nobody},  \* a user: a session token (JWT) of his
            user : Users \cup {Nobody}, repo : Row, seen : SUBSET Facts]
Idle == [pc |-> "idle", op |-> "refs", cred |-> Nobody, user |-> Nobody, repo |-> NoRow,
         seen |-> {}]

TypeOK ==
  /\ row \in Row /\ nextId \in Nat
  /\ creds \in [Creds -> Users \cup {Nobody, "gone"}] /\ \A k \in Keys : creds[k] # "gone"
  /\ sess \in [Sessions -> Session]
  /\ touching \in Nat
  /\ recording \subseteq Push /\ feed \subseteq Push /\ pushed \subseteq Push
  /\ {requests, changes, troubles} \subseteq Nat

Init ==
  /\ row \in {[id |-> 1, priv |-> p] : p \in BOOLEAN} /\ nextId = 2
  /\ creds \in [Creds -> Users] \cup [Creds -> {Nobody}]
  /\ sess = [s \in Sessions |-> Idle]
  /\ touching = 0
  /\ recording = {} /\ feed = {} /\ pushed = {}
  /\ requests = 0 /\ changes = 0 /\ troubles = 0
-----------------------------------------------------------------------------
(* The pool.  A session at "user" has the rows of ValidatePAT open.        *)

\* With a bug: the SSH server keeps the rows of one query open for the next, too.
HoldingToo == {s \in Sessions : sess[s].pc \in {"user", "check"}}

Holding == {s \in HTTP : sess[s].pc = "user"}
PoolFree == Cardinality(Holding) < MaxConns

Fault == troubles < MaxTroubles /\ troubles' = troubles + 1
NoTrouble == UNCHANGED troubles
-----------------------------------------------------------------------------
(* Steps of a session. *)

Observed(c, r, held) == {r} \cup {HeldBy(d, held[d]) : d \in {c} \cap Creds}
Witness(c) == Observed(c, row, creds)

Become(s, r) == sess' = [sess EXCEPT ![s] = r]
At(s, p) == [sess[s] EXCEPT !.pc = p]

\* An answer over HTTP ends the request; a session over SSH ends and leaves the connection.
After(s) == IF s \in HTTP THEN Idle
            ELSE [sess[s] EXCEPT !.pc = "open", !.op = "refs", !.repo = NoRow]

Request(s, op, c) ==
  /\ s \in HTTP /\ sess[s].pc = "idle"
  /\ requests < MaxRequests /\ requests' = requests + 1
  /\ Become(s, [Idle EXCEPT !.pc = "resolve", !.op = op, !.cred = c, !.seen = Witness(c)])
  /\ NoTrouble /\ UNCHANGED <<world, work>>

SlotFree == Cardinality({t \in SSH : sess[t].pc # "idle"}) < MaxSSH

\* publicKeyCallback, on a connection that gets a slot; the others are dropped.
Connect(s, k) ==
  /\ s \in SSH /\ sess[s].pc = "idle"
  /\ SlotFree /\ PoolFree
  /\ creds[k] \in Users
  /\ Become(s, [Idle EXCEPT !.pc = "open", !.cred = k, !.user = creds[k],
                           !.seen = Witness(k)])
  /\ NoTrouble /\ UNCHANGED <<world, work, requests>>

\* With a bug: what the connection saw before is not looked up again.
ExecRemembers(s, op) ==
  /\ s \in SSH /\ sess[s].pc = "open" /\ HasBody(op)
  /\ requests < MaxRequests /\ requests' = requests + 1
  /\ Become(s, [sess[s] EXCEPT !.pc = "check", !.op = op, !.repo = [id |-> 1, priv |-> FALSE],
                              !.seen = (@ \ Row) \cup Witness(sess[s].cred)])
  /\ NoTrouble /\ UNCHANGED <<world, work>>

\* A session channel with an exec request; a connection may have many.
Exec(s, op) ==
  /\ s \in SSH /\ sess[s].pc = "open" /\ HasBody(op)
  /\ requests < MaxRequests /\ requests' = requests + 1
  /\ Become(s, [sess[s] EXCEPT !.pc = "resolve", !.op = op,
                              !.seen = (@ \ Row) \cup Witness(sess[s].cred)])
  /\ NoTrouble /\ UNCHANGED <<world, work>>

Disconnect(s) ==
  /\ sess[s].pc = "open"
  /\ Become(s, Idle)
  /\ NoTrouble /\ UNCHANGED <<world, work, requests>>
-----------------------------------------------------------------------------
(* The handlers.  What they read stays in sess[s] until it is used.        *)

\* authorizeRepo, isAuthorized.
Allowed(u, r, op) == Writes(op) \/ r.priv => u = Owner

Decide(s, u) ==
  Become(s, IF Allowed(u, sess[s].repo, sess[s].op)
            THEN [sess[s] EXCEPT !.pc = "git", !.user = u] ELSE After(s))

Local == UNCHANGED <<world, work, requests>>

ResolveRepo(s) ==
  /\ sess[s].pc = "resolve" /\ PoolFree
  /\ row # NoRow
  /\ Become(s, [sess[s] EXCEPT !.pc = IF s \in HTTP THEN "auth" ELSE "check", !.repo = row])
  /\ NoTrouble /\ Local

ResolveRepoFails(s) ==
  /\ sess[s].pc = "resolve" /\ PoolFree
  /\ \/ row = NoRow /\ NoTrouble
     \/ Fault
  /\ Become(s, After(s))
  /\ Local

Anonymous(s) ==
  /\ sess[s].pc = "auth" /\ sess[s].cred = Nobody
  /\ Decide(s, Nobody)
  /\ NoTrouble /\ Local

\* validateToken: the token is checked by itself and its user loaded.
Bearer(s) ==
  /\ sess[s].pc = "auth" /\ sess[s].cred \in Users /\ PoolFree
  /\ Decide(s, sess[s].cred)
  /\ NoTrouble /\ Local

\* The token is not valid, as any is one day, or its user cannot be loaded.
BearerFails(s) ==
  /\ sess[s].pc = "auth" /\ sess[s].cred \in Users
  /\ Become(s, After(s))
  /\ NoTrouble /\ Local

\* ValidatePAT as far as the match; the rows stay open.
ValidatePAT(s) ==
  /\ sess[s].pc = "auth" /\ sess[s].cred \in PATs /\ PoolFree
  /\ creds[sess[s].cred] \in Users
  /\ Become(s, [sess[s] EXCEPT !.pc = "user", !.user = creds[sess[s].cred]])
  /\ touching' = touching + 1
  /\ NoTrouble /\ UNCHANGED <<world, recording, pushed, requests>>

ValidatePATFails(s) ==
  /\ sess[s].pc = "auth" /\ sess[s].cred \in PATs /\ PoolFree
  /\ \/ creds[sess[s].cred] \notin Users /\ NoTrouble
     \/ Fault
  /\ Become(s, After(s))
  /\ Local

\* GetUserByID on a second connection; both are free again.
GetUserByID(s) ==
  /\ sess[s].pc = "user" /\ PoolFree
  /\ Decide(s, sess[s].user)
  /\ NoTrouble /\ Local

\* Or the user is not the one that the request names.
GetUserByIDFails(s) ==
  /\ sess[s].pc = "user" /\ PoolFree
  /\ NoTrouble \/ Fault
  /\ Become(s, After(s))
  /\ Local

\* isAuthorized of the SSH server, which looks the user up again.
IsAuthorized(s) ==
  /\ sess[s].pc = "check" /\ PoolFree
  /\ Decide(s, sess[s].user)
  /\ NoTrouble /\ Local

IsAuthorizedFails(s) ==
  /\ sess[s].pc = "check" /\ PoolFree /\ Fault
  /\ Become(s, After(s))
  /\ Local

\* The request's context is cancelled when its client is gone, which net/http
\* notices once the body is read; the SSH server waits in any case.
ClientGone(s) ==
  /\ s \in HTTP /\ sess[s].pc \in {"resolve", "auth", "user"} /\ ~ HasBody(sess[s].op)
  /\ Become(s, Idle)
  /\ NoTrouble /\ Local

Pushes(s) ==
  IF sess[s].op = "push" /\ sess[s].user # Nobody
  THEN {[actor |-> sess[s].user, repo |-> sess[s].repo.id, n |-> Cardinality(pushed)]}
  ELSE {}

\* With a bug: one of the two servers does not record pushes.
GitSucceedsUnrecorded(s) ==
  /\ sess[s].pc = "git"
  /\ pushed' = pushed \cup Pushes(s)
  /\ recording' = recording \cup {e \in Pushes(s) : s \in HTTP}
  /\ Become(s, After(s))
  /\ NoTrouble /\ UNCHANGED <<world, touching, requests>>

GitSucceeds(s) ==
  /\ sess[s].pc = "git"
  /\ pushed' = pushed \cup Pushes(s)
  /\ recording' = recording \cup Pushes(s)
  /\ Become(s, After(s))
  /\ NoTrouble /\ UNCHANGED <<world, touching, requests>>

\* Refused by git, or out of its five minutes.
GitFails(s) ==
  /\ sess[s].pc = "git"
  /\ Become(s, After(s))
  /\ NoTrouble /\ Local

Handle(s) ==
  \/ ResolveRepo(s) \/ ResolveRepoFails(s)
  \/ Anonymous(s) \/ Bearer(s) \/ BearerFails(s)
  \/ ValidatePAT(s) \/ ValidatePATFails(s)
  \/ GetUserByID(s) \/ GetUserByIDFails(s)
  \/ IsAuthorized(s) \/ IsAuthorizedFails(s)
  \/ GitSucceeds(s) \/ GitFails(s)
-----------------------------------------------------------------------------
(* Goroutines that outlive their request, with a context of their own.     *)

Quiet == UNCHANGED <<sess, requests>>

UpdateLastUsed ==
  /\ touching > 0 /\ PoolFree
  /\ touching' = touching - 1
  /\ NoTrouble /\ Quiet /\ UNCHANGED <<world, recording, pushed>>

\* The foreign key refuses an event about a repository that is gone.
RecordPush(e) ==
  /\ e \in recording /\ PoolFree
  /\ recording' = recording \ {e}
  /\ feed' = feed \cup {f \in {e} : row # NoRow /\ f.repo = row.id}
  /\ NoTrouble /\ Quiet /\ UNCHANGED <<row, nextId, creds, changes, touching, pushed>>

RecordPushFails(e) ==
  /\ e \in recording /\ PoolFree /\ Fault
  /\ recording' = recording \ {e}
  /\ Quiet /\ UNCHANGED <<world, touching, pushed>>
-----------------------------------------------------------------------------
(* Requests that change the repository or the credentials, one statement   *)
(* each (RepoAPI has the handlers of the repository in full).  Sessions at *)
(* work witness the change.                                                *)

Change ==
  /\ PoolFree /\ changes < MaxChanges /\ changes' = changes + 1
  /\ sess' = [s \in Sessions |->
                IF sess[s].pc = "idle" THEN Idle
                ELSE [sess[s] EXCEPT !.seen = @ \cup Observed(sess[s].cred, row', creds')]]
  /\ NoTrouble /\ UNCHANGED <<requests, work>>

CreateRepo(p) ==
  /\ row = NoRow
  /\ row' = [id |-> nextId, priv |-> p] /\ nextId' = nextId + 1
  /\ UNCHANGED <<creds, feed>> /\ Change

UpdateRepo(p) ==
  /\ row # NoRow /\ row' = [row EXCEPT !.priv = p]
  /\ UNCHANGED <<nextId, creds, feed>> /\ Change

DeleteRepo ==
  /\ row # NoRow /\ row' = NoRow
  /\ feed' = {e \in feed : e.repo # row.id}
  /\ UNCHANGED <<nextId, creds>> /\ Change

SetCred(c, u) == creds' = [creds EXCEPT ![c] = u] /\ UNCHANGED <<row, nextId, feed>> /\ Change

CreatePAT(u, c) == c \in PATs /\ creds[c] = Nobody /\ SetCred(c, u)
RevokePAT(u, c) == c \in PATs /\ creds[c] = u /\ SetCred(c, "gone")
PATExpires(c) == c \in PATs /\ creds[c] \in Users /\ SetCred(c, "gone")
AddSSHKey(u, k) == k \in Keys /\ creds[k] = Nobody /\ SetCred(k, u)

\* With a bug: the key is marked as deleted and still takes its fingerprint.
DeleteSSHKeyMarks(u, k) == k \in Keys /\ creds[k] = u /\ SetCred(k, "gone")

DeleteSSHKey(u, k) == k \in Keys /\ creds[k] = u /\ SetCred(k, Nobody)

\* The process dies, with its goroutines and their connections.
Crash ==
  /\ Fault
  /\ sess' = [s \in Sessions |-> Idle]
  /\ touching' = 0 /\ recording' = {}
  /\ UNCHANGED <<world, pushed, requests>>

Clients ==
  \/ \E s \in HTTP, op \in Ops, c \in PATs \cup Users \cup {Nobody} : Request(s, op, c)
  \/ \E s \in SSH : (\E k \in Keys : Connect(s, k)) \/ (\E op \in Ops : Exec(s, op))
  \/ \E s \in Sessions : Disconnect(s) \/ ClientGone(s)

Changes ==
  \/ \E p \in BOOLEAN : CreateRepo(p) \/ UpdateRepo(p)
  \/ DeleteRepo
  \/ \E u \in Users, c \in Creds :
       CreatePAT(u, c) \/ RevokePAT(u, c) \/ AddSSHKey(u, c) \/ DeleteSSHKey(u, c)
  \/ \E c \in Creds : PATExpires(c)

Background ==
  UpdateLastUsed \/ \E e \in recording : RecordPush(e) \/ RecordPushFails(e)

Next == (\E s \in Sessions : Handle(s)) \/ Clients \/ Changes \/ Background \/ Crash

Spec == Init /\ [][Next]_vars

\* A goroutine runs, its statements return once they have a connection, and a
\* git process ends within gitProcessTimeout.  Nothing is assumed of clients.
FairSpec == Spec /\ (\A s \in Sessions : WF_vars(Handle(s))) /\ WF_vars(Background)
-----------------------------------------------------------------------------
(* handler.go:87, session.go:46: a git process runs on facts that each     *)
(* held at some time of the request, though not all at one time: a row of  *)
(* the repository that let this user in, and a credential of his.          *)
GitRunsOnTruth ==
  \A s \in Sessions : sess[s].pc = "git" =>
    LET r == sess[s].repo
        u == sess[s].user
    IN /\ r \in sess[s].seen /\ r # NoRow
       /\ \/ u = sess[s].cred
          \/ HeldBy(sess[s].cred, u) \in sess[s].seen
       /\ r.priv \/ Writes(sess[s].op) => u = Owner

(* handler.go:207, session.go:135: the feed tells of pushes that happened, *)
(* of this repository and not of one that had its name before, and forgets *)
(* none unless a statement failed or the process died.                     *)
FeedTellsOfPushes ==
  /\ \A e \in feed : e \in pushed /\ row # NoRow /\ e.repo = row.id /\ e.actor = Owner
  /\ troubles = 0 =>
       \A e \in pushed : row # NoRow /\ e.repo = row.id => e \in feed \cup recording

(* With more connections than sessions over HTTP no goroutine waits for    *)
(* the pool for ever: every request is answered, and every push recorded,  *)
(* once clients stop asking.                                               *)
RequestsEnd ==
  <>[](/\ \A s \in Sessions : sess[s].pc \in {"idle", "open"}
       /\ recording = {} /\ touching = 0)

(* "On success it fires an async last_used_at update and returns the       *)
(* owner" (store.go:104): a validation that has matched its token ends.    *)
ValidationsReturn ==
  \A s \in HTTP : (sess[s].pc = "user") ~> (sess[s].pc # "user")
=============================================================================
