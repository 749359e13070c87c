# gforce: a TLA+ model of its repositories, git access, rate limit, migrations and web UI

gforce is a Git server in Go for Kubernetes. Two programs make it up: the **API
server** (`cmd/gforce`: JSON API, git over HTTP, git over SSH) and the
**operator** (`cmd/operator`: a controller-runtime manager). They share a
PostgreSQL database, a volume with bare git repositories and the objects of the
Kubernetes API server, and nothing else: no lock, no queue and no transaction
spans two of the three, and each program changes all three of them in small
steps that fail one by one. What may be observed in between, and what is left
behind when one of the steps fails, is what these modules are about.

The third program is the **web UI** (`ui/`: React, react-router, zustand,
react-query), which runs in a browser tab over the JSON API. It is concurrent in
its own way: handlers await calls while the user goes on, several pages share one
query cache and one session, and replies find whatever has happened meanwhile.

Contents: 1 inventory, 2 modules and the code they stand for, 3 runs, bounds and
fairness, 4 what the runs show, 5 proofs, 6 what is not modelled, 7 plan.

## 1. Inventory

| Part | State it keeps | Operations | Talks to | What must hold |
|---|---|---|---|---|
| Repository handlers `internal/api/handlers/repos.go` | none of its own: the local variables of each request's goroutine, and one more goroutine per activity event | Create, Update, Delete, List, ListByUser, Get | store, disk, Kubernetes client | each answer is explained by one change of the table; no row without a directory |
| Store `internal/store/postgres` | the tables `users`, `repositories`, `ssh_keys`, `activity_events`, `personal_access_tokens`; a pool of connections | one method per statement, each its own transaction | PostgreSQL | unique keys, cascades; no caller waits for itself |
| Disk layout `internal/gitserver/repo.go` | `<root>/<owner>/<name>.git` | `InitBareRepo` (idempotent), `os.RemoveAll` | volume | row and directory come and go together |
| Repository operator `operator/controllers/repository_controller.go` | status and finalizer of each Repository object | Reconcile, handleDeletion, createDBRecord, syncDBRecord | Kubernetes API, store, disk | objects, rows and directories agree in the end; a deletion terminates |
| User operator `operator/controllers/user_controller.go` | status and finalizer of each GForceUser | Reconcile, handleDeletion | Kubernetes API, store | a CR user and its row agree |
| Accounts `handlers/users.go`, `internal/auth`, `middleware/auth.go` | rows, signed tokens | register, login, keys, profile | store | unique names; a token names an active user |
| Personal access tokens `postgres/pats.go` | rows, last-used times | create, list, delete, validate | pool | validation ends |
| Rate limiter `middleware/ratelimit.go` | a token bucket per client and a clean-up loop | allow, evict | clock | forgetting an idle client changes no decision |
| Migrations `internal/store/migrate.go` | `schema_migrations` | RunMigrations at each start | PostgreSQL | whoever serves has the whole schema |
| Git over HTTP and SSH `internal/gitserver`, `internal/sshserver` | a git process per session; a host key file | upload-pack, receive-pack | store, disk, git | access follows the row; pushes are recorded |
| UI session `ui/src/store/auth.ts`, `hooks/useAuthRehydration.ts`, `api/client.ts`, the forms, `SettingsPage`, `Navbar` | token and user in memory and in localStorage; calls on their way | page load and probe, login, registration, save, sign-out, redirect on 401 | JSON API, router | the store's user is its token's; a session that ended stays ended; nothing the user does blanks the tab |
| UI account pages `TokensPage`, `SSHKeysPage`, `NewRepoPage`, `RepoSettingsPage`, `HomePage`, `UserProfilePage`, `main.tsx`, `App.tsx` | the query cache, mutations on their way, a dialog | mount, fetch, retry, mutate, invalidate, redirect | UI session, JSON API | caches are their user's; a list shows what its page was told was done; only owners change settings |
| UI repository browser `RepoPage`, `RepoFilePage`, `RepoCommitsPage`, `FileTree`, `FileViewer`, `BranchSelector`, `lib/highlight.ts` | route, branch picked, cache, open folder, what is being highlighted | follow a link, pick a branch, open a folder, highlight | JSON API, shiki | what is shown is of the place, branch and file the page is about; loading ends |
| Git content, charts | none, configuration | views | API | outside the core |

What is hard here:

* **Interleaving.** `net/http` runs each request in a goroutine of its own. A
  handler loads a row, thinks, and then acts on it; two handlers, or a handler
  and the operator, do so at the same time.
* **Partial failure.** Create makes a row, then a directory, then an object.
  The first two are compensated (repos.go:96), the third is not.
* **Crashes and lost replies.** Nothing records how far a request went.
* **Stale reads.** The operator reads from an informer cache and writes with
  optimistic concurrency; `status.databaseID` is a copy of a key that the API
  may have deleted.
* **Late replies.** In the UI a handler that goes on after an `await` uses what
  its closure captured: a token, a branch, whether a folder was open. Its page may
  be gone, and the session another.
* **One cache for everybody.** Query keys name neither the user nor, for a README,
  the directory; pages change under a query that stays.
* **Names.** The object's name is `<owner>-<name>`, and both parts may hold a
  hyphen: `a/b-c` and `a-b/c` share an object.

`PROJECT.json` lists each of these hazards at its line with the properties that
watch over it.

## 2. Modules and the code they stand for

```
  RepoRegistry (abstract)            RepoWorld (shared state)
        ^  refined by                  ^            ^
        +----------- RepoAPI ----------+            +---- RepoController
                        ^                                       ^
                        +-------------- RepoSystem -------------+

  TokenBucket (abstract) <--refined by-- RateLimiter         Migrations
  GitAccess (git sessions, credentials, connection pool)

  WebSession <--extended by-- WebAccount      WebBrowser
        ^  implemented by          \            /    ^  implemented by
        +--------------------------- WebUI ----------+

  *Proofs: theorems about the module they are named for (WebUIProofs about
  WebSession, WebAccount and WebUI).   MC*: values for TLC.
```

**RepoWorld** is what both programs share. `rows`, `nextId` and `feed` are the
tables `repositories` and `activity_events`: `CreateRepo`, `UpdateRepo`,
`DeleteRepo` are the statements of `postgres.go`, with the unique constraint on
(owner, name) and the cascade from the repository to its events of the
migrations. `disk` maps each path to whoever initialised the bare repository
there, so that one can tell a fresh directory from an old one that
`InitBareRepo` found and left alone. `crs` holds the Repository objects with the
fields of spec and status that somebody reads. A step goes wrong in three ways:
`Fault` (it fails and has changed nothing), `Break` (the database commits and
its reply is lost, or a process dies), and the ordinary refusals that are part
of each operator's guard (unique violation, no such row).

**RepoAPI** is the three writing handlers of `repos.go`. `pc[r]` is the point
between two calls that leave the process at which the goroutine of request `r`
stands; `got[r]` is the `*models.Repository` in its hands:

| `pc` | next call | actions |
|---|---|---|
| `create` | decode, validate, EnsureOwnerDir and INSERT (49-92) | CreateInvalid, CreateInsert, CreateConflict, CreateInsertFails |
| `init` | InitBareRepo (94-108) | CreateInit, CreateInitFails |
| `rollback` | compensating DeleteRepo (96-101) | CreateRollback |
| `cr` | createRepositoryCR, event, 201 (110-164) | CreateFinish |
| `load` | loadRepo, permission, body (249-274, 300-312, 340-356) | LoadMissing, LoadFails, LoadForbidden, UpdateInvalid, Load |
| `update` | UPDATE, 200 or 500 (276-290) | UpdateRow, UpdateRowFails |
| `delete` | DELETE, 500 (314-317) | DeleteRow, DeleteRowFails |
| `rm` | RemoveAll, event, 204 (319-336) | DeleteFinish |

Calls that change nothing shared are merged with the one that follows.
`RecordEvent` is the goroutine of repos.go:116 and 325, which runs at any later
time and which the foreign key on `repo_id` may refuse. `Crash` stops every
goroutine of the process.

**RepoRegistry** is the abstract specification: a table of (id, name) pairs and,
for each request, an outcome that one atomic change of the table explains. A 201
is a registration that took effect and was not taken back; a 204 is a removal
that this request and no other made; a 409 and a 404 tell what was true at one
instant of the request. `RepoAPI!Registry` instantiates it with a refinement
mapping (`Table`, `nextId`, `Outcomes`), and `ImplementsRegistry` is its
specification.

**RepoController** is the operator's Reconcile cut at each call that leaves the
process (`rpc[c]`), on a copy (`copy[c]`) taken from the informer's `cache`. Steps
3 and 4 (finalizer, phase Pending) make one write and requeue, so each is one
action; step 5 to 7 and handleDeletion are a sequence of actions. Of a
resourceVersion only the outcome of comparing it with the stored one matters:
`cacheFresh` for the cache's copy, `fresh` for the reconciler's. The work queue,
informer, resync and optimistic concurrency of controller-runtime and the
Kubernetes API server are modelled from how the code uses them and marked
external in the map. `Restart` stands for a restart and for a lost lease.
`Apply`, `Edit` and `Delete` are a user's kubectl.

**RepoSystem** extends both over one world: `APIStep` is a step of the API, which
may create an object and so make the operator's copies stale (`Notice`); `OpStep` is
a step of the operator or of kubectl. The specification is `SystemSpec`, its types
are `SystemTypeOK`, so that it stands beside the API's own `Spec` and `TypeOK`.

**RateLimiter** is `middleware/ratelimit.go`: `ips` maps each client address to
its `ipEntry` (the tokens of its `rate.Limiter` as of `last`, and `lastSeen`).
`Allow` and `Deny` are the two ends of `allow`, `Cleanup` one pass of
`cleanupLoop`, at the tick or any time later; one mutex makes each atomic. A
second is the unit of time and a sixtieth of a token the unit of tokens, so that
the rate per second is `ReqPerMin` exactly; the library's floating point rounding
is left out. `window` is a history variable: any span of time, and what one
client got in it. **TokenBucket** is the promise: one bucket per client, steadily
refilled and never forgotten. `Levels` is the refinement mapping: an entry brought
up to date, and a full bucket for a client that has none.

**Migrations** is `RunMigrations` in several API servers over one database.
`schema` is the set of files that took effect, `recorded` the table
`schema_migrations`, `todo[s]` the files the server found unrecorded when it read
that table, once (migrate.go:42). Every file of the repository holds its own
`BEGIN` and `COMMIT`, and PostgreSQL does not nest transactions: the file's
`COMMIT` ends the one that `RunMigrations` opened, the `INSERT` of the record
commits by itself, and `tx.Commit` finds nothing to do. So `Run` and `Record` are
two actions. The files can be run twice. `RunFails` and `RecordFails` return an
error, upon which the process exits and is started again.

**GitAccess** is a request for git over HTTP (`gitserver/handler.go`) or over SSH
(`sshserver`), on one repository, while others change it and credentials come and
go. `sess[s]` is what the goroutine of session `s` has in hand:

| `pc` | next call | actions |
|---|---|---|
| `idle`, `open` | a request; a connection and its key (auth.go:30); a session on it (session.go:47) | Request; Connect, Disconnect; Exec |
| `resolve` | the repository's row (handler.go:224, session.go:159) | ResolveRepo, ResolveRepoFails |
| `auth` | credentials over HTTP (247-308) | Anonymous, Bearer, BearerFails, ValidatePAT, ValidatePATFails |
| `user` | the token's user, with the rows still open (pats.go:140) | GetUserByID, GetUserByIDFails |
| `check` | the user again, over SSH (session.go:180) | IsAuthorized, IsAuthorizedFails |
| `git` | the git process (handler.go:194, session.go:104) | GitSucceeds, GitFails |

The last call before `git` decides, in one step with `authorizeRepo` (`Decide`).
A statement is one step that needs a free connection of the pool; two reads
that cannot disagree, as those of users, who are never deleted, are one. Only
`ValidatePAT` keeps a connection from one step to the next (`Holding`).
`touching` and `recording` are the goroutines that write `last_used_at` and the
push event after the answer. `seen` is a history variable: the rows and holders of
its credential that a session was there for; what a git process was started with
is compared with it. `creds` says who holds each token and key fingerprint: a
fingerprint may be registered again by another user, a token may not.

**WebSession** is the session of one tab. `store` is what zustand persists;
memory and localStorage change together, and other tabs are not modelled. `calls`
are the calls on their way, each with the token its handler captured (`held`), the
one the request interceptor sent (`sent`, see `Bearer`), and whether the form that
waits for it is still there (`live`). A handler's awaits are cut where the code
awaits: `Registered`, `LoginAccepted` and `GotUser` are the three of
`RegisterForm.handleSubmit`, the last two those of `LoginForm`. `Load` is a page
load: the store is read before React renders (`HasHydrated`), a persisted token is
probed, and `ProbeAccepted` and `ProbeRefused` are the two ends of `validateToken`.

`Render` says what React makes of a step. `SettingsPage`, `SSHKeysPage` and
`TokensPage` return before their other hooks when nobody is signed in, so that one
that stays mounted while the session comes or goes changes its number of hooks and
takes the tree with it (`blank`). When the session is gone the page has asked for
`/login` first, and React renders a second time before it gives up: both ends, the
blank tab and the login page, are left open. `Rendered` says what a render does to the
calls: a save whose page is still there gets the callbacks of that render, and so its
token, because `useMutation` replaces the options of a pending mutation; one whose page
is gone keeps those it had.

`Go` is any change of route without a load: a link, or Back and Forward of the
browser, which lead to any page, whoever is signed in by then. `HardRedirect` is the
response interceptor on a 401: `logout()` at once, over the page that is shown, and
`window.location.href`, which takes effect later (`leaving`, `Unload`); replies arrive
in between, and what they leave in the store is there when the login page loads. The
server issues tokens one after another, and they expire at any time.

Three history variables: `crossed` are the tokens that a login obtained while somebody
was signed in, and those that took another session's place in the store with no
sign-out between; `given` those that left the store; `ended` those signed out with no
call on its way that holds them.

**WebAccount** adds the pages about an account and the query cache they share. What
a list holds is a number, the version of what the server had when it answered:
every change the server applies makes new versions of the lists it shows in
(`Touches`). `cache[k]` is react-query's entry: its phase (sent, answered by the
server but not here yet, at rest), the version and user it shows, whether it is
fresh, and whether it was invalidated after the server had answered (`late`).
`Mounted`, `Ask`, `Invalidated`, `FetchRetried`, `FetchFails` and `GoesStale` are react-query's rules with the defaults of `main.tsx` (external, from how the code
uses them). A mutation is applied by the server (`MutApplied`) and later known to the
page (`MutDone`), which invalidates the one list it names and may navigate.
`FetchRefused` and `MutRefused` are a 401 of a page's own request: the interceptor's
`Rejected`, and the query or mutation ends in an error while the page unloads.
`Follow` is what every step of the session means for the pages: observers that mount
ask for what they lack, a dialog closes, and `App` clears the cache when a session
ends. `dialog` is the confirmation of the tokens page and of a deletion.

**WebBrowser** is the pages that browse one repository with a root, a folder and a
file on each branch. `Current` is the branch a page is about: the one picked on it,
else the URL's, else the default branch, else `main` until that is known
(RepoPage.tsx:31). Keys are the code's (`TreeKey`, `ReadmeKey`, `BlobKey`,
`CommitsKey`), and `of` is the place the query's function captured when it was sent.
`Show` is what React makes of a step: which queries mount, and whether the folder's
node, keyed by path alone, stays. `HandleClick`, `FolderListed` and `FolderFails` are
`handleClick` before and after its await; `Effects` is `FileViewer`'s effect, whose
`highlight().then(setHtml)` is queued behind the promise of `GetHighlighter`.

**WebUI** puts them together. Browsing neither reads nor changes the session, so a
behaviour is about one part or the other (`part`); and in the first about the pages of
one `tour`, a set of pages the user keeps to, with the login page in each of them.

An operator whose comment starts "With a bug" is not part of the specification.
It is the neighbouring definition with a plausible mistake in it, and the run
named for it in `PROJECT.json` fails when it takes that definition's place.

### Abstractions worth knowing

* An id is a counter value: `gen_random_uuid` is taken never to repeat.
* `priv` stands for the columns that PATCH and the sync write. A PATCH body that
  leaves `is_private` out decodes to `false` and is written as such
  (repos.go:276); `IsPrivate` says so.
* `spec.ownerRef.userID` is the owner's id, an id no user has, or no UUID at all.
  `ownerRef.username` is the owner's and neither is edited. Users are not
  deleted (no handler does).
* What a failed InitBareRepo leaves half made, the owner's directory and the
  initial commit are not distinguished from nothing.
* A cancelled request context is a `Fault` of the call it interrupts; in
  `GitAccess`, which is about waiting, it is `ClientGone`. net/http notices that
  a client is gone once it has read the body, and handlers read it last.
* Sessions that one SSH connection has open at once are as those of several
  connections. A connection keeps its slot while its session runs.
* A page that stays while the cache is cleared keeps what it shows, and its query is
  made anew when it next renders: the entry has phase `none` until `Rerendered`.
* In `WebBrowser` only the file changes on the server (`Push`), so that only its
  query needs to go stale; browsing begins on the default branch or at the root.
* A repository that was deleted or renamed over the UI is a new version of its lists.
* In `GitAccess` a Create, Update or Delete is its one statement, since git sees
  the row alone, and the directory is not looked at.

## 3. Runs, bounds and fairness

Bounds are constants: `MaxFaults` failed steps, `MaxBreaks` crashes or lost
replies, `MaxKubectl` commands, and as many requests as `Reqs` has elements. All
are guards of the actions they count; identities of requests are symmetric in the
safety runs. No run reaches a bound of the code: the five concurrent reconciles
are more than the objects.

| Run | Instance | Checks |
|---|---|---|
| `repo_api` | 3 requests of any kind on one name by its owner or a stranger, 1 fault, 1 break | types; each answer explained by the registry (`ImplementsRegistry`, `AnswersConcernDistinctIds`); `ActsOnWhatItLoaded`; `RowHasDisk`; `FreshContent`; `FeedIsTruthful` |
| `repo_system` | API and operator on two names that share an object name, 2 requests, 2 kubectl commands, 1 fault | types; `DatabaseIDIsOwn`; `ReadyWithoutPatches`; `ActsOnWhatItHolds`; `FinalizerGuardsRow` |
| `repo_converges` | fair, 1 request, 2 commands on manifests with good, unknown and ill-formed owners, 1 fault, 1 break | `ReadyWithoutPatches`; `DeletionCompletes`; `Converges` |
| `rate_limiter` | 1 client, 2 requests a minute, 11 minutes in steps of one | types; `WindowBound`; `ImplementsTokenBucket` |
| `migrations` | 3 servers, 3 files, 1 fault, 2 breaks; fair | types; `ServesWholeSchema`; `RecordFollowsSchema`; `EveryServerStarts` |
| `git_access` | 1 session over HTTP and 1 over SSH, 1 token, 1 key, owner and stranger, 2 connections to the database, 2 requests, 2 changes, 1 fault or crash; fair | types; `GitRunsOnTruth`; `FeedTellsOfPushes`; `RequestsEnd` |
| `web_session` | the session alone: 2 users, 2 tokens, 2 calls at once, 4 inputs | `UserOfToken`; `EndedStaysEnded`; `BlankOnlyByLateAnswer` |
| `web_ui` | 2 users, 2 tokens, 2 calls and 2 mutations at once, 2 inputs, 6 tours; 2 branches, 1 push, 3 clicks, 2 listings at once; fair | types; account: `CacheIsOwn`, `AcknowledgedListed`, `OnlyOwnersSend`; browser: `ShownIsOfPlace`, `OpenFolderListed`, `FolderIsOfBranch`, `ViewerShowsItsFile`; `EverythingSettles` |
| `validations_wait` | 2 sessions over HTTP, 2 connections, nothing fails; fair | `ValidationsReturn` is violated |
| `exists_in_db_and_on_disk` | 3 requests, nothing fails | `ExistsInDBAndOnDisk` is violated |
| `deletion_leaves_row` | operator, apply and delete, nothing fails | `DeletionLeavesNothing` is violated |
| `ready_not_in_sync` | API and operator, 2 requests, nothing fails | `ReadyMeansInSync` is violated |

Why these are enough. The races of the handlers are between a request that
removes a row, one that takes the name again and one that still holds the old
row: three requests, all on one name, since handlers of different names share
nothing but ids. One fault exercises each failure branch by itself; one break
next to it gives every combination of a failed step and a crash. For the
operator two kubectl commands give apply and delete, or apply and edit. The owner
of the first name sends requests of every kind and somebody else creates the second
name, whose object gets the same name, so that `repo_system` has both the traffic on
one repository and the clash in it.

Clients of the rate limiter share nothing but the mutex, so one is enough. Two
requests a minute is the slowest rate at which an empty bucket (ten tokens, the
floor) is full again within the five minutes after which its entry may go; the
router's 100 a minute fills it in twelve seconds. Eleven minutes hold two passes
of the loop with every distance from the last request. Three servers let one work
from a list that two others have overtaken; three files are the repository's.

Two changes delete the repository and take its name again, or move a key to another
user, between any two steps of a session; two requests are two pushes, or a push and
a fetch, in turn or at once. `Holding` is about HTTP alone, so with one such session
two connections are one more than can be held.

In the UI what goes wrong takes two calls at once (a probe and a save, two logins), or
a call and what the user does while it is on its way. `web_session` has the four inputs
of the longest story we know: under a slow probe of the first session the user signs
out, logs in as somebody else, goes to the settings and saves, and then the probe and
the save are answered. `web_ui` has the account pages next to it, and two inputs: a
sign-out and a login while a list is on its way, a login and a click, a click and a
page left. Two tokens are two sessions, of the same user or of two.
A tour is a kind of page with those that lead to it and that it leads to; pages of
different tours meet only through the session and through queries that both watch,
and each query's pages are together in some tour. Two branches with two listings at
once let each listing and each file be overtaken by the other branch's.

Runs say `CHECK_DEADLOCK FALSE` since the system rests when all requests are
answered and nothing is queued (or all servers serve, the clock is at its
bound, or the user of the UI does nothing more).

Fairness (`RepoSystem!Fairness`) is weak fairness of: each handler's own steps
(a goroutine runs, and the calls it makes return); each object's Reconcile (a
worker takes what is queued, and a requeue or an error puts the key back with a
back-off); watch events (the informer reconnects); the resync timer
(controller-runtime's default period of ten hours). Nothing is assumed of
clients, kubectl or the event goroutine. Faults, breaks and commands are finite
in number, which is the usual "eventually it stops failing". `Migrations` assumes
weak fairness of each server's start: Kubernetes starts a container that exited
again, and its database calls return. `GitAccess` assumes it of each session's
handler and of the background goroutines: a goroutine runs, a statement returns once
it has a connection, and git ends within `gitProcessTimeout`. It assumes nothing of
clients: that one goes away, which would free a connection, need not happen.
`WebUI` assumes it of replies only, and of all of them together: axios gives up a
request after 15 seconds (client.ts:7), retries are one (main.tsx:12), settled
promises are acted upon, and a tab that was told to load another page does. It does
not assume that any one call is answered before another, nor that the user does anything. `EverythingSettles` is about a tab its user
leaves alone, which the bound on inputs makes every behaviour reach.

## 4. What the runs show

*Answers.* Although Create writes, may undo and only then answers, and Update
and Delete act on what they read earlier, a client sees an atomic registry. The
reason is that each statement names its row by primary key, that ids are never
reused, and that `RowsAffected` is looked at: drop any of the three and
`repo_api` fails.

*Rows and directories.* With at most one failed step, no crash and no two
requests on a name at once, no row is left without its directory (`RowHasDisk`),
and a new repository starts from an empty one (`FreshContent`). The conditions
are needed: with two requests on one name see below; a lost reply to the INSERT
leaves a row without a directory and the name taken; a failed RemoveAll leaves
old content that the next Create adopts.

*Operator.* Stale caches, refused writes, restarts and a shared object name never
make it touch the row of another repository, and finalization terminates. Given
time, every object of an existing user becomes Ready over a row and a directory
(`Converges`), also after the API changed them behind its back.

*Rate limit.* Throwing an entry away after five idle minutes is invisible, because
no bucket takes longer to fill. At fewer than two requests a minute it would not
be: the burst has a floor of ten, and a client would be given a new one.

*Migrations.* Without a lock and with every file committing before its record, the
schema still grows in order: a server goes on to a file only after the `INSERT` of
the one before succeeded, and the primary key stops whoever recorded second. A
server may run a file again that another has recorded since it read the table;
the files allow that, and a new file must too.

*Git.* Row and credential are read at different times and used later still, and no
lock holds either. What is true is that each held at some time of the request (over
SSH, the key at some time of the connection): a push may land in a repository whose
token was revoked after it was looked at. The feed is about the repository that has
the name now, since the event carries the id and the foreign key refuses one that
is gone. With more connections than requests with tokens at once, every request is
answered.

*Web UI.* Replies that arrive late are harmless more often than it looks. A probe or a
save that ends after a sign-out brings back its own session, with its own user, and
one that was given up with no call on its way is gone for good. The exceptions are
part of the properties, each by its cause:

* `crossed`: a login on top of a session stores the new token with the old session's
  user, since the interceptor puts the store's token over the explicit one. A probe
  answered after a sign-out and another login puts the first token back in the second's
  place; a save that the settings page waits for then takes that token with it, and
  stores it with the user it saved as. Such a tab may hold the lists of the session
  that was replaced (only a sign-out clears the cache), and offer an owner's settings
  to another's token; the server refuses that one.
* `late`: an invalidation drops a request that is on its way only if its page is there
  and has something to show meanwhile. If it meets the first load of a list, or a
  refetch whose page was left, the answer of before the change still lands, and counts
  as fresh for thirty seconds: a token revoked a moment ago is listed again.
* A guarded page goes blank when an answer ends the session under it: a failed probe,
  or a 401 while the interceptor's redirect has yet to unload the page. It also does
  when the user goes Back to it signed out and a late answer restores the session.
  `BlankOnlyByLateAnswer` says that nothing the user does blanks it, and no login.
* `kept`: a folder that stays open over a change of branch, because the other branch's
  tree was in the cache, goes on listing the old one.

The README's key names no directory. Spinners end: a highlighter that failed to load
is kept as failed, and its waiters fall back to plain text.

Four statements of the code's own comments do not hold:

1. *"the repo already exists in the DB and on disk"* (repos.go:111). Delete
   removes the row and then the directory; a Create of the same name that fits
   in between finds the old directory, and Delete then removes it. Create
   answers 201 for a repository with a row and no directory.
2. *"handleDeletion removes all external resources and strips the finalizer"*
   (repository_controller.go:165). It goes by the status, which gets its
   `databaseID` and `diskPath` only in step 7. An object deleted between the
   INSERT and that write leaves row and directory behind for good.
3. *"Ready means the bare git repository is initialised and in sync with the
   DB"* (repository_types.go:15). PATCH and DELETE of the API leave the object
   alone: it stays Ready, out of step, until a resync. The resync then inserts
   the deleted repository again, or takes the PATCH back.
   As long as the API only creates repositories it does hold of objects at rest
   (`ReadyWithoutPatches`).
4. *"On success it fires an async last_used_at update and returns the owner"*
   (store.go:104). `ValidatePAT` loads the owner on a second connection while its
   rows hold the first. As many validations at once as the pool has connections
   wait for each other, and everybody else for them; closing the rows first would
   do (`Holding` would be empty).
Two more can be read off the model, and no run is spent on them. *"Blocks ALL route
rendering until localStorage is read and token is validated with the server"*
(App.tsx:24): `isReady` starts as `hasHydrated()`, which is already true, so routes are
rendered while the probe is on its way (`SessionInit`, `Load`). If it then fails on a
guarded page, the tab may go blank or end on the login page. *"Pass the fresh token
explicitly"* (LoginForm.tsx:21): the interceptor (client.ts:12) sets the store's token
over it (`Bearer`), so that a login in a tab where somebody is signed in asks who the
*old* session's user is, and stores the answer with the new token. `UserOfToken` is
false without its exception for that.

## 5. Proofs

`RepoRegistryProofs` proves of the abstract registry that it stays a map
(`RegistryStaysAMap`) and that an id is created once, removed once and never back
(`IdsAnsweredOnce`), from an inductive invariant that adds to these: ids in the
table and in outcomes are below `fresh`, and a removed id is not in the table.

`RepoAPIProofs` is about the handlers, for any sets of users, names and requests
and any number of faults and breaks; the assumptions are `WorldAssumption` and
`APIAssumption`, which type the constants.

* The inductive invariant `Inv` is `TypeOK`, `RowsOK` (ids below `nextId`,
  canonical paths, one row per id and per name) and, for each request, that a
  handler past its first statement holds a row for the name its request asks
  for, whose id was given out, and whose id no row of another name has
  (`HoldOK`), that its point in the code and its request's kind agree
  (`RequestOK`), and that it has answered exactly when it has returned
  (`AnswerOK`). `TypeOK` alone is not inductive: what Update writes is typed only
  because `got` is a row. TLC has checked `Inv` on the instance of `repo_api`.
* `DBStep` says what any step may do to the tables; `OneRequest` concludes from
  it that a step of one request keeps the part of the invariant about all
  others. Each action then needs only its own effect.
* `TypeCorrect` and `HandlersActOnWhatTheyLoaded` follow from `Inv`.
* `HandlersImplementRegistry` is the refinement: Submit, InitBareRepo, Load and the
  event goroutine map to stuttering; the INSERT to Register, the DELETE to
  Unregister, the UPDATE, the 404 and the 409 to the answer with the same name;
  the end of Create and Delete to Confirm, Withdraw and Removed; each error
  answer to Refuse, which may have changed the table (lost replies).
* `AnswersNeverShareAnId` carries `IdsAnsweredOnce` over to the handlers.
* `FeedTellsNoLies` needs `FeedInv`: an event of a live repository only (`FeedLive`,
  by the foreign key and its cascade), no event before the answer it is about
  (`Reported`), an id taken by a 204 gone for good (`GoneForGood`), and one event for
  each request, its own (`OwnEvents`). `FeedIsTruthful` is not inductive: it says
  nothing of the goroutine that has yet to run.
* `SingleFailuresKeepDisk` and `NewRepositoriesAreFresh` share `TidyInv`. Both
  properties speak of states at rest on a name where requests never overlapped, and
  the invariant says what holds on such a name (`KeyOK`) while a request is at work:
  it is alone; one that removes the directory has removed the row; one that has
  inserted still has its row; a row without a directory is one whose request is about
  to give it one or to take it back (`DiskOK`); and without failures the directory
  was made by the request that inserted the row, and a free name has none unless it is
  being cleared (`BornOK`). Paths of different names differ (`PathsApart`), so that a
  step on one name leaves the others alone. `StepOf` collects what one request does,
  `TableStep` what that means for rows and disk.

`RepoSystemProofs` is about API server and operator together, for any number of
requests, objects, manifests and kubectl commands, any sharing of object names, any
faults, restarts and stale caches (`ControllerAssumption` types what kubectl may
apply). `SysInv` is the handlers' `Inv` and, for each object:

* `ObjectOK`: an id in the object, in the informer's copy or in the reconciler's was
  given out, and for this key; a copy that passes for current is the stored object.
* `FoundOK`: what step 6 found or inserted is of the copy's key.
* `WorkerOK`: where a Reconcile stands agrees with its copy, and one that was
  overtaken will hear of it, from the queue or from a watch event.
* `FreshOK`: as long as nobody else wrote, its copy differs from the stored object
  only in what this Reconcile has set.

`SystemTypes` and `DatabaseIDsAreOwn` follow at once,
`SystemActsOnWhatItHolds` and `FinalizersGuardRows` step by step. The last rests on a
conjunct of `WorkerOK`: a Reconcile that is about to strip the finalizer has seen the
row go, and no row comes back under its id.

`ReadyIsInSync` needs more (`ReadyInv`): before anything failed and while the API only
creates, a Ready object has its row and directory, and a row that says the same once
its queue is empty; an object being deleted is out of the way of whoever finalizes it;
a Reconcile that creates keeps what it made. It has a hypothesis, `NamedByKey`: a
manifest is named as the API would name the object. Under any other name one repository
has two objects, each of which finds the same row by owner and name; deleting one then
takes row and directory from the other, which goes on saying Ready. That is what the
code does, so the theorem would be false without it. Every instance of the runs meets
it, also with two keys on one name.

TLC has checked `FeedInv` and `TidyInv` on the instance of `repo_api`, `SysInv` and
`ReadyInv` on that of `repo_system`, and `CountInv` below on that of `web_ui`.

`RateLimiterProofs` is for any clients, any rate of at least two requests a minute
(`RateAssumption`) and any passage of time. Its invariant adds to the types that
an entry was brought up to date no later than seen (`EntriesOK`) and that what a
client got in the window *and what its bucket still holds* stay within a burst and
the refill of the span (`WindowOK`): the bound alone is not inductive, since the
bucket may hold tokens at its edge. Each lemma says what a step does to `Levels`;
`CleanupKeeps` is where the five minutes matter. `ForgettingDecidesNothing` is the
refinement, `RateIsKept` the bound, `LimiterTypes` the types.

`MigrationsProofs` is for any number of servers, files, faults and breaks. The
invariant: files before one that took effect are recorded (`RecordOK`), and what a
server that runs does not hold to be undone is recorded (`ServerOK`), which
`OneServer` keeps for all servers but the one that moves because `schema` and
`recorded` only grow. `MigrationTypes`, `ServersFindTheSchema` and `RecordLagsByOne`
follow.

`GitAccessProofs` is for any number of sessions, users, credentials and connections.
`GitRunsOnTruth` speaks of the point `git` only; the invariant (`Sound`) says for each
point what the session has in hand: the row it read is among those seen, so is the
holder of its credential once it has a user, and whoever is at `git` was let in by the
row in hand. To get this past a step of somebody else, it also says that the session
has seen the world as it is now. `PushesOK` adds that pushes are the owner's and name
ids that were given out, so that no later repository can have one. `OneSession` treats
the steps that move one session, `SessionsWitness` the changes, which all of them see.
`GitTypes`, `GitOnTruth` and `FeedOfPushes` follow.

The first part of `WebUIProofs` is about the session by itself, for any users and any
number of tokens, calls and inputs (`SessionAssumption`). The invariant `SessionInv` adds to `UserOfToken` and
`EndedStaysEnded` what they need to survive a reply. Of each call (`CallSound`): it holds
and sends tokens that the server issued and holds none that ended; it sent the one it
holds, unless that one is `crossed`; what a probe or a save holds is in the store or was
(`given`); and a save its page waits for holds the store's token, whatever rendered the
page since it was sent. Of the store (`StoreSound`): its token and those that ended were
issued, and without a token it has no user. `RenderKeeps` and `SignedOutKeeps` say what a
step that stores a session, and one that ends it, do to these; each action keeps the
invariant by a lemma of its own. `BlankOnlyByLateAnswer` follows from `CallSound`: what
a late probe or save brings back is in `given`.

`WebBrowserProofs` is for any branches, pushes, clicks and listings. `BrowserInv` gives
every cache entry the place its key names (`ShownIsOfPlace` speaks only of the page's),
a folder's listings on their way the page's branch, and the viewer's queue the content
of its file as its last element: `ViewerShowsItsFile` is what is left of that when the
queue is empty.

The second part shows that the UI implements both: `PagesKeepToTheSession` (`Spec =>
SessionSpec`) and `PagesKeepToTheBrowser` (`Spec => BrowserSpec`), so that their theorems
hold of the composition. For the account pages the inductive invariant is `AccountInv`:
a list that is fresh or on its way shows what was acknowledged, or is marked `late`
(`ListedEntry`); an entry, and a query on its way, is the store's user's unless the
store's token is `crossed` (`Own`), as one is that replaced another directly; a mutation that only an owner may send was
sent with the owner's token (`OwnersMut`), which needs that the store's token was
issued to its user; and the three lists a repository shows in have equal versions.
`CachesAreOwn`, `ListsShowWhatWasAcknowledged` and `OwnersAloneSend` follow.

`UITypes` needs one invariant more, `CountInv`: versions are bounded because every
change is clicked once and applied at most once. The version of a list and the number
of mutations that the server has yet to apply (`Awaiting`) together never exceed the
user's inputs by more than one: a click adds to both sides, `MutApplied` moves one from
the second to the first, and nothing else moves either up.

Every invariant and action property of the passing runs is stated by a theorem
(`ReadyWithoutPatches` under `NamedByKey`). Only model-checked are `DeletionCompletes`,
`Converges`, `EveryServerStarts`, `RequestsEnd` and `EverythingSettles`: temporal
formulas under fairness are beyond the prover. The four statements that the other runs
refute have TLC's traces.

## 6. What is not modelled

Git objects, packs and the content handlers (views without state), charts and
generated manifests. Read-only handlers are left out: they change nothing, and what
they return is a query of the tables above. The user operator and the host key file
have state worth a module: see the plan.

Of the UI: several tabs over one localStorage; renaming a repository in its settings;
the queries of a user's profile, the activity list and the last commit; the token shown
once after it is created; menus, filters, the clone dialog and copy buttons; the contents
of forms, wording and layout; the not-found page and the small components. The browser's
history is not kept: Back and Forward may lead to any page, and a page restored whole
from the browser's own cache is not distinguished from one that loads. React's
StrictMode, which runs effects twice in development, is not modelled either.

## 7. Plan

1. *Accounts*: registration's checks against the unique constraints; the user
   operator's Reconcile over the same rows, whose comment promises that the row goes
   with the object (user_controller.go:121) while the code removes nothing.
2. *Start-up*: the host key file that two servers create at once.
3. *Several tabs*: one localStorage under two sessions in memory.
4. *Proofs*: each new module with its inductive invariant; that `RepoController` by
   itself implements what an object promises its user, as an abstract specification.
