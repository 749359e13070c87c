----------------------------- MODULE WebAccount -----------------------------
(***************************************************************************)
(* The pages about an account over the session: TokensPage, SSHKeysPage,   *)
(* NewRepoPage, RepoSettingsPage, HomePage and UserProfilePage, and the    *)
(* QueryClient whose cache they share (main.tsx, App.tsx).                 *)
(*                                                                         *)
(* What a list holds is a version: every change the server applies makes   *)
(* new versions of the lists it shows in.  A page that mounts fetches what *)
(* the cache does not have or has as stale; a mutation that succeeds       *)
(* invalidates the one list its page names.                                *)
(***************************************************************************)
EXTENDS WebSession

CONSTANTS
  RepoOwner,  \* the user whose repository the repository pages are about
  MaxMuts     \* mutations on their way at once

ASSUME AccountAssumption == RepoOwner \in Users /\ MaxMuts \in Nat \ {0}

VARIABLES
  version,    \* server: the current version of what each query asks for
  cache,      \* the QueryClient's entries
  muts,       \* the mutations on their way
  dialog,     \* of the page shown: its confirmation, and whether it is typed in
  acked       \* history: the version of the last change a page was told of

accountVars == <<version, cache, muts, dialog, acked>>
accountAll == <<sessionVars, accountVars>>
-----------------------------------------------------------------------------
Keys == {"my-repos", "user-repos", "repo", "pats", "ssh-keys"}
\* Answered without a session too, as for anybody.
Public == {"repo", "user-repos"}
Versions == 1..(MaxInputs + 1)
MutSlots == 1..MaxMuts

\* late: invalidated after the server had answered, and not asked again, neither
\* for a first load nor when nobody watches.
Entry == [phase : {"none", "sent", "read", "rest"}, data : Versions \cup {0},
          by : Users \cup {Nobody}, fresh : BOOLEAN, sent : Tokens \cup {Null},
          read : Versions \cup {0}, retried : BOOLEAN, late : BOOLEAN]
NoEntry == [phase |-> "none", data |-> 0, by |-> Nobody, fresh |-> FALSE,
            sent |-> Null, read |-> 0, retried |-> FALSE, late |-> FALSE]

MutOps == {"create-token", "revoke", "add-key", "delete-key",
           "create-repo", "save-repo", "delete-repo"}
Mut == [op : MutOps \cup {"none"}, sent : Tokens \cup {Null},
        ver : Versions \cup {0}, live : BOOLEAN]
NoMut == [op |-> "none", sent |-> Null, ver |-> 0, live |-> FALSE]

AccountTypeOK ==
  /\ version \in [Keys -> Versions]
  /\ cache \in [Keys -> Entry]
  /\ muts \in [MutSlots -> Mut]
  /\ dialog \in {"none", "confirm", "typed"}
  /\ acked \in [Keys -> Versions]

\* The lists a change shows in, and the one its page invalidates.
Touches(op) ==
  IF op \in {"create-token", "revoke"} THEN {"pats"}
  ELSE IF op \in {"add-key", "delete-key"} THEN {"ssh-keys"}
  ELSE {"repo", "my-repos", "user-repos"}
Invalidates(op) ==
  CASE op \in {"create-token", "revoke"} -> {"pats"}
    [] op \in {"add-key", "delete-key"} -> {"ssh-keys"}
    [] op = "save-repo" -> {"repo"}
    [] op = "delete-repo" -> {"my-repos"}
    [] OTHER -> {}
-----------------------------------------------------------------------------
(* The cache.                                                              *)

\* The queries of the page p, for a session with the token t.
Observed(p, t) ==
  CASE p = "home" /\ t # Null -> {"my-repos"}
    [] p = "tokens" /\ t # Null -> {"pats"}
    [] p = "keys" /\ t # Null -> {"ssh-keys"}
    [] p \in {"repo", "repo-settings"} -> {"repo"}
    [] p = "profile" -> {"user-repos"}
    [] OTHER -> {}
Watched == IF Shown THEN Observed(page, store.token) ELSE {}

Ask(e, t) ==
  [e EXCEPT !.phase = "sent", !.fresh = FALSE, !.sent = t, !.read = 0, !.retried = FALSE, !.late = FALSE]
InFlight(e) == e.phase \in {"sent", "read"}

\* Observers that mount ask for what is missing, failed or stale.
Mounted(c, new, t) ==
  [k \in Keys |-> IF k \in new /\ ~ InFlight(c[k]) /\ ~ c[k].fresh THEN Ask(c[k], t) ELSE c[k]]

\* invalidateQueries: what is watched is asked again, a request on its way is
\* dropped for the new one if there is something to show meanwhile.
Invalidated(k, t) ==
  LET e == cache[k] IN
  IF e.phase = "none" THEN e
  ELSE IF k \in Watched /\ (e.phase = "rest" \/ e.data # 0) THEN Ask(e, t)
  ELSE [e EXCEPT !.fresh = FALSE, !.late = (e.phase = "read")]

\* The page that sent a mutation, and its dialog, are gone with a page change.
Leave(ms) ==
  IF page' = page /\ blank' = blank THEN ms
  ELSE [i \in MutSlots |-> [ms[i] EXCEPT !.live = FALSE]]
Close(d) == IF page' = page /\ blank' = blank THEN d ELSE "none"

\* App clears the cache when a session ends, unless it is itself unmounted; a
\* page that stays goes on showing what it has, without an entry.
\* With a bug: the condition is that of a sign-in.
SignedOn == ~ Signed /\ store'.token # Null /\ ~ blank'
SignedOff == Signed /\ store'.token = Null /\ ~ blank'
Follow(c, ms, d) ==
  LET now == IF ready' /\ ~ blank' THEN Observed(page', store'.token) ELSE {}
      new == IF page' = page THEN now \ Watched ELSE now
  IN /\ cache' = Mounted([k \in Keys |-> IF SignedOff THEN NoEntry ELSE c[k]],
                         new, store'.token)
     /\ muts' = Leave(ms)
     /\ dialog' = Close(d)
-----------------------------------------------------------------------------
(* What the pages offer.                                                   *)

TokensOffers ==
  IF page # "tokens" \/ ~ Signed THEN {}
  ELSE IF dialog = "confirm" THEN {"revoke"} ELSE {"create-token"}
KeysOffers ==
  IF page # "keys" \/ ~ Signed THEN {}
  ELSE IF cache["ssh-keys"].data = 0 THEN {"add-key"} ELSE {"add-key", "delete-key"}
NewRepoOffers == IF page = "new" THEN {"create-repo"} ELSE {}

\* Not the owner's, but nobody's too: only somebody else is sent away.
\* With a bug: nobody is sent away.
SettingsShownToAll == page = "repo-settings" /\ cache["repo"].data # 0
SettingsShown == page = "repo-settings" /\ cache["repo"].data # 0 /\ store.user \in {RepoOwner, Nobody}
RepoSettingsOffers ==
  IF ~ SettingsShown THEN {}
  ELSE IF dialog = "none" THEN {"save-repo"}
  ELSE IF dialog = "typed" THEN {"delete-repo"} ELSE {}
Offers == TokensOffers \cup KeysOffers \cup NewRepoOffers \cup RepoSettingsOffers
-----------------------------------------------------------------------------
(* Steps of the session, and what the pages make of them.                  *)

Along ==
  /\ Follow(cache, muts, dialog)
  /\ UNCHANGED <<version, acked>>
Visit == Stay /\ Along

\* The memory of a page that was loaded.
Start ==
  /\ cache' = Mounted([k \in Keys |-> NoEntry],
                      IF ready' THEN Observed(page', store'.token) ELSE {}, store'.token)
  /\ muts' = [i \in MutSlots |-> NoMut]
  /\ dialog' = "none"
  /\ UNCHANGED <<version, acked>>
Restart == Fresh /\ Start
-----------------------------------------------------------------------------
(* Queries.                                                                *)

Accepted(t) == t # Null /\ t \notin expired

FetchRead(k) ==
  /\ cache[k].phase = "sent"
  /\ k \in Public \/ Accepted(cache[k].sent)
  /\ cache' = [cache EXCEPT ![k].phase = "read", ![k].read = version[k],
       ![k].sent = IF Accepted(cache[k].sent) THEN @ ELSE Null]
  /\ UNCHANGED <<sessionVars, version, muts, dialog, acked>>

FetchDone(k) ==
  /\ cache[k].phase = "read"
  /\ cache' = [cache EXCEPT ![k] =
       [NoEntry EXCEPT !.phase = "rest", !.fresh = TRUE, !.late = cache[k].late,
          !.data = cache[k].read,
          !.by = IF cache[k].sent = Null THEN Nobody ELSE issued[cache[k].sent]]]
  /\ UNCHANGED <<sessionVars, version, muts, dialog, acked>>

\* With a bug: retried as often as it fails.
FetchRetriedAgain(k) ==
  /\ InFlight(cache[k])
  /\ k \in Watched
  /\ cache' = [cache EXCEPT ![k] = [Ask(@, store.token) EXCEPT !.retried = TRUE]]
  /\ UNCHANGED <<sessionVars, version, muts, dialog, acked>>
\* Once more after a second, with the token of that time; not for nobody.
FetchRetried(k) ==
  /\ InFlight(cache[k]) /\ ~ cache[k].retried
  /\ k \in Watched
  /\ cache' = [cache EXCEPT ![k] = [Ask(@, store.token) EXCEPT !.retried = TRUE]]
  /\ UNCHANGED <<sessionVars, version, muts, dialog, acked>>

GivenUp(e) == [NoEntry EXCEPT !.phase = "rest", !.data = e.data, !.by = e.by]
FetchFails(k) ==
  /\ InFlight(cache[k])
  /\ cache[k].retried \/ k \notin Watched
  /\ cache' = [cache EXCEPT ![k] = GivenUp(@)]
  /\ UNCHANGED <<sessionVars, version, muts, dialog, acked>>

\* Nobody watches the query any more once the session is gone.
FetchRefused(k) ==
  /\ cache[k].phase = "sent" /\ k \notin Public /\ ~ Accepted(cache[k].sent)
  /\ Rejected
  /\ Follow([cache EXCEPT ![k] = GivenUp(@)], muts, dialog)
  /\ UNCHANGED <<version, acked>>

\* Thirty seconds after it was fetched.
GoesStale(k) ==
  /\ cache[k].phase = "rest" /\ cache[k].fresh
  /\ cache' = [cache EXCEPT ![k].fresh = FALSE]
  /\ UNCHANGED <<sessionVars, version, muts, dialog, acked>>

\* A page that outlived the entry it was watching.
Rerendered(k) ==
  /\ k \in Watched /\ cache[k].phase = "none"
  /\ cache' = [cache EXCEPT ![k] = Ask(@, store.token)]
  /\ UNCHANGED <<sessionVars, version, muts, dialog, acked>>
-----------------------------------------------------------------------------
(* Mutations.                                                              *)

\* The confirmation of a page, by the buttons that open, fill and close it.
\* With a bug: the dialog holds another kind of value than it is closed with.
ConfirmRevokeById ==
  /\ page = "tokens" /\ Signed /\ cache["pats"].data # 0
  /\ dialog' = IF dialog = "none" THEN "id" ELSE "none"
ConfirmRevoke ==
  /\ page = "tokens" /\ Signed /\ cache["pats"].data # 0
  /\ dialog' = IF dialog = "none" THEN "confirm" ELSE "none"
ConfirmDelete ==
  /\ SettingsShown
  /\ \/ dialog = "none" /\ dialog' = "confirm"
     \/ dialog = "confirm" /\ dialog' = "typed"
     \/ dialog # "none" /\ dialog' = "none"
Confirm ==
  /\ Shown
  /\ ConfirmRevoke \/ ConfirmDelete
  /\ UNCHANGED <<sessionVars, version, cache, muts, acked>>

\* A button is disabled while its mutation is on its way; of the buttons that
\* delete a key, only that key's.
Click(op) ==
  /\ Elsewhere
  /\ op \in Offers
  /\ op = "delete-key" \/ \A i \in MutSlots : muts[i].live => muts[i].op # op
  /\ \E i \in MutSlots :
       /\ muts[i] = NoMut
       /\ \A j \in MutSlots : muts[j] = NoMut => i <= j
       /\ muts' = [muts EXCEPT ![i] =
            [op |-> op, sent |-> Bearer(Null), ver |-> 0, live |-> TRUE]]
  /\ UNCHANGED <<version, cache, dialog, acked>>

MutApplied(i) ==
  /\ muts[i].op # "none" /\ muts[i].ver = 0
  /\ Accepted(muts[i].sent)
  /\ muts[i].op \in {"save-repo", "delete-repo"} => issued[muts[i].sent] = RepoOwner
  /\ LET ks == Touches(muts[i].op) IN
     /\ version' = [k \in Keys |-> IF k \in ks THEN version[k] + 1 ELSE version[k]]
     /\ muts' = [muts EXCEPT ![i].ver = version[CHOOSE k \in ks : TRUE] + 1]
  /\ UNCHANGED <<sessionVars, cache, dialog, acked>>

\* Where onSuccess goes, mounted or not.
Destination(op) ==
  CASE op = "create-repo" -> "repo" [] op = "delete-repo" -> "profile" [] OTHER -> page

\* With a bug: onSuccess does not invalidate.
NotInvalidated(op) == cache
AfterSuccess(op) ==
  [k \in Keys |-> IF k \in Invalidates(op) THEN Invalidated(k, store.token) ELSE cache[k]]

MutDone(i) ==
  LET op == muts[i].op
      ms == [muts EXCEPT ![i] = NoMut]
      d == IF op = "revoke" /\ muts[i].live THEN "none" ELSE dialog
  IN /\ muts[i].ver # 0
     /\ acked' = [k \in Keys |->
          IF k \in Invalidates(op) /\ acked[k] < muts[i].ver THEN muts[i].ver ELSE acked[k]]
     /\ Navigated(Destination(op)) \/ (page = Destination(op) /\ UNCHANGED sessionVars)
     /\ Follow(AfterSuccess(op), ms, d)
     /\ UNCHANGED version

\* The page reports it; the change may have been made.
MutFails(i) ==
  /\ muts[i].op # "none"
  /\ muts' = [muts EXCEPT ![i] = NoMut]
  /\ UNCHANGED <<sessionVars, version, cache, dialog, acked>>

MutRefused(i) ==
  /\ muts[i].op # "none" /\ muts[i].ver = 0 /\ ~ Accepted(muts[i].sent)
  /\ Rejected
  /\ Follow(cache, [muts EXCEPT ![i] = NoMut], dialog)
  /\ UNCHANGED <<version, acked>>

\* The settings of somebody else's repository.
NotTheOwner ==
  /\ Shown /\ page = "repo-settings"
  /\ cache["repo"].data # 0 /\ store.user \notin {RepoOwner, Nobody}
  /\ Navigated("repo")
  /\ Follow(cache, muts, dialog)
  /\ UNCHANGED <<version, acked>>
-----------------------------------------------------------------------------
AccountInit ==
  /\ SessionInit
  /\ version = [k \in Keys |-> 1]
  /\ cache = LET c == [k \in Keys |-> NoEntry] IN
             [k \in Keys |-> IF k \in Watched THEN Ask(c[k], store.token) ELSE c[k]]
  /\ muts = [i \in MutSlots |-> NoMut]
  /\ dialog = "none"
  /\ acked = [k \in Keys |-> 1]

QueryReply(k) == FetchRead(k) \/ FetchDone(k) \/ FetchRetried(k) \/ FetchFails(k) \/ FetchRefused(k)
MutReply(i) == MutApplied(i) \/ MutDone(i) \/ MutFails(i) \/ MutRefused(i)
AccountReply ==
  \/ (\E i \in Slots : Reply(i)) /\ Along
  \/ Unload /\ Start
  \/ \E k \in Keys : QueryReply(k)
  \/ \E i \in MutSlots : MutReply(i)
AccountSettled ==
  /\ ~ leaving
  /\ \A i \in Slots : calls[i] = NoCall
  /\ \A k \in Keys : ~ InFlight(cache[k])
  /\ \A i \in MutSlots : muts[i] = NoMut

AccountNext ==
  \/ Visit \/ Restart \/ NotTheOwner \/ Confirm
  \/ \E op \in MutOps : Click(op)
  \/ \E k \in Keys : QueryReply(k) \/ GoesStale(k) \/ Rerendered(k)
  \/ \E i \in MutSlots : MutReply(i)
-----------------------------------------------------------------------------
(* What one user fetched is never in the cache of another: signing out,    *)
(* also by a redirect whose page is still there, clears it (App.tsx:32).   *)
(* It only clears on sign-out: a session that replaced another directly    *)
(* keeps the other user's lists.                                           *)
CacheIsOwn ==
  ~ blank /\ store.token \notin crossed =>
    \A k \in Keys : cache[k].data # 0 => cache[k].by \in {Nobody, store.user}

(* Once a page was told that its change is made, a list the change is      *)
(* invalidated in is stale, on its way, or shows it; except when the       *)
(* server had answered a request for the list before the invalidation and  *)
(* react-query lets that answer through, which it marks as fresh: it does  *)
(* so for the first load of the list, and for any request whose page was   *)
(* left (TokensPage.tsx:93).                                               *)
AcknowledgedListed ==
  \A k \in Keys :
    cache[k].phase = "rest" /\ cache[k].fresh /\ ~ cache[k].late => cache[k].data >= acked[k]

(* Settings of a repository are saved, and repositories deleted, only with *)
(* the owner's token or none, also when the session changes hands while    *)
(* the page is open (RepoSettingsPage.tsx:87); but for a token that came   *)
(* over another session, whose user the store may have wrong.              *)
OnlyOwnersSend ==
  \A i \in MutSlots :
    muts[i].op \in {"save-repo", "delete-repo"} /\ muts[i].sent \notin crossed \cup {Null}
      => issued[muts[i].sent] = RepoOwner
=============================================================================
