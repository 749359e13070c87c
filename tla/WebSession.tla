----------------------------- MODULE WebSession -----------------------------
(***************************************************************************)
(* The session of one browser tab: the store that zustand persists in      *)
(* localStorage (store/auth.ts), the check of a persisted token at page    *)
(* load (useAuthRehydration.ts), the interceptors that read and clear the  *)
(* store (api/client.ts), and the pages that begin, change and end a       *)
(* session (LoginForm, RegisterForm, SettingsPage, Navbar).                *)
(*                                                                         *)
(* A handler awaits its calls one by one; calls[i] is a call on its way,   *)
(* with the values the handler captured.  Replies come in any order, and   *)
(* find whatever the user has done meanwhile.                              *)
(***************************************************************************)
EXTENDS Naturals

CONSTANTS
  Users,      \* people who have an account or may register one
  Nobody,     \* the store's user when nobody is signed in
  MaxTokens,  \* tokens the server issues at most
  MaxCalls,   \* calls about the session on their way at once
  MaxInputs   \* how often the user does something

ASSUME SessionAssumption ==
  /\ Nobody \notin Users
  /\ MaxTokens \in Nat \ {0}
  /\ MaxCalls \in Nat \ {0}
  /\ MaxInputs \in Nat

VARIABLES
  issued,     \* server: the user of each token, Nobody if not issued yet
  expired,    \* server: the tokens it no longer accepts
  accounts,   \* server: the users that exist
  store,      \* token and user, in memory and in localStorage alike
  page,       \* the route shown
  blank,      \* React has given up and unmounted everything
  ready,      \* isReady of useAuthRehydration
  leaving,    \* window.location.href has been set, the page is still there
  calls,      \* the calls on their way
  inputs,     \* what the user has done so far
  crossed,    \* history: tokens obtained or stored over another session
  given,      \* history: tokens that left the store
  ended       \* history: tokens signed out with no call on its way that holds them

history == <<crossed, given, ended>>
server == <<issued, expired, accounts>>
tab == <<ready, leaving>>
sessionVars == <<server, store, page, blank, tab, calls, inputs, history>>
-----------------------------------------------------------------------------
Null == 0
Tokens == 1..MaxTokens
Slots == 1..MaxCalls

\* These pages return early, before their other hooks, when nobody is signed in.
Guarded == {"settings", "keys", "tokens"}
Pages == Guarded \cup {"home", "login", "register", "new", "profile", "repo", "repo-settings"}

Session == [token : Tokens \cup {Null}, user : Users \cup {Nobody}]
SignedOut == [token |-> Null, user |-> Nobody]
Signed == store.token # Null

Ops == {"none", "probe", "register", "login", "me", "save"}
Call == [op : Ops, who : Users \cup {Nobody}, sent : Tokens \cup {Null},
         held : Tokens \cup {Null}, live : BOOLEAN]
NoCall == [op |-> "none", who |-> Nobody, sent |-> Null, held |-> Null, live |-> FALSE]

SessionTypeOK ==
  /\ issued \in [Tokens -> Users \cup {Nobody}]
  /\ expired \in SUBSET Tokens
  /\ accounts \in SUBSET Users
  /\ store \in Session
  /\ page \in Pages
  /\ blank \in BOOLEAN
  /\ ready \in BOOLEAN
  /\ leaving \in BOOLEAN
  /\ calls \in [Slots -> Call]
  /\ inputs \in 0..MaxInputs
  /\ crossed \in SUBSET Tokens
  /\ given \in SUBSET Tokens
  /\ ended \in SUBSET Tokens
-----------------------------------------------------------------------------
\* The interceptor puts the store's token over whatever the caller asked for.
Bearer(explicit) == IF Signed THEN store.token ELSE explicit

\* GET /user: with the token the caller names, or none.
GetCurrentUser(t) ==
  [op |-> "me", who |-> Nobody, sent |-> Bearer(t), held |-> t, live |-> TRUE]
UpdateProfile ==
  [op |-> "save", who |-> Nobody, sent |-> Bearer(Null), held |-> store.token, live |-> TRUE]
Post(op, u) == [op |-> op, who |-> u, sent |-> Null, held |-> Null, live |-> TRUE]
ValidateToken(t) ==
  [op |-> "probe", who |-> Nobody, sent |-> t, held |-> t, live |-> FALSE]

\* localStorage is read synchronously, before React renders for the first time.
HasHydrated == TRUE

\* The calls cs after a step: a page that is rendered anew hands the callbacks
\* of that render to the save it waits for, and a form that waits is gone with
\* its page.
Rendered(cs) ==
  [i \in Slots |->
     [cs[i] EXCEPT !.held = IF cs[i].op = "save" /\ cs[i].live /\ store'.token # Null
                              THEN store'.token ELSE @,
                   !.live = @ /\ page' = page /\ blank' = blank]]

\* What the component tree makes of a step that leaves st in the store, asks for
\* the route p and keeps the calls cs.  A guarded page that stays mounted while
\* the session comes or goes has another number of hooks than before, and React
\* unmounts the tree; but if the session is gone the page has asked for the login
\* page first, and React may come to render that instead.
Render(st, p, cs) ==
  LET stays  == p = page /\ p \in Guarded /\ ~ blank
      broken == stays /\ Signed # (st.token # Null)
      sent   == stays /\ st.token = Null
  IN /\ store' = st
     /\ \/ broken /\ page' = p /\ blank' = TRUE
        \/ sent /\ page' = "login" /\ blank' = FALSE
        \/ ~ broken /\ ~ sent /\ page' = p /\ blank' = blank
     /\ calls' = Rendered(cs)
     /\ given' = given \cup ({store.token} \ {st.token, Null})
     /\ crossed' = crossed \cup {t \in {st.token} \ {store.token, Null} : Signed}

Without(i) == [calls EXCEPT ![i] = NoCall]
Send(c) == \E i \in Slots :
  /\ calls[i] = NoCall
  /\ \A j \in Slots : calls[j] = NoCall => i <= j
  /\ calls' = [calls EXCEPT ![i] = c]

\* A page load: everything in memory is new, and a persisted token is probed.
Load(p) ==
  /\ page' = p
  /\ blank' = FALSE
  /\ ready' = (HasHydrated \/ ~ Signed)
  /\ leaving' = FALSE
  /\ calls' = [i \in Slots |->
       IF i = 1 /\ Signed THEN ValidateToken(store.token) ELSE NoCall]
  /\ UNCHANGED <<store, server, history>>

\* logout() while the calls cs remain.
Ending(cs) ==
  ended' = ended \cup {t \in {store.token} \ {Null} : \A i \in Slots : cs[i].held # t}

Shown == ready /\ ~ blank
Input == inputs < MaxInputs /\ inputs' = inputs + 1
-----------------------------------------------------------------------------
(* What the user does.                                                     *)

\* The address bar, or F5.
Open(p) ==
  /\ Input
  /\ Load(p)

\* A link, or Back and Forward of the browser: its history may hold any page,
\* whoever is signed in by now.  In a blank tab only the address changes.
Go(p) ==
  /\ Input
  /\ p \in Pages \ {page}
  /\ Render(store, p, calls)
  /\ UNCHANGED <<server, tab, ended>>

SignOut ==
  /\ Shown /\ Signed /\ Input
  /\ Render(SignedOut, "login", calls)
  /\ Ending(calls)
  /\ UNCHANGED <<server, tab>>

\* A form's button is disabled while its own call is on its way.
Waiting(ops) == \E i \in Slots : calls[i].live /\ calls[i].op \in ops

SubmitLogin(u) ==
  /\ Shown /\ page = "login" /\ Input
  /\ ~ Waiting({"login", "me"})
  /\ Send(Post("login", u))
  /\ UNCHANGED <<server, store, page, blank, tab, history>>

SubmitRegistration(u) ==
  /\ Shown /\ page = "register" /\ Input
  /\ ~ Waiting({"register", "login", "me"})
  /\ Send(Post("register", u))
  /\ UNCHANGED <<server, store, page, blank, tab, history>>

SaveProfile ==
  /\ Shown /\ page = "settings" /\ Signed /\ Input
  /\ ~ Waiting({"save"})
  /\ Send(UpdateProfile)
  /\ UNCHANGED <<server, store, page, blank, tab, history>>
\* Something the user does that is not about the session.
Elsewhere ==
  /\ Shown /\ Input
  /\ UNCHANGED <<server, store, page, blank, tab, calls, history>>
-----------------------------------------------------------------------------
(* What the calls bring back.  A POST of credentials that is refused goes  *)
(* through the response interceptor, GET and PATCH of /user do not.        *)

ProbeAccepted(i) ==
  /\ calls[i].op = "probe"
  /\ calls[i].sent \notin expired
  /\ Render([token |-> calls[i].held, user |-> issued[calls[i].sent]], page, Without(i))
  /\ ready' = TRUE
  /\ UNCHANGED <<server, leaving, inputs, ended>>

\* Refused, timed out, or failed in any other way.
ProbeRefused(i) ==
  /\ calls[i].op = "probe"
  /\ Render(SignedOut, page, Without(i))
  /\ ready' = TRUE
  /\ Ending(Without(i))
  /\ UNCHANGED <<server, leaving, inputs>>

Registered(i) ==
  /\ calls[i].op = "register"
  /\ calls[i].who \notin accounts
  /\ accounts' = accounts \cup {calls[i].who}
  /\ calls' = [calls EXCEPT ![i].op = "login"]
  /\ UNCHANGED <<issued, expired, store, page, blank, tab, inputs, history>>

RegistrationRefused(i) ==
  /\ calls[i].op = "register"
  /\ calls[i].who \in accounts
  /\ calls' = Without(i)
  /\ UNCHANGED <<server, store, page, blank, tab, inputs, history>>

NextToken(t) == issued[t] = Nobody /\ \A s \in Tokens : s < t => issued[s] # Nobody

LoginAccepted(i) ==
  /\ calls[i].op = "login"
  /\ calls[i].who \in accounts
  /\ \E t \in Tokens :
       /\ NextToken(t)
       /\ issued' = [issued EXCEPT ![t] = calls[i].who]
       /\ calls' = [calls EXCEPT ![i] = [GetCurrentUser(t) EXCEPT !.live = calls[i].live]]
       /\ crossed' = IF Signed THEN crossed \cup {t} ELSE crossed
  /\ UNCHANGED <<expired, accounts, store, page, blank, tab, inputs, given, ended>>

LoginRefused(i) ==
  /\ calls[i].op = "login"
  /\ page = "login"
  /\ calls' = Without(i)
  /\ UNCHANGED <<server, store, page, blank, tab, inputs, history>>

\* With a bug: no navigate().
GotUserInPlace(i) ==
  /\ calls[i].op = "me"
  /\ calls[i].sent \notin expired
  /\ Render([token |-> calls[i].held, user |-> issued[calls[i].sent]], page, Without(i))
  /\ UNCHANGED <<server, tab, inputs, ended>>
\* storeLogin, then navigate('/'), whether or not the form is still there; the
\* page shown is rendered with the new session before it gives way.
GotUser(i) ==
  /\ calls[i].op = "me"
  /\ calls[i].sent \notin expired
  /\ Render([token |-> calls[i].held, user |-> issued[calls[i].sent]], "home", Without(i))
  /\ UNCHANGED <<server, tab, inputs, ended>>

\* With a bug: login() with the token of the moment, the page left or not.
SavedAsNow(i) ==
  /\ calls[i].op = "save"
  /\ calls[i].sent \notin expired
  /\ Render([token |-> store.token, user |-> issued[calls[i].sent]], page, Without(i))
  /\ UNCHANGED <<server, tab, inputs, ended>>
\* onSuccess: login() with the token of the page's last render.
Saved(i) ==
  /\ calls[i].op = "save"
  /\ calls[i].sent \notin expired
  /\ Render([token |-> calls[i].held, user |-> issued[calls[i].sent]], page, Without(i))
  /\ UNCHANGED <<server, tab, inputs, ended>>

\* No answer, or one the form only reports; a registration may have taken effect.
CallFails(i) ==
  /\ calls[i].op \in {"register", "login", "me", "save"}
  /\ accounts' \in IF calls[i].op = "register"
                     THEN {accounts, accounts \cup {calls[i].who}} ELSE {accounts}
  /\ calls' = Without(i)
  /\ UNCHANGED <<issued, expired, store, page, blank, tab, inputs, history>>

\* With a bug: no logout().
HardRedirectOnly(cs) ==
  /\ page # "login"
  /\ calls' = cs
  /\ Ending(cs)
  /\ leaving' = TRUE
  /\ UNCHANGED <<server, store, page, blank, ready, inputs, crossed, given>>
\* logout(), over the page that is shown, and window.location.href = '/login',
\* which takes effect later; the calls cs are left.
HardRedirect(cs) ==
  /\ page # "login"
  /\ Render(SignedOut, page, cs)
  /\ Ending(cs)
  /\ leaving' = TRUE
  /\ UNCHANGED <<server, ready, inputs>>

\* The login page is loaded, with what replies have left in the store meanwhile.
Unload ==
  /\ leaving
  /\ Load("login")
  /\ UNCHANGED inputs

LoginRefusedElsewhere(i) == calls[i].op = "login" /\ HardRedirect(Without(i))
\* Any other request of a page was answered 401.
Rejected == HardRedirect(calls)

\* navigate() by a page, not by the user: a repository was created or deleted,
\* or its settings are not this user's.
Navigated(p) ==
  /\ p # page
  /\ Render(store, p, calls)
  /\ UNCHANGED <<server, tab, inputs, ended>>

Expire(t) ==
  /\ issued[t] # Nobody
  /\ t \notin expired
  /\ expired' = expired \cup {t}
  /\ UNCHANGED <<issued, accounts, store, page, blank, tab, calls, inputs, history>>
-----------------------------------------------------------------------------
UserStep ==
  \/ \E p \in Pages : Go(p)
  \/ SignOut
  \/ \E u \in Users : SubmitLogin(u) \/ SubmitRegistration(u)
  \/ SaveProfile

Reply(i) ==
  \/ ProbeAccepted(i) \/ ProbeRefused(i)
  \/ Registered(i) \/ RegistrationRefused(i)
  \/ LoginAccepted(i) \/ LoginRefused(i) \/ LoginRefusedElsewhere(i)
  \/ GotUser(i) \/ Saved(i) \/ CallFails(i)

\* Steps in which the tab keeps its memory, and steps that load a page.
Stay == UserStep \/ (\E i \in Slots : Reply(i)) \/ \E t \in Tokens : Expire(t)
Fresh == (\E p \in Pages : Open(p)) \/ Unload

SessionInit ==
  \E p \in Pages, u \in Users, persisted \in BOOLEAN :
    /\ issued = [t \in Tokens |-> IF t = 1 /\ persisted THEN u ELSE Nobody]
    /\ expired = {}
    /\ accounts \in {us \in SUBSET Users : u \in us}
    /\ store = IF persisted THEN [token |-> 1, user |-> u] ELSE SignedOut
    /\ page = p
    /\ blank = FALSE
    /\ ready = (HasHydrated \/ ~ persisted)
    /\ leaving = FALSE
    /\ calls = [i \in Slots |-> IF i = 1 /\ persisted THEN ValidateToken(1) ELSE NoCall]
    /\ inputs = 0
    /\ crossed = {}
    /\ given = {}
    /\ ended = {}

SessionNext ==
  Stay \/ Fresh \/ Rejected \/ Elsewhere \/ \E p \in {"profile", "repo"} : Navigated(p)
SessionSpec == SessionInit /\ [][SessionNext]_sessionVars
-----------------------------------------------------------------------------
(* Whoever the store says is signed in is the user of its token, whatever  *)
(* the order of probes, logins, saves, redirects and sign-outs, but for a  *)
(* token that a login obtained over another session, the request for its   *)
(* user then carrying the other session's token (client.ts:12), and for    *)
(* one that a late answer or a login put in another session's place with   *)
(* no sign-out between (SettingsPage.tsx:42).                              *)
UserOfToken ==
  store.token \notin crossed \cup {Null} => store.user = issued[store.token]

(* A session that was signed out with none of its calls on the way does    *)
(* not come back: no reply, page load or redirect puts its token into the  *)
(* store again, also not in the time a redirect takes to unload the page.  *)
EndedStaysEnded == store.token \notin ended

(* Nothing the user does leaves a page behind whose hooks no longer match  *)
(* (SettingsPage.tsx:16), and no login does: the tab goes blank only when  *)
(* an answer ends the session over a guarded page, or brings one back that *)
(* had left the store while such a page is shown signed out.               *)
BlankOnlyByLateAnswer ==
  [][blank' /\ ~ blank =>
       inputs' = inputs /\ (store'.token # Null => store'.token \in given)]_sessionVars
=============================================================================
