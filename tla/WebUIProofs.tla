---------------------------- MODULE WebUIProofs ----------------------------
(***************************************************************************)
(* First the session by itself: it never names a wrong user, never comes   *)
(* back once it was given up, and only a late answer leaves a blank page,  *)
(* for every number of users, tokens, calls and inputs.  Then the pages    *)
(* leave the session alone: every step of the web UI is a step of          *)
(* WebSession or none, and likewise of WebBrowser, so what is proved of    *)
(* these by themselves holds of the UI.  Then the account's pages: whose   *)
(* data the cache holds, what lists show and who sends what; and last the  *)
(* types of it all, with how far the versions of the lists can get.        *)
(***************************************************************************)
EXTENDS WebUI, WebBrowserProofs, FiniteSetTheorems
-----------------------------------------------------------------------------
(* The session. *)

\* What a call on its way carries, of tokens that were issued and not given up.
\* A save that its page waits for has the token of the store; no probe or save
\* has one that neither is in the store nor was.
CallSound(c) ==
  /\ c.held # Null => issued[c.held] # Nobody /\ c.held \notin ended
  /\ c.sent # Null => issued[c.sent] # Nobody
  /\ c.op = "probe" => c.sent = c.held
  /\ c.op \in {"probe", "me", "save"} =>
       c.sent # Null /\ c.held # Null /\ (c.sent = c.held \/ c.held \in crossed)
  /\ c.op \in {"probe", "save"} => c.held = store.token \/ c.held \in given
  /\ c.op = "save" /\ c.live => c.held = store.token /\ page = "settings" /\ ~ blank
  /\ c.op \in {"register", "login"} => c.who \in Users

\* Tokens in use, and tokens given up, were issued.
StoreSound ==
  /\ store.token # Null => issued[store.token] # Nobody
  /\ store.token = Null => store.user = Nobody
  /\ \A t \in ended : t # Null /\ issued[t] # Nobody

SessionInv ==
  /\ SessionTypeOK
  /\ StoreSound
  /\ \A i \in Slots : CallSound(calls[i])
  /\ UserOfToken
  /\ EndedStaysEnded

LEMMA NullIsNoToken == Null \notin Tokens
  BY DEF Null, Tokens

LEMMA NoCallSound ==
  /\ NoCall \in Call /\ CallSound(NoCall) /\ CallSound(NoCall)'
  /\ NoCall.op = "none" /\ NoCall.held = Null /\ NoCall.sent = Null /\ ~ NoCall.live
  BY DEF NoCall, Call, Ops, Null, CallSound

LEMMA InitInv == SessionInit => SessionInv
<1> SUFFICES ASSUME SessionInit PROVE SessionInv
  OBVIOUS
<1> USE SessionAssumption
<1> PICK p \in Pages, u \in Users, persisted \in BOOLEAN :
      /\ issued = [t \in Tokens |-> IF t = 1 /\ persisted THEN u ELSE Nobody]
      /\ expired = {}
      /\ accounts \in {us \in SUBSET Users : u \in us}
      /\ store = IF persisted THEN [token |-> 1, user |-> u] ELSE SignedOut
      /\ page = p
      /\ blank = FALSE
      /\ ready = (HasHydrated \/ ~ persisted)
      /\ leaving = FALSE
      /\ calls = [i \in Slots |-> IF i = 1 /\ persisted THEN ValidateToken(1) ELSE NoCall]
      /\ inputs = 0
      /\ crossed = {}
      /\ given = {}
      /\ ended = {}
  BY DEF SessionInit
<1>1. 1 \in Tokens /\ 1 \in Slots
  BY DEF Tokens, Slots
<1>2. ValidateToken(1) \in Call
  BY <1>1 DEF ValidateToken, Call, Ops
<1>3. SessionTypeOK
  <2>1. issued \in [Tokens -> Users \cup {Nobody}] /\ expired \in SUBSET Tokens
    OBVIOUS
  <2>2. store \in Session
    BY <1>1 DEF Session, SignedOut
  <2>3. calls \in [Slots -> Call]
    BY <1>2, NoCallSound
  <2>4. inputs \in 0..MaxInputs
    OBVIOUS
  <2> QED
    BY <2>1, <2>2, <2>3, <2>4 DEF SessionTypeOK, HasHydrated
<1>4. StoreSound
  BY <1>1 DEF StoreSound, SignedOut, Null
<1>5. ASSUME NEW i \in Slots PROVE CallSound(calls[i])
  <2>1. CASE i = 1 /\ persisted
    <3>1. calls[i] = ValidateToken(1) /\ store.token = 1 /\ issued[1] = u
      BY <1>1, <2>1
    <3> QED
      BY <3>1 DEF CallSound, ValidateToken, Null
  <2>2. CASE ~ (i = 1 /\ persisted)
    BY <2>2, NoCallSound
  <2> QED
    BY <2>1, <2>2
<1>6. UserOfToken /\ EndedStaysEnded
  BY <1>1 DEF UserOfToken, EndedStaysEnded, SignedOut, Null
<1> QED
  BY <1>3, <1>4, <1>5, <1>6 DEF SessionInv
-----------------------------------------------------------------------------
(* Steps that leave the store alone.                                       *)

LEMMA StoreStays ==
  ASSUME SessionInv, UNCHANGED <<issued, expired, store, history>>, accounts' \in SUBSET Users,
         page' \in Pages, blank' \in BOOLEAN, ready' \in BOOLEAN, leaving' \in BOOLEAN,
         inputs' \in 0..MaxInputs,
         calls' \in [Slots -> Call], \A i \in Slots : CallSound(calls[i])'
  PROVE  SessionInv'
<1>1. SessionTypeOK'
  BY DEF SessionInv, SessionTypeOK, history
<1>2. StoreSound' /\ UserOfToken' /\ EndedStaysEnded'
  BY DEF SessionInv, StoreSound, UserOfToken, EndedStaysEnded, history
<1> QED
  BY <1>1, <1>2 DEF SessionInv

LEMMA InputCounts ==
  ASSUME SessionTypeOK, Input PROVE inputs' \in 0..MaxInputs
  BY SessionAssumption DEF SessionTypeOK, Input

\* A page load, signed in as before or not at all.
LEMMA LoadKeeps ==
  ASSUME SessionInv, NEW p \in Pages, Load(p), inputs' \in 0..MaxInputs
  PROVE  SessionInv'
<1>1. /\ UNCHANGED <<store, server, history>> /\ page' = p /\ blank' \in BOOLEAN
      /\ ready' \in BOOLEAN /\ leaving' \in BOOLEAN
      /\ calls' = [i \in Slots |->
           IF i = 1 /\ Signed THEN ValidateToken(store.token) ELSE NoCall]
  BY DEF Load, HasHydrated
<1>2. store.token \in Tokens \cup {Null} /\ accounts' \in SUBSET Users
  BY <1>1 DEF SessionInv, SessionTypeOK, Session, server
<1>3. ValidateToken(store.token) \in Call
  BY <1>2 DEF ValidateToken, Call, Ops
<1>4. Signed => CallSound(ValidateToken(store.token))'
  BY <1>1 DEF CallSound, ValidateToken, SessionInv, StoreSound, EndedStaysEnded, Signed,
     server, history
<1>5. ASSUME NEW i \in Slots PROVE calls'[i] \in Call /\ CallSound(calls[i])'
  <2>1. CASE i = 1 /\ Signed
    <3>1. calls'[i] = ValidateToken(store.token)
      BY <1>1, <2>1
    <3>2. CallSound(calls[i])' <=> CallSound(ValidateToken(store.token))'
      BY <1>1, <3>1 DEF CallSound, ValidateToken
    <3> QED
      BY <1>3, <1>4, <2>1, <3>1, <3>2
  <2>2. CASE ~ (i = 1 /\ Signed)
    <3>1. calls'[i] = NoCall
      BY <1>1, <2>2
    <3> QED
      BY <3>1, NoCallSound DEF CallSound, NoCall
  <2> QED
    BY <2>1, <2>2
<1>6. calls' \in [Slots -> Call]
  BY <1>1, <1>5
<1> QED
  BY <1>1, <1>2, <1>5, <1>6, StoreStays DEF server

LEMMA OpenKeeps == ASSUME SessionInv, NEW p \in Pages, Open(p) PROVE SessionInv'
  BY InputCounts, LoadKeeps DEF Open, SessionInv

LEMMA UnloadKeeps == ASSUME SessionInv, Unload PROVE SessionInv'
<1>1. "login" \in Pages /\ inputs' \in 0..MaxInputs
  BY DEF Pages, Unload, SessionInv, SessionTypeOK
<1> QED
  BY <1>1, LoadKeeps DEF Unload

LEMMA SendKeeps ==
  ASSUME SessionInv, NEW c \in Call, CallSound(c), Send(c),
         UNCHANGED <<server, store, page, blank, tab, history>>, Input
  PROVE  SessionInv'
<1>1. PICK i \in Slots : calls' = [calls EXCEPT ![i] = c]
  BY DEF Send
<1>2. calls \in [Slots -> Call] /\ inputs' \in 0..MaxInputs
  BY InputCounts DEF SessionInv, SessionTypeOK
<1>3. \A j \in Slots : CallSound(calls'[j])
  BY <1>1, <1>2 DEF SessionInv
<1>4. \A j \in Slots : CallSound(calls[j])'
  BY <1>3 DEF CallSound, server, history
<1>5. /\ accounts' \in SUBSET Users /\ page' \in Pages /\ blank' \in BOOLEAN
      /\ ready' \in BOOLEAN /\ leaving' \in BOOLEAN
  BY DEF SessionInv, SessionTypeOK, server, tab
<1>6. calls' \in [Slots -> Call]
  BY <1>1, <1>2
<1> QED
  BY <1>2, <1>4, <1>5, <1>6, StoreStays DEF server

LEMMA PostSound ==
  ASSUME NEW op \in {"register", "login"}, NEW u \in Users
  PROVE  Post(op, u) \in Call /\ CallSound(Post(op, u))
  BY DEF Post, Call, Ops, CallSound

LEMMA SubmitKeeps ==
  ASSUME SessionInv, NEW u \in Users, SubmitLogin(u) \/ SubmitRegistration(u)
  PROVE  SessionInv'
<1>1. PICK op \in {"register", "login"} : Send(Post(op, u))
  BY DEF SubmitLogin, SubmitRegistration
<1>2. UNCHANGED <<server, store, page, blank, tab, history>> /\ Input
  BY DEF SubmitLogin, SubmitRegistration
<1> QED
  BY <1>1, <1>2, PostSound, SendKeeps

LEMMA SaveProfileKeeps == ASSUME SessionInv, SaveProfile PROVE SessionInv'
<1>1. /\ Send(UpdateProfile) /\ Signed /\ Input /\ page = "settings" /\ ~ blank
      /\ UNCHANGED <<server, store, page, blank, tab, history>>
  BY DEF SaveProfile, Shown
<1>2. UpdateProfile \in Call /\ CallSound(UpdateProfile)
  BY <1>1 DEF UpdateProfile, Bearer, Signed, Call, Ops, Session, CallSound,
     SessionInv, SessionTypeOK, StoreSound, EndedStaysEnded
<1> QED
  BY <1>1, <1>2, SendKeeps

LEMMA ElsewhereKeeps == ASSUME SessionInv, Elsewhere PROVE SessionInv'
<1>1. UNCHANGED <<server, store, page, blank, tab, calls, history>>
  BY DEF Elsewhere
<1>2. inputs' \in 0..MaxInputs
  BY InputCounts DEF Elsewhere, SessionInv
<1>3. \A i \in Slots : CallSound(calls[i])'
  BY <1>1 DEF SessionInv, CallSound, server, history
<1> QED
  BY <1>1, <1>2, <1>3, StoreStays DEF SessionInv, SessionTypeOK, server, tab

\* A reply that its form reports, or that comes too late for one.
LEMMA ReportedKeeps ==
  ASSUME SessionInv, NEW i \in Slots,
         RegistrationRefused(i) \/ LoginRefused(i) \/ CallFails(i)
  PROVE  SessionInv'
<1>1. calls' = Without(i)
  BY DEF RegistrationRefused, LoginRefused, CallFails
<1>2. UNCHANGED <<issued, expired, store, page, blank, tab, inputs, history>>
  BY DEF RegistrationRefused, LoginRefused, CallFails, server
<1>3. accounts \in SUBSET Users /\ CallSound(calls[i]) /\ calls \in [Slots -> Call]
  BY DEF SessionInv, SessionTypeOK
<1>4. calls[i].op = "register" => calls[i].who \in Users
  BY <1>3 DEF CallSound
<1>5. accounts' \in SUBSET Users
  BY <1>3, <1>4 DEF RegistrationRefused, LoginRefused, CallFails, server
<1>6. calls' \in [Slots -> Call]
  BY <1>1, <1>3, NoCallSound DEF Without
<1>7. \A j \in Slots : CallSound(calls'[j])
  BY <1>1, <1>3, NoCallSound DEF Without, SessionInv
<1>8. \A j \in Slots : CallSound(calls[j])'
  BY <1>2, <1>7 DEF CallSound, history
<1> QED
  BY <1>2, <1>5, <1>6, <1>8, StoreStays DEF SessionInv, SessionTypeOK, tab

\* A call that goes on as c, which is sound with the tokens given out by then.
LEMMA GoesOnKeeps ==
  ASSUME SessionInv, NEW i \in Slots, NEW c \in Call,
         calls' = [calls EXCEPT ![i] = c], CallSound(c)',
         issued' \in [Tokens -> Users \cup {Nobody}], accounts' \in SUBSET Users,
         \A t \in Tokens : issued[t] # Nobody => issued'[t] = issued[t],
         crossed' \in SUBSET Tokens, crossed \subseteq crossed',
         UNCHANGED <<expired, store, page, blank, tab, inputs, given, ended>>
  PROVE  SessionInv'
<1>1. calls \in [Slots -> Call] /\ store.token \in Tokens \cup {Null} /\ ended \in SUBSET Tokens
  BY DEF SessionInv, SessionTypeOK, Session
<1>2. ASSUME NEW j \in Slots PROVE CallSound(calls[j])'
  <2>1. CASE j = i
    <3>1. calls'[j] = c
      BY <1>1, <2>1
    <3>2. CallSound(c)' <=> (CallSound(calls[j])')
      BY <3>1 DEF CallSound
    <3> QED
      BY <3>2
  <2>2. CASE j # i
    <3>1. calls'[j] = calls[j] /\ calls[j] \in Call /\ CallSound(calls[j])
      BY <1>1, <2>2 DEF SessionInv
    <3>2. calls[j].held \in Tokens \cup {Null} /\ calls[j].sent \in Tokens \cup {Null}
      BY <3>1 DEF Call
    <3> QED
      BY <3>1, <3>2 DEF CallSound
  <2> QED
    BY <2>1, <2>2
<1>3. calls' \in [Slots -> Call]
  BY <1>1
<1>4. SessionTypeOK'
  BY <1>3 DEF SessionInv, SessionTypeOK, tab
<1>5. StoreSound' /\ UserOfToken' /\ EndedStaysEnded'
  BY <1>1 DEF SessionInv, StoreSound, UserOfToken, EndedStaysEnded
<1> QED
  BY <1>2, <1>4, <1>5 DEF SessionInv

LEMMA RegisteredKeeps ==
  ASSUME SessionInv, NEW i \in Slots, Registered(i) PROVE SessionInv'
<1> PICK c : c = [calls[i] EXCEPT !.op = "login"]
  OBVIOUS
<1>1. calls[i] \in Call /\ CallSound(calls[i]) /\ calls[i].op = "register"
  BY DEF Registered, SessionInv, SessionTypeOK
<1>2. c \in Call
  BY <1>1 DEF Call, Ops
<1>3. c.sent = calls[i].sent /\ c.held = calls[i].held /\ c.who = calls[i].who /\ c.op = "login"
  BY <1>1 DEF Call
<1>4. CallSound(c)'
  BY <1>1, <1>3 DEF CallSound, Registered, history
<1>5. accounts' \in SUBSET Users
  BY <1>1 DEF CallSound, Registered, SessionInv, SessionTypeOK
<1>6. calls' = [calls EXCEPT ![i] = c]
  BY DEF Registered
<1> QED
  BY <1>1, <1>2, <1>4, <1>5, <1>6, GoesOnKeeps DEF Registered, SessionInv, SessionTypeOK, history

LEMMA LoginAcceptedKeeps ==
  ASSUME SessionInv, NEW i \in Slots, LoginAccepted(i) PROVE SessionInv'
<1> PICK t \in Tokens :
      /\ NextToken(t)
      /\ issued' = [issued EXCEPT ![t] = calls[i].who]
      /\ calls' = [calls EXCEPT ![i] = [GetCurrentUser(t) EXCEPT !.live = calls[i].live]]
      /\ crossed' = IF Signed THEN crossed \cup {t} ELSE crossed
  BY DEF LoginAccepted
<1> PICK c : c = [GetCurrentUser(t) EXCEPT !.live = calls[i].live]
  OBVIOUS
<1>1. calls[i] \in Call /\ CallSound(calls[i]) /\ calls[i].op = "login"
  BY DEF LoginAccepted, SessionInv, SessionTypeOK
<1>2. calls[i].who \in Users /\ calls[i].who # Nobody
  BY <1>1, SessionAssumption DEF CallSound
<1>3. /\ store.token \in Tokens \cup {Null} /\ issued \in [Tokens -> Users \cup {Nobody}]
      /\ crossed \in SUBSET Tokens
  BY DEF SessionInv, SessionTypeOK, Session
<1>4. /\ c.op = "me" /\ c.held = t /\ c.live = calls[i].live
      /\ c.sent = IF Signed THEN store.token ELSE t
  BY DEF GetCurrentUser, Bearer
<1>5. c \in Call
  BY <1>1, <1>3 DEF GetCurrentUser, Bearer, Call, Ops
<1>6. issued[t] = Nobody /\ issued'[t] # Nobody /\ t \notin ended
  BY <1>2, <1>3 DEF NextToken, SessionInv, StoreSound
<1>7. Signed => issued[store.token] # Nobody /\ store.token \in Tokens
  BY <1>3 DEF Signed, SessionInv, StoreSound
<1>8. \A s \in Tokens : issued[s] # Nobody => issued'[s] = issued[s]
  BY <1>3, <1>6
<1>9. issued' \in [Tokens -> Users \cup {Nobody}]
  BY <1>2, <1>3
<1>10. calls' = [calls EXCEPT ![i] = c]
  OBVIOUS
<1>11. c.sent # Null => issued'[c.sent] # Nobody
  BY <1>4, <1>6, <1>7, <1>8
<1>12. c.held \notin ended' /\ c.held # Null /\ c.sent # Null
  BY <1>4, <1>6, <1>7, NullIsNoToken DEF LoginAccepted, Signed
<1>13. crossed' \in SUBSET Tokens /\ crossed \subseteq crossed'
  BY <1>3
<1>14. c.sent = c.held \/ c.held \in crossed'
  BY <1>4
<1>15. CallSound(c)'
  BY <1>4, <1>6, <1>11, <1>12, <1>14 DEF CallSound
<1>16. accounts' \in SUBSET Users
  BY DEF LoginAccepted, SessionInv, SessionTypeOK
<1> QED
  BY <1>5, <1>8, <1>9, <1>10, <1>13, <1>15, <1>16, GoesOnKeeps DEF LoginAccepted

LEMMA ExpireKeeps == ASSUME SessionInv, NEW t \in Tokens, Expire(t) PROVE SessionInv'
<1>1. UNCHANGED <<issued, accounts, store, page, blank, tab, calls, inputs, history>>
  BY DEF Expire
<1> QED
  BY <1>1 DEF Expire, SessionInv, SessionTypeOK, StoreSound, CallSound, UserOfToken,
     EndedStaysEnded, history, tab

LEMMA StutterKeeps == ASSUME SessionInv, UNCHANGED sessionVars PROVE SessionInv'
  BY DEF sessionVars, server, history, tab, SessionInv, SessionTypeOK, StoreSound, CallSound,
     UserOfToken, EndedStaysEnded
-----------------------------------------------------------------------------
(* Steps over the component tree.                                          *)

\* What becomes of the route, and of the page a save is waited for on.
LEMMA RenderRoutes ==
  ASSUME SessionInv, NEW st, NEW p \in Pages, NEW cs, Render(st, p, cs)
  PROVE  /\ store' = st /\ page' \in Pages /\ blank' \in BOOLEAN
         /\ page = "settings" /\ Signed /\ page' = page /\ blank' = blank /\ ~ blank =>
              st.token # Null
  BY DEF Render, SessionInv, SessionTypeOK, Pages, Guarded

\* What is left of the calls: some of them, all rendered.
LEMMA RenderedKeeps ==
  ASSUME SessionInv, NEW st \in Session, NEW p \in Pages, NEW cs \in [Slots -> Call],
         Render(st, p, cs), \A i \in Slots : cs[i] \in {calls[i], NoCall},
         st.token # Null => issued[st.token] # Nobody /\ st.token \notin ended',
         \A t \in ended' \ ended, i \in Slots : cs[i].held # t,
         issued' = issued
  PROVE  calls' \in [Slots -> Call] /\ \A i \in Slots : CallSound(calls[i])'
<1>1. /\ store' = st /\ calls' = Rendered(cs)
      /\ given' = given \cup ({store.token} \ {st.token, Null})
      /\ crossed' = crossed \cup {t \in {st.token} \ {store.token, Null} : Signed}
  BY DEF Render
<1>2. st.token \in Tokens \cup {Null} /\ Null \notin Tokens
  BY NullIsNoToken DEF Session
<1> SUFFICES ASSUME NEW i \in Slots
             PROVE  calls'[i] \in Call /\ CallSound(calls[i])'
  BY <1>1 DEF Rendered
<1> DEFINE c == cs[i]
           moved == c.op = "save" /\ c.live /\ st.token # Null
<1>3. CallSound(c) /\ c \in Call
  BY NoCallSound DEF SessionInv
<1>4. calls'[i] = [c EXCEPT !.held = IF moved THEN st.token ELSE @,
                            !.live = @ /\ page' = page /\ blank' = blank]
  BY <1>1 DEF Rendered
<1>5. /\ calls'[i].op = c.op /\ calls'[i].sent = c.sent /\ calls'[i].who = c.who
      /\ calls'[i].held = IF moved THEN st.token ELSE c.held
      /\ calls'[i].live = (c.live /\ page' = page /\ blank' = blank)
  BY <1>3, <1>4 DEF Call
<1>6. calls'[i] \in Call
  BY <1>2, <1>3, <1>4 DEF Call
<1>7. c.op = "save" /\ c.live => Signed /\ c.held = store.token
  BY <1>3 DEF CallSound, Signed
<1>8. calls'[i].held # Null => issued[calls'[i].held] # Nobody /\ calls'[i].held \notin ended'
  BY <1>3, <1>5 DEF CallSound
<1>9. c.op \in {"probe", "me", "save"} =>
        /\ calls'[i].sent # Null /\ calls'[i].held # Null
        /\ calls'[i].sent = calls'[i].held \/ calls'[i].held \in crossed'
  <2>1. CASE moved
    <3>1. st.token # store.token => st.token \in crossed'
      BY <1>1, <1>7, <2>1
    <3> QED
      BY <1>1, <1>3, <1>5, <1>7, <2>1, <3>1 DEF CallSound
  <2>2. CASE ~ moved
    BY <1>1, <1>3, <1>5, <2>2 DEF CallSound
  <2> QED
    BY <2>1, <2>2
<1>10. c.op \in {"probe", "save"} => calls'[i].held = st.token \/ calls'[i].held \in given'
  BY <1>1, <1>3, <1>5 DEF CallSound
<1>11. calls'[i].op = "save" /\ calls'[i].live =>
         calls'[i].held = store'.token /\ page' = "settings" /\ ~ blank'
  BY <1>1, <1>3, <1>5, <1>7, RenderRoutes DEF CallSound
<1>12. calls'[i].op = "probe" => calls'[i].sent = calls'[i].held
  BY <1>3, <1>5 DEF CallSound
<1> HIDE DEF c, moved
<1>13. c.sent # Null => issued[c.sent] # Nobody
  BY <1>3 DEF CallSound
<1>14. c.op \in {"register", "login"} => c.who \in Users
  BY <1>3 DEF CallSound
<1> QED
  BY <1>1, <1>5, <1>6, <1>8, <1>9, <1>10, <1>11, <1>12, <1>13, <1>14 DEF CallSound

\* Such a step keeps the invariant if what it stores is sound, and what it gives
\* up for good is neither stored nor held.
LEMMA RenderKeeps ==
  ASSUME SessionInv, NEW st \in Session, NEW p \in Pages, NEW cs \in [Slots -> Call],
         Render(st, p, cs), \A i \in Slots : cs[i] \in {calls[i], NoCall},
         st.token = Null => st.user = Nobody,
         st.token # Null => issued[st.token] # Nobody /\ st.token \notin ended',
         st.token \notin crossed' \cup {Null} => st.user = issued[st.token],
         ended' \in SUBSET Tokens,
         \A t \in ended' \ ended : /\ issued[t] # Nobody
                                   /\ \A i \in Slots : cs[i].held # t,
         UNCHANGED server, ready' \in BOOLEAN, leaving' \in BOOLEAN, inputs' \in 0..MaxInputs
  PROVE  SessionInv'
<1>1. /\ store' = st
      /\ given' = given \cup ({store.token} \ {st.token, Null})
      /\ crossed' = crossed \cup {t \in {st.token} \ {store.token, Null} : Signed}
  BY DEF Render
<1>2. /\ st.token \in Tokens \cup {Null} /\ store.token \in Tokens \cup {Null}
      /\ given \in SUBSET Tokens /\ crossed \in SUBSET Tokens
  BY DEF Session, SessionInv, SessionTypeOK
<1>3. calls' \in [Slots -> Call] /\ \A i \in Slots : CallSound(calls[i])'
  BY RenderedKeeps DEF server
<1>4. page' \in Pages /\ blank' \in BOOLEAN
  BY RenderRoutes
<1>5. given' \in SUBSET Tokens /\ crossed' \in SUBSET Tokens
  BY <1>1, <1>2
<1>6. SessionTypeOK'
  BY <1>1, <1>3, <1>4, <1>5 DEF SessionInv, SessionTypeOK, server
<1>7. StoreSound'
  BY <1>1, NullIsNoToken DEF SessionInv, StoreSound, server
<1>8. UserOfToken'
  BY <1>1 DEF UserOfToken, server
<1>9. EndedStaysEnded'
  BY <1>1, NullIsNoToken DEF EndedStaysEnded
<1> QED
  BY <1>3, <1>6, <1>7, <1>8, <1>9 DEF SessionInv

\* Another route over the same session.
LEMMA RouteKeeps ==
  ASSUME SessionInv, NEW p \in Pages, Render(store, p, calls),
         UNCHANGED <<server, tab, ended>>, inputs' \in 0..MaxInputs
  PROVE  SessionInv'
<1>1. /\ store \in Session /\ calls \in [Slots -> Call] /\ ended \in SUBSET Tokens
      /\ ready \in BOOLEAN /\ leaving \in BOOLEAN
  BY DEF SessionInv, SessionTypeOK
<1>2. crossed' = crossed
  BY DEF Render
<1>3. /\ store.token = Null => store.user = Nobody
      /\ store.token # Null => issued[store.token] # Nobody /\ store.token \notin ended'
      /\ store.token \notin crossed' \cup {Null} => store.user = issued[store.token]
  BY <1>2 DEF SessionInv, StoreSound, UserOfToken, EndedStaysEnded
<1> QED
  BY <1>1, <1>3, RenderKeeps DEF tab

LEMMA GoKeeps == ASSUME SessionInv, NEW p \in Pages, Go(p) PROVE SessionInv'
  BY InputCounts, RouteKeeps DEF Go, SessionInv

LEMMA NavigatedKeeps ==
  ASSUME SessionInv, NEW p \in Pages, Navigated(p) PROVE SessionInv'
  BY RouteKeeps DEF Navigated, SessionInv, SessionTypeOK

LEMMA WithoutKeeps ==
  ASSUME SessionInv, NEW i \in Slots
  PROVE  /\ Without(i) \in [Slots -> Call]
         /\ \A j \in Slots : Without(i)[j] \in {calls[j], NoCall}
  BY NoCallSound DEF Without, SessionInv, SessionTypeOK

\* The reply i signs in with the token its call held.
LEMMA SignedInKeeps ==
  ASSUME SessionInv, NEW i \in Slots, NEW p \in Pages,
         calls[i].op \in {"probe", "me", "save"},
         Render([token |-> calls[i].held, user |-> issued[calls[i].sent]], p, Without(i)),
         UNCHANGED <<server, inputs, ended>>, ready' \in BOOLEAN, leaving' \in BOOLEAN
  PROVE  SessionInv'
<1> DEFINE st == [token |-> calls[i].held, user |-> issued[calls[i].sent]]
<1>1. calls[i] \in Call /\ CallSound(calls[i])
  BY DEF SessionInv, SessionTypeOK
<1>2. calls[i].held \in Tokens /\ calls[i].sent \in Tokens
  BY <1>1 DEF CallSound, Call
<1>3. st \in Session /\ st.token = calls[i].held /\ st.user = issued[calls[i].sent]
  BY <1>2 DEF Session, SessionInv, SessionTypeOK
<1>4. st.token # Null /\ issued[st.token] # Nobody /\ st.token \notin ended'
  BY <1>1, <1>2, <1>3, NullIsNoToken DEF CallSound
<1>5. crossed \subseteq crossed'
  BY DEF Render
<1>6. st.token \notin crossed' => st.user = issued[st.token]
  BY <1>1, <1>3, <1>5 DEF CallSound
<1>7. ended' \in SUBSET Tokens /\ ended' \ ended = {} /\ inputs' \in 0..MaxInputs
  BY DEF SessionInv, SessionTypeOK
<1> HIDE DEF st
<1>8. Render(st, p, Without(i))
  BY DEF st
<1> QED
  BY <1>3, <1>4, <1>6, <1>7, <1>8, WithoutKeeps, RenderKeeps

LEMMA ProbeAcceptedKeeps ==
  ASSUME SessionInv, NEW i \in Slots, ProbeAccepted(i) PROVE SessionInv'
<1>1. page \in Pages /\ leaving' \in BOOLEAN
  BY DEF ProbeAccepted, SessionInv, SessionTypeOK
<1> QED
  BY <1>1, SignedInKeeps DEF ProbeAccepted

LEMMA GotUserKeeps ==
  ASSUME SessionInv, NEW i \in Slots, GotUser(i) PROVE SessionInv'
<1>1. "home" \in Pages /\ ready' \in BOOLEAN /\ leaving' \in BOOLEAN
  BY DEF GotUser, Pages, SessionInv, SessionTypeOK, tab
<1> QED
  BY <1>1, SignedInKeeps DEF GotUser

LEMMA SavedKeeps ==
  ASSUME SessionInv, NEW i \in Slots, Saved(i) PROVE SessionInv'
<1>1. page \in Pages /\ ready' \in BOOLEAN /\ leaving' \in BOOLEAN
  BY DEF Saved, SessionInv, SessionTypeOK, tab
<1> QED
  BY <1>1, SignedInKeeps DEF Saved

\* A sign-out, after which cs remain.
LEMMA SignedOutKeeps ==
  ASSUME SessionInv, NEW p \in Pages, NEW cs \in [Slots -> Call],
         \A i \in Slots : cs[i] \in {calls[i], NoCall},
         Render(SignedOut, p, cs), Ending(cs), UNCHANGED server,
         ready' \in BOOLEAN, leaving' \in BOOLEAN, inputs' \in 0..MaxInputs
  PROVE  SessionInv'
<1>1. store.token \in Tokens \cup {Null} /\ ended \in SUBSET Tokens
  BY DEF SessionInv, SessionTypeOK, Session
<1>2. /\ ended' \in SUBSET Tokens
      /\ \A t \in ended' \ ended : /\ t = store.token /\ t # Null
                                   /\ \A i \in Slots : cs[i].held # t
  BY <1>1 DEF Ending
<1>3. \A t \in ended' \ ended : issued[t] # Nobody
  BY <1>2 DEF SessionInv, StoreSound
<1>4. SignedOut \in Session /\ SignedOut.token = Null /\ SignedOut.user = Nobody
  BY DEF SignedOut, Session
<1> QED
  BY <1>2, <1>3, <1>4, RenderKeeps

LEMMA SignOutKeeps == ASSUME SessionInv, SignOut PROVE SessionInv'
<1>1. /\ Render(SignedOut, "login", calls) /\ Ending(calls) /\ UNCHANGED server
      /\ inputs' \in 0..MaxInputs
  BY InputCounts DEF SignOut, SessionInv
<1>2. /\ "login" \in Pages /\ ready' \in BOOLEAN /\ leaving' \in BOOLEAN
      /\ calls \in [Slots -> Call]
  BY DEF SignOut, tab, Pages, SessionInv, SessionTypeOK
<1> QED
  BY <1>1, <1>2, SignedOutKeeps

LEMMA ProbeRefusedKeeps ==
  ASSUME SessionInv, NEW i \in Slots, ProbeRefused(i) PROVE SessionInv'
<1>1. /\ Render(SignedOut, page, Without(i)) /\ Ending(Without(i)) /\ UNCHANGED server
      /\ ready' \in BOOLEAN
  BY DEF ProbeRefused
<1>2. page \in Pages /\ leaving' \in BOOLEAN /\ inputs' \in 0..MaxInputs
  BY DEF ProbeRefused, SessionInv, SessionTypeOK
<1> QED
  BY <1>1, <1>2, WithoutKeeps, SignedOutKeeps

LEMMA HardRedirectKeeps ==
  ASSUME SessionInv, NEW cs \in [Slots -> Call],
         \A i \in Slots : cs[i] \in {calls[i], NoCall}, HardRedirect(cs)
  PROVE  SessionInv'
<1>1. /\ Render(SignedOut, page, cs) /\ Ending(cs) /\ UNCHANGED server
      /\ leaving' \in BOOLEAN
  BY DEF HardRedirect
<1>2. page \in Pages /\ ready' \in BOOLEAN /\ inputs' \in 0..MaxInputs
  BY DEF HardRedirect, SessionInv, SessionTypeOK
<1> QED
  BY <1>1, <1>2, SignedOutKeeps

LEMMA RejectedKeeps == ASSUME SessionInv, Rejected PROVE SessionInv'
  BY HardRedirectKeeps DEF Rejected, SessionInv, SessionTypeOK

LEMMA LoginRefusedElsewhereKeeps ==
  ASSUME SessionInv, NEW i \in Slots, LoginRefusedElsewhere(i) PROVE SessionInv'
  BY WithoutKeeps, HardRedirectKeeps DEF LoginRefusedElsewhere
-----------------------------------------------------------------------------
LEMMA StayInv == ASSUME SessionInv, Stay PROVE SessionInv'
<1>1. ASSUME NEW p \in Pages, Go(p) PROVE SessionInv'
  BY <1>1, GoKeeps
<1>2. CASE SignOut
  BY <1>2, SignOutKeeps
<1>3. ASSUME NEW u \in Users, SubmitLogin(u) \/ SubmitRegistration(u) PROVE SessionInv'
  BY <1>3, SubmitKeeps
<1>4. CASE SaveProfile
  BY <1>4, SaveProfileKeeps
<1>5. ASSUME NEW i \in Slots, Reply(i) PROVE SessionInv'
  BY <1>5, ProbeAcceptedKeeps, ProbeRefusedKeeps, RegisteredKeeps, LoginAcceptedKeeps,
     GotUserKeeps, SavedKeeps, ReportedKeeps, LoginRefusedElsewhereKeeps DEF Reply
<1>6. ASSUME NEW t \in Tokens, Expire(t) PROVE SessionInv'
  BY <1>6, ExpireKeeps
<1> QED
  BY <1>1, <1>2, <1>3, <1>4, <1>5, <1>6 DEF Stay, UserStep

LEMMA FreshInv == ASSUME SessionInv, Fresh PROVE SessionInv'
  BY OpenKeeps, UnloadKeeps DEF Fresh

LEMMA NextInv == ASSUME SessionInv, SessionNext PROVE SessionInv'
<1>1. {"profile", "repo"} \subseteq Pages
  BY DEF Pages
<1> QED
  BY <1>1, StayInv, FreshInv, RejectedKeeps, ElsewhereKeeps, NavigatedKeeps DEF SessionNext

\* What blanks a page.
LEMMA RenderBlanks ==
  ASSUME NEW st, NEW p, NEW cs, Render(st, p, cs), blank', ~ blank
  PROVE  p = page /\ p \in Guarded /\ Signed # (st.token # Null) /\ store' = st
  BY DEF Render

\* The steps that leave a page blank, from states the invariant allows.
LEMMA LateAnswersBlank ==
  ASSUME SessionInv, SessionNext, blank', ~ blank
  PROVE  inputs' = inputs /\ (store'.token # Null => store'.token \in given)
<1> DEFINE Goal == inputs' = inputs /\ (store'.token # Null => store'.token \in given)
\* An answer that signs in finds the page signed out, and its token in the past.
<1>1. ASSUME NEW i \in Slots, ProbeAccepted(i) \/ Saved(i) PROVE Goal
  <2>1. /\ Render([token |-> calls[i].held, user |-> issued[calls[i].sent]], page, Without(i))
        /\ calls[i].op \in {"probe", "save"} /\ inputs' = inputs /\ CallSound(calls[i])
    BY <1>1 DEF ProbeAccepted, Saved, SessionInv
  <2>2. Signed # (calls[i].held # Null) /\ store'.token = calls[i].held
    BY <2>1, RenderBlanks
  <2> QED
    BY <2>1, <2>2 DEF CallSound, Signed
\* An answer that signs out.
<1>2. ASSUME NEW cs, Render(SignedOut, page, cs), inputs' = inputs PROVE Goal
  BY <1>2 DEF Render, SignedOut
<1>3. ASSUME NEW i \in Slots, ProbeRefused(i) \/ LoginRefusedElsewhere(i) PROVE Goal
  BY <1>2, <1>3 DEF ProbeRefused, LoginRefusedElsewhere, HardRedirect
<1>4. Rejected => Goal
  BY <1>2 DEF Rejected, HardRedirect
\* All other steps go to another page, load one, or leave the tree alone.
<1>5. ASSUME NEW p \in Pages, Go(p) \/ Navigated(p) PROVE FALSE
  BY <1>5, RenderBlanks DEF Go, Navigated, Signed
<1>6. ASSUME NEW i \in Slots, SignOut \/ GotUser(i) PROVE FALSE
  <2>1. ~ SignOut
    <3>1. "login" \notin Guarded
      BY DEF Guarded
    <3> QED
      BY <3>1, RenderBlanks DEF SignOut
  <2>2. ~ GotUser(i)
    <3>1. "home" \notin Guarded
      BY DEF Guarded
    <3>2. GotUser(i) =>
            Render([token |-> calls[i].held, user |-> issued[calls[i].sent]], "home", Without(i))
      BY DEF GotUser
    <3> QED
      BY <3>1, <3>2, RenderBlanks
  <2> QED
    BY <1>6, <2>1, <2>2
<1>7. ASSUME Fresh PROVE FALSE
  BY <1>7 DEF Fresh, Open, Unload, Load
<1>8. ASSUME blank' = blank PROVE FALSE
  BY <1>8
<1>9. ASSUME NEW u \in Users, SubmitLogin(u) \/ SubmitRegistration(u) PROVE FALSE
  BY <1>8, <1>9 DEF SubmitLogin, SubmitRegistration
<1>10. ASSUME NEW i \in Slots,
             \/ Registered(i) \/ RegistrationRefused(i) \/ LoginAccepted(i)
             \/ LoginRefused(i) \/ CallFails(i)
      PROVE FALSE
  BY <1>8, <1>10 DEF Registered, RegistrationRefused, LoginAccepted, LoginRefused, CallFails
<1>11. ASSUME SaveProfile \/ Elsewhere \/ \E t \in Tokens : Expire(t) PROVE FALSE
  BY <1>8, <1>11 DEF SaveProfile, Elsewhere, Expire
<1>12. {"profile", "repo"} \subseteq Pages /\ 1 \in Slots
  BY SessionAssumption DEF Pages, Slots
<1> QED
  BY <1>1, <1>3, <1>4, <1>5, <1>6, <1>7, <1>9, <1>10, <1>11, <1>12
     DEF SessionNext, Stay, UserStep, Reply

(* The inductive invariant: the types, who the tokens in use belong to,    *)
(* what the calls on their way carry, and which of their tokens the store  *)
(* has or had.                                                             *)
THEOREM SessionInvariant == SessionSpec => []SessionInv
<1>1. SessionInv /\ [SessionNext]_sessionVars => SessionInv'
  BY NextInv, StutterKeeps
<1> QED
  BY <1>1, InitInv, PTL DEF SessionSpec

(* The user in the store is the user of its token, whatever order probes,  *)
(* logins, saves, redirects and sign-outs come in (client.ts:12), unless   *)
(* the token came over another session.                                    *)
THEOREM StoreNamesItsUser == SessionSpec => []UserOfToken
<1>1. SessionInv => UserOfToken
  BY DEF SessionInv
<1> QED
  BY <1>1, SessionInvariant, PTL

(* A session signed out with none of its calls on the way never comes back,*)
(* nor in the time between a redirect and the unload (client.ts:30).       *)
THEOREM SessionsEnd == SessionSpec => []EndedStaysEnded
<1>1. SessionInv => EndedStaysEnded
  BY DEF SessionInv
<1> QED
  BY <1>1, SessionInvariant, PTL

(* Only an answer that ends a session, or brings one back, leaves a page   *)
(* behind whose hooks do not match (SettingsPage.tsx:16).                  *)
THEOREM OnlyLateAnswersBlank == SessionSpec => BlankOnlyByLateAnswer
<1>1. SessionInv /\ [SessionNext]_sessionVars =>
        [blank' /\ ~ blank =>
           inputs' = inputs /\ (store'.token # Null => store'.token \in given)]_sessionVars
  BY LateAnswersBlank
<1> QED
  BY <1>1, SessionInvariant, PTL DEF SessionSpec, BlankOnlyByLateAnswer
-----------------------------------------------------------------------------
(* The session and the browser in the whole UI. *)

LEMMA AccountStepsAreSessions ==
  ASSUME AccountNext PROVE SessionNext \/ UNCHANGED sessionVars
<1>1. Visit => Stay
  BY DEF Visit
<1>2. Restart => Fresh
  BY DEF Restart
<1>3. NotTheOwner => Navigated("repo")
  BY DEF NotTheOwner
<1>4. Confirm => UNCHANGED sessionVars
  BY DEF Confirm
<1>5. \A op \in MutOps : Click(op) => Elsewhere
  BY DEF Click
<1>6. ASSUME NEW k \in Keys, QueryReply(k) \/ GoesStale(k) \/ Rerendered(k)
      PROVE Rejected \/ UNCHANGED sessionVars
  BY <1>6 DEF QueryReply, GoesStale, Rerendered, FetchRead, FetchDone, FetchRetried,
     FetchFails, FetchRefused
<1>7. ASSUME NEW i \in MutSlots, MutDone(i)
      PROVE Navigated("repo") \/ Navigated("profile") \/ UNCHANGED sessionVars
  <2>1. ~ Navigated(page)
    BY DEF Navigated
  <2>2. Destination(muts[i].op) \in {"repo", "profile", page}
    BY DEF Destination
  <2> QED
    BY <1>7, <2>1, <2>2 DEF MutDone
<1>8. ASSUME NEW i \in MutSlots, MutApplied(i) \/ MutFails(i) \/ MutRefused(i)
      PROVE Rejected \/ UNCHANGED sessionVars
  BY <1>8 DEF MutApplied, MutFails, MutRefused
<1> QED
  BY <1>1, <1>2, <1>3, <1>4, <1>5, <1>6, <1>7, <1>8 DEF AccountNext, MutReply, SessionNext

(* The UI implements the session: no page changes the store, navigates or  *)
(* sends calls about the session in a way WebSession does not have.        *)
THEOREM PagesKeepToTheSession == Spec => SessionSpec
<1>1. UIInit => SessionInit
  BY DEF UIInit, AccountInit
<1>2. [UINext]_uiVars => [SessionNext]_sessionVars
  <2>1. UNCHANGED uiVars => UNCHANGED sessionVars
    BY DEF uiVars, accountAll
  <2>2. Browsing(BrowserNext) => UNCHANGED sessionVars
    BY DEF Browsing, accountAll
  <2>3. OnTour(AccountNext) => SessionNext \/ UNCHANGED sessionVars
    BY AccountStepsAreSessions DEF OnTour
  <2> QED
    BY <2>1, <2>2, <2>3 DEF UINext
<1> QED
  BY <1>1, <1>2, PTL DEF Spec, SessionSpec

(* In the whole UI the user in the store is the user of its token.         *)
THEOREM UIStoreNamesItsUser == Spec => []UserOfToken
  BY PagesKeepToTheSession, StoreNamesItsUser, PTL

(* In the whole UI a session given up for good never comes back.           *)
THEOREM UISessionsEnd == Spec => []EndedStaysEnded
  BY PagesKeepToTheSession, SessionsEnd, PTL

(* In the whole UI only an answer that ends a session, or brings one back, *)
(* leaves a blank page.                                                    *)
THEOREM UIOnlyLateAnswersBlank == Spec => BlankOnlyByLateAnswer
  BY PagesKeepToTheSession, OnlyLateAnswersBlank, PTL

(* The UI implements the browser: the account's pages do not touch it.     *)
THEOREM PagesKeepToTheBrowser == Spec => BrowserSpec
<1>1. UIInit => BrowserInit
  BY DEF UIInit
<1>2. [UINext]_uiVars => [BrowserNext]_browserVars
  BY DEF UINext, uiVars, OnTour, Browsing
<1> QED
  BY <1>1, <1>2, PTL DEF Spec, BrowserSpec

(* In the whole UI pages, folders and viewers show what they name.         *)
THEOREM UIPagesShowTheirPlace ==
  Spec => [](ShownIsOfPlace /\ OpenFolderListed /\ FolderIsOfBranch /\ ViewerShowsItsFile)
  BY PagesKeepToTheBrowser, BrowserInvariant, InvShows, PTL
-----------------------------------------------------------------------------
(* The invariant of the account's pages.                                   *)

EntryShape == [phase : {"none", "sent", "read", "rest"}, data : Nat,
               by : Users \cup {Nobody}, fresh : BOOLEAN, sent : Tokens \cup {Null},
               read : Nat, retried : BOOLEAN, late : BOOLEAN]
MutShape == [op : MutOps \cup {"none"}, sent : Tokens \cup {Null}, ver : Nat, live : BOOLEAN]
Shapes ==
  /\ version \in [Keys -> Nat] /\ acked \in [Keys -> Nat]
  /\ cache \in [Keys -> EntryShape] /\ muts \in [MutSlots -> MutShape]

\* Data of the user u, or on its way with a token of u.
OwnEntry(e, u, iss) ==
  /\ e.data # 0 => e.by \in {Nobody, u}
  /\ InFlight(e) /\ e.sent # Null => u # Nobody /\ iss[e.sent] = u
Own(c) ==
  ~ blank /\ store.token \notin crossed => \A k \in Keys : OwnEntry(c[k], store.user, issued)

\* At least the version n, once it is there and nothing is known against it.
ListedEntry(e, n) ==
  /\ e.phase = "read" /\ ~ e.late => e.read >= n
  /\ e.phase = "rest" /\ e.fresh /\ ~ e.late => e.data >= n

\* What a mutation on its way was sent with, and the change it made.
OwnersMut(m, x, iss) ==
  m.op \in {"save-repo", "delete-repo"} /\ m.sent \notin x \cup {Null} => iss[m.sent] = RepoOwner
KnownMut(m, ver) == m.ver # 0 => \A k \in Invalidates(m.op) : m.ver <= ver[k]

AccountInv ==
  /\ Shapes
  /\ version["repo"] = version["my-repos"] /\ version["repo"] = version["user-repos"]
  /\ \A k \in Keys : acked[k] <= version[k] /\ ListedEntry(cache[k], acked[k])
  /\ Own(cache)
  /\ \A i \in MutSlots : OwnersMut(muts[i], crossed, issued) /\ KnownMut(muts[i], version)

LEMMA NoEntryShape ==
  /\ NoEntry \in EntryShape
  /\ NoEntry.phase = "none" /\ NoEntry.data = 0 /\ ~ InFlight(NoEntry)
  BY DEF NoEntry, EntryShape, InFlight

LEMMA NoMutShape ==
  NoMut \in MutShape /\ NoMut.op = "none" /\ NoMut.ver = 0
  BY DEF NoMut, MutShape

LEMMA NoEntrySound ==
  ASSUME NEW u, NEW iss, NEW n
  PROVE  OwnEntry(NoEntry, u, iss) /\ ListedEntry(NoEntry, n)
  BY NoEntryShape DEF OwnEntry, ListedEntry

LEMMA AskShape ==
  ASSUME NEW e \in EntryShape, NEW t \in Tokens \cup {Null}
  PROVE  /\ Ask(e, t) \in EntryShape
         /\ Ask(e, t).phase = "sent" /\ Ask(e, t).sent = t
         /\ Ask(e, t).data = e.data /\ Ask(e, t).by = e.by
  BY DEF Ask, EntryShape

\* A request with the token of the session is the session's user's.
LEMMA AskSound ==
  ASSUME NEW e \in EntryShape, NEW t \in Tokens \cup {Null}, NEW u, NEW iss, NEW n,
         e.data # 0 => e.by \in {Nobody, u},
         t # Null => u # Nobody /\ iss[t] = u
  PROVE  OwnEntry(Ask(e, t), u, iss) /\ ListedEntry(Ask(e, t), n)
  BY AskShape DEF OwnEntry, ListedEntry

LEMMA MountedSound ==
  ASSUME NEW c \in [Keys -> EntryShape], NEW new, NEW t \in Tokens \cup {Null}
  PROVE  /\ Mounted(c, new, t) \in [Keys -> EntryShape]
         /\ \A k \in Keys : Mounted(c, new, t)[k] \in {c[k], Ask(c[k], t)}
  BY AskShape DEF Mounted

\* Of a session that was not crossed: nobody's without a token, its user's with one.
LEMMA WhoseToken ==
  ASSUME SessionInv
  PROVE  /\ store.token \in Tokens \cup {Null}
         /\ store.token = Null => store.user = Nobody
         /\ store.token \notin crossed \cup {Null} =>
              store.user # Nobody /\ issued[store.token] = store.user
  BY DEF SessionInv, SessionTypeOK, Session, StoreSound, UserOfToken

LEMMA PrimedWhoseToken ==
  ASSUME SessionInv'
  PROVE  /\ store'.token \in Tokens \cup {Null}
         /\ store'.token = Null => store'.user = Nobody
         /\ store'.token \notin crossed' \cup {Null} =>
              store'.user # Nobody /\ issued'[store'.token] = store'.user
  BY DEF SessionInv, SessionTypeOK, Session, StoreSound, UserOfToken
-----------------------------------------------------------------------------
(* What a step of the session does to what the invariant speaks of.        *)

Grows ==
  /\ \A t \in Tokens : issued[t] # Nobody => issued'[t] = issued[t]
  /\ crossed \subseteq crossed'
  /\ Signed => store'.token \in {store.token, Null} \cup crossed'

LEMMA RenderGrows ==
  ASSUME NEW st, NEW p, NEW cs, Render(st, p, cs), issued' = issued PROVE Grows
  BY DEF Render, Grows

LEMMA QuietGrows ==
  ASSUME UNCHANGED <<issued, store, history>> PROVE Grows
  BY DEF Grows, history

LEMMA SessionGrows == ASSUME SessionInv, SessionNext PROVE Grows
<1>1. ASSUME NEW i \in Slots, Reply(i) PROVE Grows
  <2>1. CASE LoginAccepted(i)
    BY <2>1 DEF LoginAccepted, NextToken, Grows, SessionInv, SessionTypeOK
  <2>2. CASE ProbeAccepted(i) \/ ProbeRefused(i) \/ GotUser(i) \/ Saved(i)
    BY <2>2, RenderGrows DEF ProbeAccepted, ProbeRefused, GotUser, Saved, server
  <2>3. CASE LoginRefusedElsewhere(i)
    BY <2>3, RenderGrows DEF LoginRefusedElsewhere, HardRedirect, server
  <2>4. CASE Registered(i) \/ RegistrationRefused(i) \/ LoginRefused(i) \/ CallFails(i)
    BY <2>4, QuietGrows DEF Registered, RegistrationRefused, LoginRefused, CallFails, server
  <2> QED
    BY <1>1, <2>1, <2>2, <2>3, <2>4 DEF Reply
<1>2. ASSUME SignOut \/ (\E p \in Pages : Go(p) \/ Navigated(p)) PROVE Grows
  BY <1>2, RenderGrows DEF SignOut, Go, Navigated, server
<1>3. ASSUME SaveProfile \/ Elsewhere \/ (\E t \in Tokens : Expire(t))
             \/ \E u \in Users : SubmitLogin(u) \/ SubmitRegistration(u)
      PROVE Grows
  BY <1>3, QuietGrows DEF SaveProfile, Elsewhere, Expire, SubmitLogin, SubmitRegistration, server
<1>4. ASSUME Fresh PROVE Grows
  BY <1>4, QuietGrows DEF Fresh, Open, Unload, Load, server
<1>5. ASSUME Rejected PROVE Grows
  BY <1>5, RenderGrows DEF Rejected, HardRedirect, server
<1>6. {"profile", "repo"} \subseteq Pages
  BY DEF Pages
<1> QED
  BY <1>1, <1>2, <1>3, <1>4, <1>5, <1>6 DEF SessionNext, Stay, UserStep

\* A page that stays does not recover by itself.
LEMMA BlankStays ==
  ASSUME \/ Stay \/ Elsewhere \/ Rejected
         \/ (\E p \in Pages : Navigated(p)) \/ UNCHANGED sessionVars,
         blank
  PROVE  blank'
<1>1. ASSUME NEW i \in Slots, Reply(i) PROVE blank'
  BY <1>1 DEF Reply, ProbeAccepted, ProbeRefused, Registered, RegistrationRefused, LoginAccepted,
     LoginRefused, LoginRefusedElsewhere, HardRedirect, GotUser, Saved, CallFails, Render
<1> QED
  BY <1>1 DEF Stay, UserStep, Go, SignOut, SubmitLogin, SubmitRegistration, SaveProfile, Elsewhere,
     Expire, Navigated, Rejected, HardRedirect, Render, sessionVars

LEMMA OwnersMutStays ==
  ASSUME SessionInv, Grows, NEW m \in MutShape, OwnersMut(m, crossed, issued)
  PROVE  OwnersMut(m, crossed', issued')
<1>1. RepoOwner # Nobody
  BY SessionAssumption, AccountAssumption
<1> QED
  BY <1>1 DEF Grows, OwnersMut, MutShape

\* Mutations that stay, leave their page, or are gone.
LEMMA LeaveSound ==
  ASSUME NEW ms \in [MutSlots -> MutShape]
  PROVE  /\ Leave(ms) \in [MutSlots -> MutShape]
         /\ \A i \in MutSlots : Leave(ms)[i].op = ms[i].op /\ Leave(ms)[i].sent = ms[i].sent
                               /\ Leave(ms)[i].ver = ms[i].ver
  BY DEF Leave, MutShape

\* The cache c follows the session: cleared when it ends, asked of when pages mount.
LEMMA FollowOwn ==
  ASSUME SessionInv, SessionInv', Grows, blank => blank',
         NEW c \in [Keys -> EntryShape], NEW ms, NEW d, Follow(c, ms, d), Own(c)
  PROVE  cache' \in [Keys -> EntryShape] /\ Own(cache)'
<1> DEFINE w == [k \in Keys |-> IF SignedOff THEN NoEntry ELSE c[k]]
           u == store.user
           v == store'.user
<1>1. w \in [Keys -> EntryShape]
  BY NoEntryShape
<1>2. PICK new : cache' = Mounted(w, new, store'.token)
  BY DEF Follow
<1> HIDE DEF w
<1>3. store'.token \in Tokens \cup {Null} /\ store.token \in Tokens \cup {Null}
  BY WhoseToken, PrimedWhoseToken
<1>4. cache' \in [Keys -> EntryShape]
  BY <1>1, <1>2, <1>3, MountedSound
<1>5. Null \notin crossed
  BY NullIsNoToken DEF SessionInv, SessionTypeOK
<1>6. ASSUME ~ blank', store'.token \notin crossed', NEW k \in Keys
      PROVE  OwnEntry(cache'[k], v, issued')
  <2>1. ~ blank /\ store'.token \notin crossed /\ c[k] \in EntryShape
    BY <1>6 DEF Grows
  <2>2. store'.token # Null => v # Nobody /\ issued'[store'.token] = v
    BY <1>6, PrimedWhoseToken
  <2>3. Signed => store'.token \in {store.token, Null}
    BY <1>6 DEF Grows
  <2>4. OwnEntry(w[k], v, issued')
    <3>1. CASE SignedOff
      BY <3>1, NoEntrySound DEF w
    <3>2. CASE Signed /\ store'.token = store.token
      <4>1. store.token \notin crossed \cup {Null}
        BY <2>1, <3>2 DEF Signed
      <4>2. u # Nobody /\ issued[store.token] = u /\ u = v
        BY <1>3, <2>2, <3>2, <4>1, WhoseToken DEF Grows
      <4>3. OwnEntry(c[k], u, issued) /\ w[k] = c[k]
        BY <2>1, <3>2, <4>1 DEF Own, w, SignedOff, Signed
      <4>4. c[k].sent \in Tokens \cup {Null}
        BY <2>1 DEF EntryShape
      <4> QED
        BY <4>2, <4>3, <4>4 DEF OwnEntry, Grows
    <3>3. CASE ~ Signed
      <4>1. store.token = Null /\ u = Nobody
        BY <3>3, WhoseToken DEF Signed
      <4>2. OwnEntry(c[k], Nobody, issued) /\ w[k] = c[k]
        BY <1>5, <2>1, <3>3, <4>1 DEF Own, w, SignedOff
      <4> QED
        BY <4>2 DEF OwnEntry
    <3> QED
      BY <1>6, <2>3, <3>1, <3>2, <3>3 DEF SignedOff
  <2>5. CASE cache'[k] = w[k]
    BY <2>4, <2>5
  <2>6. CASE cache'[k] = Ask(w[k], store'.token)
    <3>1. w[k] \in EntryShape /\ (w[k].data # 0 => w[k].by \in {Nobody, v})
      BY <1>1, <2>4 DEF OwnEntry
    <3> QED
      BY <1>3, <2>2, <2>6, <3>1, AskSound
  <2> QED
    BY <1>1, <1>2, <1>3, <2>5, <2>6, MountedSound
<1>7. Own(cache)'
  BY <1>6 DEF Own
<1> QED
  BY <1>4, <1>7

LEMMA FollowListed ==
  ASSUME SessionInv', NEW c \in [Keys -> EntryShape], NEW ms, NEW d, Follow(c, ms, d),
         NEW k \in Keys, NEW n, ListedEntry(c[k], n)
  PROVE  ListedEntry(cache'[k], n)
<1> DEFINE w == [l \in Keys |-> IF SignedOff THEN NoEntry ELSE c[l]]
<1>1. w \in [Keys -> EntryShape] /\ ListedEntry(w[k], n)
  BY NoEntryShape, NoEntrySound
<1>2. PICK new : cache' = Mounted(w, new, store'.token)
  BY DEF Follow
<1> HIDE DEF w
<1>3. store'.token \in Tokens \cup {Null}
  BY PrimedWhoseToken
<1>4. ListedEntry(Ask(w[k], store'.token), n)
  <2>1. w[k] \in EntryShape
    BY <1>1
  <2> QED
    BY <1>3, <2>1, AskShape DEF ListedEntry
<1> QED
  BY <1>1, <1>2, <1>3, <1>4, MountedSound

\* The memory of a page that was loaded.
LEMMA StartSound ==
  ASSUME SessionInv', Start
  PROVE  /\ cache' \in [Keys -> EntryShape] /\ Own(cache)'
         /\ muts' \in [MutSlots -> MutShape] /\ \A i \in MutSlots : muts'[i] = NoMut
         /\ \A k \in Keys, n \in Nat : ListedEntry(cache'[k], n)
<1> DEFINE w == [k \in Keys |-> NoEntry]
<1>1. w \in [Keys -> EntryShape]
  BY NoEntryShape
<1>2. PICK new : cache' = Mounted(w, new, store'.token)
  BY DEF Start
<1>3. store'.token \in Tokens \cup {Null}
  BY PrimedWhoseToken
<1>4. \A k \in Keys : cache'[k] \in {NoEntry, Ask(NoEntry, store'.token)}
  BY <1>1, <1>2, <1>3, MountedSound
<1>5. cache' \in [Keys -> EntryShape]
  BY <1>1, <1>2, <1>3, MountedSound
<1> HIDE DEF w
<1>6. ASSUME store'.token \notin crossed', NEW k \in Keys
      PROVE  OwnEntry(cache'[k], store'.user, issued')
  <2>1. store'.token # Null => store'.user # Nobody /\ issued'[store'.token] = store'.user
    BY <1>6, PrimedWhoseToken
  <2>2. OwnEntry(Ask(NoEntry, store'.token), store'.user, issued')
    BY <1>3, <2>1, NoEntryShape, AskSound
  <2> QED
    BY <1>4, <2>2, NoEntrySound
<1>7. \A k \in Keys, n \in Nat : ListedEntry(cache'[k], n)
  BY <1>3, <1>4, NoEntryShape, NoEntrySound, AskShape DEF ListedEntry
<1>8. Own(cache)'
  BY <1>6 DEF Own
<1> QED
  BY <1>5, <1>7, <1>8, NoMutShape DEF Start
-----------------------------------------------------------------------------
(* One lemma for each kind of step.                                        *)

LEMMA FreshStartKeeps ==
  ASSUME AccountInv, SessionInv', Start PROVE AccountInv'
<1>1. \A i \in MutSlots : OwnersMut(muts'[i], crossed', issued') /\ KnownMut(muts'[i], version')
  BY StartSound, NoMutShape DEF OwnersMut, KnownMut
<1>2. UNCHANGED <<version, acked>>
  BY DEF Start
<1>3. Shapes'
  BY <1>2, StartSound DEF AccountInv, Shapes
<1>4. \A k \in Keys : acked'[k] <= version'[k] /\ ListedEntry(cache'[k], acked'[k])
  BY <1>2, StartSound DEF AccountInv, Shapes
<1> QED
  BY <1>1, <1>2, <1>3, <1>4, StartSound DEF AccountInv

\* A step of the session that the pages follow.
LEMMA FollowedKeeps ==
  ASSUME AccountInv, SessionInv, SessionInv', Stay \/ Rejected \/ Navigated("repo"),
         NEW c \in [Keys -> EntryShape], Own(c), \A k \in Keys : ListedEntry(c[k], acked[k]),
         NEW ms \in [MutSlots -> MutShape], \A i \in MutSlots : ms[i] \in {muts[i], NoMut},
         NEW d, Follow(c, ms, d), UNCHANGED <<version, acked>>
  PROVE  AccountInv'
<1>1. Grows /\ (blank => blank')
  BY SessionGrows, BlankStays DEF SessionNext, Pages
<1>2. cache' \in [Keys -> EntryShape] /\ Own(cache)'
  BY <1>1, FollowOwn
<1>3. \A k \in Keys : ListedEntry(cache'[k], acked[k])
  BY FollowListed
<1>4. muts' = Leave(ms)
  BY DEF Follow
<1>5. ASSUME NEW i \in MutSlots
      PROVE  OwnersMut(muts'[i], crossed', issued') /\ KnownMut(muts'[i], version')
  <2>1. /\ ms[i] \in MutShape /\ muts'[i].op = ms[i].op
        /\ muts'[i].sent = ms[i].sent /\ muts'[i].ver = ms[i].ver
    BY <1>4, LeaveSound
  <2>2. OwnersMut(ms[i], crossed, issued) /\ KnownMut(ms[i], version)
    BY NoMutShape DEF AccountInv, OwnersMut, KnownMut
  <2>3. OwnersMut(ms[i], crossed', issued')
    BY <1>1, <2>1, <2>2, OwnersMutStays
  <2> QED
    BY <2>1, <2>2, <2>3 DEF OwnersMut, KnownMut
<1>6. Shapes'
  BY <1>2, <1>4, LeaveSound DEF AccountInv, Shapes
<1> QED
  BY <1>2, <1>3, <1>5, <1>6 DEF AccountInv

\* As it is.
LEMMA AlongKeeps ==
  ASSUME AccountInv, SessionInv, SessionInv', Stay \/ Navigated("repo"),
         Follow(cache, muts, dialog), UNCHANGED <<version, acked>>
  PROVE  AccountInv'
  BY FollowedKeeps DEF AccountInv, Shapes

LEMMA VisitKeeps == ASSUME AccountInv, SessionInv, SessionInv', Visit PROVE AccountInv'
  BY AlongKeeps DEF Visit, Along

LEMMA NotTheOwnerKeeps ==
  ASSUME AccountInv, SessionInv, SessionInv', NotTheOwner PROVE AccountInv'
  BY AlongKeeps DEF NotTheOwner

\* One entry changes and nothing else.
LEMMA EntryKeeps ==
  ASSUME AccountInv, UNCHANGED <<sessionVars, version, muts, acked>>,
         NEW k \in Keys, NEW e \in EntryShape, cache' = [cache EXCEPT ![k] = e],
         OwnEntry(cache[k], store.user, issued) /\ store.token \notin crossed
           => OwnEntry(e, store.user, issued),
         ListedEntry(cache[k], acked[k]) /\ acked[k] <= version[k] => ListedEntry(e, acked[k])
  PROVE  AccountInv'
<1>1. UNCHANGED <<store, issued, crossed, blank>>
  BY DEF sessionVars, server, history
<1>2. Shapes'
  BY DEF AccountInv, Shapes
<1>3. \A l \in Keys : cache'[l] = IF l = k THEN e ELSE cache[l]
  BY DEF AccountInv, Shapes
<1>4. \A l \in Keys : acked'[l] <= version'[l] /\ ListedEntry(cache'[l], acked'[l])
  BY <1>3 DEF AccountInv
<1>5. Own(cache)'
  BY <1>1, <1>3 DEF AccountInv, Own
<1> QED
  BY <1>1, <1>2, <1>4, <1>5 DEF AccountInv

LEMMA FetchReadKeeps ==
  ASSUME AccountInv, SessionInv, NEW k \in Keys, FetchRead(k) PROVE AccountInv'
<1> PICK t : t = IF Accepted(cache[k].sent) THEN cache[k].sent ELSE Null
  OBVIOUS
<1> PICK e : e = [cache[k] EXCEPT !.phase = "read", !.read = version[k], !.sent = t]
  OBVIOUS
<1>1. cache[k] \in EntryShape /\ version[k] \in Nat /\ acked[k] \in Nat /\ cache \in [Keys -> EntryShape]
  BY DEF AccountInv, Shapes
<1>2. t \in Tokens \cup {Null} /\ (t # Null => t = cache[k].sent)
  BY <1>1 DEF EntryShape
<1>3. /\ e \in EntryShape /\ e.phase = "read" /\ e.read = version[k] /\ e.sent = t
      /\ e.data = cache[k].data /\ e.by = cache[k].by /\ e.late = cache[k].late
  BY <1>1, <1>2 DEF EntryShape
<1>4. cache' = [cache EXCEPT ![k] = e]
  BY <1>1 DEF FetchRead
<1>5. cache[k].phase = "sent"
  BY DEF FetchRead
<1>6. OwnEntry(cache[k], store.user, issued) => OwnEntry(e, store.user, issued)
  BY <1>2, <1>3, <1>5 DEF OwnEntry, InFlight
<1>7. acked[k] <= version[k] => ListedEntry(e, acked[k])
  BY <1>1, <1>3 DEF ListedEntry
<1>8. UNCHANGED <<sessionVars, version, muts, acked>>
  BY DEF FetchRead
<1> QED
  BY <1>3, <1>4, <1>6, <1>7, <1>8, EntryKeeps

LEMMA FetchDoneKeeps ==
  ASSUME AccountInv, SessionInv, NEW k \in Keys, FetchDone(k) PROVE AccountInv'
<1> PICK by : by = IF cache[k].sent = Null THEN Nobody ELSE issued[cache[k].sent]
  OBVIOUS
<1> PICK e : e = [NoEntry EXCEPT !.phase = "rest", !.fresh = TRUE, !.late = cache[k].late,
                    !.data = cache[k].read, !.by = by]
  OBVIOUS
<1>1. cache[k] \in EntryShape /\ cache[k].phase = "read"
  BY DEF AccountInv, Shapes, FetchDone
<1>2. by \in Users \cup {Nobody}
  BY <1>1 DEF EntryShape, SessionInv, SessionTypeOK
<1>3. /\ e \in EntryShape /\ e.phase = "rest" /\ e.data = cache[k].read /\ e.by = by
      /\ e.late = cache[k].late
  BY <1>1, <1>2 DEF EntryShape, NoEntry
<1>4. cache' = [cache EXCEPT ![k] = e]
  BY DEF FetchDone
<1>5. OwnEntry(cache[k], store.user, issued) => OwnEntry(e, store.user, issued)
  BY <1>1, <1>3 DEF OwnEntry, InFlight
<1>6. ListedEntry(cache[k], acked[k]) => ListedEntry(e, acked[k])
  BY <1>1, <1>3 DEF ListedEntry
<1> QED
  BY <1>3, <1>4, <1>5, <1>6, EntryKeeps DEF FetchDone

\* Asked again, or for the first time, with the token of the session.
LEMMA AskedAgainKeeps ==
  ASSUME AccountInv, SessionInv, NEW k \in Keys, FetchRetried(k) \/ Rerendered(k)
  PROVE  AccountInv'
<1> PICK a : a = Ask(cache[k], store.token)
  OBVIOUS
<1> PICK e : e = IF FetchRetried(k) THEN [a EXCEPT !.retried = TRUE] ELSE a
  OBVIOUS
<1>1. cache[k] \in EntryShape
  BY DEF AccountInv, Shapes
<1>2. /\ a \in EntryShape /\ a.phase = "sent" /\ a.sent = store.token
      /\ a.data = cache[k].data /\ a.by = cache[k].by
  BY <1>1, WhoseToken, AskShape
<1>3. /\ e \in EntryShape /\ e.phase = "sent" /\ e.sent = store.token
      /\ e.data = cache[k].data /\ e.by = cache[k].by
  BY <1>2 DEF EntryShape
<1>4. cache' = [cache EXCEPT ![k] = e]
  BY DEF FetchRetried, Rerendered
<1>5. ASSUME OwnEntry(cache[k], store.user, issued), store.token \notin crossed
      PROVE  OwnEntry(e, store.user, issued)
  BY <1>3, <1>5, WhoseToken DEF OwnEntry
<1>6. ListedEntry(e, acked[k])
  BY <1>3 DEF ListedEntry
<1> QED
  BY <1>3, <1>4, <1>5, <1>6, EntryKeeps DEF FetchRetried, Rerendered

\* A query that is given up keeps what it has.
LEMMA GivenUpSound ==
  ASSUME AccountInv, NEW k \in Keys, NEW n
  PROVE  /\ GivenUp(cache[k]) \in EntryShape
         /\ \A u : OwnEntry(cache[k], u, issued) => OwnEntry(GivenUp(cache[k]), u, issued)
         /\ ListedEntry(GivenUp(cache[k]), n)
<1> PICK e : e = GivenUp(cache[k])
  OBVIOUS
<1>1. cache[k] \in EntryShape
  BY DEF AccountInv, Shapes
<1>2. /\ e \in EntryShape /\ e.phase = "rest" /\ ~ e.fresh
      /\ e.data = cache[k].data /\ e.by = cache[k].by
  BY <1>1 DEF GivenUp, EntryShape, NoEntry
<1> QED
  BY <1>2 DEF OwnEntry, InFlight, ListedEntry

LEMMA FetchFailsKeeps ==
  ASSUME AccountInv, SessionInv, NEW k \in Keys, FetchFails(k) PROVE AccountInv'
<1>1. cache' = [cache EXCEPT ![k] = GivenUp(cache[k])]
  BY DEF FetchFails
<1> QED
  BY <1>1, GivenUpSound, EntryKeeps DEF FetchFails

LEMMA GoesStaleKeeps ==
  ASSUME AccountInv, SessionInv, NEW k \in Keys, GoesStale(k) PROVE AccountInv'
<1> PICK e : e = [cache[k] EXCEPT !.fresh = FALSE]
  OBVIOUS
<1>1. cache[k] \in EntryShape /\ cache \in [Keys -> EntryShape] /\ cache[k].phase = "rest"
  BY DEF AccountInv, Shapes, GoesStale
<1>2. /\ e \in EntryShape /\ e.phase = "rest" /\ ~ e.fresh
      /\ e.data = cache[k].data /\ e.by = cache[k].by
  BY <1>1 DEF EntryShape
<1>3. cache' = [cache EXCEPT ![k] = e]
  BY <1>1 DEF GoesStale
<1>4. OwnEntry(cache[k], store.user, issued) => OwnEntry(e, store.user, issued)
  BY <1>2 DEF OwnEntry, InFlight
<1>5. ListedEntry(e, acked[k])
  BY <1>2 DEF ListedEntry
<1> QED
  BY <1>2, <1>3, <1>4, <1>5, EntryKeeps DEF GoesStale

LEMMA FetchRefusedKeeps ==
  ASSUME AccountInv, SessionInv, SessionInv', NEW k \in Keys, FetchRefused(k)
  PROVE  AccountInv'
<1> PICK c : c = [cache EXCEPT ![k] = GivenUp(cache[k])]
  OBVIOUS
<1>1. cache \in [Keys -> EntryShape] /\ muts \in [MutSlots -> MutShape]
  BY DEF AccountInv, Shapes
<1>2. c \in [Keys -> EntryShape] /\ \A l \in Keys : c[l] = IF l = k THEN GivenUp(cache[k]) ELSE cache[l]
  BY <1>1, GivenUpSound
<1>3. Own(c) /\ \A l \in Keys : ListedEntry(c[l], acked[l])
  BY <1>2, GivenUpSound DEF AccountInv, Own
<1>4. Rejected /\ Follow(c, muts, dialog) /\ UNCHANGED <<version, acked>>
  BY DEF FetchRefused
<1> QED
  BY <1>1, <1>2, <1>3, <1>4, FollowedKeeps

\* The mutations change and nothing the cache knows of does.
LEMMA MutsKeep ==
  ASSUME AccountInv, UNCHANGED <<store, issued, crossed, blank, version, acked, cache>>,
         muts' \in [MutSlots -> MutShape],
         \A i \in MutSlots : OwnersMut(muts'[i], crossed, issued) /\ KnownMut(muts'[i], version)
  PROVE  AccountInv'
<1>1. Shapes'
  BY DEF AccountInv, Shapes
<1>2. Own(cache)'
  BY DEF AccountInv, Own
<1> QED
  BY <1>1, <1>2 DEF AccountInv

LEMMA ConfirmKeeps == ASSUME AccountInv, Confirm PROVE AccountInv'
  BY MutsKeep DEF Confirm, sessionVars, server, history, AccountInv, Shapes

\* The page of a repository's settings is its owner's, or nobody's.
LEMMA OnlyOwnersClick ==
  ASSUME NEW op \in {"save-repo", "delete-repo"}, op \in Offers
  PROVE  store.user \in {RepoOwner, Nobody}
<1>1. op \notin TokensOffers \cup KeysOffers \cup NewRepoOffers
  BY DEF TokensOffers, KeysOffers, NewRepoOffers
<1> QED
  BY <1>1 DEF Offers, RepoSettingsOffers, SettingsShown

LEMMA ClickKeeps ==
  ASSUME AccountInv, SessionInv, NEW op \in MutOps, Click(op) PROVE AccountInv'
<1> PICK m : m = [op |-> op, sent |-> Bearer(Null), ver |-> 0, live |-> TRUE]
  OBVIOUS
<1>1. UNCHANGED <<store, issued, crossed, blank, version, acked, cache>> /\ op \in Offers
  BY DEF Click, Elsewhere, server, history
<1>2. Bearer(Null) = store.token
  BY DEF Bearer, Signed
<1>3. m \in MutShape /\ m.ver = 0 /\ m.sent = store.token /\ m.op = op
  BY <1>2, WhoseToken DEF MutShape
<1>4. OwnersMut(m, crossed, issued) /\ KnownMut(m, version)
  BY <1>1, <1>3, WhoseToken, OnlyOwnersClick DEF OwnersMut, KnownMut
<1>5. PICK i \in MutSlots : muts' = [muts EXCEPT ![i] = m]
  BY DEF Click
<1>6. muts \in [MutSlots -> MutShape]
  BY DEF AccountInv, Shapes
<1> QED
  BY <1>1, <1>3, <1>4, <1>5, <1>6, MutsKeep DEF AccountInv

LEMMA MutFailsKeeps ==
  ASSUME AccountInv, NEW i \in MutSlots, MutFails(i) PROVE AccountInv'
<1>1. UNCHANGED <<store, issued, crossed, blank, version, acked, cache>>
      /\ muts' = [muts EXCEPT ![i] = NoMut]
  BY DEF MutFails, sessionVars, server, history
<1>2. OwnersMut(NoMut, crossed, issued) /\ KnownMut(NoMut, version)
  BY NoMutShape DEF OwnersMut, KnownMut
<1> QED
  BY <1>1, <1>2, NoMutShape, MutsKeep DEF AccountInv, Shapes

\* A change shows in lists of one version.
LEMMA TouchedAlike ==
  ASSUME AccountInv, NEW op \in MutOps, NEW k \in Touches(op), NEW l \in Touches(op)
  PROVE  version[k] = version[l] /\ k \in Keys
<1>1. \/ Touches(op) = {"pats"} \/ Touches(op) = {"ssh-keys"}
      \/ Touches(op) = {"repo", "my-repos", "user-repos"}
  BY DEF Touches
<1>2. version["repo"] = version["my-repos"] /\ version["repo"] = version["user-repos"]
  BY DEF AccountInv
<1>3. \/ k = l /\ k \in {"pats", "ssh-keys"}
      \/ {k, l} \subseteq {"repo", "my-repos", "user-repos"}
  BY <1>1
<1>4. version[k] = version[l]
  BY <1>2, <1>3
<1>5. k \in Keys
  BY <1>3 DEF Keys
<1> QED
  BY <1>4, <1>5

LEMMA InvalidatesTouched ==
  ASSUME NEW op \in MutOps
  PROVE  Invalidates(op) \subseteq Touches(op) /\ Invalidates(op) \subseteq Keys
         /\ Touches(op) # {} /\ Touches(op) \subseteq Keys
  BY DEF MutOps, Invalidates, Touches, Keys

LEMMA MutAppliedKeeps ==
  ASSUME AccountInv, SessionInv, NEW i \in MutSlots, MutApplied(i) PROVE AccountInv'
<1> DEFINE ks == Touches(muts[i].op)
<1>1. muts[i] \in MutShape /\ muts[i].op \in MutOps /\ version \in [Keys -> Nat]
      /\ muts \in [MutSlots -> MutShape]
  BY DEF AccountInv, Shapes, MutApplied, MutShape
<1>2. PICK l \in ks : l = CHOOSE k \in ks : TRUE
  BY <1>1, InvalidatesTouched
<1>3. /\ version' = [k \in Keys |-> IF k \in ks THEN version[k] + 1 ELSE version[k]]
      /\ muts' = [muts EXCEPT ![i].ver = version[l] + 1]
      /\ UNCHANGED <<store, issued, crossed, blank, acked, cache>>
  BY <1>2 DEF MutApplied, sessionVars, server, history
<1>4. l \in Keys /\ version[l] \in Nat /\ \A k \in ks : version[k] = version[l]
  BY <1>1, TouchedAlike
<1>5. version' \in [Keys -> Nat] /\ \A k \in Keys : version[k] <= version'[k]
  BY <1>1, <1>3
<1>6. \A k \in ks : version'[k] = version[l] + 1
  BY <1>1, <1>3, <1>4, InvalidatesTouched
<1>7. PICK m : m = [muts[i] EXCEPT !.ver = version[l] + 1]
  OBVIOUS
<1>8. m \in MutShape /\ m.op = muts[i].op /\ m.sent = muts[i].sent /\ m.ver = version[l] + 1
  BY <1>1, <1>4, <1>7 DEF MutShape
<1>9. muts' = [muts EXCEPT ![i] = m]
  BY <1>1, <1>3, <1>7
<1>10. KnownMut(m, version') /\ OwnersMut(m, crossed, issued)
  <2>1. \A k \in Invalidates(m.op) : m.ver <= version'[k]
    BY <1>1, <1>4, <1>6, <1>8, InvalidatesTouched
  <2> QED
    BY <1>8, <2>1 DEF KnownMut, OwnersMut, AccountInv
<1>11. ASSUME NEW j \in MutSlots, j # i
       PROVE  KnownMut(muts[j], version') /\ OwnersMut(muts[j], crossed, issued)
  <2>1. muts[j] \in MutShape /\ KnownMut(muts[j], version) /\ OwnersMut(muts[j], crossed, issued)
    BY <1>1 DEF AccountInv
  <2>2. Invalidates(muts[j].op) \subseteq Keys
    BY DEF Invalidates, Keys
  <2> QED
    BY <1>1, <1>5, <2>1, <2>2 DEF KnownMut, MutShape
<1> HIDE DEF ks
<1>12. \A j \in MutSlots : OwnersMut(muts'[j], crossed', issued') /\ KnownMut(muts'[j], version')
  BY <1>1, <1>3, <1>9, <1>10, <1>11
<1>13. Shapes'
  BY <1>1, <1>3, <1>5, <1>8, <1>9 DEF AccountInv, Shapes
<1>14. version'["repo"] = version'["my-repos"] /\ version'["repo"] = version'["user-repos"]
  BY <1>1, <1>3 DEF AccountInv, Keys, Touches, ks
<1>15. \A k \in Keys : acked'[k] <= version'[k] /\ ListedEntry(cache'[k], acked'[k])
  BY <1>1, <1>3, <1>5 DEF AccountInv, Shapes
<1>16. Own(cache)'
  BY <1>3 DEF AccountInv, Own
<1> QED
  BY <1>12, <1>13, <1>14, <1>15, <1>16 DEF AccountInv

\* What invalidation makes of an entry: asked again, or no longer fresh.
LEMMA InvalidatedSound ==
  ASSUME AccountInv, SessionInv, NEW k \in Keys, NEW n
  PROVE  /\ Invalidated(k, store.token) \in EntryShape
         /\ OwnEntry(cache[k], store.user, issued) /\ store.token \notin crossed
              => OwnEntry(Invalidated(k, store.token), store.user, issued)
         /\ ListedEntry(Invalidated(k, store.token), n)
<1>1. cache[k] \in EntryShape
  BY DEF AccountInv, Shapes
<1> PICK a : a = Ask(cache[k], store.token)
  OBVIOUS
<1> PICK e : e = [cache[k] EXCEPT !.fresh = FALSE, !.late = (cache[k].phase = "read")]
  OBVIOUS
<1>2. /\ a \in EntryShape /\ a.phase = "sent" /\ a.sent = store.token
      /\ a.data = cache[k].data /\ a.by = cache[k].by
  BY <1>1, WhoseToken, AskShape
<1>3. /\ e \in EntryShape /\ e.phase = cache[k].phase /\ ~ e.fresh /\ e.sent = cache[k].sent
      /\ e.data = cache[k].data /\ e.by = cache[k].by /\ e.late = (cache[k].phase = "read")
  BY <1>1 DEF EntryShape
<1>4. Invalidated(k, store.token) \in {cache[k], a, e}
      /\ (Invalidated(k, store.token) = cache[k] => cache[k].phase = "none" \/ cache[k] \in {a, e})
  BY <1>1 DEF Invalidated
<1>5. ListedEntry(a, n) /\ ListedEntry(e, n) /\ (cache[k].phase = "none" => ListedEntry(cache[k], n))
  BY <1>2, <1>3 DEF ListedEntry
<1>6. OwnEntry(cache[k], store.user, issued) => OwnEntry(e, store.user, issued)
  BY <1>3 DEF OwnEntry, InFlight
<1>7. ASSUME OwnEntry(cache[k], store.user, issued), store.token \notin crossed
      PROVE  OwnEntry(a, store.user, issued)
  BY <1>2, <1>7, WhoseToken DEF OwnEntry
<1> QED
  BY <1>1, <1>2, <1>3, <1>4, <1>5, <1>6, <1>7

LEMMA MutDoneKeeps ==
  ASSUME AccountInv, SessionInv, SessionInv', NEW i \in MutSlots, MutDone(i) PROVE AccountInv'
<1> DEFINE op == muts[i].op
           ms == [muts EXCEPT ![i] = NoMut]
           c == AfterSuccess(op)
<1>1. muts[i] \in MutShape /\ muts \in [MutSlots -> MutShape] /\ cache \in [Keys -> EntryShape]
      /\ version \in [Keys -> Nat] /\ acked \in [Keys -> Nat] /\ muts[i].ver # 0
  BY DEF AccountInv, Shapes, MutDone
<1>2. /\ acked' = [k \in Keys |->
           IF k \in Invalidates(op) /\ acked[k] < muts[i].ver THEN muts[i].ver ELSE acked[k]]
      /\ version' = version
  BY DEF MutDone
<1>3. PICK d : Follow(c, ms, d)
  BY DEF MutDone
<1>4. Navigated("repo") \/ Navigated("profile") \/ UNCHANGED sessionVars
  <2>1. ~ Navigated(page)
    BY DEF Navigated
  <2>2. Destination(op) \in {"repo", "profile", page}
    BY DEF Destination
  <2> QED
    BY <2>1, <2>2 DEF MutDone
<1>5. Grows /\ (blank => blank')
  <2>1. CASE UNCHANGED sessionVars
    BY <2>1 DEF Grows, sessionVars, server, history
  <2>2. CASE Navigated("repo") \/ Navigated("profile")
    BY <2>2, SessionGrows, BlankStays DEF SessionNext, Pages
  <2> QED
    BY <1>4, <2>1, <2>2
<1>6. c \in [Keys -> EntryShape]
  BY <1>1, InvalidatedSound DEF AfterSuccess
<1>7. Own(c)
  <2> SUFFICES ASSUME ~ blank, store.token \notin crossed, NEW k \in Keys
               PROVE  OwnEntry(c[k], store.user, issued)
    BY DEF Own
  <2>1. OwnEntry(cache[k], store.user, issued)
    BY DEF AccountInv, Own
  <2> QED
    BY <2>1, InvalidatedSound DEF AfterSuccess
<1>8. ASSUME NEW k \in Keys PROVE ListedEntry(c[k], acked'[k])
  <2>1. CASE k \in Invalidates(op)
    BY <2>1, InvalidatedSound DEF AfterSuccess
  <2>2. CASE k \notin Invalidates(op)
    BY <1>2, <2>2 DEF AfterSuccess, AccountInv
  <2> QED
    BY <2>1, <2>2
<1> HIDE DEF c
<1>9. cache' \in [Keys -> EntryShape] /\ Own(cache)'
  BY <1>3, <1>5, <1>6, <1>7, FollowOwn
<1>10. \A k \in Keys : ListedEntry(cache'[k], acked'[k])
  BY <1>3, <1>6, <1>8, FollowListed
<1>11. acked' \in [Keys -> Nat] /\ \A k \in Keys : acked'[k] <= version'[k]
  <2>1. muts[i].ver \in Nat
    BY <1>1 DEF MutShape
  <2>2. \A k \in Invalidates(op) : muts[i].ver <= version[k]
    BY <1>1 DEF AccountInv, KnownMut
  <2> QED
    BY <1>1, <1>2, <2>1, <2>2 DEF AccountInv
<1>12. ms \in [MutSlots -> MutShape] /\ muts' = Leave(ms)
  BY <1>1, <1>3, NoMutShape DEF Follow
<1>13. \A j \in MutSlots : OwnersMut(ms[j], crossed, issued) /\ KnownMut(ms[j], version)
  BY <1>1, NoMutShape DEF AccountInv, OwnersMut, KnownMut
<1> HIDE DEF ms
<1>14. ASSUME NEW j \in MutSlots
       PROVE  OwnersMut(muts'[j], crossed', issued') /\ KnownMut(muts'[j], version')
  <2>1. /\ ms[j] \in MutShape /\ muts'[j].op = ms[j].op
        /\ muts'[j].sent = ms[j].sent /\ muts'[j].ver = ms[j].ver
    BY <1>12, LeaveSound
  <2>2. OwnersMut(ms[j], crossed', issued')
    BY <1>5, <1>13, <2>1, OwnersMutStays
  <2> QED
    BY <1>2, <1>13, <2>1, <2>2 DEF OwnersMut, KnownMut
<1>15. Shapes'
  BY <1>1, <1>2, <1>9, <1>11, <1>12, LeaveSound DEF Shapes
<1> QED
  BY <1>2, <1>9, <1>10, <1>11, <1>14, <1>15 DEF AccountInv

LEMMA MutRefusedKeeps ==
  ASSUME AccountInv, SessionInv, SessionInv', NEW i \in MutSlots, MutRefused(i)
  PROVE  AccountInv'
<1> PICK ms : ms = [muts EXCEPT ![i] = NoMut]
  OBVIOUS
<1>1. cache \in [Keys -> EntryShape] /\ muts \in [MutSlots -> MutShape]
  BY DEF AccountInv, Shapes
<1>2. ms \in [MutSlots -> MutShape] /\ \A j \in MutSlots : ms[j] \in {muts[j], NoMut}
  BY <1>1, NoMutShape
<1>3. Rejected /\ Follow(cache, ms, dialog) /\ UNCHANGED <<version, acked>>
  BY DEF MutRefused
<1> QED
  BY <1>1, <1>2, <1>3, FollowedKeeps DEF AccountInv

LEMMA AccountNextKeeps ==
  ASSUME AccountInv, SessionInv, SessionInv', AccountNext PROVE AccountInv'
<1>1. Restart => AccountInv'
  BY FreshStartKeeps DEF Restart
<1>2. \A k \in Keys : QueryReply(k) \/ GoesStale(k) \/ Rerendered(k) => AccountInv'
  BY FetchReadKeeps, FetchDoneKeeps, AskedAgainKeeps, FetchFailsKeeps, FetchRefusedKeeps,
     GoesStaleKeeps DEF QueryReply
<1>3. \A i \in MutSlots : MutReply(i) => AccountInv'
  BY MutAppliedKeeps, MutDoneKeeps, MutFailsKeeps, MutRefusedKeeps DEF MutReply
<1> QED
  BY <1>1, <1>2, <1>3, VisitKeeps, NotTheOwnerKeeps, ConfirmKeeps, ClickKeeps DEF AccountNext

LEMMA AccountStutterKeeps == ASSUME AccountInv, UNCHANGED accountAll PROVE AccountInv'
<1>1. UNCHANGED <<store, issued, crossed, blank, version, acked, cache, muts>>
  BY DEF accountAll, accountVars, sessionVars, server, history
<1> QED
  BY <1>1, MutsKeep DEF AccountInv, Shapes

LEMMA AccountInitInv == ASSUME AccountInit, SessionInv PROVE AccountInv
<1>1. /\ version = [k \in Keys |-> 1] /\ acked = [k \in Keys |-> 1]
      /\ muts = [i \in MutSlots |-> NoMut] /\ cache \in [Keys -> EntryShape]
      /\ \A k \in Keys : cache[k] \in {NoEntry, Ask(NoEntry, store.token)}
  BY WhoseToken, NoEntryShape, AskShape DEF AccountInit
<1>2. Shapes
  BY <1>1, NoMutShape DEF Shapes
<1>3. \A k \in Keys : acked[k] <= version[k] /\ ListedEntry(cache[k], acked[k])
  BY <1>1, WhoseToken, NoEntryShape, NoEntrySound, AskShape DEF ListedEntry
<1>4. ASSUME store.token \notin crossed, NEW k \in Keys PROVE OwnEntry(cache[k], store.user, issued)
  <2>1. OwnEntry(Ask(NoEntry, store.token), store.user, issued)
    BY <1>4, WhoseToken, NoEntryShape, AskSound
  <2> QED
    BY <1>1, <2>1, NoEntrySound
<1>5. Own(cache)
  BY <1>4 DEF Own
<1>6. \A i \in MutSlots : OwnersMut(muts[i], crossed, issued) /\ KnownMut(muts[i], version)
  BY <1>1, NoMutShape DEF OwnersMut, KnownMut
<1>7. version["repo"] = version["my-repos"] /\ version["repo"] = version["user-repos"]
  BY <1>1 DEF Keys
<1> QED
  BY <1>2, <1>3, <1>5, <1>6, <1>7 DEF AccountInv

LEMMA AccountInvariant == Spec => []AccountInv
<1>1. Spec => []SessionInv
  BY PagesKeepToTheSession, SessionInvariant, PTL
<1>2. UIInit /\ SessionInv => AccountInv
  BY AccountInitInv DEF UIInit
<1>3. SessionInv /\ SessionInv' /\ AccountInv /\ [UINext]_uiVars => AccountInv'
  BY AccountNextKeeps, AccountStutterKeeps DEF UINext, OnTour, Browsing, uiVars
<1> QED
  BY <1>1, <1>2, <1>3, PTL DEF Spec

(* Signing out clears the cache (App.tsx:32), so nobody is shown what      *)
(* another user's requests brought, but for a session that took the place  *)
(* of another directly.                                                    *)
THEOREM CachesAreOwn == Spec => []CacheIsOwn
<1>1. AccountInv => CacheIsOwn
  BY DEF AccountInv, Own, OwnEntry, CacheIsOwn
<1> QED
  BY <1>1, AccountInvariant, PTL

(* A list that the cache holds as fresh shows every change a page was told *)
(* of; but for an answer the server had given before the invalidation and  *)
(* that the invalidation did not replace: of the first load of the list,   *)
(* or of a page that was left (TokensPage.tsx:93).                         *)
THEOREM ListsShowWhatWasAcknowledged == Spec => []AcknowledgedListed
<1>1. AccountInv => AcknowledgedListed
  BY DEF AccountInv, Shapes, ListedEntry, AcknowledgedListed
<1> QED
  BY <1>1, AccountInvariant, PTL

(* A repository is changed and deleted with its owner's token or none      *)
(* (RepoSettingsPage.tsx:87), but for tokens that came over another        *)
(* session.                                                                *)
THEOREM OwnersAloneSend == Spec => []OnlyOwnersSend
<1>1. AccountInv => OnlyOwnersSend
  BY DEF AccountInv, OwnersMut, OnlyOwnersSend
<1> QED
  BY <1>1, AccountInvariant, PTL
-----------------------------------------------------------------------------
(* How far versions get: every change is clicked once, and applied once at *)
(* most.                                                                   *)

\* The mutations of ms the server has not applied.
Awaiting(ms) == {i \in MutSlots : ms[i].op # "none" /\ ms[i].ver = 0}
EntryUpTo(e, n) == e.data <= n /\ e.read <= n

CountInv ==
  /\ \A k \in Keys : /\ version[k] >= 1 /\ acked[k] >= 1
                     /\ version[k] + Cardinality(Awaiting(muts)) <= inputs + 1
                     /\ EntryUpTo(cache[k], version[k])
  /\ \A i \in MutSlots : muts[i].ver <= inputs + 1
  /\ dialog \in {"none", "confirm", "typed"}

LEMMA AwaitingIsFinite ==
  ASSUME NEW ms
  PROVE  IsFiniteSet(Awaiting(ms)) /\ Cardinality(Awaiting(ms)) \in Nat
<1>1. IsFiniteSet(MutSlots)
  BY AccountAssumption, FS_Interval DEF MutSlots
<1> QED
  BY <1>1, FS_Subset, FS_CardinalityType DEF Awaiting

LEMMA FewerAwait ==
  ASSUME NEW ms, NEW ns, Awaiting(ns) \subseteq Awaiting(ms)
  PROVE  Cardinality(Awaiting(ns)) <= Cardinality(Awaiting(ms))
  BY AwaitingIsFinite, FS_Subset

\* Only clicks count as inputs of the account's pages, and no step takes one back.
LEMMA InputsGrow ==
  ASSUME SessionInv, SessionNext \/ UNCHANGED sessionVars
  PROVE  inputs \in Nat /\ inputs' \in Nat /\ inputs <= inputs' /\ inputs' <= MaxInputs
<1>1. inputs \in 0..MaxInputs
  BY DEF SessionInv, SessionTypeOK
<1>2. Input \/ inputs' = inputs
  <2>1. ASSUME NEW i \in Slots, Reply(i) PROVE inputs' = inputs
    BY <2>1 DEF Reply, ProbeAccepted, ProbeRefused, Registered, RegistrationRefused,
       LoginAccepted, LoginRefused, LoginRefusedElsewhere, HardRedirect, GotUser, Saved, CallFails
  <2>2. ASSUME UserStep PROVE Input
    BY <2>2 DEF UserStep, Go, SignOut, SubmitLogin, SubmitRegistration, SaveProfile
  <2>3. ASSUME Fresh \/ Rejected PROVE Input \/ inputs' = inputs
    BY <2>3 DEF Fresh, Open, Unload, Rejected, HardRedirect
  <2> QED
    BY <2>1, <2>2, <2>3 DEF SessionNext, Stay, Elsewhere, Expire, Navigated, sessionVars
<1> QED
  BY <1>1, <1>2, SessionAssumption DEF Input

\* A step that applies nothing and sends nothing; the cache shows what it did.
LEMMA QuietCounts ==
  ASSUME AccountInv, CountInv, SessionInv, SessionNext \/ UNCHANGED sessionVars,
         version' = version, \A k \in Keys : acked'[k] >= 1,
         Awaiting(muts') \subseteq Awaiting(muts),
         \A i \in MutSlots : muts'[i].ver \in {0, muts[i].ver},
         \A k \in Keys : EntryUpTo(cache'[k], version[k]),
         dialog' \in {"none", "confirm", "typed"}
  PROVE  CountInv'
<1>1. inputs \in Nat /\ inputs' \in Nat /\ inputs <= inputs'
  BY InputsGrow
<1>2. Cardinality(Awaiting(muts)) \in Nat /\ Cardinality(Awaiting(muts')) \in Nat
      /\ Cardinality(Awaiting(muts')) <= Cardinality(Awaiting(muts))
  BY AwaitingIsFinite, FewerAwait
<1>3. version \in [Keys -> Nat]
  BY DEF AccountInv, Shapes
<1>4. ASSUME NEW k \in Keys
      PROVE  version'[k] >= 1 /\ version'[k] + Cardinality(Awaiting(muts')) <= inputs' + 1
             /\ EntryUpTo(cache'[k], version'[k])
  BY <1>1, <1>2, <1>3 DEF CountInv
<1>5. ASSUME NEW i \in MutSlots PROVE muts'[i].ver <= inputs' + 1
  <2>1. muts[i].ver \in Nat /\ muts[i].ver <= inputs + 1
    BY DEF AccountInv, Shapes, MutShape, CountInv
  <2> QED
    BY <1>1, <2>1
<1> QED
  BY <1>4, <1>5 DEF CountInv

LEMMA AskUpTo ==
  ASSUME NEW e \in EntryShape, NEW t, NEW n \in Nat, EntryUpTo(e, n)
  PROVE  EntryUpTo(Ask(e, t), n)
  BY DEF Ask, EntryShape, EntryUpTo

LEMMA NoEntryUpTo == ASSUME NEW n \in Nat PROVE EntryUpTo(NoEntry, n)
  BY DEF NoEntry, EntryUpTo

LEMMA MountedUpTo ==
  ASSUME NEW c \in [Keys -> EntryShape], NEW new, NEW t, NEW k \in Keys, NEW n \in Nat,
         EntryUpTo(c[k], n)
  PROVE  EntryUpTo(Mounted(c, new, t)[k], n)
<1>1. Mounted(c, new, t)[k] \in {c[k], Ask(c[k], t)}
  BY DEF Mounted
<1> QED
  BY <1>1, AskUpTo

LEMMA FollowCounts ==
  ASSUME AccountInv, CountInv, SessionInv, SessionNext \/ UNCHANGED sessionVars,
         NEW c \in [Keys -> EntryShape], NEW ms \in [MutSlots -> MutShape], NEW d,
         Follow(c, ms, d), version' = version, \A k \in Keys : acked'[k] >= 1,
         \A k \in Keys : EntryUpTo(c[k], version[k]),
         \A i \in MutSlots : ms[i] \in {NoMut, muts[i]},
         d \in {"none", "confirm", "typed"}
  PROVE  CountInv'
<1> DEFINE w == [k \in Keys |-> IF SignedOff THEN NoEntry ELSE c[k]]
<1>1. version \in [Keys -> Nat]
  BY DEF AccountInv, Shapes
<1>2. w \in [Keys -> EntryShape] /\ \A k \in Keys : EntryUpTo(w[k], version[k])
  BY <1>1, NoEntryShape, NoEntryUpTo
<1>3. PICK new : cache' = Mounted(w, new, store'.token)
  BY DEF Follow
<1> HIDE DEF w
<1>4. \A k \in Keys : EntryUpTo(cache'[k], version[k])
  BY <1>1, <1>2, <1>3, MountedUpTo
<1>5. muts' = Leave(ms) /\ dialog' = Close(d)
  BY DEF Follow
<1>6. \A i \in MutSlots : muts'[i].op = ms[i].op /\ muts'[i].ver = ms[i].ver
  BY <1>5, LeaveSound
<1>7. Awaiting(muts') \subseteq Awaiting(muts)
  BY <1>6, NoMutShape DEF Awaiting
<1>8. \A i \in MutSlots : muts'[i].ver \in {0, muts[i].ver}
  BY <1>6, NoMutShape
<1>9. dialog' \in {"none", "confirm", "typed"}
  BY <1>5 DEF Close
<1> QED
  BY <1>4, <1>7, <1>8, <1>9, QuietCounts

LEMMA StartCounts ==
  ASSUME AccountInv, CountInv, SessionInv, Fresh, Start PROVE CountInv'
<1> DEFINE w == [k \in Keys |-> NoEntry]
<1>1. version \in [Keys -> Nat]
  BY DEF AccountInv, Shapes
<1>2. w \in [Keys -> EntryShape] /\ \A k \in Keys : EntryUpTo(w[k], version[k])
  BY <1>1, NoEntryShape, NoEntryUpTo
<1>3. PICK new : cache' = Mounted(w, new, store'.token)
  BY DEF Start
<1> HIDE DEF w
<1>4. \A k \in Keys : EntryUpTo(cache'[k], version[k])
  BY <1>1, <1>2, <1>3, MountedUpTo
<1>5. \A i \in MutSlots : muts'[i].op = "none" /\ muts'[i].ver = 0
  BY NoMutShape DEF Start
<1>6. Awaiting(muts') \subseteq Awaiting(muts)
  BY <1>5 DEF Awaiting
<1>7. SessionNext
  BY DEF SessionNext
<1> QED
  BY <1>4, <1>5, <1>6, <1>7, QuietCounts DEF Start, CountInv

\* The entry of k changes and nothing else.
LEMMA EntryCounts ==
  ASSUME AccountInv, CountInv, SessionInv, UNCHANGED <<sessionVars, version, muts, dialog, acked>>,
         NEW k \in Keys, NEW e, cache' = [cache EXCEPT ![k] = e], EntryUpTo(e, version[k])
  PROVE  CountInv'
<1>1. cache \in [Keys -> EntryShape] /\ version \in [Keys -> Nat]
  BY DEF AccountInv, Shapes
<1>2. \A l \in Keys : EntryUpTo(cache'[l], version[l])
  BY <1>1 DEF CountInv
<1>3. Awaiting(muts') \subseteq Awaiting(muts) /\ \A i \in MutSlots : muts'[i].ver \in {0, muts[i].ver}
  OBVIOUS
<1> QED
  BY <1>2, <1>3, QuietCounts DEF CountInv

LEMMA QueryCounts ==
  ASSUME AccountInv, CountInv, SessionInv, NEW k \in Keys,
         QueryReply(k) \/ GoesStale(k) \/ Rerendered(k)
  PROVE  CountInv'
<1> DEFINE n == version[k]
           old == cache[k]
           Quiet == UNCHANGED <<sessionVars, version, muts, dialog, acked>>
           Becomes(e) == Quiet /\ cache' = [cache EXCEPT ![k] = e]
<1>1. old \in EntryShape /\ n \in Nat /\ EntryUpTo(old, n) /\ cache \in [Keys -> EntryShape]
  BY DEF AccountInv, Shapes, CountInv
<1>2. EntryUpTo(GivenUp(old), n)
  BY <1>1 DEF EntryShape, EntryUpTo, GivenUp, NoEntry
<1>3. ASSUME FetchRead(k) PROVE CountInv'
  <2> PICK e : e = [old EXCEPT !.phase = "read", !.read = n,
                      !.sent = IF Accepted(cache[k].sent) THEN @ ELSE Null]
    OBVIOUS
  <2>1. Becomes(e)
    BY <1>1, <1>3 DEF FetchRead
  <2>2. EntryUpTo(e, n)
    BY <1>1 DEF EntryShape, EntryUpTo
  <2> QED
    BY <2>1, <2>2, EntryCounts
<1>4. ASSUME FetchDone(k) PROVE CountInv'
  <2> PICK by : by = IF cache[k].sent = Null THEN Nobody ELSE issued[cache[k].sent]
    OBVIOUS
  <2> PICK e : e = [NoEntry EXCEPT !.phase = "rest", !.fresh = TRUE, !.late = old.late,
                      !.data = old.read, !.by = by]
    OBVIOUS
  <2>1. Becomes(e)
    BY <1>4 DEF FetchDone
  <2>2. EntryUpTo(e, n)
    BY <1>1 DEF EntryShape, EntryUpTo, NoEntry
  <2> QED
    BY <2>1, <2>2, EntryCounts
<1>5. ASSUME FetchRetried(k) PROVE CountInv'
  <2> PICK e : e = [Ask(old, store.token) EXCEPT !.retried = TRUE]
    OBVIOUS
  <2>1. Becomes(e)
    BY <1>5 DEF FetchRetried
  <2>2. EntryUpTo(e, n)
    BY <1>1 DEF EntryShape, EntryUpTo, Ask
  <2> QED
    BY <2>1, <2>2, EntryCounts
<1>6. ASSUME FetchFails(k) PROVE CountInv'
  <2>1. Becomes(GivenUp(old))
    BY <1>6 DEF FetchFails
  <2> QED
    BY <1>2, <2>1, EntryCounts
<1>7. ASSUME FetchRefused(k) PROVE CountInv'
  <2> PICK c : c = [cache EXCEPT ![k] = GivenUp(old)]
    OBVIOUS
  <2>1. c \in [Keys -> EntryShape] /\ \A l \in Keys : EntryUpTo(c[l], version[l])
    BY <1>1, <1>2, GivenUpSound DEF CountInv
  <2>2. SessionNext /\ Follow(c, muts, dialog) /\ UNCHANGED <<version, acked>>
    BY <1>7 DEF FetchRefused, SessionNext
  <2>3. muts \in [MutSlots -> MutShape]
    BY DEF AccountInv, Shapes
  <2> QED
    BY <2>1, <2>2, <2>3, FollowCounts DEF CountInv
<1>8. ASSUME GoesStale(k) PROVE CountInv'
  <2> PICK e : e = [old EXCEPT !.fresh = FALSE]
    OBVIOUS
  <2>1. Becomes(e)
    BY <1>1, <1>8 DEF GoesStale
  <2>2. EntryUpTo(e, n)
    BY <1>1 DEF EntryShape, EntryUpTo
  <2> QED
    BY <2>1, <2>2, EntryCounts
<1>9. ASSUME Rerendered(k) PROVE CountInv'
  BY <1>1, <1>9, AskUpTo, EntryCounts DEF Rerendered
<1> QED
  BY <1>3, <1>4, <1>5, <1>6, <1>7, <1>8, <1>9 DEF QueryReply

LEMMA ConfirmCounts ==
  ASSUME AccountInv, CountInv, SessionInv, Confirm PROVE CountInv'
<1>1. UNCHANGED <<sessionVars, version, cache, muts, acked>>
  BY DEF Confirm
<1>2. dialog' \in {"none", "confirm", "typed"}
  BY DEF Confirm, ConfirmRevoke, ConfirmDelete
<1>3. Awaiting(muts') \subseteq Awaiting(muts) /\ \A i \in MutSlots : muts'[i].ver \in {0, muts[i].ver}
  BY <1>1
<1> QED
  BY <1>1, <1>2, <1>3, QuietCounts DEF CountInv

\* A click is an input, and one mutation more that awaits its turn.
LEMMA SentCounts ==
  ASSUME AccountInv, CountInv, SessionInv, NEW op \in MutOps, Click(op) PROVE CountInv'
<1> DEFINE A == Awaiting(muts)
<1> PICK m : m = [op |-> op, sent |-> Bearer(Null), ver |-> 0, live |-> TRUE]
  OBVIOUS
<1>1. UNCHANGED <<version, cache, dialog, acked>> /\ inputs' = inputs + 1
  BY DEF Click, Elsewhere, Input
<1>2. PICK i \in MutSlots : muts' = [muts EXCEPT ![i] = m]
  BY DEF Click
<1>3. muts \in [MutSlots -> MutShape] /\ version \in [Keys -> Nat]
  BY DEF AccountInv, Shapes
<1>4. \A j \in MutSlots : muts'[j] = IF j = i THEN m ELSE muts[j]
  BY <1>2, <1>3
<1>5. inputs \in Nat /\ m.ver = 0
  BY DEF SessionInv, SessionTypeOK
<1>6. Awaiting(muts') \subseteq A \cup {i}
  BY <1>4 DEF Awaiting
<1>7. IsFiniteSet(A) /\ Cardinality(A) \in Nat /\ Cardinality(Awaiting(muts')) \in Nat
  BY AwaitingIsFinite
<1> HIDE DEF A
<1>8. Cardinality(A \cup {i}) <= Cardinality(A) + 1 /\ IsFiniteSet(A \cup {i})
  <2>1. IsFiniteSet(A \cup {i})
        /\ Cardinality(A \cup {i}) = IF i \in A THEN Cardinality(A) ELSE Cardinality(A) + 1
    BY <1>7, FS_AddElement, Zenon
  <2> QED
    BY <1>7, <2>1
<1>9. Cardinality(Awaiting(muts')) <= Cardinality(A \cup {i})
  BY <1>6, <1>8, FS_Subset
<1>10. Cardinality(A \cup {i}) \in Nat
  BY <1>8, FS_CardinalityType
<1>11. ASSUME NEW k \in Keys
       PROVE  version'[k] + Cardinality(Awaiting(muts')) <= inputs' + 1
  <2>1. version[k] + Cardinality(A) <= inputs + 1 /\ version[k] \in Nat
    BY <1>3 DEF CountInv, A
  <2> QED
    BY <1>1, <1>5, <1>7, <1>8, <1>9, <1>10, <2>1
<1>12. ASSUME NEW j \in MutSlots PROVE muts'[j].ver <= inputs' + 1
  <2>1. muts[j].ver \in Nat /\ muts[j].ver <= inputs + 1
    BY <1>3 DEF MutShape, CountInv
  <2> QED
    BY <1>1, <1>4, <1>5, <2>1
<1>13. \A k \in Keys : version'[k] >= 1 /\ acked'[k] >= 1 /\ EntryUpTo(cache'[k], version'[k])
  BY <1>1 DEF CountInv
<1>14. dialog' \in {"none", "confirm", "typed"}
  BY <1>1 DEF CountInv
<1> QED
  BY <1>11, <1>12, <1>13, <1>14 DEF CountInv

\* A change that is applied counts where it awaited before.
LEMMA MutAppliedCounts ==
  ASSUME AccountInv, CountInv, SessionInv, NEW i \in MutSlots, MutApplied(i) PROVE CountInv'
<1> DEFINE ks == Touches(muts[i].op)
           A == Awaiting(muts)
<1>1. muts[i].op \in MutOps /\ muts[i] \in MutShape /\ muts[i].ver = 0
      /\ version \in [Keys -> Nat] /\ muts \in [MutSlots -> MutShape]
  BY DEF AccountInv, Shapes, MutApplied, MutShape
<1>2. PICK l \in ks : l = CHOOSE k \in ks : TRUE
  BY <1>1, InvalidatesTouched
<1>3. /\ version' = [k \in Keys |-> IF k \in ks THEN version[k] + 1 ELSE version[k]]
      /\ muts' = [muts EXCEPT ![i].ver = version[l] + 1]
      /\ UNCHANGED <<inputs, cache, dialog, acked>>
  BY <1>2 DEF MutApplied, sessionVars
<1>4. l \in Keys /\ inputs \in Nat
  BY <1>1, InvalidatesTouched DEF SessionInv, SessionTypeOK
<1>5. IsFiniteSet(A) /\ Cardinality(A) \in Nat /\ Cardinality(Awaiting(muts')) \in Nat
  BY AwaitingIsFinite
<1>6. i \in A
  BY <1>1 DEF MutApplied, Awaiting
<1>7. Awaiting(muts') \subseteq A \ {i}
  BY <1>1, <1>3, <1>4 DEF Awaiting, MutShape
<1>8. \A j \in MutSlots : muts'[j].ver = IF j = i THEN version[l] + 1 ELSE muts[j].ver
  BY <1>1, <1>3 DEF MutShape
<1>9. \A k \in Keys : version[k] + Cardinality(A) <= inputs + 1 /\ version[k] \in Nat
  BY <1>1 DEF CountInv
<1>10. \A k \in Keys : version'[k] <= version[k] + 1 /\ version[k] <= version'[k] /\ version'[k] \in Nat
  BY <1>1, <1>3
<1> HIDE DEF A, ks
<1>11. Cardinality(A \ {i}) = Cardinality(A) - 1 /\ IsFiniteSet(A \ {i})
  BY <1>5, <1>6, FS_RemoveElement
<1>12. Cardinality(Awaiting(muts')) <= Cardinality(A) - 1
  BY <1>7, <1>11, FS_Subset
<1>13. \A k \in Keys : version'[k] + Cardinality(Awaiting(muts')) <= inputs' + 1
  BY <1>3, <1>4, <1>5, <1>9, <1>10, <1>12
<1>14. version[l] + 1 <= inputs + 1
  BY <1>4, <1>5, <1>9, <1>12
<1>15. \A j \in MutSlots : muts'[j].ver <= inputs' + 1
  BY <1>3, <1>8, <1>14 DEF CountInv
<1>16. ASSUME NEW k \in Keys
       PROVE  version'[k] >= 1 /\ acked'[k] >= 1 /\ EntryUpTo(cache'[k], version'[k])
  <2>1. cache[k].data \in Nat /\ cache[k].read \in Nat
    BY DEF AccountInv, Shapes, EntryShape
  <2>2. version[k] >= 1 /\ acked[k] >= 1 /\ EntryUpTo(cache[k], version[k])
    BY DEF CountInv
  <2> QED
    BY <1>3, <1>9, <1>10, <2>1, <2>2 DEF EntryUpTo
<1> QED
  BY <1>3, <1>13, <1>15, <1>16 DEF CountInv

LEMMA InvalidatedUpTo ==
  ASSUME NEW k \in Keys, NEW t, cache[k] \in EntryShape, NEW n \in Nat, EntryUpTo(cache[k], n)
  PROVE  EntryUpTo(Invalidated(k, t), n)
<1> PICK e : e = [cache[k] EXCEPT !.fresh = FALSE, !.late = (cache[k].phase = "read")]
  OBVIOUS
<1>1. EntryUpTo(e, n)
  BY DEF EntryUpTo, EntryShape
<1>2. Invalidated(k, t) \in {cache[k], Ask(cache[k], t), e}
  BY DEF Invalidated
<1> QED
  BY <1>1, <1>2, AskUpTo

LEMMA MutDoneCounts ==
  ASSUME AccountInv, CountInv, SessionInv, NEW i \in MutSlots, MutDone(i) PROVE CountInv'
<1> DEFINE op == muts[i].op
           ms == [muts EXCEPT ![i] = NoMut]
           c == AfterSuccess(op)
           d == IF op = "revoke" /\ muts[i].live THEN "none" ELSE dialog
<1>1. muts[i] \in MutShape /\ muts \in [MutSlots -> MutShape] /\ cache \in [Keys -> EntryShape]
      /\ version \in [Keys -> Nat] /\ acked \in [Keys -> Nat] /\ muts[i].ver \in Nat
  BY DEF AccountInv, Shapes, MutShape
<1>2. SessionNext \/ UNCHANGED sessionVars
  BY AccountStepsAreSessions DEF AccountNext, MutReply
<1>3. c \in [Keys -> EntryShape]
  BY <1>1, InvalidatedSound DEF AfterSuccess
<1>4. \A k \in Keys : EntryUpTo(c[k], version[k])
  BY <1>1, InvalidatedUpTo DEF AfterSuccess, CountInv
<1>5. \A k \in Keys : acked'[k] >= 1
  <2>1. acked' = [k \in Keys |->
          IF k \in Invalidates(op) /\ acked[k] < muts[i].ver THEN muts[i].ver ELSE acked[k]]
    BY DEF MutDone
  <2> QED
    BY <1>1, <2>1 DEF CountInv
<1>6. ms \in [MutSlots -> MutShape] /\ \A j \in MutSlots : ms[j] \in {NoMut, muts[j]}
  BY <1>1, NoMutShape
<1>7. d \in {"none", "confirm", "typed"}
  BY DEF CountInv
<1>8. Follow(c, ms, d) /\ version' = version
  BY DEF MutDone
<1> HIDE DEF c, ms, d
<1> QED
  BY <1>2, <1>3, <1>4, <1>5, <1>6, <1>7, <1>8, FollowCounts

LEMMA MutFailsCounts ==
  ASSUME AccountInv, CountInv, SessionInv, NEW i \in MutSlots, MutFails(i) PROVE CountInv'
<1>1. UNCHANGED <<sessionVars, version, cache, dialog, acked>>
      /\ muts' = [muts EXCEPT ![i] = NoMut]
  BY DEF MutFails
<1>2. \A j \in MutSlots : muts'[j] \in {NoMut, muts[j]}
  BY <1>1 DEF AccountInv, Shapes
<1>3. Awaiting(muts') \subseteq Awaiting(muts) /\ \A j \in MutSlots : muts'[j].ver \in {0, muts[j].ver}
  BY <1>2, NoMutShape DEF Awaiting
<1> QED
  BY <1>1, <1>3, QuietCounts DEF CountInv

LEMMA AccountNextCounts ==
  ASSUME AccountInv, CountInv, SessionInv, AccountNext PROVE CountInv'
<1>1. cache \in [Keys -> EntryShape] /\ muts \in [MutSlots -> MutShape]
      /\ (\A k \in Keys : acked[k] >= 1 /\ EntryUpTo(cache[k], version[k]))
      /\ dialog \in {"none", "confirm", "typed"}
  BY DEF AccountInv, Shapes, CountInv
<1>2. ASSUME Visit \/ NotTheOwner PROVE CountInv'
  <2>1. SessionNext /\ Follow(cache, muts, dialog) /\ UNCHANGED <<version, acked>>
    BY <1>2 DEF Visit, NotTheOwner, Along, SessionNext
  <2> QED
    BY <1>1, <2>1, FollowCounts
<1>3. Restart => CountInv'
  BY StartCounts DEF Restart
<1>4. ASSUME NEW i \in MutSlots, MutRefused(i) PROVE CountInv'
  <2> PICK ms : ms = [muts EXCEPT ![i] = NoMut]
    OBVIOUS
  <2>1. ms \in [MutSlots -> MutShape] /\ \A j \in MutSlots : ms[j] \in {NoMut, muts[j]}
    BY <1>1, NoMutShape
  <2>2. SessionNext /\ Follow(cache, ms, dialog) /\ UNCHANGED <<version, acked>>
    BY <1>4 DEF MutRefused, SessionNext
  <2> QED
    BY <1>1, <2>1, <2>2, FollowCounts
<1>5. \A i \in MutSlots : MutReply(i) => CountInv'
  BY <1>4, MutAppliedCounts, MutDoneCounts, MutFailsCounts DEF MutReply
<1>6. \A k \in Keys : QueryReply(k) \/ GoesStale(k) \/ Rerendered(k) => CountInv'
  BY QueryCounts
<1> QED
  BY <1>2, <1>3, <1>5, <1>6, ConfirmCounts, SentCounts DEF AccountNext

LEMMA AccountStutterCounts ==
  ASSUME CountInv, UNCHANGED accountAll PROVE CountInv'
  BY DEF accountAll, accountVars, sessionVars, CountInv

LEMMA CountInitInv == ASSUME AccountInit, SessionInv PROVE CountInv
<1>1. /\ version = [k \in Keys |-> 1] /\ acked = [k \in Keys |-> 1]
      /\ muts = [i \in MutSlots |-> NoMut] /\ dialog = "none"
      /\ \A k \in Keys : cache[k] \in {NoEntry, Ask(NoEntry, store.token)}
  BY DEF AccountInit
<1>2. \A k \in Keys : EntryUpTo(cache[k], 1)
  BY <1>1, NoEntryShape, NoEntryUpTo, AskUpTo
<1>3. Awaiting(muts) = {} /\ \A i \in MutSlots : muts[i].ver = 0
  BY <1>1, NoMutShape DEF Awaiting
<1>4. Cardinality(Awaiting(muts)) = 0
  BY <1>3, FS_EmptySet
<1>5. inputs \in Nat
  BY DEF SessionInv, SessionTypeOK
<1>6. \A k \in Keys : version[k] = 1 /\ acked[k] = 1
  BY <1>1
<1>7. ASSUME NEW k \in Keys
      PROVE  /\ version[k] >= 1 /\ acked[k] >= 1 /\ EntryUpTo(cache[k], version[k])
             /\ version[k] + Cardinality(Awaiting(muts)) <= inputs + 1
  <2>1. version[k] = 1 /\ acked[k] = 1
    BY <1>6
  <2> QED
    BY <1>2, <1>4, <1>5, <2>1
<1>8. \A i \in MutSlots : muts[i].ver <= inputs + 1
  BY <1>3, <1>5
<1>9. dialog \in {"none", "confirm", "typed"}
  BY <1>1
<1> QED
  BY <1>7, <1>8, <1>9 DEF CountInv

LEMMA CountInvariant == Spec => []CountInv
<1>1. Spec => []SessionInv
  BY PagesKeepToTheSession, SessionInvariant, PTL
<1>2. UIInit /\ SessionInv => CountInv
  BY CountInitInv DEF UIInit
<1>3. SessionInv /\ AccountInv /\ CountInv /\ [UINext]_uiVars => CountInv'
  BY AccountNextCounts, AccountStutterCounts DEF UINext, OnTour, Browsing, uiVars
<1> QED
  BY <1>1, <1>2, <1>3, AccountInvariant, PTL DEF Spec

LEMMA AccountTypes ==
  ASSUME SessionInv, AccountInv, CountInv PROVE AccountTypeOK
<1>1. /\ version \in [Keys -> Nat] /\ acked \in [Keys -> Nat]
      /\ cache \in [Keys -> EntryShape] /\ muts \in [MutSlots -> MutShape]
  BY DEF AccountInv, Shapes
<1>2. inputs \in Nat /\ inputs <= MaxInputs /\ MaxInputs \in Nat
  BY SessionAssumption DEF SessionInv, SessionTypeOK
<1>3. ASSUME NEW k \in Keys
      PROVE  version[k] \in Versions /\ acked[k] \in Versions /\ cache[k] \in Entry
  <2>1. Cardinality(Awaiting(muts)) \in Nat
    BY AwaitingIsFinite
  <2>2. version[k] >= 1 /\ version[k] + Cardinality(Awaiting(muts)) <= inputs + 1 /\ acked[k] >= 1
        /\ acked[k] <= version[k] /\ EntryUpTo(cache[k], version[k])
    BY DEF CountInv, AccountInv
  <2>3. version[k] \in Nat /\ acked[k] \in Nat /\ version[k] <= MaxInputs + 1
    BY <1>1, <1>2, <2>1, <2>2
  <2>4. version[k] \in Versions /\ acked[k] \in Versions
    BY <1>2, <2>2, <2>3 DEF Versions
  <2>5. cache[k] \in EntryShape /\ cache[k].data \in Nat /\ cache[k].read \in Nat
    BY <1>1 DEF EntryShape
  <2>6. cache[k].data \in Versions \cup {0} /\ cache[k].read \in Versions \cup {0}
    BY <1>2, <2>2, <2>3, <2>5 DEF Versions, EntryUpTo
  <2>7. cache[k] \in Entry
    BY <2>5, <2>6 DEF EntryShape, Entry
  <2> QED
    BY <2>4, <2>7
<1>4. ASSUME NEW i \in MutSlots PROVE muts[i] \in Mut
  <2>1. muts[i] \in MutShape /\ muts[i].ver \in Nat /\ muts[i].ver <= inputs + 1
    BY <1>1 DEF MutShape, CountInv
  <2>2. muts[i].ver \in Versions \cup {0}
    BY <1>2, <2>1 DEF Versions
  <2> QED
    BY <2>1, <2>2 DEF MutShape, Mut
<1> QED
  BY <1>1, <1>3, <1>4 DEF AccountTypeOK, CountInv

(* The whole UI keeps its types, for any number of users, tokens, calls,   *)
(* mutations and inputs.  That versions stay within what the user did is   *)
(* the statement with something in it: no mutation is applied twice,       *)
(* though queries are retried (main.tsx:12).                               *)
THEOREM UITypes == Spec => []TypeOK
<1>1. SessionInv /\ AccountInv /\ CountInv /\ BrowserInv => TypeOK
  BY AccountTypes DEF TypeOK, SessionInv, BrowserInv
<1>2. Spec => []SessionInv
  BY PagesKeepToTheSession, SessionInvariant, PTL
<1>3. Spec => []BrowserInv
  BY PagesKeepToTheBrowser, BrowserInvariant, PTL
<1> QED
  BY <1>1, <1>2, <1>3, AccountInvariant, CountInvariant, PTL
=============================================================================
