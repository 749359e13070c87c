---------------------------- MODULE GitAccessProofs ----------------------------
(***************************************************************************)
(* For any number of sessions, credentials, users and connections: what a  *)
(* git process runs on was true, and the feed tells of pushes as they were. *)
(***************************************************************************)
EXTENDS GitAccess, FiniteSetTheorems, TLAPS

USE GitAssumption

(* What a session's goroutine has in hand at each point. *)
Sound(s, x) ==
  /\ s \in HTTP => x.pc \notin {"open", "check"}
  /\ s \in SSH => x.pc \notin {"auth", "user"}
  /\ x.pc # "idle" => Witness(x.cred) \subseteq x.seen
  /\ x.pc \in {"auth", "user", "check", "git"} =>
       x.repo \in x.seen /\ x.repo # NoRow /\ x.repo.id < nextId
  /\ x.pc = "user" \/ (s \in SSH /\ x.pc # "idle") => HeldBy(x.cred, x.user) \in x.seen
  /\ x.pc = "git" => /\ x.user = x.cred \/ HeldBy(x.cred, x.user) \in x.seen
                     /\ Allowed(x.user, x.repo, x.op)

SessionsOK == \A s \in Sessions : Sound(s, sess[s])

(* Every push was the owner's and names an id that was given out; ids are  *)
(* not used again.                                                         *)
PushesOK ==
  /\ IsFiniteSet(pushed)
  /\ recording \subseteq pushed
  /\ \A e \in pushed : e.actor = Owner /\ e.repo < nextId
  /\ nextId > 0 /\ (row # NoRow => row.id > 0 /\ row.id < nextId)

Inv == TypeOK /\ SessionsOK /\ PushesOK /\ FeedTellsOfPushes
-----------------------------------------------------------------------------
LEMMA IdleSound == \A s \in Sessions : Sound(s, Idle) /\ Idle \in Session
  BY DEF Sound, Idle, Session, Sessions, NoRow, Row, Ops

LEMMA RowsAreNotHolders == \A c, u : HeldBy(c, u) \notin Row
  <1> SUFFICES ASSUME NEW c, NEW u, HeldBy(c, u) \in Row PROVE FALSE
    OBVIOUS
  <1>1. DOMAIN HeldBy(c, u) = {"cred", "user"}
    BY DEF HeldBy
  <1>2. DOMAIN HeldBy(c, u) = {"id", "priv"}
    BY DEF Row
  <1> QED BY <1>1, <1>2

LEMMA WitnessIsFacts ==
  ASSUME TypeOK, NEW c PROVE Witness(c) \subseteq Facts
  BY DEF Witness, Observed, HeldBy, Facts, TypeOK, Creds

\* One session moves, the world stands still.
LEMMA OneSession ==
  ASSUME Inv, NEW s \in Sessions, NEW x \in Session, Become(s, x), Sound(s, x),
         UNCHANGED <<row, nextId, creds>>
  PROVE  sess' \in [Sessions -> Session] /\ SessionsOK'
  <1>1. sess' = [sess EXCEPT ![s] = x] /\ sess \in [Sessions -> Session]
    BY DEF Become, Inv, TypeOK
  <1>2. ASSUME NEW t \in Sessions PROVE Sound(t, sess[t])'
    <2>1. Sound(t, sess'[t])
      BY <1>1 DEF Inv, SessionsOK
    <2> QED BY <2>1 DEF Sound, Witness, Observed
  <1> QED BY <1>1, <1>2 DEF SessionsOK

LEMMA Afterwards ==
  ASSUME Inv, NEW s \in Sessions, sess[s].pc # "idle"
  PROVE  After(s) \in Session /\ Sound(s, After(s))
  <1>1. CASE s \in HTTP
    BY <1>1, IdleSound DEF After
  <1>2. CASE s \notin HTTP
    <2>1. s \in SSH /\ sess[s] \in Session /\ Sound(s, sess[s])
      BY <1>2 DEF Sessions, Inv, TypeOK, SessionsOK
    <2>2. /\ After(s) \in Session /\ After(s).pc = "open" /\ After(s).cred = sess[s].cred
          /\ After(s).user = sess[s].user /\ After(s).seen = sess[s].seen
      BY <1>2, <2>1 DEF After, Session, NoRow, Row, Ops
    <2> QED BY <1>2, <2>1, <2>2 DEF Sound
  <1> QED BY <1>1, <1>2

\* Only a user that is let in gets at the repository.
LEMMA Decided ==
  ASSUME Inv, NEW s \in Sessions, NEW u \in Users \cup {Nobody},
         sess[s].pc \in {"auth", "user", "check"}, Decide(s, u),
         u = sess[s].cred \/ HeldBy(sess[s].cred, u) \in sess[s].seen,
         s \in SSH => u = sess[s].user,
         UNCHANGED <<row, nextId, creds>>
  PROVE  sess' \in [Sessions -> Session] /\ SessionsOK'
  <1> DEFINE x == [sess[s] EXCEPT !.pc = "git", !.user = u]
  <1>1. sess[s] \in Session /\ Sound(s, sess[s])
    BY DEF Inv, TypeOK, SessionsOK
  <1>2. CASE Allowed(u, sess[s].repo, sess[s].op)
    <2>1. Become(s, x)
      BY <1>2 DEF Decide
    <2>2. /\ x \in Session /\ x.pc = "git" /\ x.user = u /\ x.cred = sess[s].cred
          /\ x.repo = sess[s].repo /\ x.op = sess[s].op /\ x.seen = sess[s].seen
      BY <1>1 DEF Session
    <2>3. Sound(s, x)
      BY <1>1, <1>2, <2>2 DEF Sound
    <2> QED BY <2>1, <2>2, <2>3, OneSession
  <1>3. CASE ~ Allowed(u, sess[s].repo, sess[s].op)
    BY <1>3, Afterwards, OneSession DEF Decide
  <1> QED BY <1>2, <1>3
-----------------------------------------------------------------------------
(* Steps of sessions that touch nothing else. *)

LEMMA Troubles ==
  ASSUME TypeOK, Fault \/ NoTrouble
  PROVE  troubles' \in Nat /\ troubles <= troubles'
  BY DEF Fault, NoTrouble, TypeOK

LEMMA SameWorld ==
  ASSUME Inv, sess' \in [Sessions -> Session], SessionsOK', Fault \/ NoTrouble,
         UNCHANGED <<world, recording, pushed>>, touching' \in Nat, requests' \in Nat
  PROVE  Inv'
  <1>1. troubles' \in Nat /\ (troubles' = 0 => troubles = 0)
    BY Troubles DEF Inv, TypeOK
  <1>2. UNCHANGED <<row, nextId, creds, feed, changes, recording, pushed>>
    BY DEF world
  <1> QED BY <1>1, <1>2 DEF Inv, TypeOK, PushesOK, FeedTellsOfPushes

LEMMA LocalInv ==
  ASSUME Inv, sess' \in [Sessions -> Session], SessionsOK', Fault \/ NoTrouble, Local
  PROVE  Inv'
  <1>1. UNCHANGED <<world, recording, pushed, touching, requests>>
    BY DEF Local, work
  <1>2. touching' \in Nat /\ requests' \in Nat
    BY <1>1 DEF Inv, TypeOK
  <1> QED BY <1>1, <1>2, SameWorld

\* The steps that end in an answer.
Answers(s) ==
  \/ ResolveRepoFails(s) \/ BearerFails(s) \/ ValidatePATFails(s) \/ GetUserByIDFails(s)
  \/ IsAuthorizedFails(s) \/ GitFails(s)

LEMMA AnswersInv == ASSUME Inv, NEW s \in Sessions, Answers(s) PROVE Inv'
  <1>1. sess[s].pc # "idle" /\ Become(s, After(s)) /\ (Fault \/ NoTrouble) /\ Local
    BY DEF Answers, ResolveRepoFails, BearerFails, ValidatePATFails, GetUserByIDFails,
           IsAuthorizedFails, GitFails
  <1>2. After(s) \in Session /\ Sound(s, After(s))
    BY <1>1, Afterwards
  <1>3. UNCHANGED <<row, nextId, creds>>
    BY <1>1 DEF Local, world
  <1>4. sess' \in [Sessions -> Session] /\ SessionsOK'
    BY <1>1, <1>2, <1>3, OneSession
  <1> QED BY <1>1, <1>4, LocalInv

\* The steps that end in a decision.
Decisions(s) == Anonymous(s) \/ Bearer(s) \/ GetUserByID(s) \/ IsAuthorized(s)

LEMMA DecisionsInv == ASSUME Inv, NEW s \in Sessions, Decisions(s) PROVE Inv'
  <1>1. sess[s] \in Session /\ Sound(s, sess[s])
    BY DEF Inv, TypeOK, SessionsOK
  <1>2. NoTrouble /\ Local
    BY DEF Decisions, Anonymous, Bearer, GetUserByID, IsAuthorized
  <1>3. UNCHANGED <<row, nextId, creds>>
    BY <1>2 DEF Local, world
  <1>4. CASE Anonymous(s)
    <2>1. sess[s].pc = "auth" /\ sess[s].cred = Nobody /\ Decide(s, Nobody) /\ s \notin SSH
      BY <1>1, <1>4 DEF Anonymous, Sound
    <2> QED BY <2>1, <1>2, <1>3, Decided, LocalInv
  <1>5. CASE Bearer(s)
    <2>1. /\ sess[s].pc = "auth" /\ sess[s].cred \in Users
          /\ Decide(s, sess[s].cred) /\ s \notin SSH
      BY <1>1, <1>5 DEF Bearer, Sound
    <2> QED BY <2>1, <1>2, <1>3, Decided, LocalInv
  <1>6. CASE GetUserByID(s) \/ IsAuthorized(s)
    <2>1. /\ sess[s].pc \in {"user", "check"} /\ Decide(s, sess[s].user)
          /\ sess[s].user \in Users \cup {Nobody}
      BY <1>1, <1>6 DEF GetUserByID, IsAuthorized, Session
    <2>2. HeldBy(sess[s].cred, sess[s].user) \in sess[s].seen
      BY <1>1, <2>1 DEF Sound, Sessions
    <2> QED BY <2>1, <2>2, <1>2, <1>3, Decided, LocalInv
  <1> QED BY <1>4, <1>5, <1>6 DEF Decisions

LEMMA ResolveRepoInv == ASSUME Inv, NEW s \in Sessions, ResolveRepo(s) PROVE Inv'
  <1> DEFINE x == [sess[s] EXCEPT !.pc = IF s \in HTTP THEN "auth" ELSE "check", !.repo = row]
  <1>1. sess[s] \in Session /\ Sound(s, sess[s]) /\ row \in Row
    BY DEF Inv, TypeOK, SessionsOK
  <1>2. sess[s].pc = "resolve" /\ row # NoRow /\ Become(s, x) /\ NoTrouble /\ Local
    BY DEF ResolveRepo
  <1>3. /\ x \in Session /\ x.pc = IF s \in HTTP THEN "auth" ELSE "check"
        /\ x.repo = row /\ x.cred = sess[s].cred /\ x.user = sess[s].user
        /\ x.seen = sess[s].seen
    BY <1>1 DEF Session
  <1>4. row \in x.seen /\ row.id < nextId
    BY <1>1, <1>2, <1>3 DEF Sound, Witness, Observed, Inv, PushesOK
  <1>5. Sound(s, x)
    BY <1>1, <1>2, <1>3, <1>4 DEF Sound, Sessions
  <1>6. UNCHANGED <<row, nextId, creds>>
    BY <1>2 DEF Local, world
  <1> HIDE DEF x
  <1> QED BY <1>2, <1>3, <1>5, <1>6, OneSession, LocalInv

LEMMA ValidatePATInv == ASSUME Inv, NEW s \in Sessions, ValidatePAT(s) PROVE Inv'
  <1> DEFINE x == [sess[s] EXCEPT !.pc = "user", !.user = creds[sess[s].cred]]
  <1>1. sess[s] \in Session /\ Sound(s, sess[s])
    BY DEF Inv, TypeOK, SessionsOK
  <1>2. /\ sess[s].pc = "auth" /\ sess[s].cred \in PATs /\ creds[sess[s].cred] \in Users
        /\ Become(s, x) /\ NoTrouble /\ touching' = touching + 1
        /\ UNCHANGED <<world, recording, pushed, requests>>
    BY DEF ValidatePAT
  <1>3. /\ x \in Session /\ x.pc = "user" /\ x.user = creds[sess[s].cred]
        /\ x.repo = sess[s].repo /\ x.cred = sess[s].cred /\ x.seen = sess[s].seen
    BY <1>1, <1>2 DEF Session
  <1>4. HeldBy(x.cred, x.user) \in Witness(x.cred)
    BY <1>2, <1>3 DEF Witness, Observed, Creds
  <1>5. Sound(s, x)
    BY <1>1, <1>2, <1>3, <1>4 DEF Sound
  <1>6. UNCHANGED <<row, nextId, creds>> /\ touching' \in Nat /\ requests' \in Nat
    BY <1>2 DEF world, Inv, TypeOK
  <1> HIDE DEF x
  <1>7. sess' \in [Sessions -> Session] /\ SessionsOK'
    BY <1>2, <1>3, <1>5, <1>6, OneSession
  <1> QED BY <1>2, <1>6, <1>7, SameWorld
-----------------------------------------------------------------------------
(* Clients. *)

LEMMA WitnessAgain ==
  ASSUME UNCHANGED <<row, creds>>, NEW c PROVE Witness(c)' = Witness(c)
  BY DEF Witness, Observed

LEMMA RequestInv ==
  ASSUME Inv, NEW s \in Sessions, NEW op \in Ops, NEW c \in PATs \cup Users \cup {Nobody},
         Request(s, op, c)
  PROVE  Inv'
  <1> DEFINE x == [Idle EXCEPT !.pc = "resolve", !.op = op, !.cred = c, !.seen = Witness(c)]
  <1>1. /\ s \in HTTP /\ Become(s, x) /\ NoTrouble /\ UNCHANGED <<world, work>>
        /\ requests' = requests + 1
    BY DEF Request
  <1>2. Witness(c) \subseteq Facts
    BY WitnessIsFacts DEF Inv
  <1>3. /\ x \in Session /\ x.pc = "resolve" /\ x.cred = c /\ x.seen = Witness(c)
    BY <1>2 DEF Session, Idle, NoRow, Row, Creds
  <1>4. Sound(s, x)
    BY <1>1, <1>3 DEF Sound
  <1>5. /\ UNCHANGED <<row, nextId, creds>> /\ touching' \in Nat /\ requests' \in Nat
        /\ UNCHANGED <<recording, pushed>>
    BY <1>1 DEF world, work, Inv, TypeOK
  <1> HIDE DEF x
  <1>6. sess' \in [Sessions -> Session] /\ SessionsOK'
    BY <1>1, <1>3, <1>4, <1>5, OneSession
  <1> QED BY <1>1, <1>5, <1>6, SameWorld

LEMMA ConnectInv ==
  ASSUME Inv, NEW s \in Sessions, NEW k \in Keys, Connect(s, k) PROVE Inv'
  <1> DEFINE x == [Idle EXCEPT !.pc = "open", !.cred = k, !.user = creds[k],
                              !.seen = Witness(k)]
  <1>1. /\ s \in SSH /\ creds[k] \in Users /\ Become(s, x) /\ NoTrouble
        /\ UNCHANGED <<world, work, requests>>
    BY DEF Connect
  <1>2. Witness(k) \subseteq Facts
    BY WitnessIsFacts DEF Inv
  <1>3. /\ x \in Session /\ x.pc = "open" /\ x.cred = k /\ x.user = creds[k]
        /\ x.seen = Witness(k)
    BY <1>1, <1>2 DEF Session, Idle, NoRow, Row, Creds, Ops
  <1>4. HeldBy(x.cred, x.user) \in x.seen
    BY <1>3 DEF Witness, Observed, Creds
  <1>5. Sound(s, x)
    BY <1>1, <1>3, <1>4 DEF Sound
  <1>6. UNCHANGED <<row, nextId, creds>> /\ Local
    BY <1>1 DEF world, Local
  <1> HIDE DEF x
  <1> QED BY <1>1, <1>3, <1>5, <1>6, OneSession, LocalInv

\* Rows seen before a session was opened are forgotten, the holder of the key is not.
LEMMA ExecInv ==
  ASSUME Inv, NEW s \in Sessions, NEW op \in Ops, Exec(s, op) PROVE Inv'
  <1> DEFINE x == [sess[s] EXCEPT !.pc = "resolve", !.op = op,
                                 !.seen = (sess[s].seen \ Row) \cup Witness(sess[s].cred)]
  <1>1. /\ s \in SSH /\ sess[s].pc = "open" /\ Become(s, x) /\ NoTrouble
        /\ UNCHANGED <<world, work>> /\ requests' = requests + 1
    BY DEF Exec
  <1>2. sess[s] \in Session /\ Sound(s, sess[s])
    BY DEF Inv, TypeOK, SessionsOK
  <1>3. Witness(sess[s].cred) \subseteq Facts
    BY WitnessIsFacts DEF Inv
  <1>4. /\ x \in Session /\ x.pc = "resolve" /\ x.cred = sess[s].cred
        /\ x.user = sess[s].user
        /\ x.seen = (sess[s].seen \ Row) \cup Witness(sess[s].cred)
    BY <1>2, <1>3 DEF Session
  <1>5. HeldBy(x.cred, x.user) \in x.seen
    BY <1>1, <1>2, <1>4, RowsAreNotHolders DEF Sound
  <1>6. Sound(s, x)
    BY <1>1, <1>4, <1>5 DEF Sound
  <1>7. /\ UNCHANGED <<row, nextId, creds>> /\ touching' \in Nat /\ requests' \in Nat
        /\ UNCHANGED <<recording, pushed>>
    BY <1>1 DEF world, work, Inv, TypeOK
  <1> HIDE DEF x
  <1>8. sess' \in [Sessions -> Session] /\ SessionsOK'
    BY <1>1, <1>4, <1>6, <1>7, OneSession
  <1> QED BY <1>1, <1>7, <1>8, SameWorld

LEMMA LeaveInv ==
  ASSUME Inv, NEW s \in Sessions, Disconnect(s) \/ ClientGone(s) PROVE Inv'
  <1>1. Become(s, Idle) /\ NoTrouble /\ Local
    BY DEF Disconnect, ClientGone, Local
  <1>2. UNCHANGED <<row, nextId, creds>>
    BY <1>1 DEF Local, world
  <1> QED BY <1>1, <1>2, IdleSound, OneSession, LocalInv
-----------------------------------------------------------------------------
(* Pushes and the feed. *)

LEMMA GitSucceedsInv == ASSUME Inv, NEW s \in Sessions, GitSucceeds(s) PROVE Inv'
  <1>1. sess[s] \in Session /\ Sound(s, sess[s]) /\ TypeOK /\ PushesOK /\ FeedTellsOfPushes
    BY DEF Inv, TypeOK, SessionsOK
  <1>2. /\ sess[s].pc = "git" /\ Become(s, After(s)) /\ NoTrouble
        /\ UNCHANGED <<world, touching, requests>>
        /\ pushed' = pushed \cup Pushes(s) /\ recording' = recording \cup Pushes(s)
    BY DEF GitSucceeds
  <1>3. UNCHANGED <<row, nextId, creds, feed, changes>>
    BY <1>2 DEF world
  <1>4. sess' \in [Sessions -> Session] /\ SessionsOK'
    BY <1>2, <1>3, Afterwards, OneSession
  <1>5. IsFiniteSet(Pushes(s)) /\ IsFiniteSet(pushed')
    BY <1>1, <1>2, FS_EmptySet, FS_Singleton, FS_Union DEF Pushes, PushesOK
  <1>6. Cardinality(pushed) \in Nat
    BY <1>1, FS_CardinalityType DEF PushesOK
  <1>7. ASSUME NEW e \in Pushes(s)
        PROVE  e \in Push /\ e.actor = Owner /\ e.repo < nextId
    <2>1. /\ sess[s].op = "push" /\ sess[s].user \in Users
          /\ e = [actor |-> sess[s].user, repo |-> sess[s].repo.id, n |-> Cardinality(pushed)]
      BY <1>1, <1>7 DEF Pushes, Session
    <2>2. sess[s].user = Owner /\ sess[s].repo.id \in Nat /\ sess[s].repo.id < nextId
      BY <1>1, <1>2, <2>1 DEF Sound, Allowed, Writes, Session, Row
    <2> QED BY <1>6, <2>1, <2>2 DEF Push
  <1>8. TypeOK'
    BY <1>1, <1>2, <1>3, <1>4, <1>7 DEF TypeOK, NoTrouble
  <1>9. PushesOK'
    BY <1>1, <1>2, <1>3, <1>5, <1>7 DEF PushesOK
  <1>10. FeedTellsOfPushes'
    BY <1>1, <1>2, <1>3 DEF FeedTellsOfPushes, NoTrouble
  <1> QED BY <1>4, <1>8, <1>9, <1>10 DEF Inv

\* A goroutine in the background writes; sessions go on.
LEMMA SessionsGoOn ==
  ASSUME SessionsOK, UNCHANGED <<sess, row, nextId, creds>> PROVE SessionsOK'
  BY DEF SessionsOK, Sound, Witness, Observed

LEMMA BackgroundInv == ASSUME Inv, Background PROVE Inv'
  <1>1. TypeOK /\ SessionsOK /\ PushesOK /\ FeedTellsOfPushes
    BY DEF Inv
  <1>2. CASE UpdateLastUsed
    <2>1. /\ touching > 0 /\ touching' = touching - 1 /\ NoTrouble
          /\ UNCHANGED <<sess, requests, row, nextId, creds, feed, changes, recording, pushed>>
      BY <1>2 DEF UpdateLastUsed, Quiet, world
    <2>2. touching' \in Nat /\ requests' \in Nat
      BY <1>1, <2>1 DEF TypeOK
    <2>3. UNCHANGED <<world, recording, pushed>>
      BY <2>1 DEF world
    <2> QED BY <1>1, <2>1, <2>2, <2>3, SessionsGoOn, SameWorld DEF TypeOK
  <1>3. ASSUME NEW e \in recording, RecordPush(e) PROVE Inv'
    <2>1. /\ recording' = recording \ {e} /\ NoTrouble
          /\ feed' = feed \cup {f \in {e} : row # NoRow /\ f.repo = row.id}
          /\ UNCHANGED <<sess, requests, row, nextId, creds, changes, touching, pushed>>
      BY <1>3 DEF RecordPush, Quiet
    <2>2. SessionsOK'
      BY <1>1, <2>1, SessionsGoOn
    <2>3. TypeOK'
      BY <1>1, <2>1 DEF TypeOK, NoTrouble
    <2>4. PushesOK'
      BY <1>1, <2>1 DEF PushesOK
    <2>5. FeedTellsOfPushes'
      BY <1>1, <2>1 DEF FeedTellsOfPushes, PushesOK, NoTrouble
    <2> QED BY <2>2, <2>3, <2>4, <2>5 DEF Inv
  <1>4. ASSUME NEW e \in recording, RecordPushFails(e) PROVE Inv'
    <2>1. /\ recording' = recording \ {e} /\ Fault
          /\ UNCHANGED <<sess, requests, row, nextId, creds, feed, changes, touching, pushed>>
      BY <1>4 DEF RecordPushFails, Quiet, world
    <2>2. SessionsOK'
      BY <1>1, <2>1, SessionsGoOn
    <2>3. TypeOK'
      BY <1>1, <2>1 DEF TypeOK, Fault
    <2>4. PushesOK'
      BY <1>1, <2>1 DEF PushesOK
    <2>5. FeedTellsOfPushes'
      BY <1>1, <2>1 DEF FeedTellsOfPushes, Fault, TypeOK
    <2> QED BY <2>2, <2>3, <2>4, <2>5 DEF Inv
  <1> QED BY <1>2, <1>3, <1>4 DEF Background
-----------------------------------------------------------------------------
(* The repository and the credentials change. *)

LEMMA SessionsWitness ==
  ASSUME Inv, Change, row' \in Row, creds' \in [Creds -> Users \cup {Nobody, "gone"}],
         nextId' \in Nat, nextId <= nextId'
  PROVE  sess' \in [Sessions -> Session] /\ SessionsOK'
  <1> DEFINE saw(s) == Observed(sess[s].cred, row', creds')
             x(s) == [sess[s] EXCEPT !.seen = sess[s].seen \cup saw(s)]
  <1>1. sess' = [s \in Sessions |-> IF sess[s].pc = "idle" THEN Idle ELSE x(s)]
    BY DEF Change
  <1>2. ASSUME NEW s \in Sessions
        PROVE  sess'[s] \in Session /\ Sound(s, sess[s])'
    <2>1. sess[s] \in Session /\ Sound(s, sess[s])
      BY DEF Inv, TypeOK, SessionsOK
    <2>2. CASE sess[s].pc = "idle"
      <3>1. sess'[s] = Idle
        BY <1>1, <2>2
      <3>2. Idle.pc = "idle" /\ Idle \in Session
        BY IdleSound DEF Idle
      <3> QED BY <3>1, <3>2 DEF Sound
    <2>3. CASE sess[s].pc # "idle"
      <3>1. saw(s) \subseteq Facts
        BY DEF Observed, HeldBy, Facts
      <3>2. x(s) \in Session
        BY <2>1, <3>1 DEF Session
      <3>3. /\ x(s).pc = sess[s].pc /\ x(s).op = sess[s].op /\ x(s).cred = sess[s].cred
            /\ x(s).user = sess[s].user /\ x(s).repo = sess[s].repo
            /\ x(s).seen = sess[s].seen \cup saw(s)
        BY <2>1 DEF Session
      <3>4. sess'[s] = x(s)
        BY <1>1, <2>3
      <3>5. Witness(sess[s].cred)' = saw(s)
        BY <3>3, <3>4 DEF Witness, Observed
      <3>6. sess[s].repo.id \in Nat /\ nextId \in Nat
        BY <2>1 DEF Session, Row, Inv, TypeOK
      <3> HIDE DEF x, saw
      <3> QED BY <2>1, <3>2, <3>3, <3>4, <3>5, <3>6 DEF Sound
    <2> QED BY <2>2, <2>3
  <1> QED BY <1>1, <1>2 DEF SessionsOK

LEMMA ChangeTypes ==
  ASSUME TypeOK, Change
  PROVE  /\ troubles' = troubles /\ {requests, changes, troubles}' \subseteq Nat
         /\ UNCHANGED <<touching, recording, pushed>>
  BY DEF Change, NoTrouble, TypeOK, work

LEMMA RepoChangesInv ==
  ASSUME Inv, (\E p \in BOOLEAN : CreateRepo(p) \/ UpdateRepo(p)) \/ DeleteRepo
  PROVE  Inv'
  <1>1. TypeOK /\ PushesOK /\ FeedTellsOfPushes
    BY DEF Inv
  <1>2. Change /\ UNCHANGED creds
    BY DEF CreateRepo, UpdateRepo, DeleteRepo
  <1>3. /\ row' \in Row /\ nextId' \in Nat /\ nextId <= nextId'
        /\ row' # NoRow => row'.id > 0 /\ row'.id < nextId'
    <2>1. CASE \E p \in BOOLEAN : CreateRepo(p)
      BY <1>1, <2>1 DEF CreateRepo, Row, TypeOK, PushesOK
    <2>2. CASE \E p \in BOOLEAN : UpdateRepo(p)
      <3>1. PICK p \in BOOLEAN : row # NoRow /\ row' = [row EXCEPT !.priv = p] /\ nextId' = nextId
        BY <2>2 DEF UpdateRepo
      <3>2. row' \in Row /\ row'.id = row.id
        BY <1>1, <3>1 DEF Row, TypeOK
      <3> QED BY <1>1, <3>1, <3>2 DEF TypeOK, PushesOK
    <2>3. CASE DeleteRepo
      BY <1>1, <2>3 DEF DeleteRepo, Row, NoRow, TypeOK
    <2> QED BY <2>1, <2>2, <2>3
  <1>4. sess' \in [Sessions -> Session] /\ SessionsOK'
    BY <1>1, <1>2, <1>3, SessionsWitness DEF TypeOK
  <1>5. feed' \subseteq feed
    BY DEF CreateRepo, UpdateRepo, DeleteRepo
  <1>6. TypeOK'
    BY <1>1, <1>2, <1>3, <1>4, <1>5, ChangeTypes DEF TypeOK
  <1>7. PushesOK'
    BY <1>1, <1>2, <1>3, ChangeTypes DEF PushesOK, TypeOK, Push
  <1>8. FeedTellsOfPushes'
    <2>1. CASE \E p \in BOOLEAN : CreateRepo(p)
      <3>1. row = NoRow /\ row'.id = nextId /\ feed' = feed
        BY <2>1 DEF CreateRepo
      <3>2. \A e \in pushed : e.repo # row'.id
        BY <1>1, <3>1 DEF PushesOK, TypeOK, Push
      <3>3. feed = {}
        BY <1>1, <3>1 DEF FeedTellsOfPushes
      <3> QED BY <1>1, <1>2, <3>1, <3>2, <3>3, ChangeTypes DEF FeedTellsOfPushes
    <2>2. CASE \E p \in BOOLEAN : UpdateRepo(p)
      <3>1. PICK p \in BOOLEAN : UpdateRepo(p)
        BY <2>2
      <3>2. row # NoRow /\ row'.id = row.id /\ feed' = feed /\ row.id \in Nat
        BY <1>1, <3>1 DEF UpdateRepo, TypeOK, Row
      <3>3. row' # NoRow
        BY <1>1, <3>2 DEF PushesOK, NoRow
      <3> QED BY <1>1, <1>2, <3>2, <3>3, ChangeTypes DEF FeedTellsOfPushes
    <2>3. CASE DeleteRepo
      <3>1. row # NoRow /\ row' = NoRow /\ feed' = {e \in feed : e.repo # row.id}
        BY <2>3 DEF DeleteRepo
      <3>2. feed' = {}
        BY <1>1, <3>1 DEF FeedTellsOfPushes
      <3> QED BY <1>1, <3>1, <3>2 DEF FeedTellsOfPushes
    <2> QED BY <2>1, <2>2, <2>3
  <1> QED BY <1>4, <1>6, <1>7, <1>8 DEF Inv

CredChanges ==
  \/ \E u \in Users, c \in Creds :
       CreatePAT(u, c) \/ RevokePAT(u, c) \/ AddSSHKey(u, c) \/ DeleteSSHKey(u, c)
  \/ \E c \in Creds : PATExpires(c)

LEMMA CredChangesInv == ASSUME Inv, CredChanges PROVE Inv'
  <1>1. TypeOK /\ PushesOK /\ FeedTellsOfPushes
    BY DEF Inv
  <1>2. \E c \in Creds, v \in Users \cup {Nobody, "gone"} :
          SetCred(c, v) /\ (c \in Keys => v # "gone")
    <2>1. CASE \E c \in Creds : PATExpires(c)
      BY <2>1 DEF PATExpires
    <2>2. ASSUME NEW u \in Users, NEW c \in Creds,
                 CreatePAT(u, c) \/ RevokePAT(u, c) \/ AddSSHKey(u, c) \/ DeleteSSHKey(u, c)
          PROVE  \E v \in Users \cup {Nobody, "gone"} :
                   SetCred(c, v) /\ (c \in Keys => v # "gone")
      <3>1. CASE CreatePAT(u, c) \/ AddSSHKey(u, c)
        BY <3>1 DEF CreatePAT, AddSSHKey
      <3>2. CASE RevokePAT(u, c)
        BY <3>2 DEF RevokePAT
      <3>3. CASE DeleteSSHKey(u, c)
        BY <3>3 DEF DeleteSSHKey
      <3> QED BY <2>2, <3>1, <3>2, <3>3
    <2> QED BY <2>1, <2>2 DEF CredChanges
  <1>3. PICK c \in Creds, v \in Users \cup {Nobody, "gone"} :
          SetCred(c, v) /\ (c \in Keys => v # "gone")
    BY <1>2
  <1>4. Change /\ UNCHANGED <<row, nextId, feed>> /\ creds' = [creds EXCEPT ![c] = v]
    BY <1>3 DEF SetCred
  <1>5. /\ creds' \in [Creds -> Users \cup {Nobody, "gone"}]
        /\ \A k \in Keys : creds'[k] # "gone"
    BY <1>1, <1>3, <1>4 DEF TypeOK, Creds
  <1>6. sess' \in [Sessions -> Session] /\ SessionsOK'
    BY <1>1, <1>4, <1>5, SessionsWitness DEF TypeOK
  <1>7. TypeOK'
    BY <1>1, <1>4, <1>5, <1>6, ChangeTypes DEF TypeOK
  <1>8. PushesOK' /\ FeedTellsOfPushes'
    BY <1>1, <1>4, ChangeTypes DEF PushesOK, FeedTellsOfPushes
  <1> QED BY <1>6, <1>7, <1>8 DEF Inv

LEMMA CrashInv == ASSUME Inv, Crash PROVE Inv'
  <1>1. TypeOK /\ PushesOK /\ FeedTellsOfPushes
    BY DEF Inv
  <1>2. /\ Fault /\ sess' = [s \in Sessions |-> Idle] /\ touching' = 0 /\ recording' = {}
        /\ UNCHANGED <<row, nextId, creds, feed, changes, pushed, requests>>
    BY DEF Crash, world
  <1>3. sess' \in [Sessions -> Session] /\ SessionsOK'
    <2>1. \A s \in Sessions : sess'[s] = Idle /\ Idle.pc = "idle"
      BY <1>2 DEF Idle
    <2> QED BY <1>2, <2>1, IdleSound DEF SessionsOK, Sound
  <1>4. TypeOK'
    BY <1>1, <1>2, <1>3 DEF TypeOK, Fault
  <1>5. PushesOK' /\ FeedTellsOfPushes'
    BY <1>1, <1>2 DEF PushesOK, FeedTellsOfPushes, Fault, TypeOK
  <1> QED BY <1>3, <1>4, <1>5 DEF Inv
-----------------------------------------------------------------------------
(* The invariant. *)

LEMMA InitInv == Init => Inv
  <1> SUFFICES ASSUME Init PROVE Inv
    OBVIOUS
  <1>1. /\ row \in Row /\ row # NoRow /\ row.id = 1 /\ nextId = 2
        /\ creds \in [Creds -> Users \cup {Nobody}]
        /\ sess = [s \in Sessions |-> Idle] /\ touching = 0
        /\ recording = {} /\ feed = {} /\ pushed = {}
        /\ requests = 0 /\ changes = 0 /\ troubles = 0
    BY DEF Init, Row, NoRow
  <1>2. SessionsOK /\ sess \in [Sessions -> Session]
    BY <1>1, IdleSound DEF SessionsOK
  <1>3. TypeOK
    BY <1>1, <1>2 DEF TypeOK, Creds
  <1>4. PushesOK /\ FeedTellsOfPushes
    BY <1>1, FS_EmptySet DEF PushesOK, FeedTellsOfPushes
  <1> QED BY <1>2, <1>3, <1>4 DEF Inv

LEMMA StepInv == Inv /\ [Next]_vars => Inv'
  <1> SUFFICES ASSUME Inv, [Next]_vars PROVE Inv'
    OBVIOUS
  <1>1. ASSUME NEW s \in Sessions, Handle(s) PROVE Inv'
    BY <1>1, AnswersInv, DecisionsInv, ResolveRepoInv, ValidatePATInv, GitSucceedsInv
       DEF Handle, Answers, Decisions
  <1>2. CASE Clients
    <2>1. ASSUME NEW s \in HTTP, NEW op \in Ops, NEW c \in PATs \cup Users \cup {Nobody},
                 Request(s, op, c)
          PROVE  Inv'
      BY <2>1, RequestInv DEF Sessions
    <2>2. ASSUME NEW s \in SSH, (\E k \in Keys : Connect(s, k)) \/ (\E op \in Ops : Exec(s, op))
          PROVE  Inv'
      BY <2>2, ConnectInv, ExecInv DEF Sessions
    <2>3. ASSUME NEW s \in Sessions, Disconnect(s) \/ ClientGone(s) PROVE Inv'
      BY <2>3, LeaveInv
    <2> QED BY <1>2, <2>1, <2>2, <2>3 DEF Clients
  <1>3. CASE Changes
    BY <1>3, RepoChangesInv, CredChangesInv DEF Changes, CredChanges
  <1>4. CASE UNCHANGED vars
    BY <1>4 DEF vars, world, work, Inv, TypeOK, SessionsOK, Sound, Witness, Observed,
                PushesOK, FeedTellsOfPushes
  <1> QED BY <1>1, <1>2, <1>3, <1>4, BackgroundInv, CrashInv DEF Next

THEOREM InvHolds == Spec => []Inv
  BY InitInv, StepInv, PTL DEF Spec

(* Variables have their types, whatever handlers and clients do (GitAccess). *)
THEOREM GitTypes == Spec => []TypeOK
  <1>1. Inv => TypeOK
    BY DEF Inv
  <1> QED BY <1>1, InvHolds, PTL

(* handler.go:87, session.go:46: however repositories and credentials      *)
(* change meanwhile, git runs on a row and a credential that each held at  *)
(* some time of the request, and for whom that row lets in.                *)
THEOREM GitOnTruth == Spec => []GitRunsOnTruth
  <1>1. Inv => GitRunsOnTruth
    BY DEF Inv, SessionsOK, Sound, Allowed, GitRunsOnTruth
  <1> QED BY <1>1, InvHolds, PTL

(* handler.go:207, session.go:135: the feed holds pushes that happened, of *)
(* the repository as it is, and without trouble it holds all of them.      *)
THEOREM FeedOfPushes == Spec => []FeedTellsOfPushes
  <1>1. Inv => FeedTellsOfPushes
    BY DEF Inv
  <1> QED BY <1>1, InvHolds, PTL
=============================================================================
