-------------------------- MODULE RateLimiterProofs --------------------------
(***************************************************************************)
(* For any clients, any rate of at least two requests a minute and any     *)
(* timing of the clean-up loop, the limiter answers as buckets that are    *)
(* never forgotten, and keeps to its rate over every span of time.         *)
(***************************************************************************)
EXTENDS RateLimiter, TLAPS

USE RateAssumption

(* An entry was brought up to date no later than it was seen, and neither  *)
(* lies in the future; what a client got in the window and what its bucket *)
(* still holds come to no more than a burst and the refill of the span.    *)
EntriesOK == \A c \in Clients : Known(c) =>
               ips[c] \in Entry /\ ips[c].last <= ips[c].lastSeen /\ ips[c].lastSeen <= now
WindowOK ==
  /\ ~ window.open => window.got = 0
  /\ window.open =>
       /\ window.from <= now
       /\ window.got + Level(window.client) <= Burst + Rate * (now - window.from)

Inv == TypeOK /\ EntriesOK /\ WindowOK

LEMMA Quantities ==
  /\ Burst \in Nat /\ Rate \in Nat /\ Cost \in Nat /\ Cost <= Burst
  /\ Burst <= Rate * IdleLimit
  BY DEF Burst, Rate, Cost, IdleLimit, Larger

LEMMA Refill ==
  ASSUME NEW r \in Nat, NEW a \in Int, NEW b \in Int, a <= b
  PROVE  r * a \in Int /\ r * b \in Int /\ r * a <= r * b
  OBVIOUS

LEMMA RefillAdds ==
  ASSUME NEW r \in Nat, NEW a \in Int, NEW d \in Int
  PROVE  r * (a + d) = r * a + r * d
  OBVIOUS

LEMMA NoEntryIsNone == NoEntry \notin Entry
  BY DEF NoEntry, Entry

\* What a known client's bucket holds lies between nothing and a burst.
LEMMA TokensRange ==
  ASSUME NEW e \in Entry, now \in Nat, e.last <= now
  PROVE  /\ Tokens(e) \in 0..Burst /\ e.tokens \in 0..Burst /\ e.last \in Nat
         /\ e.lastSeen \in Nat
  <1>1. e.tokens \in 0..Burst /\ e.last \in Nat /\ e.lastSeen \in Nat
    BY DEF Entry
  <1>2. Rate * (now - e.last) \in Nat
    BY <1>1, Quantities
  <1> QED BY <1>1, <1>2, Quantities DEF Tokens

LEMMA LevelRange ==
  ASSUME Inv, NEW c \in Clients PROVE Level(c) \in 0..Burst
  BY TokensRange, Quantities DEF Inv, TypeOK, EntriesOK, Level, Entry

LEMMA Fresh ==
  ASSUME Inv PROVE NewEntry \in Entry /\ NewEntry.tokens = Burst /\ NewEntry.last = now
                   /\ NewEntry.lastSeen = now /\ Tokens(NewEntry) = Burst
  <1>1. now \in Nat
    BY DEF Inv, TypeOK
  <1>2. NewEntry \in Entry /\ NewEntry.tokens = Burst /\ NewEntry.last = now
        /\ NewEntry.lastSeen = now
    BY <1>1, Quantities DEF NewEntry, Entry
  <1>3. Rate * (now - now) = 0
    BY <1>1, Quantities
  <1> QED BY <1>2, <1>3, Quantities DEF Tokens

\* The entry that allow works on is worth what the bucket of its client holds.
LEMMA EntryOfClient ==
  ASSUME Inv, NEW c \in Clients
  PROVE  /\ EntryOf(c) \in Entry /\ EntryOf(c).last <= EntryOf(c).lastSeen
         /\ EntryOf(c).lastSeen <= now /\ EntryOf(c).last <= now
         /\ Tokens(EntryOf(c)) = Level(c)
  <1>1. CASE Known(c)
    <2>1. /\ ips[c] \in Entry /\ ips[c].last <= ips[c].lastSeen /\ ips[c].lastSeen <= now
          /\ now \in Nat
      BY <1>1 DEF Inv, TypeOK, EntriesOK
    <2>2. ips[c].last \in Nat /\ ips[c].lastSeen \in Nat
      BY <2>1 DEF Entry
    <2> QED BY <1>1, <2>1, <2>2 DEF EntryOf, Level
  <1>2. CASE ~ Known(c)
    BY <1>2, Fresh DEF EntryOf, Level, Inv, TypeOK
  <1> QED BY <1>1, <1>2
-----------------------------------------------------------------------------
(* What each step does to the buckets. *)

\* An entry brought up to date now is worth its tokens.
LEMMA UpToDate ==
  ASSUME NEW t \in 0..Burst, NEW s, now \in Nat
  PROVE  Tokens([tokens |-> t, last |-> now, lastSeen |-> s]) = t
  <1>1. Rate * (now - now) = 0
    BY Quantities
  <1> QED BY <1>1, Quantities DEF Tokens

LEMMA SameMoment ==
  ASSUME NEW e, NEW f, e.tokens = f.tokens, e.last = f.last
  PROVE  Tokens(e) = Tokens(f)
  BY DEF Tokens

LEMMA AllowTakes ==
  ASSUME Inv, NEW c \in Clients, Allow(c)
  PROVE  /\ Level(c) >= Cost
         /\ EntriesOK' /\ TypeOK'
         /\ Levels' = [Levels EXCEPT ![c] = @ - Cost]
  <1> DEFINE new == [tokens |-> Tokens(EntryOf(c)) - Cost, last |-> now, lastSeen |-> now]
  <1>1. Level(c) >= Cost /\ Level(c) \in 0..Burst /\ Tokens(EntryOf(c)) = Level(c)
    BY EntryOfClient, LevelRange DEF Allow
  <1>2. /\ ips' = [ips EXCEPT ![c] = new] /\ now' = now /\ due' = due
        /\ ips \in [Clients -> Entry \cup {NoEntry}] /\ now \in Nat
    BY DEF Allow, Inv, TypeOK
  <1>3. /\ new \in Entry /\ new.tokens = Level(c) - Cost /\ new.last = now
        /\ new.lastSeen = now /\ Level(c) - Cost \in 0..Burst
    BY <1>1, <1>2, Quantities DEF Entry
  <1>4. new # NoEntry
    BY <1>3, NoEntryIsNone
  <1>5. Tokens(new) = Level(c) - Cost
    BY <1>1, <1>2, <1>3, UpToDate
  <1> HIDE DEF new
  <1>6. EntriesOK'
    BY <1>2, <1>3, <1>4 DEF EntriesOK, Known, Inv
  <1>7. TypeOK'
    <2>1. window' \in [client : Clients, open : BOOLEAN, from : Nat, got : Nat]
      BY Quantities DEF Allow, Got, Inv, TypeOK
    <2> QED BY <1>2, <1>3, <2>1 DEF Allow, Inv, TypeOK
  <1>8. Level(c)' = Level(c) - Cost
    BY <1>2, <1>4, <1>5 DEF Level, Known, Tokens
  <1>9. ASSUME NEW d \in Clients, d # c PROVE Level(d)' = Level(d)
    BY <1>2, <1>9 DEF Level, Known, Tokens
  <1>10. Levels' = [Levels EXCEPT ![c] = @ - Cost]
    BY <1>8, <1>9 DEF Levels
  <1> QED BY <1>1, <1>6, <1>7, <1>10

LEMMA DenyKeeps ==
  ASSUME Inv, NEW c \in Clients, Deny(c)
  PROVE  Level(c) < Cost /\ EntriesOK' /\ TypeOK' /\ Levels' = Levels
  <1> DEFINE new == [EntryOf(c) EXCEPT !.lastSeen = now]
  <1>1. Level(c) < Cost /\ Tokens(EntryOf(c)) = Level(c) /\ EntryOf(c) \in Entry
        /\ EntryOf(c).last <= now
    BY EntryOfClient DEF Deny
  <1>2. /\ ips' = [ips EXCEPT ![c] = new] /\ now' = now /\ due' = due
        /\ ips \in [Clients -> Entry \cup {NoEntry}] /\ now \in Nat
    BY DEF Deny, Inv, TypeOK
  <1>3. /\ new \in Entry /\ new.tokens = EntryOf(c).tokens /\ new.last = EntryOf(c).last
        /\ new.lastSeen = now
    BY <1>1, <1>2 DEF Entry
  <1>4. new # NoEntry
    BY <1>3, NoEntryIsNone
  <1>5. Tokens(new) = Level(c)
    BY <1>1, <1>3, SameMoment
  <1> HIDE DEF new
  <1>6. EntriesOK'
    BY <1>1, <1>2, <1>3, <1>4 DEF EntriesOK, Known, Inv
  <1>7. TypeOK'
    BY <1>2, <1>3 DEF Deny, Inv, TypeOK
  <1>8. Level(c)' = Level(c)
    BY <1>2, <1>4, <1>5 DEF Level, Known, Tokens
  <1>9. ASSUME NEW d \in Clients, d # c PROVE Level(d)' = Level(d)
    BY <1>2, <1>9 DEF Level, Known, Tokens
  <1> QED BY <1>1, <1>6, <1>7, <1>8, <1>9 DEF Levels

\* What is thrown away was full: the point of the five minutes.
LEMMA CleanupKeeps ==
  ASSUME Inv, Cleanup PROVE EntriesOK' /\ TypeOK' /\ Levels' = Levels
  <1>1. /\ now' = now /\ now \in Nat /\ due' \in Nat
        /\ ips' = [c \in Clients |->
              IF Known(c) /\ now - ips[c].lastSeen > IdleLimit THEN NoEntry ELSE ips[c]]
        /\ ips \in [Clients -> Entry \cup {NoEntry}]
    BY DEF Cleanup, Inv, TypeOK, IdleLimit
  <1>2. ASSUME NEW c \in Clients PROVE Level(c)' = Level(c)
    <2>1. CASE Known(c) /\ now - ips[c].lastSeen > IdleLimit
      <3>1. /\ ips[c].last \in Nat /\ ips[c].lastSeen \in Nat /\ ips[c].tokens \in Nat
            /\ ips[c].last <= ips[c].lastSeen
        BY <2>1, Quantities DEF Inv, EntriesOK, Entry
      <3>2. IdleLimit <= now - ips[c].last /\ IdleLimit \in Int /\ now - ips[c].last \in Int
        BY <1>1, <2>1, <3>1 DEF IdleLimit
      <3>3. Rate * IdleLimit <= Rate * (now - ips[c].last) /\ Rate * IdleLimit \in Int
            /\ Rate * (now - ips[c].last) \in Int
        BY <3>2, Quantities, Refill
      <3>4. Tokens(ips[c]) = Burst
        BY <3>1, <3>3, Quantities DEF Tokens
      <3> QED BY <1>1, <2>1, <3>4 DEF Level, Known
    <2>2. CASE ~ (Known(c) /\ now - ips[c].lastSeen > IdleLimit)
      BY <1>1, <2>2 DEF Level, Known, Tokens
    <2> QED BY <2>1, <2>2
  <1>3. EntriesOK'
    BY <1>1 DEF Inv, EntriesOK, Known
  <1>4. TypeOK'
    BY <1>1 DEF Cleanup, Inv, TypeOK
  <1> QED BY <1>2, <1>3, <1>4 DEF Levels

LEMMA WaitRefills ==
  ASSUME Inv, NEW d \in Delays, Wait(d)
  PROVE  /\ EntriesOK' /\ TypeOK'
         /\ \A c \in Clients : Level(c)' = Bucket!Least(Burst, Level(c) + Rate * d)
  <1>1. now \in Nat /\ d \in Nat /\ now' = now + d /\ ips' = ips
    BY DEF Wait, Inv, TypeOK
  <1>2. EntriesOK'
    BY <1>1 DEF Inv, EntriesOK, Known, Entry
  <1>3. TypeOK'
    BY <1>1 DEF Wait, Inv, TypeOK
  <1>4. ASSUME NEW c \in Clients
        PROVE  Level(c)' = Bucket!Least(Burst, Level(c) + Rate * d)
    <2>1. Rate * d \in Nat
      BY <1>1, Quantities
    <2>2. CASE Known(c)
      <3>1. /\ ips[c].last \in Nat /\ ips[c].tokens \in Nat
        BY <2>2, Quantities DEF Inv, EntriesOK, Entry
      <3>2. Rate * ((now - ips[c].last) + d) = Rate * (now - ips[c].last) + Rate * d
        BY <1>1, <3>1, Quantities, RefillAdds
      <3>3. now' - ips[c].last = (now - ips[c].last) + d
        BY <1>1, <3>1
      <3>4. Rate * (now - ips[c].last) \in Int
        BY <1>1, <3>1, Quantities
      <3>5. Level(c) = Tokens(ips[c]) /\ Level(c)' = Tokens(ips[c])'
        BY <1>1, <2>2 DEF Level, Known
      <3>6. Tokens(ips[c])' = LET sum == ips[c].tokens + (Rate * (now - ips[c].last) + Rate * d)
                              IN IF sum <= Burst THEN sum ELSE Burst
        BY <1>1, <3>2, <3>3 DEF Tokens
      <3> QED
        BY <2>1, <3>1, <3>4, <3>5, <3>6, Quantities DEF Tokens, Bucket!Least
    <2>3. CASE ~ Known(c)
      <3>1. Level(c) = Burst /\ Level(c)' = Burst
        BY <1>1, <2>3 DEF Level, Known
      <3> QED BY <2>1, <3>1, Quantities DEF Bucket!Least
    <2> QED BY <2>2, <2>3
  <1> QED BY <1>2, <1>3, <1>4
-----------------------------------------------------------------------------
(* The invariant, and the window. *)

LEMMA InitInv == Init => Inv
  <1> SUFFICES ASSUME Init PROVE Inv
    OBVIOUS
  <1>1. TypeOK
    <2>1. window \in [client : Clients, open : BOOLEAN, from : Nat, got : Nat]
      BY DEF Init
    <2> QED BY <2>1 DEF Init, TypeOK, IdleLimit
  <1>2. EntriesOK /\ WindowOK
    BY DEF Init, EntriesOK, WindowOK, Known
  <1> QED BY <1>1, <1>2 DEF Inv

\* A request that passes moves its cost from the bucket to the window.
LEMMA AllowInv ==
  ASSUME Inv, NEW c \in Clients, Allow(c) PROVE Inv'
  <1>1. EntriesOK' /\ TypeOK' /\ Levels' = [Levels EXCEPT ![c] = @ - Cost]
    BY AllowTakes
  <1>2. /\ now' = now /\ window' = Got(c)
        /\ window \in [client : Clients, open : BOOLEAN, from : Nat, got : Nat]
    BY DEF Allow, Inv, TypeOK
  <1>3. WindowOK'
    <2> SUFFICES ASSUME window'.open PROVE WindowOK'
      BY <1>2 DEF WindowOK, Got, Inv
    <2>1. /\ window'.client = window.client /\ window'.from = window.from /\ window.open
          /\ window.client \in Clients
      BY <1>2 DEF Got
    <2>2. /\ Level(window.client)' = IF window.client = c THEN Level(c) - Cost
                                    ELSE Level(window.client)
      BY <1>1, <2>1 DEF Levels
    <2>3. window'.got = IF window.client = c THEN window.got + Cost ELSE window.got
      BY <1>2, <2>1 DEF Got
    <2>4. window.got + Level(window.client) <= Burst + Rate * (now - window.from)
          /\ window.from <= now
      BY <2>1 DEF Inv, WindowOK
    <2>5. window.got \in Nat /\ Level(window.client) \in Int /\ Level(c) \in Int
      BY <1>2, <2>1, LevelRange, Quantities
    <2>6. window'.got + Level(window.client)' = window.got + Level(window.client)
      BY <2>2, <2>3, <2>5, Quantities
    <2> QED BY <1>2, <2>1, <2>4, <2>6 DEF WindowOK, Burst, Rate, Cost
  <1> QED BY <1>1, <1>3 DEF Inv

\* Steps at one moment that leave every bucket as it was.
LEMMA SameLevels ==
  ASSUME Inv, TypeOK', EntriesOK', Levels' = Levels, now' = now, window' = window
  PROVE  Inv'
  <1>1. window.client \in Clients
    BY DEF Inv, TypeOK
  <1>2. Level(window.client)' = Level(window.client)
    BY <1>1 DEF Levels
  <1> QED BY <1>2 DEF Inv, WindowOK, Burst, Rate

LEMMA WaitInv ==
  ASSUME Inv, NEW d \in Delays, Wait(d) PROVE Inv'
  <1>1. /\ EntriesOK' /\ TypeOK'
        /\ \A c \in Clients : Level(c)' = Bucket!Least(Burst, Level(c) + Rate * d)
    BY WaitRefills
  <1>2. /\ now' = now + d /\ window' = window /\ now \in Nat /\ d \in Nat
        /\ window.client \in Clients /\ window.from \in Nat /\ window.got \in Nat
    BY DEF Wait, Inv, TypeOK
  <1>3. WindowOK'
    <2> SUFFICES ASSUME window.open PROVE WindowOK'
      BY <1>2 DEF WindowOK, Inv
    <2>1. window.got + Level(window.client) <= Burst + Rate * (now - window.from)
          /\ window.from <= now
      BY DEF Inv, WindowOK
    <2>2. Rate * ((now - window.from) + d) = Rate * (now - window.from) + Rate * d
      BY <1>2, Quantities, RefillAdds
    <2>3. (now + d) - window.from = (now - window.from) + d
      BY <1>2
    <2>4. Level(window.client) \in Int /\ Rate * d \in Int /\ Rate * (now - window.from) \in Int
      BY <1>2, LevelRange, Quantities
    <2>5. Level(window.client)' \in Int /\ Level(window.client)' <= Level(window.client) + Rate * d
      BY <1>1, <1>2, <2>4, Quantities DEF Bucket!Least
    <2>6. window.got + Level(window.client)' <= Burst + Rate * ((now + d) - window.from)
      BY <1>2, <2>1, <2>2, <2>3, <2>4, <2>5, Quantities
    <2> QED BY <1>2, <2>1, <2>6 DEF WindowOK, Burst, Rate
  <1> QED BY <1>1, <1>3 DEF Inv

LEMMA OpenWindowInv ==
  ASSUME Inv, OpenWindow PROVE Inv' /\ Levels' = Levels
  <1>1. /\ UNCHANGED <<now, due, ips, verdict>>
        /\ window' = [window EXCEPT !.open = TRUE, !.from = now]
        /\ window \in [client : Clients, open : BOOLEAN, from : Nat, got : Nat]
        /\ window.got = 0 /\ now \in Nat
    BY DEF OpenWindow, Inv, TypeOK, WindowOK
  <1>2. TypeOK' /\ EntriesOK'
    BY <1>1 DEF Inv, TypeOK, EntriesOK, Known
  <1>3. \A c \in Clients : Level(c)' = Level(c)
    BY <1>1 DEF Level, Known, Tokens
  <1>4. WindowOK'
    <2>1. /\ window'.open /\ window'.from = now /\ window'.got = 0
          /\ window'.client = window.client /\ window.client \in Clients
      BY <1>1
    <2>2. Level(window.client)' <= Burst /\ Level(window.client)' \in Nat
      BY <1>3, <2>1, LevelRange, Quantities
    <2>3. Rate * (now - now) = 0
      BY <1>1, Quantities
    <2> QED BY <1>1, <2>1, <2>2, <2>3, Quantities DEF WindowOK, Burst, Rate
  <1> QED BY <1>2, <1>3, <1>4 DEF Inv, Levels

LEMMA StepInv == Inv /\ [Next]_vars => Inv'
  <1> SUFFICES ASSUME Inv, [Next]_vars PROVE Inv'
    OBVIOUS
  <1>1. ASSUME NEW c \in Clients, Deny(c) PROVE Inv'
    BY <1>1, DenyKeeps, SameLevels DEF Deny
  <1>2. CASE Cleanup
    BY <1>2, CleanupKeeps, SameLevels DEF Cleanup
  <1>3. CASE UNCHANGED vars
    BY <1>3 DEF vars, Inv, TypeOK, EntriesOK, WindowOK, Known, Level, Tokens
  <1> QED
    BY <1>1, <1>2, <1>3, AllowInv, WaitInv, OpenWindowInv DEF Next

LEMMA InvHolds == Spec => []Inv
  BY InitInv, StepInv, PTL DEF Spec

(* The buckets keep their types for any clients, rate and timing: tokens   *)
(* within the burst and clocks that are natural, with no rounding below    *)
(* zero when a request is paid for (ratelimit.go:56).                      *)
THEOREM LimiterTypes == Spec => []TypeOK
  <1>1. Inv => TypeOK
    BY DEF Inv
  <1> QED BY <1>1, InvHolds, PTL

(* "reqPerMin is the sustained request rate ... a burst is allowed"        *)
(* (ratelimit.go:12) over every span of time and for every client, for any *)
(* rate and any timing of cleanupLoop.                                     *)
THEOREM RateIsKept == Spec => []WindowBound
  <1>1. Inv => WindowBound
    <2> SUFFICES ASSUME Inv, window.open
                 PROVE  window.got <= Burst + Rate * (now - window.from)
      BY DEF WindowBound
    <2>1. window.client \in Clients /\ window.from \in Nat /\ window.got \in Nat
          /\ now \in Nat
      BY DEF Inv, TypeOK
    <2>2. window.got + Level(window.client) <= Burst + Rate * (now - window.from)
      BY DEF Inv, WindowOK
    <2>3. Level(window.client) \in Nat /\ Rate * (now - window.from) \in Int
      BY <2>1, LevelRange, Quantities
    <2> QED BY <2>1, <2>2, <2>3, Quantities
  <1> QED BY <1>1, InvHolds, PTL
-----------------------------------------------------------------------------
(* Buckets that are never forgotten. *)

LEMMA StepMaps == Inv /\ [Next]_vars => [Bucket!Next]_(Bucket!vars)
  <1> SUFFICES ASSUME Inv, [Next]_vars PROVE [Bucket!Next]_(Bucket!vars)
    OBVIOUS
  <1>1. ASSUME NEW c \in Clients, Allow(c) PROVE Bucket!Pass(c)
    BY <1>1, AllowTakes DEF Levels, Allow, Bucket!Pass
  <1>2. ASSUME NEW c \in Clients, Deny(c) PROVE Bucket!Refuse(c)
    BY <1>2, DenyKeeps DEF Levels, Deny, Bucket!Refuse
  <1>3. ASSUME NEW d \in Delays, Wait(d) PROVE Bucket!Elapse(d)
    BY <1>3, WaitRefills DEF Levels, Wait, Bucket!Elapse
  <1>4. CASE Cleanup
    BY <1>4, CleanupKeeps DEF Cleanup, Bucket!vars
  <1>5. CASE OpenWindow
    BY <1>5, OpenWindowInv DEF OpenWindow, Bucket!vars
  <1>6. CASE UNCHANGED vars
    BY <1>6 DEF vars, Levels, Level, Known, Tokens, Bucket!vars
  <1> QED
    BY <1>1, <1>2, <1>3, <1>4, <1>5, <1>6 DEF Next, Bucket!Next

(* The limiter with its clean-up loop implements buckets that are never    *)
(* forgotten, for every rate of at least two requests a minute: an entry   *)
(* is kept for five minutes, and no bucket takes longer to fill.           *)
THEOREM ForgettingDecidesNothing == Spec => ImplementsTokenBucket
  <1>1. Init => Bucket!Init
    BY DEF Init, Bucket!Init, Levels, Level, Known
  <1> QED
    BY <1>1, InvHolds, StepMaps, PTL DEF Spec, ImplementsTokenBucket, Bucket!Spec
=============================================================================
