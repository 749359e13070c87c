----------------------------- MODULE RateLimiter -----------------------------
(***************************************************************************)
(* The API's rate limit (internal/api/middleware/ratelimit.go): a token    *)
(* bucket per client address, made when the client is first seen, brought  *)
(* up to date only when the client asks, and thrown away by a loop that    *)
(* wakes every five minutes when the client was not seen for as long.  One *)
(* mutex makes allow and each pass of the loop atomic.                     *)
(*                                                                         *)
(* Times are seconds.  A token is 60 units, so that a second adds ReqPerMin *)
(* units; the floating point arithmetic of rate.Limiter is exact here.     *)
(***************************************************************************)
EXTENDS Integers

CONSTANTS
  Clients,
  ReqPerMin,  \* the sustained rate; NewRouter asks for 100
  Delays,     \* the seconds that may pass at a time
  MaxTime     \* bound on the clock

ASSUME RateAssumption ==
  /\ ReqPerMin \in Nat /\ ReqPerMin >= 2
  /\ Delays \subseteq Nat \ {0}
  /\ MaxTime \in Nat

VARIABLES
  now,
  due,        \* when the ticker of cleanupLoop fires next
  ips,        \* the entry of each client address, or NoEntry
  verdict,    \* what allow said to each client last
  window      \* history: a span of time and how much a client got in it

vars == <<now, due, ips, verdict, window>>
-----------------------------------------------------------------------------
Cost == 60
IdleLimit == 300
Rate == ReqPerMin
Larger(a, b) == IF a > b THEN a ELSE b
Burst == Cost * Larger(ReqPerMin \div 5, 10)

\* A rate.Limiter is its tokens as of last; lastSeen is the ipEntry's own.
Entry == [tokens : 0..Burst, last : Nat, lastSeen : Nat]
NoEntry == [tokens |-> 0 - 1, last |-> 0, lastSeen |-> 0]
NewEntry == [tokens |-> Burst, last |-> now, lastSeen |-> now]

Known(c) == ips[c] # NoEntry

\* With a bug: what an idle client saves up has no limit.
TokensUncapped(e) == e.tokens + Rate * (now - e.last)

\* rate.Limiter.advance: the tokens there are by now, never above the burst.
Tokens(e) == LET sum == e.tokens + Rate * (now - e.last)
             IN IF sum <= Burst THEN sum ELSE Burst

TypeOK ==
  /\ now \in Nat /\ due \in Nat
  /\ ips \in [Clients -> Entry \cup {NoEntry}]
  /\ verdict \in [Clients -> {"none", "passed", "refused"}]
  /\ window \in [client : Clients, open : BOOLEAN, from : Nat, got : Nat]

Init ==
  /\ now = 0
  /\ due = IdleLimit
  /\ ips = [c \in Clients |-> NoEntry]
  /\ verdict = [c \in Clients |-> "none"]
  /\ \E c \in Clients :
       window = [client |-> c, open |-> FALSE, from |-> 0, got |-> 0]
-----------------------------------------------------------------------------
Got(c) == IF window.open /\ window.client = c
          THEN [window EXCEPT !.got = @ + Cost] ELSE window

\* The entry allow works on: it makes one for a client that has none.
EntryOf(c) == IF Known(c) THEN ips[c] ELSE NewEntry

\* With a bug: lastSeen is set only where the entry is made.
AllowSeenOnce(c) ==
  /\ Tokens(EntryOf(c)) >= Cost
  /\ ips' = [ips EXCEPT ![c] = [EntryOf(c) EXCEPT !.tokens = Tokens(EntryOf(c)) - Cost,
                                                 !.last = now]]
  /\ verdict' = [verdict EXCEPT ![c] = "passed"]
  /\ window' = Got(c)
  /\ UNCHANGED <<now, due>>

Allow(c) ==
  /\ Tokens(EntryOf(c)) >= Cost
  /\ ips' = [ips EXCEPT ![c] = [tokens |-> Tokens(EntryOf(c)) - Cost,
                                last |-> now, lastSeen |-> now]]
  /\ verdict' = [verdict EXCEPT ![c] = "passed"]
  /\ window' = Got(c)
  /\ UNCHANGED <<now, due>>

\* 429.  The limiter stays as it was; the entry is seen.
Deny(c) ==
  /\ Tokens(EntryOf(c)) < Cost
  /\ ips' = [ips EXCEPT ![c] = [EntryOf(c) EXCEPT !.lastSeen = now]]
  /\ verdict' = [verdict EXCEPT ![c] = "refused"]
  /\ UNCHANGED <<now, due, window>>

\* With a bug: five minutes taken for one.
CleanupTooSoon ==
  /\ now >= due
  /\ due' = IdleLimit * (now \div IdleLimit + 1)
  /\ ips' = [c \in Clients |->
               IF Known(c) /\ now - ips[c].lastSeen > 60 THEN NoEntry ELSE ips[c]]
  /\ UNCHANGED <<now, verdict, window>>

\* One pass of cleanupLoop, when the tick is due or any time later.
Cleanup ==
  /\ now >= due
  /\ due' = IdleLimit * (now \div IdleLimit + 1)
  /\ ips' = [c \in Clients |->
               IF Known(c) /\ now - ips[c].lastSeen > IdleLimit THEN NoEntry ELSE ips[c]]
  /\ UNCHANGED <<now, verdict, window>>

Wait(d) ==
  /\ now + d <= MaxTime
  /\ now' = now + d
  /\ UNCHANGED <<due, ips, verdict, window>>

\* The span of time that window measures begins, at any moment.
OpenWindow ==
  /\ ~ window.open
  /\ window' = [window EXCEPT !.open = TRUE, !.from = now]
  /\ UNCHANGED <<now, due, ips, verdict>>

Next ==
  \/ \E c \in Clients : Allow(c) \/ Deny(c)
  \/ Cleanup
  \/ \E d \in Delays : Wait(d)
  \/ OpenWindow

Spec == Init /\ [][Next]_vars
-----------------------------------------------------------------------------
(* What a client that is not known would find is what it would have had.   *)
Level(c) == IF Known(c) THEN Tokens(ips[c]) ELSE Burst

Levels == [c \in Clients |-> Level(c)]

Bucket == INSTANCE TokenBucket WITH level <- Levels

(* Throwing entries away decides nothing: the limiter answers each request *)
(* as buckets that are never forgotten would, whenever the loop runs.  It  *)
(* rests on a full bucket taking no longer to fill than an entry is kept.  *)
ImplementsTokenBucket == Bucket!Spec

(* "reqPerMin is the sustained request rate allowed per IP address.  A     *)
(* burst of reqPerMin/5 (minimum 10) is allowed" (ratelimit.go:12): in any *)
(* span of time no client gets more than a burst and the rate's share of   *)
(* the span, whatever was forgotten and made anew in between.              *)
WindowBound ==
  window.open => window.got <= Burst + Rate * (now - window.from)
=============================================================================
