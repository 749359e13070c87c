----------------------------- MODULE TokenBucket -----------------------------
(***************************************************************************)
(* What a rate limit promises: every client has a bucket of its own, full  *)
(* at first, that is refilled at a steady rate, is never forgotten, and    *)
(* pays for each request that passes; only an empty bucket refuses one.    *)
(***************************************************************************)
EXTENDS Naturals

CONSTANTS
  Clients,
  Burst,      \* what a bucket holds
  Rate,       \* what a second adds to it
  Cost,       \* what a request takes out
  Delays      \* the seconds that may pass at a time

VARIABLES
  level,      \* what each bucket holds now
  verdict     \* what became of each client's last request

vars == <<level, verdict>>

Least(a, b) == IF a <= b THEN a ELSE b

Init ==
  /\ level = [c \in Clients |-> Burst]
  /\ verdict = [c \in Clients |-> "none"]

Pass(c) ==
  /\ level[c] >= Cost
  /\ level' = [level EXCEPT ![c] = @ - Cost]
  /\ verdict' = [verdict EXCEPT ![c] = "passed"]

Refuse(c) ==
  /\ level[c] < Cost
  /\ verdict' = [verdict EXCEPT ![c] = "refused"]
  /\ UNCHANGED level

Elapse(d) ==
  /\ level' = [c \in Clients |-> Least(Burst, level[c] + Rate * d)]
  /\ UNCHANGED verdict

Next ==
  \/ \E c \in Clients : Pass(c) \/ Refuse(c)
  \/ \E d \in Delays : Elapse(d)

Spec == Init /\ [][Next]_vars
=============================================================================
