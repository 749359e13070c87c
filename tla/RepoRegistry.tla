----------------------------- MODULE RepoRegistry -----------------------------
(***************************************************************************)
(* What the repository API promises its clients, without the steps: one    *)
(* table of registered repositories, and for every request an outcome that *)
(* one atomic change of that table explains.                               *)
(*                                                                         *)
(*   created   201: the request registered a fresh id, which stood         *)
(*   conflict  409: the name was registered at one instant of the request  *)
(*   missing   404: the name was free at one instant of the request        *)
(*   updated   200: the repository was registered at that instant          *)
(*   removed   204: this request, and no other, took the id out            *)
(*   refused   400, 403 or 500: nothing is promised                        *)
(*   dead      no answer: the server crashed                               *)
(***************************************************************************)
EXTENDS Naturals

CONSTANTS Keys, Reqs

VARIABLES
  reg,      \* the registered repositories: [id, key] pairs
  fresh,    \* every id below it has been used
  outcome   \* per request, what has come of it and the id concerned

vars == <<reg, fresh, outcome>>

Entry == [id : Nat \ {0}, key : Keys]
Kinds == {"none", "tentative", "created", "conflict", "missing", "updated",
          "removing", "removed", "refused", "dead"}
Outcome == [kind : Kinds, id : Nat]
Plain(kind) == [kind |-> kind, id |-> 0]

TypeOK ==
  /\ reg \subseteq Entry
  /\ fresh \in Nat \ {0}
  /\ outcome \in [Reqs -> Outcome]

Init ==
  /\ reg = {}
  /\ fresh = 1
  /\ outcome = [r \in Reqs |-> Plain("none")]

Registered(k) == \E e \in reg : e.key = k
Becomes(r, o) == outcome' = [outcome EXCEPT ![r] = o]

AddEntry(k) ==
  /\ ~ Registered(k)
  /\ reg' = reg \cup {[id |-> fresh, key |-> k]}
  /\ fresh' = fresh + 1
DropEntry(i) == reg' = {e \in reg : e.id # i} /\ UNCHANGED fresh

Register(r, k) ==
  /\ outcome[r].kind = "none"
  /\ AddEntry(k)
  /\ Becomes(r, [kind |-> "tentative", id |-> fresh])

\* The registration failed behind the table: withdrawn, or left there.
Withdraw(r) ==
  /\ outcome[r].kind = "tentative"
  /\ DropEntry(outcome[r].id) \/ UNCHANGED <<reg, fresh>>
  /\ Becomes(r, Plain("refused"))

Confirm(r) ==
  /\ outcome[r].kind = "tentative"
  /\ Becomes(r, [outcome[r] EXCEPT !.kind = "created"])
  /\ UNCHANGED <<reg, fresh>>

Unregister(r, e) ==
  /\ outcome[r].kind = "none"
  /\ e \in reg
  /\ DropEntry(e.id)
  /\ Becomes(r, [kind |-> "removing", id |-> e.id])

Removed(r) ==
  /\ outcome[r].kind = "removing"
  /\ Becomes(r, [outcome[r] EXCEPT !.kind = "removed"])
  /\ UNCHANGED <<reg, fresh>>

Conflict(r, k) ==
  /\ outcome[r].kind = "none"
  /\ Registered(k)
  /\ Becomes(r, Plain("conflict"))
  /\ UNCHANGED <<reg, fresh>>

Missing(r, k) ==
  /\ outcome[r].kind = "none"
  /\ ~ Registered(k)
  /\ Becomes(r, Plain("missing"))
  /\ UNCHANGED <<reg, fresh>>

Update(r, k) ==
  /\ outcome[r].kind = "none"
  /\ Registered(k)
  /\ Becomes(r, Plain("updated"))
  /\ UNCHANGED <<reg, fresh>>

\* An error answer; the change may have been made all the same.
Refuse(r) ==
  /\ outcome[r].kind = "none"
  /\ \/ UNCHANGED <<reg, fresh>>
     \/ \E k \in Keys : AddEntry(k)
     \/ \E e \in reg : DropEntry(e.id)
  /\ Becomes(r, Plain("refused"))

Crash ==
  /\ \E S \in SUBSET Reqs :
       /\ \A r \in S : outcome[r].kind \in {"none", "tentative", "removing"}
       /\ outcome' = [r \in Reqs |-> IF r \in S THEN Plain("dead") ELSE outcome[r]]
  /\ UNCHANGED <<reg, fresh>>

Next ==
  \/ \E r \in Reqs, k \in Keys : Register(r, k) \/ Conflict(r, k) \/ Missing(r, k)
                                   \/ Update(r, k)
  \/ \E r \in Reqs, e \in reg : Unregister(r, e)
  \/ \E r \in Reqs : Withdraw(r) \/ Confirm(r) \/ Removed(r) \/ Refuse(r)
  \/ Crash

Spec == Init /\ [][Next]_vars
-----------------------------------------------------------------------------
(* No two registered repositories share an id or a name: the primary key   *)
(* and UNIQUE (owner_id, name) survive every interleaving of requests.     *)
RegistryIsAMap ==
  \A e, f \in reg : e.id = f.id \/ e.key = f.key => e = f

(* Two 201 answers never name the same repository, two 204 answers never   *)
(* claim the same removal, and a removed id does not come back.            *)
EachIdOnce ==
  /\ \A r, s \in Reqs : /\ outcome[r].kind \in {"tentative", "created"}
                        /\ outcome[s].kind \in {"tentative", "created"}
                        /\ outcome[r].id = outcome[s].id
                        => r = s
  /\ \A r, s \in Reqs : /\ outcome[r].kind \in {"removing", "removed"}
                        /\ outcome[s].kind \in {"removing", "removed"}
                        /\ outcome[r].id = outcome[s].id
                        => r = s
  /\ \A r \in Reqs : outcome[r].kind \in {"removing", "removed"}
                        => \A e \in reg : e.id # outcome[r].id
=============================================================================
