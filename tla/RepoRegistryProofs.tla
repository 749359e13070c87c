-------------------------- MODULE RepoRegistryProofs --------------------------
(***************************************************************************)
(* The registry is a map, and every id is confirmed once and removed once. *)
(* Neither is inductive by itself: a new id must differ from the ids that  *)
(* are registered and from those that outcomes still speak about, which is *)
(* what IdsAreOld adds.                                                    *)
(***************************************************************************)
EXTENDS RepoRegistry, TLAPS

IdsAreOld ==
  /\ \A e \in reg : e.id < fresh
  /\ \A r \in Reqs : outcome[r].id < fresh

IInv == TypeOK /\ IdsAreOld /\ RegistryIsAMap /\ EachIdOnce

LEMMA InitInv == Init => IInv
  BY DEF Init, IInv, TypeOK, IdsAreOld, RegistryIsAMap, EachIdOnce, Plain, Outcome, Kinds

\* What AddEntry and DropEntry do to the table, whatever becomes of outcomes.
LEMMA AddEntryKeeps ==
  ASSUME TypeOK, IdsAreOld, RegistryIsAMap, NEW k \in Keys, AddEntry(k)
  PROVE  /\ reg' \subseteq Entry
         /\ fresh' = fresh + 1 /\ fresh' \in Nat \ {0}
         /\ \A e \in reg' : e.id < fresh'
         /\ RegistryIsAMap'
         /\ \A e \in reg' : e \in reg \/ e.id = fresh
  <1> DEFINE new == [id |-> fresh, key |-> k]
  <1>1. new \in Entry /\ new.id = fresh /\ new.key = k
    BY DEF TypeOK, Entry
  <1>2. reg' = reg \cup {new} /\ fresh' = fresh + 1 /\ \A e \in reg : e.key # k
    BY DEF AddEntry, Registered
  <1>3. \A e \in reg : e.id \in Nat /\ e.id < fresh /\ e.id # fresh
    BY DEF TypeOK, IdsAreOld, Entry
  <1> HIDE DEF new
  <1>4. RegistryIsAMap'
    BY <1>1, <1>2, <1>3 DEF RegistryIsAMap
  <1> QED
    BY <1>1, <1>2, <1>3, <1>4 DEF TypeOK

LEMMA DropEntryKeeps ==
  ASSUME TypeOK, IdsAreOld, RegistryIsAMap, NEW i \in Nat, DropEntry(i)
  PROVE  /\ reg' \subseteq Entry
         /\ fresh' = fresh /\ fresh' \in Nat \ {0}
         /\ \A e \in reg' : e.id < fresh' /\ e \in reg /\ e.id # i
         /\ RegistryIsAMap'
  BY DEF TypeOK, IdsAreOld, RegistryIsAMap, DropEntry

LEMMA StepInv == IInv /\ [Next]_vars => IInv'
  <1> SUFFICES ASSUME IInv, [Next]_vars PROVE IInv'
    OBVIOUS
  <1> USE DEF IInv
  <1> USE DEF Outcome, Kinds
  <1>1. ASSUME NEW r \in Reqs, NEW k \in Keys, Register(r, k) PROVE IInv'
    <2>1. AddEntry(k) /\ outcome' = [outcome EXCEPT ![r] = [kind |-> "tentative", id |-> fresh]]
      BY <1>1 DEF Register, Becomes
    <2>2. /\ reg' \subseteq Entry /\ fresh' = fresh + 1 /\ fresh' \in Nat \ {0}
          /\ \A e \in reg' : e.id < fresh'
          /\ RegistryIsAMap'
          /\ \A e \in reg' : e \in reg \/ e.id = fresh
      BY <2>1, AddEntryKeeps
    <2>3. TypeOK'
      BY <2>1, <2>2 DEF TypeOK
    <2>4. IdsAreOld'
      BY <2>1, <2>2 DEF TypeOK, IdsAreOld
    <2>5. EachIdOnce'
      BY <2>1, <2>2 DEF TypeOK, IdsAreOld, EachIdOnce
    <2> QED BY <2>2, <2>3, <2>4, <2>5
  <1>2. ASSUME NEW r \in Reqs, NEW k \in Keys,
               Conflict(r, k) \/ Missing(r, k) \/ Update(r, k)
        PROVE  IInv'
    <2>1. /\ UNCHANGED <<reg, fresh>>
          /\ \E kind \in {"conflict", "missing", "updated"} :
               outcome' = [outcome EXCEPT ![r] = Plain(kind)]
      BY <1>2 DEF Conflict, Missing, Update, Becomes
    <2> QED
      BY <2>1 DEF TypeOK, IdsAreOld, RegistryIsAMap, EachIdOnce, Plain
  <1>3. ASSUME NEW r \in Reqs, NEW e \in reg, Unregister(r, e) PROVE IInv'
    <2>1. /\ DropEntry(e.id) /\ e.id \in Nat /\ e.id < fresh
          /\ outcome' = [outcome EXCEPT ![r] = [kind |-> "removing", id |-> e.id]]
      BY <1>3 DEF Unregister, Becomes, TypeOK, Entry, IdsAreOld
    <2>2. /\ reg' \subseteq Entry /\ fresh' = fresh /\ fresh' \in Nat \ {0}
          /\ \A f \in reg' : f.id < fresh' /\ f \in reg /\ f.id # e.id
          /\ RegistryIsAMap'
      BY <2>1, DropEntryKeeps
    <2>3. TypeOK' /\ IdsAreOld'
      BY <2>1, <2>2 DEF TypeOK, IdsAreOld
    <2>4. EachIdOnce'
      BY <2>1, <2>2 DEF TypeOK, EachIdOnce
    <2> QED BY <2>2, <2>3, <2>4
  <1>4. ASSUME NEW r \in Reqs, Withdraw(r) PROVE IInv'
    <2>1. /\ outcome[r].id \in Nat
          /\ DropEntry(outcome[r].id) \/ UNCHANGED <<reg, fresh>>
          /\ outcome' = [outcome EXCEPT ![r] = Plain("refused")]
      BY <1>4 DEF Withdraw, Becomes, TypeOK
    <2>2. /\ reg' \subseteq Entry /\ fresh' = fresh /\ fresh' \in Nat \ {0}
          /\ \A f \in reg' : f.id < fresh' /\ f \in reg
          /\ RegistryIsAMap'
      BY <2>1, DropEntryKeeps DEF TypeOK, IdsAreOld, RegistryIsAMap
    <2> QED
      BY <2>1, <2>2 DEF TypeOK, IdsAreOld, EachIdOnce, Plain
  <1>5. ASSUME NEW r \in Reqs, Confirm(r) \/ Removed(r) PROVE IInv'
    BY <1>5 DEF Confirm, Removed, Becomes, TypeOK, IdsAreOld, RegistryIsAMap, EachIdOnce
  <1>6. ASSUME NEW r \in Reqs, Refuse(r) PROVE IInv'
    <2>1. /\ outcome' = [outcome EXCEPT ![r] = Plain("refused")]
          /\ \/ UNCHANGED <<reg, fresh>>
             \/ \E k \in Keys : AddEntry(k)
             \/ \E e \in reg : DropEntry(e.id) /\ e.id \in Nat
      BY <1>6 DEF Refuse, Becomes, TypeOK, Entry
    <2>2. /\ reg' \subseteq Entry /\ fresh' \in Nat \ {0}
          /\ fresh' = fresh \/ fresh' = fresh + 1
          /\ \A f \in reg' : f.id < fresh' /\ (f \in reg \/ f.id = fresh)
          /\ RegistryIsAMap'
      BY <2>1, AddEntryKeeps, DropEntryKeeps DEF TypeOK, IdsAreOld, RegistryIsAMap
    <2>3. TypeOK' /\ IdsAreOld'
      BY <2>1, <2>2 DEF TypeOK, IdsAreOld, Plain
    <2>4. EachIdOnce'
      BY <2>1, <2>2 DEF TypeOK, IdsAreOld, EachIdOnce, Plain
    <2> QED BY <2>2, <2>3, <2>4
  <1>7. CASE Crash
    BY <1>7 DEF Crash, TypeOK, IdsAreOld, RegistryIsAMap, EachIdOnce, Plain
  <1>8. CASE UNCHANGED vars
    BY <1>8 DEF vars, TypeOK, IdsAreOld, RegistryIsAMap, EachIdOnce
  <1> QED
    BY <1>1, <1>2, <1>3, <1>4, <1>5, <1>6, <1>7, <1>8 DEF Next

LEMMA Inv == Spec => []IInv
  BY InitInv, StepInv, PTL DEF Spec

(* At no time do two registered repositories share an id or a name, for    *)
(* any number of requests and keys.                                        *)
THEOREM RegistryStaysAMap == Spec => []RegistryIsAMap
  <1>1. IInv => RegistryIsAMap
    BY DEF IInv
  <1> QED BY <1>1, Inv, PTL

(* No two 201 answers name one repository, and no two 204 answers claim    *)
(* one removal, for any number of requests and keys.                       *)
THEOREM IdsAnsweredOnce == Spec => []EachIdOnce
  <1>1. IInv => EachIdOnce
    BY DEF IInv
  <1> QED BY <1>1, Inv, PTL
=============================================================================
