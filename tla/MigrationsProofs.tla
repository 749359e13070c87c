--------------------------- MODULE MigrationsProofs ---------------------------
(***************************************************************************)
(* For any number of servers, files, crashes and failed statements, a      *)
(* server that serves finds the whole schema.                              *)
(***************************************************************************)
EXTENDS Migrations, TLAPS

USE MigrationsAssumption

(* What a server does not hold to be undone is recorded; what it is about  *)
(* to record has taken effect.                                             *)
ServerOK(s) ==
  /\ pc[s] # "down" => Files \ todo[s] \subseteq recorded
  /\ pc[s] = "record" => \A f \in todo[s] : NextFile(s, f) => f \in schema
  /\ pc[s] = "up" => todo[s] = {}

RecordOK ==
  /\ recorded \subseteq schema
  /\ \A f \in schema : \A g \in Files : g < f => g \in recorded

Inv == TypeOK /\ RecordOK /\ \A s \in Servers : ServerOK(s)

LEMMA InitInv == Init => Inv
  BY DEF Init, Inv, TypeOK, RecordOK, ServerOK, Files

\* The step of one server, as seen by the others: nothing is taken back.
LEMMA OneServer ==
  ASSUME Inv, NEW s \in Servers, TypeOK', RecordOK', ServerOK(s)',
         schema \subseteq schema', recorded \subseteq recorded',
         \A t \in Servers \ {s} : pc'[t] = pc[t] /\ todo'[t] = todo[t]
  PROVE  Inv'
  <1>1. ASSUME NEW t \in Servers, t # s PROVE ServerOK(t)'
    <2>1. pc'[t] = pc[t] /\ todo'[t] = todo[t] /\ ServerOK(t)
      BY <1>1 DEF Inv
    <2> QED BY <2>1 DEF ServerOK, NextFile
  <1> QED BY <1>1 DEF Inv

\* A server that goes on leaves every file before the next one recorded.
LEMMA BeforeNext ==
  ASSUME Inv, NEW s \in Servers, pc[s] # "down", NEW f \in Files, NextFile(s, f)
  PROVE  \A g \in Files : g < f => g \in recorded
  <1>1. \A g \in Files : g < f => g \notin todo[s]
    BY DEF NextFile, Files
  <1> QED BY <1>1 DEF Inv, ServerOK

LEMMA Troubled ==
  ASSUME TypeOK, Fault \/ Break \/ NoTrouble
  PROVE  faults' \in 0..MaxFaults /\ breaks' \in 0..MaxBreaks
  BY DEF Fault, Break, NoTrouble, TypeOK

\* Steps that touch only one server: its start, its service, its end.
LEMMA LocalInv ==
  ASSUME Inv, NEW s \in Servers, ReadApplied(s) \/ ReadFails(s) \/ Serve(s) \/ Crash(s)
  PROVE  Inv'
  <1>1. /\ UNCHANGED <<schema, recorded>>
        /\ Fault \/ Break \/ NoTrouble
        /\ \A t \in Servers \ {s} : pc'[t] = pc[t] /\ todo'[t] = todo[t]
    BY DEF ReadApplied, ReadFails, Serve, Crash, Goto, Inv, TypeOK
  <1>2. TypeOK'
    BY <1>1, Troubled DEF ReadApplied, ReadFails, Serve, Crash, Goto, Inv, TypeOK
  <1>3. RecordOK'
    BY <1>1 DEF Inv, RecordOK, Files
  <1>4. ServerOK(s)'
    BY <1>1 DEF ReadApplied, ReadFails, Serve, Crash, Goto, Inv, TypeOK, ServerOK, Files,
                NextFile
  <1> QED BY <1>1, <1>2, <1>3, <1>4, OneServer

\* A file takes effect only when all before it are recorded.
LEMMA RunInv ==
  ASSUME Inv, NEW s \in Servers, NEW f \in Files, Run(s, f) \/ RunFails(s, f)
  PROVE  Inv'
  <1>1. /\ UNCHANGED <<recorded, todo>>
        /\ Fault \/ Break \/ NoTrouble
        /\ schema' = schema \/ schema' = schema \cup {f}
        /\ pc[s] = "run" /\ NextFile(s, f) /\ pc'[s] \in {"record", "down"}
        /\ \A t \in Servers \ {s} : pc'[t] = pc[t]
    BY DEF Run, RunFails, Goto, Inv, TypeOK
  <1>2. TypeOK'
    BY <1>1, Troubled DEF Run, RunFails, Goto, Inv, TypeOK
  <1>3. RecordOK'
    <2>1. \A g \in Files : g < f => g \in recorded
      BY <1>1, BeforeNext
    <2> QED BY <1>1, <2>1 DEF Inv, RecordOK, Files
  <1>4. ServerOK(s)'
    <2>1. Files \ todo[s] \subseteq recorded
      BY <1>1 DEF Inv, ServerOK
    <2>2. pc'[s] = "record" => f \in schema'
      BY DEF Run, RunFails, Goto, Inv, TypeOK
    <2>3. \A g \in todo[s] : NextFile(s, g) => g = f
      BY <1>1 DEF NextFile, Inv, TypeOK, Files
    <2> QED BY <1>1, <2>1, <2>2, <2>3 DEF ServerOK, NextFile, Files
  <1> QED BY <1>1, <1>2, <1>3, <1>4, OneServer

\* Only what has taken effect is recorded.
LEMMA RecordInv ==
  ASSUME Inv, NEW s \in Servers, NEW f \in Files, Record(s, f) \/ RecordFails(s, f)
  PROVE  Inv'
  <1>1. /\ UNCHANGED schema
        /\ Fault \/ Break \/ NoTrouble
        /\ recorded' = recorded \/ recorded' = recorded \cup {f}
        /\ pc[s] = "record" /\ NextFile(s, f) /\ pc'[s] \in {"run", "down"}
        /\ pc'[s] = "run" => recorded' = recorded \cup {f} /\ todo'[s] = todo[s] \ {f}
        /\ \A t \in Servers \ {s} : pc'[t] = pc[t] /\ todo'[t] = todo[t]
    BY DEF Record, RecordFails, Goto, Inv, TypeOK
  <1>2. TypeOK'
    BY <1>1, Troubled DEF Record, RecordFails, Goto, Inv, TypeOK
  <1>3. f \in schema
    BY <1>1 DEF Inv, ServerOK, NextFile
  <1>4. RecordOK'
    BY <1>1, <1>3 DEF Inv, RecordOK, Files
  <1>5. ServerOK(s)'
    BY <1>1 DEF Inv, ServerOK
  <1> QED BY <1>1, <1>2, <1>4, <1>5, OneServer

LEMMA StepInv == Inv /\ [Next]_vars => Inv'
  <1> SUFFICES ASSUME Inv, [Next]_vars PROVE Inv'
    OBVIOUS
  <1>1. CASE UNCHANGED vars
    BY <1>1 DEF vars, Inv, TypeOK, RecordOK, ServerOK, NextFile
  <1>2. ASSUME NEW s \in Servers, Start(s) PROVE Inv'
    BY <1>2, LocalInv, RunInv, RecordInv DEF Start, Apply
  <1> QED BY <1>1, <1>2, LocalInv DEF Next

LEMMA InvHolds == Spec => []Inv
  BY InitInv, StepInv, PTL DEF Spec

(* Servers, schema and record keep their types for any number of servers   *)
(* and files, whatever fails and crashes between a file and its record.    *)
THEOREM MigrationTypes == Spec => []TypeOK
  <1>1. Inv => TypeOK
    BY DEF Inv
  <1> QED BY <1>1, InvHolds, PTL

(* No server serves over a part of the schema, however many start at once  *)
(* or crash between a file and its record.                                 *)
THEOREM ServersFindTheSchema == Spec => []ServesWholeSchema
  <1>1. Inv => ServesWholeSchema
    BY DEF Inv, TypeOK, RecordOK, ServerOK, ServesWholeSchema
  <1> QED BY <1>1, InvHolds, PTL

(* The record of the files lags behind the schema by the last file at      *)
(* most, and the schema never has a gap.                                   *)
THEOREM RecordLagsByOne == Spec => []RecordFollowsSchema
  <1>1. Inv => RecordFollowsSchema
    <2> SUFFICES ASSUME Inv, NEW f \in schema, NEW g \in 1..(f - 1) PROVE g \in recorded
      BY DEF Inv, RecordOK, RecordFollowsSchema
    <2>1. f \in Files /\ g \in Files /\ g < f
      BY DEF Inv, TypeOK, Files
    <2> QED BY <2>1 DEF Inv, RecordOK
  <1> QED BY <1>1, InvHolds, PTL
=============================================================================
