------------------------------ MODULE Migrations ------------------------------
(***************************************************************************)
(* RunMigrations (internal/store/migrate.go), which every API server calls *)
(* before it serves.  It reads once which files are recorded, then runs    *)
(* and records the others one by one, under no lock.                       *)
(*                                                                         *)
(* Each file holds its own BEGIN and COMMIT.  The COMMIT ends the          *)
(* transaction that RunMigrations opened around file and record, so that   *)
(* the file takes effect first, the INSERT of its record commits by        *)
(* itself, and the final tx.Commit finds nothing to do.  The files can be  *)
(* run again (IF NOT EXISTS, OR REPLACE, DROP TRIGGER IF EXISTS).          *)
(***************************************************************************)
EXTENDS Naturals

CONSTANTS
  Servers,
  LastFile,   \* the files are 1..LastFile, in lexicographic order
  MaxFaults,  \* bound on statements that fail
  MaxBreaks   \* bound on crashes and lost replies

ASSUME MigrationsAssumption ==
  LastFile \in Nat /\ MaxFaults \in Nat /\ MaxBreaks \in Nat

Files == 1..LastFile

VARIABLES
  schema,     \* the files whose statements have taken effect
  recorded,   \* table schema_migrations
  pc,         \* where each server is in its start
  todo,       \* the files it found unrecorded and has not come to the end of
  faults, breaks

vars == <<schema, recorded, pc, todo, faults, breaks>>

TypeOK ==
  /\ schema \subseteq Files
  /\ recorded \subseteq Files
  /\ pc \in [Servers -> {"down", "run", "record", "up"}]
  /\ todo \in [Servers -> SUBSET Files]
  /\ faults \in 0..MaxFaults
  /\ breaks \in 0..MaxBreaks

Init ==
  /\ schema = {}
  /\ recorded = {}
  /\ pc = [s \in Servers |-> "down"]
  /\ todo = [s \in Servers |-> {}]
  /\ faults = 0
  /\ breaks = 0
-----------------------------------------------------------------------------
Goto(s, l) == pc' = [pc EXCEPT ![s] = l]

Fault == faults < MaxFaults /\ faults' = faults + 1 /\ UNCHANGED breaks
Break == breaks < MaxBreaks /\ breaks' = breaks + 1 /\ UNCHANGED faults
NoTrouble == UNCHANGED <<faults, breaks>>

\* With a bug: the files are not sorted.
NextInAnyOrder(s, f) == f \in todo[s]

NextFile(s, f) == f \in todo[s] /\ \A g \in todo[s] : f <= g

\* With a bug: a file that is no migration is taken for one.
ReadAppliedTooMany(s) ==
  /\ pc[s] = "down"
  /\ todo' = [todo EXCEPT ![s] = (0..LastFile) \ recorded]
  /\ Goto(s, "run")
  /\ NoTrouble
  /\ UNCHANGED <<schema, recorded>>

\* The table schema_migrations is there, or made, and read.
ReadApplied(s) ==
  /\ pc[s] = "down"
  /\ todo' = [todo EXCEPT ![s] = Files \ recorded]
  /\ Goto(s, "run")
  /\ NoTrouble
  /\ UNCHANGED <<schema, recorded>>

ReadFails(s) ==
  /\ pc[s] = "down"
  /\ Fault
  /\ UNCHANGED <<schema, recorded, pc, todo>>

Run(s, f) ==
  /\ pc[s] = "run" /\ NextFile(s, f)
  /\ schema' = schema \cup {f}
  /\ Goto(s, "record")
  /\ NoTrouble
  /\ UNCHANGED <<recorded, todo>>

\* With a bug: the error is logged, and the loop goes on.
RunFailsUnnoticed(s, f) ==
  /\ pc[s] = "run" /\ NextFile(s, f)
  /\ Fault
  /\ Goto(s, "record")
  /\ UNCHANGED <<schema, recorded, todo>>

\* The file fails as a whole, or its reply is lost; the server exits.
RunFails(s, f) ==
  /\ pc[s] = "run" /\ NextFile(s, f)
  /\ \/ Fault /\ UNCHANGED schema
     \/ Break /\ schema' = schema \cup {f}
  /\ Goto(s, "down")
  /\ UNCHANGED <<recorded, todo>>

Record(s, f) ==
  /\ pc[s] = "record" /\ NextFile(s, f)
  /\ f \notin recorded
  /\ recorded' = recorded \cup {f}
  /\ todo' = [todo EXCEPT ![s] = @ \ {f}]
  /\ Goto(s, "run")
  /\ NoTrouble
  /\ UNCHANGED schema

\* With a bug: the INSERT is tried until it succeeds.
RecordInsists(s, f) ==
  /\ pc[s] = "record" /\ NextFile(s, f)
  /\ Fault
  /\ UNCHANGED <<schema, recorded, todo, pc>>

\* Another server recorded it meanwhile (primary key), the INSERT fails, or its
\* reply is lost; the server exits.
RecordFails(s, f) ==
  /\ pc[s] = "record" /\ NextFile(s, f)
  /\ \/ f \in recorded /\ NoTrouble /\ UNCHANGED recorded
     \/ Fault /\ UNCHANGED recorded
     \/ Break /\ f \notin recorded /\ recorded' = recorded \cup {f}
  /\ Goto(s, "down")
  /\ UNCHANGED <<schema, todo>>

Serve(s) ==
  /\ pc[s] = "run" /\ todo[s] = {}
  /\ Goto(s, "up")
  /\ NoTrouble
  /\ UNCHANGED <<schema, recorded, todo>>

Crash(s) ==
  /\ pc[s] # "down"
  /\ Break
  /\ Goto(s, "down")
  /\ UNCHANGED <<schema, recorded, todo>>

Apply(s, f) == Run(s, f) \/ RunFails(s, f) \/ Record(s, f) \/ RecordFails(s, f)

Start(s) == ReadApplied(s) \/ ReadFails(s) \/ (\E f \in Files : Apply(s, f)) \/ Serve(s)

Next == \E s \in Servers : Start(s) \/ Crash(s)

Spec == Init /\ [][Next]_vars

\* Kubernetes starts a server that exited again, and its calls return.
FairSpec == Spec /\ \A s \in Servers : WF_vars(Start(s))
-----------------------------------------------------------------------------
(* A server that serves finds the whole schema, whatever crashed and       *)
(* whoever ran the files (main.go:74: migrations come before the routes).  *)
ServesWholeSchema == \A s \in Servers : pc[s] = "up" => schema = Files

(* The schema grows in order and its record never lags by more than the    *)
(* last file, nor runs ahead: a crash between a file and its record loses  *)
(* one record at most, that of the file run last, and no server, however   *)
(* old the list it works from, leaves a gap.                               *)
RecordFollowsSchema ==
  /\ recorded \subseteq schema
  /\ \A f \in schema : 1..(f - 1) \subseteq recorded

(* Servers that start together make each other fail on the primary key of  *)
(* schema_migrations and exit; in the end all of them serve.               *)
EveryServerStarts == \A s \in Servers : <>[](pc[s] = "up")
=============================================================================
