----------------------------- MODULE Migrations -----------------------------
(***************************************************************************)
(* apply_pending of src/storage/mariadb.py over the files of               *)
(* migrations/mariadb: runners that may be started together, may die at    *)
(* any step and are started again.  Every statement is DDL, which MariaDB  *)
(* commits on its own: the rollback of _apply_one undoes none of it.       *)
(***************************************************************************)
EXTENDS Integers, Sequences, FiniteSets

CONSTANTS
    Files,       \* the migrations in order: a sequence of statement kinds each
    Runners,     \* migrate processes
    MaxCrashes   \* bound: runners killed

\* a statement that says IF [NOT] EXISTS (or only widens a column) can be run again;
\* a plain CREATE TABLE or ADD COLUMN fails the second time
Kinds == {"guarded", "strict"}

ASSUME MigrationsAssumption ==
    /\ Files \in Seq(Seq(Kinds)) /\ Len(Files) > 0
    /\ \A f \in DOMAIN Files : Len(Files[f]) > 0
    /\ Files[1] = <<"guarded">>          \* 000_bootstrap.sql
    /\ MaxCrashes \in Nat

VARIABLES
    executed,   \* statements <<file, index>> whose effect is in the schema
    recorded,   \* schema_migrations: file -> content hash (0: no row)
    onDisk,     \* the content hash of each file now
    runner,     \* runner -> where it is
    crashes

migrationVars == <<executed, recorded, onDisk, runner, crashes>>

Off == [at |-> "off", file |-> 1, stmt |-> 1, seen |-> {}, disk |-> <<>>]

MigrationsInit ==
    /\ executed = {} /\ crashes = 0
    /\ recorded = [f \in DOMAIN Files |-> 0]
    /\ onDisk = [f \in DOMAIN Files |-> 1]
    /\ runner = [r \in Runners |-> Off]

Applied == {f \in DOMAIN Files : recorded[f] # 0}
Move(r, fields) == runner' = [runner EXCEPT ![r] = fields]

\* the start of apply_pending: without the tracking table the bootstrap comes first
StartMigrate(r) ==
    /\ runner[r].at \in {"off", "failed"}
    /\ Applied # DOMAIN Files
    /\ Move(r, [Off EXCEPT !.at = IF <<1, 1>> \in executed THEN "list" ELSE "apply",
                            !.disk = onDisk])
    /\ UNCHANGED <<executed, recorded, onDisk, crashes>>

\* _applied_migrations: read once, before the loop
ReadApplied(r) ==
    /\ runner[r].at = "list"
    /\ Move(r, [runner[r] EXCEPT !.at = "next", !.seen = Applied])
    /\ UNCHANGED <<executed, recorded, onDisk, crashes>>

Unedited(r, f) == recorded[f] = runner[r].disk[f]

\* one turn of the loop over the files
PickFile(r) ==
    /\ runner[r].at = "next"
    /\ LET f == runner[r].file IN
       \/ /\ f > Len(Files)
          /\ Move(r, Off)
       \/ /\ f \in runner[r].seen /\ Unedited(r, f)
          /\ Move(r, [runner[r] EXCEPT !.file = f + 1])
       \/ /\ f \in runner[r].seen /\ ~Unedited(r, f)
          /\ Move(r, [runner[r] EXCEPT !.at = "failed"])
       \/ /\ f \in DOMAIN Files \ runner[r].seen
          /\ Move(r, [runner[r] EXCEPT !.at = "apply", !.stmt = 1])
    /\ UNCHANGED <<executed, recorded, onDisk, crashes>>

\* _apply_one: a statement of the file runs, or the server refuses it
Refused(s) == s \in executed /\ Files[s[1]][s[2]] = "strict"
Execute(r) ==
    /\ runner[r].at = "apply"
    /\ LET s == <<runner[r].file, runner[r].stmt>> IN
       \/ /\ Refused(s)
          /\ Move(r, [runner[r] EXCEPT !.at = "failed"])
          /\ executed' = executed
       \/ /\ ~Refused(s)
          /\ executed' = executed \cup {s}
          /\ Move(r, IF s[2] = Len(Files[s[1]]) THEN [runner[r] EXCEPT !.at = "record"]
                                               ELSE [runner[r] EXCEPT !.stmt = @ + 1])
    /\ UNCHANGED <<recorded, onDisk, crashes>>

\* _record_applied and commit; the file name is the key of schema_migrations
Recordable(f) == recorded[f] = 0

\* Mutant: the row is written before the statements ran.
RecordEarly(r) ==
    /\ runner[r].at = "apply" /\ runner[r].stmt = 1
    /\ Recordable(runner[r].file)
    /\ recorded' = [recorded EXCEPT ![runner[r].file] = runner[r].disk[runner[r].file]]
    /\ Move(r, [runner[r] EXCEPT !.at = "next", !.file = @ + 1])
    /\ UNCHANGED <<executed, onDisk, crashes>>

RecordApplied(r) ==
    /\ runner[r].at = "record"
    /\ LET f == runner[r].file IN
       \/ /\ Recordable(f)
          /\ recorded' = [recorded EXCEPT ![f] = runner[r].disk[f]]
          /\ Move(r, [runner[r] EXCEPT !.at = IF f = 1 THEN "list" ELSE "next", !.file = f + 1])
       \/ /\ ~Recordable(f)
          /\ recorded' = recorded
          /\ Move(r, [runner[r] EXCEPT !.at = "failed"])
    /\ UNCHANGED <<executed, onDisk, crashes>>

RunnerDies(r) ==
    /\ runner[r].at \notin {"off", "failed"} /\ crashes < MaxCrashes
    /\ crashes' = crashes + 1
    /\ Move(r, Off)
    /\ UNCHANGED <<executed, recorded, onDisk>>

\* somebody edits a file that was already applied
EditFile(f) ==
    /\ onDisk[f] = 1 /\ recorded[f] = 1
    /\ onDisk' = [onDisk EXCEPT ![f] = 2]
    /\ UNCHANGED <<executed, recorded, runner, crashes>>

RunnerStep(r) ==
    \/ StartMigrate(r) \/ ReadApplied(r) \/ PickFile(r) \/ Execute(r) \/ RecordApplied(r)
MigrationsNext ==
    \/ \E r \in Runners : RunnerStep(r) \/ RunnerDies(r)
    \/ \E f \in DOMAIN Files : EditFile(f)

-----------------------------------------------------------------------------
\* A recorded migration is in the schema in full, and so is every migration before it:
\* no crash, error or second runner leaves a row ahead of the DDL it stands for, or a
\* later file applied over a missing earlier one (mariadb.py:155-196).
RecordedIsDone ==
    \A f \in Applied : \A g \in 1..f : \A i \in DOMAIN Files[g] : <<g, i>> \in executed

\* A runner applies a migration only after it has found every earlier one that was already
\* applied unedited since ("will abort if the hash changes", migrations/mariadb/README.md).
EditStops ==
    \A r \in Runners : runner[r].at \in {"apply", "record"} =>
        \A g \in runner[r].seen : g < runner[r].file => runner[r].disk[g] = recorded[g]

\* The schema is what the table of migrations says, and edited history stops a runner.
SchemaSound == RecordedIsDone /\ EditStops

\* A crash between the DDL and its row is survived by every migration whose statements
\* can be run again, if the ones before it can too: some later run records it.  (Nothing
\* of the kind holds of a plain ADD COLUMN.)
Repeatable(f) == \A g \in 1..f : \A i \in DOMAIN Files[g] : Files[g][i] = "guarded"
GuardedFinish ==
    \A f \in DOMAIN Files :
        Repeatable(f) => (\E r \in Runners : runner[r].at = "apply")
                            ~> (recorded[f] # 0 \/ \E g \in DOMAIN Files : onDisk[g] = 2)
=============================================================================
