------------------------------ MODULE Migrations ------------------------------
(***************************************************************************)
(* The migration runner: runs that overlap, die, or lose the answer to their   *)
(* COMMIT, and are started again, over one Postgres.  Each file is run and       *)
(* recorded in one transaction; what keeps two runs apart are the names of the   *)
(* objects the files make and the UNIQUE name of _migrations, on which Postgres   *)
(* lets the second of two open transactions wait.                             *)
(***************************************************************************)
EXTENDS Naturals, Sequences

CONSTANTS
    Runner,      \* processes that run the migrations
    MaxFaults    \* bound: crashes and lost answers

ASSUME MigrationsAssumption == MaxFaults \in Nat

VARIABLES
    table,       \* _migrations is there
    recorded,    \* names in _migrations, in the order of their ids
    objects,     \* what the committed transactions made
    run,         \* run[r]: the run of process r
    faults

vars == <<table, recorded, objects, run, faults>>

(* The files, sorted.  needs: what must be there.  drops: DROP ... IF EXISTS.     *)
(* ensures: CREATE ... IF NOT EXISTS.  makes: CREATE, which fails on what exists.  *)
File == 1..6

Object == {"uuid", "devices", "fingerprint", "sessions", "transfer_files", "audit_logs"}

Sql001 == [needs |-> {}, drops |-> {}, ensures |-> {"uuid"}, makes |-> {}]
Sql002 == [needs |-> {"uuid"}, drops |-> {}, ensures |-> {},
           makes |-> {"devices", "fingerprint"}]
Sql003 == [needs |-> {"uuid", "devices"}, drops |-> {}, ensures |-> {}, makes |-> {"sessions"}]
Sql004 == [needs |-> {"uuid", "sessions"}, drops |-> {}, ensures |-> {},
           makes |-> {"transfer_files"}]
Sql005 == [needs |-> {"uuid", "sessions"}, drops |-> {}, ensures |-> {},
           makes |-> {"audit_logs"}]
Sql006Undropped == [needs |-> {"devices"}, drops |-> {}, ensures |-> {},
           makes |-> {"fingerprint"}]         \* mutant: 002 has made the index
Sql006 == [needs |-> {"devices"}, drops |-> {"fingerprint"}, ensures |-> {},
           makes |-> {"fingerprint"}]

Script == <<Sql001, Sql002, Sql003, Sql004, Sql005, Sql006>>

Made(f)    == Script[f].makes \cup Script[f].ensures
After(f)   == (objects \ Script[f].drops) \cup Made(f)
Fails(f)   == \/ ~(Script[f].needs \subseteq objects)
              \/ Script[f].makes \cap (objects \ Script[f].drops) # {}

(* create: no table was found.  insert: the file's SQL is done.  commit: so is the    *)
(* INSERT.                                                                      *)
Run == [at: {"off", "create", "read", "sql", "insert", "commit", "done", "failed"}, todo: SUBSET File]

TypeOK ==
    /\ table \in BOOLEAN
    /\ recorded \in Seq(File)
    /\ objects \subseteq Object
    /\ run \in [Runner -> Run]
    /\ faults \in 0..MaxFaults

Init ==
    /\ table = FALSE /\ recorded = <<>> /\ objects = {} /\ faults = 0
    /\ run = [r \in Runner |-> [at |-> "off", todo |-> {}]]

Recorded == {recorded[i] : i \in 1..Len(recorded)}
Doing(r, f) == f \in run[r].todo /\ \A g \in run[r].todo : f <= g
Goto(r, at) == run' = [run EXCEPT ![r].at = at]

(* The next file of the loop.                                                   *)
Onward(r, f) ==
    run' = [run EXCEPT ![r] = [at |-> IF run[r].todo = {f} THEN "done" ELSE "sql",
                               todo |-> run[r].todo \ {f}]]

(* ROLLBACK, and the error goes on to run, which exits.                          *)
SkipFile(r, f) == Onward(r, f)   \* mutant: the error is reported, the loop goes on
GiveUp(r, f) == Goto(r, "failed")

-------------------------------------------------------------------------------
(* CREATE TABLE IF NOT EXISTS looks first.                                       *)
Start(r) ==
    /\ run[r].at \in {"off", "failed"}
    /\ Goto(r, IF table THEN "read" ELSE "create")
    /\ UNCHANGED <<table, recorded, objects, faults>>

(* It fails if another run made the table after that, however short before.        *)
Create(r) ==
    /\ run[r].at = "create"
    /\ \/ table /\ Goto(r, "failed")
       \/ ~table /\ Goto(r, "read")
    /\ table' = TRUE
    /\ UNCHANGED <<recorded, objects, faults>>

(* SELECT name, once: what others record from now on is not seen.                 *)
Read(r) ==
    LET pending == File \ Recorded IN
    /\ run[r].at = "read"
    /\ run' = [run EXCEPT ![r] =
                 [at |-> IF pending = {} THEN "done" ELSE "sql", todo |-> pending]]
    /\ UNCHANGED <<table, recorded, objects, faults>>

(* Another transaction, not yet over, made or dropped what this file does.          *)
Waits(r, f) ==
    \E o \in Runner \ {r} : \E g \in File :
        /\ run[o].at \in {"insert", "commit"} /\ Doing(o, g)
        /\ Made(f) \cap Made(g) # {}

DoneAtOnce(f) == objects' = After(f)      \* mutant: no BEGIN
InTransaction(f) == UNCHANGED objects

Sql(r, f) ==
    /\ run[r].at = "sql" /\ Doing(r, f)
    /\ ~Waits(r, f)
    /\ \/ Fails(f) /\ GiveUp(r, f) /\ UNCHANGED objects
       \/ ~Fails(f) /\ Goto(r, "insert") /\ InTransaction(f)
    /\ UNCHANGED <<table, recorded, faults>>

(* INSERT INTO _migrations: waits for a transaction that inserted the name, and      *)
(* fails if the name is there.                                                  *)
NameTakenNever(f) == FALSE                \* mutant: name is not UNIQUE
NameTaken(f) == f \in Recorded

Insert(r, f) ==
    /\ run[r].at = "insert" /\ Doing(r, f)
    /\ \A o \in Runner \ {r} : ~(run[o].at = "commit" /\ Doing(o, f))
    /\ \/ NameTaken(f) /\ GiveUp(r, f)
       \/ ~NameTaken(f) /\ Goto(r, "commit")
    /\ UNCHANGED <<table, recorded, objects, faults>>

Committed(f) ==
    /\ recorded' = Append(recorded, f)
    /\ objects' = After(f)

Commit(r, f) ==
    /\ run[r].at = "commit" /\ Doing(r, f)
    /\ Committed(f)
    /\ Onward(r, f)
    /\ UNCHANGED <<table, faults>>

Fault == faults < MaxFaults /\ faults' = faults + 1

(* The process dies, or loses its connection before the loop, and its transaction       *)
(* with it: a table on its way may be there then.                                  *)
Die(r) ==
    /\ run[r].at \in {"create", "read", "sql", "insert", "commit"}
    /\ Fault
    /\ Goto(r, "failed")
    /\ \/ UNCHANGED table
       \/ run[r].at = "create" /\ table' = TRUE
    /\ UNCHANGED <<recorded, objects>>

(* A statement fails or the connection breaks; a COMMIT may have been done then.     *)
Break(r, f) ==
    /\ run[r].at \in {"sql", "insert", "commit"} /\ Doing(r, f)
    /\ Fault
    /\ GiveUp(r, f)
    /\ UNCHANGED table
    /\ \/ UNCHANGED <<recorded, objects>>
       \/ run[r].at = "commit" /\ Committed(f)

Step(r) == Start(r) \/ Create(r) \/ Read(r) \/ \E f \in File : Sql(r, f) \/ Insert(r, f) \/ Commit(r, f)

Next == \E r \in Runner : Step(r) \/ Die(r) \/ \E f \in File : Break(r, f)

Spec == Init /\ [][Next]_vars

(* Whoever deploys runs the migrations again until they are done.                 *)
FairSpec == Spec /\ \A r \in Runner : WF_vars(Step(r))

-------------------------------------------------------------------------------
(* OnceInOrder: however runs overlap and die, every file is recorded once, and only   *)
(* after those before it ("tracked in the _migrations table and only run once",      *)
(* docs/DEVELOPMENT.md, 79; a run acts on a list of pending files that others make     *)
(* out of date, migration-runner, 38-42 and 53).                                 *)
OnceInOrder == \A i \in 1..Len(recorded) : recorded[i] = i

(* SchemaMatches: what is in the database is what the recorded files make, never a     *)
(* part of a file that failed, was interrupted or ran twice (migration-runner, 65-74). *)
SchemaMatches == objects = UNION {Made(f) : f \in Recorded}

(* DoneIsDone: a run that reports success leaves no file unrecorded, although it       *)
(* looked only once and another run may have failed over the same files               *)
(* (migration-runner, 54-57 and 81).                                             *)
DoneIsDone == \A r \in Runner : run[r].at = "done" => Recorded = File

(* Migrated: runs that wait for each other, fail over each other's table and files or     *)
(* crash do not keep the database from getting there.                                      *)
Migrated == <>[](Recorded = File /\ \A r \in Runner : run[r].at = "done")
===============================================================================
