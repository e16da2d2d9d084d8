--------------------------- MODULE MigrationsProofs ---------------------------
(***************************************************************************)
(* What the migration runner keeps, for any number of runs and faults.  The     *)
(* argument: the files a run has still to do are the last ones, from at most     *)
(* the first that is not recorded; so a run that may commit, whose file is not     *)
(* recorded, does the first of those, and the UNIQUE name lets only one be there.  *)
(***************************************************************************)
EXTENDS Migrations, TLAPS

Working == {"sql", "insert", "commit"}

Suffixes ==
    \A r \in Runner : run[r].at \in Working =>
        \E k \in File : k <= Len(recorded) + 1 /\ run[r].todo = {f \in File : k <= f}

CommitsNext ==
    \A r \in Runner, f \in File :
        run[r].at = "commit" /\ Doing(r, f) => f = Len(recorded) + 1

OneCommits ==
    \A r, o \in Runner : run[r].at = "commit" /\ run[o].at = "commit" => r = o

IInv ==
    /\ TypeOK
    /\ OnceInOrder
    /\ SchemaMatches
    /\ DoneIsDone
    /\ Suffixes
    /\ CommitsNext
    /\ OneCommits

-------------------------------------------------------------------------------
(* The names recorded in order are those of the first files.                       *)
LEMMA InOrder ==
    ASSUME TypeOK, OnceInOrder
    PROVE  /\ Len(recorded) \in 0..6
           /\ Recorded = 1..Len(recorded)
<1>1. recorded \in Seq(1..6) /\ Len(recorded) \in Nat
  BY DEF TypeOK, File
<1>2. \A i \in 1..Len(recorded) : recorded[i] = i /\ recorded[i] \in 1..6
  BY <1>1 DEF OnceInOrder
<1>3. Len(recorded) <= 6
  <2>1. CASE Len(recorded) = 0
    BY <2>1
  <2>2. CASE Len(recorded) # 0
    <3>1. Len(recorded) \in 1..Len(recorded)
      BY <1>1, <2>2
    <3>. QED
      BY <1>1, <1>2, <3>1
  <2>. QED
    BY <2>1, <2>2
<1>4. Recorded = 1..Len(recorded)
  BY <1>2 DEF Recorded
<1>5. Len(recorded) \in 0..6
  <2>1. \A n \in Nat : n <= 6 => n \in 0..6
    OBVIOUS
  <2>. QED
    BY <1>1, <1>3, <2>1, Zenon
<1>. QED
  BY <1>4, <1>5

(* A file drops only what it makes again.                                          *)
LEMMA Redone ==
    ASSUME NEW f \in File
    PROVE  Script[f].drops \subseteq Made(f)
<1>1. CASE f = 6
  <2>1. Script[6] = Sql006
    BY DEF Script
  <2>2. Sql006.drops = {"fingerprint"} /\ Sql006.makes = {"fingerprint"}
    BY DEF Sql006
  <2>. QED
    BY <1>1, <2>1, <2>2 DEF Made
<1>2. CASE f # 6
  <2>1. f \in {1, 2, 3, 4, 5}
    BY <1>2 DEF File
  <2>2. Script[f] \in {Sql001, Sql002, Sql003, Sql004, Sql005}
    BY <2>1 DEF Script
  <2>3. /\ Sql001.drops = {} /\ Sql002.drops = {} /\ Sql003.drops = {}
        /\ Sql004.drops = {} /\ Sql005.drops = {}
    BY DEF Sql001, Sql002, Sql003, Sql004, Sql005
  <2>4. Script[f].drops = {}
    BY <2>2, <2>3, Zenon
  <2>. QED
    BY <2>4
<1>. QED
  BY <1>1, <1>2

LEMMA MadeAreObjects ==
    ASSUME NEW f \in File
    PROVE  Made(f) \subseteq Object
BY DEF File, Script, Made, Object, Sql001, Sql002, Sql003, Sql004, Sql005, Sql006

-------------------------------------------------------------------------------
(* What a file that is recorded leaves.                                           *)
LEMMA CommittedKeeps ==
    ASSUME IInv, NEW r \in Runner, NEW f \in File,
           run[r].at = "commit", Doing(r, f), Committed(f)
    PROVE  /\ f = Len(recorded) + 1 /\ Len(recorded') = f
           /\ recorded' \in Seq(File) /\ objects' \subseteq Object
           /\ OnceInOrder' /\ SchemaMatches' /\ Recorded' = 1..f
           /\ Len(recorded) \in Nat
<1>1. /\ recorded \in Seq(File) /\ Len(recorded) \in Nat
      /\ recorded' = Append(recorded, f)
  BY DEF IInv, TypeOK, Committed
<1>2. f = Len(recorded) + 1
  BY DEF IInv, CommitsNext
<1>3. /\ recorded' \in Seq(File) /\ Len(recorded') = f
      /\ \A i \in 1..f : recorded'[i] = IF i < f THEN recorded[i] ELSE f
  BY <1>1, <1>2
<1>4. OnceInOrder'
  BY <1>1, <1>2, <1>3 DEF IInv, OnceInOrder
<1>5. Recorded = 1..Len(recorded)
  BY InOrder DEF IInv
<1>6. Recorded' = 1..f
  BY <1>3, <1>4 DEF Recorded, OnceInOrder
<1>7. Recorded' = Recorded \cup {f}
  BY <1>1, <1>2, <1>5, <1>6 DEF File
<1>8. objects' = objects \cup Made(f)
  BY Redone DEF Committed, After
<1>9. SchemaMatches'
  <2>1. objects = UNION {Made(g) : g \in Recorded}
    BY DEF IInv, SchemaMatches
  <2>2. objects' = UNION {Made(g) : g \in Recorded'}
    BY <1>7, <1>8, <2>1
  <2>. QED
    BY <2>2 DEF SchemaMatches, Made
<1>10. objects' \subseteq Object
  BY <1>8, MadeAreObjects DEF IInv, TypeOK
<1>. QED
  BY <1>1, <1>2, <1>3, <1>4, <1>6, <1>9, <1>10

(* What the others know holds still when r has recorded a file: what they have to do *)
(* starts no later, and none of them commits.                                    *)
LEMMA OthersKept ==
    ASSUME IInv, NEW r \in Runner, NEW f \in File,
           run[r].at = "commit", Doing(r, f), Committed(f),
           NEW v \in Run, run' = [run EXCEPT ![r] = v],
           v.at \in {"failed", "done", "sql"},
           v.at = "done" => f = 6,
           v.at = "sql" => \E k \in File : k <= f + 1 /\ v.todo = {g \in File : k <= g},
           faults' \in 0..MaxFaults, table' \in BOOLEAN
    PROVE  IInv'
<1>1. /\ f = Len(recorded) + 1 /\ Len(recorded') = f
      /\ recorded' \in Seq(File) /\ objects' \subseteq Object
      /\ OnceInOrder' /\ SchemaMatches' /\ Recorded' = 1..f
      /\ Len(recorded) \in Nat
  BY CommittedKeeps, Zenon
<1>0. f \in Nat
  BY DEF File
<1>2. /\ run \in [Runner -> Run] /\ run' \in [Runner -> Run]
      /\ run'[r] = v /\ \A o \in Runner \ {r} : run'[o] = run[o]
  BY DEF IInv, TypeOK
<1>3. TypeOK'
  BY <1>1, <1>2 DEF TypeOK
<1>4. \A o \in Runner : run'[o].at # "commit"
  BY <1>2 DEF IInv, OneCommits
<1>5. DoneIsDone'
  <2>. SUFFICES ASSUME NEW o \in Runner, run'[o].at = "done" PROVE Recorded' = File
    BY DEF DoneIsDone
  <2>1. CASE o = r
    BY <1>1, <1>2, <2>1 DEF File
  <2>2. CASE o # r
    <3>1. Recorded = File
      BY <1>2, <2>2 DEF IInv, DoneIsDone
    <3>2. Recorded = 1..Len(recorded)
      BY InOrder DEF IInv
    <3>3. f \notin Recorded
      BY <1>1, <3>2
    <3>. QED
      BY <3>1, <3>3
  <2>. QED
    BY <2>1, <2>2
<1>6. Suffixes'
  <2>. SUFFICES ASSUME NEW o \in Runner, run'[o].at \in Working
                PROVE  \E k \in File : k <= f + 1 /\ run'[o].todo = {g \in File : k <= g}
    BY <1>1 DEF Suffixes
  <2>1. CASE o = r
    BY <1>2, <2>1 DEF Working
  <2>2. CASE o # r
    <3>1. PICK k \in File : k <= Len(recorded) + 1 /\ run[o].todo = {g \in File : k <= g}
      BY <1>2, <2>2 DEF IInv, Suffixes
    <3>2. k <= f + 1
      BY <1>0, <1>1, <3>1 DEF File
    <3>. QED
      BY <1>2, <2>2, <3>1, <3>2
  <2>. QED
    BY <2>1, <2>2
<1>. QED
  BY <1>1, <1>3, <1>4, <1>5, <1>6 DEF IInv, CommitsNext, OneCommits

(* A step of r that records nothing.                                              *)
LEMMA StepKept ==
    ASSUME IInv, NEW r \in Runner, NEW v \in Run,
           run' = [run EXCEPT ![r] = v], UNCHANGED <<recorded, objects>>,
           faults' \in 0..MaxFaults, table' \in BOOLEAN,
           v.at = "done" => Recorded = File,
           v.at \in Working =>
               \E k \in File : k <= Len(recorded) + 1 /\ v.todo = {f \in File : k <= f},
           v.at = "commit" =>
               /\ \A f \in v.todo : (\A g \in v.todo : f <= g) => f = Len(recorded) + 1
               /\ \A o \in Runner \ {r} : run[o].at # "commit"
    PROVE  IInv'
<1>1. /\ run \in [Runner -> Run] /\ run' \in [Runner -> Run]
      /\ run'[r] = v /\ \A o \in Runner \ {r} : run'[o] = run[o]
  BY DEF IInv, TypeOK
<1>2. TypeOK'
  BY <1>1 DEF IInv, TypeOK
<1>3. Recorded' = Recorded /\ OnceInOrder' /\ SchemaMatches'
  BY DEF IInv, Recorded, OnceInOrder, SchemaMatches, Made
<1>4. DoneIsDone'
  BY <1>1, <1>3 DEF IInv, DoneIsDone
<1>5. Suffixes'
  BY <1>1 DEF IInv, Suffixes
<1>6. CommitsNext'
  BY <1>1 DEF IInv, CommitsNext, Doing
<1>7. OneCommits'
  BY <1>1 DEF IInv, OneCommits
<1>. QED
  BY <1>2, <1>3, <1>4, <1>5, <1>6, <1>7 DEF IInv

-------------------------------------------------------------------------------
LEMMA InitIInv == Init => IInv
<1>. SUFFICES ASSUME Init PROVE IInv
  OBVIOUS
<1>1. /\ table = FALSE /\ recorded = <<>> /\ objects = {} /\ faults = 0
      /\ run = [r \in Runner |-> [at |-> "off", todo |-> {}]]
  BY DEF Init
<1>2. \A r \in Runner : run[r].at = "off"
  BY <1>1
<1>3. TypeOK
  <2>1. run \in [Runner -> Run]
    BY <1>1 DEF Run
  <2>2. faults \in 0..MaxFaults
    BY <1>1, MigrationsAssumption
  <2>3. recorded \in Seq(File) /\ objects \subseteq Object
    BY <1>1
  <2>4. table \in BOOLEAN
    BY <1>1, Zenon
  <2>. QED
    BY <2>1, <2>2, <2>3, <2>4 DEF TypeOK
<1>4. Recorded = {} /\ OnceInOrder
  BY <1>1 DEF Recorded, OnceInOrder
<1>5. SchemaMatches
  BY <1>1, <1>4 DEF SchemaMatches
<1>. QED
  BY <1>2, <1>3, <1>4, <1>5
     DEF IInv, DoneIsDone, Suffixes, CommitsNext, OneCommits, Working

(* A run that has yet to look, stays where it works, or gives up.                   *)
LEMMA GoKeeps ==
    ASSUME IInv, NEW r \in Runner, NEW at \in {"failed", "create", "read", "insert"},
           at = "insert" => run[r].at \in Working,
           Goto(r, at), UNCHANGED <<recorded, objects>>, faults' \in 0..MaxFaults,
           table' \in BOOLEAN
    PROVE  IInv'
<1>. DEFINE v == [run[r] EXCEPT !.at = at]
<1>1. run[r] \in Run /\ v \in Run /\ v.at = at /\ v.todo = run[r].todo
  BY DEF IInv, TypeOK, Run
<1>2. run' = [run EXCEPT ![r] = v]
  BY DEF Goto
<1>3. v.at \in Working =>
        \E k \in File : k <= Len(recorded) + 1 /\ v.todo = {f \in File : k <= f}
  BY <1>1 DEF IInv, Suffixes, Working
<1>. HIDE DEF v
<1>. QED
  BY <1>1, <1>2, <1>3, StepKept

LEMMA StartKeeps ==
    ASSUME IInv, NEW r \in Runner, Start(r)
    PROVE  IInv'
<1>1. Goto(r, "create") \/ Goto(r, "read")
  BY DEF Start
<1>2. faults' \in 0..MaxFaults /\ table' \in BOOLEAN
  BY DEF Start, IInv, TypeOK
<1>. QED
  BY <1>1, <1>2, GoKeeps DEF Start

LEMMA CreateKeeps ==
    ASSUME IInv, NEW r \in Runner, Create(r)
    PROVE  IInv'
<1>1. Goto(r, "failed") \/ Goto(r, "read")
  BY DEF Create
<1>2. faults' \in 0..MaxFaults /\ table' \in BOOLEAN
  BY DEF Create, IInv, TypeOK
<1>. QED
  BY <1>1, <1>2, GoKeeps DEF Create

LEMMA ReadKeeps ==
    ASSUME IInv, NEW r \in Runner, Read(r)
    PROVE  IInv'
<1>. DEFINE pending == File \ Recorded
            v == [at |-> IF pending = {} THEN "done" ELSE "sql", todo |-> pending]
            n == Len(recorded)
<1>1. run' = [run EXCEPT ![r] = v] /\ UNCHANGED <<recorded, objects>>
  BY DEF Read
<1>2. v \in Run
  BY DEF Run
<1>3. faults' \in 0..MaxFaults /\ table' \in BOOLEAN
  BY DEF Read, IInv, TypeOK
<1>4. n \in 0..6 /\ Recorded = 1..n
  BY InOrder DEF IInv
<1>5. v.at = "done" => Recorded = File
  <2>1. v.at = "done" => pending = {}
    OBVIOUS
  <2>. HIDE DEF n
  <2>2. Recorded \subseteq File
    BY <1>4 DEF File
  <2>. QED
    BY <2>1, <2>2
<1>6. v.at \in Working =>
        \E k \in File : k <= n + 1 /\ v.todo = {f \in File : k <= f}
  <2>. SUFFICES ASSUME pending # {}
                PROVE  \E k \in File : k <= n + 1 /\ pending = {f \in File : k <= f}
    BY DEF Working
  <2>. HIDE DEF n
  <2>1. n + 1 \in File
    BY <1>4 DEF File
  <2>2. pending = {f \in File : n + 1 <= f}
    BY <1>4 DEF File
  <2>. QED
    BY <1>4, <2>1, <2>2
<1>7. v.at # "commit"
  OBVIOUS
<1>. HIDE DEF v, n
<1>. QED
  BY <1>1, <1>2, <1>3, <1>5, <1>6, <1>7, StepKept DEF n

LEMMA SqlKeeps ==
    ASSUME IInv, NEW r \in Runner, NEW f \in File, Sql(r, f)
    PROVE  IInv'
<1>1. faults' \in 0..MaxFaults /\ table' \in BOOLEAN /\ UNCHANGED <<recorded, objects>>
  BY DEF Sql, InTransaction, IInv, TypeOK
<1>2. run[r].at \in Working
  BY DEF Sql, Working
<1>3. Goto(r, "failed") \/ Goto(r, "insert")
  BY DEF Sql, GiveUp
<1>. QED
  BY <1>1, <1>2, <1>3, GoKeeps

LEMMA InsertKeeps ==
    ASSUME IInv, NEW r \in Runner, NEW f \in File, Insert(r, f)
    PROVE  IInv'
<1>1. faults' \in 0..MaxFaults /\ table' \in BOOLEAN /\ UNCHANGED <<recorded, objects>>
  BY DEF Insert, IInv, TypeOK
<1>2. CASE GiveUp(r, f)
  BY <1>1, <1>2, GoKeeps DEF GiveUp
<1>3. CASE f \notin Recorded /\ Goto(r, "commit")
  <2>. DEFINE v == [run[r] EXCEPT !.at = "commit"]
              n == Len(recorded)
  <2>1. run[r] \in Run /\ v \in Run /\ v.at = "commit" /\ v.todo = run[r].todo
    BY DEF IInv, TypeOK, Run
  <2>2. run' = [run EXCEPT ![r] = v]
    BY <1>3 DEF Goto
  <2>3. PICK k \in File : k <= n + 1 /\ run[r].todo = {g \in File : k <= g}
    BY DEF Insert, IInv, Suffixes, Working
  <2>4. n \in 0..6 /\ Recorded = 1..n
    BY InOrder DEF IInv
  <2>5. f \in run[r].todo /\ \A g \in run[r].todo : f <= g
    BY DEF Insert, Doing
  <2>. HIDE DEF v, n
  <2>6. f = k
    BY <2>3, <2>5 DEF File
  <2>7. f = n + 1
    <3>1. f \in Nat /\ f <= n + 1 /\ 1 <= f
      BY <2>3, <2>6 DEF File
    <3>2. ~(f <= n)
      BY <1>3, <2>4, <3>1
    <3>. QED
      BY <2>4, <3>1, <3>2
  <2>8. \A g \in v.todo : (\A h \in v.todo : g <= h) => g = n + 1
    BY <2>1, <2>3, <2>6, <2>7 DEF File
  <2>9. \A o \in Runner \ {r} : run[o].at # "commit"
    <3>. SUFFICES ASSUME NEW o \in Runner \ {r}, run[o].at = "commit" PROVE FALSE
      OBVIOUS
    <3>1. PICK j \in File : j <= n + 1 /\ run[o].todo = {g \in File : j <= g}
      BY DEF IInv, Suffixes, Working, n
    <3>2. Doing(o, j)
      BY <3>1 DEF Doing, File
    <3>3. j = n + 1
      BY <3>2 DEF IInv, CommitsNext, n
    <3>. QED
      BY <2>7, <3>2, <3>3 DEF Insert
  <2>10. \E j \in File : j <= n + 1 /\ v.todo = {g \in File : j <= g}
    BY <2>1, <2>3
  <2>. QED
    BY <1>1, <2>1, <2>2, <2>8, <2>9, <2>10, StepKept DEF n
<1>. QED
  BY <1>2, <1>3 DEF Insert, NameTaken

(* After COMMIT a run goes on with the next file.                                  *)
LEMMA CommitKeeps ==
    ASSUME IInv, NEW r \in Runner, NEW f \in File, Commit(r, f)
    PROVE  IInv'
<1>. DEFINE left == run[r].todo \ {f}
            v == [at |-> IF run[r].todo = {f} THEN "done" ELSE "sql", todo |-> left]
<1>1. run[r].at = "commit" /\ Doing(r, f) /\ Committed(f) /\ run[r] \in Run
  BY DEF Commit, IInv, TypeOK
<1>2. run' = [run EXCEPT ![r] = v]
  BY DEF Commit, Onward
<1>3. v \in Run
  BY <1>1 DEF Run
<1>4. faults' \in 0..MaxFaults /\ table' \in BOOLEAN
  BY DEF Commit, IInv, TypeOK
<1>5. PICK k \in File : run[r].todo = {g \in File : k <= g}
  BY <1>1 DEF IInv, Suffixes, Working
<1>6. f = k
  BY <1>1, <1>5 DEF Doing, File
<1>7. v.at = "done" => f = 6
  <2>1. v.at = "done" => run[r].todo = {f}
    OBVIOUS
  <2>2. 6 \in run[r].todo
    BY <1>5 DEF File
  <2>. QED
    BY <2>1, <2>2
<1>8. v.at = "sql" => \E j \in File : j <= f + 1 /\ v.todo = {g \in File : j <= g}
  <2>. SUFFICES ASSUME run[r].todo # {f}
                PROVE  \E j \in File : j <= f + 1 /\ left = {g \in File : j <= g}
    OBVIOUS
  <2>1. f # 6
    <3>1. f = 6 => run[r].todo = {6}
      BY <1>5, <1>6 DEF File
    <3>. QED
      BY <3>1
  <2>2. f + 1 \in File
    BY <2>1 DEF File
  <2>3. left = {g \in File : f + 1 <= g}
    BY <1>5, <1>6 DEF File
  <2>. QED
    BY <2>2, <2>3 DEF File
<1>9. v.at \in {"done", "sql"}
  OBVIOUS
<1>. HIDE DEF v
<1>. QED
  BY <1>1, <1>2, <1>3, <1>4, <1>7, <1>8, <1>9, OthersKept

LEMMA DieKeeps ==
    ASSUME IInv, NEW r \in Runner, Die(r)
    PROVE  IInv'
<1>1. faults' \in 0..MaxFaults
  BY MigrationsAssumption DEF Die, Fault, IInv, TypeOK
<1>2. table' \in BOOLEAN
  BY Zenon DEF Die, IInv, TypeOK
<1>. QED
  BY <1>1, <1>2, GoKeeps DEF Die

LEMMA BreakKeeps ==
    ASSUME IInv, NEW r \in Runner, NEW f \in File, Break(r, f)
    PROVE  IInv'
<1>1. /\ faults' \in 0..MaxFaults /\ table' \in BOOLEAN
      /\ Goto(r, "failed") /\ Doing(r, f)
  BY MigrationsAssumption DEF Break, Fault, GiveUp, IInv, TypeOK
<1>2. CASE UNCHANGED <<recorded, objects>>
  BY <1>1, <1>2, GoKeeps
<1>3. CASE run[r].at = "commit" /\ Committed(f)
  <2>. DEFINE v == [run[r] EXCEPT !.at = "failed"]
  <2>1. v \in Run /\ v.at = "failed"
    BY DEF IInv, TypeOK, Run
  <2>2. run' = [run EXCEPT ![r] = v]
    BY <1>1 DEF Goto
  <2>. HIDE DEF v
  <2>. QED
    BY <1>1, <1>3, <2>1, <2>2, OthersKept
<1>. QED
  BY <1>2, <1>3 DEF Break

-------------------------------------------------------------------------------
(* The inductive invariant.                                                      *)
THEOREM Inductive == Spec => []IInv
<1>1. IInv /\ [Next]_vars => IInv'
  <2>. SUFFICES ASSUME IInv, [Next]_vars PROVE IInv'
    OBVIOUS
  <2>1. CASE UNCHANGED vars
    BY <2>1 DEF vars, IInv, TypeOK, OnceInOrder, SchemaMatches, DoneIsDone, Suffixes,
                CommitsNext, OneCommits, Recorded, Doing, Made
  <2>2. CASE Next
    <3>1. PICK r \in Runner : Step(r) \/ Die(r) \/ \E f \in File : Break(r, f)
      BY <2>2 DEF Next
    <3>2. CASE Step(r)
      BY <3>2, StartKeeps, CreateKeeps, ReadKeeps, SqlKeeps, InsertKeeps, CommitKeeps DEF Step
    <3>. QED
      BY <3>1, <3>2, DieKeeps, BreakKeeps
  <2>. QED
    BY <2>1, <2>2
<1>. QED
  BY InitIInv, <1>1, PTL DEF Spec

(* The database and the runs keep their types, for any number of runs and faults.      *)
THEOREM TypeCorrect == Spec => []TypeOK
<1>1. IInv => TypeOK
  BY DEF IInv
<1>. QED
  BY Inductive, <1>1, PTL

(* Every file is recorded once, after those before it (migration-runner, 31-35, 53).   *)
THEOREM RunOnceInOrder == Spec => []OnceInOrder
<1>1. IInv => OnceInOrder
  BY DEF IInv
<1>. QED
  BY Inductive, <1>1, PTL

(* What is in the database is what the recorded files make (migration-runner, 65-74).   *)
THEOREM SchemaFits == Spec => []SchemaMatches
<1>1. IInv => SchemaMatches
  BY DEF IInv
<1>. QED
  BY Inductive, <1>1, PTL

(* A run that reports success leaves no file unrecorded (migration-runner, 54-57, 81).  *)
THEOREM SuccessIsTrue == Spec => []DoneIsDone
<1>1. IInv => DoneIsDone
  BY DEF IInv
<1>. QED
  BY Inductive, <1>1, PTL

-------------------------------------------------------------------------------
(* A run fails over a file, with nothing broken, only when another run has recorded  *)
(* the file in the meantime.                                                     *)
FailsBehind ==
    \A r \in Runner, f \in File : run[r].at = "sql" /\ Doing(r, f) /\ Fails(f) => f \in Recorded

LEMMA MadeByEach ==
    /\ Made(1) = {"uuid"} /\ Made(2) = {"devices", "fingerprint"} /\ Made(3) = {"sessions"}
    /\ Made(4) = {"transfer_files"} /\ Made(5) = {"audit_logs"}
BY DEF Made, Script, Sql001, Sql002, Sql003, Sql004, Sql005

(* After the first n files there is what they make, and nothing else.                *)
LEMMA MadeByFirst ==
    ASSUME NEW n \in 0..5, SchemaMatches, Recorded = 1..n
    PROVE  /\ n = 0 => objects = {}
           /\ n = 1 => objects = {"uuid"}
           /\ n = 2 => objects = {"uuid", "devices", "fingerprint"}
           /\ n = 3 => objects = {"uuid", "devices", "fingerprint", "sessions"}
           /\ n = 4 => objects = {"uuid", "devices", "fingerprint", "sessions", "transfer_files"}
           /\ n = 5 => objects = {"uuid", "devices", "fingerprint", "sessions",
                                  "transfer_files", "audit_logs"}
<1>1. objects = UNION {Made(g) : g \in 1..n}
  BY DEF SchemaMatches
<1>2. \A x : x \in objects <=> \E g \in 1..n : x \in Made(g)
  BY <1>1
<1>3. CASE n = 0
  BY <1>2, <1>3
<1>4. CASE n = 1
  BY <1>2, <1>4, MadeByEach
<1>5. CASE n = 2
  BY <1>2, <1>5, MadeByEach
<1>6. CASE n = 3
  BY <1>2, <1>6, MadeByEach
<1>7. CASE n = 4
  BY <1>2, <1>7, MadeByEach
<1>8. CASE n = 5
  BY <1>2, <1>8, MadeByEach
<1>. QED
  BY <1>3, <1>4, <1>5, <1>6, <1>7, <1>8

(* The first file that is not recorded can be run.                                 *)
LEMMA NextApplies ==
    ASSUME IInv, NEW f \in File, f = Len(recorded) + 1
    PROVE  ~Fails(f)
<1> DEFINE n == Len(recorded)
<1>0. TypeOK /\ OnceInOrder /\ SchemaMatches
  BY DEF IInv
<1>1. n \in 0..5 /\ Recorded = 1..n /\ SchemaMatches /\ f = n + 1
  <2>1. n \in 0..6 /\ Recorded = 1..n
    BY <1>0, InOrder
  <2>2. f \in 1..6 /\ f = n + 1
    BY DEF File
  <2>. QED
    BY <1>0, <2>1, <2>2
<1> HIDE DEF n
<1>2. f \in {1, 2, 3, 4, 5, 6}
  BY DEF File
<1>3. CASE n = 0
  <2>1. objects = {} /\ Script[f] = Sql001
    BY <1>1, <1>3, MadeByFirst DEF Script
  <2>. QED
    BY <2>1 DEF Fails, Sql001
<1>4. CASE n = 1
  <2>1. objects = {"uuid"} /\ Script[f] = Sql002
    BY <1>1, <1>4, MadeByFirst DEF Script
  <2>. QED
    BY <2>1 DEF Fails, Sql002
<1>5. CASE n = 2
  <2>1. objects = {"uuid", "devices", "fingerprint"} /\ Script[f] = Sql003
    BY <1>1, <1>5, MadeByFirst DEF Script
  <2>. QED
    BY <2>1 DEF Fails, Sql003
<1>6. CASE n = 3
  <2>1. /\ objects = {"uuid", "devices", "fingerprint", "sessions"}
        /\ Script[f] = Sql004
    BY <1>1, <1>6, MadeByFirst DEF Script
  <2>. QED
    BY <2>1 DEF Fails, Sql004
<1>7. CASE n = 4
  <2>1. /\ objects = {"uuid", "devices", "fingerprint", "sessions", "transfer_files"}
        /\ Script[f] = Sql005
    BY <1>1, <1>7, MadeByFirst DEF Script
  <2>. QED
    BY <2>1 DEF Fails, Sql005
<1>8. CASE n = 5
  <2>1. /\ objects = {"uuid", "devices", "fingerprint", "sessions", "transfer_files",
                      "audit_logs"}
        /\ Script[f] = Sql006
    BY <1>1, <1>8, MadeByFirst DEF Script
  <2>. QED
    BY <2>1 DEF Fails, Sql006
<1>. QED
  BY <1>1, <1>3, <1>4, <1>5, <1>6, <1>7, <1>8

(* However runs overlap, the SQL of a file never fails by itself: a run that meets     *)
(* an error nobody caused has been overtaken, and one that is started again finds     *)
(* the file recorded (migration-runner, 53 and 65-74).                             *)
THEOREM FailsOnlyBehind == Spec => []FailsBehind
<1>1. IInv => FailsBehind
  <2>. SUFFICES ASSUME IInv, NEW r \in Runner, NEW f \in File,
                       run[r].at = "sql", Doing(r, f), f \notin Recorded
                PROVE  ~Fails(f)
    BY DEF FailsBehind
  <2>1. PICK k \in File : k <= Len(recorded) + 1 /\ run[r].todo = {g \in File : k <= g}
    BY DEF IInv, Suffixes, Working
  <2>2. f = k
    <3>1. f \in 1..6 /\ k \in 1..6
      BY DEF File
    <3>2. k <= f /\ f <= k
      BY <2>1, <3>1 DEF Doing
    <3>. QED
      BY <3>1, <3>2
  <2>3. Len(recorded) \in 0..6 /\ Recorded = 1..Len(recorded)
    BY InOrder DEF IInv
  <2>4. f = Len(recorded) + 1
    <3>1. f <= Len(recorded) + 1 /\ f \in 1..6
      BY <2>1, <2>2 DEF File
    <3>2. ~(f <= Len(recorded))
      BY <2>3, <3>1
    <3>. QED
      BY <2>3, <3>1, <3>2
  <2>. QED
    BY <2>4, NextApplies
<1>. QED
  BY Inductive, <1>1, PTL
===============================================================================
