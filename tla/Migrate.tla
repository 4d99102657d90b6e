-------------------------------- MODULE Migrate --------------------------------
(***************************************************************************)
(* gsql/migrate.go and migrate_source.go: processes that start at the same *)
(* time each collect the migrations of a directory and run them in one     *)
(* transaction.  The database is external: transactions see what others    *)
(* have committed, and an INSERT of a key that an open transaction has     *)
(* inserted waits for that transaction.                                    *)
(***************************************************************************)
EXTENDS Integers, Sequences, FiniteSets

CONSTANTS Runners,      \* processes that call Migrator.Run
          Directories,  \* the directories of SQL files to choose from
          MaxRuns       \* Run calls

\* A file: its place in the walk of the directory, its name, the name without
\* the suffix _up or _down, the suffix, whether it has text at all, and whether
\* it has text under "-- +gsql Up".
FileKinds == [order : Nat, name : Nat, base : Nat, suffix : {"up", "down", "none"},
              text : BOOLEAN, up : BOOLEAN]

VARIABLES dir, collector, recorder,  \* what the Migrators are made with
          recorded,   \* the ids in the table of the recorder
          applied,    \* history: id -> times its Up is in the database
          runner,     \* runner -> [at, seen, next, ups, ids]
          runs        \* history: Run calls

choice == <<dir, collector, recorder>>
migrateVars == <<choice, recorded, applied, runner, runs>>

-------------------------------------------------------------------------------
\* The collectors: the migrations [id, file] a directory gives.
CommentCollector == {[id |-> f.name, file |-> f.order] : f \in {g \in dir : g.up}}
WholeFileCollector == {[id |-> f.name, file |-> f.order] : f \in {g \in dir : g.text}}

\* Mutant: a base that has a down file is not an up file.
FilenameCollector_Excludes ==
    {[id |-> f.base, file |-> f.order] : f \in {g \in dir : g.suffix = "up"
                 /\ \A h \in dir : h.base = g.base => h.suffix = "up"}}

\* Of files with the same base in several directories the last one walked stays.
FilenameCollector ==
    {[id |-> f.base, file |-> f.order] :
        f \in {g \in dir : g.suffix = "up"
                 /\ \A h \in dir : h.suffix = "up" /\ h.base = g.base => h.order <= g.order}}

collectMigrations ==
    CASE collector = "comment"  -> CommentCollector
      [] collector = "whole"    -> WholeFileCollector
      [] collector = "filename" -> FilenameCollector

\* Run sorts by id; migrations with the same id come in any order, here in that of
\* their files.
Precedes(a, b) == a.id < b.id \/ (a.id = b.id /\ a.file < b.file)
Place(m) == Cardinality({a \in collectMigrations : Precedes(a, m)})
Sorted == [i \in 1..Cardinality(collectMigrations) |->
              CHOOSE m \in collectMigrations : Place(m) = i - 1]

-------------------------------------------------------------------------------
NotRunning == [at |-> "idle", seen |-> {}, next |-> 1, ups |-> {}, ids |-> {}]
Ids == UNION {{f.base, f.name} : f \in UNION Directories}

MigrateInit ==
    /\ dir \in Directories
    /\ collector \in {"comment", "whole", "filename"}
    /\ recorder \in {"db", "log"}
    /\ recorded = {} /\ runs = 0
    /\ applied = [id \in Ids |-> 0]
    /\ runner = [r \in Runners |-> NotRunning]

\* TxContext begins; the recorder makes its table where it is missing.
RunBegins(r) ==
    /\ runner[r].at \in {"idle", "ok", "failed"} /\ runs < MaxRuns /\ runs' = runs + 1
    /\ runner' = [runner EXCEPT ![r] = [NotRunning EXCEPT !.at = "read"]]
    /\ UNCHANGED <<choice, recorded, applied>>

\* GetAppliedMigrations; the LogRecorder knows of none.
GetAppliedMigrations(r) ==
    /\ runner[r].at = "read"
    /\ runner' = [runner EXCEPT ![r].at = "apply",
                                ![r].seen = IF recorder = "db" THEN recorded ELSE {}]
    /\ UNCHANGED <<choice, recorded, applied, runs>>

Current(r) == Sorted[runner[r].next]

Skip(r) ==
    /\ runner[r].at = "apply" /\ runner[r].next <= Len(Sorted)
    /\ Current(r).id \in runner[r].seen
    /\ runner' = [runner EXCEPT ![r].next = @ + 1]
    /\ UNCHANGED <<choice, recorded, applied, runs>>

Up(r) ==
    /\ runner[r].at = "apply" /\ runner[r].next <= Len(Sorted)
    /\ Current(r).id \notin runner[r].seen
    /\ runner' = [runner EXCEPT ![r].at = "record", ![r].ups = @ \cup {Current(r)}]
    /\ UNCHANGED <<choice, recorded, applied, runs>>

\* Mutant: an id that is there already is left alone.
Record_Ignores(r) ==
    /\ runner[r].at = "record"
    /\ runner' = [runner EXCEPT ![r] = [@ EXCEPT !.at = "apply", !.next = @ + 1,
                                                 !.ids = @ \cup {Current(r).id}]]
    /\ UNCHANGED <<choice, recorded, applied, runs>>

\* Record: the DBRecorder inserts the id, which waits for another transaction
\* that holds it and fails when it is in the table.
Record(r) ==
    /\ runner[r].at = "record"
    /\ recorder = "db" => \A o \in Runners \ {r} : Current(r).id \notin runner[o].ids
    /\ runner' = [runner EXCEPT ![r] =
          IF recorder = "db" /\ Current(r).id \in recorded \cup runner[r].ids
          THEN [NotRunning EXCEPT !.at = "failed"]
          ELSE [runner[r] EXCEPT !.at = "apply", !.next = @ + 1, !.ids = @ \cup {Current(r).id}]]
    /\ UNCHANGED <<choice, recorded, applied, runs>>

\* A statement of the transaction fails, or the process dies: all is rolled back.
Fail(r) ==
    /\ runner[r].at \in {"read", "apply", "record"}
    /\ runner' = [runner EXCEPT ![r] = [NotRunning EXCEPT !.at = "failed"]]
    /\ UNCHANGED <<choice, recorded, applied, runs>>

CommitRun(r) ==
    /\ runner[r].at = "apply" /\ runner[r].next > Len(Sorted)
    /\ applied' = [id \in Ids |-> applied[id] + Cardinality({u \in runner[r].ups : u.id = id})]
    /\ recorded' = IF recorder = "db" THEN recorded \cup runner[r].ids ELSE recorded
    /\ runner' = [runner EXCEPT ![r] = [NotRunning EXCEPT !.at = "ok"]]
    /\ UNCHANGED <<choice, runs>>

MigrateNext ==
    \E r \in Runners :
        \/ RunBegins(r) \/ GetAppliedMigrations(r) \/ Skip(r) \/ Up(r)
        \/ Record(r) \/ Fail(r) \/ CommitRun(r)

-------------------------------------------------------------------------------
\* With a DBRecorder no migration is ever in the database twice, however many
\* processes run the migrations, fail and run them again.
AppliedOnce == recorder = "db" => \A id \in Ids : applied[id] <= 1

\* After a Run that succeeded every name that has an up migration has been
\* applied, whichever way the directory marks them, and whoever applied it.
UpIds == CASE collector = "comment"  -> {f.name : f \in {g \in dir : g.up}}
           [] collector = "whole"    -> {f.name : f \in {g \in dir : g.text}}
           [] collector = "filename" -> {f.base : f \in {g \in dir : g.suffix = "up"}}
EveryUpApplied ==
    (\E r \in Runners : runner[r].at = "ok") => \A id \in UpIds : applied[id] >= 1

===============================================================================
