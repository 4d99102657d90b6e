--------------------------------- MODULE SQLTx ---------------------------------
(***************************************************************************)
(* gsql/db.go and gsql/tx.go: one TxContext and the NestedTxContext calls  *)
(* its function makes.  The database is external: a transaction works on a *)
(* copy, a savepoint remembers the copy under the name of a level, and a   *)
(* statement can fail, the savepoint statements too (they are sent with    *)
(* the context of the nested call, which may be over).                     *)
(*                                                                         *)
(* What the functions do is not fixed: a function writes, nests, returns   *)
(* nil or an error, or panics, whatever it got from a nested call.         *)
(***************************************************************************)
EXTENDS Integers, Sequences, FiniteSetsExt

CONSTANTS MaxWrites, \* statements the functions execute, numbered as they come
          MaxNested  \* NestedTxContext calls

VARIABLES committed, \* the writes in the database
          phase,     \* "idle", "open", "done"
          strategy,  \* the nested strategy of the DB or the Tx
          savepoint, \* dialect.SupportsSavepoint()
          work,      \* the writes of the transaction
          saves,     \* the savepoints of the transaction: [level, work]
          frames,    \* the running functions, outermost first: the writes of
                     \* each that its caller has reason to expect
          faulty,    \* history: a ROLLBACK TO or a RELEASE failed
          writes,    \* history: statements so far
          nested     \* history: NestedTxContext calls so far

setup == <<strategy, savepoint>>
count == <<writes, nested>>
txVars == <<committed, phase, setup, work, saves, frames, faulty, count>>

TxInit ==
    /\ committed = {} /\ phase = "idle" /\ work = {} /\ saves = <<>> /\ frames = <<>>
    /\ strategy \in {"savepoint", "reuse", "error", "dialect"}
    /\ savepoint \in BOOLEAN /\ faulty = FALSE /\ writes = 0 /\ nested = 0

effectiveStrategy ==
    IF strategy # "dialect" THEN strategy
    ELSE IF savepoint THEN "savepoint" ELSE "error"

\* TxContext begins, or fails to and nothing happens.
BeginTx ==
    /\ phase = "idle"
    /\ phase' = "open" /\ work' = committed /\ frames' = <<{}>>
    /\ UNCHANGED <<committed, setup, saves, faulty, count>>

\* A function executes a statement, through the innermost Tx.
Exec ==
    /\ phase = "open" /\ writes < MaxWrites /\ writes' = writes + 1
    /\ work' = work \cup {writes'}
    /\ frames' = [frames EXCEPT ![Len(frames)] = @ \cup {writes'}]
    /\ UNCHANGED <<committed, phase, setup, saves, faulty, nested>>

\* NestedTxContext up to the call of the function.  With "error", and when the
\* SAVEPOINT fails, there is no call.
NestedTxContext ==
    /\ phase = "open" /\ nested < MaxNested /\ nested' = nested + 1
    /\ effectiveStrategy # "error"
    /\ frames' = Append(frames, {})
    /\ saves' = IF effectiveStrategy = "reuse" THEN saves
                ELSE Append(saves, [level |-> Len(frames), work |-> work])
    /\ UNCHANGED <<committed, phase, setup, work, faulty, writes>>

\* ROLLBACK TO SAVEPOINT and RELEASE SAVEPOINT of the nested level: the newest
\* savepoint of that name.  Rolling back keeps it, releasing does not.
Named == Max({i \in DOMAIN saves : saves[i].level = Len(frames) - 1})

\* Mutant: RELEASE instead of ROLLBACK TO after an error.
execRollbackTo_Releases == work' = work /\ saves' = SubSeq(saves, 1, Named - 1)

execRollbackTo == work' = saves[Named].work /\ saves' = SubSeq(saves, 1, Named)
execRelease    == work' = work /\ saves' = SubSeq(saves, 1, Named - 1)

\* What the running function wrote itself, and its end: its caller keeps kept of that.
Own == frames[Len(frames)]

Leave(kept) ==
    frames' = [SubSeq(frames, 1, Len(frames) - 1) EXCEPT ![Len(frames) - 1] = @ \cup kept]

\* The nested function returns an error or panics.  The caller gets the error of
\* the function, whether the rollback worked or not.
NestedFails ==
    /\ phase = "open" /\ Len(frames) > 1
    /\ IF effectiveStrategy = "reuse"
       THEN Leave(Own) /\ UNCHANGED <<work, saves, faulty>>
       ELSE /\ Leave({})
            /\ \/ execRollbackTo /\ UNCHANGED faulty
               \/ faulty' = TRUE /\ UNCHANGED <<work, saves>>
    /\ UNCHANGED <<committed, phase, setup, count>>

\* The nested function returns nil.  A RELEASE that fails is an error to the
\* caller, and nothing is rolled back.
NestedReturns ==
    /\ phase = "open" /\ Len(frames) > 1
    /\ \/ effectiveStrategy = "reuse" /\ Leave(Own) /\ UNCHANGED <<work, saves, faulty>>
       \/ effectiveStrategy # "reuse" /\ execRelease /\ Leave(Own) /\ UNCHANGED faulty
       \/ effectiveStrategy # "reuse" /\ Leave({}) /\ faulty' = TRUE /\ UNCHANGED <<work, saves>>
    /\ UNCHANGED <<committed, phase, setup, count>>

\* The outermost function ends: Commit after nil, Rollback after an error or a
\* panic.  frames keeps what the caller of TxContext expects in the database.
\* Mutant: a panic is not told from nil.
Commit_AfterPanic ==
    /\ phase = "open" /\ Len(frames) = 1
    /\ \E returnsNil \in BOOLEAN :
          /\ committed' = work
          /\ frames' = IF returnsNil THEN frames ELSE <<{}>>
    /\ phase' = "done"
    /\ UNCHANGED <<setup, work, saves, faulty, count>>

Commit ==
    /\ phase = "open" /\ Len(frames) = 1
    /\ \E commits \in BOOLEAN :
          /\ committed' = IF commits THEN work ELSE committed
          /\ frames' = IF commits THEN frames ELSE <<{}>>
    /\ phase' = "done"
    /\ UNCHANGED <<setup, work, saves, faulty, count>>

TxNext ==
    BeginTx \/ Exec \/ NestedTxContext \/ NestedFails \/ NestedReturns \/ Commit

-------------------------------------------------------------------------------
\* The database ends up with exactly the writes of the functions that returned
\* nil all the way up, although the levels' savepoint names are used again and
\* again: unless the database refused a ROLLBACK TO or a RELEASE.
CommitsWhatReturned == (phase = "done" /\ ~faulty) => committed = frames[1]

===============================================================================
