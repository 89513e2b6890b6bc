---------------------------- MODULE StrategyStore ----------------------------
(***************************************************************************)
(* The strategy database across process starts: the one transaction that   *)
(* brings an old schema to version 3, the confirmation transaction whose   *)
(* COMMIT may fail in three ways, the wall clock every row is stamped      *)
(* with, and the monitor's reading of the rows it recovers.                *)
(*                                                                         *)
(* SQLite itself is external: a transaction is a private copy of the       *)
(* database that only its connection sees, a crash discards it.            *)
(***************************************************************************)
EXTENDS Naturals, Sequences

CONSTANTS
    Strategies,     \* strategy identities
    MaxTime,        \* last reading of the wall clock
    MaxClockSteps,  \* times the wall clock is set back
    MaxFaults,      \* statements or commits that fail
    MaxCrashes      \* times the process dies

ASSUMPTION StoreAssumption == {MaxTime, MaxClockSteps, MaxFaults, MaxCrashes} \subseteq Nat

VARIABLES
    now,        \* the wall clock
    disk,       \* what is committed
    work,       \* what the connection sees inside a transaction, or NoTransaction
    conn,       \* the connection and the repository built on it
    reading,    \* [strategy -> the row a confirmation in progress read, or NoRow]
    reply,      \* [strategy -> the last answer to its confirmation]
    sent,       \* strategies for which an order reached an exchange
    skipped,    \* readable strategies the last recovery round did not reach
    spent       \* bounded events so far

vars == <<now, disk, work, conn, reading, reply, sent, skipped, spent>>

NoTransaction == [version |-> 4]
NoRow == [state |-> "absent"]
Times == 0 .. MaxTime

\* "ENDED" stands for HEDGED, HEDGE_INCOMPLETE and FAILED.
States == {"PENDING", "INVALIDATED", "EXECUTING", "WAITING", "ENDED"}
Row == [state : States, created : Times, updated : Times] \cup {NoRow}

\* main: the table strategies.  spare: strategies_v2 or strategies_v3 while it is filled.
Database ==
    [version : 0 .. 3, main : BOOLEAN, spare : BOOLEAN, rows : [Strategies -> Row],
     copy : [Strategies -> Row], order : [Strategies -> {"none", "planned", "seen"}],
     evidence : [Strategies -> {"none", "uncertain", "observed"}]]

Connection ==
    [stage : {"closed", "migrating", "committed", "ready"}, foreignKeys : BOOLEAN,
     todo : Seq({"create", "copy", "drop", "rename", "evidence", "v2", "v3"}), poisoned : BOOLEAN]

TypeOK ==
    /\ now \in Times
    /\ disk \in Database
    /\ work \in Database \cup {NoTransaction}
    /\ conn \in Connection
    /\ conn.stage = "ready" /\ ~conn.poisoned => work = NoTransaction
    /\ reading \in [Strategies -> Row]
    /\ reply \in [Strategies -> {"none", "accepted", "invalidated", "kept", "unknown"}]
    /\ sent \subseteq Strategies
    /\ skipped \subseteq Strategies
    /\ spent \in [steps : 0 .. MaxClockSteps, faults : 0 .. MaxFaults, crashes : 0 .. MaxCrashes]

NoRows == [s \in Strategies |-> NoRow]
Closed == [stage |-> "closed", foreignKeys |-> FALSE, todo |-> <<>>, poisoned |-> FALSE]

\* Mutant: the stored snapshots are not looked at.
WithUncertainEvidence(order) ==
    [s \in Strategies |-> IF order[s] = "none" THEN "none" ELSE "uncertain"]

\* ALTER TABLE and UPDATE of the v1 migration: a stored snapshot was observed, all else is open.
WithEvidence(order) ==
    [s \in Strategies |->
        CASE order[s] = "seen" -> "observed" [] order[s] = "planned" -> "uncertain" [] OTHER -> "none"]

\* The generations the program has written: an order exists only once its strategy executes.
Legacy(version, states, orders) ==
    [version |-> version, main |-> version > 0, spare |-> FALSE,
     rows |-> [s \in Strategies |->
        IF states[s] = "absent" THEN NoRow ELSE [state |-> states[s], created |-> 0, updated |-> 0]],
     copy |-> NoRows, order |-> orders,
     evidence |-> IF version < 2 THEN [s \in Strategies |-> "none"] ELSE WithEvidence(orders)]

Init ==
    /\ now = 0
    /\ \E version \in 0 .. 3, states \in [Strategies -> {"absent", "PENDING", "EXECUTING"}],
          orders \in [Strategies -> {"none", "planned", "seen"}] :
            /\ \A s \in Strategies : orders[s] # "none" => states[s] = "EXECUTING"
            /\ version = 0 => states = [s \in Strategies |-> "absent"]
            /\ disk = Legacy(version, states, orders)
            /\ sent = {s \in Strategies : orders[s] # "none"}
    /\ work = NoTransaction
    /\ conn = Closed
    /\ reading = NoRows
    /\ reply = [s \in Strategies |-> "none"]
    /\ skipped = {}
    /\ spent = [steps |-> 0, faults |-> 0, crashes |-> 0]

-----------------------------------------------------------------------------
(* Preparing the schema. *)

ForeignKeysClean(db) == \A s \in Strategies : db.order[s] # "none" => db.rows[s] # NoRow

Whole(db) ==
    /\ db.main = (db.version > 0)
    /\ ~db.spare
    /\ ForeignKeysClean(db)
    /\ IF db.version < 2
       THEN db.evidence = [s \in Strategies |-> "none"]
       ELSE \A s \in Strategies : (db.evidence[s] = "observed") = (db.order[s] = "seen")

Steps(version) ==
    CASE version = 0 -> <<"create", "v3">>
      [] version = 1 -> <<"copy", "drop", "rename", "evidence", "v2", "copy", "drop", "rename", "v3">>
      [] version = 2 -> <<"copy", "drop", "rename", "v3">>

After(step, db) ==
    CASE step = "create" -> [db EXCEPT !.main = TRUE]
      [] step = "copy" -> [db EXCEPT !.spare = TRUE, !.copy = db.rows]
      [] step = "drop" -> [db EXCEPT !.main = FALSE, !.rows = NoRows]
      [] step = "rename" -> [db EXCEPT !.main = TRUE, !.spare = FALSE, !.rows = db.copy, !.copy = NoRows]
      [] step = "evidence" -> [db EXCEPT !.evidence = WithEvidence(db.order)]
      [] step = "v2" -> [db EXCEPT !.version = 2]
      [] step = "v3" -> [db EXCEPT !.version = 3]

\* prepareStrategySchema up to the transaction.  A rebuild runs with foreign keys off.
Open ==
    /\ conn.stage = "closed"
    /\ Whole(disk)
    /\ IF disk.version = 3
       THEN /\ conn' = [Closed EXCEPT !.stage = "ready", !.foreignKeys = TRUE]
            /\ UNCHANGED work
       ELSE /\ conn' = [Closed EXCEPT !.stage = "migrating", !.foreignKeys = disk.version = 0,
                                      !.todo = Steps(disk.version)]
            /\ work' = disk
    /\ UNCHANGED <<now, disk, reading, reply, sent, skipped, spent>>

\* DROP TABLE deletes the rows first: with foreign keys on it fails while an order refers to one.
Droppable == conn.foreignKeys => \A s \in Strategies : work.order[s] = "none"

\* Mutant: the statements run outside a transaction.
RunStatementInPlace ==
    /\ conn.stage = "migrating"
    /\ conn.todo # <<>>
    /\ Head(conn.todo) = "drop" => Droppable
    /\ work' = After(Head(conn.todo), work)
    /\ disk' = work'
    /\ conn' = [conn EXCEPT !.todo = Tail(@)]
    /\ UNCHANGED <<now, reading, reply, sent, skipped, spent>>

RunStatement ==
    /\ conn.stage = "migrating"
    /\ conn.todo # <<>>
    /\ Head(conn.todo) = "drop" => Droppable
    /\ work' = After(Head(conn.todo), work)
    /\ conn' = [conn EXCEPT !.todo = Tail(@)]
    /\ UNCHANGED <<now, disk, reading, reply, sent, skipped, spent>>

CommitMigration ==
    /\ conn.stage = "migrating"
    /\ conn.todo = <<>>
    /\ Whole(work)
    /\ disk' = work
    /\ work' = NoTransaction
    /\ conn' = [conn EXCEPT !.stage = "committed"]
    /\ UNCHANGED <<now, reading, reply, sent, skipped, spent>>

RestoreForeignKeys ==
    /\ conn.stage = "committed"
    /\ Whole(disk)
    /\ conn' = [conn EXCEPT !.stage = "ready", !.foreignKeys = TRUE]
    /\ UNCHANGED <<now, disk, work, reading, reply, sent, skipped, spent>>

\* A statement, the commit or the pragma fails: the transaction is rolled back, the start is
\* abandoned and the database closed.  A failed commit may have reached the disk.
PreparationFails ==
    /\ conn.stage \in {"migrating", "committed"}
    /\ spent.faults < MaxFaults
    /\ spent' = [spent EXCEPT !.faults = @ + 1]
    /\ disk' \in {disk} \cup (IF conn.todo = <<>> /\ work # NoTransaction THEN {work} ELSE {})
    /\ work' = NoTransaction
    /\ conn' = Closed
    /\ UNCHANGED <<now, reading, reply, sent, skipped>>

-----------------------------------------------------------------------------
(* Operations of the repository. *)

View == IF work = NoTransaction THEN disk ELSE work

\* A write commits at once, or joins the transaction that is still open.
Store(db) ==
    IF work = NoTransaction THEN disk' = db /\ UNCHANGED work ELSE work' = db /\ UNCHANGED disk

Usable == conn.stage = "ready" /\ ~conn.poisoned

Readable(row) == row # NoRow /\ row.created <= row.updated

CreatePending(s) ==
    /\ Usable
    /\ View.rows[s] = NoRow
    /\ Store([View EXCEPT !.rows[s] = [state |-> "PENDING", created |-> now, updated |-> now]])
    /\ UNCHANGED <<now, conn, reading, reply, sent, skipped, spent>>

\* readInitialRecord, under the operation lock; the revalidation that follows is awaited.
BeginConfirmation(s) ==
    /\ Usable
    /\ reading[s] = NoRow
    /\ Readable(View.rows[s])
    /\ View.rows[s].state = "PENDING"
    /\ View.order[s] = "none"
    /\ reading' = [reading EXCEPT ![s] = View.rows[s]]
    /\ reply' = [reply EXCEPT ![s] = "none"]
    /\ UNCHANGED <<now, disk, work, conn, sent, skipped, spent>>

AsRead(s, db) == db.rows[s] = reading[s] /\ db.order[s] = "none"

ClockAllows(s) == now >= reading[s].updated

Confirmed(s, target) ==
    [View EXCEPT !.rows[s] = [state |-> target, created |-> reading[s].created, updated |-> now]]

Ends(s, answer) ==
    /\ reading' = [reading EXCEPT ![s] = NoRow]
    /\ reply' = [reply EXCEPT ![s] = answer]

\* writeConfirmation and COMMIT succeed: the strategy executes or is invalidated.
Confirm(s) ==
    /\ Usable
    /\ reading[s] # NoRow
    /\ AsRead(s, View)
    /\ ClockAllows(s)
    /\ \E target \in {"EXECUTING", "INVALIDATED"} :
        /\ Store(Confirmed(s, target))
        /\ Ends(s, IF target = "EXECUTING" THEN "accepted" ELSE "invalidated")
    /\ UNCHANGED <<now, conn, sent, skipped, spent>>

\* The row or the clock refuses: the transaction is rolled back and the record kept.
ConfirmationRefused(s) ==
    /\ Usable
    /\ reading[s] # NoRow
    /\ ~(AsRead(s, View) /\ ClockAllows(s))
    /\ Ends(s, "kept")
    /\ UNCHANGED <<now, disk, work, conn, sent, skipped, spent>>

\* The repository was poisoned by another confirmation while this one was revalidating.
ConfirmationBarred(s) ==
    /\ conn.poisoned
    /\ reading[s] # NoRow
    /\ Ends(s, "unknown")
    /\ UNCHANGED <<now, disk, work, conn, sent, skipped, spent>>

\* What a failed transaction leaves: nothing, the commit after all, or itself, still open.
Leftovers(s) ==
    {<<disk, NoTransaction>>} \cup
    {<<Confirmed(s, target), NoTransaction>> : target \in {"EXECUTING", "INVALIDATED"}} \cup
    {<<disk, Confirmed(s, target)>> : target \in {"EXECUTING", "INVALIDATED"}}

\* Mutant: the rolled back row is not read back.
CertainUnread(s, left) == left[2] = NoTransaction

\* runConfirmationOperation: "kept" only when no transaction is open and the row reads as before.
Certain(s, left) == left[2] = NoTransaction /\ AsRead(s, left[1])

\* Mutant: an outcome that cannot be told does not stop the repository.
PoisonsNothing(s, left) == FALSE

Poisons(s, left) == ~Certain(s, left)

ConfirmationFails(s) ==
    /\ Usable
    /\ reading[s] # NoRow
    /\ AsRead(s, View)
    /\ ClockAllows(s)
    /\ spent.faults < MaxFaults
    /\ spent' = [spent EXCEPT !.faults = @ + 1]
    /\ \E left \in Leftovers(s) :
        /\ disk' = left[1]
        /\ work' = left[2]
        /\ conn' = [conn EXCEPT !.poisoned = Poisons(s, left)]
        /\ Ends(s, IF Certain(s, left) THEN "kept" ELSE "unknown")
    /\ UNCHANGED <<now, sent, skipped>>

\* planOrder, then the submission.
SubmitOrder(s) ==
    /\ Usable
    /\ Readable(View.rows[s])
    /\ View.rows[s].state = "EXECUTING"
    /\ View.order[s] = "none"
    /\ Store([View EXCEPT !.order[s] = "planned", !.evidence[s] = "uncertain"])
    /\ sent' = sent \cup {s}
    /\ UNCHANGED <<now, conn, reading, reply, skipped, spent>>

AttachSnapshot(s) ==
    /\ Usable
    /\ Readable(View.rows[s])
    /\ View.order[s] = "planned"
    /\ Store([View EXCEPT !.order[s] = "seen", !.evidence[s] = "observed"])
    /\ UNCHANGED <<now, conn, reading, reply, sent, skipped, spent>>

\* The reconciliation's write, after it read the row.
Transition(s) ==
    /\ Usable
    /\ Readable(View.rows[s])
    /\ View.order[s] = "seen"
    /\ \E to \in {"WAITING", "ENDED"} :
        /\ View.rows[s].state \in {"EXECUTING", "WAITING"} \ {to}
        /\ Store([View EXCEPT !.rows[s] = [state |-> to, created |-> @.created, updated |-> now]])
    /\ UNCHANGED <<now, conn, reading, reply, sent, skipped, spent>>

\* listRecoverable reads every row before the first strategy is visited.
RecoveryRound ==
    LET recoverable == {s \in Strategies : View.rows[s].state \in {"EXECUTING", "WAITING"}}
        readable == {s \in recoverable : Readable(View.rows[s])} IN
    /\ Usable
    /\ skipped' = IF readable = recoverable THEN {} ELSE readable
    /\ UNCHANGED <<now, disk, work, conn, reading, reply, sent, spent>>

-----------------------------------------------------------------------------
(* The environment. *)

ClockAdvances ==
    /\ now < MaxTime
    /\ now' = now + 1
    /\ UNCHANGED <<disk, work, conn, reading, reply, sent, skipped, spent>>

ClockSetBack ==
    /\ spent.steps < MaxClockSteps
    /\ spent' = [spent EXCEPT !.steps = @ + 1]
    /\ now' \in {t \in Times : t < now}
    /\ UNCHANGED <<disk, work, conn, reading, reply, sent, skipped>>

Crash ==
    /\ conn.stage # "closed"
    /\ spent.crashes < MaxCrashes
    /\ spent' = [spent EXCEPT !.crashes = @ + 1]
    /\ work' = NoTransaction
    /\ conn' = Closed
    /\ reading' = NoRows
    /\ skipped' = {}
    /\ UNCHANGED <<now, disk, reply, sent>>

Next ==
    \/ Open \/ RunStatement \/ CommitMigration \/ RestoreForeignKeys \/ PreparationFails
    \/ \E s \in Strategies :
        \/ CreatePending(s) \/ BeginConfirmation(s) \/ Confirm(s) \/ ConfirmationRefused(s)
        \/ ConfirmationBarred(s) \/ ConfirmationFails(s)
        \/ SubmitOrder(s) \/ AttachSnapshot(s) \/ Transition(s)
    \/ RecoveryRound
    \/ ClockAdvances \/ ClockSetBack \/ Crash

Spec == Init /\ [][Next]_vars

-----------------------------------------------------------------------------
(* Properties. *)

\* What is committed is one complete generation of the schema, wherever the migration stopped;
\* no orphan order, no half filled table.  The next start can always classify it.
DatabaseIsWhole == Whole(disk)

\* A start that changes the schema keeps every strategy and every order, and what is known about
\* each submission: an observed order stays observed, any other v1 order stays uncertain.
MigrationKeepsRecords ==
    [][disk'.version # disk.version =>
        /\ disk'.version = 3
        /\ disk'.rows = disk.rows
        /\ disk'.order = disk.order
        /\ \A s \in Strategies :
            /\ disk.order[s] = "seen" => disk'.evidence[s] = "observed"
            /\ disk.order[s] = "planned" /\ disk.version = 1 => disk'.evidence[s] = "uncertain"
            /\ disk.evidence[s] # "none" => disk'.evidence[s] = disk.evidence[s]]_vars

\* No order reaches an exchange for a strategy whose confirmation a crash could still undo.
SubmittedIsDurable ==
    \A s \in sent : disk.rows[s] # NoRow /\ disk.rows[s].state \in {"EXECUTING", "WAITING", "ENDED"}

\* The answer to a confirmation is true of what is committed, then and after any crash: accepted
\* means executing, invalidated means never executed, kept means the record that was read.
AnswerIsTrue ==
    /\ [](\A s \in Strategies :
            /\ reply[s] = "accepted" => disk.rows[s].state \in {"EXECUTING", "WAITING", "ENDED"}
            /\ reply[s] = "invalidated" => disk.rows[s].state = "INVALIDATED" /\ s \notin sent)
    /\ [][\A s \in Strategies :
            reply'[s] = "kept" /\ reply[s] # "kept" => disk'.rows[s] = reading[s]]_vars

\* A confirmation never commits a row that cannot be read any more.
ConfirmationStaysReadable ==
    [][\A s \in Strategies :
        disk.rows[s] # disk'.rows[s] /\ disk'.rows[s].state \in {"EXECUTING", "INVALIDATED"} =>
            Readable(disk'.rows[s])]_vars

\* The failure of one strategy does not keep the recovery from the others.
RecoveryIsIsolated == skipped = {}
=============================================================================
