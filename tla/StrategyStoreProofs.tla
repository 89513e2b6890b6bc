------------------------- MODULE StrategyStoreProofs -------------------------
(***************************************************************************)
(* What the strategy database keeps through migrations, failed commits,    *)
(* clock changes and crashes, for any number of strategies and any bounds. *)
(* The migration is followed statement by statement: Midway says what the  *)
(* private copy holds before each one.  Everything else is said of the     *)
(* committed rows, one strategy at a time.                                 *)
(***************************************************************************)
EXTENDS StrategyStore, TLAPS

\* The tables before each statement: the rows are in the main table, in the spare one, or in both.
BeforeCopy(db) == db.main /\ ~db.spare
BeforeDrop(db) == db.main /\ db.spare
BeforeRename(db) == ~db.main /\ db.spare

NothingKnown == [s \in Strategies |-> "none"]

\* An order is observed if it was seen, and one that version 1 had not seen is in doubt.
EvidenceFits(db) ==
    \A s \in Strategies :
        /\ (db.evidence[s] = "observed") = (db.order[s] = "seen")
        /\ disk.version = 1 /\ db.order[s] = "planned" => db.evidence[s] = "uncertain"

\* What is still to do of a migration, and the generation it has reached.
InFirst(todo, db) ==
    /\ disk.version = 0 /\ db.version = 0 /\ db.evidence = NothingKnown /\ ~db.spare
    /\ \/ todo = <<"create", "v3">> /\ ~db.main
       \/ todo = <<"v3">> /\ db.main

InSecond(todo, db) ==
    /\ disk.version = 1 /\ db.version = 1
    /\ \/ /\ todo = <<"copy", "drop", "rename", "evidence", "v2", "copy", "drop", "rename", "v3">>
          /\ BeforeCopy(db) /\ db.evidence = NothingKnown
       \/ /\ todo = <<"drop", "rename", "evidence", "v2", "copy", "drop", "rename", "v3">>
          /\ BeforeDrop(db) /\ db.evidence = NothingKnown
       \/ /\ todo = <<"rename", "evidence", "v2", "copy", "drop", "rename", "v3">>
          /\ BeforeRename(db) /\ db.evidence = NothingKnown
       \/ /\ todo = <<"evidence", "v2", "copy", "drop", "rename", "v3">>
          /\ BeforeCopy(db) /\ db.evidence = NothingKnown
       \/ /\ todo = <<"v2", "copy", "drop", "rename", "v3">>
          /\ BeforeCopy(db) /\ EvidenceFits(db)

InThird(todo, db) ==
    /\ disk.version \in {1, 2} /\ db.version = 2
    /\ EvidenceFits(db)
    /\ \/ todo = <<"copy", "drop", "rename", "v3">> /\ BeforeCopy(db)
       \/ todo = <<"drop", "rename", "v3">> /\ BeforeDrop(db)
       \/ todo = <<"rename", "v3">> /\ BeforeRename(db)
       \/ todo = <<"v3">> /\ BeforeCopy(db)

Done(todo, db) == todo = <<>> /\ db.version = 3 /\ BeforeCopy(db) /\ EvidenceFits(db)

Midway(todo, db) ==
    /\ db \in Database
    /\ db.order = disk.order
    /\ disk.version = 2 => db.evidence = disk.evidence
    /\ db.main \/ disk.version = 0 => db.rows = disk.rows
    /\ db.spare => db.copy = disk.rows
    /\ \/ InFirst(todo, db) \/ InSecond(todo, db) \/ InThird(todo, db) \/ Done(todo, db)

Executed == {"EXECUTING", "WAITING", "ENDED"}

\* What the committed rows say of one strategy.
Sound(s, db) ==
    /\ s \in sent => db.rows[s] # NoRow /\ db.rows[s].state \in Executed
    /\ reading[s] # NoRow =>
        /\ db.rows[s] = reading[s]
        /\ reading[s].state = "PENDING" /\ reading[s].created <= reading[s].updated
    /\ reply[s] = "accepted" => db.rows[s] # NoRow /\ db.rows[s].state \in Executed
    /\ reply[s] = "invalidated" => db.rows[s] # NoRow /\ db.rows[s].state = "INVALIDATED"

StoreInv ==
    /\ TypeOK
    /\ Whole(disk)
    /\ disk.version = 0 => disk.rows = NoRows
    /\ conn.stage = "migrating" => disk.version < 3 /\ Midway(conn.todo, work)
    /\ conn.stage \in {"closed", "committed"} => work = NoTransaction
    /\ conn.stage \in {"committed", "ready"} => disk.version = 3
    /\ \A s \in Strategies : Sound(s, disk)

-----------------------------------------------------------------------------
(* Rows and databases *)

LEMMA NoRowIsNone ==
    ASSUME NEW r \in Row
    PROVE  r # NoRow <=> r \in [state : States, created : Times, updated : Times]
BY DEF Row, NoRow, States

LEMMA NoTransactionIsNone == NoTransaction \notin Database
BY DEF NoTransaction, Database

LEMMA EvidenceFitsAnyOrder ==
    ASSUME NEW order \in [Strategies -> {"none", "planned", "seen"}]
    PROVE  /\ WithEvidence(order) \in [Strategies -> {"none", "uncertain", "observed"}]
           /\ \A s \in Strategies :
                /\ (WithEvidence(order)[s] = "observed") = (order[s] = "seen")
                /\ order[s] = "planned" => WithEvidence(order)[s] = "uncertain"
BY DEF WithEvidence

-----------------------------------------------------------------------------
(* The migration *)

LEMMA MidwayStart ==
    ASSUME disk \in Database, Whole(disk), disk.version # 3
    PROVE  Midway(Steps(disk.version), disk)
<1>1. disk.version \in {0, 1, 2} BY DEF Database
<1>2. CASE disk.version = 0
  <2>1. Steps(disk.version) = <<"create", "v3">> BY <1>2 DEF Steps
  <2> QED BY <1>2, <2>1 DEF Midway, InFirst, Whole, NothingKnown, Database
<1>3. CASE disk.version = 1
  <2>1. Steps(disk.version) =
          <<"copy", "drop", "rename", "evidence", "v2", "copy", "drop", "rename", "v3">>
    BY <1>3 DEF Steps
  <2>2. disk.main /\ ~disk.spare /\ disk.evidence = NothingKnown
    BY <1>3 DEF Whole, NothingKnown, Database
  <2>3. InSecond(Steps(disk.version), disk)
    BY <1>3, <2>1, <2>2 DEF InSecond, BeforeCopy
  <2> QED BY <1>3, <2>2, <2>3 DEF Midway
<1>4. CASE disk.version = 2
  <2>1. Steps(disk.version) = <<"copy", "drop", "rename", "v3">> BY <1>4 DEF Steps
  <2>2. disk.main /\ ~disk.spare /\ EvidenceFits(disk)
    BY <1>4 DEF Whole, EvidenceFits, Database
  <2>3. InThird(Steps(disk.version), disk) BY <1>4, <2>1, <2>2 DEF InThird, BeforeCopy
  <2> QED BY <1>4, <2>2, <2>3 DEF Midway
<1> QED BY <1>1, <1>2, <1>3, <1>4

Untouched(n, db) == n.order = db.order /\ n.evidence = db.evidence /\ n.version = db.version

LEMMA NoRowsAreRows == NoRows \in [Strategies -> Row]
BY DEF NoRows, Row

LEMMA Copied ==
    ASSUME NEW db \in Database, BeforeCopy(db)
    PROVE  LET n == After("copy", db) IN
           /\ n \in Database /\ BeforeDrop(n) /\ Untouched(n, db)
           /\ n.rows = db.rows /\ n.copy = db.rows
<1>1. After("copy", db) = [db EXCEPT !.spare = TRUE, !.copy = db.rows] BY DEF After
<1> QED BY <1>1 DEF BeforeCopy, BeforeDrop, Untouched, Database

LEMMA Dropped ==
    ASSUME NEW db \in Database, BeforeDrop(db)
    PROVE  LET n == After("drop", db) IN
           n \in Database /\ BeforeRename(n) /\ Untouched(n, db) /\ n.copy = db.copy
<1>1. After("drop", db) = [db EXCEPT !.main = FALSE, !.rows = NoRows] BY DEF After
<1> QED BY <1>1, NoRowsAreRows DEF BeforeDrop, BeforeRename, Untouched, Database

LEMMA Renamed ==
    ASSUME NEW db \in Database, BeforeRename(db)
    PROVE  LET n == After("rename", db) IN
           n \in Database /\ BeforeCopy(n) /\ Untouched(n, db) /\ n.rows = db.copy
<1>1. After("rename", db) =
        [db EXCEPT !.main = TRUE, !.spare = FALSE, !.rows = db.copy, !.copy = NoRows]
  BY DEF After
<1> QED BY <1>1, NoRowsAreRows DEF BeforeCopy, BeforeRename, Untouched, Database

LEMMA Versioned ==
    ASSUME NEW db \in Database, NEW step \in {"v2", "v3"}
    PROVE  LET n == After(step, db) IN
           /\ n \in Database /\ n.version = IF step = "v2" THEN 2 ELSE 3
           /\ n.order = db.order /\ n.evidence = db.evidence /\ n.rows = db.rows
           /\ n.main = db.main /\ n.spare = db.spare /\ n.copy = db.copy
<1>1. After("v2", db) = [db EXCEPT !.version = 2] BY DEF After
<1>2. After("v3", db) = [db EXCEPT !.version = 3] BY DEF After
<1> QED BY <1>1, <1>2 DEF Database

\* Seven facts hold before every statement of a rebuild; these are the ones Midway starts with.
Keeps(db) ==
    /\ db \in Database
    /\ db.order = disk.order
    /\ disk.version = 2 => db.evidence = disk.evidence
    /\ db.main \/ disk.version = 0 => db.rows = disk.rows
    /\ db.spare => db.copy = disk.rows

LEMMA MidwayStepFirst ==
    ASSUME disk \in Database, Whole(disk), disk.version = 0 => disk.rows = NoRows,
           NEW todo, NEW db, Keeps(db), InFirst(todo, db)
    PROVE  Midway(Tail(todo), After(Head(todo), db))
<1> DEFINE n == After(Head(todo), db)
<1> SUFFICES Midway(Tail(todo), n) OBVIOUS
<1>0. /\ db \in Database /\ db.order = disk.order /\ disk.version = 0 /\ db.version = 0
      /\ db.rows = disk.rows /\ ~db.spare /\ db.evidence = NothingKnown
  BY DEF Keeps, InFirst
<1>1. CASE todo = <<"create", "v3">>
  <2>1. Tail(todo) = <<"v3">> /\ Head(todo) = "create" BY <1>1
  <2>2. n = [db EXCEPT !.main = TRUE] BY <2>1 DEF After
  <2> HIDE DEF n
  <2>3. n \in Database /\ n.main /\ ~n.spare /\ n.rows = db.rows /\ Untouched(n, db)
    BY <1>0, <2>2 DEF Database, Untouched
  <2>4. InFirst(Tail(todo), n) BY <1>0, <2>1, <2>3 DEF InFirst, Untouched
  <2> QED BY <1>0, <2>3, <2>4 DEF Midway, Untouched
<1>2. CASE todo = <<"v3">>
  <2>1. Tail(todo) = <<>> /\ Head(todo) = "v3" BY <1>2
  <2>2. \A s \in Strategies : disk.order[s] = "none"
    BY <1>0 DEF Whole, ForeignKeysClean, NoRows
  <2>3. EvidenceFits(db) BY <1>0, <2>2 DEF EvidenceFits, NothingKnown
  <2>4. /\ n \in Database /\ n.version = 3 /\ n.order = db.order /\ n.rows = db.rows
        /\ n.evidence = db.evidence /\ n.main = db.main /\ n.spare = db.spare
    BY <1>0, <2>1, Versioned
  <2> HIDE DEF n
  <2>5. db.main BY <1>2 DEF InFirst
  <2>6. Done(Tail(todo), n) BY <1>0, <2>1, <2>3, <2>4, <2>5 DEF Done, BeforeCopy, EvidenceFits
  <2> QED BY <1>0, <2>4, <2>6 DEF Midway
<1> QED BY <1>1, <1>2 DEF InFirst

LEMMA MidwayStepSecond ==
    ASSUME disk \in Database, NEW todo, NEW db, Keeps(db), InSecond(todo, db)
    PROVE  Midway(Tail(todo), After(Head(todo), db))
<1> DEFINE n == After(Head(todo), db)
<1> SUFFICES Midway(Tail(todo), n) OBVIOUS
<1>0. /\ db \in Database /\ db.order = disk.order /\ disk.version = 1 /\ db.version = 1
      /\ db.main => db.rows = disk.rows
      /\ db.spare => db.copy = disk.rows
  BY DEF Keeps, InSecond
<1>1. CASE todo = <<"copy", "drop", "rename", "evidence", "v2", "copy", "drop", "rename", "v3">>
  <2>1. /\ Tail(todo) = <<"drop", "rename", "evidence", "v2", "copy", "drop", "rename", "v3">>
        /\ Head(todo) = "copy"
    BY <1>1
  <2>2. BeforeCopy(db) /\ db.evidence = NothingKnown BY <1>1 DEF InSecond
  <2>3. /\ n \in Database /\ BeforeDrop(n) /\ Untouched(n, db)
        /\ n.rows = db.rows /\ n.copy = db.rows
    BY <1>0, <2>1, <2>2, Copied
  <2> HIDE DEF n
  <2>4. InSecond(Tail(todo), n) BY <1>0, <2>1, <2>2, <2>3 DEF InSecond, Untouched
  <2> QED BY <1>0, <2>2, <2>3, <2>4 DEF Midway, Untouched, BeforeCopy
<1>2. CASE todo = <<"drop", "rename", "evidence", "v2", "copy", "drop", "rename", "v3">>
  <2>1. /\ Tail(todo) = <<"rename", "evidence", "v2", "copy", "drop", "rename", "v3">>
        /\ Head(todo) = "drop"
    BY <1>2
  <2>2. BeforeDrop(db) /\ db.evidence = NothingKnown BY <1>2 DEF InSecond
  <2>3. n \in Database /\ BeforeRename(n) /\ Untouched(n, db) /\ n.copy = db.copy
    BY <1>0, <2>1, <2>2, Dropped
  <2> HIDE DEF n
  <2>4. InSecond(Tail(todo), n) BY <1>0, <2>1, <2>2, <2>3 DEF InSecond, Untouched
  <2> QED BY <1>0, <2>2, <2>3, <2>4 DEF Midway, Untouched, BeforeDrop, BeforeRename
<1>3. CASE todo = <<"rename", "evidence", "v2", "copy", "drop", "rename", "v3">>
  <2>1. /\ Tail(todo) = <<"evidence", "v2", "copy", "drop", "rename", "v3">>
        /\ Head(todo) = "rename"
    BY <1>3
  <2>2. BeforeRename(db) /\ db.evidence = NothingKnown BY <1>3 DEF InSecond
  <2>3. n \in Database /\ BeforeCopy(n) /\ Untouched(n, db) /\ n.rows = db.copy
    BY <1>0, <2>1, <2>2, Renamed
  <2> HIDE DEF n
  <2>4. InSecond(Tail(todo), n) BY <1>0, <2>1, <2>2, <2>3 DEF InSecond, Untouched
  <2> QED BY <1>0, <2>2, <2>3, <2>4 DEF Midway, Untouched, BeforeCopy, BeforeRename
<1>4. CASE todo = <<"evidence", "v2", "copy", "drop", "rename", "v3">>
  <2>1. /\ Tail(todo) = <<"v2", "copy", "drop", "rename", "v3">>
        /\ Head(todo) = "evidence"
    BY <1>4
  <2>2. BeforeCopy(db) BY <1>4 DEF InSecond
  <2>3. n = [db EXCEPT !.evidence = WithEvidence(db.order)] BY <2>1 DEF After
  <2>4. /\ WithEvidence(db.order) \in [Strategies -> {"none", "uncertain", "observed"}]
        /\ \A s \in Strategies :
             /\ (WithEvidence(db.order)[s] = "observed") = (db.order[s] = "seen")
             /\ db.order[s] = "planned" => WithEvidence(db.order)[s] = "uncertain"
    BY <1>0, EvidenceFitsAnyOrder DEF Database
  <2> HIDE DEF n
  <2>5. /\ n \in Database /\ EvidenceFits(n) /\ n.order = db.order /\ n.version = 1
        /\ n.rows = db.rows /\ n.main = db.main /\ n.spare = db.spare /\ n.copy = db.copy
    BY <1>0, <2>3, <2>4 DEF Database, EvidenceFits
  <2>6. InSecond(Tail(todo), n) BY <1>0, <2>1, <2>2, <2>5 DEF InSecond, BeforeCopy
  <2> QED BY <1>0, <2>2, <2>5, <2>6 DEF Midway, BeforeCopy
<1>5. CASE todo = <<"v2", "copy", "drop", "rename", "v3">>
  <2>1. Tail(todo) = <<"copy", "drop", "rename", "v3">> /\ Head(todo) = "v2" BY <1>5
  <2>2. BeforeCopy(db) /\ EvidenceFits(db) BY <1>5 DEF InSecond
  <2>3. /\ n \in Database /\ n.version = 2 /\ n.order = db.order /\ n.rows = db.rows
        /\ n.evidence = db.evidence /\ n.main = db.main /\ n.spare = db.spare
    BY <1>0, <2>1, Versioned
  <2> HIDE DEF n
  <2>4. InThird(Tail(todo), n)
    BY <1>0, <2>1, <2>2, <2>3 DEF InThird, BeforeCopy, EvidenceFits
  <2> QED BY <1>0, <2>2, <2>3, <2>4 DEF Midway, BeforeCopy
<1> QED BY <1>1, <1>2, <1>3, <1>4, <1>5 DEF InSecond

LEMMA MidwayStepThird ==
    ASSUME disk \in Database, NEW todo, NEW db, Keeps(db), InThird(todo, db)
    PROVE  Midway(Tail(todo), After(Head(todo), db))
<1> DEFINE n == After(Head(todo), db)
<1> SUFFICES Midway(Tail(todo), n) OBVIOUS
<1>0. /\ db \in Database /\ db.order = disk.order /\ disk.version \in {1, 2} /\ db.version = 2
      /\ db.main => db.rows = disk.rows
      /\ db.spare => db.copy = disk.rows
      /\ disk.version = 2 => db.evidence = disk.evidence
      /\ EvidenceFits(db)
  BY DEF Keeps, InThird
<1>1. CASE todo = <<"copy", "drop", "rename", "v3">>
  <2>1. Tail(todo) = <<"drop", "rename", "v3">> /\ Head(todo) = "copy" BY <1>1
  <2>2. BeforeCopy(db) BY <1>1 DEF InThird
  <2>3. /\ n \in Database /\ BeforeDrop(n) /\ Untouched(n, db)
        /\ n.rows = db.rows /\ n.copy = db.rows
    BY <1>0, <2>1, <2>2, Copied
  <2> HIDE DEF n
  <2>4. InThird(Tail(todo), n) BY <1>0, <2>1, <2>2, <2>3 DEF InThird, Untouched, EvidenceFits
  <2> QED BY <1>0, <2>2, <2>3, <2>4 DEF Midway, Untouched, BeforeCopy
<1>2. CASE todo = <<"drop", "rename", "v3">>
  <2>1. Tail(todo) = <<"rename", "v3">> /\ Head(todo) = "drop" BY <1>2
  <2>2. BeforeDrop(db) BY <1>2 DEF InThird
  <2>3. n \in Database /\ BeforeRename(n) /\ Untouched(n, db) /\ n.copy = db.copy
    BY <1>0, <2>1, <2>2, Dropped
  <2> HIDE DEF n
  <2>4. InThird(Tail(todo), n) BY <1>0, <2>1, <2>2, <2>3 DEF InThird, Untouched, EvidenceFits
  <2> QED BY <1>0, <2>2, <2>3, <2>4 DEF Midway, Untouched, BeforeDrop, BeforeRename
<1>3. CASE todo = <<"rename", "v3">>
  <2>1. Tail(todo) = <<"v3">> /\ Head(todo) = "rename" BY <1>3
  <2>2. BeforeRename(db) BY <1>3 DEF InThird
  <2>3. n \in Database /\ BeforeCopy(n) /\ Untouched(n, db) /\ n.rows = db.copy
    BY <1>0, <2>1, <2>2, Renamed
  <2> HIDE DEF n
  <2>4. InThird(Tail(todo), n) BY <1>0, <2>1, <2>2, <2>3 DEF InThird, Untouched, EvidenceFits
  <2> QED BY <1>0, <2>2, <2>3, <2>4 DEF Midway, Untouched, BeforeCopy, BeforeRename
<1>4. CASE todo = <<"v3">>
  <2>1. Tail(todo) = <<>> /\ Head(todo) = "v3" BY <1>4
  <2>2. BeforeCopy(db) BY <1>4 DEF InThird
  <2>3. /\ n \in Database /\ n.version = 3 /\ n.order = db.order /\ n.rows = db.rows
        /\ n.evidence = db.evidence /\ n.main = db.main /\ n.spare = db.spare
    BY <1>0, <2>1, Versioned
  <2> HIDE DEF n
  <2>4. Done(Tail(todo), n) BY <1>0, <2>1, <2>2, <2>3 DEF Done, BeforeCopy, EvidenceFits
  <2> QED BY <1>0, <2>2, <2>3, <2>4 DEF Midway, BeforeCopy
<1> QED BY <1>1, <1>2, <1>3, <1>4 DEF InThird

\* One statement leads from one place of the migration to the next.
LEMMA MidwayStep ==
    ASSUME disk \in Database, Whole(disk), disk.version = 0 => disk.rows = NoRows,
           NEW todo, NEW db, Midway(todo, db), todo # <<>>
    PROVE  Midway(Tail(todo), After(Head(todo), db))
<1>1. Keeps(db) BY DEF Midway, Keeps
<1>2. InFirst(todo, db) \/ InSecond(todo, db) \/ InThird(todo, db) BY DEF Midway, Done
<1> QED BY <1>1, <1>2, MidwayStepFirst, MidwayStepSecond, MidwayStepThird

\* At the end the copy is a whole database of version 3 with the rows and orders of the old one.
LEMMA MidwayEnd ==
    ASSUME disk \in Database, Whole(disk), NEW db, Midway(<<>>, db)
    PROVE  /\ Whole(db) /\ db.version = 3 /\ db.rows = disk.rows /\ db.order = disk.order
           /\ disk.version = 2 => db.evidence = disk.evidence
           /\ EvidenceFits(db)
<1>1. Done(<<>>, db) BY DEF Midway, InFirst, InSecond, InThird
<1>2. /\ db.rows = disk.rows /\ db.order = disk.order
      /\ disk.version = 2 => db.evidence = disk.evidence
  BY <1>1 DEF Done, BeforeCopy, Midway
<1>3. /\ db \in Database /\ db.version = 3 /\ db.main /\ ~db.spare
      /\ EvidenceFits(db)
  BY <1>1 DEF Done, BeforeCopy, Midway
<1>4. ForeignKeysClean(db) BY <1>2 DEF Whole, ForeignKeysClean
<1>5. db.main = (db.version > 0)
  <2>1. db.main \in BOOLEAN BY <1>3 DEF Database
  <2>2. db.version > 0 BY <1>3
  <2> QED BY <1>3, <2>1, <2>2, Zenon
<1>6. ~(db.version < 2) BY <1>3
<1>7. Whole(db) BY <1>3, <1>4, <1>5, <1>6, Zenon DEF Whole, EvidenceFits
<1> QED BY <1>2, <1>3, <1>7

-----------------------------------------------------------------------------
(* The start *)

LEMMA InitOrderly == Init => StoreInv
<1> SUFFICES ASSUME Init PROVE StoreInv OBVIOUS
<1>1. PICK version \in 0 .. 3, states \in [Strategies -> {"absent", "PENDING", "EXECUTING"}],
           orders \in [Strategies -> {"none", "planned", "seen"}] :
        /\ \A s \in Strategies : orders[s] # "none" => states[s] = "EXECUTING"
        /\ version = 0 => states = [s \in Strategies |-> "absent"]
        /\ disk = Legacy(version, states, orders)
        /\ sent = {s \in Strategies : orders[s] # "none"}
  BY DEF Init
<1> DEFINE row(s) == IF states[s] = "absent" THEN NoRow
                     ELSE [state |-> states[s], created |-> 0, updated |-> 0]
<1>2. /\ disk.version = version /\ disk.main = (version > 0) /\ disk.spare = FALSE
      /\ disk.rows = [s \in Strategies |-> row(s)] /\ disk.copy = NoRows /\ disk.order = orders
      /\ disk.evidence = IF version < 2 THEN [s \in Strategies |-> "none"] ELSE WithEvidence(orders)
      /\ disk = [version |-> disk.version, main |-> disk.main, spare |-> disk.spare,
                 rows |-> disk.rows, copy |-> disk.copy, order |-> disk.order,
                 evidence |-> disk.evidence]
  BY <1>1 DEF Legacy
<1>3. 0 \in Times BY StoreAssumption DEF Times
<1>4. \A s \in Strategies : row(s) \in Row BY <1>3 DEF Row, States
<1>5. \A s \in Strategies : states[s] = "EXECUTING" => row(s) # NoRow /\ row(s).state = "EXECUTING"
  BY DEF NoRow
<1> HIDE DEF row
<1>6. /\ WithEvidence(orders) \in [Strategies -> {"none", "uncertain", "observed"}]
      /\ \A s \in Strategies : (WithEvidence(orders)[s] = "observed") = (orders[s] = "seen")
  BY EvidenceFitsAnyOrder
<1>7. disk \in Database
  <2>1. disk.evidence \in [Strategies -> {"none", "uncertain", "observed"}] BY <1>2, <1>6
  <2>2. disk.rows \in [Strategies -> Row]
    <3>1. disk.rows = [s \in Strategies |-> row(s)] BY <1>2
    <3>2. [s \in Strategies |-> row(s)] \in [Strategies -> Row] BY <1>4
    <3> QED BY <3>1, <3>2
  <2>3. disk.main \in BOOLEAN /\ disk.spare \in BOOLEAN
    <3>1. disk.main = (version > 0) /\ disk.spare = FALSE BY <1>2, Zenon
    <3>2. CASE version > 0
      <4>1. (version > 0) = TRUE BY <3>2, SMT
      <4>2. disk.main = TRUE BY <3>1, <4>1, Zenon
      <4> QED BY <3>1, <4>2, Zenon
    <3>3. CASE ~(version > 0)
      <4>1. (version > 0) = FALSE BY <3>3, SMT
      <4>2. disk.main = FALSE BY <3>1, <4>1, Zenon
      <4> QED BY <3>1, <4>2, Zenon
    <3> QED BY <3>2, <3>3
  <2>4. disk.version \in 0 .. 3 /\ disk.copy \in [Strategies -> Row] BY <1>2, NoRowsAreRows
  <2>5. disk.order \in [Strategies -> {"none", "planned", "seen"}] BY <1>2
  <2> QED BY <1>2, <2>1, <2>2, <2>3, <2>4, <2>5 DEF Database
<1>8. Whole(disk)
  <2>1. ForeignKeysClean(disk) BY <1>1, <1>2, <1>5 DEF ForeignKeysClean
  <2> QED BY <1>2, <1>6, <2>1 DEF Whole
<1>9. disk.version = 0 => disk.rows = NoRows
  <2>1. version = 0 => \A s \in Strategies : row(s) = NoRow BY <1>1 DEF row
  <2> QED BY <1>2, <2>1 DEF NoRows
<1>10. /\ now = 0 /\ work = NoTransaction /\ conn = Closed /\ reading = NoRows
       /\ reply = [s \in Strategies |-> "none"] /\ skipped = {}
       /\ spent = [steps |-> 0, faults |-> 0, crashes |-> 0]
  BY DEF Init
<1>11. \A s \in Strategies : Sound(s, disk)
  BY <1>1, <1>2, <1>5, <1>10 DEF Sound, NoRows, Executed
<1>12. TypeOK
  BY <1>1, <1>3, <1>7, <1>10, NoRowsAreRows, StoreAssumption DEF TypeOK, Connection, Closed
<1> QED BY <1>7, <1>8, <1>9, <1>10, <1>11, <1>12 DEF StoreInv, Closed

LEMMA StepsTyped ==
    ASSUME NEW version \in 0 .. 2
    PROVE  Steps(version) \in Seq({"create", "copy", "drop", "rename", "evidence", "v2", "v3"})
<1> DEFINE T == {"create", "copy", "drop", "rename", "evidence", "v2", "v3"}
<1>1. CASE version = 0
  <2>1. <<"create", "v3">> \in Seq(T) OBVIOUS
  <2> QED BY <1>1, <2>1 DEF Steps
<1>2. CASE version = 1
  <2>1. <<"copy", "drop", "rename", "evidence", "v2", "copy", "drop", "rename", "v3">> \in Seq(T)
    OBVIOUS
  <2> QED BY <1>2, <2>1 DEF Steps
<1>3. CASE version = 2
  <2>1. <<"copy", "drop", "rename", "v3">> \in Seq(T) OBVIOUS
  <2> QED BY <1>3, <2>1 DEF Steps
<1> QED BY <1>1, <1>2, <1>3

LEMMA OpenKeeps == ASSUME StoreInv, Open PROVE StoreInv'
<1>1. /\ Whole(disk) /\ disk \in Database /\ conn.stage = "closed"
      /\ UNCHANGED <<now, disk, reading, reply, sent, skipped, spent>>
  BY DEF Open, StoreInv, TypeOK
<1>2. \A s \in Strategies : Sound(s, disk)' BY <1>1 DEF StoreInv, Sound
<1>3. CASE disk.version = 3
  <2>1. /\ conn' = [stage |-> "ready", foreignKeys |-> TRUE, todo |-> <<>>, poisoned |-> FALSE]
        /\ work' = work
    BY <1>3 DEF Open, Closed
  <2>2. work = NoTransaction BY <1>1 DEF StoreInv
  <2> QED BY <1>1, <1>2, <1>3, <2>1, <2>2 DEF StoreInv, TypeOK, Connection, Whole
<1>4. CASE disk.version # 3
  <2>1. /\ conn' = [stage |-> "migrating", foreignKeys |-> disk.version = 0,
                    todo |-> Steps(disk.version), poisoned |-> FALSE]
        /\ work' = disk
    BY <1>4 DEF Open, Closed
  <2>2. Midway(Steps(disk.version), disk) BY <1>1, <1>4, MidwayStart
  <2>3. disk.version \in 0 .. 2 BY <1>1, <1>4 DEF Database
  <2>4. conn' \in Connection BY <2>1, <2>3, StepsTyped DEF Connection
  <2>5. TypeOK' BY <1>1, <2>1, <2>4 DEF StoreInv, TypeOK
  <2>6. Midway(conn.todo, work)'
    BY <1>1, <2>1, <2>2 DEF Midway, InFirst, InSecond, InThird, Done, EvidenceFits
  <2> QED BY <1>1, <1>2, <2>1, <2>3, <2>5, <2>6 DEF StoreInv, Whole
<1> QED BY <1>3, <1>4

\* Nothing committed, no reading and no answer changes: what is said of every row still holds.
LEMMA RowsStay ==
    ASSUME StoreInv, UNCHANGED <<disk, reading, reply, sent>>
    PROVE  \A s \in Strategies : Sound(s, disk)'
BY DEF StoreInv, Sound

LEMMA RunStatementKeeps == ASSUME StoreInv, RunStatement PROVE StoreInv'
<1>1. /\ conn.stage = "migrating" /\ conn.todo # <<>> /\ conn \in Connection /\ disk \in Database
      /\ work' = After(Head(conn.todo), work)
      /\ conn' = [conn EXCEPT !.todo = Tail(conn.todo)]
      /\ Midway(conn.todo, work) /\ Whole(disk) /\ (disk.version = 0 => disk.rows = NoRows)
      /\ UNCHANGED <<now, disk, reading, reply, sent, skipped, spent>>
  BY DEF RunStatement, StoreInv, TypeOK
<1>2. Midway(Tail(conn.todo), After(Head(conn.todo), work)) BY <1>1, MidwayStep
<1>3. /\ conn' \in Connection /\ conn'.stage = "migrating" /\ conn'.poisoned = conn.poisoned
      /\ conn'.todo = Tail(conn.todo)
  BY <1>1 DEF Connection
<1>4. Midway(conn.todo, work)'
  BY <1>1, <1>2, <1>3 DEF Midway, InFirst, InSecond, InThird, Done, EvidenceFits
<1>5. work' \in Database BY <1>4 DEF Midway
<1>6. TypeOK' BY <1>1, <1>3, <1>5 DEF StoreInv, TypeOK
<1> QED BY <1>1, <1>3, <1>4, <1>6, RowsStay DEF StoreInv, Whole, ForeignKeysClean

\* Replacing the committed database by the migrated copy.
LEMMA CopyReplaces ==
    ASSUME StoreInv, disk' = work, UNCHANGED <<reading, reply, sent>>,
           Midway(<<>>, work)
    PROVE  /\ disk' \in Database /\ Whole(disk)' /\ disk'.version = 3
           /\ \A s \in Strategies : Sound(s, disk)'
<1>1. Whole(work) /\ work.version = 3 /\ work.rows = disk.rows /\ work.order = disk.order
  BY MidwayEnd DEF StoreInv, TypeOK
<1>2. work \in Database BY DEF Midway
<1> QED BY <1>1, <1>2 DEF StoreInv, Sound, Whole, ForeignKeysClean

LEMMA CommitMigrationKeeps == ASSUME StoreInv, CommitMigration PROVE StoreInv'
<1>1. /\ conn.stage = "migrating" /\ conn \in Connection
      /\ disk' = work /\ work' = NoTransaction
      /\ conn' = [conn EXCEPT !.stage = "committed"]
      /\ Midway(<<>>, work)
      /\ UNCHANGED <<now, reading, reply, sent, skipped, spent>>
  BY DEF CommitMigration, StoreInv, TypeOK
<1>2. /\ disk' \in Database /\ Whole(disk)' /\ disk'.version = 3
      /\ \A s \in Strategies : Sound(s, disk)'
  BY <1>1, CopyReplaces
<1>3. conn' \in Connection /\ conn'.stage = "committed" BY <1>1 DEF Connection
<1>4. TypeOK' BY <1>1, <1>2, <1>3 DEF StoreInv, TypeOK
<1> QED BY <1>1, <1>2, <1>3, <1>4 DEF StoreInv

LEMMA RestoreForeignKeysKeeps == ASSUME StoreInv, RestoreForeignKeys PROVE StoreInv'
<1>1. /\ conn.stage = "committed" /\ conn \in Connection
      /\ conn' = [conn EXCEPT !.stage = "ready", !.foreignKeys = TRUE]
      /\ work = NoTransaction /\ disk.version = 3
      /\ UNCHANGED <<now, disk, work, reading, reply, sent, skipped, spent>>
  BY DEF RestoreForeignKeys, StoreInv, TypeOK
<1>2. conn' \in Connection /\ conn'.stage = "ready" BY <1>1 DEF Connection
<1>3. TypeOK' BY <1>1, <1>2 DEF StoreInv, TypeOK
<1> QED BY <1>1, <1>2, <1>3, RowsStay DEF StoreInv, Whole, ForeignKeysClean

LEMMA ClosedTyped == Closed \in Connection
BY DEF Closed, Connection

LEMMA PreparationFailsKeeps == ASSUME StoreInv, PreparationFails PROVE StoreInv'
<1>1. /\ conn.stage \in {"migrating", "committed"} /\ spent.faults < MaxFaults
      /\ spent' = [spent EXCEPT !.faults = @ + 1]
      /\ disk' \in {disk} \cup (IF conn.todo = <<>> /\ work # NoTransaction THEN {work} ELSE {})
      /\ work' = NoTransaction /\ conn' = Closed
      /\ UNCHANGED <<now, reading, reply, sent, skipped>>
  BY DEF PreparationFails
<1>2. spent' \in [steps : 0 .. MaxClockSteps, faults : 0 .. MaxFaults, crashes : 0 .. MaxCrashes]
  BY <1>1, StoreAssumption DEF StoreInv, TypeOK
<1>3. conn'.stage = "closed" /\ conn' \in Connection BY <1>1, ClosedTyped DEF Closed
<1>4. CASE disk' = disk
  <2>1. TypeOK' BY <1>1, <1>2, <1>3, <1>4 DEF StoreInv, TypeOK
  <2> QED BY <1>1, <1>3, <1>4, <2>1, RowsStay DEF StoreInv, Whole, ForeignKeysClean
<1>5. CASE disk' = work /\ conn.todo = <<>> /\ work # NoTransaction
  <2>1. Midway(<<>>, work) BY <1>1, <1>5 DEF StoreInv
  <2>2. /\ disk' \in Database /\ Whole(disk)' /\ disk'.version = 3
        /\ \A s \in Strategies : Sound(s, disk)'
    BY <1>1, <1>5, <2>1, CopyReplaces
  <2>3. TypeOK' BY <1>1, <1>2, <1>3, <2>2 DEF StoreInv, TypeOK
  <2> QED BY <1>1, <1>3, <2>2, <2>3 DEF StoreInv
<1>6. disk' = disk \/ (disk' = work /\ conn.todo = <<>> /\ work # NoTransaction)
  BY <1>1
<1> QED BY <1>4, <1>5, <1>6

-----------------------------------------------------------------------------
(* The operations of the repository *)

\* db is the committed database but for what it holds of s, which is present and consistent.
Changes(db, s) ==
    /\ db \in Database
    /\ db.version = disk.version /\ db.main = disk.main /\ db.spare = disk.spare
    /\ \A t \in Strategies \ {s} :
        db.rows[t] = disk.rows[t] /\ db.order[t] = disk.order[t] /\ db.evidence[t] = disk.evidence[t]
    /\ db.rows[s] # NoRow
    /\ (db.evidence[s] = "observed") = (db.order[s] = "seen")

LEMMA UsableView ==
    ASSUME StoreInv, Usable
    PROVE  /\ work = NoTransaction /\ View = disk /\ disk \in Database /\ conn.stage = "ready"
           /\ disk.version = 3 /\ disk.main /\ ~disk.spare
           /\ \A s \in Strategies : (disk.evidence[s] = "observed") = (disk.order[s] = "seen")
<1>1. conn.stage = "ready" /\ ~conn.poisoned BY DEF Usable
<1>2. work = NoTransaction /\ disk \in Database /\ disk.version = 3 /\ Whole(disk)
  BY <1>1 DEF StoreInv, TypeOK
<1>3. disk.main /\ ~disk.spare
  <2>1. disk.version > 0 BY <1>2
  <2> QED BY <1>2, <2>1, Zenon DEF Whole
<1>4. \A s \in Strategies : (disk.evidence[s] = "observed") = (disk.order[s] = "seen")
  <2>1. ~(disk.version < 2) BY <1>2
  <2> QED BY <1>2, <2>1, Zenon DEF Whole
<1> QED BY <1>1, <1>2, <1>3, <1>4 DEF View

LEMMA ChangesWhole ==
    ASSUME StoreInv, conn.stage = "ready", NEW s \in Strategies, NEW db, Changes(db, s)
    PROVE  Whole(db) /\ db.version = 3
<1>1. Whole(disk) /\ disk.version = 3 /\ disk \in Database BY DEF StoreInv, TypeOK
<1>2. db.version = 3 /\ ~(db.version < 2) BY <1>1 DEF Changes
<1>3. ForeignKeysClean(db) BY <1>1 DEF Changes, Whole, ForeignKeysClean
<1>4. db.main = (db.version > 0) /\ ~db.spare BY <1>1 DEF Changes, Whole
<1>5. \A t \in Strategies : (db.evidence[t] = "observed") = (db.order[t] = "seen")
  <2>1. ~(disk.version < 2) BY <1>1
  <2>2. \A t \in Strategies : (disk.evidence[t] = "observed") = (disk.order[t] = "seen")
    BY <1>1, <2>1, Zenon DEF Whole
  <2> QED BY <2>2 DEF Changes
<1> QED BY <1>2, <1>3, <1>4, <1>5, Zenon DEF Whole

\* A committed write about one strategy leaves all others as they were.
LEMMA WriteKeeps ==
    ASSUME StoreInv, Usable, NEW s \in Strategies, NEW db, Changes(db, s), Store(db),
           UNCHANGED <<now, conn, skipped, spent>>,
           reading' \in [Strategies -> Row], sent' \subseteq Strategies,
           reply' \in [Strategies -> {"none", "accepted", "invalidated", "kept", "unknown"}],
           \A t \in Strategies \ {s} :
               reading'[t] = reading[t] /\ reply'[t] = reply[t] /\ (t \in sent' <=> t \in sent),
           Sound(s, disk)'
    PROVE  StoreInv'
<1>1. /\ disk' = db /\ work' = NoTransaction /\ work = NoTransaction /\ conn.stage = "ready"
  BY UsableView DEF Store
<1>2. Whole(db) /\ db.version = 3 /\ db \in Database BY <1>1, ChangesWhole DEF Changes
<1>3. \A t \in Strategies : Sound(t, disk)'
  <2> SUFFICES ASSUME NEW t \in Strategies \ {s} PROVE Sound(t, disk)' OBVIOUS
  <2>1. disk'.rows[t] = disk.rows[t] BY <1>1 DEF Changes
  <2>2. Sound(t, disk) BY DEF StoreInv
  <2> QED BY <2>1, <2>2 DEF Sound
<1>4. TypeOK' BY <1>1, <1>2 DEF StoreInv, TypeOK
<1> QED BY <1>1, <1>2, <1>3, <1>4 DEF StoreInv, Whole, ForeignKeysClean

LEMMA CreatePendingKeeps ==
    ASSUME StoreInv, NEW s \in Strategies, CreatePending(s)
    PROVE  StoreInv'
<1> DEFINE r == [state |-> "PENDING", created |-> now, updated |-> now]
           db == [disk EXCEPT !.rows[s] = r]
<1>1. /\ Usable /\ disk.rows[s] = NoRow /\ Store(db)
      /\ UNCHANGED <<now, conn, reading, reply, sent, skipped, spent>>
  BY UsableView DEF CreatePending
<1>2. r \in Row /\ r # NoRow BY DEF StoreInv, TypeOK, Row, States, NoRow
<1> HIDE DEF r
<1>3. /\ db \in Database /\ db.rows[s] = r
      /\ db.version = disk.version /\ db.main = disk.main /\ db.spare = disk.spare
      /\ db.order = disk.order /\ db.evidence = disk.evidence
      /\ \A t \in Strategies \ {s} : db.rows[t] = disk.rows[t]
  BY <1>1, <1>2, UsableView DEF Database
<1> HIDE DEF db
<1>4. Changes(db, s) BY <1>1, <1>2, <1>3, UsableView DEF Changes
<1>5. disk' = db BY <1>1, UsableView DEF Store
<1>6. Sound(s, disk) BY DEF StoreInv
<1>7. reading[s] = NoRow /\ s \notin sent /\ reply[s] \notin {"accepted", "invalidated"}
  BY <1>1, <1>6 DEF Sound
<1>8. Sound(s, disk)' BY <1>1, <1>7 DEF Sound
<1> QED BY <1>1, <1>4, <1>8, WriteKeeps DEF StoreInv, TypeOK

LEMMA BeginConfirmationKeeps ==
    ASSUME StoreInv, NEW s \in Strategies, BeginConfirmation(s)
    PROVE  StoreInv'
<1>1. /\ Usable /\ Readable(disk.rows[s]) /\ disk.rows[s].state = "PENDING"
      /\ reading' = [reading EXCEPT ![s] = disk.rows[s]]
      /\ reply' = [reply EXCEPT ![s] = "none"]
      /\ UNCHANGED <<now, disk, work, conn, sent, skipped, spent>>
  BY UsableView DEF BeginConfirmation
<1>2. disk \in Database /\ reading \in [Strategies -> Row] BY DEF StoreInv, TypeOK, Usable
<1>3. disk.rows[s] \in Row BY <1>2 DEF Database
<1>4. TypeOK' BY <1>1, <1>3 DEF StoreInv, TypeOK
<1>5. \A t \in Strategies : Sound(t, disk)'
  <2> SUFFICES ASSUME NEW t \in Strategies PROVE Sound(t, disk)' OBVIOUS
  <2>1. Sound(t, disk) BY DEF StoreInv
  <2>2. CASE t = s
    BY <1>1, <1>2, <2>1, <2>2 DEF Sound, Readable, StoreInv, TypeOK
  <2>3. CASE t # s
    <3>1. reading'[t] = reading[t] /\ reply'[t] = reply[t] BY <1>1, <2>3 DEF StoreInv, TypeOK
    <3> QED BY <1>1, <2>1, <3>1 DEF Sound
  <2> QED BY <2>2, <2>3
<1> QED BY <1>1, <1>4, <1>5 DEF StoreInv, Usable, Whole, ForeignKeysClean

LEMMA ConfirmedChanges ==
    ASSUME StoreInv, Usable, NEW s \in Strategies, reading[s] # NoRow, AsRead(s, disk),
           NEW target \in {"EXECUTING", "INVALIDATED"}
    PROVE  LET db == Confirmed(s, target) IN
           /\ Changes(db, s)
           /\ db.rows[s] = [state |-> target, created |-> reading[s].created, updated |-> now]
<1> DEFINE r == [state |-> target, created |-> reading[s].created, updated |-> now]
           db == [disk EXCEPT !.rows[s] = r]
<1>1. Confirmed(s, target) = db BY UsableView DEF Confirmed
<1>2. reading[s] \in [state : States, created : Times, updated : Times]
  BY NoRowIsNone DEF StoreInv, TypeOK
<1>3. r \in Row /\ r # NoRow BY <1>2 DEF StoreInv, TypeOK, Row, States, NoRow
<1> HIDE DEF r
<1>4. /\ db \in Database /\ db.rows[s] = r
      /\ db.version = disk.version /\ db.main = disk.main /\ db.spare = disk.spare
      /\ db.order = disk.order /\ db.evidence = disk.evidence
      /\ \A t \in Strategies \ {s} : db.rows[t] = disk.rows[t]
  BY <1>3, UsableView DEF Database
<1> HIDE DEF db
<1>5. Changes(db, s) BY <1>3, <1>4, UsableView DEF Changes
<1> QED BY <1>1, <1>4, <1>5 DEF r

\* The end of a confirmation: only what is remembered of s changes.
LEMMA EndsOne ==
    ASSUME StoreInv, NEW s \in Strategies,
           NEW answer \in {"none", "accepted", "invalidated", "kept", "unknown"}, Ends(s, answer)
    PROVE  /\ reading' \in [Strategies -> Row] /\ reading'[s] = NoRow /\ reply'[s] = answer
           /\ reply' \in [Strategies -> {"none", "accepted", "invalidated", "kept", "unknown"}]
           /\ \A t \in Strategies \ {s} : reading'[t] = reading[t] /\ reply'[t] = reply[t]
<1>1. NoRow \in Row BY DEF Row
<1> QED BY <1>1 DEF Ends, StoreInv, TypeOK

LEMMA ConfirmKeeps ==
    ASSUME StoreInv, NEW s \in Strategies, Confirm(s)
    PROVE  StoreInv'
<1>1. PICK target \in {"EXECUTING", "INVALIDATED"} :
        /\ Store(Confirmed(s, target))
        /\ Ends(s, IF target = "EXECUTING" THEN "accepted" ELSE "invalidated")
  BY DEF Confirm
<1> DEFINE db == Confirmed(s, target)
           answer == IF target = "EXECUTING" THEN "accepted" ELSE "invalidated"
<1>2. /\ Usable /\ reading[s] # NoRow /\ AsRead(s, disk)
      /\ UNCHANGED <<now, conn, sent, skipped, spent>>
  BY UsableView DEF Confirm
<1>3. /\ Changes(db, s)
      /\ db.rows[s] = [state |-> target, created |-> reading[s].created, updated |-> now]
  BY <1>2, ConfirmedChanges
<1> HIDE DEF db
<1>4. disk' = db BY <1>1, <1>2, UsableView DEF Store, db
<1>5. /\ reading' \in [Strategies -> Row] /\ reading'[s] = NoRow /\ reply'[s] = answer
      /\ reply' \in [Strategies -> {"none", "accepted", "invalidated", "kept", "unknown"}]
      /\ \A t \in Strategies \ {s} : reading'[t] = reading[t] /\ reply'[t] = reply[t]
  BY <1>1, EndsOne
<1>6. s \notin sent BY <1>2 DEF StoreInv, Sound, Executed
<1>7. db.rows[s] # NoRow /\ db.rows[s].state = target BY <1>3 DEF Changes
<1>8. Sound(s, disk)' BY <1>2, <1>4, <1>5, <1>6, <1>7 DEF Sound, Executed
<1>9. Store(db) BY <1>1 DEF db
<1> QED BY <1>2, <1>3, <1>5, <1>8, <1>9, WriteKeeps DEF StoreInv, TypeOK

\* An end that writes nothing: the record was kept, or nobody knows.
LEMMA EndKeeps ==
    ASSUME StoreInv, NEW s \in Strategies, NEW answer \in {"kept", "unknown"}, Ends(s, answer),
           UNCHANGED <<now, disk, work, conn, sent, skipped, spent>>
    PROVE  StoreInv'
<1>1. /\ reading' \in [Strategies -> Row] /\ reading'[s] = NoRow /\ reply'[s] = answer
      /\ reply' \in [Strategies -> {"none", "accepted", "invalidated", "kept", "unknown"}]
      /\ \A t \in Strategies \ {s} : reading'[t] = reading[t] /\ reply'[t] = reply[t]
  BY EndsOne
<1>2. \A t \in Strategies : Sound(t, disk)'
  <2> SUFFICES ASSUME NEW t \in Strategies PROVE Sound(t, disk)' OBVIOUS
  <2>1. Sound(t, disk) BY DEF StoreInv
  <2> QED BY <1>1, <2>1 DEF Sound
<1>3. TypeOK' BY <1>1 DEF StoreInv, TypeOK
<1>4. conn.stage = "migrating" => Midway(conn.todo, work)'
  BY DEF StoreInv, Midway, InFirst, InSecond, InThird, Done, EvidenceFits
<1> QED BY <1>2, <1>3, <1>4 DEF StoreInv, Whole, ForeignKeysClean

LEMMA ConfirmationRefusedKeeps ==
    ASSUME StoreInv, NEW s \in Strategies, ConfirmationRefused(s)
    PROVE  StoreInv'
BY EndKeeps DEF ConfirmationRefused

LEMMA ConfirmationBarredKeeps ==
    ASSUME StoreInv, NEW s \in Strategies, ConfirmationBarred(s)
    PROVE  StoreInv'
BY EndKeeps DEF ConfirmationBarred

LEMMA ConfirmationFailsKeeps ==
    ASSUME StoreInv, NEW s \in Strategies, ConfirmationFails(s)
    PROVE  StoreInv'
<1>1. PICK left \in Leftovers(s) :
        /\ disk' = left[1]
        /\ work' = left[2]
        /\ conn' = [conn EXCEPT !.poisoned = Poisons(s, left)]
        /\ Ends(s, IF Certain(s, left) THEN "kept" ELSE "unknown")
  BY DEF ConfirmationFails
<1>2. /\ Usable /\ reading[s] # NoRow /\ AsRead(s, disk)
      /\ spent.faults < MaxFaults /\ spent' = [spent EXCEPT !.faults = @ + 1]
      /\ UNCHANGED <<now, sent, skipped>>
  BY UsableView DEF ConfirmationFails
<1>3. PICK answer \in {"kept", "unknown"} : Ends(s, answer) BY <1>1
<1>4. /\ reading' \in [Strategies -> Row] /\ reading'[s] = NoRow /\ reply'[s] = answer
      /\ reply' \in [Strategies -> {"none", "accepted", "invalidated", "kept", "unknown"}]
      /\ \A t \in Strategies \ {s} : reading'[t] = reading[t] /\ reply'[t] = reply[t]
  BY <1>3, EndsOne
<1>5. spent' \in [steps : 0 .. MaxClockSteps, faults : 0 .. MaxFaults, crashes : 0 .. MaxCrashes]
  BY <1>2, StoreAssumption DEF StoreInv, TypeOK
<1>6. /\ work = NoTransaction /\ disk \in Database /\ conn.stage = "ready" /\ disk.version = 3
      /\ conn \in Connection
  BY <1>2, UsableView DEF StoreInv, TypeOK
<1>7. \A target \in {"EXECUTING", "INVALIDATED"} :
        /\ Changes(Confirmed(s, target), s)
        /\ Confirmed(s, target) \in Database
        /\ Whole(Confirmed(s, target)) /\ Confirmed(s, target).version = 3
  BY <1>2, <1>6, ConfirmedChanges, ChangesWhole DEF Changes
<1>8. \/ disk' = disk /\ work' = NoTransaction
      \/ \E target \in {"EXECUTING", "INVALIDATED"} :
            disk' = Confirmed(s, target) /\ work' = NoTransaction
      \/ \E target \in {"EXECUTING", "INVALIDATED"} :
            disk' = disk /\ work' = Confirmed(s, target) /\ left[2] # NoTransaction
  BY <1>1, <1>7, NoTransactionIsNone DEF Leftovers
<1>9. Poisons(s, left) \in BOOLEAN BY DEF Poisons
<1>10. /\ conn' \in Connection /\ conn'.stage = "ready"
       /\ left[2] # NoTransaction => conn'.poisoned
  BY <1>1, <1>6, <1>9 DEF Connection, Poisons, Certain
<1>11. disk' \in Database /\ Whole(disk)' /\ disk'.version = 3
  BY <1>6, <1>7, <1>8 DEF StoreInv, Whole, ForeignKeysClean
<1>12. work' \in Database \cup {NoTransaction} /\ (~conn'.poisoned => work' = NoTransaction)
  BY <1>7, <1>8, <1>10
<1>13. TypeOK' BY <1>2, <1>4, <1>5, <1>10, <1>11, <1>12 DEF StoreInv, TypeOK
<1>14. \A t \in Strategies : Sound(t, disk)'
  <2>1. s \notin sent BY <1>2 DEF StoreInv, Sound, Executed
  <2>2. Sound(s, disk)' BY <1>2, <1>4, <2>1 DEF Sound
  <2> SUFFICES ASSUME NEW t \in Strategies \ {s} PROVE Sound(t, disk)' BY <2>2
  <2>3. disk'.rows[t] = disk.rows[t] BY <1>7, <1>8 DEF Changes
  <2>4. Sound(t, disk) BY DEF StoreInv
  <2> QED BY <1>2, <1>4, <2>3, <2>4 DEF Sound
<1> QED BY <1>10, <1>11, <1>13, <1>14 DEF StoreInv

LEMMA SubmitOrderKeeps ==
    ASSUME StoreInv, NEW s \in Strategies, SubmitOrder(s)
    PROVE  StoreInv'
<1> DEFINE db == [disk EXCEPT !.order[s] = "planned", !.evidence[s] = "uncertain"]
<1>1. /\ Usable /\ Readable(disk.rows[s]) /\ disk.rows[s].state = "EXECUTING" /\ Store(db)
      /\ sent' = sent \cup {s}
      /\ UNCHANGED <<now, conn, reading, reply, skipped, spent>>
  BY UsableView DEF SubmitOrder
<1>2. /\ db \in Database /\ db.rows = disk.rows
      /\ db.order[s] = "planned" /\ db.evidence[s] = "uncertain"
      /\ db.version = disk.version /\ db.main = disk.main /\ db.spare = disk.spare
      /\ \A t \in Strategies \ {s} :
            db.order[t] = disk.order[t] /\ db.evidence[t] = disk.evidence[t]
  BY <1>1, UsableView DEF Database
<1> HIDE DEF db
<1>3. Changes(db, s) BY <1>1, <1>2 DEF Changes, Readable
<1>4. disk' = db BY <1>1, UsableView DEF Store
<1>5. Sound(s, disk) BY DEF StoreInv
<1>6. Sound(s, disk)' BY <1>1, <1>2, <1>4, <1>5 DEF Sound, Executed, Readable
<1> QED BY <1>1, <1>3, <1>6, WriteKeeps DEF StoreInv, TypeOK

LEMMA AttachSnapshotKeeps ==
    ASSUME StoreInv, NEW s \in Strategies, AttachSnapshot(s)
    PROVE  StoreInv'
<1> DEFINE db == [disk EXCEPT !.order[s] = "seen", !.evidence[s] = "observed"]
<1>1. /\ Usable /\ Readable(disk.rows[s]) /\ Store(db)
      /\ UNCHANGED <<now, conn, reading, reply, sent, skipped, spent>>
  BY UsableView DEF AttachSnapshot
<1>2. /\ db \in Database /\ db.rows = disk.rows
      /\ db.order[s] = "seen" /\ db.evidence[s] = "observed"
      /\ db.version = disk.version /\ db.main = disk.main /\ db.spare = disk.spare
      /\ \A t \in Strategies \ {s} :
            db.order[t] = disk.order[t] /\ db.evidence[t] = disk.evidence[t]
  BY <1>1, UsableView DEF Database
<1> HIDE DEF db
<1>3. Changes(db, s) BY <1>1, <1>2 DEF Changes, Readable
<1>4. disk' = db BY <1>1, UsableView DEF Store
<1>5. Sound(s, disk)' BY <1>1, <1>2, <1>4 DEF Sound, StoreInv
<1> QED BY <1>1, <1>3, <1>5, WriteKeeps DEF StoreInv, TypeOK

LEMMA TransitionKeeps ==
    ASSUME StoreInv, NEW s \in Strategies, Transition(s)
    PROVE  StoreInv'
<1>1. PICK to \in {"WAITING", "ENDED"} :
        /\ View.rows[s].state \in {"EXECUTING", "WAITING"} \ {to}
        /\ Store([View EXCEPT !.rows[s] = [state |-> to, created |-> @.created, updated |-> now]])
  BY DEF Transition
<1> DEFINE old == disk.rows[s]
           r == [state |-> to, created |-> old.created, updated |-> now]
           db == [disk EXCEPT !.rows[s] = r]
<1>2. /\ Usable /\ Readable(old) /\ old.state \in {"EXECUTING", "WAITING"}
      /\ UNCHANGED <<now, conn, reading, reply, sent, skipped, spent>>
  BY <1>1, UsableView DEF Transition
<1>3. disk \in Database /\ now \in Times /\ disk.rows \in [Strategies -> Row] /\ old \in Row
  BY DEF StoreInv, TypeOK, Database
<1>4. old \in [state : States, created : Times, updated : Times]
  BY <1>2, <1>3, NoRowIsNone DEF Readable
<1>5. r \in Row /\ r # NoRow /\ r.state = to BY <1>3, <1>4 DEF Row, States, NoRow
<1>6. Store(db) BY <1>1, <1>2, UsableView
<1> HIDE DEF r
<1>7. /\ db \in Database /\ db.rows[s] = r
      /\ db.version = disk.version /\ db.main = disk.main /\ db.spare = disk.spare
      /\ db.order = disk.order /\ db.evidence = disk.evidence
      /\ \A t \in Strategies \ {s} : db.rows[t] = disk.rows[t]
  BY <1>3, <1>5 DEF Database
<1> HIDE DEF db
<1>8. Changes(db, s) BY <1>2, <1>5, <1>7, UsableView DEF Changes
<1>9. disk' = db BY <1>2, <1>6, UsableView DEF Store
<1>10. Sound(s, disk) BY DEF StoreInv
<1>11. reading[s] = NoRow /\ reply[s] # "invalidated" BY <1>2, <1>10 DEF Sound
<1>12. Sound(s, disk)' BY <1>2, <1>5, <1>7, <1>9, <1>11 DEF Sound, Executed
<1> QED BY <1>2, <1>6, <1>8, <1>12, WriteKeeps DEF StoreInv, TypeOK

-----------------------------------------------------------------------------
(* The rest *)

\* Steps that touch neither the rows nor what is remembered of them.
LEMMA AsideKeeps ==
    ASSUME StoreInv, UNCHANGED <<disk, work, conn, reading, reply, sent>>, TypeOK'
    PROVE  StoreInv'
<1>1. conn.stage = "migrating" => Midway(conn.todo, work)'
  BY DEF StoreInv, Midway, InFirst, InSecond, InThird, Done, EvidenceFits
<1> QED BY <1>1, RowsStay DEF StoreInv, Whole, ForeignKeysClean

LEMMA RecoveryRoundKeeps == ASSUME StoreInv, RecoveryRound PROVE StoreInv'
<1>1. /\ UNCHANGED <<now, disk, work, conn, reading, reply, sent, spent>>
      /\ skipped' \subseteq Strategies
  BY DEF RecoveryRound
<1>2. TypeOK' BY <1>1 DEF StoreInv, TypeOK
<1> QED BY <1>1, <1>2, AsideKeeps

LEMMA ClockKeeps == ASSUME StoreInv, ClockAdvances \/ ClockSetBack PROVE StoreInv'
<1>1. /\ UNCHANGED <<disk, work, conn, reading, reply, sent, skipped>>
      /\ now' \in Times
      /\ spent' \in [steps : 0 .. MaxClockSteps, faults : 0 .. MaxFaults, crashes : 0 .. MaxCrashes]
  BY StoreAssumption DEF ClockAdvances, ClockSetBack, StoreInv, TypeOK, Times
<1>2. TypeOK' BY <1>1 DEF StoreInv, TypeOK
<1> QED BY <1>1, <1>2, AsideKeeps

LEMMA CrashKeeps == ASSUME StoreInv, Crash PROVE StoreInv'
<1>1. /\ spent.crashes < MaxCrashes /\ spent' = [spent EXCEPT !.crashes = @ + 1]
      /\ work' = NoTransaction /\ conn' = Closed /\ reading' = NoRows /\ skipped' = {}
      /\ UNCHANGED <<now, disk, reply, sent>>
  BY DEF Crash
<1>2. spent' \in [steps : 0 .. MaxClockSteps, faults : 0 .. MaxFaults, crashes : 0 .. MaxCrashes]
  BY <1>1, StoreAssumption DEF StoreInv, TypeOK
<1>3. conn'.stage = "closed" /\ conn' \in Connection BY <1>1, ClosedTyped DEF Closed
<1>4. TypeOK' BY <1>1, <1>2, <1>3, NoRowsAreRows DEF StoreInv, TypeOK
<1>5. \A t \in Strategies : Sound(t, disk)' BY <1>1 DEF StoreInv, Sound, NoRows
<1> QED BY <1>1, <1>3, <1>4, <1>5 DEF StoreInv, Whole, ForeignKeysClean

LEMMA StoreInvariant == Spec => []StoreInv
<1>1. StoreInv /\ [Next]_vars => StoreInv'
  <2> SUFFICES ASSUME StoreInv, [Next]_vars PROVE StoreInv' OBVIOUS
  <2>1. CASE Open BY <2>1, OpenKeeps
  <2>2. CASE RunStatement BY <2>2, RunStatementKeeps
  <2>3. CASE CommitMigration BY <2>3, CommitMigrationKeeps
  <2>4. CASE RestoreForeignKeys BY <2>4, RestoreForeignKeysKeeps
  <2>5. CASE PreparationFails BY <2>5, PreparationFailsKeeps
  <2>6. ASSUME NEW s \in Strategies,
               \/ CreatePending(s) \/ BeginConfirmation(s) \/ Confirm(s)
               \/ ConfirmationRefused(s) \/ ConfirmationBarred(s) \/ ConfirmationFails(s)
               \/ SubmitOrder(s) \/ AttachSnapshot(s) \/ Transition(s)
        PROVE  StoreInv'
    BY <2>6, CreatePendingKeeps, BeginConfirmationKeeps, ConfirmKeeps, ConfirmationRefusedKeeps,
       ConfirmationBarredKeeps, ConfirmationFailsKeeps, SubmitOrderKeeps, AttachSnapshotKeeps,
       TransitionKeeps
  <2>7. CASE RecoveryRound BY <2>7, RecoveryRoundKeeps
  <2>8. CASE ClockAdvances \/ ClockSetBack BY <2>8, ClockKeeps
  <2>9. CASE Crash BY <2>9, CrashKeeps
  <2>10. CASE UNCHANGED vars
    <3>1. TypeOK' BY <2>10 DEF vars, StoreInv, TypeOK
    <3> QED BY <2>10, <3>1, AsideKeeps DEF vars
  <2> QED BY <2>1, <2>2, <2>3, <2>4, <2>5, <2>6, <2>7, <2>8, <2>9, <2>10 DEF Next
<1> QED BY <1>1, InitOrderly, PTL DEF Spec

\* Every variable keeps its type; a repository that is usable has no open transaction.
THEOREM StoreTypeCorrect == Spec => []TypeOK
<1>1. StoreInv => TypeOK BY DEF StoreInv
<1> QED BY <1>1, StoreInvariant, PTL

\* Wherever the migration stops, by a failed statement, a commit nobody heard of or a crash, the
\* committed database is one complete generation of the schema (prepareStrategySchema).
THEOREM DatabaseIsAlwaysWhole == Spec => []DatabaseIsWhole
<1>1. StoreInv => DatabaseIsWhole BY DEF StoreInv, DatabaseIsWhole
<1> QED BY <1>1, StoreInvariant, PTL

\* An order that reached an exchange belongs to a strategy whose confirmation is committed.
THEOREM SubmittedIsAlwaysDurable == Spec => []SubmittedIsDurable
<1>1. StoreInv => SubmittedIsDurable BY DEF StoreInv, TypeOK, Sound, SubmittedIsDurable, Executed
<1> QED BY <1>1, StoreInvariant, PTL

-----------------------------------------------------------------------------
(* Action properties *)

MigratesWell ==
    disk'.version # disk.version =>
        /\ disk'.version = 3
        /\ disk'.rows = disk.rows
        /\ disk'.order = disk.order
        /\ \A s \in Strategies :
            /\ disk.order[s] = "seen" => disk'.evidence[s] = "observed"
            /\ disk.order[s] = "planned" /\ disk.version = 1 => disk'.evidence[s] = "uncertain"
            /\ disk.evidence[s] # "none" => disk'.evidence[s] = disk.evidence[s]

StaysReadable ==
    \A s \in Strategies :
        disk.rows[s] # disk'.rows[s] /\ disk'.rows[s].state \in {"EXECUTING", "INVALIDATED"} =>
            Readable(disk'.rows[s])

KeptAsRead ==
    \A s \in Strategies :
        reply'[s] = "kept" /\ reply[s] # "kept" => disk'.rows[s] = reading[s]

\* The migrated copy replaces the database.
LEMMA CopyMigrates ==
    ASSUME StoreInv, disk' = work, reply' = reply, disk.version < 3, Midway(<<>>, work)
    PROVE  MigratesWell /\ StaysReadable /\ KeptAsRead
<1>1. disk \in Database /\ Whole(disk) BY DEF StoreInv, TypeOK
<1>2. /\ Whole(work) /\ work.version = 3 /\ work.rows = disk.rows /\ work.order = disk.order
      /\ disk.version = 2 => work.evidence = disk.evidence
      /\ EvidenceFits(work)
  BY <1>1, MidwayEnd
<1>3. disk.version # 2 => \A s \in Strategies : disk.evidence[s] = "none"
  <2>1. ASSUME disk.version # 2 PROVE disk.version < 2 BY <1>1, <2>1 DEF Database
  <2> QED BY <1>1, <2>1 DEF Whole
<1>4. MigratesWell BY <1>2, <1>3 DEF MigratesWell, EvidenceFits
<1> QED BY <1>2, <1>4 DEF StaysReadable, KeptAsRead

\* A write of the repository about one strategy.
LEMMA WriteIsRight ==
    ASSUME StoreInv, Usable, NEW s \in Strategies, NEW db, Changes(db, s), disk' = db,
           db.rows[s] # disk.rows[s] /\ db.rows[s].state \in {"EXECUTING", "INVALIDATED"} =>
               Readable(db.rows[s])
    PROVE  MigratesWell /\ StaysReadable
BY DEF MigratesWell, StaysReadable, Changes

LEMMA DiskStays ==
    ASSUME disk' = disk PROVE MigratesWell /\ StaysReadable
BY DEF MigratesWell, StaysReadable

LEMMA RepliesStay ==
    ASSUME reply' = reply PROVE KeptAsRead
BY DEF KeptAsRead

LEMMA ConfirmedReadable ==
    ASSUME StoreInv, Usable, NEW s \in Strategies, reading[s] # NoRow, AsRead(s, disk), ClockAllows(s),
           NEW target \in {"EXECUTING", "INVALIDATED"}
    PROVE  Readable(Confirmed(s, target).rows[s])
<1> DEFINE r == [state |-> target, created |-> reading[s].created, updated |-> now]
<1>1. Confirmed(s, target).rows[s] = r BY ConfirmedChanges
<1>2. reading[s] \in [state : States, created : Times, updated : Times]
  BY NoRowIsNone DEF StoreInv, TypeOK
<1>3. reading[s].created <= reading[s].updated BY DEF StoreInv, Sound
<1>4. now \in Times BY DEF StoreInv, TypeOK
<1>5. r.created <= r.updated BY <1>2, <1>3, <1>4, StoreAssumption DEF ClockAllows, Times
<1>6. r # NoRow BY DEF NoRow
<1> QED BY <1>1, <1>5, <1>6 DEF Readable

LEMMA StepIsRight == StoreInv /\ [Next]_vars => MigratesWell /\ StaysReadable /\ KeptAsRead
<1> SUFFICES ASSUME StoreInv, [Next]_vars
             PROVE  MigratesWell /\ StaysReadable /\ KeptAsRead
  OBVIOUS
<1>1. ASSUME \/ Open \/ RunStatement \/ RestoreForeignKeys \/ RecoveryRound
             \/ ClockAdvances \/ ClockSetBack \/ Crash \/ UNCHANGED vars
      PROVE  disk' = disk /\ reply' = reply
  BY <1>1 DEF Open, RunStatement, RestoreForeignKeys, RecoveryRound, ClockAdvances, ClockSetBack,
     Crash, vars
<1>2. CASE CommitMigration
  <2>1. disk' = work /\ reply' = reply /\ disk.version < 3 /\ Midway(<<>>, work)
    BY <1>2 DEF CommitMigration, StoreInv
  <2> QED BY <2>1, CopyMigrates
<1>3. CASE PreparationFails
  <2>1. /\ conn.stage \in {"migrating", "committed"} /\ reply' = reply
        /\ disk' = disk \/ (disk' = work /\ conn.todo = <<>> /\ work # NoTransaction)
    BY <1>3 DEF PreparationFails
  <2>2. CASE disk' = work /\ conn.todo = <<>> /\ work # NoTransaction
    <3>1. disk.version < 3 /\ Midway(<<>>, work) BY <2>1, <2>2 DEF StoreInv
    <3> QED BY <2>1, <2>2, <3>1, CopyMigrates
  <2> QED BY <2>1, <2>2, DiskStays, RepliesStay
<1>4. ASSUME NEW s \in Strategies, CreatePending(s)
      PROVE  MigratesWell /\ StaysReadable /\ KeptAsRead
  <2> DEFINE r == [state |-> "PENDING", created |-> now, updated |-> now]
  <2>1. /\ Usable /\ disk.rows[s] = NoRow /\ reply' = reply
        /\ disk' = [disk EXCEPT !.rows[s] = r]
    BY <1>4, UsableView DEF CreatePending, Store
  <2>2. disk \in Database BY DEF StoreInv, TypeOK
  <2>3. /\ disk'.version = disk.version /\ disk'.rows[s] = r
        /\ \A t \in Strategies \ {s} : disk'.rows[t] = disk.rows[t]
    BY <2>1, <2>2 DEF Database
  <2> QED BY <2>1, <2>3, RepliesStay DEF MigratesWell, StaysReadable
<1>5. ASSUME NEW s \in Strategies, BeginConfirmation(s)
      PROVE  MigratesWell /\ StaysReadable /\ KeptAsRead
  <2>1. disk' = disk /\ reply' = [reply EXCEPT ![s] = "none"] BY <1>5 DEF BeginConfirmation
  <2>2. KeptAsRead BY <2>1 DEF KeptAsRead, StoreInv, TypeOK
  <2> QED BY <2>1, <2>2, DiskStays
<1>6. ASSUME NEW s \in Strategies, Confirm(s)
      PROVE  MigratesWell /\ StaysReadable /\ KeptAsRead
  <2>1. PICK target \in {"EXECUTING", "INVALIDATED"} :
          /\ Store(Confirmed(s, target))
          /\ Ends(s, IF target = "EXECUTING" THEN "accepted" ELSE "invalidated")
    BY <1>6 DEF Confirm
  <2>2. Usable /\ reading[s] # NoRow /\ AsRead(s, disk) /\ ClockAllows(s)
    BY <1>6, UsableView DEF Confirm
  <2>3. disk' = Confirmed(s, target) BY <2>1, <2>2, UsableView DEF Store
  <2>4. Changes(disk', s) /\ Readable(disk'.rows[s])
    BY <2>2, <2>3, ConfirmedChanges, ConfirmedReadable
  <2>5. KeptAsRead BY <2>1 DEF KeptAsRead, Ends, StoreInv, TypeOK
  <2> QED BY <2>2, <2>4, <2>5, WriteIsRight
<1>7. ASSUME NEW s \in Strategies, ConfirmationRefused(s) \/ ConfirmationBarred(s)
      PROVE  MigratesWell /\ StaysReadable /\ KeptAsRead
  <2>1. /\ disk' = disk /\ reading[s] # NoRow
        /\ \E answer \in {"kept", "unknown"} : reply' = [reply EXCEPT ![s] = answer]
    BY <1>7 DEF ConfirmationRefused, ConfirmationBarred, Ends
  <2>2. disk.rows[s] = reading[s] BY <2>1 DEF StoreInv, Sound
  <2>3. KeptAsRead BY <2>1, <2>2 DEF KeptAsRead, StoreInv, TypeOK
  <2> QED BY <2>1, <2>3, DiskStays
<1>8. ASSUME NEW s \in Strategies, ConfirmationFails(s)
      PROVE  MigratesWell /\ StaysReadable /\ KeptAsRead
  <2>1. PICK left \in Leftovers(s) :
          /\ disk' = left[1]
          /\ Ends(s, IF Certain(s, left) THEN "kept" ELSE "unknown")
    BY <1>8 DEF ConfirmationFails
  <2>2. Usable /\ reading[s] # NoRow /\ AsRead(s, disk) /\ ClockAllows(s)
    BY <1>8, UsableView DEF ConfirmationFails
  <2>3. \/ disk' = disk
        \/ \E target \in {"EXECUTING", "INVALIDATED"} : disk' = Confirmed(s, target)
    BY <2>1 DEF Leftovers
  <2>4. disk' # disk => Changes(disk', s) /\ Readable(disk'.rows[s])
    BY <2>2, <2>3, ConfirmedChanges, ConfirmedReadable
  <2>5. KeptAsRead
    <3>1. ASSUME Certain(s, left) PROVE disk'.rows[s] = reading[s]
      BY <2>1, <3>1 DEF Certain, AsRead
    <3>2. \A t \in Strategies \ {s} : reply'[t] = reply[t]
      BY <2>1 DEF Ends, StoreInv, TypeOK
    <3>3. reply'[s] = "kept" => Certain(s, left) BY <2>1 DEF Ends, StoreInv, TypeOK
    <3> QED BY <3>1, <3>2, <3>3 DEF KeptAsRead
  <2> QED BY <2>2, <2>4, <2>5, WriteIsRight, DiskStays
<1>9. ASSUME NEW s \in Strategies, SubmitOrder(s) \/ AttachSnapshot(s)
      PROVE  MigratesWell /\ StaysReadable /\ KeptAsRead
  <2>1. /\ Usable /\ reply' = reply /\ disk \in Database
        /\ \E o \in {"planned", "seen"}, e \in {"uncertain", "observed"} :
              Store([disk EXCEPT !.order[s] = o, !.evidence[s] = e])
    BY <1>9, UsableView DEF SubmitOrder, AttachSnapshot
  <2>2. disk'.version = disk.version /\ disk'.rows = disk.rows
    BY <2>1, UsableView DEF Store, Database
  <2> QED BY <2>1, <2>2, RepliesStay DEF MigratesWell, StaysReadable
<1>10. ASSUME NEW s \in Strategies, Transition(s)
       PROVE  MigratesWell /\ StaysReadable /\ KeptAsRead
  <2>1. PICK to \in {"WAITING", "ENDED"} :
          Store([View EXCEPT !.rows[s] = [state |-> to, created |-> @.created, updated |-> now]])
    BY <1>10 DEF Transition
  <2> DEFINE r == [state |-> to, created |-> disk.rows[s].created, updated |-> now]
  <2>2. Usable /\ reply' = reply /\ disk \in Database BY <1>10, UsableView DEF Transition
  <2>3. disk' = [disk EXCEPT !.rows[s] = r] BY <2>1, <2>2, UsableView DEF Store
  <2>4. /\ disk'.version = disk.version /\ disk'.rows[s] = r
        /\ \A t \in Strategies \ {s} : disk'.rows[t] = disk.rows[t]
    BY <2>2, <2>3 DEF Database
  <2> QED BY <2>2, <2>4, RepliesStay DEF MigratesWell, StaysReadable
<1> QED
  BY <1>1, <1>2, <1>3, <1>4, <1>5, <1>6, <1>7, <1>8, <1>9, <1>10, DiskStays, RepliesStay DEF Next

\* A start that changes the schema goes to version 3 at once and keeps every row, every order and
\* what is known of its submission (migrateToV3Schema).
THEOREM MigrationAlwaysKeepsRecords == Spec => MigrationKeepsRecords
<1>1. StoreInv /\ [Next]_vars => [MigratesWell]_vars BY StepIsRight
<1> QED BY <1>1, StoreInvariant, PTL DEF Spec, MigrationKeepsRecords, MigratesWell

\* Whatever the wall clock does, a confirmation commits only rows that can be read again.
THEOREM ConfirmationAlwaysStaysReadable == Spec => ConfirmationStaysReadable
<1>1. StoreInv /\ [Next]_vars => [StaysReadable]_vars BY StepIsRight
<1> QED BY <1>1, StoreInvariant, PTL DEF Spec, ConfirmationStaysReadable, StaysReadable

\* The answer to a confirmation is true of the committed row, also when its COMMIT failed in one
\* of the three ways it can (runConfirmationOperation).
THEOREM AnswerIsAlwaysTrue == Spec => AnswerIsTrue
<1> DEFINE Answers ==
      \A s \in Strategies :
          /\ reply[s] = "accepted" => disk.rows[s].state \in {"EXECUTING", "WAITING", "ENDED"}
          /\ reply[s] = "invalidated" => disk.rows[s].state = "INVALIDATED" /\ s \notin sent
<1>1. StoreInv => Answers BY DEF StoreInv, Sound, Executed
<1>2. StoreInv /\ [Next]_vars => [KeptAsRead]_vars BY StepIsRight
<1> QED BY <1>1, <1>2, StoreInvariant, PTL DEF Spec, AnswerIsTrue, KeptAsRead
=============================================================================
