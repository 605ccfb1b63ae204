-------------------------------- MODULE Store --------------------------------
(***************************************************************************)
(* The durable store (memory/store.py): processes that open one SQLite     *)
(* file and bring its tables up to date, and the coroutines of one of them *)
(* that write through its single connection.                               *)
(*                                                                         *)
(* execute() runs a statement and commits; transaction() lends the         *)
(* connection to its caller and commits or rolls back at the end.  Each is *)
(* several awaits, nothing is locked between them, and SQLite knows one    *)
(* open transaction per connection: what any coroutine has written and not *)
(* committed is committed, or discarded, by whoever ends it next.          *)
(***************************************************************************)
EXTENDS Naturals, FiniteSets

CONSTANTS
  Singles,      \* coroutines that call execute: one row each
  Groups,       \* coroutines that use transaction (rotate): two rows each
  Procs,        \* processes that open the file
  Main,         \* the one the coroutines run in
  ColumnCount   \* how many columns ADDITIVE_COLUMNS lists (6)

ASSUME StoreAssumption ==
  /\ Singles \cap Groups = {}
  /\ Main \in Procs
  /\ ColumnCount \in Nat

VARIABLES
  door,      \* per process: "shut", "checking", "altering" or "open"
  next,      \* per process: the column _apply_additive_columns is at
  columns,   \* the additive columns the tables in the file have
  at,        \* where each coroutine is
  pending,   \* rows written in the connection's open transaction
  disk,      \* rows committed to the file
  crossed,   \* history: coroutines that were writing while another was
  robbed     \* history: coroutines whose rows another's rollback discarded

doorVars == <<door, next, columns>>
rowVars == <<pending, disk, crossed, robbed>>
vars == <<doorVars, at, rowVars>>

Clients == Singles \cup Groups
Columns == 1..ColumnCount
RowsOf(c) == IF c \in Groups THEN {<<c, 1>>, <<c, 2>>} ELSE {<<c, 1>>}
Rows == UNION {RowsOf(c) : c \in Clients}

\* c has run a statement and has yet to commit or roll back.
Writing(c) == at[c] \in {"half", "wrote", "undoing"}

\* A database of an older version has the columns of its time.
Init ==
  /\ door = [p \in Procs |-> "shut"]
  /\ next = [p \in Procs |-> 1]
  /\ \E v \in 0..ColumnCount : columns = 1..v
  /\ at = [c \in Clients |-> "new"]
  /\ pending = {} /\ disk = {}
  /\ crossed = {} /\ robbed = {}

-----------------------------------------------------------------------------
\* connect.

\* The file is opened; CREATE TABLE IF NOT EXISTS leaves existing tables alone.
BeginConnect(p) ==
  /\ door[p] = "shut"
  /\ door' = [door EXCEPT ![p] = "checking"]
  /\ next' = [next EXCEPT ![p] = 1]
  /\ UNCHANGED <<columns, at, rowVars>>

\* PRAGMA table_info: the column is there, or it has to be added.
CheckColumn(p) ==
  /\ door[p] = "checking" /\ next[p] \in Columns
  /\ IF next[p] \in columns
     THEN next' = [next EXCEPT ![p] = @ + 1] /\ UNCHANGED door
     ELSE door' = [door EXCEPT ![p] = "altering"] /\ UNCHANGED next
  /\ UNCHANGED <<columns, at, rowVars>>

\* Mutant: a column somebody else has just added is taken for the last one.
AlterColumnLast(p) ==
  /\ door[p] = "altering"
  /\ columns' = columns \cup {next[p]}
  /\ IF next[p] \in columns
     THEN door' = [door EXCEPT ![p] = "open"] /\ UNCHANGED next
     ELSE /\ door' = [door EXCEPT ![p] = "checking"]
          /\ next' = [next EXCEPT ![p] = @ + 1]
  /\ UNCHANGED <<at, rowVars>>

\* ALTER TABLE takes effect at once.  It raises, and connect with it, when
\* another process has added the column since it was looked up.
AlterColumn(p) ==
  /\ door[p] = "altering"
  /\ columns' = columns \cup {next[p]}
  /\ IF next[p] \in columns
     THEN door' = [door EXCEPT ![p] = "shut"] /\ UNCHANGED next
     ELSE /\ door' = [door EXCEPT ![p] = "checking"]
          /\ next' = [next EXCEPT ![p] = @ + 1]
  /\ UNCHANGED <<at, rowVars>>

\* The version row is committed and _conn is set.
EndConnect(p) ==
  /\ door[p] = "checking" /\ next[p] \notin Columns
  /\ door' = [door EXCEPT ![p] = "open"]
  /\ UNCHANGED <<next, columns, at, rowVars>>

\* connect raises, close() is awaited, or the process dies.  The connection's
\* open transaction goes with it; a coroutine in the middle of a write raises.
Leave(p) ==
  /\ door[p] # "shut"
  /\ door' = [door EXCEPT ![p] = "shut"]
  /\ IF p = Main
     THEN /\ pending' = {}
          /\ at' = [c \in Clients |-> IF Writing(c) THEN "raised" ELSE at[c]]
     ELSE UNCHANGED <<pending, at>>
  /\ UNCHANGED <<next, columns, disk, crossed, robbed>>

-----------------------------------------------------------------------------
\* execute and transaction.

\* The open transaction of the connection reaches the file, whoever began it.
CommitPending == disk' = disk \cup pending /\ pending' = {}

\* Who is writing as c runs a statement has been crossed by it, and crosses it.
Cross(c) ==
  LET others == {d \in Clients \ {c} : Writing(d)}
  IN crossed' = IF others = {} THEN crossed ELSE crossed \cup others \cup {c}

\* Mutant: each statement of a transaction is committed as it runs.
WriteCommits(c, row) ==
  IF c \in Groups THEN disk' = disk \cup pending \cup {row} /\ pending' = {}
                  ELSE pending' = pending \cup {row} /\ UNCHANGED disk

Write(c, row) == pending' = pending \cup {row} /\ UNCHANGED disk

\* A statement is queued to the connection's thread and runs.
Statement(c) ==
  /\ door[Main] = "open"
  /\ at[c] \in {"new", "half"}
  /\ Write(c, <<c, IF at[c] = "half" THEN 2 ELSE 1>>)
  /\ at' = [at EXCEPT ![c] = IF c \in Groups /\ @ = "new" THEN "half" ELSE "wrote"]
  /\ Cross(c)
  /\ UNCHANGED <<doorVars, robbed>>

\* The statement raises and writes nothing, or the caller of a transaction
\* raises or is cancelled between two: execute rolls nothing back.
StatementRaises(c) ==
  /\ door[Main] = "open"
  /\ at[c] \in {"new", "half"}
  /\ at' = [at EXCEPT ![c] = IF c \in Groups THEN "undoing" ELSE "raised"]
  /\ Cross(c)
  /\ UNCHANGED <<doorVars, pending, disk, robbed>>

\* Mutant: the call returns before its commit has run.
CommitLater(c) ==
  /\ at[c] = "wrote"
  /\ at' = [at EXCEPT ![c] = "ok"]
  /\ UNCHANGED <<doorVars, pending, disk, crossed, robbed>>

Commit(c) ==
  /\ at[c] = "wrote"
  /\ CommitPending
  /\ at' = [at EXCEPT ![c] = "ok"]
  /\ UNCHANGED <<doorVars, crossed, robbed>>

\* commit() raises or is cancelled; it may have run in the thread all the
\* same.  Neither execute nor transaction rolls back then.
CommitRaises(c) ==
  /\ at[c] = "wrote"
  /\ CommitPending \/ UNCHANGED <<pending, disk>>
  /\ at' = [at EXCEPT ![c] = "raised"]
  /\ UNCHANGED <<doorVars, crossed, robbed>>

\* Mutant: the exception passes without a rollback.
RollbackForgotten(c) ==
  /\ at[c] = "undoing"
  /\ at' = [at EXCEPT ![c] = "undone"]
  /\ UNCHANGED <<doorVars, pending, disk, crossed, robbed>>

\* transaction's rollback discards whatever the connection had pending.
Rollback(c) ==
  /\ at[c] = "undoing"
  /\ robbed' = robbed \cup {d \in Clients \ {c} : RowsOf(d) \cap pending # {}}
  /\ pending' = {}
  /\ at' = [at EXCEPT ![c] = "undone"]
  /\ UNCHANGED <<doorVars, disk, crossed>>


Next ==
  \/ \E p \in Procs :
       \/ BeginConnect(p) \/ CheckColumn(p) \/ AlterColumn(p) \/ EndConnect(p) \/ Leave(p)
  \/ \E c \in Clients :
       \/ Statement(c) \/ StatementRaises(c) \/ Commit(c) \/ CommitRaises(c) \/ Rollback(c)

Spec == Init /\ [][Next]_vars

-----------------------------------------------------------------------------
States == {"new", "half", "wrote", "undoing", "ok", "raised", "undone"}

\* Every variable keeps its type (memory/store.py, connect and execute).
TypeOK ==
  /\ door \in [Procs -> {"shut", "checking", "altering", "open"}]
  /\ next \in [Procs -> 1..(ColumnCount + 1)]
  /\ columns \subseteq Columns
  /\ at \in [Clients -> States]
  /\ \A c \in Singles : at[c] \notin {"half", "undoing", "undone"}
  /\ pending \subseteq Rows /\ disk \subseteq Rows
  /\ crossed \subseteq Clients /\ robbed \subseteq Clients

\* A process whose connect has returned finds every column in the tables,
\* whatever other processes were altering meanwhile and wherever one died.
OpenIsMigrated == \A p \in Procs : door[p] = "open" => columns = Columns

Whole(c) == RowsOf(c) \subseteq disk \/ RowsOf(c) \cap disk = {}

\* The rows of a transaction reach the file together or not at all, through
\* errors, cancellation, close and crash, if no coroutine wrote alongside it.
WholeUnlessCrossed == \A c \in Groups \ crossed : Whole(c)

\* A write that was acknowledged is in the file for good, whoever's commit
\* took it there, unless another caller's rollback came first.
AcknowledgedIsDurable ==
  \A c \in Clients \ robbed : at[c] = "ok" => RowsOf(c) \subseteq disk

\* A transaction that was rolled back has left nothing behind, neither in the
\* file nor for a later commit to take, if no coroutine wrote alongside it.
UndoneLeavesNothing ==
  \A c \in Groups \ crossed :
    at[c] = "undone" => RowsOf(c) \cap (disk \cup pending) = {}

\* What transaction's docstring says: it is not interleaved with another
\* caller's writes, so its rows are never apart.
UnitsAreWhole == \A c \in Groups : Whole(c)

\* What a lock around each execute and transaction would add: no statement
\* runs while another coroutine has yet to commit or roll back.
Exclusive ==
  \A c \in Clients : Statement(c) \/ StatementRaises(c) =>
    \A d \in Clients \ {c} : ~Writing(d)

-----------------------------------------------------------------------------
\* What makes the promises above inductive.

\* A process has the columns before the one it is at.
Caught ==
  \A p \in Procs :
    /\ door[p] = "altering" => next[p] \in Columns
    /\ door[p] \in {"checking", "altering"} => \A k \in Columns : k < next[p] => k \in columns

\* Two coroutines that are writing together have crossed.
Crossing ==
  \A c, d \in Clients : c # d /\ Writing(c) /\ Writing(d) => c \in crossed

\* Where the rows of an uncrossed transaction are, at each of its places.
Unit(c) ==
  /\ at[c] \in {"new", "undone"} => RowsOf(c) \cap (pending \cup disk) = {}
  /\ at[c] \in {"half", "wrote", "undoing"} => RowsOf(c) \cap disk = {}
  /\ at[c] = "half" => <<c, 1>> \in pending /\ <<c, 2>> \notin pending
  /\ at[c] = "wrote" => RowsOf(c) \subseteq pending
  /\ at[c] \in {"ok", "raised"} =>
       Whole(c) /\ (RowsOf(c) \subseteq pending \/ RowsOf(c) \cap pending = {})

Units == \A c \in Groups \ crossed : Unit(c)

\* What a coroutine has written is pending or in the file.
Kept ==
  \A c \in Clients \ robbed :
    /\ at[c] = "half" => <<c, 1>> \in pending \cup disk
    /\ at[c] = "wrote" => RowsOf(c) \subseteq pending \cup disk
    /\ at[c] = "ok" => RowsOf(c) \subseteq disk

IInv == TypeOK /\ Caught /\ OpenIsMigrated /\ Crossing /\ Units /\ Kept
=============================================================================
