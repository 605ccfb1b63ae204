--------------------------- MODULE ServicesProofs ---------------------------
(***************************************************************************)
(* Machine-checked proofs about the two services the rest of the system    *)
(* shares: Store, for any number of processes, coroutines and columns, and *)
(* EventBus, for any publishers, any number of events and any sizes of the *)
(* history, its replay and the queue.                                      *)
(*                                                                         *)
(* Store: type correctness, that an open database is up to date, that a    *)
(* transaction nobody crossed is whole, and that what was acknowledged is  *)
(* in the file.  None of the four is inductive by itself.  IInv adds where *)
(* the rows of an uncrossed transaction are at each of its places (Units), *)
(* that two coroutines that write together have crossed (Crossing), and    *)
(* that the columns before the one a process is at are there (Caught).     *)
(*                                                                         *)
(* EventBus: type correctness, that a client misses no more events than    *)
(* the counter says, and that the queue is in each publisher's order.      *)
(* EventInv adds that an event in flight is its publisher's latest and in  *)
(* no queue (InFlight), that the queue holds published events of the task  *)
(* only (QueuePublished), and, at every point of a stream, that what is    *)
(* neither sent, nor in the replay, nor in the queue was counted as        *)
(* dropped, and what is in flight will be offered or has been copied       *)
(* (Accounted).                                                            *)
(***************************************************************************)
EXTENDS Store, EventBus, TLAPS, SequenceTheorems, FiniteSetTheorems

-----------------------------------------------------------------------------
\* The store.

USE StoreAssumption

\* The steps that touch no row and no coroutine.
DoorStep ==
  \E p \in Procs :
    \/ BeginConnect(p) \/ CheckColumn(p) \/ AlterColumn(p) \/ EndConnect(p)
    \/ Leave(p) /\ p # Main

\* The steps of one coroutine.
ClientStep(c) ==
  Statement(c) \/ StatementRaises(c) \/ Commit(c) \/ CommitRaises(c) \/ Rollback(c)

LEMMA NextCases ==
  ASSUME [Next]_vars
  PROVE  \/ DoorStep \/ Leave(Main) \/ (\E c \in Clients : ClientStep(c)) \/ UNCHANGED vars
BY DEF Next, DoorStep, ClientStep

\* A process at the door disturbs nothing the coroutines share.
LEMMA DoorLeavesRows ==
  ASSUME DoorStep PROVE UNCHANGED <<at, rowVars>>
BY DEF DoorStep, BeginConnect, CheckColumn, AlterColumn, EndConnect, Leave, rowVars

\* A coroutine disturbs nothing of the doors.
LEMMA ClientLeavesDoors ==
  ASSUME NEW c \in Clients, ClientStep(c) PROVE UNCHANGED doorVars
BY DEF ClientStep, Statement, StatementRaises, Commit, CommitRaises, Rollback, doorVars

LEMMA RowTypes ==
  ASSUME NEW c \in Clients
  PROVE  /\ RowsOf(c) \subseteq Rows /\ <<c, 1>> \in RowsOf(c)
         /\ c \in Groups => RowsOf(c) = {<<c, 1>>, <<c, 2>>}
         /\ c \notin Groups => RowsOf(c) = {<<c, 1>>}
BY DEF Rows, RowsOf

-----------------------------------------------------------------------------
\* Type correctness: every variable keeps its type (memory/store.py).
LEMMA InitInv == Init => IInv
<1> SUFFICES ASSUME Init PROVE IInv
  OBVIOUS
<1>1. columns \subseteq Columns
  <2>1. PICK v \in 0..ColumnCount : columns = 1..v
    BY DEF Init
  <2>2. QED
    BY <2>1 DEF Columns
<1>2. TypeOK
  <2>1. at \in [Clients -> States] /\ \A c \in Singles : at[c] = "new"
    BY DEF Init, States, Clients
  <2>2. QED
    BY <1>1, <2>1 DEF Init, TypeOK
<1>3. Caught /\ OpenIsMigrated /\ Crossing /\ Kept
  BY DEF Init, Caught, OpenIsMigrated, Crossing, Writing, Kept
<1>4. Units
  BY DEF Init, Units, Unit, Clients
<1>5. QED
  BY <1>2, <1>3, <1>4 DEF IInv

\* The doors: a column is only ever added, one process at a time may be at it.
LEMMA DoorsStep ==
  ASSUME TypeOK, Caught, OpenIsMigrated,
         NEW p \in Procs,
         BeginConnect(p) \/ CheckColumn(p) \/ AlterColumn(p) \/ EndConnect(p) \/ Leave(p)
  PROVE  /\ door' \in [Procs -> {"shut", "checking", "altering", "open"}]
         /\ next' \in [Procs -> 1..(ColumnCount + 1)]
         /\ columns' \subseteq Columns
         /\ Caught' /\ OpenIsMigrated'
<1>t. /\ door \in [Procs -> {"shut", "checking", "altering", "open"}]
      /\ next \in [Procs -> 1..(ColumnCount + 1)]
      /\ columns \subseteq Columns
  BY DEF TypeOK
<1>1. CASE BeginConnect(p)
  <2>1. Caught'
    BY <1>1, <1>t DEF Caught, BeginConnect, Columns
  <2>2. QED
    BY <1>1, <1>t, <2>1 DEF BeginConnect, OpenIsMigrated
<1>2. CASE CheckColumn(p)
  <2>1. next[p] \in Columns /\ next[p] + 1 \in 1..(ColumnCount + 1)
    BY <1>2, <1>t DEF CheckColumn, Columns
  <2>2. Caught'
    BY <1>2, <1>t, <2>1 DEF Caught, CheckColumn, Columns
  <2>3. QED
    BY <1>2, <1>t, <2>1, <2>2 DEF CheckColumn, OpenIsMigrated
<1>3. CASE AlterColumn(p)
  <2>1. next[p] \in Columns /\ next[p] + 1 \in 1..(ColumnCount + 1)
    BY <1>3, <1>t DEF Caught, AlterColumn, Columns
  <2>2. columns' = columns \cup {next[p]} /\ columns' \subseteq Columns
    BY <1>3, <1>t, <2>1 DEF AlterColumn
  <2>3. Caught'
    BY <1>3, <1>t, <2>1 DEF Caught, AlterColumn, Columns
  <2>4. OpenIsMigrated'
    BY <1>3, <1>t, <2>2 DEF OpenIsMigrated, AlterColumn
  <2>5. QED
    BY <1>3, <1>t, <2>1, <2>2, <2>3, <2>4 DEF AlterColumn
<1>4. CASE EndConnect(p)
  <2>1. next[p] = ColumnCount + 1
    BY <1>4, <1>t DEF EndConnect, Columns
  <2>2. columns = Columns
    <3>1. \A k \in Columns : k < next[p]
      BY <2>1 DEF Columns
    <3>2. \A k \in Columns : k \in columns
      BY <1>4, <3>1 DEF EndConnect, Caught
    <3>3. QED
      BY <1>t, <3>2
  <2>3. /\ door' = [door EXCEPT ![p] = "open"]
        /\ UNCHANGED <<next, columns>>
    BY <1>4 DEF EndConnect
  <2>4. Caught' /\ OpenIsMigrated'
    BY <1>t, <2>2, <2>3 DEF Caught, OpenIsMigrated
  <2>5. QED
    BY <1>t, <2>3, <2>4
<1>5. CASE Leave(p)
  <2>1. /\ door' = [door EXCEPT ![p] = "shut"]
        /\ UNCHANGED <<next, columns>>
    BY <1>5 DEF Leave
  <2>2. QED
    BY <1>t, <2>1 DEF Caught, OpenIsMigrated
<1>6. QED
  BY <1>1, <1>2, <1>3, <1>4, <1>5

-----------------------------------------------------------------------------
\* The coroutines: what each step does to the rows and to the histories.
LEMMA ClientType ==
  ASSUME TypeOK, NEW c \in Clients, ClientStep(c)
  PROVE  /\ at' \in [Clients -> States]
         /\ \A d \in Singles : at'[d] \notin {"half", "undoing", "undone"}
         /\ pending' \subseteq Rows /\ disk' \subseteq Rows
         /\ crossed' \subseteq Clients /\ robbed' \subseteq Clients
<1>t. /\ at \in [Clients -> States]
      /\ \A d \in Singles : at[d] \notin {"half", "undoing", "undone"}
      /\ pending \subseteq Rows /\ disk \subseteq Rows
      /\ crossed \subseteq Clients /\ robbed \subseteq Clients
  BY DEF TypeOK
<1>1. CASE Statement(c)
  <2>1. <<c, IF at[c] = "half" THEN 2 ELSE 1>> \in Rows
    <3>1. CASE c \in Groups
      BY <3>1, RowTypes
    <3>2. CASE c \notin Groups
      \* "half" is a place of transactions only.
      BY <3>2, <1>t, RowTypes DEF Clients
    <3>3. QED
      BY <3>1, <3>2
  <2>2. QED
    BY <1>1, <1>t, <2>1 DEF Statement, Write, Cross, States
<1>2. CASE StatementRaises(c)
  BY <1>2, <1>t DEF StatementRaises, Cross, States
<1>3. CASE Commit(c)
  BY <1>3, <1>t DEF Commit, CommitPending, States
<1>4. CASE CommitRaises(c)
  BY <1>4, <1>t DEF CommitRaises, CommitPending, States
<1>5. CASE Rollback(c)
  BY <1>5, <1>t DEF Rollback, States
<1>6. QED
  BY <1>1, <1>2, <1>3, <1>4, <1>5 DEF ClientStep

\* A step of one coroutine is seen by the others only in what is shared: who is
\* writing has been crossed by a statement, and rows move as the step says.
LEMMA CrossingStep ==
  ASSUME TypeOK, Crossing, NEW c \in Clients, ClientStep(c)
  PROVE  Crossing'
<1>t. at \in [Clients -> States]
  BY DEF TypeOK
<1>1. ASSUME Cross(c), at' = [at EXCEPT ![c] = at'[c]] PROVE Crossing'
  <2> SUFFICES ASSUME NEW a \in Clients, NEW b \in Clients, a # b, Writing(a)', Writing(b)'
               PROVE  a \in crossed'
    BY DEF Crossing
  <2>1. crossed \subseteq crossed'
    BY <1>1 DEF Cross
  <2>2. \A d \in Clients \ {c} : Writing(d)' <=> Writing(d)
    BY <1>1, <1>t DEF Writing
  <2>3. CASE a # c /\ b # c
    BY <2>1, <2>2, <2>3 DEF Crossing
  <2>4. CASE a = c
    BY <1>1, <2>2, <2>4 DEF Cross
  <2>5. CASE b = c
    BY <1>1, <2>2, <2>5 DEF Cross
  <2>6. QED
    BY <2>3, <2>4, <2>5
<1>2. ASSUME crossed' = crossed, at' = [at EXCEPT ![c] = at'[c]], Writing(c)
      PROVE  Crossing'
  BY <1>2, <1>t DEF Crossing, Writing
<1>3. at' = [at EXCEPT ![c] = at'[c]]
  BY <1>t DEF ClientStep, Statement, StatementRaises, Commit, CommitRaises, Rollback
<1>4. CASE Statement(c) \/ StatementRaises(c)
  BY <1>1, <1>3, <1>4 DEF Statement, StatementRaises
<1>5. CASE Commit(c) \/ CommitRaises(c) \/ Rollback(c)
  BY <1>2, <1>3, <1>5 DEF Commit, CommitRaises, Rollback, Writing
<1>6. QED
  BY <1>4, <1>5 DEF ClientStep

\* An uncrossed transaction's rows stay together: its own steps move it from one
\* place to the next, another's reach it only when it is not writing.
LEMMA UnitsStep ==
  ASSUME TypeOK, Crossing, Units, NEW c \in Clients, ClientStep(c)
  PROVE  Units'
<1>t. at \in [Clients -> States]
  BY DEF TypeOK
<1>1. SUFFICES ASSUME NEW g \in Groups, g \notin crossed'
               PROVE  Unit(g)'
  BY DEF Units
<1>2. g \notin crossed /\ Unit(g)
  BY <1>1 DEF Units, ClientStep, Statement, StatementRaises, Commit, CommitRaises, Rollback, Cross
<1>3. RowsOf(g) = {<<g, 1>>, <<g, 2>>} /\ g \in Clients
  BY RowTypes DEF Clients
<1>4. CASE g = c
  <2>1. CASE Statement(g)
    BY <1>2, <1>3, <1>t, <2>1 DEF Statement, Write, Unit, Whole
  <2>2. CASE StatementRaises(g)
    BY <1>2, <1>3, <1>t, <2>2 DEF StatementRaises, Unit, Whole
  <2>3. CASE Commit(g)
    BY <1>2, <1>3, <1>t, <2>3 DEF Commit, CommitPending, Unit, Whole
  <2>4. CASE CommitRaises(g)
    BY <1>2, <1>3, <1>t, <2>4 DEF CommitRaises, CommitPending, Unit, Whole
  <2>5. CASE Rollback(g)
    BY <1>2, <1>3, <1>t, <2>5 DEF Rollback, Unit, Whole
  <2>6. QED
    BY <1>4, <2>1, <2>2, <2>3, <2>4, <2>5 DEF ClientStep
<1>5. CASE g # c
  <2>1. at'[g] = at[g]
    BY <1>5, <1>3, <1>t DEF ClientStep, Statement, StatementRaises, Commit, CommitRaises, Rollback
  <2>2. CASE Statement(c)
    <3>1. RowsOf(g) \cap pending' = RowsOf(g) \cap pending /\ disk' = disk
      BY <1>3, <1>5, <2>2 DEF Statement, Write
    <3>2. QED
      BY <1>2, <1>3, <2>1, <3>1 DEF Unit, Whole
  <2>3. CASE StatementRaises(c)
    BY <1>2, <1>3, <2>1, <2>3 DEF StatementRaises, Unit, Whole
  <2>4. CASE Commit(c) \/ CommitRaises(c) \/ Rollback(c)
    <3>1. Writing(c) /\ ~Writing(g)
      BY <1>2, <1>3, <1>5, <2>4 DEF Commit, CommitRaises, Rollback, Crossing, Writing
    <3>2. /\ at[g] \in {"new", "undone", "ok", "raised"}
          /\ \/ disk' = disk \cup pending /\ pending' = {}
             \/ UNCHANGED <<disk, pending>>
             \/ disk' = disk /\ pending' = {}
      BY <1>3, <1>t, <2>4, <3>1
      DEF Commit, CommitRaises, CommitPending, Rollback, Writing, States
    <3>3. QED
      BY <1>2, <1>3, <2>1, <3>2 DEF Unit, Whole
  <2>5. QED
    BY <2>2, <2>3, <2>4 DEF ClientStep
<1>6. QED
  BY <1>4, <1>5

\* What was written stays pending or reaches the file, or its writer is robbed.
LEMMA KeptStep ==
  ASSUME TypeOK, Kept, NEW c \in Clients, ClientStep(c)
  PROVE  Kept'
<1>t. /\ at \in [Clients -> States]
      /\ \A d \in Singles : at[d] \notin {"half", "undoing", "undone"}
  BY DEF TypeOK
<1>1. SUFFICES ASSUME NEW w \in Clients, w \notin robbed'
               PROVE  /\ at'[w] = "half" => <<w, 1>> \in pending' \cup disk'
                      /\ at'[w] = "wrote" => RowsOf(w) \subseteq pending' \cup disk'
                      /\ at'[w] = "ok" => RowsOf(w) \subseteq disk'
  BY DEF Kept, RowsOf
<1>2. /\ w \notin robbed
      /\ at[w] = "half" => <<w, 1>> \in pending \cup disk
      /\ at[w] = "wrote" => RowsOf(w) \subseteq pending \cup disk
      /\ at[w] = "ok" => RowsOf(w) \subseteq disk
  BY <1>1 DEF Kept, ClientStep, Statement, StatementRaises, Commit, CommitRaises, Rollback
<1>3. /\ w \in Groups => RowsOf(w) = {<<w, 1>>, <<w, 2>>}
      /\ w \notin Groups => RowsOf(w) = {<<w, 1>>} /\ at[w] # "half"
      /\ <<w, 1>> \in RowsOf(w)
  BY <1>t, RowTypes DEF Clients
<1>4. CASE Statement(c)
  <2>1. disk' = disk /\ pending' = pending \cup {<<c, IF at[c] = "half" THEN 2 ELSE 1>>}
    BY <1>4 DEF Statement, Write
  <2>2. CASE w = c
    BY <1>2, <1>3, <1>4, <1>t, <2>1, <2>2 DEF Statement
  <2>3. CASE w # c
    BY <1>2, <1>4, <1>t, <2>1, <2>3 DEF Statement
  <2>4. QED
    BY <2>2, <2>3
<1>5. CASE StatementRaises(c)
  BY <1>2, <1>5, <1>t DEF StatementRaises
<1>6. CASE Commit(c)
  BY <1>2, <1>6, <1>t DEF Commit, CommitPending
<1>7. CASE CommitRaises(c)
  BY <1>2, <1>7, <1>t DEF CommitRaises, CommitPending
<1>8. CASE Rollback(c)
  <2>1. disk' = disk /\ at'[c] = "undone" /\ (w # c => at'[w] = at[w])
    BY <1>8, <1>t DEF Rollback
  <2>2. CASE w # c
    <3>1. RowsOf(w) \cap pending = {}
      BY <1>1, <1>8, <2>2 DEF Rollback
    <3>2. QED
      BY <1>2, <1>3, <2>1, <2>2, <3>1
  <2>3. QED
    BY <2>1, <2>2
<1>9. QED
  BY <1>4, <1>5, <1>6, <1>7, <1>8 DEF ClientStep

\* The daemon's own connection goes: with it what was pending, and every write
\* under way.
LEMMA LeaveMainStep ==
  ASSUME TypeOK, Crossing, Units, Kept, Leave(Main)
  PROVE  /\ at' \in [Clients -> States]
         /\ \A d \in Singles : at'[d] \notin {"half", "undoing", "undone"}
         /\ Crossing' /\ Units' /\ Kept'
<1>1. /\ at \in [Clients -> States]
      /\ \A d \in Singles : at[d] \notin {"half", "undoing", "undone"}
  BY DEF TypeOK
<1>2. /\ pending' = {} /\ UNCHANGED <<disk, crossed, robbed>>
      /\ at' = [c \in Clients |-> IF Writing(c) THEN "raised" ELSE at[c]]
  BY DEF Leave
<1>3. \A c \in Clients : ~Writing(c)' /\ (at'[c] = at[c] \/ (Writing(c) /\ at'[c] = "raised"))
  BY <1>2 DEF Writing
<1>4. at' \in [Clients -> States] /\ Crossing'
  BY <1>1, <1>2, <1>3 DEF States, Crossing
<1>5. \A d \in Singles : at'[d] \notin {"half", "undoing", "undone"}
  BY <1>1, <1>3 DEF Clients
<1>6. Units'
  <2> SUFFICES ASSUME NEW g \in Groups, g \notin crossed PROVE Unit(g)'
    BY <1>2 DEF Units
  <2>1. Unit(g) /\ g \in Clients
    BY DEF Units, Clients
  <2>2. CASE Writing(g)
    BY <1>2, <1>3, <2>1, <2>2 DEF Unit, Writing, Whole, RowsOf
  <2>3. CASE ~Writing(g)
    BY <1>2, <1>3, <2>1, <2>3 DEF Unit, Writing, Whole, RowsOf
  <2>4. QED
    BY <2>2, <2>3
<1>7. Kept'
  <2> SUFFICES ASSUME NEW w \in Clients, w \notin robbed'
               PROVE  /\ at'[w] = "half" => <<w, 1>> \in pending' \cup disk'
                      /\ at'[w] = "wrote" => RowsOf(w) \subseteq pending' \cup disk'
                      /\ at'[w] = "ok" => RowsOf(w) \subseteq disk'
    BY DEF Kept, RowsOf
  <2>1. at'[w] # "half" /\ at'[w] # "wrote" /\ (at'[w] = "ok" => at[w] = "ok")
    BY <1>3 DEF Writing
  <2>2. disk' = disk /\ robbed' = robbed
    BY <1>2
  <2>3. at[w] = "ok" => RowsOf(w) \subseteq disk
    BY <2>2 DEF Kept
  <2>4. QED
    BY <2>1, <2>2, <2>3
<1>8. QED
  BY <1>4, <1>5, <1>6, <1>7

-----------------------------------------------------------------------------
LEMMA NextInv == IInv /\ [Next]_vars => IInv'
<1> SUFFICES ASSUME IInv, [Next]_vars PROVE IInv'
  OBVIOUS
<1> USE DEF IInv
<1>1. CASE DoorStep
  <2>1. UNCHANGED <<at, pending, disk, crossed, robbed>>
    BY <1>1, DoorLeavesRows DEF rowVars
  <2>2. TypeOK' /\ Caught' /\ OpenIsMigrated'
    BY <1>1, <2>1, DoorsStep DEF DoorStep, TypeOK
  <2>3. Crossing' /\ Units' /\ Kept'
    BY <2>1 DEF Crossing, Writing, Units, Unit, Whole, RowsOf, Kept
  <2>4. QED
    BY <2>2, <2>3
<1>2. CASE Leave(Main)
  <2>1. Caught' /\ OpenIsMigrated'
    BY <1>2, DoorsStep
  <2>2. TypeOK'
    BY <1>2, DoorsStep, LeaveMainStep DEF TypeOK, Leave, Rows, RowsOf
  <2>3. QED
    BY <1>2, <2>1, <2>2, LeaveMainStep
<1>3. ASSUME NEW c \in Clients, ClientStep(c) PROVE IInv'
  <2>1. UNCHANGED <<door, next, columns>>
    BY <1>3, ClientLeavesDoors DEF doorVars
  <2>2. Caught' /\ OpenIsMigrated'
    BY <2>1 DEF Caught, OpenIsMigrated
  <2>3. TypeOK'
    BY <1>3, <2>1, ClientType DEF TypeOK, Rows, RowsOf
  <2>4. QED
    BY <1>3, <2>2, <2>3, CrossingStep, UnitsStep, KeptStep
<1>4. CASE UNCHANGED vars
  BY <1>4 DEF vars, doorVars, rowVars, TypeOK, Caught, OpenIsMigrated, Crossing, Writing,
    Units, Unit, Whole, Kept, RowsOf, Rows
<1>5. QED
  BY <1>1, <1>2, <1>3, <1>4, NextCases

\* The strengthening holds in every reachable state.
THEOREM Inductive == Spec => []IInv
BY InitInv, NextInv, PTL DEF Spec

\* Type correctness (memory/store.py, connect and execute).
THEOREM TypeCorrect == Spec => []TypeOK
<1>1. IInv => TypeOK
  BY DEF IInv
<1>2. QED
  BY <1>1, Inductive, PTL

\* Whoever's connect has returned finds the tables up to date, for any number
\* of processes opening the file at once and dying anywhere.
THEOREM OpenedIsMigrated == Spec => []OpenIsMigrated
<1>1. IInv => OpenIsMigrated
  BY DEF IInv
<1>2. QED
  BY <1>1, Inductive, PTL

\* A transaction no other write overlapped is all or nothing in the file.
THEOREM TransactionsAreWhole == Spec => []WholeUnlessCrossed
<1>1. IInv => WholeUnlessCrossed
  <2> SUFFICES ASSUME IInv, NEW g \in Groups, g \notin crossed PROVE Whole(g)
    BY DEF WholeUnlessCrossed
  <2>1. Unit(g) /\ at[g] \in States
    BY DEF IInv, Units, TypeOK, Clients
  <2>2. QED
    BY <2>1 DEF Unit, Whole, States
<1>2. QED
  BY <1>1, Inductive, PTL

\* A rolled-back transaction no other write overlapped has left nothing.
THEOREM RollbackIsClean == Spec => []UndoneLeavesNothing
<1>1. IInv => UndoneLeavesNothing
  BY DEF IInv, Units, Unit, UndoneLeavesNothing
<1>2. QED
  BY <1>1, Inductive, PTL

\* What a caller was told is written is in the file, whatever fails afterwards.
THEOREM AcknowledgedStays == Spec => []AcknowledgedIsDurable
<1>1. IInv => AcknowledgedIsDurable
  BY DEF IInv, Kept, AcknowledgedIsDurable
<1>2. QED
  BY <1>1, Inductive, PTL

\* While statements keep out of each other's writes, nobody crosses.
LEMMA NobodyCrosses ==
  ASSUME TypeOK, crossed = {}, [Next]_vars, [Exclusive]_vars PROVE crossed' = {}
<1>1. CASE DoorStep
  BY <1>1, DoorLeavesRows DEF rowVars
<1>2. CASE Leave(Main)
  BY <1>2 DEF Leave
<1>3. ASSUME NEW c \in Clients, ClientStep(c) PROVE crossed' = {}
  <2>1. CASE Commit(c) \/ CommitRaises(c) \/ Rollback(c)
    BY <2>1 DEF Commit, CommitRaises, Rollback
  <2>2. CASE Statement(c) \/ StatementRaises(c)
    <3>1. at'[c] # at[c]
      BY <2>2 DEF TypeOK, Statement, StatementRaises
    <3>2. Exclusive
      BY <3>1 DEF vars
    <3>3. {d \in Clients \ {c} : Writing(d)} = {}
      BY <2>2, <3>2 DEF Exclusive
    <3>4. QED
      BY <2>2, <3>3 DEF Statement, StatementRaises, Cross
  <2>3. QED
    BY <1>3, <2>1, <2>2 DEF ClientStep
<1>4. QED
  BY <1>1, <1>2, <1>3, NextCases DEF vars, rowVars

\* With a lock around each execute and transaction a transaction would be what the
\* docstring of transaction says, through errors, cancellation, close and crash
\* (memory/store.py): the missing lock is all that parts its rows.
THEOREM LockedTransactionsAreWhole == Spec /\ [][Exclusive]_vars => []UnitsAreWhole
<1>1. Init => crossed = {}
  BY DEF Init
<1>2. TypeOK /\ crossed = {} /\ [Next]_vars /\ [Exclusive]_vars => (crossed = {})'
  BY NobodyCrosses
<1>3. WholeUnlessCrossed /\ crossed = {} => UnitsAreWhole
  BY DEF WholeUnlessCrossed, UnitsAreWhole
<1>4. QED
  BY <1>1, <1>2, <1>3, TypeCorrect, TransactionsAreWhole, PTL DEF Spec

-----------------------------------------------------------------------------
\* The event bus.

Entries == Events \cup {End}

\* The types the steps below share.
LEMMA EventTypes ==
  ASSUME EventTypeOK
  PROVE  /\ Len(log) \in Nat /\ DOMAIN log = Events
         /\ \A e \in Events : log[e] \in [by: Publishers, terminal: BOOLEAN]
         /\ \A p \in Publishers : pub[p] \in Nat /\ (pub[p] # 0 => pub[p] \in Events)
         /\ queue \in Seq(Entries) /\ Len(queue) \in Nat /\ DOMAIN queue = 1..Len(queue)
         /\ \A i \in DOMAIN queue : queue[i] \in Entries
         /\ dropped \in Nat /\ published \subseteq Events /\ Events \subseteq Nat
         /\ \A e \in Events : e # End
<1>1. Len(log) \in Nat /\ DOMAIN log = Events
      /\ \A e \in Events : log[e] \in [by: Publishers, terminal: BOOLEAN]
  <2>1. log \in Seq([by: Publishers, terminal: BOOLEAN])
    BY DEF EventTypeOK
  <2>2. QED
    BY <2>1, LenProperties, ElementOfSeq DEF Events
<1>2. queue \in Seq(Entries)
  BY DEF EventTypeOK, Entries
<1>3. Len(queue) \in Nat /\ DOMAIN queue = 1..Len(queue)
      /\ \A i \in DOMAIN queue : queue[i] \in Entries
  BY <1>2, LenProperties, ElementOfSeq
<1>4. \A p \in Publishers : pub[p] \in Nat /\ (pub[p] # 0 => pub[p] \in Events)
  BY <1>1 DEF EventTypeOK, Events
<1>5. Events \subseteq Nat /\ \A e \in Events : e # End
  BY <1>1, EndAssumption DEF Events
<1>6. QED
  BY <1>1, <1>2, <1>3, <1>4, <1>5 DEF EventTypeOK

\* An append to the log keeps the events it had.
LEMMA LogGrows ==
  ASSUME EventTypeOK, NEW r \in [by: Publishers, terminal: BOOLEAN], log' = Append(log, r)
  PROVE  /\ log' \in Seq([by: Publishers, terminal: BOOLEAN])
         /\ Len(log') = Len(log) + 1 /\ Events' = Events \cup {Len(log) + 1}
         /\ \A e \in Events : log'[e] = log[e]
         /\ log'[Len(log) + 1] = r
         /\ Len(log) + 1 \notin Events
<1>1. log \in Seq([by: Publishers, terminal: BOOLEAN]) /\ Len(log) \in Nat
  BY LenProperties DEF EventTypeOK
<1>2. QED
  BY <1>1, AppendProperties DEF Events

\* The queue moves up by k places, and x comes last unless it is left out.
Moves(k, x) ==
  /\ Len(queue') = Len(queue) - k + 1
  /\ \A i \in 1..(Len(queue) - k) : queue'[i] = queue[i + k]
  /\ queue'[Len(queue) - k + 1] = x

\* Subscription.offer: the event comes last, after all but at most the oldest.
LEMMA OfferQueue ==
  ASSUME EventTypeOK, NEW e \in Events, Offer(e), sub = "open", Mine(e)
  PROVE  /\ queue' \in Seq(Entries) /\ Len(queue') <= QueueSize /\ UNCHANGED sub
         /\ \/ Len(queue) < QueueSize /\ Moves(0, e) /\ UNCHANGED dropped
            \/ queue # <<>> /\ Moves(1, e) /\ dropped' = dropped + 1
<1>1. queue \in Seq(Entries) /\ Len(queue) \in Nat /\ e \in Entries /\ Len(queue) <= QueueSize
  BY EventTypes DEF EventTypeOK, Entries
<1>2. CASE Len(queue) < QueueSize
  <2>1. queue' = Append(queue, e) /\ UNCHANGED <<dropped, sub>>
    BY <1>2 DEF Offer
  <2>2. QED
    BY <1>1, <1>2, <2>1, AppendProperties, SizeAssumption DEF Moves
<1>3. CASE ~(Len(queue) < QueueSize)
  <2>1. queue' = Append(Tail(queue), e) /\ dropped' = dropped + 1 /\ UNCHANGED sub
    BY <1>3 DEF Offer
  <2>2. queue # <<>> /\ Len(queue) = QueueSize
    BY <1>1, <1>3, EmptySeq, SizeAssumption
  <2>3. /\ Tail(queue) \in Seq(Entries) /\ Len(Tail(queue)) = Len(queue) - 1
        /\ \A i \in 1..Len(Tail(queue)) : Tail(queue)[i] = queue[i + 1]
    BY <1>1, <2>2, HeadTailProperties
  <2>4. QED
    BY <1>1, <2>1, <2>2, <2>3, AppendProperties, SizeAssumption DEF Moves
<1>4. QED
  BY <1>2, <1>3

\* Subscription.close: what waits keeps its place.
LEMMA CloseQueue ==
  ASSUME EventTypeOK, CloseSubscription
  PROVE  /\ queue' \in Seq(Entries) /\ Len(queue') <= QueueSize
         /\ sub' = "closed" /\ UNCHANGED dropped
         /\ UNCHANGED queue \/ Moves(0, End)
<1>1. queue \in Seq(Entries) /\ Len(queue) \in Nat /\ End \in Entries /\ Len(queue) <= QueueSize
  BY EventTypes DEF EventTypeOK, Entries
<1>2. QED
  BY <1>1, AppendProperties, SizeAssumption DEF CloseSubscription, Moves

\* A queue that moves up keeps its order and what is known of its entries.
LEMMA QueueMoves ==
  ASSUME EventTypeOK, QueuePublished, LiveInOrder, UNCHANGED log,
         queue' \in Seq(Entries), published \subseteq published',
         NEW k \in {0, 1}, NEW x \in Entries, k <= Len(queue), Moves(k, x),
         x # End => /\ x \in published' /\ Mine(x)
                    /\ \A i \in DOMAIN queue :
                         queue[i] # End /\ log[queue[i]].by = log[x].by => queue[i] < x
  PROVE  QueuePublished' /\ LiveInOrder'
<1>1. /\ Len(queue) \in Nat /\ DOMAIN queue = 1..Len(queue)
      /\ DOMAIN queue' = 1..Len(queue') /\ Len(queue') \in Nat
      /\ Len(queue') = Len(queue) - k + 1
      /\ \A i \in 1..(Len(queue) - k) : queue'[i] = queue[i + k] /\ i + k \in DOMAIN queue
      /\ queue'[Len(queue) - k + 1] = x
  BY EventTypes, LenProperties DEF Moves
<1>2. \A i \in DOMAIN queue' : i \in 1..(Len(queue) - k) \/ i = Len(queue) - k + 1
  BY <1>1
<1>3. QueuePublished'
  BY <1>1, <1>2 DEF QueuePublished, Mine
<1>4. LiveInOrder'
  <2> SUFFICES ASSUME NEW i \in DOMAIN queue', NEW j \in DOMAIN queue', i < j,
                      queue'[i] # End, queue'[j] # End,
                      log[queue'[i]].by = log[queue'[j]].by
               PROVE  queue'[i] < queue'[j]
    BY DEF LiveInOrder
  <2>1. i \in 1..(Len(queue) - k)
    BY <1>1, <1>2
  <2>2. CASE j \in 1..(Len(queue) - k)
    <3>1. i + k \in DOMAIN queue /\ j + k \in DOMAIN queue /\ i + k < j + k
      BY <1>1, <2>1, <2>2
    <3>2. queue'[i] = queue[i + k] /\ queue'[j] = queue[j + k]
      BY <1>1, <2>1, <2>2
    <3>3. QED
      BY <3>1, <3>2 DEF LiveInOrder
  <2>3. CASE j = Len(queue) - k + 1
    BY <1>1, <2>1, <2>3
  <2>4. QED
    BY <1>2, <2>2, <2>3
<1>5. QED
  BY <1>3, <1>4

LEMMA EventInitInv == EventInit => EventInv
<1> SUFFICES ASSUME EventInit PROVE EventInv
  OBVIOUS
<1>1. log = <<>> /\ queue = <<>> /\ Len(log) = 0 /\ Len(queue) = 0
      /\ log \in Seq([by: Publishers, terminal: BOOLEAN]) /\ queue \in Seq(Events \cup {End})
  BY EmptySeq DEF EventInit
<1>2. EventTypeOK
  <2>1. /\ pub \in [Publishers -> 0..Len(log)] /\ heard \in [Publishers -> BOOLEAN]
        /\ published \subseteq Events /\ replay \subseteq Events /\ sent \subseteq Events
        /\ dropped \in Nat /\ Len(queue) <= QueueSize
    BY <1>1, SizeAssumption DEF EventInit
  <2>2. QED
    BY <1>1, <2>1 DEF EventInit, EventTypeOK
<1>3. QueuePublished /\ LiveInOrder
  <2>1. DOMAIN queue = {}
    BY <1>1
  <2>2. QED
    BY <2>1 DEF QueuePublished, LiveInOrder
<1>4. InFlight /\ ReplayOver /\ Accounted
  BY DEF EventInit, InFlight, ReplayOver, Accounted, Following
<1>5. QED
  BY <1>2, <1>3, <1>4 DEF EventInv

\* publish begins: the event is in the history and in no queue yet.
LEMMA BeginStep ==
  ASSUME EventInv, NEW p \in Publishers, NEW t \in BOOLEAN, BeginPublish(p, t)
  PROVE  EventInv'
<1> DEFINE n == Len(log) + 1
<1> USE DEF EventInv
<1>1. /\ log' = Append(log, [by |-> p, terminal |-> t])
      /\ UNCHANGED <<published, finished, sub, queue, dropped, stream, wants, replay, sent, whole>>
      /\ pub[p] = 0 /\ heard' = [heard EXCEPT ![p] = (sub = "open")]
  BY DEF BeginPublish, subVars, streamVars
<1>2. /\ log' \in Seq([by: Publishers, terminal: BOOLEAN])
      /\ Len(log') = n /\ Events' = Events \cup {n} /\ n \notin Events
      /\ \A e \in Events : log'[e] = log[e]
      /\ log'[n] = [by |-> p, terminal |-> t]
  BY <1>1, LogGrows, Zenon
<1>3. pub' = [pub EXCEPT ![p] = n] /\ n \in Nat \ {0} /\ n \in Events'
  BY <1>2, EventTypes DEF BeginPublish, Events
<1>4. EventTypeOK'
  <2>1. pub' \in [Publishers -> 0..n]
    BY <1>3, EventTypes DEF EventTypeOK
  <2>2. queue' \in Seq(Events' \cup {End})
    BY <1>1, <1>2, SeqMonotonic DEF EventTypeOK
  <2>3. QED
    BY <1>1, <1>2, <2>1, <2>2 DEF EventTypeOK
<1>5. InFlight'
  <2> SUFFICES ASSUME NEW q \in Publishers, pub'[q] # 0
               PROVE  /\ log'[pub'[q]].by = q /\ pub'[q] \notin published
                      /\ \A e \in Events' : log'[e].by = q => e <= pub'[q]
    BY <1>1 DEF InFlight
  <2>1. CASE q = p
    BY <1>2, <1>3, <2>1, EventTypes DEF EventTypeOK, Events
  <2>2. CASE q # p
    <3>1. pub'[q] = pub[q] /\ pub[q] \in Events
      BY <1>3, <2>2, EventTypes DEF EventTypeOK
    <3>2. QED
      BY <1>2, <2>2, <3>1 DEF InFlight
  <2>3. QED
    BY <2>1, <2>2
<1>6. \A e \in Events : Mine(e)' <=> Mine(e)
  BY <1>2 DEF Mine
<1>7. QueuePublished' /\ LiveInOrder'
  BY <1>1, <1>2, <1>6, EventTypes DEF QueuePublished, LiveInOrder, Entries
<1>8. Accounted'
  <2> SUFFICES ASSUME Following'
               PROVE  /\ Cardinality(Gap') <= dropped'
                      /\ \A q \in Publishers : Offered(q)'
    BY DEF Accounted
  <2>1. Following
    BY <1>1 DEF Following
  <2>2. Gap' = Gap
    <3>1. \A e \in published : e \in Events /\ (Mine(e)' <=> Mine(e)) /\ (Ahead(e)' <=> Ahead(e))
      BY <1>1, <1>6, EventTypes DEF Ahead
    <3>2. QED
      BY <1>1, <3>1 DEF Gap, Missing
  <2>3. ASSUME NEW q \in Publishers PROVE Offered(q)'
    <3>1. CASE q = p
      BY <1>1, <2>1, <3>1 DEF EventTypeOK, Offered, Following
    <3>2. CASE q # p
      <4>1. pub'[q] = pub[q] /\ heard'[q] = heard[q] /\ (pub[q] # 0 => pub[q] \in Events)
        BY <1>1, <1>3, <3>2, EventTypes DEF EventTypeOK
      <4>2. Offered(q)
        BY <2>1 DEF Accounted
      <4>3. QED
        BY <1>1, <1>2, <4>1, <4>2 DEF Offered, Mine
    <3>3. QED
      BY <3>1, <3>2
  <2>4. QED
    BY <1>1, <2>1, <2>2, <2>3 DEF Accounted
<1>9. ReplayOver'
  BY <1>1 DEF ReplayOver
<1>10. QED
  BY <1>4, <1>5, <1>7, <1>8, <1>9

\* What is missing for good is a finite set.
LEMMA GapIsFinite ==
  ASSUME EventTypeOK PROVE IsFiniteSet(Gap) /\ Cardinality(Gap) \in Nat
<1>1. Gap \in SUBSET Events /\ Len(log) \in Int
  BY EventTypes DEF Gap, Missing
<1>2. IsFiniteSet(Events)
  BY <1>1, FS_Interval DEF Events
<1>3. QED
  BY <1>1, <1>2, FS_Subset, FS_CardinalityType

LEMMA GapShrinks ==
  ASSUME EventTypeOK, Gap' \subseteq Gap
  PROVE  Cardinality(Gap') <= Cardinality(Gap) /\ Cardinality(Gap') \in Nat
BY GapIsFinite, FS_Subset, FS_CardinalityType

LEMMA GapGrowsByOne ==
  ASSUME EventTypeOK, NEW x, Gap' \subseteq Gap \cup {x}
  PROVE  Cardinality(Gap') <= Cardinality(Gap) + 1 /\ Cardinality(Gap') \in Nat
<1>1. /\ IsFiniteSet(Gap \cup {x}) /\ Cardinality(Gap \cup {x}) \in Nat
      /\ Cardinality(Gap \cup {x}) <= Cardinality(Gap) + 1
  <2>1. IsFiniteSet(Gap) /\ Cardinality(Gap) \in Nat
    BY GapIsFinite
  <2>2. /\ IsFiniteSet(Gap \cup {x})
        /\ Cardinality(Gap \cup {x}) = IF x \in Gap THEN Cardinality(Gap) ELSE Cardinality(Gap) + 1
    BY <2>1, FS_AddElement
  <2>3. QED
    BY <2>1, <2>2
<1>2. Cardinality(Gap') <= Cardinality(Gap \cup {x}) /\ Cardinality(Gap') \in Nat
  BY <1>1, FS_Subset, FS_CardinalityType
<1>3. QED
  BY <1>1, <1>2, GapIsFinite

\* publish returns: the event reaches the queue, or it was in what the stream
\* copied, or it is not the stream's.
LEMMA PublishStep ==
  ASSUME EventInv, NEW p \in Publishers, Publish(p)
  PROVE  EventInv'
<1> USE DEF EventInv
<1>0. PICK e \in Events : e = pub[p] /\ e # 0
  BY EventTypes DEF Publish
<1>1. /\ UNCHANGED <<log, heard, finished, stream, wants, replay, sent, whole>>
      /\ pub' = [pub EXCEPT ![p] = 0] /\ published' = published \cup {e}
      /\ log[e].by = p /\ e \notin published
      /\ \A f \in Events : log[f].by = p => f <= e
  BY <1>0 DEF Publish, streamVars, InFlight
<1>2. \/ UNCHANGED <<sub, queue, dropped>>
      \/ heard[p] /\ Offer(e) /\ sub = "open" /\ Mine(e)
  BY <1>0 DEF Publish, Offer, subVars
<1>3. ~heard[p] \/ sub # "open" \/ ~Mine(e) => UNCHANGED <<sub, queue, dropped>>
  BY <1>0 DEF Publish, Offer, subVars
<1>4. /\ queue' \in Seq(Entries) /\ Len(queue') <= QueueSize /\ UNCHANGED sub
      /\ QueuePublished' /\ LiveInOrder' /\ dropped' \in Nat
  <2>1. CASE UNCHANGED <<sub, queue, dropped>>
    BY <1>1, <2>1, EventTypes DEF QueuePublished, LiveInOrder, Mine, EventTypeOK
  <2>2. CASE Offer(e) /\ sub = "open" /\ Mine(e)
    <3>1. /\ queue' \in Seq(Entries) /\ Len(queue') <= QueueSize /\ UNCHANGED sub
          /\ dropped' \in Nat
          /\ \E k \in {0, 1} : k <= Len(queue) /\ Moves(k, e)
      BY <1>1, <2>2, OfferQueue, EventTypes, EmptySeq
    <3>2. /\ e \in published' /\ Mine(e) /\ e \in Entries /\ published \subseteq published'
          /\ \A i \in DOMAIN queue :
               queue[i] # End /\ log[queue[i]].by = log[e].by => queue[i] < e
      BY <1>1, <2>2, EventTypes DEF QueuePublished, Entries
    <3>3. QED
      BY <1>1, <3>1, <3>2, QueueMoves
  <2>3. QED
    BY <1>2, <2>1, <2>2
<1>5. Events' = Events /\ Entries' = Entries
  BY <1>1 DEF Events, Entries
<1>6. EventTypeOK'
  <2>1. pub' \in [Publishers -> 0..Len(log)] /\ published' \subseteq Events
    BY <1>1, EventTypes DEF EventTypeOK
  <2>2. queue' \in Seq(Events' \cup {End})
    BY <1>4, <1>5 DEF Entries
  <2>3. QED
    BY <1>1, <1>4, <1>5, <2>1, <2>2 DEF EventTypeOK
<1>7. InFlight' /\ ReplayOver'
  <2>1. ASSUME NEW q \in Publishers, pub'[q] # 0
        PROVE  q # p /\ pub'[q] = pub[q] /\ pub[q] # 0
    BY <1>1, <2>1 DEF EventTypeOK
  <2>2. InFlight'
    BY <1>1, <1>5, <2>1 DEF InFlight
  <2>3. QED
    BY <1>1, <2>2 DEF ReplayOver
<1>8. Accounted'
  <2> SUFFICES ASSUME Following'
               PROVE  Cardinality(Gap') <= dropped' /\ \A q \in Publishers : Offered(q)'
    BY DEF Accounted
  <2>1. Following /\ Cardinality(Gap) <= dropped
    BY <1>1, <1>4 DEF Following, Accounted
  <2>2. ASSUME NEW q \in Publishers PROVE Offered(q)'
    <3>1. q # p => pub'[q] = pub[q]
      BY <1>1 DEF EventTypeOK
    <3>2. q = p => pub'[q] = 0
      BY <1>1 DEF EventTypeOK
    <3>3. Offered(q)
      BY <2>1 DEF Accounted
    <3>4. QED
      BY <1>1, <3>1, <3>2, <3>3 DEF Offered, Mine
  <2>3. \A f : f \in Missing' => f \in Missing \/ (f = e /\ Mine(e) /\ e \notin sent)
    BY <1>1 DEF Missing, Mine
  <2>4. CASE heard[p] /\ Mine(e)
    <3>1. /\ \/ Moves(0, e) /\ UNCHANGED dropped
             \/ queue # <<>> /\ Moves(1, e) /\ dropped' = dropped + 1
          /\ UNCHANGED sub
      BY <1>0, <2>1, <2>4, OfferQueue DEF Publish, Following
    <3>2. Len(queue) \in Nat /\ DOMAIN queue = 1..Len(queue) /\ DOMAIN queue' = 1..Len(queue')
      BY <1>4, EventTypes, LenProperties
    <3>3. CASE Moves(0, e) /\ UNCHANGED dropped
      <4>1. \A f : Ahead(f) \/ f = e => Ahead(f)'
        BY <1>1, <3>2, <3>3 DEF Ahead, Moves
      <4>2. Gap' \subseteq Gap
        BY <2>3, <4>1 DEF Gap
      <4>3. QED
        BY <2>1, <2>2, <3>3, <4>2, GapShrinks, GapIsFinite, EventTypes
    <3>4. CASE queue # <<>> /\ Moves(1, e) /\ dropped' = dropped + 1
      <4>1. \A f : (Ahead(f) /\ f # queue[1]) \/ f = e => Ahead(f)'
        <5>1. \A i \in 1..Len(queue) : i # 1 => i - 1 \in 1..Len(queue') /\ queue'[i - 1] = queue[i]
          BY <3>2, <3>4 DEF Moves
        <5>2. Len(queue') \in 1..Len(queue') /\ queue'[Len(queue')] = e
          BY <3>2, <3>4, <1>4, EmptySeq, EventTypes DEF Moves
        <5>3. QED
          BY <1>1, <3>2, <5>1, <5>2 DEF Ahead
      <4>2. Gap' \subseteq Gap \cup {queue[1]}
        BY <2>3, <4>1 DEF Gap
      <4>3. Cardinality(Gap') <= Cardinality(Gap) + 1 /\ Cardinality(Gap') \in Nat
        BY <4>2, GapGrowsByOne
      <4>4. QED
        BY <2>1, <2>2, <3>4, <4>3, GapIsFinite, EventTypes
    <3>5. QED
      BY <3>1, <3>3, <3>4
  <2>5. CASE ~(heard[p] /\ Mine(e))
    <3>1. UNCHANGED <<sub, queue, dropped>>
      BY <1>3, <2>5
    <3>2. Mine(e) => e \in sent \cup replay
      BY <1>0, <2>1, <2>5 DEF Accounted, Offered
    <3>3. \A f : Ahead(f) => Ahead(f)'
      BY <1>1, <3>1 DEF Ahead
    <3>4. e \in replay => Ahead(e)'
      BY <1>1 DEF Ahead
    <3>5. Gap' \subseteq Gap
      BY <2>3, <3>2, <3>3, <3>4 DEF Gap
    <3>6. QED
      BY <2>1, <2>2, <3>1, <3>5, GapShrinks, GapIsFinite, EventTypes
  <2>6. QED
    BY <2>4, <2>5
<1>9. QED
  BY <1>4, <1>6, <1>7, <1>8

\* A step that leaves the bus alone and takes, sends or closes.
LEMMA BusKept ==
  ASSUME EventTypeOK, InFlight, UNCHANGED <<log, pub, published, heard>>
  PROVE  Events' = Events /\ Entries' = Entries /\ InFlight'
BY DEF Events, Entries, InFlight

\* What remains in the queue is what was there, in its order.
LEMMA TailStays ==
  ASSUME NEW S, NEW q \in Seq(S), q # <<>>
  PROVE  /\ Tail(q) \in Seq(S) /\ Len(Tail(q)) \in Nat /\ Len(Tail(q)) <= Len(q)
         /\ \A i \in DOMAIN Tail(q) : Tail(q)[i] = q[i + 1] /\ i + 1 \in 1..Len(q)
<1>1. /\ Tail(q) \in Seq(S) /\ Len(Tail(q)) = Len(q) - 1
      /\ \A i \in 1..Len(Tail(q)) : Tail(q)[i] = q[i + 1]
  BY HeadTailProperties
<1>2. DOMAIN Tail(q) = 1..Len(Tail(q)) /\ Len(q) \in Nat
  BY <1>1, LenProperties
<1>3. QED
  BY <1>1, <1>2

LEMMA QueueStays ==
  ASSUME EventTypeOK, QueuePublished, LiveInOrder, UNCHANGED <<log, published>>,
         UNCHANGED queue \/ CloseSubscription \/ (queue # <<>> /\ queue' = Tail(queue))
  PROVE  QueuePublished' /\ LiveInOrder' /\ queue' \in Seq(Entries) /\ Len(queue') <= QueueSize
<1>t. queue \in Seq(Entries) /\ Len(queue) \in Nat /\ DOMAIN queue = 1..Len(queue)
      /\ End \in Entries
  BY EventTypes DEF Entries
<1>n. Len(queue) <= QueueSize /\ \A m \in Nat : m <= Len(queue) => m <= QueueSize
  <2>1. Len(queue) <= QueueSize /\ Len(queue) \in Nat /\ QueueSize \in Nat
    BY <1>t, SizeAssumption DEF EventTypeOK
  <2>2. QED
    BY <2>1
<1>1. CASE UNCHANGED queue
  BY <1>1, <1>t, <1>n DEF QueuePublished, LiveInOrder, Mine
<1>2. CASE CloseSubscription
  <2>1. queue' \in Seq(Entries) /\ Len(queue') <= QueueSize
        /\ (UNCHANGED queue \/ Moves(0, End))
    BY <1>2, CloseQueue
  <2>2. CASE Moves(0, End)
    BY <1>t, <2>1, <2>2, QueueMoves
  <2>3. QED
    BY <1>1, <2>1, <2>2
<1>3. CASE queue # <<>> /\ queue' = Tail(queue)
  <2>1. /\ Tail(queue) \in Seq(Entries)
        /\ Len(Tail(queue)) \in Nat /\ Len(Tail(queue)) <= Len(queue)
        /\ \A i \in DOMAIN Tail(queue) : Tail(queue)[i] = queue[i + 1] /\ i + 1 \in 1..Len(queue)
    BY <1>3, <1>t, TailStays
  <2>2. queue' \in Seq(Entries) /\ Len(queue') \in Nat /\ Len(queue') <= Len(queue)
    BY <1>3, <2>1, Zenon
  <2>3. \A i \in DOMAIN queue' : queue'[i] = queue[i + 1] /\ i + 1 \in DOMAIN queue
    BY <1>3, <1>t, <2>1, Zenon
  <2>4. QueuePublished'
    BY <2>3 DEF QueuePublished, Mine
  <2>5. LiveInOrder'
    <3> SUFFICES ASSUME NEW i \in DOMAIN queue', NEW j \in DOMAIN queue', i < j,
                        queue'[i] # End, queue'[j] # End,
                        log[queue'[i]].by = log[queue'[j]].by
                 PROVE  queue'[i] < queue'[j]
      BY DEF LiveInOrder
    <3>1. i \in Nat /\ j \in Nat
      BY <2>2, LenProperties
    <3>2. i + 1 \in DOMAIN queue /\ j + 1 \in DOMAIN queue /\ i + 1 < j + 1
      BY <2>3, <3>1
    <3>3. queue'[i] = queue[i + 1] /\ queue'[j] = queue[j + 1]
      BY <2>3
    <3>4. QED
      BY <3>2, <3>3 DEF LiveInOrder
  <2>6. Len(queue') <= QueueSize
    BY <1>n, <2>2
  <2>7. QED
    BY <2>2, <2>4, <2>5, <2>6, SMTT(30)
<1>4. QED
  BY <1>1, <1>2, <1>3

\* The publisher is cancelled: its event was in no queue.
LEMMA CancelStep ==
  ASSUME EventInv, NEW p \in Publishers, CancelPublish(p)
  PROVE  EventInv'
<1> USE DEF EventInv
<1>1. /\ UNCHANGED <<log, heard, published, sub, queue, dropped, stream, wants, replay, sent, whole>>
      /\ pub' = [pub EXCEPT ![p] = 0] /\ finished' \in BOOLEAN
  BY DEF CancelPublish, subVars, streamVars, EventTypeOK
<1>2. \A q \in Publishers : pub'[q] # 0 => pub'[q] = pub[q]
  BY <1>1 DEF EventTypeOK
<1>3. Events' = Events /\ EventTypeOK'
  <2>1. Events' = Events
    BY <1>1 DEF Events
  <2>2. pub' \in [Publishers -> 0..Len(log)]
    BY <1>1, EventTypes DEF EventTypeOK
  <2>3. QED
    BY <1>1, <2>1, <2>2 DEF EventTypeOK
<1>4. InFlight'
  BY <1>1, <1>2, <1>3 DEF InFlight
<1>5. QueuePublished' /\ LiveInOrder' /\ ReplayOver'
  BY <1>1, QueueStays DEF ReplayOver
<1>6. Accounted'
  <2> SUFFICES ASSUME Following'
               PROVE  Cardinality(Gap') <= dropped' /\ \A q \in Publishers : Offered(q)'
    BY DEF Accounted
  <2>1. Following
    BY <1>1 DEF Following
  <2>2. Gap' = Gap
    BY <1>1 DEF Gap, Missing, Ahead, Mine
  <2>3. ASSUME NEW q \in Publishers PROVE Offered(q)'
    BY <1>1, <1>2, <2>1 DEF Accounted, Offered, Mine
  <2>4. QED
    BY <1>1, <2>1, <2>2, <2>3 DEF Accounted
<1>7. QED
  BY <1>3, <1>4, <1>5, <1>6

\* A step that closes the subscription, or ends the stream, leaves nothing to
\* account for.
LEMMA StreamStep ==
  ASSUME EventInv, UNCHANGED busVars,
         UNCHANGED queue \/ CloseSubscription \/ (queue # <<>> /\ queue' = Tail(queue)),
         dropped' = dropped, finished' \in BOOLEAN, wants' \in BOOLEAN, whole' \in BOOLEAN,
         sub' \in {"none", "open", "closed"},
         stream' \in {"unopened", "opened", "replaying", "live", "ended", "abandoned"},
         replay' \subseteq Events, sent' \subseteq Events,
         ReplayOver',
         Following' => /\ Gap' = {} \/ (Following /\ Gap' \subseteq Gap)
                       /\ \A p \in Publishers : Offered(p)'
  PROVE  EventInv'
<1> USE DEF EventInv
<1>1. UNCHANGED <<log, pub, heard, published>>
  BY DEF busVars
<1>2. Events' = Events /\ Entries' = Entries /\ InFlight'
  BY <1>1, BusKept
<1>3. QueuePublished' /\ LiveInOrder' /\ queue' \in Seq(Entries) /\ Len(queue') <= QueueSize
  BY <1>1, QueueStays
<1>4. EventTypeOK'
  <2>1. queue' \in Seq(Events' \cup {End})
    BY <1>2, <1>3 DEF Entries
  <2>2. QED
    BY <1>1, <1>2, <1>3, <2>1 DEF EventTypeOK
<1>5. Accounted'
  <2> SUFFICES ASSUME Following' PROVE Cardinality(Gap') <= dropped'
    BY DEF Accounted
  <2>1. CASE Gap' = {}
    BY <2>1, FS_EmptySet, EventTypes
  <2>2. CASE Following /\ Gap' \subseteq Gap
    BY <2>2, GapShrinks, GapIsFinite, EventTypes DEF Accounted
  <2>3. QED
    BY <2>1, <2>2
<1>6. QED
  BY <1>2, <1>3, <1>4, <1>5

\* The stream found every event of its task in the history, or ends, or asked
\* for none of it.
LEMMA StartStep == ASSUME EventInv, Start PROVE EventInv'
<1>1. EventTypeOK /\ ReplayOver /\ Events \subseteq Nat /\ published \subseteq Events
  BY EventTypes DEF EventInv
<1>2. /\ UNCHANGED busVars /\ UNCHANGED <<log, pub, published, finished, wants, sent, dropped>>
      /\ replay' = IF wants THEN Buffered ELSE {}
      /\ whole' = (wants /\ \A e \in Events : Mine(e) => e \in Buffered)
  BY DEF Start, GoLive, EndStream, CloseSubscription, subVars, busVars
<1>3. \/ replay' = {} /\ EndStream
      \/ replay' = {} /\ stream' = "live" /\ UNCHANGED <<sub, queue>>
      \/ stream' = "replaying" /\ UNCHANGED <<sub, queue>>
  BY DEF Start, GoLive, subVars
<1>4. /\ UNCHANGED queue \/ CloseSubscription
      /\ sub' \in {"none", "open", "closed"}
      /\ stream' \in {"replaying", "live", "ended"}
      /\ ReplayOver'
  BY <1>1, <1>3 DEF EndStream, CloseSubscription, EventTypeOK, ReplayOver
<1>5. /\ replay' \subseteq Events /\ sent' \subseteq Events
      /\ wants' \in BOOLEAN /\ whole' \in BOOLEAN /\ finished' \in BOOLEAN
  BY <1>1, <1>2 DEF Buffered, Remembered, EventTypeOK
<1>6. ASSUME Following' PROVE Gap' = {} /\ \A p \in Publishers : Offered(p)'
  <2>1. whole'
    BY <1>6 DEF Following
  <2>2. \A e \in Events : Mine(e) => e \in replay'
    BY <1>2, <2>1
  <2>3. Gap' = {}
    BY <1>1, <1>2, <2>2 DEF Gap, Missing, Ahead, Mine
  <2>4. \A p \in Publishers : pub[p] # 0 => pub[p] \in Events
    BY <1>1, EventTypes
  <2>5. \A p \in Publishers : Offered(p)'
    BY <1>2, <2>2, <2>4 DEF Offered, Mine
  <2>6. QED
    BY <2>3, <2>5
<1>7. QED
  BY <1>2, <1>4, <1>5, <1>6, StreamStep

\* A stream that sends, or neither, keeps its account.
LEMMA AccountKept ==
  ASSUME EventInv, UNCHANGED <<log, pub, heard, published, whole, dropped>>, Following,
         sent \subseteq sent', sent \cup replay \subseteq sent' \cup replay',
         \A e \in Events : Ahead(e) => Ahead(e)' \/ e \in sent'
  PROVE  Gap' \subseteq Gap /\ \A p \in Publishers : Offered(p)'
<1>1. published \subseteq Events
  BY EventTypes DEF EventInv
<1>2. Gap' \subseteq Gap
  BY <1>1 DEF Gap, Missing, Mine
<1>3. ASSUME NEW p \in Publishers PROVE Offered(p)'
  <2>1. Offered(p)
    BY DEF EventInv, Accounted
  <2>2. QED
    BY <2>1 DEF Offered, Mine
<1>4. QED
  BY <1>2, <1>3

LEMMA ReplayNextStep == ASSUME EventInv, ReplayNext PROVE EventInv'
<1>1. PICK e \in replay :
        /\ sent' = sent \cup {e} /\ replay' = replay \ {e}
        /\ \/ EndStream
           \/ UNCHANGED <<stream, sub, queue, dropped>>
  BY DEF ReplayNext, subVars
<1>2. /\ UNCHANGED busVars /\ UNCHANGED <<log, pub, heard, published, finished, wants, whole, dropped>>
      /\ stream = "replaying"
  BY <1>1 DEF ReplayNext, busVars, EndStream, CloseSubscription
<1>3. EventTypeOK /\ ReplayOver
  BY DEF EventInv
<1>4. /\ UNCHANGED queue \/ CloseSubscription
      /\ sub' \in {"none", "open", "closed"} /\ stream' \in {"replaying", "ended"}
      /\ replay' \subseteq Events /\ sent' \subseteq Events /\ ReplayOver'
      /\ wants' \in BOOLEAN /\ whole' \in BOOLEAN /\ finished' \in BOOLEAN
  BY <1>1, <1>2, <1>3 DEF EventTypeOK, EndStream, CloseSubscription, ReplayOver
<1>5. ASSUME Following'
      PROVE  Following /\ Gap' \subseteq Gap /\ \A p \in Publishers : Offered(p)'
  <2>1. UNCHANGED <<stream, sub, queue>> /\ Following
    BY <1>1, <1>2, <1>5 DEF EndStream, CloseSubscription, Following
  <2>2. \A f \in Events : Ahead(f) => Ahead(f)' \/ f \in sent'
    BY <1>1, <2>1 DEF Ahead
  <2>3. QED
    BY <1>1, <1>2, <2>1, <2>2, AccountKept
<1>6. QED
  BY <1>2, <1>4, <1>5, StreamStep

LEMMA TakeLiveStep == ASSUME EventInv, TakeLive PROVE EventInv'
<1>1. /\ UNCHANGED busVars /\ UNCHANGED <<log, pub, heard, published, finished, wants, whole>>
      /\ UNCHANGED <<dropped, replay>>
      /\ stream = "live" /\ queue # <<>> /\ queue' = Tail(queue)
      /\ \/ Head(queue) = End /\ stream' = "ended" /\ UNCHANGED <<sub, sent>>
         \/ /\ Head(queue) # End /\ sent' = sent \cup {Head(queue)}
            /\ \/ stream' = "ended" /\ sub' = "closed"
               \/ UNCHANGED <<stream, sub>>
  BY DEF TakeLive, busVars
<1>2. EventTypeOK /\ ReplayOver /\ queue \in Seq(Entries) /\ Len(queue) \in Nat
      /\ DOMAIN queue = 1..Len(queue)
  BY EventTypes DEF EventInv
<1>3. /\ Head(queue) \in Entries /\ Head(queue) = queue[1]
      /\ queue' \in Seq(Entries) /\ Len(queue') = Len(queue) - 1
      /\ \A i \in 1..Len(queue') : queue'[i] = queue[i + 1]
  BY <1>1, <1>2, HeadTailProperties
<1>4. /\ sub' \in {"none", "open", "closed"} /\ stream' \in {"live", "ended"}
      /\ replay' \subseteq Events /\ sent' \subseteq Events /\ ReplayOver'
      /\ wants' \in BOOLEAN /\ whole' \in BOOLEAN /\ finished' \in BOOLEAN
  BY <1>1, <1>2, <1>3 DEF EventTypeOK, ReplayOver, Entries
<1>5. ASSUME Following'
      PROVE  Following /\ Gap' \subseteq Gap /\ \A p \in Publishers : Offered(p)'
  <2>1. /\ UNCHANGED <<stream, sub>> /\ sent' = sent \cup {queue[1]} /\ Following
    BY <1>1, <1>3, <1>5 DEF Following
  <2>2. DOMAIN queue' = 1..Len(queue')
    BY <1>3, LenProperties
  <2>3. \A i \in DOMAIN queue : i # 1 => i - 1 \in DOMAIN queue' /\ queue'[i - 1] = queue[i]
    BY <1>2, <1>3, <2>2
  <2>4. \A f \in Events : Ahead(f) => Ahead(f)' \/ f \in sent'
    BY <1>1, <2>1, <2>3 DEF Ahead
  <2>5. QED
    BY <1>1, <2>1, <2>4, AccountKept
<1>6. QED
  BY <1>1, <1>4, <1>5, StreamStep

\* The steps that send nothing.
LEMMA QuietStep ==
  ASSUME EventInv,
         \/ FinishTask \/ (\E w \in BOOLEAN : Open(w)) \/ EndReplay \/ Disconnect \/ CloseBus
  PROVE  EventInv'
<1>1. EventTypeOK /\ ReplayOver
  BY DEF EventInv
<1>2. /\ UNCHANGED busVars /\ UNCHANGED <<log, pub, heard, published>>
      /\ UNCHANGED <<dropped, whole, replay, sent>>
      /\ UNCHANGED queue \/ CloseSubscription
      /\ finished' \in BOOLEAN /\ wants' \in BOOLEAN
  BY <1>1 DEF FinishTask, Open, EndReplay, Disconnect, CloseBus, GoLive, EndStream,
    CloseSubscription, busVars, subVars, streamVars, EventTypeOK
<1>3. /\ sub' \in {"none", "open", "closed"}
      /\ stream' \in {"unopened", "opened", "replaying", "live", "ended", "abandoned"}
      /\ ReplayOver'
      /\ sub' = "closed" \/ stream' \in {"opened", "abandoned"}
         \/ (UNCHANGED <<sub, queue>> /\ (UNCHANGED stream \/ (stream = "replaying" /\ stream' = "live")))
  BY <1>1 DEF FinishTask, Open, EndReplay, Disconnect, CloseBus, GoLive, EndStream,
    CloseSubscription, busVars, subVars, streamVars, EventTypeOK, ReplayOver
<1>4. replay' \subseteq Events /\ sent' \subseteq Events /\ whole' \in BOOLEAN
  BY <1>1, <1>2 DEF EventTypeOK
<1>5. ASSUME Following'
      PROVE  Following /\ Gap' \subseteq Gap /\ \A p \in Publishers : Offered(p)'
  <2>1. UNCHANGED queue /\ Following
    BY <1>2, <1>3, <1>5 DEF Following
  <2>2. \A f \in Events : Ahead(f) => Ahead(f)' \/ f \in sent'
    BY <1>2, <2>1 DEF Ahead
  <2>3. QED
    BY <1>2, <2>1, <2>2, AccountKept
<1>6. QED
  BY <1>2, <1>3, <1>4, <1>5, StreamStep

LEMMA EventNextInv == EventInv /\ [EventNext]_eventVars => EventInv'
<1> SUFFICES ASSUME EventInv, [EventNext]_eventVars PROVE EventInv'
  OBVIOUS
<1>1. CASE UNCHANGED eventVars
  BY <1>1 DEF eventVars, busVars, subVars, streamVars, EventInv, EventTypeOK, InFlight,
    QueuePublished, LiveInOrder, ReplayOver, Accounted, Following, Offered, Gap, Missing,
    Ahead, Mine, Events
<1>2. CASE EventNext
  BY <1>2, BeginStep, PublishStep, CancelStep, StartStep, ReplayNextStep, TakeLiveStep, QuietStep
  DEF EventNext, Streaming
<1>3. QED
  BY <1>1, <1>2

THEOREM EventInductive == EventSpec => []EventInv
BY EventInitInv, EventNextInv, PTL DEF EventSpec

\* Type correctness (core/events.py).
THEOREM EventTypeCorrect == EventSpec => []EventTypeOK
<1>1. EventInv => EventTypeOK
  BY DEF EventInv
<1>2. QED
  BY <1>1, EventInductive, PTL

\* For any number of publishers and any sizes of the history, its replay and the
\* queue, the client misses no more than the counter says.
THEOREM NothingMissedUncounted == EventSpec => []CaughtUp
<1>1. EventInv => CaughtUp
  <2> SUFFICES ASSUME EventInv, stream = "live", sub = "open", queue = <<>>, whole
               PROVE  Cardinality(Missing) <= dropped
    BY DEF CaughtUp
  <2>1. Cardinality(Gap) <= dropped /\ replay = {}
    BY DEF EventInv, Accounted, Following, ReplayOver
  <2>2. Gap = Missing
    BY <2>1 DEF Gap, Ahead
  <2>3. QED
    BY <2>1, <2>2
<1>2. QED
  BY <1>1, EventInductive, PTL

\* Whatever was dropped, what waits in the queue is in each publisher's order.
THEOREM QueueInOrder == EventSpec => []LiveInOrder
<1>1. EventInv => LiveInOrder
  BY DEF EventInv
<1>2. QED
  BY <1>1, EventInductive, PTL

LEMMA EndingsStep ==
  ASSUME EventInv, EndingsFinal, [EventNext]_eventVars
  PROVE  EndingsFinal'
<1> USE DEF busVars, subVars, streamVars, eventVars
<1>0. /\ log \in Seq([by: Publishers, terminal: BOOLEAN]) /\ sent \subseteq Events
      /\ queue \in Seq(Events \cup {End}) /\ replay \subseteq Events
  BY DEF EventInv, EventTypeOK
<1>1. CASE UNCHANGED <<log, sent>> /\ (stream \in {"ended", "abandoned"} => UNCHANGED stream)
  BY <1>1 DEF EndingsFinal, Events, Terminal
<1>2. ASSUME NEW p \in Publishers, NEW terminal \in BOOLEAN, BeginPublish(p, terminal)
      PROVE  EndingsFinal'
  <2>1. log' = Append(log, [by |-> p, terminal |-> terminal]) /\ (terminal => p = Task)
        /\ UNCHANGED <<sent, stream>>
    BY <1>2 DEF BeginPublish
  <2>2. \A e \in Events : log'[e] = log[e]
    BY <1>0, <2>1 DEF Events
  <2>3. Events' = Events \cup {Len(log) + 1}
        /\ log'[Len(log) + 1] = [by |-> p, terminal |-> terminal]
    BY <1>0, <2>1 DEF Events
  <2>4. log'[Len(log) + 1].terminal => log'[Len(log) + 1].by = Task
    BY <2>1, <2>3
  <2>5. \A e \in Events' : log'[e].terminal => log'[e].by = Task
    BY <2>2, <2>3, <2>4 DEF EndingsFinal, Terminal
  <2>6. \A e \in sent' : log'[e].terminal => stream' \in {"ended", "abandoned"}
    BY <1>0, <2>1, <2>2 DEF EndingsFinal, Terminal
  <2>7. QED
    BY <2>5, <2>6 DEF EndingsFinal, Terminal
<1>3. CASE Start \/ EndReplay \/ CloseBus \/ Disconnect \/ FinishTask
  BY <1>1, <1>3 DEF Start, EndReplay, CloseBus, Disconnect, FinishTask
<1>4. ASSUME NEW p \in Publishers, Publish(p) \/ CancelPublish(p)
      PROVE  EndingsFinal'
  BY <1>1, <1>4 DEF Publish, CancelPublish
<1>5. ASSUME NEW wantsReplay \in BOOLEAN, Open(wantsReplay)
      PROVE  EndingsFinal'
  BY <1>1, <1>5 DEF Open
<1>6. CASE ReplayNext
  BY <1>0, <1>6 DEF ReplayNext, EndStream, EndingsFinal, Terminal, Events
<1>7. CASE TakeLive
  <2>1. Head(queue) \in Events \cup {End}
    BY <1>0, <1>7 DEF TakeLive
  <2>2. UNCHANGED log
    BY <1>7 DEF TakeLive
  <2>3. CASE Head(queue) = End
    BY <1>7, <2>2, <2>3 DEF TakeLive, EndingsFinal, Terminal, Events
  <2>4. CASE Head(queue) # End
    BY <1>7, <2>2, <2>4 DEF TakeLive, EndingsFinal, Terminal, Events
  <2>5. QED
    BY <2>3, <2>4
<1>8. CASE UNCHANGED eventVars
  BY <1>1, <1>8
<1>9. QED
  BY <1>2, <1>3, <1>4, <1>5, <1>6, <1>7, <1>8 DEF EventNext, Streaming

\* A stream that found the whole history, and for which nothing was dropped, still
\* has the ending before it once that is published, wherever the publication was
\* when the stream opened: what StreamEnds needs besides a generator that goes on
\* (task_events in interface/api.py, Subscription.offer in core/events.py).
THEOREM EndingReached == EventSpec => []EndingInReach
<1>1. EventInit => EndingsFinal
  BY DEF EventInit, EndingsFinal, Events
<1>2. EventInv /\ EndingsFinal /\ [EventNext]_eventVars => EndingsFinal'
  BY EndingsStep
<1>3. EventInv /\ EndingsFinal => EndingInReach
  <2> SUFFICES ASSUME EventInv, EndingsFinal, Following, dropped = 0,
                      NEW e \in published, Terminal(e)
               PROVE  Ahead(e)
    BY DEF EndingInReach, EndingPublished
  <2>1. IsFiniteSet(Gap) /\ Cardinality(Gap) <= 0
    BY GapIsFinite DEF EventInv, Accounted
  <2>2. Gap = {}
    BY <2>1, FS_CardinalityType, FS_EmptySet
  <2>3. e \in Events /\ Mine(e)
    BY DEF EventInv, EventTypeOK, EndingsFinal, Mine
  <2>4. e \notin sent
    BY <2>3 DEF EndingsFinal, Following
  <2>5. QED
    BY <2>2, <2>3, <2>4 DEF Gap, Missing
<1>4. QED
  BY <1>1, <1>2, <1>3, EventInductive, PTL DEF EventSpec
=============================================================================
