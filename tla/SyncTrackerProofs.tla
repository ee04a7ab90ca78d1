-------------------------- MODULE SyncTrackerProofs --------------------------
(***************************************************************************)
(* The copy of the trackers passes no row over, and no two copies run at a  *)
(* time unless an expiry of the timer slipped between the read and the      *)
(* write of mnBusy: for every set of threads, rows, tables and fields.      *)
(***************************************************************************)
EXTENDS SyncTracker, TLAPS

\* While no expiry was overtaken one thread at most is inside onTimer, and mnBusy is
\* set as long as it copies.
OneInside == \A t, u \in Thread : pc[t] # "none" /\ pc[u] # "none" => t = u

BusyWhileCopying == \A t \in Thread : pc[t] \in Copying => mnBusy

\* The rows a later copy still has to bring.
Pending == {r \in Row : date[r] # 0 /\ r \notin copied \cup InBatch \cup excused}

\* No copied row of its table is newer, so that the next query selects it.
NotPassed(r) == \A q \in copied : TableOf[q] = TableOf[r] => date[q] <= date[r]

PendingNotPassed == \A r \in Pending : NotPassed(r)

IsOfCopied(t) == since[t] = 0 \/ \E q \in CopiedTo(table[t]) : date[q] = since[t]

\* The date read is that of a copied row: only the thread that read it copies.
SinceOfCopied == \A t \in Thread : pc[t] = "query" => IsOfCopied(t)

\* The rows about to be copied pass no pending row.
BatchPassesNone ==
    \A t \in Thread : pc[t] = "insert" /\ StatementFits(t) =>
        \A q \in batch[t], r \in Pending : TableOf[q] = TableOf[r] => date[q] <= date[r]

\* A batch whose statement does not fit fails as a whole, and its rows were not passed.
BatchNotPassed ==
    \A t \in Thread : pc[t] = "insert" /\ ~StatementFits(t) =>
        \A r \in batch[t] \ (copied \cup excused) : NotPassed(r)

NoRowPassed == PendingNotPassed /\ SinceOfCopied /\ BatchPassesNone /\ BatchNotPassed

Regular == ~overtaken => OneInside /\ BusyWhileCopying /\ NoRowPassed

IInv == TypeOK /\ Regular

-----------------------------------------------------------------------------
(* Types *)

\* The state the program starts in satisfies the invariant.
LEMMA InitHolds == Init => IInv
<1> SUFFICES ASSUME Init PROVE IInv
  OBVIOUS
<1> USE SyncConstantsOK
<1>a. 1 \in Table /\ 0 \in Date
  BY DEF Table, Date
<1>1. ThreadsOK
  BY <1>a DEF Init, ThreadsOK
<1>2. TablesOK
  BY DEF Init, TablesOK
<1>3. HistoryOK /\ RowsOK
  BY DEF Init, HistoryOK, RowsOK
<1>4. TypeOK
  BY <1>1, <1>2, <1>3 DEF TypeOK
<1>5. OneInside /\ BusyWhileCopying /\ SinceOfCopied /\ BatchPassesNone /\ BatchNotPassed
  BY DEF Init, OneInside, BusyWhileCopying, SinceOfCopied, BatchPassesNone, BatchNotPassed, Copying
<1>6. PendingNotPassed
  BY DEF Init, PendingNotPassed, Pending
<1> QED
  BY <1>4, <1>5, <1>6 DEF IInv, Regular, NoRowPassed

\* A fault is counted within its bound.
LEMMA FaultType == TypeOK /\ Fault => faults' \in 0..MaxFault
BY SyncConstantsOK DEF TypeOK, TablesOK, Fault

\* What EndsTable does, field by field.
LEMMA EndsTableDoes ==
    ASSUME TypeOK, NEW t \in Thread, EndsTable(t)
    PROVE  /\ pc' \in [Thread -> {"none", "checked"} \cup Copying]
           /\ table' \in [Thread -> Table]
           /\ missing' \in [Thread -> SUBSET Column]
           /\ fields' \in [Thread -> SUBSET Field]
           /\ since' \in [Thread -> Date]
           /\ batch' \in [Thread -> SUBSET Row]
           /\ pc'[t] \in {"columns", "end"} /\ batch'[t] = {}
           /\ \A u \in Thread \ {t} : pc'[u] = pc[u] /\ batch'[u] = batch[u] /\ table'[u] = table[u]
           /\ \A u \in Thread : since'[u] = since[u] \/ u = t
<1> USE SyncConstantsOK
<1>1. pc' \in [Thread -> {"none", "checked"} \cup Copying] /\ pc'[t] \in {"columns", "end"}
  BY DEF EndsTable, NextTable, Goes, TypeOK, ThreadsOK, Copying
<1>2. table' \in [Thread -> Table]
  <2>1. CASE table[t] < LastTable
    <3>1. table[t] + 1 \in Table
      BY <2>1 DEF TypeOK, ThreadsOK, Table
    <3> QED
      BY <2>1, <3>1 DEF EndsTable, NextTable, TypeOK, ThreadsOK
  <2>2. CASE ~(table[t] < LastTable)
    BY <2>2 DEF EndsTable, NextTable, TypeOK, ThreadsOK
  <2> QED
    BY <2>1, <2>2
<1>3. /\ missing' \in [Thread -> SUBSET Column]
      /\ fields' \in [Thread -> SUBSET Field]
  BY DEF EndsTable, TypeOK, ThreadsOK
<1>4. since' \in [Thread -> Date] /\ \A u \in Thread : since'[u] = since[u] \/ u = t
  BY DEF EndsTable, TypeOK, ThreadsOK, Date
<1>5. batch' \in [Thread -> SUBSET Row] /\ batch'[t] = {}
  BY DEF EndsTable, TypeOK, ThreadsOK
<1>6. \A u \in Thread \ {t} : pc'[u] = pc[u] /\ batch'[u] = batch[u] /\ table'[u] = table[u]
  BY DEF EndsTable, NextTable, Goes, TypeOK, ThreadsOK
<1> QED
  BY <1>1, <1>2, <1>3, <1>4, <1>5, <1>6

\* The end of the turn of a table keeps the types, whatever else the step leaves alone.
LEMMA EndsTableType ==
    ASSUME TypeOK, NEW t \in Thread, EndsTable(t), faults' \in 0..MaxFault,
           columns' \in [Table -> SUBSET Legal],
           UNCHANGED <<mnBusy, sourceVars, copied, history>>
    PROVE  TypeOK'
<1>1. ThreadsOK'
  BY EndsTableDoes DEF TypeOK, ThreadsOK
<1>2. TablesOK'
  BY DEF TypeOK, TablesOK, sourceVars
<1>3. RowsOK'
  BY EndsTableDoes DEF TypeOK, RowsOK, sourceVars
<1> QED
  BY <1>1, <1>2, <1>3 DEF TypeOK, HistoryOK, history

\* A failure that ends the table of a thread keeps the types.
LEMMA FailsTableType ==
    ASSUME TypeOK, NEW t \in Thread, FailsTable(t)
    PROVE  TypeOK'
BY FaultType, EndsTableType DEF FailsTable, TypeOK, TablesOK

\* A step of a thread keeps the types.
LEMMA StepType ==
    ASSUME TypeOK, NEW t \in Thread, Steps(t)
    PROVE  TypeOK'
<1> USE SyncConstantsOK DEF TypeOK, sourceVars, localVars, history
<1>1. CASE Expires(t)
  BY <1>1 DEF Expires, Goes, ThreadsOK, TablesOK, HistoryOK, RowsOK
<1>2. CASE SetsBusy(t)
  BY <1>2 DEF SetsBusy, Goes, ThreadsOK, TablesOK, HistoryOK, RowsOK, Copying
<1>3. CASE ClearsBusy(t)
  <2>a. 1 \in Table
    BY DEF Table
  <2>1. ThreadsOK'
    BY <1>3, <2>a DEF ClearsBusy, Goes, ThreadsOK
  <2> QED
    BY <1>3, <2>1 DEF ClearsBusy, Goes, ThreadsOK, TablesOK, HistoryOK, RowsOK
<1>4. CASE Guards(t)
  BY <1>4 DEF Guards, Goes, ThreadsOK, TablesOK, HistoryOK, RowsOK, Copying
<1>5. CASE ReadsColumns(t)
  <2>a. wanted[table[t]] \subseteq Field
    BY DEF ThreadsOK, TablesOK
  <2>b. ColumnsOf(wanted[table[t]]) \subseteq Column
    BY <2>a DEF ColumnsOf
  <2>1. ThreadsOK'
    BY <1>5, <2>b DEF ReadsColumns, Goes, ThreadsOK, TablesOK, Copying
  <2> QED
    BY <1>5, <2>1 DEF ReadsColumns, Goes, ThreadsOK, TablesOK, HistoryOK, RowsOK
<1>6. CASE Alters(t)
  <2>1. ThreadsOK'
    BY <1>6 DEF Alters, Goes, ThreadsOK, Copying
  <2>2. TablesOK'
    BY <1>6 DEF Alters, ThreadsOK, TablesOK
  <2> QED
    BY <1>6, <2>1, <2>2 DEF Alters, Goes, ThreadsOK, HistoryOK, RowsOK
<1>7. CASE ReadsFields(t)
  <2>1. ThreadsOK'
    BY <1>7 DEF ReadsFields, Goes, ThreadsOK, TablesOK, Copying
  <2> QED
    BY <1>7, <2>1 DEF ReadsFields, Goes, ThreadsOK, TablesOK, HistoryOK, RowsOK
<1>8. CASE ReadsSince(t)
  <2>1. ThreadsOK'
    BY <1>8 DEF ReadsSince, Goes, ThreadsOK, Copying
  <2> QED
    BY <1>8, <2>1 DEF ReadsSince, Goes, ThreadsOK, TablesOK, HistoryOK, RowsOK
<1>9. CASE Queries(t)
  <2>a. 0 \in Date
    BY DEF Date
  <2>1. ThreadsOK'
    BY <1>9, <2>a DEF Queries, Goes, Selected, ThreadsOK, Copying
  <2>2. RowsOK'
    BY <1>9 DEF Queries, Goes, Selected, ThreadsOK, RowsOK
  <2> QED
    BY <1>9, <2>1, <2>2 DEF Queries, TablesOK, HistoryOK
<1>10. CASE BatchEnds(t)
  BY <1>10, EndsTableType DEF BatchEnds, TablesOK
<1>11. ASSUME NEW r \in Row, Inserts(t, r) PROVE TypeOK'
  <2>1. ThreadsOK'
    BY <1>11 DEF Inserts, ThreadsOK
  <2>2. RowsOK'
    BY <1>11 DEF Inserts, ThreadsOK, RowsOK
  <2> QED
    BY <1>11, <2>1, <2>2 DEF Inserts, TablesOK, HistoryOK
<1>12. CASE GuardFails(t)
  BY <1>12, FaultType DEF GuardFails, Goes, ThreadsOK, TablesOK, HistoryOK, RowsOK, Copying
<1>13. CASE ColumnsFail(t) \/ FieldsFail(t) \/ QueryFails(t)
  BY <1>13, FailsTableType DEF ColumnsFail, FieldsFail, QueryFails
<1>14. CASE AlterFails(t)
  <2>1. columns' \in [Table -> SUBSET Legal]
    <3>1. PICK S \in SUBSET (missing[t] \cap Legal) :
             columns' = [columns EXCEPT ![table[t]] = @ \cup S]
      BY <1>14 DEF AlterFails
    <3> QED
      BY <3>1 DEF ThreadsOK, TablesOK
  <2>2. faults' \in 0..MaxFault
    BY <1>14, FaultType DEF AlterFails
  <2>3. CASE EndsTable(t)
    BY <1>14, <2>1, <2>2, <2>3, EndsTableType DEF AlterFails
  <2>4. CASE Goes(t, "fields") /\ missing' = [missing EXCEPT ![t] = {}]
             /\ UNCHANGED <<table, fields, since, batch>>
    <3>1. ThreadsOK'
      BY <1>14, <2>4 DEF AlterFails, Goes, ThreadsOK, Copying
    <3>2. RowsOK'
      BY <1>14, <2>4 DEF AlterFails, Goes, ThreadsOK, RowsOK
    <3> QED
      BY <1>14, <2>1, <2>2, <3>1, <3>2 DEF AlterFails, TablesOK, HistoryOK
  <2> QED
    BY <1>14, <2>3, <2>4 DEF AlterFails
<1>15. CASE SinceFails(t)
  <2>a. 0 \in Date
    BY DEF Date
  <2>1. ThreadsOK'
    BY <1>15, <2>a DEF SinceFails, Goes, ThreadsOK, Copying
  <2> QED
    BY <1>15, <2>1, FaultType DEF SinceFails, Goes, ThreadsOK, TablesOK, HistoryOK, RowsOK
<1>16. ASSUME NEW r \in Row, InsertFails(t, r) PROVE TypeOK'
  <2>1. ThreadsOK'
    BY <1>16 DEF InsertFails, ThreadsOK
  <2>2. RowsOK'
    BY <1>16 DEF InsertFails, ThreadsOK, RowsOK
  <2> QED
    BY <1>16, <2>1, <2>2, FaultType DEF InsertFails, TablesOK, HistoryOK
<1> QED
  BY <1>1, <1>2, <1>3, <1>4, <1>5, <1>6, <1>7, <1>8, <1>9, <1>10, <1>11, <1>12, <1>13, <1>14,
     <1>15, <1>16 DEF Steps, Copies, Fails

\* So does a step of the surroundings.
LEMMA OutsideType ==
    ASSUME TypeOK,
           \/ \E r \in Row, d \in Date \ {0} : RowComes(r, d)
           \/ \E k \in Table, f \in Field : FieldComes(k, f)
           \/ Crash
    PROVE  TypeOK'
<1> USE SyncConstantsOK DEF TypeOK, sourceVars, localVars, history
<1>1. ASSUME NEW r \in Row, NEW d \in Date \ {0}, RowComes(r, d) PROVE TypeOK'
  <2>1. ThreadsOK' /\ TablesOK'
    BY <1>1 DEF RowComes, ThreadsOK, TablesOK
  <2>2. HistoryOK'
    BY <1>1 DEF RowComes, HistoryOK
  <2>3. RowsOK'
    BY <1>1 DEF RowComes, ThreadsOK, TablesOK, RowsOK
  <2> QED
    BY <2>1, <2>2, <2>3
<1>2. ASSUME NEW k \in Table, NEW f \in Field, FieldComes(k, f) PROVE TypeOK'
  BY <1>2 DEF FieldComes, ThreadsOK, TablesOK, HistoryOK, RowsOK
<1>3. CASE Crash
  <2>a. 1 \in Table /\ 0 \in Date
    BY DEF Table, Date
  <2>1. ThreadsOK'
    BY <1>3, <2>a DEF Crash, ThreadsOK
  <2>2. TablesOK'
    BY <1>3, FaultType DEF Crash, TablesOK
  <2>3. HistoryOK'
    BY <1>3 DEF Crash, HistoryOK, InBatch, ThreadsOK
  <2>4. RowsOK'
    BY <1>3 DEF Crash, RowsOK
  <2> QED
    BY <2>1, <2>2, <2>3, <2>4
<1> QED
  BY <1>1, <1>2, <1>3

\* Every step keeps the types.
LEMMA TypeStep == TypeOK /\ [Next]_vars => TypeOK'
<1> SUFFICES ASSUME TypeOK, [Next]_vars PROVE TypeOK'
  OBVIOUS
<1>1. CASE UNCHANGED vars
  BY <1>1 DEF vars, TypeOK, ThreadsOK, TablesOK, HistoryOK, RowsOK
<1>2. CASE Next
  BY <1>2, StepType, OutsideType DEF Next
<1> QED
  BY <1>1, <1>2

\* Every reachable state is well typed; a batch is of rows of the table being copied.
THEOREM SyncTypeCorrect == Spec => []TypeOK
<1>1. Init => TypeOK
  BY InitHolds DEF IInv
<1> QED
  BY <1>1, TypeStep, PTL DEF Spec

-----------------------------------------------------------------------------
(* One copy at a time *)

\* A step of a thread moves no other thread, and this one only from where it stands.
LEMMA MovesItself ==
    ASSUME TypeOK, NEW t \in Thread, Steps(t)
    PROVE  /\ \A u \in Thread \ {t} : pc'[u] = pc[u]
           /\ Expires(t) \/ UNCHANGED overtaken
           /\ \/ Expires(t) \/ SetsBusy(t) \/ ClearsBusy(t)
              \/ pc[t] \in Copying /\ UNCHANGED mnBusy
<1> USE DEF TypeOK, ThreadsOK, Goes, EndsTable, NextTable, history
<1>1. \A u \in Thread \ {t} : pc'[u] = pc[u]
  <2>1. CASE Expires(t) \/ SetsBusy(t) \/ ClearsBusy(t)
    BY <2>1 DEF Expires, SetsBusy, ClearsBusy
  <2>2. CASE Copies(t)
    BY <2>2 DEF Copies, Guards, ReadsColumns, Alters, ReadsFields, ReadsSince, Queries, BatchEnds,
                Inserts
  <2>3. CASE Fails(t)
    BY <2>3 DEF Fails, GuardFails, ColumnsFail, AlterFails, FieldsFail, SinceFails, QueryFails,
                FailsTable, InsertFails
  <2> QED
    BY <2>1, <2>2, <2>3 DEF Steps
<1>2. Expires(t) \/ UNCHANGED overtaken
  <2>1. CASE SetsBusy(t) \/ ClearsBusy(t)
    BY <2>1 DEF SetsBusy, ClearsBusy
  <2>2. CASE Copies(t)
    BY <2>2 DEF Copies, Guards, ReadsColumns, Alters, ReadsFields, ReadsSince, Queries, BatchEnds,
                Inserts
  <2>3. CASE Fails(t)
    BY <2>3 DEF Fails, GuardFails, ColumnsFail, AlterFails, FieldsFail, SinceFails, QueryFails,
                FailsTable, InsertFails
  <2> QED
    BY <2>1, <2>2, <2>3 DEF Steps
<1>3. Copies(t) \/ Fails(t) => pc[t] \in Copying /\ UNCHANGED mnBusy
  <2>1. Copies(t) => pc[t] \in Copying /\ UNCHANGED mnBusy
    BY DEF Copies, Guards, ReadsColumns, Alters, ReadsFields, ReadsSince, Queries, BatchEnds,
           Inserts, Copying
  <2>2. Fails(t) => pc[t] \in Copying /\ UNCHANGED mnBusy
    BY DEF Fails, GuardFails, ColumnsFail, AlterFails, FieldsFail, SinceFails, QueryFails,
           FailsTable, InsertFails, Copying
  <2> QED
    BY <2>1, <2>2
<1> QED
  BY <1>1, <1>2, <1>3 DEF Steps

\* Inside onTimer there is one thread at most, until an expiry is overtaken.
LEMMA InsideStep ==
    ASSUME TypeOK, Next, ~overtaken', OneInside, BusyWhileCopying
    PROVE  OneInside' /\ BusyWhileCopying'
<1>1. ASSUME NEW t \in Thread, Steps(t) PROVE OneInside' /\ BusyWhileCopying'
  <2> USE DEF TypeOK, ThreadsOK, Goes
  <2>1. CASE Expires(t)
    <3>1. \A u \in Thread : pc[u] = "none"
      <4> SUFFICES ASSUME NEW u \in Thread, pc[u] # "none" PROVE FALSE
        OBVIOUS
      <4>1. pc[u] \in Copying \/ pc[u] = "checked"
        OBVIOUS
      <4> QED
        BY <2>1, <4>1 DEF Expires, BusyWhileCopying
    <3> QED
      BY <2>1, <3>1 DEF Expires, OneInside, BusyWhileCopying, Copying
  <2>2. CASE SetsBusy(t)
    BY <2>2 DEF SetsBusy, OneInside, BusyWhileCopying
  <2>3. CASE ClearsBusy(t)
    BY <2>3 DEF ClearsBusy, OneInside, BusyWhileCopying, Copying
  <2>4. CASE pc[t] \in Copying /\ UNCHANGED mnBusy
    <3>1. mnBusy'
      BY <2>4 DEF BusyWhileCopying
    <3>2. pc[t] # "none"
      BY <2>4 DEF Copying
    <3> QED
      BY <1>1, <3>1, <3>2, MovesItself DEF OneInside, BusyWhileCopying
  <2> QED
    BY <1>1, <2>1, <2>2, <2>3, <2>4, MovesItself
<1>2. ASSUME NEW r \in Row, NEW d \in Date \ {0}, RowComes(r, d)
      PROVE  OneInside' /\ BusyWhileCopying'
  BY <1>2 DEF RowComes, OneInside, BusyWhileCopying
<1>3. ASSUME NEW k \in Table, NEW f \in Field, FieldComes(k, f)
      PROVE  OneInside' /\ BusyWhileCopying'
  BY <1>3 DEF FieldComes, OneInside, BusyWhileCopying
<1>4. CASE Crash
  BY <1>4 DEF Crash, OneInside, BusyWhileCopying, Copying
<1> QED
  BY <1>1, <1>2, <1>3, <1>4 DEF Next

\* Once overtaken, always: the history forgets nothing.
LEMMA OvertakenStays == TypeOK /\ Next /\ ~overtaken' => ~overtaken
<1> SUFFICES ASSUME TypeOK, Next, ~overtaken' PROVE ~overtaken
  OBVIOUS
<1>1. ASSUME NEW t \in Thread, Steps(t) PROVE ~overtaken
  <2>1. CASE Expires(t)
    BY <2>1 DEF Expires
  <2> QED
    BY <1>1, <2>1, MovesItself
<1> QED
  BY <1>1 DEF Next, RowComes, FieldComes, Crash, history

-----------------------------------------------------------------------------
(* No row is passed over *)

\* A step that moves no row: a thread that is about to query or to insert was so
\* before, or has just read the date it copies from.
LEMMA NoRowMoves ==
    ASSUME NoRowPassed, UNCHANGED <<date, copied, excused>>,
           \A u \in Thread : batch'[u] = batch[u],
           \A u \in Thread : pc'[u] = "query" =>
               IsOfCopied(u)' \/ (pc[u] = "query" /\ since'[u] = since[u] /\ table'[u] = table[u]),
           \A u \in Thread : pc'[u] = "insert" =>
               pc[u] = "insert" /\ (StatementFits(u)' <=> StatementFits(u))
    PROVE  NoRowPassed'
<1>1. InBatch' = InBatch
  BY DEF InBatch
<1>2. Pending' = Pending
  BY <1>1 DEF Pending
<1>3. \A r : NotPassed(r)' <=> NotPassed(r)
  BY DEF NotPassed
<1>4. PendingNotPassed'
  BY <1>2, <1>3 DEF NoRowPassed, PendingNotPassed
<1>5. SinceOfCopied'
  BY DEF NoRowPassed, SinceOfCopied, IsOfCopied, CopiedTo
<1>6. BatchPassesNone'
  BY <1>2 DEF NoRowPassed, BatchPassesNone
<1>7. BatchNotPassed'
  BY <1>3 DEF NoRowPassed, BatchNotPassed
<1> QED
  BY <1>4, <1>5, <1>6, <1>7 DEF NoRowPassed

\* Where a thread has nothing in its batch, ending the turn of its table moves no row.
LEMMA EndsTableMovesNone ==
    ASSUME TypeOK, OneInside, NoRowPassed, NEW t \in Thread, pc[t] # "none", batch[t] = {},
           EndsTable(t), UNCHANGED <<date, copied, excused>>
    PROVE  NoRowPassed'
<1>1. \A u \in Thread : batch'[u] = batch[u]
  BY EndsTableDoes
<1>2. \A u \in Thread : pc'[u] # "query" /\ pc'[u] # "insert"
  BY EndsTableDoes DEF OneInside
<1> QED
  BY <1>1, <1>2, NoRowMoves

\* A failure before the first INSERT moves no row, so no row is passed over.
LEMMA FailsTableMovesNone ==
    ASSUME TypeOK, OneInside, NoRowPassed, NEW t \in Thread,
           pc[t] \in {"columns", "fields", "query"}, FailsTable(t)
    PROVE  NoRowPassed'
<1>1. batch[t] = {}
  BY DEF TypeOK, ThreadsOK, RowsOK
<1> QED
  BY <1>1, EndsTableMovesNone DEF FailsTable, sourceVars, history

\* The other steps of a thread that move no row.
LEMMA ThreadMovesNone ==
    ASSUME TypeOK, OneInside, NoRowPassed, NEW t \in Thread,
           \/ SetsBusy(t) \/ ClearsBusy(t) \/ Guards(t) \/ GuardFails(t) \/ ReadsColumns(t)
           \/ Alters(t) \/ ReadsFields(t) \/ ReadsSince(t) \/ SinceFails(t)
           \/ AlterFails(t) /\ ~EndsTable(t)
    PROVE  NoRowPassed'
<1> USE DEF sourceVars, localVars, history, Goes
<1>1. UNCHANGED <<date, copied, excused, batch>>
  BY DEF SetsBusy, ClearsBusy, Guards, GuardFails, ReadsColumns, Alters, ReadsFields, ReadsSince,
         SinceFails, AlterFails
<1>2. pc[t] # "none" /\ \A u \in Thread \ {t} : pc'[u] = "none"
  <2>1. pc[t] # "none" /\ \A u \in Thread \ {t} : pc'[u] = pc[u]
    BY DEF TypeOK, ThreadsOK, SetsBusy, ClearsBusy, Guards, GuardFails, ReadsColumns, Alters,
           ReadsFields, ReadsSince, SinceFails, AlterFails
  <2> QED
    BY <2>1 DEF OneInside
<1>3. CASE ReadsSince(t)
  <2>1. PICK d \in Date : IsNewest(table[t], d) /\ since' = [since EXCEPT ![t] = d]
    BY <1>3 DEF ReadsSince
  <2>2. since'[t] = d /\ table'[t] = table[t]
    BY <1>3, <2>1 DEF ReadsSince, TypeOK, ThreadsOK
  <2>3. IsOfCopied(t)'
    BY <1>1, <2>1, <2>2 DEF IsNewest, IsOfCopied, CopiedTo
  <2>4. pc'[t] = "query"
    BY <1>3 DEF ReadsSince, TypeOK, ThreadsOK
  <2> QED
    BY <1>1, <1>2, <2>3, <2>4, NoRowMoves
<1>4. CASE SinceFails(t)
  <2>1. IsOfCopied(t)' /\ pc'[t] = "query"
    BY <1>4 DEF SinceFails, TypeOK, ThreadsOK, IsOfCopied
  <2> QED
    BY <1>1, <1>2, <2>1, NoRowMoves
<1>5. CASE ~ReadsSince(t) /\ ~SinceFails(t)
  <2>1. pc'[t] # "query" /\ pc'[t] # "insert"
    BY <1>5 DEF TypeOK, ThreadsOK, SetsBusy, ClearsBusy, Guards, GuardFails, ReadsColumns, Alters,
           ReadsFields, AlterFails
  <2> QED
    BY <1>1, <1>2, <2>1, NoRowMoves
<1> QED
  BY <1>3, <1>4, <1>5

\* A query leaves no pending row of its table outside the batch.
LEMMA QueriesPasses ==
    ASSUME TypeOK, OneInside, NoRowPassed, NEW t \in Thread, Queries(t)
    PROVE  NoRowPassed'
<1> USE DEF sourceVars, history
<1>1. UNCHANGED <<date, copied, excused, table, fields, columns>>
  BY DEF Queries
<1>2. /\ pc[t] = "query" /\ pc'[t] = "insert" /\ batch'[t] = Selected(t)
      /\ \A u \in Thread \ {t} : pc'[u] = "none" /\ batch'[u] = {}
  BY DEF Queries, Goes, TypeOK, ThreadsOK, RowsOK, OneInside
<1>3. InBatch = {} /\ InBatch' = Selected(t)
  <2>1. \A u \in Thread : batch[u] = {}
    BY <1>2 DEF TypeOK, ThreadsOK, RowsOK, OneInside
  <2> QED
    BY <1>2, <2>1 DEF InBatch
<1>4. Pending' \subseteq Pending
  BY <1>1, <1>3 DEF Pending
<1>5. \A r : NotPassed(r)' <=> NotPassed(r)
  BY <1>1 DEF NotPassed
<1>6. \A r \in Pending' : TableOf[r] # table[t]
  <2> SUFFICES ASSUME NEW r \in Pending', TableOf[r] = table[t] PROVE FALSE
    OBVIOUS
  <2>1. r \in Row /\ date[r] # 0 /\ r \notin Selected(t) /\ r \in Pending
    BY <1>1, <1>3, <1>4 DEF Pending
  <2>2. ~(date[r] >= since[t])
    BY <2>1 DEF Selected
  <2>3. date[r] \in Nat /\ since[t] \in Nat
    BY <2>1, SyncConstantsOK DEF TypeOK, ThreadsOK, TablesOK, Date
  <2>4. since[t] # 0
    BY <2>2, <2>3
  <2>5. PICK q \in CopiedTo(table[t]) : date[q] = since[t]
    BY <1>2, <2>4 DEF NoRowPassed, SinceOfCopied, IsOfCopied
  <2>6. date[q] <= date[r]
    BY <2>1, <2>5 DEF CopiedTo, NoRowPassed, PendingNotPassed, NotPassed
  <2> QED
    BY <2>2, <2>3, <2>5, <2>6
<1>7. PendingNotPassed'
  BY <1>4, <1>5 DEF NoRowPassed, PendingNotPassed
<1>8. SinceOfCopied'
  BY <1>2 DEF SinceOfCopied
<1>9. BatchPassesNone'
  BY <1>1, <1>2, <1>6 DEF BatchPassesNone, Selected
<1>10. BatchNotPassed'
  <2>1. ASSUME NEW r \in batch'[t] \ (copied' \cup excused') PROVE NotPassed(r)'
    <3>1. r \in Pending
      BY <1>1, <1>2, <1>3, <2>1 DEF Selected, Pending
    <3> QED
      BY <1>5, <3>1 DEF NoRowPassed, PendingNotPassed
  <2> QED
    BY <1>2, <2>1 DEF BatchNotPassed
<1> QED
  BY <1>7, <1>8, <1>9, <1>10 DEF NoRowPassed

\* What an INSERT does, whether it succeeds or not.
LEMMA InsertDoes ==
    ASSUME TypeOK, OneInside, NEW t \in Thread, NEW r \in Row,
           Inserts(t, r) \/ InsertFails(t, r)
    PROVE  /\ UNCHANGED <<date, table, fields, columns, pc>>
           /\ pc[t] = "insert" /\ r \in batch[t]
           /\ InBatch = batch[t] /\ InBatch' = batch[t] \ {r} /\ batch'[t] = batch[t] \ {r}
           /\ \A u \in Thread \ {t} : pc[u] = "none"
           /\ StatementFits(t)' <=> StatementFits(t)
<1>1. UNCHANGED <<date, table, fields, columns, pc>> /\ pc[t] = "insert" /\ r \in batch[t]
  BY DEF Inserts, InsertFails, sourceVars
<1>2. \A u \in Thread \ {t} : pc[u] = "none"
  BY <1>1 DEF OneInside
<1>3. \A u \in Thread \ {t} : batch[u] = {} /\ batch'[u] = {}
  BY <1>2 DEF Inserts, InsertFails, TypeOK, ThreadsOK, RowsOK
<1>4. batch'[t] = batch[t] \ {r}
  BY DEF Inserts, InsertFails, TypeOK, ThreadsOK
<1>5. InBatch = batch[t] /\ InBatch' = batch[t] \ {r}
  BY <1>3, <1>4 DEF InBatch
<1>6. StatementFits(t)' <=> StatementFits(t)
  BY <1>1 DEF StatementFits
<1> QED
  BY <1>1, <1>2, <1>4, <1>5, <1>6

\* An INSERT that succeeds passes no pending row; one that does not fit leaves its row
\* pending, and not passed.
LEMMA InsertsPasses ==
    ASSUME TypeOK, OneInside, NoRowPassed, NEW t \in Thread, NEW r \in Row, Inserts(t, r)
    PROVE  NoRowPassed'
<1>1. UNCHANGED excused
  BY DEF Inserts, history
<1>2. \A u \in Thread : pc'[u] # "query" /\ (pc'[u] = "insert" => u = t)
  BY InsertDoes
<1>3. SinceOfCopied'
  BY <1>2 DEF SinceOfCopied
<1>4. CASE StatementFits(t)
  <2>1. copied' = copied \cup {r}
    BY <1>4 DEF Inserts
  <2>2. Pending' \subseteq Pending
    BY <1>1, <2>1, InsertDoes DEF Pending
  <2>3. PendingNotPassed'
    <3> SUFFICES ASSUME NEW p \in Pending' PROVE NotPassed(p)'
      BY DEF PendingNotPassed
    <3>1. NotPassed(p)
      BY <2>2 DEF NoRowPassed, PendingNotPassed
    <3>2. TableOf[r] = TableOf[p] => date[r] <= date[p]
      BY <1>4, <2>2, InsertDoes DEF NoRowPassed, BatchPassesNone
    <3> QED
      BY <2>1, <3>1, <3>2, InsertDoes DEF NotPassed
  <2>4. BatchPassesNone'
    BY <1>2, <1>4, <2>2, InsertDoes DEF NoRowPassed, BatchPassesNone
  <2>5. BatchNotPassed'
    BY <1>2, <1>4, InsertDoes DEF BatchNotPassed
  <2> QED
    BY <1>3, <2>3, <2>4, <2>5 DEF NoRowPassed
<1>5. CASE ~StatementFits(t)
  <2>1. copied' = copied
    BY <1>5 DEF Inserts
  <2>2. Pending' \subseteq Pending \cup {r}
    BY <1>1, <2>1, InsertDoes DEF Pending
  <2>3. \A p : NotPassed(p)' <=> NotPassed(p)
    BY <2>1, InsertDoes DEF NotPassed
  <2>4. r \in Pending' => NotPassed(r)
    BY <1>1, <1>5, <2>1, InsertDoes DEF NoRowPassed, BatchNotPassed, Pending
  <2>5. PendingNotPassed'
    BY <2>2, <2>3, <2>4 DEF NoRowPassed, PendingNotPassed
  <2>6. BatchPassesNone'
    BY <1>2, <1>5, InsertDoes DEF BatchPassesNone
  <2>7. BatchNotPassed'
    BY <1>1, <1>2, <1>5, <2>1, <2>3, InsertDoes DEF NoRowPassed, BatchNotPassed
  <2> QED
    BY <1>3, <2>5, <2>6, <2>7 DEF NoRowPassed
<1> QED
  BY <1>4, <1>5

\* An INSERT that fails excuses the row it costs, and passes over no other.
LEMMA InsertFailsPasses ==
    ASSUME TypeOK, OneInside, NoRowPassed, NEW t \in Thread, NEW r \in Row, InsertFails(t, r)
    PROVE  NoRowPassed'
<1>1. UNCHANGED copied /\ excused' = excused \cup {r}
  BY DEF InsertFails
<1>2. \A u \in Thread : pc'[u] # "query" /\ (pc'[u] = "insert" => u = t)
  BY InsertDoes
<1>3. Pending' \subseteq Pending
  BY <1>1, InsertDoes DEF Pending
<1>4. \A p : NotPassed(p)' <=> NotPassed(p)
  BY <1>1, InsertDoes DEF NotPassed
<1>5. PendingNotPassed' /\ SinceOfCopied'
  BY <1>2, <1>3, <1>4 DEF NoRowPassed, PendingNotPassed, SinceOfCopied
<1>6. BatchPassesNone'
  BY <1>2, <1>3, InsertDoes DEF NoRowPassed, BatchPassesNone
<1>7. BatchNotPassed'
  BY <1>1, <1>2, <1>4, InsertDoes DEF NoRowPassed, BatchNotPassed
<1> QED
  BY <1>5, <1>6, <1>7 DEF NoRowPassed

\* A row that comes is pending only when it is not older than a copied one or one of a batch.
LEMMA RowComesPasses ==
    ASSUME TypeOK, NoRowPassed, NEW r \in Row, NEW d \in Date \ {0}, RowComes(r, d)
    PROVE  NoRowPassed'
<1> USE DEF localVars, history
<1>1. UNCHANGED <<pc, table, fields, since, batch, columns, copied>>
  BY DEF RowComes
<1>2. date[r] = 0 /\ date' = [date EXCEPT ![r] = d] /\ date'[r] = d
  BY DEF RowComes, TypeOK, TablesOK
<1>3. r \notin copied /\ \A t \in Thread : r \notin batch[t]
  BY <1>2 DEF TypeOK, RowsOK
<1>4. \A q \in Row \ {r} : date'[q] = date[q]
  BY <1>2 DEF TypeOK, TablesOK
<1>5. copied \subseteq Row /\ \A t \in Thread : batch[t] \subseteq Row
  BY DEF TypeOK, ThreadsOK, TablesOK
<1>6. InBatch' = InBatch /\ \A t \in Thread : batch[t] \subseteq InBatch
  BY <1>1 DEF InBatch
<1>7. Pending' \subseteq Pending \cup {r}
  BY <1>1, <1>4, <1>6 DEF Pending, RowComes
<1>8. \A p \in Row \ {r} : NotPassed(p) => NotPassed(p)'
  BY <1>1, <1>3, <1>4, <1>5 DEF NotPassed
<1>9. ASSUME r \in Pending', NEW q \in copied \cup InBatch, TableOf[q] = TableOf[r]
      PROVE  date'[q] <= date'[r]
  <2>1. ~IsOvertakenBy(r, d, copied \cup InBatch)
    BY <1>9 DEF RowComes, Pending
  <2>2. ~(date[q] > d)
    BY <1>9, <2>1 DEF IsOvertakenBy
  <2>3. q \in Row \ {r}
    BY <1>3, <1>5 DEF InBatch
  <2>4. date[q] \in Nat /\ d \in Nat
    BY <2>3, SyncConstantsOK DEF TypeOK, TablesOK, Date
  <2> QED
    BY <1>2, <1>4, <2>2, <2>3, <2>4
<1>10. PendingNotPassed'
  <2>1. r \in Pending' => NotPassed(r)'
    BY <1>1, <1>9 DEF NotPassed
  <2>2. \A p \in Pending' \ {r} : p \in Row \ {r} /\ NotPassed(p)
    BY <1>7 DEF NoRowPassed, PendingNotPassed, Pending
  <2> QED
    BY <1>8, <2>1, <2>2 DEF PendingNotPassed
<1>11. SinceOfCopied'
  BY <1>1, <1>3, <1>4, <1>5 DEF NoRowPassed, SinceOfCopied, IsOfCopied, CopiedTo
<1>12. BatchPassesNone'
  <2> SUFFICES ASSUME NEW t \in Thread, pc[t] = "insert", StatementFits(t),
                      NEW q \in batch[t], NEW p \in Pending', TableOf[q] = TableOf[p]
               PROVE  date'[q] <= date'[p]
    BY <1>1 DEF BatchPassesNone, StatementFits
  <2>1. CASE p = r
    BY <1>6, <1>9, <2>1
  <2>2. CASE p # r
    <3>1. p \in Pending /\ p \in Row \ {r} /\ q \in Row \ {r}
      BY <1>3, <1>5, <1>7, <2>2 DEF Pending
    <3> QED
      BY <1>4, <3>1 DEF NoRowPassed, BatchPassesNone
  <2> QED
    BY <2>1, <2>2
<1>13. BatchNotPassed'
  <2> SUFFICES ASSUME NEW t \in Thread, pc[t] = "insert", ~StatementFits(t),
                      NEW p \in batch[t] \ (copied \cup excused')
               PROVE  NotPassed(p)'
    BY <1>1 DEF BatchNotPassed, StatementFits
  <2>1. p \in Row \ {r} /\ p \notin excused
    BY <1>3, <1>5 DEF RowComes
  <2> QED
    BY <1>8, <2>1 DEF NoRowPassed, BatchNotPassed
<1> QED
  BY <1>10, <1>11, <1>12, <1>13 DEF NoRowPassed

\* A crash gives up the batch; its rows stay pending, or are excused when they were passed.
LEMMA CrashPasses ==
    ASSUME TypeOK, NoRowPassed, Crash
    PROVE  NoRowPassed'
<1>1. UNCHANGED <<date, copied>> /\ excused \subseteq excused'
  BY DEF Crash, sourceVars
<1>2. \A t \in Thread : pc'[t] = "none"
  BY DEF Crash
<1>3. SinceOfCopied' /\ BatchPassesNone' /\ BatchNotPassed'
  BY <1>2 DEF SinceOfCopied, BatchPassesNone, BatchNotPassed
<1>4. ASSUME NEW r \in Pending', NEW q \in copied, TableOf[q] = TableOf[r]
      PROVE  date[q] <= date[r]
  <2>1. r \in Row /\ date[r] # 0 /\ r \notin copied /\ r \notin excused'
    BY <1>1, <1>4 DEF Pending
  <2>2. CASE r \in InBatch
    <3>1. ~(date[q] > date[r])
      BY <1>4, <2>1, <2>2 DEF Crash, IsOvertakenBy
    <3>2. date[q] \in Nat /\ date[r] \in Nat
      BY <2>1, SyncConstantsOK DEF TypeOK, TablesOK, Date
    <3> QED
      BY <3>1, <3>2
  <2>3. CASE r \notin InBatch
    <3>1. r \in Pending
      BY <1>1, <2>1, <2>3 DEF Pending
    <3> QED
      BY <1>4, <3>1 DEF NoRowPassed, PendingNotPassed, NotPassed
  <2> QED
    BY <2>2, <2>3
<1>5. PendingNotPassed'
  BY <1>1, <1>4 DEF PendingNotPassed, NotPassed
<1> QED
  BY <1>3, <1>5 DEF NoRowPassed

\* An expiry that overtakes none finds no thread inside.
LEMMA ExpiresMovesNone ==
    ASSUME TypeOK, NoRowPassed, OneInside', NEW t \in Thread, Expires(t)
    PROVE  NoRowPassed'
<1>1. pc'[t] = "checked"
  BY DEF Expires, Goes, TypeOK, ThreadsOK
<1>2. \A u \in Thread : pc'[u] # "query" /\ pc'[u] # "insert"
  BY <1>1 DEF OneInside
<1>3. UNCHANGED <<date, copied, excused, batch>>
  BY DEF Expires, sourceVars, localVars
<1> QED
  BY <1>2, <1>3, NoRowMoves

\* Every step of a regular run passes no row over.
LEMMA NoRowPassedStep ==
    ASSUME TypeOK, OneInside, OneInside', NoRowPassed, Next
    PROVE  NoRowPassed'
<1>1. ASSUME NEW t \in Thread, Steps(t) PROVE NoRowPassed'
  <2>1. CASE Expires(t)
    BY <2>1, ExpiresMovesNone
  <2>2. CASE SetsBusy(t) \/ ClearsBusy(t)
    BY <2>2, ThreadMovesNone
  <2>3. CASE Copies(t)
    <3>1. CASE BatchEnds(t)
      BY <3>1, EndsTableMovesNone DEF BatchEnds, sourceVars, history
    <3>2. CASE Queries(t)
      BY <3>2, QueriesPasses
    <3>3. ASSUME NEW r \in Row, Inserts(t, r) PROVE NoRowPassed'
      BY <3>3, InsertsPasses
    <3> QED
      BY <2>3, <3>1, <3>2, <3>3, ThreadMovesNone DEF Copies
  <2>4. CASE Fails(t)
    <3>1. CASE ColumnsFail(t) \/ FieldsFail(t) \/ QueryFails(t)
      BY <3>1, FailsTableMovesNone DEF ColumnsFail, FieldsFail, QueryFails
    <3>2. CASE AlterFails(t) /\ EndsTable(t)
      <4>1. pc[t] # "none" /\ batch[t] = {}
        BY <3>2 DEF AlterFails, TypeOK, ThreadsOK, RowsOK
      <4> QED
        BY <3>2, <4>1, EndsTableMovesNone DEF AlterFails, sourceVars, history
    <3>3. ASSUME NEW r \in Row, InsertFails(t, r) PROVE NoRowPassed'
      BY <3>3, InsertFailsPasses
    <3> QED
      BY <2>4, <3>1, <3>2, <3>3, ThreadMovesNone DEF Fails
  <2> QED
    BY <1>1, <2>1, <2>2, <2>3, <2>4 DEF Steps
<1>2. ASSUME NEW r \in Row, NEW d \in Date \ {0}, RowComes(r, d) PROVE NoRowPassed'
  BY <1>2, RowComesPasses
<1>3. ASSUME NEW k \in Table, NEW f \in Field, FieldComes(k, f) PROVE NoRowPassed'
  BY <1>3, NoRowMoves DEF FieldComes, localVars, history, StatementFits
<1>4. CASE Crash
  BY <1>4, CrashPasses
<1> QED
  BY <1>1, <1>2, <1>3, <1>4 DEF Next

-----------------------------------------------------------------------------
(* The theorems *)

\* Every step keeps the invariant.
LEMMA InvStep == IInv /\ [Next]_vars => IInv'
<1> SUFFICES ASSUME IInv, [Next]_vars PROVE IInv'
  OBVIOUS
<1>1. TypeOK'
  BY TypeStep DEF IInv
<1>2. CASE UNCHANGED vars
  <2>1. Regular'
    BY <1>2 DEF IInv, Regular, vars, OneInside, BusyWhileCopying, NoRowPassed, PendingNotPassed,
                SinceOfCopied, BatchPassesNone, BatchNotPassed, Pending, NotPassed, IsOfCopied,
                InBatch, CopiedTo, StatementFits
  <2> QED
    BY <1>1, <2>1 DEF IInv
<1>3. CASE Next
  <2> SUFFICES ASSUME ~overtaken' PROVE OneInside' /\ BusyWhileCopying' /\ NoRowPassed'
    BY <1>1 DEF IInv, Regular
  <2>1. OneInside /\ BusyWhileCopying /\ NoRowPassed
    BY <1>3, OvertakenStays DEF IInv, Regular
  <2>2. OneInside' /\ BusyWhileCopying'
    BY <1>3, <2>1, InsideStep DEF IInv
  <2> QED
    BY <1>3, <2>1, <2>2, NoRowPassedStep DEF IInv
<1> QED
  BY <1>2, <1>3

\* The invariant holds in every state.
LEMMA InvHolds == Spec => []IInv
BY InitHolds, InvStep, PTL DEF Spec

\* Two copies run at a time only after an expiry overtook another: mnBusy keeps the
\* timer out for as long as a copy runs, however it ends.
THEOREM OneSyncHolds == Spec => []OneSync
<1>1. IInv => OneSync
  <2> SUFFICES ASSUME IInv, Undefined, ~overtaken PROVE FALSE
    BY DEF OneSync, IInv, TypeOK, HistoryOK
  <2> QED
    BY DEF IInv, Regular, Undefined, OneInside, Copying
<1> QED
  BY <1>1, InvHolds, PTL

\* No row is passed over, whatever order the rows are inserted in and whichever
\* connection, statement or process fails, but for the rows the failure itself costs.
THEOREM NothingSkippedHolds == Spec => []NothingSkipped
<1>1. IInv => NothingSkipped
  <2> SUFFICES ASSUME IInv, ~overtaken, NEW r \in Row, date[r] # 0,
                      r \notin copied \cup InBatch \cup excused,
                      NEW q \in copied, TableOf[q] = TableOf[r], date[q] > date[r]
               PROVE  FALSE
    BY DEF NothingSkipped, IsOvertakenBy
  <2>1. r \in Pending
    BY DEF Pending
  <2>2. date[q] <= date[r]
    BY <2>1 DEF IInv, Regular, NoRowPassed, PendingNotPassed, NotPassed
  <2>3. date[q] \in Nat /\ date[r] \in Nat
    BY SyncConstantsOK DEF IInv, TypeOK, TablesOK, Date
  <2> QED
    BY <2>2, <2>3
<1> QED
  BY <1>1, InvHolds, PTL
=============================================================================
