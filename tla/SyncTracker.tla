----------------------------- MODULE SyncTracker -----------------------------
(***************************************************************************)
(* Controller-SyncData: a timer copies the rows of the trackers from the    *)
(* document store into the tables of a MySQL server.  Every expiry of the   *)
(* timer runs onTimer in a thread of its own; mnBusy keeps an expiry out    *)
(* while the copy of an earlier one runs, but it is read in one step and    *)
(* set in another.  Nothing is stored about how far a copy came: the newest *)
(* create_date in a table is where the next copy starts.                    *)
(*                                                                          *)
(* A table is the number of its turn in syncTrackerData; a row belongs to   *)
(* one table and its identity is the unique key _id.  tracker_user, copied  *)
(* by syncTrackerUser before the others, has the same steps without the     *)
(* fields and is left out.  "excused" and "overtaken" are history.          *)
(*                                                                          *)
(* The columns of a table are named after the fields, with their letters    *)
(* lowered and the spaces around them cut: several fields can be given one  *)
(* name, and MySQL does not take every name.                                *)
(***************************************************************************)
EXTENDS Naturals

CONSTANTS
    Thread,     \* the threads of the timer
    Row,        \* the rows there can be
    TableOf,    \* by row: the table it belongs to
    LastTable,  \* the tables are 1..LastTable
    Field,      \* the fields
    FieldsOf,   \* by table: the fields its application can have
    Column,     \* the names of columns
    ColumnOf,   \* by field: its name as the name of a column
    Legal,      \* the names that MySQL takes, but for _id, create_date, latitude and longitude
    MaxDate,    \* bound: the create_dates are 1..MaxDate; 0 for no date
    MaxFault    \* bound: connections and statements that fail, crashes

Table == 1..LastTable

Date == 0..MaxDate

ASSUME SyncConstantsOK ==
    /\ LastTable \in Nat \ {0} /\ MaxDate \in Nat /\ MaxFault \in Nat
    /\ TableOf \in [Row -> Table]
    /\ FieldsOf \in [Table -> SUBSET Field]
    /\ ColumnOf \in [Field -> Column]
    /\ Legal \subseteq Column

VARIABLES
    mnBusy,     \* of the controller
    pc,         \* by thread: where its onTimer stands
    table,      \* by thread: the table it copies
    missing,    \* by thread: the columns that its fields lack
    fields,     \* by thread: the fields it puts in its statements
    since,      \* by thread: the date its query starts from, 0 when there is no query
    batch,      \* by thread: the rows of its query it has not inserted yet
    date,       \* by row: its create_date in the source, 0 when it is not there
    wanted,     \* by table: the fields of its application (device_field)
    columns,    \* by table: the columns for fields in the destination
    copied,     \* the rows in the destination
    faults,     \* bound: faults so far
    excused,    \* history: the rows a fault, a crash or their own late date may cost
    overtaken   \* history: an expiry read mnBusy between the read and the write of another

vars == <<mnBusy, pc, table, missing, fields, since, batch, date, wanted, columns, copied,
          faults, excused, overtaken>>
localVars == <<table, missing, fields, since, batch>>
sourceVars == <<date, wanted>>
history == <<excused, overtaken>>

Copying == {"guard", "columns", "alter", "fields", "since", "query", "insert", "end"}

ThreadsOK ==
    /\ mnBusy \in BOOLEAN
    /\ pc \in [Thread -> {"none", "checked"} \cup Copying]
    /\ table \in [Thread -> Table]
    /\ missing \in [Thread -> SUBSET Column]
    /\ fields \in [Thread -> SUBSET Field]
    /\ since \in [Thread -> Date]
    /\ batch \in [Thread -> SUBSET Row]

TablesOK ==
    /\ date \in [Row -> Date]
    /\ wanted \in [Table -> SUBSET Field]
    /\ columns \in [Table -> SUBSET Legal]
    /\ copied \in SUBSET Row
    /\ faults \in 0..MaxFault

HistoryOK == excused \in SUBSET Row /\ overtaken \in BOOLEAN

\* A copied row, and a row in a batch, is in the source; a batch is of one table.
RowsOK ==
    /\ \A r \in copied : date[r] # 0
    /\ \A t \in Thread : \A r \in batch[t] :
           pc[t] = "insert" /\ TableOf[r] = table[t] /\ date[r] # 0

TypeOK == ThreadsOK /\ TablesOK /\ HistoryOK /\ RowsOK

\* The columns the statements name for fields F.
ColumnsOf(F) == {ColumnOf[f] : f \in F}

\* The destination starts with a copy of the source as it was at some time.
Init ==
    /\ mnBusy = FALSE
    /\ pc = [t \in Thread |-> "none"]
    /\ table = [t \in Thread |-> 1]
    /\ missing = [t \in Thread |-> {}]
    /\ fields = [t \in Thread |-> {}]
    /\ since = [t \in Thread |-> 0]
    /\ batch = [t \in Thread |-> {}]
    /\ copied \in SUBSET Row
    /\ date \in [Row -> Date]
    /\ \A r \in Row : date[r] # 0 <=> r \in copied
    /\ wanted \in [Table -> SUBSET Field]
    /\ \A k \in Table : wanted[k] \subseteq FieldsOf[k]
    /\ columns = [k \in Table |-> ColumnsOf(wanted[k]) \cap Legal]
    /\ faults = 0
    /\ excused = {} /\ overtaken = FALSE

-----------------------------------------------------------------------------
(* Helpers *)

Goes(t, to) == pc' = [pc EXCEPT ![t] = to]

Fault == faults < MaxFault /\ faults' = faults + 1

CopiedTo(k) == {r \in copied : TableOf[r] = k}

\* select max(create_date): NULL, which becomes the empty date, for an empty table.
IsNewest(k, d) ==
    /\ \A r \in CopiedTo(k) : date[r] <= d
    /\ d = 0 \/ \E r \in CopiedTo(k) : date[r] = d

\* Mutant: > for >= in the query.
SelectedAfter(t) == {r \in Row : TableOf[r] = table[t] /\ date[r] # 0 /\ date[r] > since[t]}

\* Mutant: a limit on the query, which has no order (a batch of one row here).
SelectedLimited(t) ==
    LET S == {r \in Row : TableOf[r] = table[t] /\ date[r] # 0 /\ date[r] >= since[t]} \ copied
    IN  IF S = {} THEN {} ELSE {CHOOSE r \in S : TRUE}

\* { create_date : { $gte : ... }, ID : ... }
Selected(t) == {r \in Row : TableOf[r] = table[t] /\ date[r] # 0 /\ date[r] >= since[t]}

\* An INSERT cannot name a column twice.
NamesDiffer(F) == \A f, g \in F : ColumnOf[f] = ColumnOf[g] => f = g

\* The statement names the columns of all fields; without one it is not well formed.
StatementFits(t) ==
    /\ fields[t] # {}
    /\ ColumnsOf(fields[t]) \subseteq columns[table[t]]
    /\ NamesDiffer(fields[t])

\* Mutant: one table too many.
NextTableBeyond(t) ==
    IF table[t] <= LastTable
    THEN table' = [table EXCEPT ![t] = @ + 1] /\ Goes(t, "columns")
    ELSE Goes(t, "end") /\ UNCHANGED table

\* The next table of syncTrackerData, and no table after the last.
NextTable(t) ==
    IF table[t] < LastTable
    THEN table' = [table EXCEPT ![t] = @ + 1] /\ Goes(t, "columns")
    ELSE Goes(t, "end") /\ UNCHANGED table

EndsTable(t) ==
    /\ NextTable(t)
    /\ missing' = [missing EXCEPT ![t] = {}]
    /\ fields' = [fields EXCEPT ![t] = {}]
    /\ since' = [since EXCEPT ![t] = 0]
    /\ batch' = [batch EXCEPT ![t] = {}]

\* A connection that cannot be made, or a query that fails, ends the turn of the table.
FailsTable(t) ==
    /\ Fault /\ EndsTable(t)
    /\ UNCHANGED <<mnBusy, sourceVars, columns, copied, history>>

-----------------------------------------------------------------------------
(* onTimer *)

\* if(mnBusy) return;
Expires(t) ==
    /\ pc[t] = "none" /\ ~mnBusy
    /\ Goes(t, "checked")
    /\ overtaken' = (overtaken \/ \E u \in Thread : pc[u] = "checked")
    /\ UNCHANGED <<mnBusy, localVars, sourceVars, columns, copied, faults, excused>>

\* Mutant: mnBusy is not set before the copy.
SetsNothing(t) ==
    /\ pc[t] = "checked"
    /\ Goes(t, "guard")
    /\ UNCHANGED <<mnBusy, localVars, sourceVars, columns, copied, faults, history>>

\* mnBusy = TRUE;
SetsBusy(t) ==
    /\ pc[t] = "checked"
    /\ mnBusy' = TRUE
    /\ Goes(t, "guard")
    /\ UNCHANGED <<localVars, sourceVars, columns, copied, faults, history>>

\* mnBusy = FALSE;
ClearsBusy(t) ==
    /\ pc[t] = "end"
    /\ mnBusy' = FALSE
    /\ Goes(t, "none")
    /\ table' = [table EXCEPT ![t] = 1]
    /\ UNCHANGED <<missing, fields, since, batch, sourceVars, columns, copied, faults, history>>

-----------------------------------------------------------------------------
(* syncTrackerData *)

\* The first table decides for all of them: without a date there is nothing to do.
Guards(t) ==
    /\ pc[t] = "guard"
    /\ Goes(t, IF CopiedTo(1) = {} THEN "end" ELSE "columns")
    /\ UNCHANGED <<mnBusy, localVars, sourceVars, columns, copied, faults, history>>

\* Mutant: the return after a failed getMysqlLastDate skips mnBusy = FALSE.
GuardReturns(t) ==
    /\ pc[t] = "guard"
    /\ Fault
    /\ Goes(t, "none")
    /\ UNCHANGED <<mnBusy, localVars, sourceVars, columns, copied, history>>

GuardFails(t) ==
    /\ pc[t] = "guard"
    /\ Fault
    /\ Goes(t, "end")
    /\ UNCHANGED <<mnBusy, localVars, sourceVars, columns, copied, history>>

\* syncColume: the columns of the destination against the fields of the source.
ReadsColumns(t) ==
    /\ pc[t] = "columns"
    /\ missing' = [missing EXCEPT ![t] = ColumnsOf(wanted[table[t]]) \ columns[table[t]]]
    /\ Goes(t, "alter")
    /\ UNCHANGED <<mnBusy, table, fields, since, batch, sourceVars, columns, copied, faults, history>>

ColumnsFail(t) == pc[t] = "columns" /\ FailsTable(t)

\* ALTER TABLE, one statement for each missing column; the others are taken also
\* when MySQL refuses one for its name.
Alters(t) ==
    /\ pc[t] = "alter"
    /\ columns' = [columns EXCEPT ![table[t]] = @ \cup (missing[t] \cap Legal)]
    /\ missing' = [missing EXCEPT ![t] = {}]
    /\ Goes(t, "fields")
    /\ UNCHANGED <<mnBusy, table, fields, since, batch, sourceVars, copied, faults, history>>

\* A statement that fails is logged; a connection that cannot be made ends the table.
AlterFails(t) ==
    /\ pc[t] = "alter" /\ missing[t] # {}
    /\ Fault
    /\ \E S \in SUBSET (missing[t] \cap Legal) :
           columns' = [columns EXCEPT ![table[t]] = @ \cup S]
    /\ \/ /\ Goes(t, "fields")
          /\ missing' = [missing EXCEPT ![t] = {}]
          /\ UNCHANGED <<table, fields, since, batch>>
       \/ EndsTable(t)
    /\ UNCHANGED <<mnBusy, sourceVars, copied, history>>

\* syncData: getFields is called again for the statement.
ReadsFields(t) ==
    /\ pc[t] = "fields"
    /\ fields' = [fields EXCEPT ![t] = wanted[table[t]]]
    /\ Goes(t, "since")
    /\ UNCHANGED <<mnBusy, table, missing, since, batch, sourceVars, columns, copied, faults, history>>

FieldsFail(t) == pc[t] = "fields" /\ FailsTable(t)

\* getMysqlLastDate, again.
ReadsSince(t) ==
    /\ pc[t] = "since"
    /\ \E d \in Date :
           /\ IsNewest(table[t], d)
           /\ since' = [since EXCEPT ![t] = d]
    /\ Goes(t, "query")
    /\ UNCHANGED <<mnBusy, table, missing, fields, batch, sourceVars, columns, copied, faults, history>>

\* The empty date of a call that failed selects every row.
SinceFails(t) ==
    /\ pc[t] = "since"
    /\ Fault
    /\ since' = [since EXCEPT ![t] = 0]
    /\ Goes(t, "query")
    /\ UNCHANGED <<mnBusy, table, missing, fields, batch, sourceVars, columns, copied, history>>

\* mongo->query
Queries(t) ==
    /\ pc[t] = "query"
    /\ batch' = [batch EXCEPT ![t] = Selected(t)]
    /\ since' = [since EXCEPT ![t] = 0]
    /\ Goes(t, "insert")
    /\ UNCHANGED <<mnBusy, table, missing, fields, sourceVars, columns, copied, faults, history>>

\* Neither a query without an answer nor a missing connection is told from an empty answer.
QueryFails(t) == pc[t] = "query" /\ FailsTable(t)

\* INSERT INTO: the rows come in no order; a copied row is a duplicate key.
Inserts(t, r) ==
    /\ pc[t] = "insert" /\ r \in batch[t]
    /\ batch' = [batch EXCEPT ![t] = @ \ {r}]
    /\ copied' = IF StatementFits(t) THEN copied \cup {r} ELSE copied
    /\ UNCHANGED <<mnBusy, pc, table, missing, fields, since, sourceVars, columns, faults, history>>

\* An INSERT that fails is logged and the next row is inserted.
InsertFails(t, r) ==
    /\ pc[t] = "insert" /\ r \in batch[t] \ copied
    /\ Fault
    /\ batch' = [batch EXCEPT ![t] = @ \ {r}]
    /\ excused' = excused \cup {r}
    /\ UNCHANGED <<mnBusy, pc, table, missing, fields, since, sourceVars, columns, copied, overtaken>>

BatchEnds(t) ==
    /\ pc[t] = "insert" /\ batch[t] = {}
    /\ EndsTable(t)
    /\ UNCHANGED <<mnBusy, sourceVars, columns, copied, faults, history>>

-----------------------------------------------------------------------------
(* The process and its surroundings *)

InBatch == UNION {batch[t] : t \in Thread}

\* A newer row of its table is copied, or about to be.
IsOvertakenBy(r, d, S) == \E q \in S : TableOf[q] = TableOf[r] /\ date[q] > d

\* The process ends at any point and its parent starts it again; the tables stay.
Crash ==
    /\ Fault
    /\ mnBusy' = FALSE
    /\ pc' = [t \in Thread |-> "none"]
    /\ table' = [t \in Thread |-> 1]
    /\ missing' = [t \in Thread |-> {}]
    /\ fields' = [t \in Thread |-> {}]
    /\ since' = [t \in Thread |-> 0]
    /\ batch' = [t \in Thread |-> {}]
    /\ excused' = excused \cup {r \in InBatch : IsOvertakenBy(r, date[r], copied)}
    /\ UNCHANGED <<sourceVars, columns, copied, overtaken>>

\* A device reports; its row may carry a date older than that of rows already there.
RowComes(r, d) ==
    /\ date[r] = 0
    /\ date' = [date EXCEPT ![r] = d]
    /\ excused' = IF IsOvertakenBy(r, d, copied \cup InBatch) THEN excused \cup {r} ELSE excused
    /\ UNCHANGED <<mnBusy, pc, localVars, wanted, columns, copied, faults, overtaken>>

FieldComes(k, f) ==
    /\ f \in FieldsOf[k] \ wanted[k]
    /\ wanted' = [wanted EXCEPT ![k] = @ \cup {f}]
    /\ UNCHANGED <<mnBusy, pc, localVars, date, columns, copied, faults, history>>

-----------------------------------------------------------------------------

\* What a thread does when nothing fails.
Copies(t) ==
    \/ Guards(t) \/ ReadsColumns(t) \/ Alters(t) \/ ReadsFields(t)
    \/ ReadsSince(t) \/ Queries(t) \/ BatchEnds(t)
    \/ \E r \in Row : Inserts(t, r)

Fails(t) ==
    \/ GuardFails(t) \/ ColumnsFail(t) \/ AlterFails(t) \/ FieldsFail(t)
    \/ SinceFails(t) \/ QueryFails(t)
    \/ \E r \in Row : InsertFails(t, r)

\* Two copies close and open the one MYSQL handle of the controller under each other:
\* what comes of it is undefined, and the model ends there.
Undefined == \E t, u \in Thread : t # u /\ pc[t] \in Copying /\ pc[u] \in Copying

Steps(t) == Expires(t) \/ SetsBusy(t) \/ Copies(t) \/ Fails(t) \/ ClearsBusy(t)

Next ==
    /\ ~Undefined
    /\ \/ \E t \in Thread : Steps(t)
       \/ \E r \in Row, d \in Date \ {0} : RowComes(r, d)
       \/ \E k \in Table, f \in Field : FieldComes(k, f)
       \/ Crash

Spec == Init /\ [][Next]_vars

(* The timer fires every ten seconds and every thread is scheduled; the       *)
(* connections have a timeout, so that a step is taken or fails.              *)
Fairness ==
    \A t \in Thread :
        /\ WF_vars(~Undefined /\ Expires(t))
        /\ WF_vars(~Undefined /\ (SetsBusy(t) \/ Copies(t) \/ ClearsBusy(t)))

FairSpec == Spec /\ Fairness

-----------------------------------------------------------------------------
(* Properties *)

\* Two threads copy at a time only after an expiry read mnBusy between the read and the
\* write of another: while one copies, mnBusy keeps every later expiry out, and no way
\* out of onTimer leaves it cleared too early.
OneSync == Undefined => overtaken

\* No row is passed over: a row of the source that is neither copied nor in the running
\* batch is not older than what the table holds, so that the next query finds it again.
\* The exceptions are the rows whose own INSERT failed, those of a batch that a crash cut
\* short after a newer row, and those that came with a date older than the rows copied;
\* nothing is said once an expiry was overtaken.
\* A field that appears between syncColume and the INSERT costs no row.
NothingSkipped ==
    ~overtaken =>
        \A r \in Row :
            date[r] # 0 /\ r \notin copied \cup InBatch \cup excused
                => ~IsOvertakenBy(r, date[r], copied)

\* The names of the fields of table k can be the columns of one statement.
NamesFit(k) == ColumnsOf(wanted[k]) \subseteq Legal /\ NamesDiffer(wanted[k])

\* Once the first table holds a row and the application has a field, a row of the source
\* is copied in the end, unless it is one of the exceptions above, or the application has
\* a field whose name MySQL does not take or that shares its column with another: then no
\* INSERT of the table succeeds any more, though nothing has failed.
RowsAreCopied ==
    \A r \in Row :
        date[r] # 0 /\ CopiedTo(1) # {} /\ wanted[TableOf[r]] # {}
            ~> r \in copied \cup excused \/ overtaken \/ ~NamesFit(TableOf[r])

=============================================================================
