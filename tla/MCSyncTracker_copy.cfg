SPECIFICATION FairSpec
CONSTANTS
    Thread = {1, 2}
    Row = {1, 2, 3}
    TableOf <- Tables
    LastTable = 2
    Field = {1, 2, 3}
    FieldsOf <- FieldsByTable
    Column = {"speed", "key"}
    ColumnOf <- Names
    Legal = {"speed"}
    MaxDate = 2
    MaxFault = 1
INVARIANT TypeOK
INVARIANT OneSync
INVARIANT NothingSkipped
PROPERTY RowsAreCopied
CHECK_DEADLOCK FALSE
