---------------------------- MODULE MCSyncTracker ----------------------------
EXTENDS SyncTracker, Sequences

\* One row of the first table, which decides for both, and two of the second.
Tables == <<1, 2, 2>>

\* The one row of the first table is there, or nothing is copied at all: its
\* application needs no field.
FieldsByTable == <<{}, {1, 2, 3}>>

\* Field 2 is field 1 in capitals; the name of field 3 is no name of a column.
Names == <<"speed", "speed", "key">>
=============================================================================
