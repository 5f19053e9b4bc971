----------------------------- MODULE DBStatement -----------------------------
(***************************************************************************)
(* DBStatement and Recordset (wsDatabase) as operators on records: binding *)
(* the parameters of a prepared statement, and reading the rows of its     *)
(* result, or of a text query's, field by field.                           *)
(*                                                                         *)
(* A value is a type and a number; 0 is the number zero, the empty string  *)
(* and the empty ByteArray.  What is bound by reference and what is copied *)
(* into paramsBuffer is one thing here: the application keeps what it      *)
(* binds alive until it has executed.  Times are converted as the code     *)
(* does, in a unit in which UsecPerSec is small.                           *)
(***************************************************************************)
EXTENDS SequencesExt, Integers

CONSTANTS
    NumParams,     \* parameters of each statement, and columns of its result
    UsecPerSec, UsecPerMin, UsecPerHour, UsecPerDay

ASSUME StatementAssumption ==
    /\ NumParams \in Nat
    /\ {UsecPerSec, UsecPerMin, UsecPerHour, UsecPerDay} \subseteq Nat \ {0}
    /\ UsecPerMin % UsecPerSec = 0 /\ UsecPerHour % UsecPerMin = 0
    /\ UsecPerDay % UsecPerHour = 0

TimeTypes == {"time", "date", "datetime"}
Types     == {"num", "string", "blob", "null"} \cup TimeTypes

\* A value of the application; unit is the microseconds in a tick of a
\* time_point, a day for a date, and 1 for the other types.
Value(type, v, unit) == [type |-> type, v |-> v, unit |-> unit]
Values ==
    {value \in [type : Types, v : Int, unit : Nat \ {0}] :
        value.type = "date" => value.unit = UsecPerDay}

\* A buffer that a MYSQL_BIND points to, or a column of a row.
Column(type, data) == [type |-> type, null |-> FALSE, data |-> data]
NullColumn(type)   == [type |-> type, null |-> TRUE, data |-> <<0>>]

\* A MYSQL_TIME has five parts.
Columns ==
    {c \in [type : Types \cup {"decimal"}, null : BOOLEAN, data : Seq(Int) \ {<<>>}] :
        c.type \in TimeTypes /\ ~c.null => Len(c.data) = 5}

\* A MYSQL_BIND after memset: a decimal of no length.
Unbound == Column("decimal", <<0>>)

-----------------------------------------------------------------------------
(* Times                                                                   *)

\* A MYSQL_TIME of a time of day, or of hours beyond that.
TimeOf(v) ==
    LET usec == IF v < 0 THEN -v ELSE v
    IN  <<IF v < 0 THEN 1 ELSE 0,
          usec \div UsecPerHour, (usec % UsecPerHour) \div UsecPerMin,
          (usec % UsecPerMin) \div UsecPerSec, usec % UsecPerSec>>

\* operator>>(microseconds) does not look at neg.
TimeFrom(t) == t[2] * UsecPerHour + t[3] * UsecPerMin + t[4] * UsecPerSec + t[5]

\* A MYSQL_TIME of a time_point: second_part is in ticks.
DateTimeOf(v, unit) ==
    LET usec == v * unit
    IN  <<usec \div UsecPerDay,
          (usec % UsecPerDay) \div UsecPerHour, (usec % UsecPerHour) \div UsecPerMin,
          (usec % UsecPerMin) \div UsecPerSec, (usec % UsecPerSec) \div unit>>

\* operator>>(time_point), in which second_part is in microseconds.
DateTimeFrom(t, unit) ==
    (t[1] * UsecPerDay + t[2] * UsecPerHour + t[3] * UsecPerMin + t[4] * UsecPerSec + t[5])
        \div unit

-----------------------------------------------------------------------------
(* Parameters                                                              *)

NewStatement == [bind |-> [i \in 1..NumParams |-> Unbound], paramIndex |-> 0,
                 rows |-> <<>>, row |-> <<>>, resultIndex |-> 0]

Statements ==
    [bind : [1..NumParams -> Columns], paramIndex : 0..NumParams,
     rows : Seq(Seq(Columns)), row : Seq(Columns), resultIndex : Nat]

\* What the overloads of operator<<, bindString and bindBlob leave.
Bound(value) ==
    CASE value.type = "null" \/ (value.type = "blob" /\ value.v = 0) -> NullColumn("null")
      [] value.type = "time"     -> Column("time", TimeOf(value.v))
      [] value.type = "datetime" -> Column("datetime", DateTimeOf(value.v, value.unit))
      [] value.type = "date"     -> Column("date", <<value.v, 0, 0, 0, 0>>)
      [] value.type = "blob" /\ value.v # 0 -> Column("blob", <<value.v>>)
      [] value.type \in {"num", "string"}   -> Column(value.type, <<value.v>>)

\* A value too many is not bound.
bind(st, value) ==
    IF st.paramIndex < NumParams
    THEN [st EXCEPT !.bind[st.paramIndex + 1] = Bound(value), !.paramIndex = @ + 1]
    ELSE st

\* The rows that mysql_stmt_store_result() has stored stay.
clear(st) ==
    [st EXCEPT !.bind = NewStatement.bind, !.paramIndex = 0, !.row = <<>>,
               !.resultIndex = 0]

\* execute(): the library drops the rows of the last one before anything else.
execute(st, rows) == [st EXCEPT !.rows = rows]

-----------------------------------------------------------------------------
(* Results: what a read leaves in the application's variable               *)

\* The value v, what the variable held before, and that with v behind it.
Gives(v) == [given |-> TRUE, v |-> v, kept |-> FALSE]
Keeps    == [given |-> FALSE, v |-> 0, kept |-> TRUE]
Adds(v)  == [given |-> TRUE, v |-> v, kept |-> TRUE]
Results  == [given : BOOLEAN, v : Int, kept : BOOLEAN]

\* Mutated form: the next row is read from where the last one was left.
nextRowKeepsIndex(st) == [st EXCEPT !.row = Head(st.rows), !.rows = Tail(@)]

\* nextRow() of a result that has a row left; of one that has none, it leaves
\* the last row where it was, which nobody reads.
nextRow(st) ==
    [st EXCEPT !.resultIndex = 0, !.row = Head(st.rows), !.rows = Tail(@)]

IsNum(type) == type \in {"num", "decimal", "null"}

\* operator>> of a DBStatement, into a ByteArray that is empty, and getBlob.
FromColumn(c, value) ==
    CASE value.type = "num" /\ ~ IsNum(c.type)            -> Keeps
      [] value.type = "num" /\ IsNum(c.type) /\ c.null    -> Gives(0)
      [] value.type = "num" /\ IsNum(c.type) /\ ~ c.null  -> Gives(c.data[1])
      [] value.type = "string" -> Gives(IF c.null THEN 0 ELSE c.data[1])
      [] value.type = "blob"   -> IF c.null THEN Keeps ELSE Gives(c.data[1])
      [] value.type = "time" /\ c.null                    -> Gives(0)
      [] value.type = "time" /\ ~ c.null ->
            IF c.type = "time" THEN Gives(TimeFrom(c.data)) ELSE Keeps
      [] value.type \in {"date", "datetime"} ->
            IF ~ c.null /\ c.type \in {"date", "datetime"}
            THEN Gives(DateTimeFrom(c.data, value.unit)) ELSE Keeps

\* The result of a read, which is out of range when all columns were read.
Read(st, value) ==
    IF st.resultIndex < Len(st.row)
    THEN FromColumn(st.row[st.resultIndex + 1], value) ELSE Keeps

\* operator>> into a ByteArray that holds data: writeData() appends to it.
ReadBehind(st) ==
    IF st.resultIndex < Len(st.row) /\ ~ st.row[st.resultIndex + 1].null
    THEN Adds(st.row[st.resultIndex + 1].data[1]) ELSE Keeps

\* Each read goes on to the next column, and skipFields too.
AfterRead(st) ==
    IF st.resultIndex < Len(st.row) THEN [st EXCEPT !.resultIndex = @ + 1] ELSE st
skipFields(st, num) == [st EXCEPT !.resultIndex = @ + num]

-----------------------------------------------------------------------------
(* Recordset: the rows of a text query                                     *)

NewRecordset(rows) == [rows |-> rows, row |-> <<>>, fieldIndex |-> 0]
Recordsets == [rows : Seq(Seq(Columns)), row : Seq(Columns), fieldIndex : Nat]

nextRecord(r) ==
    IF r.rows = <<>> THEN [r EXCEPT !.fieldIndex = 0, !.row = <<>>]
    ELSE [rows |-> Tail(r.rows), row |-> Head(r.rows), fieldIndex |-> 0]

\* A number keeps its value when the field is NULL; only a blob is read into a
\* ByteArray, which is empty here.
FieldGives(c, type) ==
    CASE type = "num"    -> IF c.null THEN Keeps ELSE Gives(c.data[1])
      [] type = "string" -> Gives(IF c.null THEN 0 ELSE c.data[1])
      [] type = "blob"   -> IF c.null \/ c.type # "blob" THEN Keeps ELSE Gives(c.data[1])

ReadField(r, type) ==
    IF r.fieldIndex < Len(r.row) THEN FieldGives(r.row[r.fieldIndex + 1], type) ELSE Keeps

\* A ByteArray does not go on from a field that is not a blob.
AfterReadField(r, type) ==
    IF r.fieldIndex < Len(r.row)
       /\ (type = "blob" => r.row[r.fieldIndex + 1].type = "blob")
    THEN [r EXCEPT !.fieldIndex = @ + 1] ELSE r
=============================================================================
