------------------------------- MODULE Database -------------------------------
(***************************************************************************)
(* Database (wsDatabase): one MySQL connection, its cache of prepared      *)
(* statements, and the results of text queries, as a worker thread of      *)
(* DBQueue uses it for one request after the other.                        *)
(*                                                                         *)
(* The statements of the cache are in the order of their lastUseTime.      *)
(* MySQL is environment: the rows of a statement hold the values that it   *)
(* was executed with, or NULLs, as when a request reads back what was      *)
(* stored.  The application reads a row when execute() has returned true,  *)
(* and nextRow() after that.                                               *)
(***************************************************************************)
EXTENDS DBStatement

CONSTANTS
    SQLs,
    MaxRows,       \* bound: rows of a result
    MaxResultSets, \* bound: result sets of one query
    Loads          \* the sizes of the cache, and bounds on what is done

ASSUME DatabaseAssumption ==
    /\ {MaxRows, MaxResultSets} \subseteq Nat \ {0}
    /\ \A l \in Loads : /\ l.limit \in Nat /\ l.sqls \subseteq SQLs
                        /\ l.values \subseteq Values
                        /\ l.fields \subseteq Seq({"num", "string", "blob"})

VARIABLES
    load,          \* one of the Loads: maxStmtCache, the statements that are
                   \* prepared, the values that are bound, and the types of
                   \* the fields that text queries return
    mysql,         \* "null", "open", or "broken": a handle without a connection
    stmtCache,     \* the cached statements, least recently used first
    ofThis,        \* the cached statements that the open connection prepared,
                   \* in the database that it uses now
    stmt,          \* each cached statement
    stale,         \* those with a parameter that an older request has bound
    pending,       \* result sets of the last query that were not asked for
    lastRecords,   \* the age of lastRecords
    \* the application
    held,          \* the statements the current request has prepared, in order
    freed,         \* those of held that it has freed itself
    use,           \* what it has done with each of them
    record,        \* the Recordset that it has got
    fields,        \* what it has read of the Recordset's row
    changed        \* whether changeDatabase() was called on this connection

maxStmtCache == load.limit
cache      == <<stmtCache, ofThis>>
requests   == <<held, freed>>
statements == <<stmt, stale, use>>
results    == <<pending, lastRecords>>
records    == <<record, fields>>
databaseVars == <<load, mysql, cache, requests, statements, results, records, changed>>

Ages == {"none", "current", "older"}

\* The application's side of a statement: the values it has bound since
\* prepare() or clear(), as many as there are parameters; whether it has
\* executed it and fetched a row then; the values it has executed it with; and
\* what it has read of the row.
NoUse == [asked |-> <<>>, stage |-> "prepared", ran |-> <<>>, got |-> <<>>]
Got(value, result) == [value |-> value, result |-> result]

Readings == [value : [type : Types \cup {"none", "bytes"}, v : Int, unit : Nat \ {0}],
             result : Results]
Usages == [asked : Seq(Values), stage : {"prepared", "executed", "fetched"},
           ran : Seq(Values), got : Seq(Readings)]

DatabaseTypeOK ==
    /\ load \in Loads /\ mysql \in {"null", "open", "broken"}
    /\ stmtCache \in Seq(SQLs) /\ IsInjective(stmtCache)
    /\ held \in Seq(SQLs) /\ IsInjective(held)
    /\ ofThis \subseteq Range(stmtCache) /\ freed \subseteq Range(held)
    /\ stale \subseteq Range(stmtCache) /\ changed \in BOOLEAN
    /\ stmt \in [SQLs -> Statements] /\ use \in [SQLs -> Usages]
    /\ \A s \in SQLs \ Range(stmtCache) : stmt[s] = NewStatement /\ use[s] = NoUse
    /\ pending \in 0..MaxResultSets /\ lastRecords \in Ages
    /\ record \in Recordsets /\ fields \in Seq(Readings)

DatabaseInit ==
    /\ load \in Loads /\ mysql = "null"
    /\ stmtCache = <<>> /\ ofThis = {} /\ held = <<>> /\ freed = {}
    /\ stmt = [s \in SQLs |-> NewStatement] /\ stale = {}
    /\ use = [s \in SQLs |-> NoUse]
    /\ pending = 0 /\ lastRecords = "none"
    /\ record = NewRecordset(<<>>) /\ fields = <<>> /\ changed = FALSE

\* The statements that are left in the cache keep what they have.
OnlyCached ==
    /\ ofThis' = ofThis \cap Range(stmtCache') /\ stale' = stale \cap Range(stmtCache')
    /\ stmt' = [s \in SQLs |-> IF s \in Range(stmtCache') THEN stmt[s] ELSE NewStatement]
    /\ use' = [s \in SQLs |-> IF s \in Range(stmtCache') THEN use[s] ELSE NoUse]

-----------------------------------------------------------------------------
(* The connection, and the requests that use it                            *)

\* stmtCache.clear() and mysql_close(); next is the handle afterwards.
Close(next) ==
    /\ mysql' = next /\ pending' = 0
    /\ stmtCache' = <<>> /\ held' = <<>> /\ freed' = {} /\ OnlyCached
    /\ changed' = FALSE
    /\ UNCHANGED <<load, lastRecords, records>>

\* logon() starts with logoff(); when mysql_real_connect fails, the handle is
\* kept.
logon == \E next \in {"open", "broken"} : Close(next)

logoff == mysql # "null" /\ Close("null")

ConnectionLost ==
    /\ mysql = "open" /\ mysql' = "broken" /\ pending' = 0
    /\ UNCHANGED <<load, cache, requests, statements, lastRecords, records, changed>>

\* The cached statements go on using the database they were prepared in.
ChangeDatabase ==
    /\ mysql = "open" /\ changed' = TRUE /\ ofThis' = {}
    /\ UNCHANGED <<load, mysql, stmtCache, requests, statements, results, records>>

\* onRequest is called with the next request once isConnected(); what the
\* last one has bound is old.
NextRequest ==
    /\ mysql = "open" /\ held' = <<>> /\ freed' = {}
    /\ stale' = {s \in Range(stmtCache) : stmt[s].bind # NewStatement.bind}
    /\ use' = [s \in SQLs |-> NoUse]
    /\ record' = NewRecordset(<<>>) /\ fields' = <<>>
    /\ UNCHANGED <<load, mysql, cache, stmt, results, changed>>

-----------------------------------------------------------------------------
(* The cache of prepared statements                                        *)

\* The sequence q, which has no element twice, without s, and with s at its end.
Position(q, s) == CHOOSE i \in DOMAIN q : q[i] = s
Without(q, s) == IF s \in Range(q) THEN RemoveAt(q, Position(q, s)) ELSE q

Used(q, s) == Append(Without(q, s), s)

\* clear() of a cached statement: its bindings are emptied.
Cleared(s) ==
    /\ stmt' = [stmt EXCEPT ![s] = clear(@)]
    /\ stale' = {t \in stale : stmt'[t].bind # NewStatement.bind}
    /\ use' = [use EXCEPT ![s] = NoUse]

\* Mutated form: the bindings of the last use are kept.
PrepareHitKept(s) ==
    /\ mysql # "null" /\ s \in Range(stmtCache)
    /\ stmtCache' = Used(stmtCache, s)
    /\ held' = Used(held, s)
    /\ UNCHANGED <<load, mysql, ofThis, statements, freed, results, records, changed>>

\* prepare() of a cached statement.
PrepareHit(s) ==
    /\ mysql # "null" /\ s \in Range(stmtCache)
    /\ stmtCache' = Used(stmtCache, s)
    /\ held' = Used(held, s)
    /\ Cleared(s)
    /\ UNCHANGED <<load, mysql, ofThis, freed, results, records, changed>>

\* Mutated form: the statements that were used last are evicted.
EvictedNewest(c) ==
    IF Len(c) < maxStmtCache THEN c
    ELSE SubSeq(c, 1, Len(c) - maxStmtCache \div 2)

\* A full cache loses half of maxStmtCache statements, the ones that were not
\* used for longest.
Evicted(c) ==
    IF Len(c) < maxStmtCache THEN c
    ELSE SubSeq(c, maxStmtCache \div 2 + 1, Len(c))

\* prepare() of a statement that is not cached.
PrepareMiss(s) ==
    /\ mysql = "open" /\ s \in load.sqls \ Range(stmtCache)
    /\ stmtCache' = Append(Evicted(stmtCache), s)
    /\ ofThis' = (ofThis \cap Range(Evicted(stmtCache))) \cup {s}
    /\ stale' = stale \cap Range(stmtCache')
    /\ stmt' = [t \in SQLs |-> IF t \in Range(stmtCache') THEN stmt[t] ELSE NewStatement]
    /\ use' = [t \in SQLs |-> IF t \in Range(stmtCache') THEN use[t] ELSE NoUse]
    /\ held' = Used(held, s) /\ freed' = freed \ {s}
    /\ UNCHANGED <<load, mysql, results, records, changed>>

FreeStatement(s) ==
    /\ s \in Range(stmtCache)
    /\ stmtCache' = Without(stmtCache, s) /\ OnlyCached
    /\ freed' = freed \cup ({s} \cap Range(held))
    /\ UNCHANGED <<load, mysql, held, results, records, changed>>

ClearCache ==
    /\ stmtCache # <<>>
    /\ stmtCache' = <<>> /\ held' = <<>> /\ freed' = {} /\ OnlyCached
    /\ UNCHANGED <<load, mysql, results, records, changed>>

-----------------------------------------------------------------------------
(* A statement, as the request that has prepared it uses it                *)

Usable(s) == s \in Range(held) \cap Range(stmtCache)

\* The statement becomes st, and what the application did is d.
Uses(s, st, d) ==
    /\ Usable(s) /\ load.values # {}
    /\ stmt' = [stmt EXCEPT ![s] = st] /\ use' = [use EXCEPT ![s] = d]
    /\ UNCHANGED <<load, mysql, cache, requests, stale, results, records, changed>>

\* operator<<, bindString and bindBlob, of which there may be too many.
Bind(s, value) ==
    LET asked == Append(use[s].asked, value)
    IN  Uses(s, bind(stmt[s], value),
             IF Len(asked) <= NumParams THEN [use[s] EXCEPT !.asked = asked] ELSE use[s])

ClearStatement(s) ==
    /\ Usable(s) /\ Cleared(s)
    /\ UNCHANGED <<load, mysql, cache, requests, results, records, changed>>

\* The rows that MySQL may return for the parameters.
RowsOf(columns) ==
    BoundedSeq({columns, [i \in DOMAIN columns |-> NullColumn(columns[i].type)]}, MaxRows)

Execute(s) ==
    /\ mysql = "open"
    /\ \E rows \in RowsOf(stmt[s].bind) :
        Uses(s, execute(stmt[s], rows),
             [use[s] EXCEPT !.stage = "executed", !.ran = use[s].asked, !.got = <<>>])

ExecuteFails(s) ==
    Uses(s, execute(stmt[s], <<>>), [use[s] EXCEPT !.stage = "prepared", !.got = <<>>])

NextRow(s) ==
    /\ use[s].stage # "prepared" /\ stmt[s].rows # <<>>
    /\ Uses(s, nextRow(stmt[s]), [use[s] EXCEPT !.stage = "fetched", !.got = <<>>])

\* operator>> into a variable of the type of the parameter, or another, and
\* getBlob.
ReadColumn(s, value) ==
    /\ use[s].stage = "fetched" /\ Len(use[s].got) < NumParams
    /\ \/ value.type = "num"
       \/ /\ Len(use[s].got) < Len(use[s].ran) /\ value.type # "null"
          /\ value = use[s].ran[Len(use[s].got) + 1]
    /\ Uses(s, AfterRead(stmt[s]),
            [use[s] EXCEPT !.got = Append(@, Got(value, Read(stmt[s], value)))])

\* operator>> of a blob into a ByteArray that holds data, as after another read.
ReadAppending(s) ==
    /\ use[s].stage = "fetched" /\ Len(use[s].got) < NumParams
    /\ Len(use[s].got) < Len(use[s].ran) /\ use[s].ran[Len(use[s].got) + 1].type = "blob"
    /\ Uses(s, AfterRead(stmt[s]),
            [use[s] EXCEPT !.got = Append(@, Got(Value("bytes", 0, 1), ReadBehind(stmt[s])))])

SkipColumn(s) ==
    /\ use[s].stage = "fetched" /\ Len(use[s].got) < NumParams
    /\ Uses(s, skipFields(stmt[s], 1),
            [use[s] EXCEPT !.got = Append(@, Got(Value("none", 0, 1), Keeps))])

-----------------------------------------------------------------------------
(* Text queries                                                            *)

\* lastRecords once a result set is stored: rows, none, or no result set.
StoredResult(kind) ==
    CASE kind = "rows"   -> "current"
      [] kind = "empty"  -> IF lastRecords = "current" THEN "older" ELSE lastRecords
      [] kind = "update" -> "none"

Kinds == {"rows", "empty", "update"}

Queries(age, n) ==
    /\ mysql # "null" /\ load.fields # {}
    /\ lastRecords' = age /\ pending' = n
    /\ UNCHANGED <<load, mysql, cache, requests, statements, records, changed>>

\* query(): what is left of the last query is skipped; n sets are to come.
Query(kind, n) == mysql = "open" /\ Queries(StoredResult(kind), n)

QueryFails == Queries("none", 0)

NextRecordset(kind) == pending > 0 /\ Queries(StoredResult(kind), pending - 1)

\* getLastRecord() hands lastRecords over; fields without NULLs are numbered.
GetLastRecord ==
    /\ lastRecords # "none" /\ lastRecords' = "none"
    /\ \E types \in load.fields :
        \E rows \in RowsOf([i \in DOMAIN types |-> Column(types[i], <<i>>)]) :
            record' = NewRecordset(rows)
    /\ fields' = <<>>
    /\ UNCHANGED <<load, mysql, cache, requests, statements, pending, changed>>

\* The Recordset becomes r, and the fields that were read of its row are f.
Reads(r, f) ==
    /\ record' = r /\ fields' = f
    /\ UNCHANGED <<load, mysql, cache, requests, statements, results, changed>>

NextRecord == record # NewRecordset(<<>>) /\ Reads(nextRecord(record), <<>>)

ReadRecord(type) ==
    /\ Len(fields) < Len(record.row)
    /\ Reads(AfterReadField(record, type),
             Append(fields, Got(Value(type, 0, 1), ReadField(record, type))))

SkipField ==
    /\ Len(fields) < Len(record.row)
    /\ Reads([record EXCEPT !.fieldIndex = @ + 1],
             Append(fields, Got(Value("none", 0, 1), Keeps)))

-----------------------------------------------------------------------------
DatabaseNext ==
    \/ logon \/ logoff \/ ConnectionLost \/ ChangeDatabase \/ NextRequest \/ ClearCache
    \/ \E s \in SQLs :
        \/ PrepareHit(s) \/ PrepareMiss(s) \/ FreeStatement(s) \/ ClearStatement(s)
        \/ Execute(s) \/ ExecuteFails(s) \/ NextRow(s) \/ ReadAppending(s) \/ SkipColumn(s)
        \/ \E value \in load.values : Bind(s, value)
        \/ \E value \in load.values \cup {Value("num", 0, 1)} : ReadColumn(s, value)
    \/ \E kind \in Kinds : \/ NextRecordset(kind)
                           \/ \E n \in 0..MaxResultSets : Query(kind, n)
    \/ QueryFails \/ GetLastRecord \/ NextRecord \/ SkipField
    \/ \E type \in {"num", "string", "blob"} : ReadRecord(type)

DatabaseSpec == DatabaseInit /\ [][DatabaseNext]_databaseVars

-----------------------------------------------------------------------------
(* Properties                                                              *)

\* The pointers that prepare() returned to the current request are valid
\* although prepare() evicts: the statement it returned last and, before it,
\* as many as are not evicted from a full cache, but for those it has freed.
HeldValid ==
    \A i \in 1..Len(held) :
        Len(held) - i <= maxStmtCache - maxStmtCache \div 2
            => held[i] \in Range(stmtCache) \cup freed

\* What a request can execute is its own: a statement it has prepared was
\* prepared on the connection that is open and, unless changeDatabase() was
\* called on it, in the database that is in use, and no parameter is bound to a
\* value of an earlier request, whose memory may be gone.
StatementsCurrent ==
    /\ Range(stmtCache) \subseteq ofThis \/ changed
    /\ Range(held) \cap stale = {}

\* What is read of a NULL, by the comments of Database.h: 0, the empty string,
\* or nothing.
WhenNull(type) == IF type \in {"num", "string", "time"} THEN Gives(0) ELSE Keeps

\* The value of a type comes back from MySQL as it went there.  Two do not: a
\* duration loses its sign, and a time_point in ticks between a microsecond and
\* a second, of which nothing is said here, its fraction.
Same(value, v) ==
    CASE value.type = "time" -> v = IF value.v < 0 THEN -value.v ELSE value.v
      [] value.type = "datetime" /\ value.unit \notin {1, UsecPerSec} -> TRUE
      [] value.type # "time" /\ ~ (value.type = "datetime" /\ value.unit \notin {1, UsecPerSec})
            -> v = value.v

\* Each field that is read from a statement's row in the type of its column, a
\* blob into an empty ByteArray, is the value of that parameter in the last
\* execution, and no other.
ColumnsReadBack ==
    \A s \in SQLs : \A i \in 1..Len(use[s].got) :
        LET read == use[s].got[i]
            ran  == use[s].ran[i]
        IN  i <= Len(use[s].ran) /\ read.value.type = ran.type /\ read.value.unit = ran.unit
            => IF stmt[s].row[i].null THEN read.result = WhenNull(ran.type)
               ELSE read.result.given /\ Same(ran, read.result.v)

\* The same of the fields of a text query, which have their number as a value,
\* up to a ByteArray that is read from a field that is not a blob.
FieldsReadBack ==
    \A i \in 1..Len(fields) :
        LET type == fields[i].value.type
        IN  /\ type # "none"
            /\ \A j \in 1..i : fields[j].value.type = "blob" => record.row[j].type = "blob"
            => fields[i].result = IF ~ record.row[i].null THEN Gives(i)
                                  ELSE IF type = "string" THEN Gives(0) ELSE Keeps

ReadBack == ColumnsReadBack /\ FieldsReadBack

\* What a ByteArray held is gone when a statement's blob was read into it, as
\* the comment of operator>> says (Database.h:413).
BlobReplaced ==
    \A s \in SQLs : \A i \in 1..Len(use[s].got) :
        use[s].got[i].value.type = "bytes" /\ ~ stmt[s].row[i].null
            => ~ use[s].got[i].result.kept

\* getLastRecord() returns the result set of the last query.
LastRecordIsLast == lastRecords # "older"
=============================================================================
