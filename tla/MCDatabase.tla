----------------------------- MODULE MCDatabase -----------------------------
(* Database with a cache of each limit up to 4 and more statements than it  *)
(* holds, a statement that is executed with each pair of values of several  *)
(* types, and text queries.                                                 *)
EXTENDS Database

Load(limit, sqls, values, layouts) ==
    [limit |-> limit, sqls |-> sqls, values |-> values, fields |-> layouts]

Plain == {Value("num", 1, 1), Value("string", 2, 1), Value("blob", 3, 1),
          Value("blob", 0, 1), Value("null", 0, 1)}

\* Values that carry into every unit.
Times == {Value("time", -21, 1), Value("date", 2, UsecPerDay), Value("datetime", 45, 1),
          Value("datetime", 13, 2), Value("datetime", 11, UsecPerSec)}

Layouts == {<<"num", "blob">>, <<"blob", "string">>}

Cases ==
    {Load(limit, 1..4, {}, {}) : limit \in 0..3}
    \cup {Load(4, 1..5, {}, {}), Load(2, {1}, Plain, {}), Load(2, {1}, Times, {}),
          Load(2, {1}, {}, Layouts)}

Blobs == {Load(2, {1}, {Value("blob", 2, 1), Value("blob", 3, 1)}, {})}

Queried == {Load(2, {}, {}, Layouts)}
=============================================================================
