--------------------------- MODULE MCServerSocket ---------------------------
(* ServerSocket with one connection that exchanges data and whose peer may *)
(* close, and that gets more bytes than one recv takes or is sent several; *)
(* with an old one that is sent a byte and one that comes when the next id *)
(* is in use, which may get the old one's descriptor number; or with two   *)
(* that come when there is room for one.                                   *)
EXTENDS ServerSocket

CONSTANTS c1, c2

Load(old, connecting, in, out, closing, max, fails) ==
    [old |-> [i \in Ids |-> IF i = 1 THEN old ELSE NoClient], connecting |-> connecting,
     in |-> [c \in Clients |-> in], out |-> [c \in Clients |-> IF c = c1 THEN out ELSE 0],
     closing |-> closing, maxConnection |-> max, acceptFails |-> fails]

FourLoads == {Load(NoClient, {c1}, 3, 1, {c1}, 1, FALSE),
              Load(NoClient, {c1}, 1, 2, {c1}, 1, FALSE),
              Load(c1, {c2}, 0, 1, {}, 2, TRUE),
              Load(NoClient, {c1, c2}, 0, 0, {}, 1, FALSE)}
=============================================================================
