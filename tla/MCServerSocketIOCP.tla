-------------------------- MODULE MCServerSocketIOCP --------------------------
(* ServerSocketIOCP with two threads: a connection with two bytes to read  *)
(* whose peer may close, one with two bytes to write, one with a byte to   *)
(* write that may break, and two that compete for the room there is for    *)
(* one.                                                                    *)
EXTENDS ServerSocketIOCP

CONSTANTS c1, c2

Load(connecting, in, out, closing, breaking) ==
    [connecting |-> connecting, in |-> [c \in Clients |-> in],
     out |-> [c \in Clients |-> out], closing |-> closing, breaking |-> breaking]

FourLoads == {Load({c1}, 2, 0, {c1}, {}), Load({c1}, 0, 2, {}, {}),
              Load({c1}, 0, 1, {}, {c1}), Load({c1, c2}, 0, 0, {}, {})}
=============================================================================
