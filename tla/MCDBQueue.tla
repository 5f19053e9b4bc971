------------------------------ MODULE MCDBQueue ------------------------------
(* DBQueue with two requests, and two workers that come and go.            *)
EXTENDS DBQueue
=============================================================================
