--------------------------- MODULE MCClientSocket ---------------------------
(* ClientSocket with up to three sessions and a few bytes each way, which   *)
(* the application sends at any status.                                     *)
EXTENDS ClientSocket
=============================================================================
