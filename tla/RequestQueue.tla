---------------------------- MODULE RequestQueue ----------------------------
(***************************************************************************)
(* What a request queue of the library promises to the thread that uses    *)
(* it, whatever runs the requests: requests are started in the order in    *)
(* which they were added, each is run at most once, and its completion     *)
(* callback is called at most once, in the order in which the requests     *)
(* completed.  DBQueue implements this specification.                      *)
(***************************************************************************)
EXTENDS Sequences, Integers, Functions

CONSTANT Requests

VARIABLES queued,     \* added and not started, in the order of the calls
          running,    \* started and not completed
          completed,  \* completed, completion callback not called yet
          delivered   \* completion callback called

rqVars == <<queued, running, completed, delivered>>

Known == Range(queued) \cup running \cup Range(completed) \cup Range(delivered)

Init == queued = <<>> /\ running = {} /\ completed = <<>> /\ delivered = <<>>

Add(r) == /\ r \notin Known
          /\ queued' = Append(queued, r)
          /\ UNCHANGED <<running, completed, delivered>>

Start == /\ queued # <<>>
         /\ queued' = Tail(queued)
         /\ running' = running \cup {Head(queued)}
         /\ UNCHANGED <<completed, delivered>>

Complete(r) == /\ r \in running
               /\ running' = running \ {r}
               /\ completed' = Append(completed, r)
               /\ UNCHANGED <<queued, delivered>>

Deliver == /\ completed # <<>>
           /\ completed' = Tail(completed)
           /\ delivered' = Append(delivered, Head(completed))
           /\ UNCHANGED <<queued, running>>

Next == Start \/ Deliver \/ \E r \in Requests : Add(r) \/ Complete(r)

Spec == Init /\ [][Next]_rqVars
=============================================================================
