----------------------------- MODULE MCHttpQueue -----------------------------
(* HttpQueue on two threads with a GET, a POST without parameters, and a    *)
(* request that sends a POST with parameters and then a GET.                *)
EXTENDS HttpQueue, TLC

CONSTANTS get, post1, post2

Get       == [method |-> "GET", params |-> TRUE]
Post      == [method |-> "POST", params |-> FALSE]
PostQuery == [method |-> "POST", params |-> TRUE]

MCRequests == {get, post1, post2}
MCCalls    == (get :> <<Get>>) @@ (post1 :> <<Post>>) @@ (post2 :> <<PostQuery, Get>>)
=============================================================================
