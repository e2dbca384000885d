------------------------- MODULE MCRequestDeadline -------------------------
(* The run gives the timeouts the values of the code, in seconds; the cfg   *)
(* bounds how often the database stops during the request.                  *)
EXTENDS RequestDeadline
=============================================================================
