-------------------------------- MODULE MCNode --------------------------------
(* Node with the retries, the breaker and the tasks cut down in number.  A *)
(* tick is as long as the breaker's timeout, as in main.go: retries meet   *)
(* it from both sides.                                                     *)
EXTENDS Node
=============================================================================
