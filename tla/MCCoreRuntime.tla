---------------------------- MODULE MCCoreRuntime ----------------------------
(* A small instance of CoreRuntime for TLC; CoreRuntime.cfg names the sets. *)
EXTENDS CoreRuntime

EveryExtra == {"cancel", "approve", "cycle", "shutdown"}

AllFaults == {"model", "consumer", "handle"}
=============================================================================
