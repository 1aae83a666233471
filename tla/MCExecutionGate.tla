--------------------------- MODULE MCExecutionGate ---------------------------
(* The gate by itself. *)
EXTENDS ExecutionGate

=============================================================================
