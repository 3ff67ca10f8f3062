------------------------------ MODULE MCJobQueue ------------------------------
(* Two or three of the processors of src/jobs, all on the one queue. *)
EXTENDS JobQueue

Sweeps == {"lapse-detection", "wallet-reconciliation", "token-expiry"}
TwoSweeps == {"lapse-detection", "wallet-reconciliation"}
===============================================================================
