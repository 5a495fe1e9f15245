------------------------------ MODULE MCWorker ------------------------------
(***************************************************************************)
(* Worker with the constants its configurations give.                      *)
(***************************************************************************)
EXTENDS Worker
=============================================================================
