------------------------------ MODULE MCClient ------------------------------
(***************************************************************************)
(* Client with the constants its configuration gives.                      *)
(***************************************************************************)
EXTENDS Client
=============================================================================
