----------------------------- MODULE MCDatabase -----------------------------
(***************************************************************************)
(* Pipelines for checking Database.                                        *)
(***************************************************************************)
EXTENDS Database

NamespaceEach == {[ns |-> "common", name |-> 1], [ns |-> "other", name |-> 1]}
=============================================================================
