------------------------------ MODULE MCServer ------------------------------
(***************************************************************************)
(* Connections for checking Server.                                        *)
(***************************************************************************)
EXTENDS Server

CONSTANTS first, second, third

Sym == Permutations(Conns)
=============================================================================
