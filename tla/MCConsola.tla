------------------------------ MODULE MCConsola ------------------------------
(* A small instance of the console for TLC. *)
EXTENDS Consola

CONSTANTS p1, p2

MCPids == {p1, p2}
=============================================================================
