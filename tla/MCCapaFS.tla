------------------------------ MODULE MCCapaFS ------------------------------
(* Small instances of the file layer for TLC. *)
EXTENDS CapaFS, TLC

Simetria == Permutations(Pids)
=============================================================================
