--------------------------- MODULE MCFileSystem ---------------------------
(* A small disk for TLC: three blocks of two bytes, two files. *)
EXTENDS FileSystem, TLC

CONSTANTS f1, f2

MCArchivos == {f1, f2}
(* What was last answered decides nothing, nor what a block holds while no *)
(* file has it: it is written whole when one takes it.  TLC tells states   *)
(* apart by the rest, and checks the action properties on every step.      *)
Disco == <<bitmap, archivos, perdidos,
           [b \in UNION {De(a) : a \in DOMAIN archivos} |-> contenido[b]]>>
Simetria == Permutations(MCArchivos)
=============================================================================
