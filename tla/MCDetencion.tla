----------------------------- MODULE MCDetencion -----------------------------
(* A small instance of the operator's commands for TLC. *)
EXTENDS Detencion

MCSinSemaforos == [s \in Semaforos |-> 0]

(* The cases followed: the operator stops the planning or changes the      *)
(* degree, not both; with either of them, at most one request to finish a  *)
(* program and then a single program; a second change of the degree with a *)
(* single program.                                                         *)
SinCambios == \A k \in Cambios : cambios[k].paso = "nada"
SinPedidos == operador = SinPid /\ \A p \in PID : pedidosEnd[p] = 0
Casos ==
    /\ paradas = 0 \/ SinCambios
    /\ \/ paradas = 0 /\ SinCambios
       \/ SinPedidos
       \/ ultimoPID <= 1
    /\ ultimoPID <= 1 \/ \A k \in Cambios : k > 1 => cambios[k].paso = "nada"
=============================================================================
