--------------------------- MODULE MCPlanificador ---------------------------
(* Small instances of the scheduler for TLC. *)
EXTENDS Planificador, TLC

CONSTANTS ValorInicial   \* every semaphore starts with this value

MCSemInicial == [s \in Semaforos |-> ValorInicial]

(* The behaviours are followed up to the first reply that is overtaken, and *)
(* those with a request to finish a program with one program only.          *)
HastaElDesfase ==
    /\ ~desfase
    /\ ultimoPID <= 1 \/ \A p \in PID : pedidosEnd[p] = 0
=============================================================================
