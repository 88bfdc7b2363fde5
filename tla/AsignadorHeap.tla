--------------------------- MODULE AsignadorHeap ---------------------------
(***************************************************************************)
(* What alocar and liberar promise a program: a block that is reserved     *)
(* overlaps no block the program still holds and lies inside one page, a   *)
(* block that is held keeps its place and its size until the program frees *)
(* it, which always succeeds, or ends.  All that is off from the moment a  *)
(* program frees something it does not hold, if that is not just refused   *)
(* or ignored.                                                             *)
(***************************************************************************)
EXTENDS Integers

CONSTANTS
    Pids,            \* programs
    Pedidos,         \* numbers of bytes asked for
    tamanio_pag_memoria,
    MaxPagina        \* bound: greatest page number

Direcciones == 0 .. (MaxPagina + 1) * tamanio_pag_memoria - 1

VARIABLES
    asignados,       \* blocks each program holds: [puntero, bytes]
    kernel,          \* "corre", or "indefinido" when nothing is promised any more
    respuesta        \* what the last request was answered, and the pointer of the
                     \* block of the program it is about, -1 if none

vars == <<asignados, kernel, respuesta>>

Bloque(x, n) == [puntero |-> x, bytes |-> n]
Separados(a, b) == a.puntero + a.bytes < b.puntero \/ b.puntero + b.bytes < a.puntero
EnUnaPagina(a) ==
    a.puntero \div tamanio_pag_memoria = (a.puntero + a.bytes) \div tamanio_pag_memoria

Init ==
    /\ asignados = [p \in Pids |-> {}]
    /\ kernel = "corre"
    /\ respuesta = [codigo |-> "nada", puntero |-> 0]

Reservar(p, x, n) ==
    /\ respuesta' = [codigo |-> "RESERVAR_OK", puntero |-> x]
    /\ EnUnaPagina(Bloque(x, n))
    /\ \A b \in asignados[p] : Separados(Bloque(x, n), b)
    /\ asignados' = [asignados EXCEPT ![p] = @ \cup {Bloque(x, n)}]
    /\ UNCHANGED kernel

(* A request that cannot be served takes nothing. *)
Rechazar ==
    /\ respuesta' \in [codigo : {"RESERVAR_OVERFLOW", "RESERVAR_SIN_ESPACIO"}, puntero : {-1}]
    /\ UNCHANGED <<asignados, kernel>>

(* A block that is held can be freed, whatever happened before. *)
Liberar(p, b) ==
    /\ respuesta' = [codigo |-> "LIBERAR_OK", puntero |-> b.puntero]
    /\ b \in asignados[p]
    /\ asignados' = [asignados EXCEPT ![p] = @ \ {b}]
    /\ UNCHANGED kernel

LiberarAjeno ==
    /\ respuesta' \in [codigo : {"LIBERAR_OK", "LIBERAR_ERROR"}, puntero : {-1}]
    /\ kernel' \in {"corre", "indefinido"}
    /\ UNCHANGED asignados

Finalizar(p) ==
    /\ asignados' = [asignados EXCEPT ![p] = {}]
    /\ UNCHANGED <<kernel, respuesta>>

Next ==
    /\ kernel = "corre"
    /\ \/ Rechazar
       \/ LiberarAjeno
       \/ \E p \in Pids :
             \/ \E b \in asignados[p] : Liberar(p, b)
             \/ Finalizar(p)
             \/ \E x \in Direcciones, n \in Pedidos : Reservar(p, x, n)

Spec == Init /\ [][Next]_vars
=============================================================================
