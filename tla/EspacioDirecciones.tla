------------------------- MODULE EspacioDirecciones -------------------------
(***************************************************************************)
(* What the Memoria process promises to the Kernel and the CPUs: a paged   *)
(* address space for each program.  A request is answered once, as if it   *)
(* had been carried out at one instant between the request and its reply.  *)
(* There are no frames, no hash, no cache and no locks here.               *)
(***************************************************************************)
EXTENDS Integers, Sequences, FiniteSets, FiniteSetsExt

CONSTANTS
    Conexiones,        \* sockets of the Kernel and the CPUs
    Kernel,            \* the Kernel's socket
    Pids,              \* programs
    PagsPrograma,      \* pages of code and stack of every program
    MaxPagina,         \* bound: page numbers requested
    MarcoSize,         \* MARCO_SIZE of the configuration
    Datos, Cero,       \* contents of a byte, and the one memset writes
    Escrituras,        \* bound: the <<offset, bytes>> that are written
    Lecturas,          \* bound: the <<offset, length>> that are read
    CapacidadPaginas   \* frames left by the administrative structures

VARIABLES
    espacio,           \* contents of every page assigned to a program
    iniciado,          \* programs that were given a page space once
    pedido,            \* the request each connection is waiting for
    respuesta          \* the last reply, until there is a new request

Ninguno == [op |-> "ninguno"]
Pedidos ==
    [op : {"INIT_PROGM", "ASIG_PAGES", "FINZ_PROGM"}, pid : Pids]
    \cup [op : {"LIBERAR_PAG"}, pid : Pids, pagina : PagsPrograma .. MaxPagina]
    \cup [op : {"SOLC_BYTES"}, pid : Pids, pagina : 0 .. MaxPagina, bytes : Lecturas]
    \cup [op : {"ALMC_BYTES"}, pid : Pids, pagina : 0 .. MaxPagina, bytes : Escrituras]
Codigo(c) == [codigo |-> c]

De(e, p) == {x \in DOMAIN e : x[1] = p}
Ultima(e, p) == Max({0} \cup {x[2] : x \in De(e, p)})

(* What may be asked for.  The Kernel starts each program once, and it     *)
(* asks for pages, frees them and finishes programs; a CPU only reads and  *)
(* writes.  Kernel and CPUs never work for one program at the same time.   *)
SePuedePedir(c, r) ==
    /\ pedido[c] = Ninguno
    /\ \A d \in Conexiones : pedido[d] # Ninguno => pedido[d].pid # r.pid
    /\ c # Kernel => r.op \in {"SOLC_BYTES", "ALMC_BYTES"}
    /\ IF r.op = "INIT_PROGM" THEN r.pid \notin iniciado ELSE De(espacio, r.pid) # {}
    /\ r.op = "ASIG_PAGES" => Ultima(espacio, r.pid) < MaxPagina

Pedir(c, r) ==
    /\ SePuedePedir(c, r)
    /\ pedido' = [pedido EXCEPT ![c] = r]
    /\ respuesta' = Ninguno
    /\ iniciado' = IF r.op = "INIT_PROGM" THEN iniciado \cup {r.pid} ELSE iniciado
    /\ UNCHANGED espacio

Responder(c, r) ==
    /\ pedido' = [pedido EXCEPT ![c] = Ninguno]
    /\ respuesta' = [para |-> c, es |-> r]
    /\ UNCHANGED iniciado

EnBlanco == [i \in 0 .. MarcoSize - 1 |-> Cero]

(* Pages are given all together or not at all, and they read as zeros. *)
Asignar(c) ==
    LET p == pedido[c].pid
        nuevas == IF pedido[c].op = "INIT_PROGM" THEN 0 .. PagsPrograma - 1
                                                 ELSE {Ultima(espacio, p) + 1} IN
    /\ pedido[c].op \in {"INIT_PROGM", "ASIG_PAGES"}
    /\ IF Cardinality(DOMAIN espacio) + Cardinality(nuevas) <= CapacidadPaginas
         THEN /\ espacio' = [x \in DOMAIN espacio \cup ({p} \X nuevas) |->
                               IF x \in DOMAIN espacio THEN espacio[x] ELSE EnBlanco]
              /\ Responder(c, Codigo("OK"))
         ELSE UNCHANGED espacio /\ Responder(c, Codigo("SIN_ESPACIO"))

Quitar(X) == espacio' = [x \in DOMAIN espacio \ X |-> espacio[x]]

Liberar(c) ==
    LET x == <<pedido[c].pid, pedido[c].pagina>> IN
    /\ pedido[c].op = "LIBERAR_PAG"
    /\ Quitar({x})
    /\ Responder(c, Codigo(IF x \in DOMAIN espacio THEN "OK" ELSE "NOT_FOUND"))

Finalizar(c) ==
    /\ pedido[c].op = "FINZ_PROGM"
    /\ Quitar(De(espacio, pedido[c].pid))
    /\ Responder(c, Codigo("OK"))

Desborda(b, largo) == b[1] + largo > MarcoSize

Leer(c) ==
    LET x == <<pedido[c].pid, pedido[c].pagina>>
        b == pedido[c].bytes IN
    /\ pedido[c].op = "SOLC_BYTES"
    /\ Responder(c, IF x \notin DOMAIN espacio THEN Codigo("NOT_FOUND")
                    ELSE IF Desborda(b, b[2]) THEN Codigo("OVERFLOW")
                    ELSE [codigo |-> "OK",
                          datos |-> [i \in 1 .. b[2] |-> espacio[x][b[1] + i - 1]]])
    /\ UNCHANGED espacio

Escribir(c) ==
    LET x == <<pedido[c].pid, pedido[c].pagina>>
        b == pedido[c].bytes IN
    /\ pedido[c].op = "ALMC_BYTES"
    /\ IF x \in DOMAIN espacio /\ ~Desborda(b, Len(b[2]))
         THEN /\ espacio' = [espacio EXCEPT ![x] =
                               [i \in 0 .. MarcoSize - 1 |->
                                  IF i - b[1] + 1 \in DOMAIN b[2] THEN b[2][i - b[1] + 1] ELSE @[i]]]
              /\ Responder(c, Codigo("OK"))
         ELSE /\ Responder(c, Codigo(IF x \in DOMAIN espacio THEN "OVERFLOW" ELSE "NOT_FOUND"))
              /\ UNCHANGED espacio

Init ==
    /\ espacio = [x \in {} |-> EnBlanco]
    /\ iniciado = {}
    /\ pedido = [c \in Conexiones |-> Ninguno]
    /\ respuesta = Ninguno

Next ==
    \E c \in Conexiones :
        \/ \E r \in Pedidos : Pedir(c, r)
        \/ Asignar(c) \/ Liberar(c) \/ Finalizar(c) \/ Leer(c) \/ Escribir(c)

Spec == Init /\ [][Next]_<<espacio, iniciado, pedido, respuesta>>
=============================================================================
