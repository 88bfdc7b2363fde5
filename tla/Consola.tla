------------------------------- MODULE Consola -------------------------------
(***************************************************************************)
(* A console (Consola.c): the thread esperarKernel receives the messages   *)
(* of the Kernel and hands each one to the thread of its program through   *)
(* one shared pointer, avisoKernel, which it frees when the program's      *)
(* thread says so on avisoProcesado; the commands of the user look the     *)
(* programs up in the same dictionary of semaphores.                       *)
(*                                                                         *)
(* The Kernel is outside: it numbers the messages it sends to a program,   *)
(* the first is NEW_PID, the last END_PRGM, but one that was on its way    *)
(* may come behind it.  mutexStatsPID is held for one access at a time and *)
(* is part of the step of its holder.                                      *)
(***************************************************************************)
EXTENDS Integers, FiniteSets, Sequences

CONSTANTS
    PID,          \* programs of this console
    Nadie,        \* no thread, no program
    MaxMensajes,  \* bound: messages to a program before END_PRGM
    MaxTarde,     \* bound: messages to a program after END_PRGM
    MaxEnd        \* bound: end and shutdown commands

ASSUME ConsolaAssumption ==
    Nadie \notin PID /\ MaxMensajes \in Nat \ {0} /\ MaxTarde \in Nat /\ MaxEnd \in Nat

VARIABLES
    canal,        \* messages on their way from the Kernel
    enviados,     \* how many it sent to each program
    terminado,    \* programs whose END_PRGM was sent
    aviso,        \* avisoKernel, or Liberado
    kernel,       \* where esperarKernel is
    avisoProcesado,
    semaforosPID, \* programs in the dictionary
    valor,        \* the semaphores of the dictionary
    statsPID,     \* programs in the dictionary of statistics
    hilo,         \* where the thread of each program is
    vistos,       \* messages it has looked at
    comando,      \* the command of the user
    porPedir,     \* the programs shutdown has not come to yet
    pedidos,      \* programs END_PROG was sent for
    comandos      \* commands given

delKernel == <<canal, enviados, terminado>>
entrega == <<aviso, kernel, avisoProcesado>>
hilos == <<semaforosPID, valor, statsPID, hilo, vistos>>
usuario == <<comando, porPedir, pedidos, comandos>>
vars == <<delKernel, entrega, hilos, usuario>>

Mensaje == [pid : PID, n : Nat \ {0}, tipo : {"NEW_PID", "LOG_MESSAGE", "END_PRGM"}]
Liberado == [pid |-> Nadie, n |-> 0, tipo |-> "liberado"]

Conectada == kernel # "exit"

(* mutexSemaforosPID is held over more than one step by shutdown alone.    *)
mutexLibre == comando # "shutdown"

-----------------------------------------------------------------------------
(* The Kernel (outside). *)

Manda(p, tipo) ==
    /\ canal' = Append(canal, [pid |-> p, n |-> enviados[p] + 1, tipo |-> tipo])
    /\ enviados' = [enviados EXCEPT ![p] = @ + 1]
    /\ UNCHANGED <<entrega, hilos, usuario>>

NuevoProceso(p) ==
    /\ Conectada /\ enviados[p] = 0
    /\ Manda(p, "NEW_PID") /\ UNCHANGED terminado

MensajeDelPrograma(p) ==
    /\ Conectada /\ enviados[p] > 0
    /\ enviados[p] < IF p \in terminado THEN MaxMensajes + MaxTarde + 1 ELSE MaxMensajes
    /\ Manda(p, "LOG_MESSAGE") /\ UNCHANGED terminado

FinDelPrograma(p) ==
    /\ Conectada /\ enviados[p] > 0 /\ p \notin terminado
    /\ Manda(p, "END_PRGM")
    /\ terminado' = terminado \cup {p}

-----------------------------------------------------------------------------
(* esperarKernel. *)

valorInicial_0 == 0
valorInicial == 1

(* NEW_PID: the semaphore starts at 1, so that the new thread looks at the *)
(* message it was created for.                                             *)
newPID ==
    /\ kernel = "recibe" /\ canal # <<>> /\ Head(canal).tipo = "NEW_PID" /\ mutexLibre
    /\ LET p == Head(canal).pid IN
          /\ semaforosPID' = semaforosPID \cup {p}
          /\ valor' = [valor EXCEPT ![p] = valorInicial]
          /\ statsPID' = statsPID \cup {p}
          /\ hilo' = [hilo EXCEPT ![p] = "espera"]
    /\ aviso' = Head(canal) /\ canal' = Tail(canal)
    /\ kernel' = "procesa"
    /\ UNCHANGED <<enviados, terminado, avisoProcesado, vistos, usuario>>

(* Any other message. *)
recibe ==
    /\ kernel = "recibe" /\ canal # <<>> /\ Head(canal).tipo # "NEW_PID"
    /\ aviso' = Head(canal) /\ canal' = Tail(canal)
    /\ kernel' = "busca"
    /\ UNCHANGED <<enviados, terminado, avisoProcesado, hilos, usuario>>

(* The dictionary is read without its mutex; without an entry the message  *)
(* is dropped.                                                             *)
busca_sin_esperar ==
    /\ kernel = "busca"
    /\ IF aviso.pid \in semaforosPID
         THEN /\ valor' = [valor EXCEPT ![aviso.pid] = @ + 1]
              /\ kernel' = "recibe" /\ UNCHANGED aviso
         ELSE aviso' = Liberado /\ kernel' = "recibe" /\ UNCHANGED valor
    /\ UNCHANGED <<delKernel, avisoProcesado, semaforosPID, statsPID, hilo, vistos, usuario>>

busca ==
    /\ kernel = "busca"
    /\ IF aviso.pid \in semaforosPID
         THEN /\ valor' = [valor EXCEPT ![aviso.pid] = @ + 1]
              /\ kernel' = "procesa" /\ UNCHANGED aviso
         ELSE aviso' = Liberado /\ kernel' = "recibe" /\ UNCHANGED valor
    /\ UNCHANGED <<delKernel, avisoProcesado, semaforosPID, statsPID, hilo, vistos, usuario>>

procesa ==
    /\ kernel = "procesa" /\ avisoProcesado > 0
    /\ avisoProcesado' = avisoProcesado - 1
    /\ aviso' = Liberado
    /\ kernel' = "recibe"
    /\ UNCHANGED <<delKernel, hilos, usuario>>

(* The Kernel went away: exit(0).                                          *)
desconexionKernel ==
    /\ kernel = "recibe" /\ canal = <<>>
    /\ kernel' = "exit"
    /\ UNCHANGED <<delKernel, aviso, avisoProcesado, hilos, usuario>>

-----------------------------------------------------------------------------
(* esperarMensajePID. *)

espera(p) ==
    /\ Conectada /\ hilo[p] = "espera" /\ valor[p] > 0
    /\ valor' = [valor EXCEPT ![p] = @ - 1]
    /\ hilo' = [hilo EXCEPT ![p] = "lee"]
    /\ UNCHANGED <<delKernel, entrega, semaforosPID, statsPID, vistos, usuario>>

(* A message is looked at, and at the last one the entry goes first.       *)
lee(p) ==
    /\ Conectada /\ hilo[p] = "lee"
    /\ vistos' = [vistos EXCEPT ![p] = aviso.n]
    /\ hilo' = [hilo EXCEPT ![p] = IF aviso.tipo = "END_PRGM" THEN "quita" ELSE "avisa"]
    /\ UNCHANGED <<delKernel, entrega, semaforosPID, valor, statsPID, usuario>>

quita_sin_sacar(p) ==
    /\ Conectada /\ hilo[p] = "quita" /\ mutexLibre
    /\ semaforosPID' = semaforosPID
    /\ statsPID' = statsPID \ {p}
    /\ hilo' = [hilo EXCEPT ![p] = "ultimo"]
    /\ UNCHANGED <<delKernel, entrega, valor, vistos, usuario>>

quita(p) ==
    /\ Conectada /\ hilo[p] = "quita" /\ mutexLibre
    /\ semaforosPID' = semaforosPID \ {p}
    /\ statsPID' = statsPID \ {p}
    /\ hilo' = [hilo EXCEPT ![p] = "ultimo"]
    /\ UNCHANGED <<delKernel, entrega, valor, vistos, usuario>>

avisa(p) ==
    /\ Conectada /\ hilo[p] \in {"avisa", "ultimo"}
    /\ avisoProcesado' = avisoProcesado + 1
    /\ hilo' = [hilo EXCEPT ![p] = IF @ = "ultimo" THEN "fin" ELSE "espera"]
    /\ UNCHANGED <<delKernel, aviso, kernel, semaforosPID, valor, statsPID, vistos, usuario>>

-----------------------------------------------------------------------------
(* The commands of the user, one at a time. *)

PideEnd(p) == pedidos' = pedidos \cup {p}

(* end: the entry is looked for, and then END_PROG goes. *)
end(p) ==
    /\ Conectada /\ comando = "lee" /\ comandos < MaxEnd
    /\ p \in semaforosPID
    /\ comando' = "end" /\ porPedir' = {p} /\ comandos' = comandos + 1
    /\ UNCHANGED <<delKernel, entrega, hilos, pedidos>>

end_envia(p) ==
    /\ Conectada /\ comando = "end" /\ porPedir = {p}
    /\ PideEnd(p)
    /\ comando' = "lee" /\ porPedir' = {}
    /\ UNCHANGED <<delKernel, entrega, hilos, comandos>>

(* shutdown: END_PROG for every entry, with the mutex held. *)
cerrarConsola ==
    /\ Conectada /\ comando = "lee" /\ comandos < MaxEnd
    /\ comando' = "shutdown" /\ porPedir' = semaforosPID /\ comandos' = comandos + 1
    /\ UNCHANGED <<delKernel, entrega, hilos, pedidos>>

cerrarConsola_envia(p) ==
    /\ Conectada /\ comando = "shutdown" /\ p \in porPedir
    /\ PideEnd(p)
    /\ porPedir' = porPedir \ {p}
    /\ UNCHANGED <<delKernel, entrega, hilos, comando, comandos>>

cerrarConsola_sale ==
    /\ Conectada /\ comando = "shutdown" /\ porPedir = {}
    /\ comando' = "lee"
    /\ UNCHANGED <<delKernel, entrega, hilos, porPedir, pedidos, comandos>>

-----------------------------------------------------------------------------
Init ==
    /\ canal = <<>> /\ enviados = [p \in PID |-> 0] /\ terminado = {}
    /\ aviso = Liberado /\ kernel = "recibe" /\ avisoProcesado = 0
    /\ semaforosPID = {} /\ valor = [p \in PID |-> 0] /\ statsPID = {}
    /\ hilo = [p \in PID |-> "nada"] /\ vistos = [p \in PID |-> 0]
    /\ comando = "lee" /\ porPedir = {} /\ pedidos = {} /\ comandos = 0

hiloKernel == newPID \/ recibe \/ busca \/ procesa
hiloPID(p) == espera(p) \/ lee(p) \/ quita(p) \/ avisa(p)
comandoSigue == cerrarConsola_sale \/ \E p \in PID : end_envia(p) \/ cerrarConsola_envia(p)

Next ==
    \/ hiloKernel \/ desconexionKernel
    \/ \E p \in PID : hiloPID(p)
    \/ \E p \in PID : NuevoProceso(p) \/ MensajeDelPrograma(p) \/ FinDelPrograma(p)
    \/ cerrarConsola \/ comandoSigue \/ \E p \in PID : end(p)

Spec == Init /\ [][Next]_vars

(* The threads go on while they can; a command, once typed, is carried out. *)
Justicia ==
    /\ WF_vars(hiloKernel) /\ WF_vars(comandoSigue)
    /\ \A p \in PID : WF_vars(hiloPID(p))

SpecJusta == Spec /\ Justicia

-----------------------------------------------------------------------------
(* Properties. *)

(* The variables keep their type; no semaphore goes beyond one.            *)
TypeOK ==
    /\ canal \in Seq(Mensaje) /\ enviados \in [PID -> Nat] /\ terminado \subseteq PID
    /\ aviso \in Mensaje \cup {Liberado}
    /\ kernel \in {"recibe", "busca", "procesa", "exit"}
    /\ avisoProcesado \in 0 .. 1
    /\ semaforosPID \subseteq PID /\ valor \in [PID -> 0 .. 1] /\ statsPID \subseteq PID
    /\ hilo \in [PID -> {"nada", "espera", "lee", "quita", "avisa", "ultimo", "fin"}]
    /\ vistos \in [PID -> Nat]
    /\ comando \in {"lee", "end", "shutdown"} /\ porPedir \subseteq PID
    /\ pedidos \subseteq PID /\ comandos \in 0 .. MaxEnd

(* The thread of p has its turn with avisoKernel. *)
Turno(p) == valor[p] > 0 \/ hilo[p] \in {"lee", "quita", "avisa", "ultimo"}

(* Whoever looks at avisoKernel finds the message that comes next for his  *)
(* own program, not freed and not replaced; one thread has the turn at a   *)
(* time and esperarKernel waits for it; and a thread that still waits has  *)
(* its semaphore in the dictionary (Consola.c:3-120).                      *)
EntregaFiel ==
    /\ \A p \in PID :
          /\ Turno(p) => kernel = "procesa" /\ avisoProcesado = 0 /\ aviso.pid = p
          /\ Turno(p) => \A q \in PID \ {p} : ~Turno(q)
          /\ valor[p] > 0 => hilo[p] = "espera"
          /\ valor[p] > 0 \/ hilo[p] = "lee" => aviso.n = vistos[p] + 1
          /\ hilo[p] \in {"espera", "lee", "quita", "avisa"} => p \in semaforosPID

(* Every message the Kernel sends to a program reaches the thread of the   *)
(* program, unless the program had ended before; the last one ends it      *)
(* (Consola.c:3-120).                                                      *)
TodosSeEnteran ==
    \A p \in PID :
        /\ \A n \in 1 .. MaxMensajes + 1 :
              (enviados[p] >= n) ~> (vistos[p] >= n \/ hilo[p] = "fin")
        /\ (p \in terminado) ~> (hilo[p] = "fin" /\ p \notin semaforosPID)
=============================================================================
