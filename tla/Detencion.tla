------------------------------ MODULE Detencion ------------------------------
(***************************************************************************)
(* The commands of the Kernel's own console over the scheduler: stop and   *)
(* restart, which close and open the gate of checkStopped (estados.c:48)   *)
(* that every operation on a queue passes first; multiprogramacion, whose  *)
(* thread moves the semaphore grado; and end, which looks a PID up before  *)
(* it starts the thread that finishes the program.                         *)
(*                                                                         *)
(* A step of the scheduler is a step of Planificador that the gate lets    *)
(* through.  While the gate is open, passing it and the operation behind   *)
(* it are one step; stop may find threads that have just passed it.  An    *)
(* operation that asks for pages first (inicializar_programa) asks for     *)
(* them here behind the gate, and bloquear_pcb, which checks twice in a    *)
(* row, passes once.                                                       *)
(***************************************************************************)
EXTENDS Planificador

CONSTANTS
    MaxStop,      \* bound: stop commands
    MaxCambios,   \* bound: multiprogramacion commands
    MaxGrado      \* bound: degree the operator may ask for

ASSUME DetencionAssumption ==
    MaxStop \in Nat /\ MaxCambios \in Nat /\ MaxGrado \in Nat

VARIABLES
    isStopped, stopped,  \* the flag and the semaphore
    esperan,   \* threads in sem_wait(&stopped), with stoppedMutex held
    pases,     \* threads that had passed the gate when it closed, or left it
    enExec,    \* thread in moverA_colaExec with mutexProgramasActuales held
    operador,  \* PID of the end command being served, or SinPid
    multiprog, \* GradoMultiprog
    cambios,   \* the bajarGrado threads
    paradas,   \* stop commands given
    carrera    \* history: a bajarGrado read the degree another was to write

puerta == <<isStopped, stopped, esperan, pases, enExec>>
mando == <<operador, multiprog, cambios, paradas, carrera>>
varsD == <<vars, puerta, mando>>

Cambios == 1 .. MaxCambios
CambioNuevo == [paso |-> "nada", nuevo |-> 0, viejo |-> 0, i |-> 0]

-----------------------------------------------------------------------------
(* The gate. *)

(* The steps that begin with checkStopped, by the function of estados.c    *)
(* they call.                                                              *)
ConPuerta_sin_exit == {"moverA_colaNew", "inicializar_programa", "moverA_colaReady",
                       "moverA_colaReadySinFinalizar",
                       "sacarCualquieraDeReady", "sacarDe_colaReady"}
ConPuerta == {"moverA_colaNew", "inicializar_programa", "moverA_colaReady",
              "moverA_colaReadySinFinalizar", "exit", "exitSinMemoria",
              "sacarCualquieraDeReady", "sacarDe_colaReady"}

(* The messages whose handler moves a PCB: retornarPCB, and wait and       *)
(* signal when they block or unblock.                                      *)
MuevePCB(c) ==
    \/ estado[c] = "RET_PCB"
    \/ estado[c] = "WAIT" /\ valor[semCPU[c]] <= 0
    \/ estado[c] = "SIGNAL" /\ Despierta(semCPU[c])

(* The threads that are about to pass the gate.  enviar_a_cpu takes        *)
(* mutexProgramasActuales before it calls moverA_colaExec, so it is held   *)
(* in front of the gate (Kernel.c:877-893).                                *)
AntePuerta(t) ==
    \/ paso[t] \in ConPuerta
    \/ t = SrvCPU /\ paso[t] = "select" /\ \E c \in Cpus : MuevePCB(c)
    \/ enExec = t
EnRelacionar(t) == paso[t] = "relacionar" /\ pcb[t] \in programas
PuedeEntrar(t) == EnRelacionar(t) /\ mutexProgramas = Nadie /\ enExec = Nadie

Abierta == ~isStopped /\ esperan = {}

(* A thread of the scheduler asks for mutexProgramasActuales and finds the *)
(* gate closed.                                                            *)
moverA_colaExec(t) ==
    /\ ~Abierta /\ PuedeEntrar(t)
    /\ enExec' = t
    /\ UNCHANGED <<vars, isStopped, stopped, esperan, pases, mando>>

stoppedMutex_ignorado == TRUE
stoppedMutex_libre == esperan = {}

(* checkStopped (estados.c:48-53): the mutex is held while the thread      *)
(* waits, so the others wait for the mutex.                                *)
checkStopped(t) ==
    /\ isStopped /\ AntePuerta(t) /\ t \notin esperan \cup pases
    /\ stoppedMutex_libre
    /\ esperan' = esperan \cup {t}
    /\ UNCHANGED <<vars, isStopped, stopped, pases, enExec, mando>>

checkStopped_sale(t) ==
    /\ t \in esperan /\ stopped > 0
    /\ stopped' = stopped - 1
    /\ esperan' = esperan \ {t}
    /\ pases' = pases \cup {t}
    /\ UNCHANGED <<vars, isStopped, enExec, mando>>

Pasa(t) == t \notin esperan /\ (Abierta \/ t \in pases)

(* A step of the scheduler: the thread that goes on passes the gate in     *)
(* front of it, and respects who holds mutexProgramasActuales.             *)
Avanza(t) == paso'[t] # paso[t]
Planifica ==
    /\ Nucleo
    /\ \A t \in Hilos : Avanza(t) =>
          /\ AntePuerta(t) \/ EnRelacionar(t) => Pasa(t)
          /\ PideProgramas(t) => enExec \in {t, Nadie}
    /\ conectadas' # conectadas => enExec = Nadie
    /\ pases' = {t \in pases : ~Avanza(t)}
    /\ enExec' = IF enExec # Nadie /\ Avanza(enExec) THEN Nadie ELSE enExec
    /\ UNCHANGED <<isStopped, stopped, esperan, mando>>

(* The select loop takes a message of a CPU. *)
Maneja(c) ==
    /\ \/ ManejaOtro(c) /\ SrvCPU \notin esperan \cup pases
       \/ ManejaPCB(c) /\ IF MuevePCB(c) THEN Pasa(SrvCPU) ELSE SrvCPU \notin esperan \cup pases
    /\ pases' = pases \ {SrvCPU}
    /\ UNCHANGED <<isStopped, stopped, esperan, enExec, mando>>

-----------------------------------------------------------------------------
(* The operator's commands, one at a time. *)

(* Some of the threads in front of the gate may have read isStopped.       *)
stop ==
    /\ operador = SinPid /\ paradas < MaxStop /\ ~isStopped
    /\ isStopped' = TRUE
    /\ paradas' = paradas + 1
    /\ \E ya \in SUBSET {t \in Hilos : Abierta /\ (AntePuerta(t) \/ PuedeEntrar(t))} :
          /\ pases' = pases \cup ya
          /\ enExec' = IF \E t \in ya : PuedeEntrar(t)
                         THEN CHOOSE t \in ya : PuedeEntrar(t) ELSE enExec
    /\ UNCHANGED <<vars, stopped, esperan, operador, multiprog, cambios, carrera>>

restart_post == stopped' = stopped + 1

restart ==
    /\ operador = SinPid /\ isStopped
    /\ isStopped' = FALSE
    /\ restart_post
    /\ UNCHANGED <<vars, esperan, pases, enExec, mando>>

(* end p: typed, and then the PID is looked up (Kernel.c:189-213).         *)
escribirEnd(p) ==
    /\ operador = SinPid
    /\ p < ultimoPID /\ ultimoPID <= MaxConEnd /\ pedidosEnd[p] < MaxEnd
    /\ operador' = p
    /\ UNCHANGED <<vars, puerta, multiprog, cambios, paradas, carrera>>

(* The thread is not started when a bound on requests was reached in the   *)
(* meantime.                                                               *)
endOperador(p) ==
    /\ operador = p /\ mutexProgramas = Nadie /\ enExec = Nadie
    /\ \/ end(p)
       \/ /\ p \notin programas \/ pedidosEnd[p] = MaxEnd \/ ultimoPID > MaxConEnd
          /\ UNCHANGED vars
    /\ operador' = SinPid
    /\ UNCHANGED <<puerta, multiprog, cambios, paradas, carrera>>

(* multiprogramacion n: one more bajarGrado thread.                        *)
changeMultiprogramacion(k, n) ==
    /\ operador = SinPid /\ cambios[k].paso = "nada"
    /\ \A j \in Cambios : j < k => cambios[j].paso # "nada"
    /\ cambios' = [cambios EXCEPT ![k].paso = "leer", ![k].nuevo = n]
    /\ UNCHANGED <<vars, puerta, operador, multiprog, paradas, carrera>>

(* oldValue = GradoMultiprog; nothing orders two threads (l. 216-217).     *)
bajarGrado_lee(k) ==
    /\ cambios[k].paso = "leer"
    /\ cambios' = [cambios EXCEPT ![k].paso = "escribir", ![k].viejo = multiprog]
    /\ carrera' = (carrera \/ \E j \in Cambios : cambios[j].paso = "escribir")
    /\ UNCHANGED <<vars, puerta, operador, multiprog, paradas>>

bajarGrado_escribe(k) ==
    /\ cambios[k].paso = "escribir"
    /\ multiprog' = cambios[k].nuevo
    /\ cambios' = [cambios EXCEPT ![k].paso = "ajustar"]
    /\ UNCHANGED <<vars, puerta, operador, paradas, carrera>>

(* One turn of the loop: a place more, or one less as soon as there is one *)
(* (l. 219-224).                                                           *)
Faltan(k) ==
    LET m == cambios[k] IN
    IF m.paso # "ajustar" THEN 0
    ELSE IF m.nuevo > m.viejo THEN m.nuevo - m.viejo - m.i ELSE m.nuevo - m.viejo + m.i

(* The turns all of them still have to make, up and down.                  *)
Vueltas == 1 .. GradoMultiprog + MaxGrado
PorSubir == {x \in Cambios \X Vueltas : x[2] <= Faltan(x[1])}
PorBajar == {x \in Cambios \X Vueltas : x[2] <= -Faltan(x[1])}
SumaFaltan == Cardinality(PorSubir) - Cardinality(PorBajar)

bajarGrado_ajusta_al_reves(k) ==
    \/ Faltan(k) > 0 /\ grado > 0 /\ grado' = grado - 1
    \/ Faltan(k) < 0 /\ grado' = grado + 1
bajarGrado_ajusta(k) ==
    \/ Faltan(k) > 0 /\ grado' = grado + 1
    \/ Faltan(k) < 0 /\ grado > 0 /\ grado' = grado - 1

bajarGrado(k) ==
    /\ Faltan(k) # 0
    /\ bajarGrado_ajusta(k)
    /\ cambios' = [cambios EXCEPT ![k].i = @ + 1]
    /\ UNCHANGED <<colas, listas, finalizables, semaforos, mutexes, locales, fuera,
                   procesoCPU, consolas, paso, vuelve, exitCode, deKernel, desfase,
                   puerta, operador, multiprog, paradas, carrera>>

-----------------------------------------------------------------------------
InitD ==
    /\ Init
    /\ isStopped = FALSE /\ stopped = 0 /\ esperan = {} /\ pases = {}
    /\ enExec = Nadie
    /\ operador = SinPid /\ multiprog = GradoMultiprog
    /\ cambios = [k \in Cambios |-> CambioNuevo]
    /\ paradas = 0 /\ carrera = FALSE

NextD ==
    \/ Planifica
    \/ \E c \in Cpus : Maneja(c)
    \/ \E t \in Hilos : checkStopped(t) \/ checkStopped_sale(t) \/ moverA_colaExec(t)
    \/ stop \/ restart
    \/ \E p \in PID : escribirEnd(p) \/ endOperador(p)
    \/ \E k \in Cambios : \/ \E n \in 0 .. MaxGrado : changeMultiprogramacion(k, n)
                          \/ bajarGrado_lee(k) \/ bajarGrado_escribe(k) \/ bajarGrado(k)

SpecD == InitD /\ [][NextD]_varsD

-----------------------------------------------------------------------------
(* Properties. *)

(* One thread at a time sleeps in the gate, with stoppedMutex held, and    *)
(* after restart its sem_post is there: one post wakes everybody, in turn  *)
(* (estados.c:48-53, Kernel.c:331-343).                                    *)
EsperanRespaldados ==
    /\ Cardinality(esperan) <= 1
    /\ ~isStopped => Cardinality(esperan) <= stopped

(* stop stops: no queue changes while the planning is stopped, except by   *)
(* the threads that had passed the gate and by one for each sem_post that  *)
(* an earlier restart left over (Kernel.c:318-343, every function of       *)
(* estados.c).                                                             *)
ColasQuietas == [][isStopped /\ pases = {} => UNCHANGED colas]_varsD

(* The degree the operator asked for is what the semaphore tells, counting *)
(* the places in use and the turns the bajarGrado threads still have to    *)
(* make, unless two of them read and wrote it at the same time, or a CPU   *)
(* was sent a second PCB (Kernel.c:215-227).                               *)
GradoConcuerda ==
    ~carrera /\ ~desfase =>
        grado + Cardinality(Admitidos) + SumaFaltan = multiprog
=============================================================================
