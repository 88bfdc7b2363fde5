---------------------------- MODULE Planificador ----------------------------
(***************************************************************************)
(* The Kernel's scheduler: the five queues of estados.c, the list of       *)
(* programs and the list of CPUs of Kernel.c, the degree of                *)
(* multiprogramming, the pending-finish lists, the WAIT and SIGNAL         *)
(* handlers of CapaMemoria.c, and the CPU processes that talk to them.     *)
(*                                                                         *)
(* One step is one critical section of one thread.  The mutexes that are   *)
(* held while another one is requested (colaReadyMutex,                    *)
(* mutexProgramasActuales, mutexCPUConectadas) are explicit; the others    *)
(* protect a single operation and are part of the step that takes them.    *)
(* The queues New, Exec, Blocked and Exit are searched by PID, so they are *)
(* sets; Ready is popped from its head, so it is a sequence.               *)
(***************************************************************************)
EXTENDS Integers, Sequences, FiniteSets

CONSTANTS
    Cpus,              \* sockets of the CPU processes that may connect
    NadieCPU,          \* no CPU
    Consolas,          \* sockets of the consoles
    Semaforos,         \* SEM_IDS of the configuration
    SinSem,            \* no semaphore
    SemInicial,        \* SEM_INIT of the configuration
    MaxProgramas,      \* bound: programs started in a behaviour
    MaxEnd,            \* bound: END requests for each program
    MaxConEnd,         \* bound: programs started when END is requested
    MaxValor,          \* bound: programs signal a semaphore up to this value
    GradoMultiprog,    \* GRADO_MULTIPROG of the configuration
    Capacidad,         \* programs that fit in the Memoria process
    Desconectables,    \* consoles that may disconnect
    Senalables,        \* CPUs that may receive SIGUSR1
    Modo               \* ALGORITMO of the configuration

PID == 0 .. MaxProgramas - 1
SinPid == -1

ASSUME ConstantesAssumption ==
    /\ MaxProgramas \in Nat \ {0}
    /\ MaxEnd \in Nat /\ MaxConEnd \in Nat
    /\ MaxValor \in Int
    /\ GradoMultiprog \in Nat
    /\ Capacidad \in Nat
    /\ NadieCPU \notin Cpus
    /\ SinSem \notin Semaforos
    /\ Consolas # {}
    /\ SemInicial \in [Semaforos -> Nat]
    /\ Desconectables \subseteq Consolas
    /\ Senalables \subseteq Cpus
    /\ Modo \in {"FIFO", "RR"}

(* The threads: the select loop that serves the CPUs, one programa thread  *)
(* per program, and the finalizarProceso and finalizarProcesoDesconexion   *)
(* threads of each program.                                                *)
SrvCPU == <<"srvCPU", 0>>
Programa(p) == <<"programa", p>>
FinEnd(p) == <<"end", p>>
FinDesconexion(p) == <<"desconexion", p>>
Finalizadores == {"end", "desconexion"} \X PID
Hilos == ({"programa"} \X PID) \cup Finalizadores \cup {SrvCPU}
Nadie == <<"nadie", 0>>

Pasos == {"nada", "select", "cargar_programa", "moverA_colaNew", "sem_wait",
          "inicializar_programa", "moverA_colaReady",
          "moverA_colaReadySinFinalizar", "exit", "exitSinMemoria",
          "FINZ_PROGM", "END_PRGM", "enviar_a_cpu", "sacarCualquieraDeReady",
          "relacionar", "CORRER_PCB", "desconectarCPU", "processIsForFinish",
          "program_change_running", "encolar", "program_change_running_wait",
          "RES_WAIT", "RES_SIGNAL", "finalizarProceso", "sacarDe_colaReady"}

ExitCodes == {"enCurso", "OK", "BY_CONSOLE", "DESCONEXION", "SIN_RECURSOS"}

(* What a CPU process is doing; RET_PCB, WAIT and SIGNAL stand for that    *)
(* request being on its way to the Kernel, with its parameters in ejecuta, *)
(* semCPU, fin and desconectar.                                            *)
EstadosCPU == {"apagada", "conectando", "libre", "corre", "RET_PCB", "WAIT",
               "SIGNAL", "esperaWait", "esperaSignal", "fin"}

Mensajes == [tipo : {"CORRER_PCB"}, pid : PID]
            \cup [tipo : {"NUEVO_QUANTUM_SLEEP", "RES_WAIT_OK", "RES_WAIT_BLOCKED",
                          "RES_SIGNAL", "FINISH_CPU"}, pid : {SinPid}]
Msg(tipo) == [tipo |-> tipo, pid |-> SinPid]
CorrerPCB(p) == <<Msg("NUEVO_QUANTUM_SLEEP"), [tipo |-> "CORRER_PCB", pid |-> p]>>

VARIABLES
    ultimoPID,
    colaNew, colaReady, colaExec, colaBlocked, colaExit,
    programas, corriendo, consola,         \* lista_programas_actuales
    cpus, ocupada,                         \* lista_cpus_conectadas
    grado,                                 \* semaphore of multiprogramming
    listForFinish, listForFinishDesconexion,
    valor, cola,                           \* semaforos
    mutexReady, mutexProgramas, mutexCPU,  \* owner of each mutex
    paso, vuelve,     \* where a thread is, and where it goes on afterwards
    pcb,              \* the PCB a thread has taken out of every queue
    pid, sock,        \* locals of a thread: PID at hand, cpu_libre
    atendida,         \* CPU whose message the select loop is handling
    exitCode,         \* pcb->exit_code
    enMemoria,        \* programs that hold pages in the Memoria process
    avisos,           \* END_PRGM messages sent for each program
    estado, ejecuta, semCPU, fin, desconectar, \* the CPU processes
    deKernel,         \* messages on their way from the Kernel to each CPU
    sigusr1, finishPend, \* signalSIGUSR1, FINISH_CPU on its way to the Kernel
    conectadas,       \* consoles still connected
    pedidosEnd,       \* END requests made for each program
    pedidos,          \* history: programs some finalizador found alive
    desfase           \* history: a CORRER_PCB overtook a RES_WAIT

colas == <<colaNew, colaReady, colaExec, colaBlocked, colaExit>>
listas == <<programas, corriendo, cpus, ocupada>>
finalizables == <<listForFinish, listForFinishDesconexion, pedidos>>
semaforos == <<valor, cola>>
mutexes == <<mutexReady, mutexProgramas, mutexCPU>>
locales == <<pcb, pid, sock, atendida>>
fuera == <<enMemoria, avisos>>
procesoCPU == <<estado, ejecuta, semCPU, fin, desconectar, sigusr1, finishPend>>
consolas == <<consola, conectadas, pedidosEnd, ultimoPID>>
vars == <<colas, listas, finalizables, semaforos, mutexes, locales, fuera,
          procesoCPU, consolas, grado, paso, vuelve, exitCode, deKernel, desfase>>

-----------------------------------------------------------------------------
(* Helpers. *)

EnReady == {colaReady[i] : i \in DOMAIN colaReady}
Conectadas == {cpus[i] : i \in DOMAIN cpus}
(* list_remove_by_condition: the sequence without x, which occurs in it. *)
Sin(s, x) ==
    LET i == CHOOSE i \in DOMAIN s : s[i] = x IN
    [j \in 1 .. Len(s) - 1 |-> IF j < i THEN s[j] ELSE s[j + 1]]
Libres == {i \in DOMAIN cpus : ~ocupada[cpus[i]]}

(* list_find(lista_cpus_conectadas, esta_libre): the first idle CPU. *)
cpu_libre(i) == i \in Libres /\ \A j \in Libres : i <= j

Ir(t, s) == paso' = [paso EXCEPT ![t] = s]
Toma(t, p) == pcb' = [pcb EXCEPT ![t] = p]
Enviar(c, msgs) == deKernel' = [deKernel EXCEPT ![c] = @ \o msgs]

(* Where a thread is left by the return of its last call. *)
Final(t) ==
    IF t # SrvCPU THEN "nada"
    ELSE IF atendida # NadieCPU /\ estado[atendida] = "esperaSignal" THEN "RES_SIGNAL" ELSE "select"

-----------------------------------------------------------------------------
(* The programa thread (Kernel.c:492-536, 688-743). *)

(* NUEVO_PROG: the console server starts the thread, which builds the PCB. *)
nuevoPrograma(c) ==
    LET p == ultimoPID IN
    /\ c \in conectadas /\ ultimoPID < MaxProgramas
    /\ ultimoPID' = p + 1
    /\ consola' = [consola EXCEPT ![p] = c]
    /\ Toma(Programa(p), p)
    /\ pid' = [pid EXCEPT ![Programa(p)] = p]
    /\ Ir(Programa(p), "cargar_programa")
    /\ UNCHANGED <<colas, listas, finalizables, semaforos, mutexes, sock, atendida, fuera,
                   procesoCPU, conectadas, pedidosEnd, grado, vuelve, exitCode,
                   deKernel, desfase>>

cargar_programa(t) ==
    /\ paso[t] = "cargar_programa" /\ mutexProgramas = Nadie
    /\ programas' = programas \cup {pid[t]}
    /\ corriendo' = [corriendo EXCEPT ![pid[t]] = FALSE]
    /\ Ir(t, "moverA_colaNew")
    /\ UNCHANGED <<colas, cpus, ocupada, finalizables, semaforos, mutexes, locales, fuera,
                   procesoCPU, consolas, grado, vuelve, exitCode, deKernel, desfase>>

moverA_colaNew(t) ==
    /\ paso[t] = "moverA_colaNew"
    /\ colaNew' = colaNew \cup {pcb[t]}
    /\ Toma(t, SinPid)
    /\ Ir(t, "sem_wait")
    /\ UNCHANGED <<colaReady, colaExec, colaBlocked, colaExit, listas, finalizables,
                   semaforos, mutexes, pid, sock, atendida, fuera, procesoCPU,
                   consolas, grado, vuelve, exitCode, deKernel, desfase>>

hayLugar_siempre == TRUE
hayLugar == grado > 0

sem_wait(t) ==
    /\ paso[t] = "sem_wait" /\ hayLugar
    /\ grado' = grado - 1
    /\ Ir(t, "inicializar_programa")
    /\ UNCHANGED <<colas, listas, finalizables, semaforos, mutexes, locales, fuera,
                   procesoCPU, consolas, vuelve, exitCode, deKernel, desfase>>

(* INIT_PROGM to Memoria, sacarDe_colaNew and almacenarBytes.  Only this   *)
(* thread ever reads colaNew for its PID, so the three are one step.       *)
inicializar_programa(t) ==
    LET p == pid[t]
        sigue(s, v) == Ir(t, s) /\ vuelve' = [vuelve EXCEPT ![t] = v] IN
    /\ paso[t] = "inicializar_programa"
    /\ p \in colaNew
    /\ colaNew' = colaNew \ {p}
    /\ Toma(t, p)
    /\ \/ /\ Cardinality(enMemoria) >= Capacidad   \* SIN_ESPACIO_INICIALIZAR
          /\ exitCode' = [exitCode EXCEPT ![p] = "SIN_RECURSOS"]
          /\ sigue("exitSinMemoria", "nada")
          /\ UNCHANGED enMemoria
       \/ /\ Cardinality(enMemoria) < Capacidad    \* OK_INICIALIZAR
          /\ enMemoria' = enMemoria \cup {p}
          /\ \/ sigue("moverA_colaReady", "enviar_a_cpu") /\ UNCHANGED exitCode
             \/ /\ exitCode' = [exitCode EXCEPT ![p] = "SIN_RECURSOS"]
                /\ sigue("exit", "nada")
    /\ UNCHANGED <<colaReady, colaExec, colaBlocked, colaExit, listas, finalizables,
                   semaforos, mutexes, pid, sock, atendida, avisos, procesoCPU,
                   consolas, grado, deKernel, desfase>>

-----------------------------------------------------------------------------
(* Entering Ready (estados.c:129-175).  A PCB that is to be finished is    *)
(* finished with colaReadyMutex held, up to the end of finishProcess.      *)

moverA_colaReady(t) ==
    LET p == pcb[t]
        porConsola == p \in listForFinish /\ paso[t] = "moverA_colaReady"
        porDesconexion == ~porConsola /\ p \in listForFinishDesconexion IN
    /\ paso[t] \in {"moverA_colaReady", "moverA_colaReadySinFinalizar"}
    /\ mutexReady = Nadie
    /\ \/ /\ porConsola
          /\ listForFinish' = listForFinish \ {p}
          /\ exitCode' = [exitCode EXCEPT ![p] = "BY_CONSOLE"]
          /\ mutexReady' = t
          /\ Ir(t, "exit")
          /\ UNCHANGED <<colaReady, listForFinishDesconexion, pcb>>
       \/ /\ porDesconexion
          /\ listForFinishDesconexion' = listForFinishDesconexion \ {p}
          /\ exitCode' = [exitCode EXCEPT ![p] = "DESCONEXION"]
          /\ mutexReady' = t
          /\ Ir(t, "exit")
          /\ UNCHANGED <<colaReady, listForFinish, pcb>>
       \/ /\ ~porConsola /\ ~porDesconexion
          /\ colaReady' = Append(colaReady, p)
          /\ Toma(t, SinPid)
          /\ Ir(t, vuelve[t])
          /\ UNCHANGED <<listForFinish, listForFinishDesconexion, exitCode, mutexReady>>
    /\ UNCHANGED <<colaNew, colaExec, colaBlocked, colaExit, listas, pedidos, semaforos,
                   mutexProgramas, mutexCPU, pid, sock, atendida, fuera, procesoCPU,
                   consolas, grado, vuelve, deKernel, desfase>>

-----------------------------------------------------------------------------
(* finishProcess (Kernel.c:799-834). *)

sem_post_olvidado == UNCHANGED grado
sem_post == grado' = grado + 1

moverA_colaExit(t) ==
    /\ paso[t] \in {"exit", "exitSinMemoria"}
    /\ colaExit' = colaExit \cup {pcb[t]}
    /\ sem_post
    /\ pid' = [pid EXCEPT ![t] = pcb[t]]
    /\ Toma(t, SinPid)
    /\ Ir(t, IF paso[t] = "exit" THEN "FINZ_PROGM" ELSE "END_PRGM")
    /\ UNCHANGED <<colaNew, colaReady, colaExec, colaBlocked, listas, finalizables,
                   semaforos, mutexes, sock, atendida, fuera, procesoCPU, consolas,
                   vuelve, exitCode, deKernel, desfase>>

(* FINZ_PROGM: Memoria always answers OK_FINALIZAR (Memoria.c:899-942). *)
FINZ_PROGM_sin_efecto(p) == UNCHANGED enMemoria
FINZ_PROGM(p) == enMemoria' = enMemoria \ {p}

finalizarProcesoMemoria(t) ==
    /\ paso[t] = "FINZ_PROGM"
    /\ FINZ_PROGM(pid[t])
    /\ Ir(t, "END_PRGM")
    /\ UNCHANGED <<colas, listas, finalizables, semaforos, mutexes, locales, avisos,
                   procesoCPU, consolas, grado, vuelve, exitCode, deKernel, desfase>>

(* The console is told and the program leaves the list; a finalizador owns *)
(* mutexProgramasActuales already (lock = false).  The mutexes the caller  *)
(* took are released by its return.                                        *)
eliminarConsolaPorPID(p) == programas' = programas \ {p}

finishProcess(t) ==
    LET p == pid[t]
        suelta(m) == IF m = t THEN Nadie ELSE m IN
    /\ paso[t] = "END_PRGM"
    /\ mutexProgramas = IF t \in Finalizadores THEN t ELSE Nadie
    /\ IF p \in programas
         THEN /\ avisos' = [avisos EXCEPT ![p] = @ + 1]
              /\ eliminarConsolaPorPID(p)
         ELSE UNCHANGED <<avisos, programas>>
    /\ mutexReady' = suelta(mutexReady)
    /\ mutexProgramas' = suelta(mutexProgramas)
    /\ Ir(t, vuelve[t])
    /\ UNCHANGED <<colas, corriendo, cpus, ocupada, finalizables, semaforos, mutexCPU,
                   locales, enMemoria, procesoCPU, consolas, grado, vuelve, exitCode,
                   deKernel, desfase>>

-----------------------------------------------------------------------------
(* enviar_a_cpu (Kernel.c:855-918). *)

enviar_a_cpu(t) ==
    /\ paso[t] = "enviar_a_cpu" /\ mutexCPU = Nadie
    /\ \/ /\ Libres = {}
          /\ Ir(t, Final(t))
          /\ UNCHANGED <<mutexCPU, sock>>
       \/ /\ \E i \in DOMAIN cpus : cpu_libre(i) /\ sock' = [sock EXCEPT ![t] = cpus[i]]
          /\ mutexCPU' = t
          /\ Ir(t, "sacarCualquieraDeReady")
    /\ UNCHANGED <<colas, listas, finalizables, semaforos, mutexReady, mutexProgramas, pcb,
                   pid, atendida, fuera, procesoCPU, consolas, grado, vuelve, exitCode,
                   deKernel, desfase>>

(* colaReadyMutex is released before mutexProgramasActuales is asked for. *)
conserva_colaReadyMutex(t) == mutexReady' = t
suelta_colaReadyMutex(t) == UNCHANGED mutexReady

queue_peek_Ready == UNCHANGED colaReady
queue_pop_Ready == colaReady' = Tail(colaReady)

sacarCualquieraDeReady(t) ==
    /\ paso[t] = "sacarCualquieraDeReady" /\ mutexReady = Nadie
    /\ \/ /\ colaReady = <<>>
          /\ mutexCPU' = Nadie
          /\ Ir(t, Final(t))
          /\ UNCHANGED <<colaReady, mutexReady, pcb>>
       \/ /\ colaReady # <<>>
          /\ Toma(t, Head(colaReady))
          /\ queue_pop_Ready
          /\ suelta_colaReadyMutex(t)
          /\ Ir(t, "relacionar")
          /\ UNCHANGED mutexCPU
    /\ UNCHANGED <<colaNew, colaExec, colaBlocked, colaExit, listas, finalizables,
                   semaforos, mutexProgramas, pid, sock, atendida, fuera,
                   procesoCPU, consolas, grado, vuelve, exitCode, deKernel, desfase>>

(* A PCB whose program is not listed any more is dropped (l. 880-884). *)
relacionar(t) ==
    LET p == pcb[t] IN
    /\ paso[t] = "relacionar" /\ mutexProgramas = Nadie
    /\ mutexCPU' = Nadie
    /\ Toma(t, SinPid)
    /\ IF p \in programas
         THEN /\ colaExec' = colaExec \cup {p}
              /\ corriendo' = [corriendo EXCEPT ![p] = TRUE]
              /\ ocupada' = [ocupada EXCEPT ![sock[t]] = TRUE]
              /\ pid' = [pid EXCEPT ![t] = p]
              /\ Ir(t, "CORRER_PCB")
         ELSE /\ Ir(t, Final(t))
              /\ UNCHANGED <<colaExec, corriendo, ocupada, pid>>
    /\ UNCHANGED <<colaNew, colaReady, colaBlocked, colaExit, programas, cpus, finalizables,
                   semaforos, mutexReady, mutexProgramas, sock, atendida, fuera,
                   procesoCPU, consolas, grado, vuelve, exitCode, deKernel, desfase>>

(* The messages go out after the mutexes are released.  desfase records    *)
(* that the CPU is still waiting for a reply that was not sent yet.        *)
correr_pcb(t) ==
    LET c == sock[t] IN
    /\ paso[t] = "CORRER_PCB"
    /\ Enviar(c, CorrerPCB(pid[t]))
    /\ desfase' = (desfase \/ (estado[c] = "esperaWait" /\ deKernel[c] = <<>>))
    /\ Ir(t, Final(t))
    /\ UNCHANGED <<colas, listas, finalizables, semaforos, mutexes, locales, fuera,
                   procesoCPU, consolas, grado, vuelve, exitCode>>

-----------------------------------------------------------------------------
(* The select loop that serves the CPUs: one handler at a time. *)

Atiende(c) == paso[SrvCPU] = "select" /\ atendida' = c

(* nuevaConexionCPU, cargarCPU (Kernel.c:745-760). *)
cargarCPU(c) ==
    /\ Atiende(NadieCPU) /\ estado[c] = "conectando" /\ mutexCPU = Nadie
    /\ estado' = [estado EXCEPT ![c] = "libre"]
    /\ cpus' = Append(cpus, c)
    /\ ocupada' = [ocupada EXCEPT ![c] = FALSE]
    /\ UNCHANGED <<colas, programas, corriendo, finalizables, semaforos, mutexes, pcb, pid,
                   sock, fuera, ejecuta, semCPU, fin, desconectar, sigusr1, finishPend,
                   consolas, grado, vuelve, exitCode, deKernel, desfase>>

nuevaConexionCPU_sin_enviar(c) == cargarCPU(c) /\ Ir(SrvCPU, "select")
nuevaConexionCPU(c) == cargarCPU(c) /\ Ir(SrvCPU, "enviar_a_cpu")

(* desconectarCPU (Kernel.c:925-946): only an idle CPU is let go. *)
matchCPU(c) == c \in Conectadas /\ ~ocupada[c]

desconectarCPU(c) ==
    /\ mutexCPU = Nadie
    /\ IF matchCPU(c)
         THEN /\ cpus' = Sin(cpus, c)
              /\ Enviar(c, <<Msg("FINISH_CPU")>>)
         ELSE UNCHANGED <<cpus, deKernel>>

(* FINISH_CPU (Kernel.c:920-923).  The signal handler of the CPU may run   *)
(* at any point, so the order of its message with the CPU's other ones is  *)
(* not kept.                                                               *)
finishCPU(c) ==
    /\ Atiende(NadieCPU) /\ finishPend[c]
    /\ finishPend' = [finishPend EXCEPT ![c] = FALSE]
    /\ desconectarCPU(c)
    /\ UNCHANGED <<colas, programas, corriendo, ocupada, finalizables, semaforos, mutexes,
                   pcb, pid, sock, fuera, estado, ejecuta, semCPU, fin, desconectar,
                   sigusr1, consolas, grado, paso, vuelve, exitCode, desfase>>

sacarDe_colaExec_copiando(p) == UNCHANGED colaExec
sacarDe_colaExec(p) == colaExec' = colaExec \ {p}

(* retornarPCB (Kernel.c:73-103): the PCB that came back replaces the one  *)
(* in Exec, and the CPU becomes idle.                                      *)
retornarPCB(c) ==
    LET p == ejecuta[c] IN
    /\ Atiende(c) /\ estado[c] = "RET_PCB" /\ mutexCPU = Nadie
    /\ sacarDe_colaExec(p)
    /\ Toma(SrvCPU, p)
    /\ pid' = [pid EXCEPT ![SrvCPU] = p]
    /\ exitCode' = [exitCode EXCEPT ![p] = IF fin[c] THEN "OK" ELSE "enCurso"]
    /\ ocupada' = [ocupada EXCEPT ![c] = FALSE]
    /\ estado' = [estado EXCEPT ![c] = "libre"]
    /\ ejecuta' = [ejecuta EXCEPT ![c] = SinPid]
    /\ Ir(SrvCPU, IF desconectar[c] THEN "desconectarCPU" ELSE "processIsForFinish")
    /\ UNCHANGED <<colaNew, colaReady, colaBlocked, colaExit, programas, corriendo, cpus,
                   finalizables, semaforos, mutexes, sock, fuera, semCPU, fin, desconectar,
                   sigusr1, finishPend, consolas, grado, vuelve, deKernel, desfase>>

retornarPCB_desconectar ==
    /\ paso[SrvCPU] = "desconectarCPU"
    /\ desconectarCPU(atendida)
    /\ Ir(SrvCPU, "processIsForFinish")
    /\ UNCHANGED <<colas, programas, corriendo, ocupada, finalizables, semaforos, mutexes,
                   locales, fuera, procesoCPU, consolas, grado, vuelve, exitCode, desfase>>

(* The request is consumed whether or not the program ended by itself. *)
pedidaFin(p) == p \in listForFinish /\ exitCode[p] = "enCurso"

retornarPCB_decidir ==
    LET p == pcb[SrvCPU]
        pedida == pedidaFin(p)
        termina == pedida \/ exitCode[p] # "enCurso" IN
    /\ paso[SrvCPU] = "processIsForFinish"
    /\ listForFinish' = listForFinish \ {p}
    /\ exitCode' = IF pedida THEN [exitCode EXCEPT ![p] = "BY_CONSOLE"] ELSE exitCode
    /\ Ir(SrvCPU, IF termina THEN "exit" ELSE "moverA_colaReady")
    /\ vuelve' = [vuelve EXCEPT ![SrvCPU] = IF termina THEN "enviar_a_cpu"
                                                       ELSE "program_change_running"]
    /\ UNCHANGED <<colas, listas, listForFinishDesconexion, pedidos, semaforos, mutexes,
                   locales, fuera, procesoCPU, consolas, grado, deKernel, desfase>>

(* program_change_running(pid, false) (estados.c:337-346). *)
program_change_running ==
    LET p == pid[SrvCPU] IN
    /\ paso[SrvCPU] \in {"program_change_running", "program_change_running_wait"}
    /\ mutexProgramas = Nadie
    /\ corriendo' = IF p \in programas THEN [corriendo EXCEPT ![p] = FALSE] ELSE corriendo
    /\ Ir(SrvCPU, IF paso[SrvCPU] = "program_change_running" THEN "enviar_a_cpu" ELSE "RES_WAIT")
    /\ UNCHANGED <<colas, programas, cpus, ocupada, finalizables, semaforos, mutexes,
                   locales, fuera, procesoCPU, consolas, grado, vuelve, exitCode,
                   deKernel, desfase>>

-----------------------------------------------------------------------------
(* wait and signal (CapaMemoria.c:72-162), bloquear_pcb, desbloquear_pcb.  *)

(* WAIT on a semaphore that stays non-negative: answered at once. *)
wait_ok(c) ==
    LET s == semCPU[c] IN
    /\ Atiende(NadieCPU) /\ estado[c] = "WAIT" /\ valor[s] > 0
    /\ valor' = [valor EXCEPT ![s] = @ - 1]
    /\ estado' = [estado EXCEPT ![c] = "esperaWait"]
    /\ Enviar(c, <<Msg("RES_WAIT_OK")>>)
    /\ UNCHANGED <<colas, listas, finalizables, cola, mutexes, pcb, pid, sock, fuera,
                   ejecuta, semCPU, fin, desconectar, sigusr1, finishPend, consolas,
                   grado, paso, vuelve, exitCode, desfase>>

(* WAIT that blocks: moverA_colaBlocked finishes the PCB instead when its  *)
(* console is gone (estados.c:91-114).                                     *)
wait_bloquea(c) ==
    LET s == semCPU[c]
        p == ejecuta[c] IN
    /\ Atiende(c) /\ estado[c] = "WAIT" /\ valor[s] <= 0
    /\ valor' = [valor EXCEPT ![s] = @ - 1]
    /\ estado' = [estado EXCEPT ![c] = "esperaWait"]
    /\ pid' = [pid EXCEPT ![SrvCPU] = p]
    /\ vuelve' = [vuelve EXCEPT ![SrvCPU] = "encolar"]
    /\ sacarDe_colaExec(p)
    /\ \/ /\ p \in colaExec /\ p \in listForFinishDesconexion
          /\ listForFinishDesconexion' = listForFinishDesconexion \ {p}
          /\ exitCode' = [exitCode EXCEPT ![p] = "DESCONEXION"]
          /\ Toma(SrvCPU, p)
          /\ Ir(SrvCPU, "exit")
          /\ UNCHANGED colaBlocked
       \/ /\ p \notin colaExec \cap listForFinishDesconexion
          /\ colaBlocked' = colaBlocked \cup (colaExec \cap {p})
          /\ Ir(SrvCPU, "encolar")
          /\ UNCHANGED <<listForFinishDesconexion, exitCode, pcb>>
    /\ UNCHANGED <<colaNew, colaReady, colaExit, listas, listForFinish, pedidos, cola,
                   mutexes, sock, fuera, ejecuta, semCPU, fin, desconectar, sigusr1,
                   finishPend, consolas, grado, deKernel, desfase>>

(* queue_push(sem->cola, pid) and cpu_change_running(socket, false). *)
wait_encolar ==
    LET s == semCPU[atendida] IN
    /\ paso[SrvCPU] = "encolar" /\ mutexCPU = Nadie
    /\ cola' = [cola EXCEPT ![s] = Append(@, pid[SrvCPU])]
    /\ ocupada' = [ocupada EXCEPT ![atendida] = FALSE]
    /\ Ir(SrvCPU, "program_change_running_wait")
    /\ UNCHANGED <<colas, programas, corriendo, cpus, finalizables, valor, mutexes,
                   locales, fuera, procesoCPU, consolas, grado, vuelve, exitCode,
                   deKernel, desfase>>

(* RES_WAIT is sent last, when the CPU has been idle for a while. *)
wait_responder ==
    /\ paso[SrvCPU] = "RES_WAIT"
    /\ Enviar(atendida, <<Msg("RES_WAIT_BLOCKED")>>)
    /\ Ir(SrvCPU, "enviar_a_cpu")
    /\ UNCHANGED <<colas, listas, finalizables, semaforos, mutexes, locales, fuera,
                   procesoCPU, consolas, grado, vuelve, exitCode, desfase>>

(* SIGNAL: the first PID of the semaphore's queue is unblocked when it is  *)
(* still in Blocked; the PID is consumed either way.                       *)
Despierta_tarde(s) == valor[s] < -1 /\ cola[s] # <<>>
Despierta(s) == valor[s] < 0 /\ cola[s] # <<>>

signal(c) ==
    LET s == semCPU[c]
        despierta == Despierta(s)
        q == Head(cola[s]) IN
    /\ Atiende(c) /\ estado[c] = "SIGNAL"
    /\ valor' = [valor EXCEPT ![s] = @ + 1]
    /\ estado' = [estado EXCEPT ![c] = "esperaSignal"]
    /\ vuelve' = [vuelve EXCEPT ![SrvCPU] = "enviar_a_cpu"]
    /\ \/ /\ ~despierta
          /\ Ir(SrvCPU, "RES_SIGNAL")
          /\ UNCHANGED <<cola, colaBlocked, pcb>>
       \/ /\ despierta /\ q \notin colaBlocked
          /\ cola' = [cola EXCEPT ![s] = Tail(@)]
          /\ Ir(SrvCPU, "enviar_a_cpu")
          /\ UNCHANGED <<colaBlocked, pcb>>
       \/ /\ despierta /\ q \in colaBlocked
          /\ cola' = [cola EXCEPT ![s] = Tail(@)]
          /\ colaBlocked' = colaBlocked \ {q}
          /\ Toma(SrvCPU, q)
          /\ Ir(SrvCPU, "moverA_colaReadySinFinalizar")
    /\ UNCHANGED <<colaNew, colaReady, colaExec, colaExit, listas, finalizables, mutexes,
                   pid, sock, fuera, ejecuta, semCPU, fin, desconectar, sigusr1,
                   finishPend, consolas, grado, exitCode, deKernel, desfase>>

signal_responder ==
    /\ paso[SrvCPU] = "RES_SIGNAL"
    /\ Enviar(atendida, <<Msg("RES_SIGNAL")>>)
    /\ Ir(SrvCPU, "select")
    /\ atendida' = NadieCPU
    /\ UNCHANGED <<colas, listas, finalizables, semaforos, mutexes, pcb, pid, sock, fuera,
                   procesoCPU, consolas, grado, vuelve, exitCode, desfase>>

-----------------------------------------------------------------------------
(* Finishing a program from a console (Kernel.c:24-32, 105-159, 189-213,   *)
(* 1039-1055): a thread of its own for each request.                       *)

LanzarFinalizador(t) == paso[t] = "nada" /\ Ir(t, "finalizarProceso")

(* END_PROG from a console. *)
finalizarProgramaConsola(p) ==
    /\ p < ultimoPID /\ ultimoPID <= MaxConEnd /\ pedidosEnd[p] < MaxEnd
    /\ pedidosEnd' = [pedidosEnd EXCEPT ![p] = @ + 1]
    /\ LanzarFinalizador(FinEnd(p))
    /\ UNCHANGED <<colas, listas, finalizables, semaforos, mutexes, locales, fuera,
                   procesoCPU, consola, conectadas, ultimoPID, grado, vuelve, exitCode,
                   deKernel, desfase>>

(* The end command of the Kernel's own console checks the PID first. *)
end(p) ==
    /\ mutexProgramas = Nadie /\ p \in programas
    /\ finalizarProgramaConsola(p)

desconexionConsola(c) ==
    LET suyos == {p \in programas : consola[p] = c} IN
    /\ c \in conectadas \cap Desconectables /\ mutexProgramas = Nadie
    /\ conectadas' = conectadas \ {c}
    /\ paso' = [t \in Hilos |-> IF \E p \in suyos : t = FinDesconexion(p)
                                  THEN "finalizarProceso" ELSE paso[t]]
    /\ UNCHANGED <<colas, listas, finalizables, semaforos, mutexes, locales, fuera,
                   procesoCPU, consola, pedidosEnd, ultimoPID, grado, vuelve, exitCode,
                   deKernel, desfase>>

(* addForFinishIfNotContains, addForFinishDesconexionIfNotContains. *)
Anotar_nada(t) == pedidos' = pedidos \cup {t[2]} /\ UNCHANGED <<listForFinish, listForFinishDesconexion>>
Anotar(t) ==
    LET p == t[2] IN
    /\ pedidos' = pedidos \cup {p}
    /\ IF t[1] = "end"
         THEN listForFinish' = listForFinish \cup {p} /\ UNCHANGED listForFinishDesconexion
         ELSE listForFinishDesconexion' = listForFinishDesconexion \cup {p} /\ UNCHANGED listForFinish

(* finalizarProceso and finalizarProcesoDesconexion, up to the search in   *)
(* Ready, which is made with mutexProgramasActuales held.                  *)
finalizarProceso(t) ==
    LET p == t[2] IN
    /\ paso[t] = "finalizarProceso" /\ mutexProgramas = Nadie
    /\ \/ /\ p \notin programas
          /\ Ir(t, "nada")
          /\ UNCHANGED <<finalizables, mutexProgramas>>
       \/ /\ p \in programas /\ corriendo[p]
          /\ Anotar(t)
          /\ Ir(t, "nada")
          /\ UNCHANGED mutexProgramas
       \/ /\ p \in programas /\ ~corriendo[p]
          /\ mutexProgramas' = t
          /\ Ir(t, "sacarDe_colaReady")
          /\ UNCHANGED finalizables
    /\ UNCHANGED <<colas, listas, semaforos, mutexReady, mutexCPU, locales, fuera,
                   procesoCPU, consolas, grado, vuelve, exitCode, deKernel, desfase>>

sacarDe_colaReady(t) ==
    LET p == t[2] IN
    /\ paso[t] = "sacarDe_colaReady" /\ mutexReady = Nadie
    /\ \/ /\ p \in EnReady
          /\ colaReady' = Sin(colaReady, p)
          /\ Toma(t, p)
          /\ exitCode' = [exitCode EXCEPT ![p] = IF t[1] = "end" THEN "BY_CONSOLE" ELSE "DESCONEXION"]
          /\ pedidos' = pedidos \cup {p}
          /\ vuelve' = [vuelve EXCEPT ![t] = "nada"]
          /\ Ir(t, "exit")
          /\ UNCHANGED <<listForFinish, listForFinishDesconexion, mutexProgramas>>
       \/ /\ p \notin EnReady
          /\ Anotar(t)
          /\ mutexProgramas' = Nadie
          /\ Ir(t, "nada")
          /\ UNCHANGED <<colaReady, pcb, exitCode, vuelve>>
    /\ UNCHANGED <<colaNew, colaExec, colaBlocked, colaExit, listas, semaforos, mutexReady,
                   mutexCPU, pid, sock, atendida, fuera, procesoCPU, consolas, grado,
                   deKernel, desfase>>

-----------------------------------------------------------------------------
(* The CPU processes (CPU.c:36-145, PrimitivasAnsisop.c:422-500). *)

PasoCPU(c, e) == estado' = [estado EXCEPT ![c] = e]
kernel == <<colas, listas, finalizables, semaforos, mutexes, locales, fuera, consolas,
            grado, paso, vuelve, exitCode>>

conectarCPU(c) ==
    /\ estado[c] = "apagada"
    /\ PasoCPU(c, "conectando")
    /\ UNCHANGED <<kernel, ejecuta, semCPU, fin, desconectar, sigusr1, finishPend, deKernel,
                   desfase>>

(* waitKernel, correrPCB: a CPU that got SIGUSR1 returns the PCB untouched. *)
correrPCB(c) ==
    LET resto == IF deKernel[c][1].tipo = "NUEVO_QUANTUM_SLEEP" THEN Tail(deKernel[c])
                                                                ELSE deKernel[c] IN
    /\ estado[c] = "libre" /\ deKernel[c] # <<>>
    /\ resto # <<>> /\ resto[1].tipo = "CORRER_PCB"
    /\ ejecuta' = [ejecuta EXCEPT ![c] = resto[1].pid]
    /\ deKernel' = [deKernel EXCEPT ![c] = Tail(resto)]
    /\ PasoCPU(c, IF sigusr1[c] THEN "RET_PCB" ELSE "corre")
    /\ fin' = [fin EXCEPT ![c] = FALSE]
    /\ desconectar' = [desconectar EXCEPT ![c] = sigusr1[c]]
    /\ UNCHANGED <<kernel, semCPU, sigusr1, finishPend, desfase>>

(* The CPU stops when the Kernel lets it go; a reply nobody waits for is   *)
(* thrown away.                                                            *)
finishCPU_cpu(c) ==
    /\ estado[c] = "libre" /\ deKernel[c] # <<>>
    /\ deKernel[c][1].tipo \notin {"NUEVO_QUANTUM_SLEEP", "CORRER_PCB"}
    /\ deKernel' = [deKernel EXCEPT ![c] = Tail(@)]
    /\ PasoCPU(c, IF deKernel[c][1].tipo = "FINISH_CPU" THEN "fin" ELSE "libre")
    /\ UNCHANGED <<kernel, ejecuta, semCPU, fin, desconectar, sigusr1, finishPend, desfase>>

(* A system call on a semaphore. *)
waitAnsisop(c) ==
    /\ estado[c] = "corre"
    /\ \E s \in Semaforos : semCPU' = [semCPU EXCEPT ![c] = s]
    /\ PasoCPU(c, "WAIT")
    /\ UNCHANGED <<kernel, ejecuta, fin, desconectar, sigusr1, finishPend, deKernel, desfase>>

signalAnsisop(c) ==
    /\ estado[c] = "corre"
    /\ \E s \in Semaforos : valor[s] < MaxValor /\ semCPU' = [semCPU EXCEPT ![c] = s]
    /\ PasoCPU(c, "SIGNAL")
    /\ UNCHANGED <<kernel, ejecuta, fin, desconectar, sigusr1, finishPend, deKernel, desfase>>

(* The next package is taken for the reply.  A quantum that arrives first  *)
(* matches no code, so the CPU goes on with the program; a PCB read as a   *)
(* reply may match any.                                                    *)
recibirRespuesta(c) ==
    LET m == deKernel[c][1].tipo IN
    /\ estado[c] \in {"esperaWait", "esperaSignal"} /\ deKernel[c] # <<>>
    /\ deKernel' = [deKernel EXCEPT ![c] = Tail(@)]
    /\ \E e \in CASE m = "RES_WAIT_BLOCKED" -> {"libre"}
                 [] m = "CORRER_PCB" -> {"corre", "libre"}
                 [] OTHER -> {"corre"} : PasoCPU(c, e)
    /\ UNCHANGED <<kernel, ejecuta, semCPU, fin, desconectar, sigusr1, finishPend, desfase>>

(* The end of the program, or of its quantum when the algorithm is RR. *)
ejecutarPrograma(c) ==
    /\ estado[c] = "corre"
    /\ \E f \in (IF Modo = "FIFO" THEN {TRUE} ELSE BOOLEAN) : fin' = [fin EXCEPT ![c] = f]
    /\ desconectar' = [desconectar EXCEPT ![c] = sigusr1[c]]
    /\ PasoCPU(c, "RET_PCB")
    /\ UNCHANGED <<kernel, ejecuta, semCPU, sigusr1, finishPend, deKernel, desfase>>

signalHandler(c) ==
    /\ c \in Senalables /\ ~sigusr1[c] /\ estado[c] \notin {"apagada", "conectando", "fin"}
    /\ sigusr1' = [sigusr1 EXCEPT ![c] = TRUE]
    /\ finishPend' = [finishPend EXCEPT ![c] = TRUE]
    /\ UNCHANGED <<kernel, estado, ejecuta, semCPU, fin, desconectar, deKernel, desfase>>

-----------------------------------------------------------------------------
Init ==
    /\ ultimoPID = 0
    /\ colaNew = {} /\ colaReady = <<>> /\ colaExec = {} /\ colaBlocked = {} /\ colaExit = {}
    /\ programas = {} /\ corriendo = [p \in PID |-> FALSE]
    /\ consola = [p \in PID |-> CHOOSE c \in Consolas : TRUE]
    /\ cpus = <<>> /\ ocupada = [c \in Cpus |-> FALSE]
    /\ grado = GradoMultiprog
    /\ listForFinish = {} /\ listForFinishDesconexion = {} /\ pedidos = {}
    /\ valor = SemInicial /\ cola = [s \in Semaforos |-> <<>>]
    /\ mutexReady = Nadie /\ mutexProgramas = Nadie /\ mutexCPU = Nadie
    /\ paso = [t \in Hilos |-> IF t = SrvCPU THEN "select" ELSE "nada"]
    /\ vuelve = [t \in Hilos |-> "nada"]
    /\ pcb = [t \in Hilos |-> SinPid] /\ pid = [t \in Hilos |-> SinPid]
    /\ sock = [t \in Hilos |-> NadieCPU] /\ atendida = NadieCPU
    /\ exitCode = [p \in PID |-> "enCurso"]
    /\ enMemoria = {} /\ avisos = [p \in PID |-> 0]
    /\ estado = [c \in Cpus |-> "apagada"] /\ ejecuta = [c \in Cpus |-> SinPid]
    /\ semCPU = [c \in Cpus |-> SinSem]
    /\ fin = [c \in Cpus |-> FALSE] /\ desconectar = [c \in Cpus |-> FALSE]
    /\ deKernel = [c \in Cpus |-> <<>>]
    /\ sigusr1 = [c \in Cpus |-> FALSE] /\ finishPend = [c \in Cpus |-> FALSE]
    /\ conectadas = Consolas /\ pedidosEnd = [p \in PID |-> 0]
    /\ desfase = FALSE

(* The steps of a thread, and the steps of a CPU process. *)
PasoHilo(t) ==
    \/ cargar_programa(t) \/ moverA_colaNew(t) \/ sem_wait(t) \/ inicializar_programa(t)
    \/ moverA_colaReady(t) \/ moverA_colaExit(t) \/ finalizarProcesoMemoria(t)
    \/ finishProcess(t) \/ enviar_a_cpu(t) \/ sacarCualquieraDeReady(t) \/ relacionar(t)
    \/ correr_pcb(t)

(* The select loop takes a message; the handlers of the first kind may     *)
(* move a PCB.                                                             *)
ManejaPCB(c) == retornarPCB(c) \/ wait_bloquea(c) \/ signal(c)
ManejaOtro(c) == nuevaConexionCPU(c) \/ finishCPU(c) \/ wait_ok(c)

(* The select loop goes on with a message.                                 *)
SigueSrvCPU ==
    \/ retornarPCB_desconectar \/ retornarPCB_decidir \/ program_change_running
    \/ wait_encolar \/ wait_responder \/ signal_responder

PasoSrvCPU == SigueSrvCPU \/ \E c \in Cpus : ManejaPCB(c) \/ ManejaOtro(c)

PasoFinalizador(t) == finalizarProceso(t) \/ sacarDe_colaReady(t)

PasoProcesoCPU(c) ==
    \/ correrPCB(c) \/ finishCPU_cpu(c) \/ recibirRespuesta(c) \/ ejecutarPrograma(c)

(* Everything but the messages of the CPUs and the end command.            *)
Nucleo ==
    \/ \E t \in Hilos : PasoHilo(t)
    \/ \E t \in Finalizadores : PasoFinalizador(t)
    \/ SigueSrvCPU
    \/ \E c \in Consolas : nuevoPrograma(c) \/ desconexionConsola(c)
    \/ \E p \in PID : finalizarProgramaConsola(p)
    \/ \E c \in Cpus : \/ PasoProcesoCPU(c) \/ conectarCPU(c) \/ signalHandler(c)
                       \/ waitAnsisop(c) \/ signalAnsisop(c)

Next ==
    \/ Nucleo
    \/ \E c \in Cpus : ManejaPCB(c) \/ ManejaOtro(c)
    \/ \E p \in PID : end(p)

Spec == Init /\ [][Next]_vars

(* Every thread of the Kernel and every CPU process goes on when it can,   *)
(* and a program that is given a CPU again and again comes to its end;     *)
(* consoles, connections, signals and system calls may never happen.       *)
SpecJusta ==
    /\ Spec
    /\ \A t \in Hilos : WF_vars(PasoHilo(t))
    /\ \A t \in Finalizadores : WF_vars(PasoFinalizador(t))
    /\ WF_vars(PasoSrvCPU)
    /\ \A c \in Cpus : WF_vars(PasoProcesoCPU(c))
    /\ \A p \in PID : SF_vars(\E c \in Cpus : ejecuta[c] = p /\ ejecutarPrograma(c) /\ fin'[c])

-----------------------------------------------------------------------------
(* Properties. *)

TipoColas ==
    /\ ultimoPID \in 0 .. MaxProgramas
    /\ colaNew \subseteq PID /\ colaReady \in Seq(PID) /\ colaExec \subseteq PID
    /\ colaBlocked \subseteq PID /\ colaExit \subseteq PID
    /\ programas \subseteq PID /\ corriendo \in [PID -> BOOLEAN]
    /\ consola \in [PID -> Consolas] /\ conectadas \subseteq Consolas
    /\ listForFinish \subseteq PID /\ listForFinishDesconexion \subseteq PID
    /\ pedidos \subseteq PID /\ pedidosEnd \in [PID -> Nat]
    /\ valor \in [Semaforos -> Int] /\ cola \in [Semaforos -> Seq(PID)]
    /\ exitCode \in [PID -> ExitCodes]
    /\ enMemoria \subseteq PID /\ avisos \in [PID -> Nat]

TipoHilos ==
    /\ grado \in Nat
    /\ mutexReady \in Hilos \cup {Nadie} /\ mutexProgramas \in Hilos \cup {Nadie}
    /\ mutexCPU \in Hilos \cup {Nadie}
    /\ paso \in [Hilos -> Pasos] /\ vuelve \in [Hilos -> Pasos]
    /\ pcb \in [Hilos -> PID \cup {SinPid}] /\ pid \in [Hilos -> PID \cup {SinPid}]
    /\ sock \in [Hilos -> Cpus \cup {NadieCPU}] /\ atendida \in Cpus \cup {NadieCPU}

TipoCPUs ==
    /\ cpus \in Seq(Cpus) /\ ocupada \in [Cpus -> BOOLEAN]
    /\ estado \in [Cpus -> EstadosCPU] /\ ejecuta \in [Cpus -> PID \cup {SinPid}]
    /\ semCPU \in [Cpus -> Semaforos \cup {SinSem}]
    /\ fin \in [Cpus -> BOOLEAN] /\ desconectar \in [Cpus -> BOOLEAN]
    /\ deKernel \in [Cpus -> Seq(Mensajes)]
    /\ sigusr1 \in [Cpus -> BOOLEAN] /\ finishPend \in [Cpus -> BOOLEAN]
    /\ desfase \in BOOLEAN

(* Every variable keeps its type: a thread that changes a queue has a PCB  *)
(* in its hands, and the degree never becomes negative.                    *)
TypeOK == TipoColas /\ TipoHilos /\ TipoCPUs

(* The PCBs some thread has taken out of every queue. *)
EnMano == {pcb[t] : t \in Hilos} \ {SinPid}
Lugares == <<colaNew, EnReady, colaExec, colaBlocked, colaExit, EnMano>>

(* A PCB is never lost and never in two places: every program that was     *)
(* created is in one queue, once, or in the hands of one thread (the       *)
(* queues of estados.c are changed by the select loop, the programa        *)
(* threads and the finalizador threads at the same time).                  *)
UnSoloLugar ==
    ~desfase =>
        /\ UNION {Lugares[i] : i \in 1 .. 6} = 0 .. ultimoPID - 1
        /\ \A i, j \in 1 .. 6 : i # j => Lugares[i] \cap Lugares[j] = {}
        /\ \A i, j \in DOMAIN colaReady : i # j => colaReady[i] # colaReady[j]
        /\ \A t, u \in Hilos : t # u /\ pcb[t] # SinPid => pcb[t] # pcb[u]

(* The programs that took a place of the degree of multiprogramming and    *)
(* did not give it back.                                                   *)
Admitidos ==
    {p \in 0 .. ultimoPID - 1 :
        paso[Programa(p)] \notin {"cargar_programa", "moverA_colaNew", "sem_wait"}} \ colaExit

(* The PCB a CPU runs or is about to run: on its way to the CPU, being run *)
(* or on its way back.                                                     *)
Ejecutando(c) ==
    \/ estado[c] \in {"corre", "RET_PCB", "WAIT", "SIGNAL", "esperaSignal"}
    \/ /\ estado[c] = "esperaWait" /\ deKernel[c] # <<>>
       /\ deKernel[c][1].tipo = "RES_WAIT_OK"
Tiene(c) ==
    {p \in PID : \/ Ejecutando(c) /\ ejecuta[c] = p
                 \/ \E i \in DOMAIN deKernel[c] : deKernel[c][i] = [tipo |-> "CORRER_PCB", pid |-> p]
                 \/ \E t \in Hilos : paso[t] = "CORRER_PCB" /\ sock[t] = c /\ pid[t] = p}

(* Exec and the CPUs agree: a process is in colaExec exactly when one and  *)
(* only one CPU has it, that CPU is listed as busy, and a CPU has at most  *)
(* one process (enviar_a_cpu chooses the CPU under one mutex and sends the *)
(* PCB after releasing it).                                                *)
TenenciaUnica ==
    ~desfase =>
        /\ colaExec = UNION {Tiene(c) : c \in Cpus}
        /\ \A c \in Cpus : Tiene(c) # {} => /\ c \in Conectadas /\ ocupada[c]
                                            /\ Cardinality(Tiene(c)) = 1
        /\ \A c, d \in Cpus : c # d => Tiene(c) \cap Tiene(d) = {}

(* A blocked process can be woken: its PID is in the queue of exactly one  *)
(* semaphore, once, and a negative value counts the PIDs queued, although  *)
(* processes finished while they were blocking are still queued.           *)
PorEncolar(s) ==
    /\ paso[SrvCPU] = "encolar" \/ vuelve[SrvCPU] = "encolar"
    /\ paso[SrvCPU] \in {"encolar", "exit", "FINZ_PROGM", "END_PRGM"}
    /\ semCPU[atendida] = s
BloqueadosDespertables ==
    ~desfase =>
        /\ \A p \in colaBlocked :
              Cardinality({x \in Semaforos \X (1 .. MaxProgramas) :
                              x[2] \in DOMAIN cola[x[1]] /\ cola[x[1]][x[2]] = p})
                = IF paso[SrvCPU] = "encolar" /\ pid[SrvCPU] = p THEN 0 ELSE 1
        /\ \A s \in Semaforos :
              Len(cola[s]) + (IF PorEncolar(s) THEN 1 ELSE 0) = IF valor[s] < 0 THEN -valor[s] ELSE 0

(* A request to finish a program, once a finalizador found it alive, is    *)
(* never forgotten: the program has finished, is being finished, or is     *)
(* still noted for the next time it changes of queue (Kernel.c:59-71,      *)
(* 105-159).                                                               *)
PedidoNoOlvidado ==
    ~desfase =>
        \A p \in pedidos :
            \/ p \in colaExit
            \/ p \in listForFinish \cup listForFinishDesconexion
            \/ p \in EnMano /\ exitCode[p] # "enCurso"

(* When the thread that finishes a program is done with it, its pages were *)
(* given back, its console was told once and it is not listed; until it is *)
(* in Exit it is listed and nothing was told.  Its place was given back    *)
(* once: the sem_wait of programa (Kernel.c:527) and the sem_post of       *)
(* moverA_colaExit (estados.c:87) stay paired, whatever way programs end.  *)
FinCompleto ==
    ~desfase =>
        /\ grado = GradoMultiprog - Cardinality(Admitidos)
        /\ \A p \in 0 .. ultimoPID - 1 :
              IF p \notin colaExit
                THEN avisos[p] = 0 /\ (p \in programas \/ paso[Programa(p)] = "cargar_programa")
                ELSE \/ p \notin programas /\ p \notin enMemoria /\ avisos[p] = 1
                     \/ /\ p \in programas /\ avisos[p] = 0
                        /\ \E t \in Hilos : pid[t] = p /\ paso[t] \in {"FINZ_PROGM", "END_PRGM"}

(* Memoria may hold more programs than the degree allows, but only while   *)
(* the ones in excess are being finished: the place is given back before   *)
(* the pages are (Kernel.c:801-806).                                       *)
MemoriaAcotada ==
    ~desfase =>
        enMemoria \subseteq Admitidos \cup {pid[t] : t \in {u \in Hilos : paso[u] = "FINZ_PROGM"}}

(* No process waits in Ready while a CPU is idle unless enough threads are *)
(* still to call enviar_a_cpu: every call sends at most one PCB, so each   *)
(* idle CPU that could be used needs a call of its own.  A PCB that is     *)
(* dropped (Kernel.c:880-884) would spend a call for nothing; none is      *)
(* until a reply is overtaken.                                             *)
Elegida(c) == \E t \in Hilos : paso[t] = "relacionar" /\ sock[t] = c
PorDespachar ==
    {t \in Hilos : \/ paso[t] \in {"enviar_a_cpu", "sacarCualquieraDeReady"}
                   \/ t = SrvCPU /\ paso[t] \notin {"select", "relacionar", "CORRER_PCB", "RES_SIGNAL"}}
DespachosSuficientes ==
    ~desfase =>
        \/ Cardinality(PorDespachar) >= Len(colaReady)
        \/ Cardinality(PorDespachar) >= Cardinality({c \in Conectadas : ~ocupada[c] /\ ~Elegida(c)})

(* The mutex a thread needs for its next step, and who owns it. *)
PideProgramas(t) ==
    \/ paso[t] \in {"cargar_programa", "relacionar", "finalizarProceso",
                    "program_change_running", "program_change_running_wait"}
    \/ paso[t] = "END_PRGM" /\ t \notin Finalizadores
Frena(t) ==
    CASE PideProgramas(t) -> mutexProgramas
      [] paso[t] \in {"moverA_colaReady", "moverA_colaReadySinFinalizar",
                      "sacarCualquieraDeReady", "sacarDe_colaReady"} -> mutexReady
      [] paso[t] \in {"enviar_a_cpu", "encolar", "desconectarCPU"} -> mutexCPU
      [] OTHER -> Nadie

(* The mutexes of the scheduler can be waited for in a circle in one way   *)
(* only: a finalizador that looks for its PCB in Ready with                *)
(* mutexProgramasActuales held, and a thread that finishes a PCB on its    *)
(* way into Ready with colaReadyMutex held (estados.c:151-175 against      *)
(* Kernel.c:110-118).  No circle passes through mutexCPUConectadas.        *)
UnicoAbrazoMortal ==
    \A t \in Hilos :
        LET u == Frena(t) IN
        u # Nadie /\ Frena(u) # Nadie /\ (Frena(u) = t \/ Frena(Frena(u)) = t) =>
            /\ {t, u} = {mutexReady, mutexProgramas}
            /\ mutexProgramas \in Finalizadores /\ paso[mutexProgramas] = "sacarDe_colaReady"
            /\ paso[mutexReady] = "END_PRGM"

(* "Se destruye porque CPU se encarga del pcb" (CapaMemoria.c:113) is said *)
(* of the replies that do not block: a CPU never goes on with a process    *)
(* the Kernel keeps blocked.                                               *)
CPUNoSigueConBloqueado ==
    \A c \in Cpus : estado[c] = "corre" => ejecuta[c] \notin colaBlocked

(* Every program that is started is finished: with fair threads and CPUs   *)
(* and no request that may block, once a CPU that is never told to leave   *)
(* has connected, it gets a place, a CPU and an END_PRGM, whenever the     *)
(* other CPUs leave (Kernel.c:509-536, 855-946).                           *)
TodoProgramaTermina ==
    \A p \in PID : p < ultimoPID /\ Conectadas \ Senalables # {} ~> avisos[p] = 1
=============================================================================
