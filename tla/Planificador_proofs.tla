------------------------ MODULE Planificador_proofs ------------------------
(***************************************************************************)
(* Proofs about the scheduler, for every number of programs, CPUs,         *)
(* consoles and semaphores: type correctness, that its mutexes can be      *)
(* waited for in a circle in one way only, what every step does to the     *)
(* threads (Ef_...), and what each thread holds at each step of its own    *)
(* (HilosInv).  Planificador_lugares builds on the last two.               *)
(***************************************************************************)
EXTENDS Planificador, SequenceTheorems, TLAPS

-----------------------------------------------------------------------------
(* Type correctness.  TypeOK is not inductive: moverA_colaReady puts into  *)
(* a queue whatever PCB its thread holds, and retornarPCB whatever its CPU *)
(* runs.  The strengthening says who has what at each step.                *)

ConPCB == {"cargar_programa", "moverA_colaNew", "moverA_colaReady",
           "moverA_colaReadySinFinalizar", "exit", "exitSinMemoria", "relacionar",
           "desconectarCPU", "processIsForFinish"}
ConPID == {"cargar_programa", "FINZ_PROGM", "END_PRGM", "CORRER_PCB", "encolar"}
Regresos == {"nada", "enviar_a_cpu", "program_change_running", "encolar"}
ConProceso == {"corre", "RET_PCB", "WAIT", "SIGNAL", "esperaWait", "esperaSignal"}

Lleva(t) ==
    /\ paso[t] \in ConPCB => pcb[t] \in PID
    /\ paso[t] \in ConPID => pid[t] \in PID
    /\ vuelve[t] \in Regresos
    /\ paso[t] \in {"moverA_colaReady", "moverA_colaReadySinFinalizar"} => vuelve[t] # "encolar"
CadaUnoLleva ==
    /\ \A t \in Hilos : Lleva(t)
    /\ \A c \in Cpus : estado[c] \in ConProceso => ejecuta[c] \in PID

TypeInv == TypeOK /\ CadaUnoLleva

LEMMA ThreadFacts ==
    /\ SrvCPU \in Hilos /\ Finalizadores \subseteq Hilos /\ SinPid \notin PID
    /\ \A p \in PID : /\ Programa(p) \in Hilos /\ FinEnd(p) \in Finalizadores
                      /\ FinDesconexion(p) \in Finalizadores
BY DEF Hilos, Finalizadores, SrvCPU, Programa, FinEnd, FinDesconexion, PID, SinPid

(* Removing an element of a sequence leaves a sequence of the same set. *)
LEMMA SinSeq ==
    ASSUME NEW S, NEW s \in Seq(S), NEW x, \E i \in DOMAIN s : s[i] = x
    PROVE  Sin(s, x) \in Seq(S)
<1> DEFINE i == CHOOSE k \in DOMAIN s : s[k] = x
           r == [j \in 1 .. Len(s) - 1 |-> IF j < i THEN s[j] ELSE s[j + 1]]
<1>1. i \in 1 .. Len(s)
  OBVIOUS
<1>2. Len(s) - 1 \in Nat
  BY <1>1
<1>3. \A j \in 1 .. Len(s) - 1 : (IF j < i THEN s[j] ELSE s[j + 1]) \in S
  BY <1>1
<1>4. r \in [1 .. Len(s) - 1 -> S]
  BY <1>3
<1>5. r \in Seq(S)
  BY <1>2, <1>4
<1> QED
  BY <1>5 DEF Sin


USE DEF colas, listas, finalizables, semaforos, mutexes, locales, fuera, procesoCPU, consolas,
        kernel, Ir, Toma

-----------------------------------------------------------------------------
(* An update outside the domain of a function is harmless. *)
LEMMA ExceptTipo ==
    ASSUME NEW D, NEW R, NEW f \in [D -> R], NEW d, NEW v, d \in D => v \in R
    PROVE  [f EXCEPT ![d] = v] \in [D -> R]
OBVIOUS

(* A message for a CPU leaves its queue of messages well formed. *)
LEMMA EnviarTipo ==
    ASSUME deKernel \in [Cpus -> Seq(Mensajes)], NEW c, NEW msgs \in Seq(Mensajes), Enviar(c, msgs)
    PROVE  deKernel' \in [Cpus -> Seq(Mensajes)]
<1>1. \A d \in Cpus : deKernel[d] \o msgs \in Seq(Mensajes)
  BY ConcatProperties
<1> QED
  BY <1>1 DEF Enviar

LEMMA MsgTipo ==
    \A tipo \in {"NUEVO_QUANTUM_SLEEP", "RES_WAIT_OK", "RES_WAIT_BLOCKED", "RES_SIGNAL", "FINISH_CPU"} :
        <<Msg(tipo)>> \in Seq(Mensajes)
BY DEF Msg, Mensajes

LEMMA TypeInv_PasoHilo ==
    ASSUME TypeInv, NEW t \in Hilos, PasoHilo(t)
    PROVE  TypeInv'
<1> USE ConstantesAssumption, ThreadFacts DEF TypeInv, TypeOK, PID, SinPid
<1>1. CASE cargar_programa(t)
  <2>1. TipoColas'
    BY <1>1
       DEF cargar_programa, TipoColas, TipoHilos, CadaUnoLleva, Lleva, ConPCB, ConPID, ExitCodes
  <2>2. TipoHilos'
    BY <1>1
       DEF cargar_programa, TipoColas, TipoHilos, CadaUnoLleva, Lleva, ConPCB, ConPID, Pasos,
           Regresos
  <2>3. TipoCPUs'
    BY <1>1 DEF cargar_programa, TipoCPUs
  <2>4. CadaUnoLleva'
    <3>1. \A u \in Hilos \ {t} : Lleva(u)'
      BY <1>1 DEF cargar_programa, TipoHilos, CadaUnoLleva, Lleva
    <3>2. Lleva(t)'
      BY <1>1
         DEF cargar_programa, TipoColas, TipoHilos, CadaUnoLleva, Lleva, ConPCB, ConPID, Regresos
    <3> QED
      BY <1>1, <3>1, <3>2 DEF cargar_programa, CadaUnoLleva
  <2> QED
    BY <2>1, <2>2, <2>3, <2>4
<1>2. CASE moverA_colaNew(t)
  <2>1. TipoColas'
    BY <1>2 DEF moverA_colaNew, TipoColas, TipoHilos, CadaUnoLleva, Lleva, ConPCB, ConPID, ExitCodes
  <2>2. TipoHilos'
    BY <1>2
       DEF moverA_colaNew, TipoColas, TipoHilos, CadaUnoLleva, Lleva, ConPCB, ConPID, Pasos,
           Regresos
  <2>3. TipoCPUs'
    BY <1>2 DEF moverA_colaNew, TipoCPUs
  <2>4. CadaUnoLleva'
    <3>1. \A u \in Hilos \ {t} : Lleva(u)'
      BY <1>2 DEF moverA_colaNew, TipoHilos, CadaUnoLleva, Lleva
    <3>2. Lleva(t)'
      BY <1>2
         DEF moverA_colaNew, TipoColas, TipoHilos, CadaUnoLleva, Lleva, ConPCB, ConPID, Regresos
    <3> QED
      BY <1>2, <3>1, <3>2 DEF moverA_colaNew, CadaUnoLleva
  <2> QED
    BY <2>1, <2>2, <2>3, <2>4
<1>3. CASE sem_wait(t)
  <2>1. TipoColas'
    BY <1>3
       DEF sem_wait, hayLugar, TipoColas, TipoHilos, CadaUnoLleva, Lleva, ConPCB, ConPID, ExitCodes
  <2>2. TipoHilos'
    BY <1>3
       DEF sem_wait, hayLugar, TipoColas, TipoHilos, CadaUnoLleva, Lleva, ConPCB, ConPID, Pasos,
           Regresos
  <2>3. TipoCPUs'
    BY <1>3 DEF sem_wait, hayLugar, TipoCPUs
  <2>4. CadaUnoLleva'
    <3>1. \A u \in Hilos \ {t} : Lleva(u)'
      BY <1>3 DEF sem_wait, hayLugar, TipoHilos, CadaUnoLleva, Lleva
    <3>2. Lleva(t)'
      BY <1>3
         DEF sem_wait, hayLugar, TipoColas, TipoHilos, CadaUnoLleva, Lleva, ConPCB, ConPID, Regresos
    <3> QED
      BY <1>3, <3>1, <3>2 DEF sem_wait, CadaUnoLleva
  <2> QED
    BY <2>1, <2>2, <2>3, <2>4
<1>4. CASE inicializar_programa(t)
  <2>1. TipoColas'
    <3>1. colaNew' \subseteq PID /\ enMemoria' \subseteq PID
      BY <1>4 DEF inicializar_programa, TipoColas
    <3>2. exitCode' \in [PID -> ExitCodes]
      BY <1>4 DEF inicializar_programa, TipoColas, ExitCodes
    <3> QED
      BY <1>4, <3>1, <3>2 DEF inicializar_programa, TipoColas
  <2>2. TipoHilos'
    BY <1>4, ZenonT(60)
       DEF inicializar_programa, TipoColas, TipoHilos, CadaUnoLleva, Lleva, ConPCB, ConPID, Pasos,
           Regresos
  <2>3. TipoCPUs'
    BY <1>4 DEF inicializar_programa, TipoCPUs
  <2>4. CadaUnoLleva'
    <3>1. \A u \in Hilos \ {t} : Lleva(u)'
      BY <1>4 DEF inicializar_programa, TipoHilos, CadaUnoLleva, Lleva
    <3>2. Lleva(t)'
      BY <1>4
         DEF inicializar_programa, TipoColas, TipoHilos, CadaUnoLleva, Lleva, ConPCB, ConPID,
             Regresos
    <3> QED
      BY <1>4, <3>1, <3>2 DEF inicializar_programa, CadaUnoLleva
  <2> QED
    BY <2>1, <2>2, <2>3, <2>4
<1>5. CASE moverA_colaReady(t)
  <2>1. TipoColas'
    <3>1. pcb[t] \in PID
      BY <1>5 DEF moverA_colaReady, CadaUnoLleva, Lleva, ConPCB
    <3>2. Append(colaReady, pcb[t]) \in Seq(PID)
      BY <3>1, AppendProperties DEF TipoColas
    <3>4. /\ colaReady' \in Seq(PID)
          /\ listForFinish' \subseteq PID /\ listForFinishDesconexion' \subseteq PID
      BY <1>5, <3>2 DEF moverA_colaReady, TipoColas
    <3>3. exitCode' \in [PID -> ExitCodes]
      BY <1>5, <3>1 DEF moverA_colaReady, TipoColas, ExitCodes
    <3> QED
      BY <1>5, <3>3, <3>4 DEF moverA_colaReady, TipoColas
  <2>2. TipoHilos'
    BY <1>5
       DEF moverA_colaReady, TipoColas, TipoHilos, CadaUnoLleva, Lleva, ConPCB, ConPID, Pasos,
           Regresos
  <2>3. TipoCPUs'
    BY <1>5 DEF moverA_colaReady, TipoCPUs
  <2>4. CadaUnoLleva'
    <3>1. \A u \in Hilos \ {t} : Lleva(u)'
      BY <1>5 DEF moverA_colaReady, TipoHilos, CadaUnoLleva, Lleva
    <3>2. Lleva(t)'
      <4>1. CASE paso'[t] = "exit"
        BY <1>5, <4>1 DEF moverA_colaReady, TipoHilos, CadaUnoLleva, Lleva, ConPCB, ConPID, Regresos
      <4>2. CASE paso'[t] = vuelve[t]
        BY <1>5, <4>2 DEF moverA_colaReady, TipoHilos, CadaUnoLleva, Lleva, ConPCB, ConPID, Regresos
      <4> QED
        BY <1>5, <4>1, <4>2 DEF moverA_colaReady, TipoHilos
    <3> QED
      BY <1>5, <3>1, <3>2 DEF moverA_colaReady, CadaUnoLleva
  <2> QED
    BY <2>1, <2>2, <2>3, <2>4
<1>6. CASE moverA_colaExit(t)
  <2>1. TipoColas'
    BY <1>6
       DEF moverA_colaExit, sem_post, TipoColas, TipoHilos, CadaUnoLleva, Lleva, ConPCB, ConPID,
           ExitCodes
  <2>2. TipoHilos'
    BY <1>6, SMTT(30)
       DEF moverA_colaExit, sem_post, TipoColas, TipoHilos, CadaUnoLleva, Lleva, ConPCB, ConPID,
           Pasos, Regresos
  <2>3. TipoCPUs'
    BY <1>6 DEF moverA_colaExit, sem_post, TipoCPUs
  <2>4. CadaUnoLleva'
    <3>1. \A u \in Hilos \ {t} : Lleva(u)'
      BY <1>6 DEF moverA_colaExit, sem_post, TipoHilos, CadaUnoLleva, Lleva
    <3>2. Lleva(t)'
      BY <1>6
         DEF moverA_colaExit, sem_post, TipoColas, TipoHilos, CadaUnoLleva, Lleva, ConPCB, ConPID,
             Regresos
    <3> QED
      BY <1>6, <3>1, <3>2 DEF moverA_colaExit, CadaUnoLleva
  <2> QED
    BY <2>1, <2>2, <2>3, <2>4
<1>7. CASE finalizarProcesoMemoria(t)
  <2>1. TipoColas'
    BY <1>7
       DEF finalizarProcesoMemoria, FINZ_PROGM, TipoColas, TipoHilos, CadaUnoLleva, Lleva, ConPCB,
           ConPID, ExitCodes
  <2>2. TipoHilos'
    BY <1>7
       DEF finalizarProcesoMemoria, FINZ_PROGM, TipoColas, TipoHilos, CadaUnoLleva, Lleva, ConPCB,
           ConPID, Pasos, Regresos
  <2>3. TipoCPUs'
    BY <1>7 DEF finalizarProcesoMemoria, FINZ_PROGM, TipoCPUs
  <2>4. CadaUnoLleva'
    <3>1. \A u \in Hilos \ {t} : Lleva(u)'
      BY <1>7 DEF finalizarProcesoMemoria, FINZ_PROGM, TipoHilos, CadaUnoLleva, Lleva
    <3>2. Lleva(t)'
      BY <1>7
         DEF finalizarProcesoMemoria, FINZ_PROGM, TipoColas, TipoHilos, CadaUnoLleva, Lleva, ConPCB,
             ConPID, Regresos
    <3> QED
      BY <1>7, <3>1, <3>2 DEF finalizarProcesoMemoria, CadaUnoLleva
  <2> QED
    BY <2>1, <2>2, <2>3, <2>4
<1>8. CASE finishProcess(t)
  <2>1. TipoColas'
    <3>1. programas' \subseteq PID
      BY <1>8 DEF finishProcess, eliminarConsolaPorPID, TipoColas
    <3>2. avisos' \in [PID -> Nat]
      <4>1. CASE pid[t] \in programas
        <5>1. pid[t] \in PID /\ avisos \in [PID -> Nat]
          BY <4>1 DEF TipoColas
        <5>2. avisos[pid[t]] + 1 \in Nat
          BY <5>1
        <5> QED
          BY <1>8, <4>1, <5>1, <5>2 DEF finishProcess
      <4>2. CASE pid[t] \notin programas
        BY <1>8, <4>2 DEF finishProcess, TipoColas
      <4> QED
        BY <4>1, <4>2
    <3> QED
      BY <1>8, <3>1, <3>2 DEF finishProcess, TipoColas
  <2>2. TipoHilos'
    BY <1>8
       DEF finishProcess, eliminarConsolaPorPID, TipoColas, TipoHilos, CadaUnoLleva, Lleva, ConPCB,
           ConPID, Pasos, Regresos
  <2>3. TipoCPUs'
    BY <1>8 DEF finishProcess, eliminarConsolaPorPID, TipoCPUs
  <2>4. CadaUnoLleva'
    <3>1. \A u \in Hilos \ {t} : Lleva(u)'
      BY <1>8 DEF finishProcess, eliminarConsolaPorPID, TipoHilos, CadaUnoLleva, Lleva
    <3>2. Lleva(t)'
      BY <1>8
         DEF finishProcess, eliminarConsolaPorPID, TipoColas, TipoHilos, CadaUnoLleva, Lleva,
             ConPCB, ConPID, Regresos
    <3> QED
      BY <1>8, <3>1, <3>2 DEF finishProcess, CadaUnoLleva
  <2> QED
    BY <2>1, <2>2, <2>3, <2>4
<1>9. CASE enviar_a_cpu(t)
  <2>1. TipoColas'
    BY <1>9
       DEF enviar_a_cpu, cpu_libre, Libres, Final, TipoColas, TipoHilos, CadaUnoLleva, Lleva,
           ConPCB, ConPID, ExitCodes
  <2>2. TipoHilos'
    <3>3. \A i \in DOMAIN cpus : cpus[i] \in Cpus
      BY DEF TipoCPUs
    <3>1. sock' \in [Hilos -> Cpus \cup {NadieCPU}]
      BY <1>9, <3>3 DEF enviar_a_cpu, TipoHilos
    <3>2. paso' \in [Hilos -> Pasos]
      BY <1>9 DEF enviar_a_cpu, Final, TipoHilos, Pasos
    <3> QED
      BY <1>9, <3>1, <3>2 DEF enviar_a_cpu, TipoHilos
  <2>3. TipoCPUs'
    BY <1>9 DEF enviar_a_cpu, cpu_libre, Libres, Final, TipoCPUs
  <2>4. CadaUnoLleva'
    <3>1. \A u \in Hilos \ {t} : Lleva(u)'
      BY <1>9 DEF enviar_a_cpu, cpu_libre, Libres, Final, TipoHilos, CadaUnoLleva, Lleva
    <3>2. Lleva(t)'
      BY <1>9
         DEF enviar_a_cpu, cpu_libre, Libres, Final, TipoColas, TipoHilos, CadaUnoLleva, Lleva,
             ConPCB, ConPID, Regresos
    <3> QED
      BY <1>9, <3>1, <3>2 DEF enviar_a_cpu, CadaUnoLleva
  <2> QED
    BY <2>1, <2>2, <2>3, <2>4
<1>10. CASE sacarCualquieraDeReady(t)
  <2>1. TipoColas'
    <3>2. colaReady # <<>> => Tail(colaReady) \in Seq(PID)
      BY HeadTailProperties DEF TipoColas
    <3>1. colaReady' \in Seq(PID)
      BY <1>10, <3>2 DEF sacarCualquieraDeReady, queue_pop_Ready, TipoColas
    <3> QED
      BY <1>10, <3>1 DEF sacarCualquieraDeReady, TipoColas
  <2>2. TipoHilos'
    <3>3. colaReady # <<>> => Head(colaReady) \in PID
      BY HeadTailProperties DEF TipoColas
    <3>1. pcb' \in [Hilos -> PID \cup {SinPid}]
      BY <1>10, <3>3 DEF sacarCualquieraDeReady, TipoHilos
    <3>2. paso' \in [Hilos -> Pasos]
      BY <1>10, SMTT(30) DEF sacarCualquieraDeReady, Final, TipoHilos, Pasos
    <3> QED
      BY <1>10, <3>1, <3>2 DEF sacarCualquieraDeReady, suelta_colaReadyMutex, TipoHilos
  <2>3. TipoCPUs'
    BY <1>10 DEF sacarCualquieraDeReady, queue_pop_Ready, suelta_colaReadyMutex, Final, TipoCPUs
  <2>4. CadaUnoLleva'
    <3>1. \A u \in Hilos \ {t} : Lleva(u)'
      BY <1>10
         DEF sacarCualquieraDeReady, queue_pop_Ready, suelta_colaReadyMutex, Final, TipoHilos,
             CadaUnoLleva, Lleva
    <3>3. colaReady # <<>> => Head(colaReady) \in PID
      BY HeadTailProperties DEF TipoColas
    <3>2. Lleva(t)'
      <4>1. CASE colaReady = <<>>
        BY <1>10, <4>1
           DEF sacarCualquieraDeReady, Final, TipoHilos, CadaUnoLleva, Lleva, ConPCB, ConPID
      <4>2. CASE colaReady # <<>>
        BY <1>10, <3>3, <4>2
           DEF sacarCualquieraDeReady, TipoHilos, CadaUnoLleva, Lleva, ConPCB, ConPID
      <4> QED
        BY <4>1, <4>2
    <3> QED
      BY <1>10, <3>1, <3>2 DEF sacarCualquieraDeReady, CadaUnoLleva
  <2> QED
    BY <2>1, <2>2, <2>3, <2>4
<1>11. CASE relacionar(t)
  <2>1. TipoColas'
    <3>1. colaExec' \subseteq PID
      BY <1>11 DEF relacionar, TipoColas
    <3>2. corriendo' \in [PID -> BOOLEAN]
      BY <1>11 DEF relacionar, TipoColas
    <3> QED
      BY <1>11, <3>1, <3>2 DEF relacionar, TipoColas
  <2>2. TipoHilos'
    <3>1. paso' \in [Hilos -> Pasos]
      BY <1>11 DEF relacionar, Final, TipoHilos, Pasos
    <3>2. pid' \in [Hilos -> PID \cup {SinPid}]
      BY <1>11 DEF relacionar, TipoColas, TipoHilos
    <3> QED
      BY <1>11, <3>1, <3>2 DEF relacionar, TipoHilos
  <2>3. TipoCPUs'
    BY <1>11 DEF relacionar, Final, TipoCPUs
  <2>4. CadaUnoLleva'
    <3>1. \A u \in Hilos \ {t} : Lleva(u)'
      BY <1>11 DEF relacionar, Final, TipoHilos, CadaUnoLleva, Lleva
    <3>2. Lleva(t)'
      BY <1>11
         DEF relacionar, Final, TipoColas, TipoHilos, CadaUnoLleva, Lleva, ConPCB, ConPID, Regresos
    <3> QED
      BY <1>11, <3>1, <3>2 DEF relacionar, CadaUnoLleva
  <2> QED
    BY <2>1, <2>2, <2>3, <2>4
<1>12. CASE correr_pcb(t)
  <2>1. TipoColas'
    BY <1>12
       DEF correr_pcb, Final, CorrerPCB, Msg, Enviar, Mensajes, TipoColas, TipoHilos, CadaUnoLleva,
           Lleva, ConPCB, ConPID, ExitCodes
  <2>2. TipoHilos'
    BY <1>12
       DEF correr_pcb, Final, CorrerPCB, Msg, Enviar, Mensajes, TipoColas, TipoHilos, CadaUnoLleva,
           Lleva, ConPCB, ConPID, Pasos, Regresos
  <2>3. TipoCPUs'
    <3>1. CorrerPCB(pid[t]) \in Seq(Mensajes)
      BY <1>12 DEF correr_pcb, CorrerPCB, Msg, Mensajes, CadaUnoLleva, Lleva, ConPID
    <3>2. deKernel' \in [Cpus -> Seq(Mensajes)]
      BY <1>12, <3>1, EnviarTipo DEF correr_pcb, TipoCPUs
    <3> QED
      BY <1>12, <3>2 DEF correr_pcb, TipoCPUs
  <2>4. CadaUnoLleva'
    <3>1. \A u \in Hilos \ {t} : Lleva(u)'
      BY <1>12
         DEF correr_pcb, Final, CorrerPCB, Msg, Enviar, Mensajes, TipoHilos, CadaUnoLleva, Lleva
    <3>2. Lleva(t)'
      BY <1>12
         DEF correr_pcb, Final, CorrerPCB, Msg, Enviar, Mensajes, TipoColas, TipoHilos,
             CadaUnoLleva, Lleva, ConPCB, ConPID, Regresos
    <3> QED
      BY <1>12, <3>1, <3>2 DEF correr_pcb, CadaUnoLleva
  <2> QED
    BY <2>1, <2>2, <2>3, <2>4
<1> QED
  BY <1>1, <1>2, <1>3, <1>4, <1>5, <1>6, <1>7, <1>8, <1>9, <1>10, <1>11, <1>12 DEF PasoHilo

LEMMA TypeInv_PasoFinalizador ==
    ASSUME TypeInv, NEW t \in Finalizadores, PasoFinalizador(t)
    PROVE  TypeInv'
<1> USE ConstantesAssumption, ThreadFacts DEF TypeInv, TypeOK, PID, SinPid
<1>0. t \in Hilos /\ t[2] \in PID
  BY DEF Finalizadores
<1>1. CASE finalizarProceso(t)
  <2>1. TipoColas'
    <3>1. /\ listForFinish' \subseteq PID /\ listForFinishDesconexion' \subseteq PID
          /\ pedidos' \subseteq PID
      BY <1>0, <1>1 DEF finalizarProceso, Anotar, TipoColas
    <3> QED
      BY <1>1, <3>1 DEF finalizarProceso, TipoColas
  <2>2. TipoHilos'
    <3>1. /\ mutexProgramas' \in Hilos \cup {Nadie}
          /\ paso' \in [Hilos -> Pasos]
      BY <1>0, <1>1 DEF finalizarProceso, TipoHilos, Pasos
    <3> QED
      BY <1>1, <3>1 DEF finalizarProceso, TipoHilos
  <2>3. TipoCPUs'
    BY <1>1 DEF finalizarProceso, Anotar, Finalizadores, TipoCPUs, TipoHilos, EstadosCPU
  <2>4. \A u \in Hilos \ {t} : Lleva(u)'
    BY <1>1 DEF finalizarProceso, Anotar, Finalizadores, TipoHilos, CadaUnoLleva, Lleva
  <2>5. Lleva(t)'
    BY <1>1, ZenonT(60)
       DEF finalizarProceso, Anotar, Finalizadores, TipoColas, TipoHilos, TipoCPUs, CadaUnoLleva,
           Lleva, ConPCB, ConPID, ConProceso, Regresos
  <2>6. \A d \in Cpus : (estado[d] \in ConProceso => ejecuta[d] \in PID)'
    BY <1>1 DEF finalizarProceso, Anotar, Finalizadores, TipoCPUs, CadaUnoLleva, ConProceso
  <2> QED
    BY <2>1, <2>2, <2>3, <2>4, <2>5, <2>6 DEF CadaUnoLleva
<1>2. CASE sacarDe_colaReady(t)
  <2>1. TipoColas'
    <3>1. t[2] \in EnReady => Sin(colaReady, t[2]) \in Seq(PID)
      BY SinSeq DEF EnReady, TipoColas
    <3>2. colaReady' \in Seq(PID)
      BY <1>2, <3>1 DEF sacarDe_colaReady, TipoColas
    <3>3. /\ listForFinish' \subseteq PID /\ listForFinishDesconexion' \subseteq PID
          /\ pedidos' \subseteq PID
      BY <1>0, <1>2 DEF sacarDe_colaReady, Anotar, TipoColas
    <3>4. exitCode' \in [PID -> ExitCodes]
      BY <1>0, <1>2 DEF sacarDe_colaReady, TipoColas, ExitCodes
    <3> QED
      BY <1>2, <3>2, <3>3, <3>4 DEF sacarDe_colaReady, TipoColas
  <2>2. TipoHilos'
    <3>1. mutexProgramas' \in Hilos \cup {Nadie}
      BY <1>0, <1>2 DEF sacarDe_colaReady, TipoHilos
    <3>2. /\ paso' \in [Hilos -> Pasos] /\ vuelve' \in [Hilos -> Pasos]
          /\ pcb' \in [Hilos -> PID \cup {SinPid}]
      BY <1>0, <1>2 DEF sacarDe_colaReady, TipoHilos, Pasos
    <3> QED
      BY <1>2, <3>1, <3>2 DEF sacarDe_colaReady, TipoHilos
  <2>3. TipoCPUs'
    BY <1>2 DEF sacarDe_colaReady, Anotar, EnReady, Finalizadores, TipoCPUs, TipoHilos, EstadosCPU
  <2>4. \A u \in Hilos \ {t} : Lleva(u)'
    BY <1>2 DEF sacarDe_colaReady, Anotar, EnReady, Finalizadores, TipoHilos, CadaUnoLleva, Lleva
  <2>5. Lleva(t)'
    BY <1>2, ZenonT(60)
       DEF sacarDe_colaReady, Anotar, EnReady, Finalizadores, TipoColas, TipoHilos, TipoCPUs,
           CadaUnoLleva, Lleva, ConPCB, ConPID, ConProceso, Regresos
  <2>6. \A d \in Cpus : (estado[d] \in ConProceso => ejecuta[d] \in PID)'
    BY <1>2
       DEF sacarDe_colaReady, Anotar, EnReady, Finalizadores, TipoCPUs, CadaUnoLleva, ConProceso
  <2> QED
    BY <2>1, <2>2, <2>3, <2>4, <2>5, <2>6 DEF CadaUnoLleva
<1> QED
  BY <1>1, <1>2 DEF PasoFinalizador

LEMMA TypeInv_SrvCPU ==
    ASSUME TypeInv, NEW c \in Cpus,
           \/ nuevaConexionCPU(c) \/ finishCPU(c) \/ retornarPCB(c)
           \/ wait_ok(c) \/ wait_bloquea(c) \/ signal(c)
    PROVE  TypeInv'
<1> USE ConstantesAssumption, ThreadFacts DEF TypeInv, TypeOK, PID, SinPid
<1>1. CASE nuevaConexionCPU(c)
  <2>1. TipoColas'
    BY <1>1
       DEF nuevaConexionCPU, cargarCPU, Atiende, TipoColas, TipoHilos, TipoCPUs, CadaUnoLleva,
           Lleva, ConPCB, ConPID, ConProceso, ExitCodes
  <2>2. TipoHilos'
    BY <1>1
       DEF nuevaConexionCPU, cargarCPU, Atiende, TipoColas, TipoHilos, TipoCPUs, CadaUnoLleva,
           Lleva, ConPCB, ConPID, ConProceso, Pasos, Regresos
  <2>3. TipoCPUs'
    BY <1>1 DEF nuevaConexionCPU, cargarCPU, Atiende, TipoCPUs, TipoHilos, EstadosCPU
  <2>4. \A u \in Hilos \ {SrvCPU} : Lleva(u)'
    BY <1>1 DEF nuevaConexionCPU, cargarCPU, Atiende, TipoHilos, CadaUnoLleva, Lleva
  <2>5. Lleva(SrvCPU)'
    BY <1>1
       DEF nuevaConexionCPU, cargarCPU, Atiende, TipoColas, TipoHilos, TipoCPUs, CadaUnoLleva,
           Lleva, ConPCB, ConPID, ConProceso, Regresos
  <2>6. \A d \in Cpus : (estado[d] \in ConProceso => ejecuta[d] \in PID)'
    BY <1>1 DEF nuevaConexionCPU, cargarCPU, Atiende, TipoCPUs, CadaUnoLleva, ConProceso
  <2> QED
    BY <2>1, <2>2, <2>3, <2>4, <2>5, <2>6 DEF CadaUnoLleva
<1>2. CASE finishCPU(c)
  <2>1. TipoColas'
    BY <1>2
       DEF finishCPU, desconectarCPU, Enviar, Msg, Mensajes, matchCPU, Conectadas, Atiende,
           TipoColas, TipoHilos, TipoCPUs, CadaUnoLleva, Lleva, ConPCB, ConPID, ConProceso,
           ExitCodes
  <2>2. TipoHilos'
    BY <1>2
       DEF finishCPU, desconectarCPU, Enviar, Msg, Mensajes, matchCPU, Conectadas, Atiende,
           TipoColas, TipoHilos, TipoCPUs, CadaUnoLleva, Lleva, ConPCB, ConPID, ConProceso, Pasos,
           Regresos
  <2>3. TipoCPUs'
    <3>1. desconectarCPU(c)
      BY <1>2 DEF finishCPU
    <3>2. cpus' \in Seq(Cpus)
      BY <3>1, SinSeq DEF desconectarCPU, matchCPU, Conectadas, TipoCPUs
    <3>3. deKernel' \in [Cpus -> Seq(Mensajes)]
      BY <3>1, EnviarTipo, MsgTipo DEF desconectarCPU, TipoCPUs
    <3> QED
      BY <1>2, <3>2, <3>3 DEF finishCPU, TipoCPUs
  <2>4. \A u \in Hilos \ {SrvCPU} : Lleva(u)'
    BY <1>2
       DEF finishCPU, desconectarCPU, Enviar, Msg, Mensajes, matchCPU, Conectadas, Atiende,
           TipoHilos, CadaUnoLleva, Lleva
  <2>5. Lleva(SrvCPU)'
    BY <1>2
       DEF finishCPU, desconectarCPU, Enviar, Msg, Mensajes, matchCPU, Conectadas, Atiende,
           TipoColas, TipoHilos, TipoCPUs, CadaUnoLleva, Lleva, ConPCB, ConPID, ConProceso, Regresos
  <2>6. \A d \in Cpus : (estado[d] \in ConProceso => ejecuta[d] \in PID)'
    BY <1>2
       DEF finishCPU, desconectarCPU, Enviar, Msg, Mensajes, matchCPU, Conectadas, Atiende,
           TipoCPUs, CadaUnoLleva, ConProceso
  <2> QED
    BY <2>1, <2>2, <2>3, <2>4, <2>5, <2>6 DEF CadaUnoLleva
<1>3. CASE retornarPCB(c)
  <2>1. TipoColas'
    BY <1>3
       DEF retornarPCB, sacarDe_colaExec, Atiende, TipoColas, TipoHilos, TipoCPUs, CadaUnoLleva,
           Lleva, ConPCB, ConPID, ConProceso, ExitCodes
  <2>2. TipoHilos'
    BY <1>3
       DEF retornarPCB, sacarDe_colaExec, Atiende, TipoColas, TipoHilos, TipoCPUs, CadaUnoLleva,
           Lleva, ConPCB, ConPID, ConProceso, Pasos, Regresos
  <2>3. TipoCPUs'
    BY <1>3 DEF retornarPCB, sacarDe_colaExec, Atiende, TipoCPUs, TipoHilos, EstadosCPU
  <2>4. \A u \in Hilos \ {SrvCPU} : Lleva(u)'
    BY <1>3 DEF retornarPCB, sacarDe_colaExec, Atiende, TipoHilos, CadaUnoLleva, Lleva
  <2>5. Lleva(SrvCPU)'
    BY <1>3
       DEF retornarPCB, sacarDe_colaExec, Atiende, TipoColas, TipoHilos, TipoCPUs, CadaUnoLleva,
           Lleva, ConPCB, ConPID, ConProceso, Regresos
  <2>6. \A d \in Cpus : (estado[d] \in ConProceso => ejecuta[d] \in PID)'
    BY <1>3 DEF retornarPCB, sacarDe_colaExec, Atiende, TipoCPUs, CadaUnoLleva, ConProceso
  <2> QED
    BY <2>1, <2>2, <2>3, <2>4, <2>5, <2>6 DEF CadaUnoLleva
<1>4. CASE wait_ok(c)
  <2>1. TipoColas'
    <3>1. valor' \in [Semaforos -> Int]
      <4>1. semCPU[c] \in Semaforos => valor[semCPU[c]] - 1 \in Int
        BY DEF TipoColas
      <4>2. valor' = [valor EXCEPT ![semCPU[c]] = valor[semCPU[c]] - 1]
        BY <1>4 DEF wait_ok
      <4>3. valor \in [Semaforos -> Int]
        BY DEF TipoColas
      <4> HIDE DEF TypeInv
      <4> QED
        BY <4>1, <4>2, <4>3, ExceptTipo
    <3> QED
      BY <1>4, <3>1 DEF wait_ok, TipoColas
  <2>2. TipoHilos'
    BY <1>4
       DEF wait_ok, Atiende, Enviar, Msg, Mensajes, TipoColas, TipoHilos, TipoCPUs, CadaUnoLleva,
           Lleva, ConPCB, ConPID, ConProceso, Pasos, Regresos
  <2>3. TipoCPUs'
    BY <1>4 DEF wait_ok, Atiende, Enviar, Msg, Mensajes, TipoCPUs, TipoHilos, EstadosCPU
  <2>4. \A u \in Hilos \ {SrvCPU} : Lleva(u)'
    BY <1>4 DEF wait_ok, Atiende, Enviar, Msg, Mensajes, TipoHilos, CadaUnoLleva, Lleva
  <2>5. Lleva(SrvCPU)'
    BY <1>4
       DEF wait_ok, Atiende, Enviar, Msg, Mensajes, TipoColas, TipoHilos, TipoCPUs, CadaUnoLleva,
           Lleva, ConPCB, ConPID, ConProceso, Regresos
  <2>6. \A d \in Cpus : (estado[d] \in ConProceso => ejecuta[d] \in PID)'
    BY <1>4 DEF wait_ok, Atiende, Enviar, Msg, Mensajes, TipoCPUs, CadaUnoLleva, ConProceso
  <2> QED
    BY <2>1, <2>2, <2>3, <2>4, <2>5, <2>6 DEF CadaUnoLleva
<1>5. CASE wait_bloquea(c)
  <2>1. TipoColas'
    <3>1. valor' \in [Semaforos -> Int]
      <4>1. semCPU[c] \in Semaforos => valor[semCPU[c]] - 1 \in Int
        BY DEF TipoColas
      <4>2. valor' = [valor EXCEPT ![semCPU[c]] = valor[semCPU[c]] - 1]
        BY <1>5 DEF wait_bloquea
      <4>3. valor \in [Semaforos -> Int]
        BY DEF TipoColas
      <4> HIDE DEF TypeInv
      <4> QED
        BY <4>1, <4>2, <4>3, ExceptTipo
    <3>2. /\ colaExec' \subseteq PID /\ colaBlocked' \subseteq PID
          /\ listForFinishDesconexion' \subseteq PID
      BY <1>5 DEF wait_bloquea, sacarDe_colaExec, TipoColas
    <3>3. exitCode' \in [PID -> ExitCodes]
      BY <1>5 DEF wait_bloquea, TipoColas, ExitCodes
    <3> QED
      BY <1>5, <3>1, <3>2, <3>3 DEF wait_bloquea, TipoColas
  <2>2. TipoHilos'
    BY <1>5
       DEF wait_bloquea, sacarDe_colaExec, Atiende, TipoColas, TipoHilos, TipoCPUs, CadaUnoLleva,
           Lleva, ConPCB, ConPID, ConProceso, Pasos, Regresos
  <2>3. TipoCPUs'
    BY <1>5 DEF wait_bloquea, sacarDe_colaExec, Atiende, TipoCPUs, TipoHilos, EstadosCPU
  <2>4. \A u \in Hilos \ {SrvCPU} : Lleva(u)'
    BY <1>5 DEF wait_bloquea, sacarDe_colaExec, Atiende, TipoHilos, CadaUnoLleva, Lleva
  <2>5. Lleva(SrvCPU)'
    BY <1>5, SMTT(30)
       DEF wait_bloquea, sacarDe_colaExec, Atiende, TipoColas, TipoHilos, TipoCPUs, CadaUnoLleva,
           Lleva, ConPCB, ConPID, ConProceso, Regresos
  <2>6. \A d \in Cpus : (estado[d] \in ConProceso => ejecuta[d] \in PID)'
    BY <1>5 DEF wait_bloquea, sacarDe_colaExec, Atiende, TipoCPUs, CadaUnoLleva, ConProceso
  <2> QED
    BY <2>1, <2>2, <2>3, <2>4, <2>5, <2>6 DEF CadaUnoLleva
<1>6. CASE signal(c)
  <2>1. TipoColas'
    <3>1. valor' \in [Semaforos -> Int]
      <4>1. semCPU[c] \in Semaforos => valor[semCPU[c]] + 1 \in Int
        BY DEF TipoColas
      <4>2. valor' = [valor EXCEPT ![semCPU[c]] = valor[semCPU[c]] + 1]
        BY <1>6 DEF signal
      <4>3. valor \in [Semaforos -> Int]
        BY DEF TipoColas
      <4> HIDE DEF TypeInv
      <4> QED
        BY <4>1, <4>2, <4>3, ExceptTipo
    <3>2. \A s \in Semaforos : cola[s] # <<>> => Tail(cola[s]) \in Seq(PID)
      BY HeadTailProperties DEF TipoColas
    <3>3. cola' \in [Semaforos -> Seq(PID)]
      <4>1. \/ cola' = cola
            \/ /\ cola' = [cola EXCEPT ![semCPU[c]] = Tail(cola[semCPU[c]])]
               /\ cola[semCPU[c]] # <<>>
        BY <1>6 DEF signal, Despierta
      <4> QED
        BY <3>2, <4>1, ExceptTipo DEF TipoColas
    <3>4. colaBlocked' \subseteq PID
      BY <1>6 DEF signal, TipoColas
    <3> QED
      BY <1>6, <3>1, <3>3, <3>4 DEF signal, TipoColas
  <2>2. TipoHilos'
    <3>1. pcb' \in [Hilos -> PID \cup {SinPid}]
      <4>1. pcb' = pcb \/ \E q \in colaBlocked : pcb' = [pcb EXCEPT ![SrvCPU] = q]
        BY <1>6 DEF signal
      <4>2. colaBlocked \subseteq PID
        BY DEF TipoColas
      <4> QED
        BY <4>1, <4>2, ExceptTipo DEF TipoHilos
    <3>2. paso' \in [Hilos -> Pasos] /\ vuelve' \in [Hilos -> Pasos]
      BY <1>6 DEF signal, TipoHilos, Pasos
    <3> QED
      BY <1>6, <3>1, <3>2 DEF signal, Atiende, TipoHilos
  <2>3. TipoCPUs'
    BY <1>6 DEF signal, Atiende, Despierta, TipoCPUs, TipoHilos, EstadosCPU
  <2>4. \A u \in Hilos \ {SrvCPU} : Lleva(u)'
    BY <1>6 DEF signal, Atiende, Despierta, TipoHilos, CadaUnoLleva, Lleva
  <2>5. Lleva(SrvCPU)'
    <3>1. paso'[SrvCPU] = "moverA_colaReadySinFinalizar" => pcb'[SrvCPU] \in PID
      <4>1. \/ paso' = [paso EXCEPT ![SrvCPU] = "RES_SIGNAL"]
            \/ paso' = [paso EXCEPT ![SrvCPU] = "enviar_a_cpu"]
            \/ \E q \in colaBlocked : pcb' = [pcb EXCEPT ![SrvCPU] = q]
        BY <1>6 DEF signal
      <4>2. colaBlocked \subseteq PID
        BY DEF TipoColas
      <4> QED
        BY <4>1, <4>2 DEF TipoHilos
    <3> QED
      BY <1>6, <3>1 DEF signal, TipoHilos, CadaUnoLleva, Lleva, ConPCB, ConPID, Regresos
  <2>6. \A d \in Cpus : (estado[d] \in ConProceso => ejecuta[d] \in PID)'
    BY <1>6 DEF signal, Atiende, Despierta, TipoCPUs, CadaUnoLleva, ConProceso
  <2> QED
    BY <2>1, <2>2, <2>3, <2>4, <2>5, <2>6 DEF CadaUnoLleva
<1> QED
  BY <1>1, <1>2, <1>3, <1>4, <1>5, <1>6 DEF PID

LEMMA TypeInv_SrvCPU_sigue ==
    ASSUME TypeInv, \/ retornarPCB_desconectar \/ retornarPCB_decidir \/ program_change_running
           \/ wait_encolar \/ wait_responder \/ signal_responder
    PROVE  TypeInv'
<1> USE ConstantesAssumption, ThreadFacts DEF TypeInv, TypeOK, PID, SinPid
<1>1. CASE retornarPCB_desconectar
  <2>1. TipoColas'
    BY <1>1
       DEF retornarPCB_desconectar, desconectarCPU, Enviar, Msg, Mensajes, matchCPU, Conectadas,
           TipoColas, TipoHilos, TipoCPUs, CadaUnoLleva, Lleva, ConPCB, ConPID, ConProceso,
           ExitCodes
  <2>2. TipoHilos'
    BY <1>1
       DEF retornarPCB_desconectar, desconectarCPU, Enviar, Msg, Mensajes, matchCPU, Conectadas,
           TipoColas, TipoHilos, TipoCPUs, CadaUnoLleva, Lleva, ConPCB, ConPID, ConProceso, Pasos,
           Regresos
  <2>3. TipoCPUs'
    <3>1. desconectarCPU(atendida)
      BY <1>1 DEF retornarPCB_desconectar
    <3>2. cpus' \in Seq(Cpus)
      BY <3>1, SinSeq DEF desconectarCPU, matchCPU, Conectadas, TipoCPUs
    <3>3. deKernel' \in [Cpus -> Seq(Mensajes)]
      BY <3>1, EnviarTipo, MsgTipo DEF desconectarCPU, TipoCPUs
    <3> QED
      BY <1>1, <3>2, <3>3 DEF retornarPCB_desconectar, TipoCPUs
  <2>4. \A u \in Hilos \ {SrvCPU} : Lleva(u)'
    BY <1>1
       DEF retornarPCB_desconectar, desconectarCPU, Enviar, Msg, Mensajes, matchCPU, Conectadas,
           TipoHilos, CadaUnoLleva, Lleva
  <2>5. Lleva(SrvCPU)'
    BY <1>1
       DEF retornarPCB_desconectar, desconectarCPU, Enviar, Msg, Mensajes, matchCPU, Conectadas,
           TipoColas, TipoHilos, TipoCPUs, CadaUnoLleva, Lleva, ConPCB, ConPID, ConProceso, Regresos
  <2>6. \A d \in Cpus : (estado[d] \in ConProceso => ejecuta[d] \in PID)'
    BY <1>1
       DEF retornarPCB_desconectar, desconectarCPU, Enviar, Msg, Mensajes, matchCPU, Conectadas,
           TipoCPUs, CadaUnoLleva, ConProceso
  <2> QED
    BY <2>1, <2>2, <2>3, <2>4, <2>5, <2>6 DEF CadaUnoLleva
<1>2. CASE retornarPCB_decidir
  <2>1. TipoColas'
    BY <1>2
       DEF retornarPCB_decidir, pedidaFin, TipoColas, TipoHilos, TipoCPUs, CadaUnoLleva, Lleva,
           ConPCB, ConPID, ConProceso, ExitCodes
  <2>2. TipoHilos'
    BY <1>2
       DEF retornarPCB_decidir, pedidaFin, TipoColas, TipoHilos, TipoCPUs, CadaUnoLleva, Lleva,
           ConPCB, ConPID, ConProceso, Pasos, Regresos
  <2>3. TipoCPUs'
    BY <1>2 DEF retornarPCB_decidir, pedidaFin, TipoCPUs, TipoHilos, EstadosCPU
  <2>4. \A u \in Hilos \ {SrvCPU} : Lleva(u)'
    BY <1>2 DEF retornarPCB_decidir, pedidaFin, TipoHilos, CadaUnoLleva, Lleva
  <2>5. Lleva(SrvCPU)'
    BY <1>2
       DEF retornarPCB_decidir, pedidaFin, TipoColas, TipoHilos, TipoCPUs, CadaUnoLleva, Lleva,
           ConPCB, ConPID, ConProceso, Regresos
  <2>6. \A d \in Cpus : (estado[d] \in ConProceso => ejecuta[d] \in PID)'
    BY <1>2 DEF retornarPCB_decidir, pedidaFin, TipoCPUs, CadaUnoLleva, ConProceso
  <2> QED
    BY <2>1, <2>2, <2>3, <2>4, <2>5, <2>6 DEF CadaUnoLleva
<1>3. CASE program_change_running
  <2>1. TipoColas'
    BY <1>3
       DEF program_change_running, TipoColas, TipoHilos, TipoCPUs, CadaUnoLleva, Lleva, ConPCB,
           ConPID, ConProceso, ExitCodes
  <2>2. TipoHilos'
    BY <1>3
       DEF program_change_running, TipoColas, TipoHilos, TipoCPUs, CadaUnoLleva, Lleva, ConPCB,
           ConPID, ConProceso, Pasos, Regresos
  <2>3. TipoCPUs'
    BY <1>3 DEF program_change_running, TipoCPUs, TipoHilos, EstadosCPU
  <2>4. \A u \in Hilos \ {SrvCPU} : Lleva(u)'
    BY <1>3 DEF program_change_running, TipoHilos, CadaUnoLleva, Lleva
  <2>5. Lleva(SrvCPU)'
    BY <1>3
       DEF program_change_running, TipoColas, TipoHilos, TipoCPUs, CadaUnoLleva, Lleva, ConPCB,
           ConPID, ConProceso, Regresos
  <2>6. \A d \in Cpus : (estado[d] \in ConProceso => ejecuta[d] \in PID)'
    BY <1>3 DEF program_change_running, TipoCPUs, CadaUnoLleva, ConProceso
  <2> QED
    BY <2>1, <2>2, <2>3, <2>4, <2>5, <2>6 DEF CadaUnoLleva
<1>4. CASE wait_encolar
  <2>1. TipoColas'
    <3>1. pid[SrvCPU] \in PID
      BY <1>4 DEF wait_encolar, CadaUnoLleva, Lleva, ConPID
    <3>2. \A s \in Semaforos : Append(cola[s], pid[SrvCPU]) \in Seq(PID)
      BY <3>1, AppendProperties DEF TipoColas
    <3>3. cola' \in [Semaforos -> Seq(PID)]
      BY <1>4, <3>2 DEF wait_encolar, TipoColas
    <3> QED
      BY <1>4, <3>3 DEF wait_encolar, TipoColas
  <2>2. TipoHilos'
    BY <1>4
       DEF wait_encolar, TipoColas, TipoHilos, TipoCPUs, CadaUnoLleva, Lleva, ConPCB, ConPID,
           ConProceso, Pasos, Regresos
  <2>3. TipoCPUs'
    BY <1>4 DEF wait_encolar, TipoCPUs, TipoHilos, EstadosCPU
  <2>4. \A u \in Hilos \ {SrvCPU} : Lleva(u)'
    BY <1>4 DEF wait_encolar, TipoHilos, CadaUnoLleva, Lleva
  <2>5. Lleva(SrvCPU)'
    BY <1>4
       DEF wait_encolar, TipoColas, TipoHilos, TipoCPUs, CadaUnoLleva, Lleva, ConPCB, ConPID,
           ConProceso, Regresos
  <2>6. \A d \in Cpus : (estado[d] \in ConProceso => ejecuta[d] \in PID)'
    BY <1>4 DEF wait_encolar, TipoCPUs, CadaUnoLleva, ConProceso
  <2> QED
    BY <2>1, <2>2, <2>3, <2>4, <2>5, <2>6 DEF CadaUnoLleva
<1>5. CASE wait_responder
  <2>1. TipoColas'
    BY <1>5
       DEF wait_responder, Enviar, Msg, Mensajes, TipoColas, TipoHilos, TipoCPUs, CadaUnoLleva,
           Lleva, ConPCB, ConPID, ConProceso, ExitCodes
  <2>2. TipoHilos'
    BY <1>5
       DEF wait_responder, Enviar, Msg, Mensajes, TipoColas, TipoHilos, TipoCPUs, CadaUnoLleva,
           Lleva, ConPCB, ConPID, ConProceso, Pasos, Regresos
  <2>3. TipoCPUs'
    <3>1. deKernel' \in [Cpus -> Seq(Mensajes)]
      BY <1>5, EnviarTipo, MsgTipo DEF wait_responder, TipoCPUs
    <3> QED
      BY <1>5, <3>1 DEF wait_responder, TipoCPUs
  <2>4. \A u \in Hilos \ {SrvCPU} : Lleva(u)'
    BY <1>5 DEF wait_responder, Enviar, Msg, Mensajes, TipoHilos, CadaUnoLleva, Lleva
  <2>5. Lleva(SrvCPU)'
    BY <1>5
       DEF wait_responder, Enviar, Msg, Mensajes, TipoColas, TipoHilos, TipoCPUs, CadaUnoLleva,
           Lleva, ConPCB, ConPID, ConProceso, Regresos
  <2>6. \A d \in Cpus : (estado[d] \in ConProceso => ejecuta[d] \in PID)'
    BY <1>5 DEF wait_responder, Enviar, Msg, Mensajes, TipoCPUs, CadaUnoLleva, ConProceso
  <2> QED
    BY <2>1, <2>2, <2>3, <2>4, <2>5, <2>6 DEF CadaUnoLleva
<1>6. CASE signal_responder
  <2>1. TipoColas'
    BY <1>6
       DEF signal_responder, Enviar, Msg, Mensajes, TipoColas, TipoHilos, TipoCPUs, CadaUnoLleva,
           Lleva, ConPCB, ConPID, ConProceso, ExitCodes
  <2>2. TipoHilos'
    BY <1>6
       DEF signal_responder, Enviar, Msg, Mensajes, TipoColas, TipoHilos, TipoCPUs, CadaUnoLleva,
           Lleva, ConPCB, ConPID, ConProceso, Pasos, Regresos
  <2>3. TipoCPUs'
    <3>1. deKernel' \in [Cpus -> Seq(Mensajes)]
      BY <1>6, EnviarTipo, MsgTipo DEF signal_responder, TipoCPUs
    <3> QED
      BY <1>6, <3>1 DEF signal_responder, TipoCPUs
  <2>4. \A u \in Hilos \ {SrvCPU} : Lleva(u)'
    BY <1>6 DEF signal_responder, Enviar, Msg, Mensajes, TipoHilos, CadaUnoLleva, Lleva
  <2>5. Lleva(SrvCPU)'
    BY <1>6
       DEF signal_responder, Enviar, Msg, Mensajes, TipoColas, TipoHilos, TipoCPUs, CadaUnoLleva,
           Lleva, ConPCB, ConPID, ConProceso, Regresos
  <2>6. \A d \in Cpus : (estado[d] \in ConProceso => ejecuta[d] \in PID)'
    BY <1>6 DEF signal_responder, Enviar, Msg, Mensajes, TipoCPUs, CadaUnoLleva, ConProceso
  <2> QED
    BY <2>1, <2>2, <2>3, <2>4, <2>5, <2>6 DEF CadaUnoLleva
<1> QED
  BY <1>1, <1>2, <1>3, <1>4, <1>5, <1>6 DEF PID

LEMMA TypeInv_CPU ==
    ASSUME TypeInv, NEW c \in Cpus,
           \/ PasoProcesoCPU(c) \/ conectarCPU(c) \/ signalHandler(c)
           \/ waitAnsisop(c) \/ signalAnsisop(c)
    PROVE  TypeInv'
<1> USE ConstantesAssumption, ThreadFacts DEF TypeInv, TypeOK, PID, SinPid
<1>1. CASE correrPCB(c)
  <2>1. TipoColas'
    BY <1>1
       DEF correrPCB, PasoCPU, Mensajes, TipoColas, TipoHilos, TipoCPUs, CadaUnoLleva, Lleva,
           ConPCB, ConPID, ConProceso, ExitCodes
  <2>2. TipoHilos'
    BY <1>1
       DEF correrPCB, PasoCPU, Mensajes, TipoColas, TipoHilos, TipoCPUs, CadaUnoLleva, Lleva,
           ConPCB, ConPID, ConProceso, Pasos, Regresos
  <2>3. TipoCPUs'
    BY <1>1, SMTT(30) DEF correrPCB, PasoCPU, Mensajes, TipoCPUs, TipoHilos, EstadosCPU
  <2>4. \A u \in Hilos \ {SrvCPU} : Lleva(u)'
    BY <1>1 DEF correrPCB, PasoCPU, Mensajes, TipoHilos, CadaUnoLleva, Lleva
  <2>5. Lleva(SrvCPU)'
    BY <1>1
       DEF correrPCB, PasoCPU, Mensajes, TipoColas, TipoHilos, TipoCPUs, CadaUnoLleva, Lleva,
           ConPCB, ConPID, ConProceso, Regresos
  <2>6. \A d \in Cpus : (estado[d] \in ConProceso => ejecuta[d] \in PID)'
    <3> DEFINE resto == IF deKernel[c][1].tipo = "NUEVO_QUANTUM_SLEEP" THEN Tail(deKernel[c])
                                                                   ELSE deKernel[c]
    <3>1. resto \in Seq(Mensajes)
      BY <1>1, HeadTailProperties DEF correrPCB, TipoCPUs
    <3>2. resto # <<>> /\ resto[1].tipo = "CORRER_PCB"
      BY <1>1 DEF correrPCB
    <3>3. resto[1] \in Mensajes
      BY <3>1, <3>2, ElementOfSeq
    <3>4. resto[1].pid \in PID
      BY <3>2, <3>3 DEF Mensajes
    <3>5. ejecuta' = [ejecuta EXCEPT ![c] = resto[1].pid]
      BY <1>1 DEF correrPCB
    <3>6. \A d \in Cpus \ {c} : estado'[d] = estado[d] /\ ejecuta'[d] = ejecuta[d]
      BY <1>1 DEF correrPCB, PasoCPU, TipoCPUs
    <3> QED
      BY <3>4, <3>5, <3>6 DEF TipoCPUs, CadaUnoLleva
  <2> QED
    BY <2>1, <2>2, <2>3, <2>4, <2>5, <2>6 DEF CadaUnoLleva
<1>2. CASE finishCPU_cpu(c)
  <2>1. TipoColas'
    BY <1>2
       DEF finishCPU_cpu, PasoCPU, Mensajes, TipoColas, TipoHilos, TipoCPUs, CadaUnoLleva, Lleva,
           ConPCB, ConPID, ConProceso, ExitCodes
  <2>2. TipoHilos'
    BY <1>2
       DEF finishCPU_cpu, PasoCPU, Mensajes, TipoColas, TipoHilos, TipoCPUs, CadaUnoLleva, Lleva,
           ConPCB, ConPID, ConProceso, Pasos, Regresos
  <2>3. TipoCPUs'
    BY <1>2 DEF finishCPU_cpu, PasoCPU, Mensajes, TipoCPUs, TipoHilos, EstadosCPU
  <2>4. \A u \in Hilos \ {SrvCPU} : Lleva(u)'
    BY <1>2 DEF finishCPU_cpu, PasoCPU, Mensajes, TipoHilos, CadaUnoLleva, Lleva
  <2>5. Lleva(SrvCPU)'
    BY <1>2
       DEF finishCPU_cpu, PasoCPU, Mensajes, TipoColas, TipoHilos, TipoCPUs, CadaUnoLleva, Lleva,
           ConPCB, ConPID, ConProceso, Regresos
  <2>6. \A d \in Cpus : (estado[d] \in ConProceso => ejecuta[d] \in PID)'
    BY <1>2 DEF finishCPU_cpu, PasoCPU, Mensajes, TipoCPUs, CadaUnoLleva, ConProceso
  <2> QED
    BY <2>1, <2>2, <2>3, <2>4, <2>5, <2>6 DEF CadaUnoLleva
<1>3. CASE recibirRespuesta(c)
  <2>1. TipoColas'
    BY <1>3
       DEF recibirRespuesta, PasoCPU, Mensajes, TipoColas, TipoHilos, TipoCPUs, CadaUnoLleva, Lleva,
           ConPCB, ConPID, ConProceso, ExitCodes
  <2>2. TipoHilos'
    BY <1>3
       DEF recibirRespuesta, PasoCPU, Mensajes, TipoColas, TipoHilos, TipoCPUs, CadaUnoLleva, Lleva,
           ConPCB, ConPID, ConProceso, Pasos, Regresos
  <2>3. TipoCPUs'
    <3>1. \E e \in {"libre", "corre"} : estado' = [estado EXCEPT ![c] = e]
      BY <1>3 DEF recibirRespuesta, PasoCPU
    <3>2. estado' \in [Cpus -> EstadosCPU]
      BY <3>1 DEF TipoCPUs, EstadosCPU
    <3>3. deKernel[c] \in Seq(Mensajes) /\ deKernel[c] # <<>>
      BY <1>3 DEF recibirRespuesta, TipoCPUs
    <3>4. Tail(deKernel[c]) \in Seq(Mensajes)
      BY <3>3, HeadTailProperties
    <3>5. deKernel' = [deKernel EXCEPT ![c] = Tail(deKernel[c])]
      BY <1>3 DEF recibirRespuesta
    <3>6. deKernel' \in [Cpus -> Seq(Mensajes)]
      BY <3>4, <3>5 DEF TipoCPUs
    <3> QED
      BY <1>3, <3>2, <3>6 DEF recibirRespuesta, TipoCPUs
  <2>4. \A u \in Hilos \ {SrvCPU} : Lleva(u)'
    BY <1>3 DEF recibirRespuesta, PasoCPU, Mensajes, TipoHilos, CadaUnoLleva, Lleva
  <2>5. Lleva(SrvCPU)'
    BY <1>3
       DEF recibirRespuesta, PasoCPU, Mensajes, TipoColas, TipoHilos, TipoCPUs, CadaUnoLleva, Lleva,
           ConPCB, ConPID, ConProceso, Regresos
  <2>6. \A d \in Cpus : (estado[d] \in ConProceso => ejecuta[d] \in PID)'
    BY <1>3 DEF recibirRespuesta, PasoCPU, Mensajes, TipoCPUs, CadaUnoLleva, ConProceso
  <2> QED
    BY <2>1, <2>2, <2>3, <2>4, <2>5, <2>6 DEF CadaUnoLleva
<1>4. CASE ejecutarPrograma(c)
  <2>1. TipoColas'
    BY <1>4
       DEF ejecutarPrograma, PasoCPU, Mensajes, TipoColas, TipoHilos, TipoCPUs, CadaUnoLleva, Lleva,
           ConPCB, ConPID, ConProceso, ExitCodes
  <2>2. TipoHilos'
    BY <1>4
       DEF ejecutarPrograma, PasoCPU, Mensajes, TipoColas, TipoHilos, TipoCPUs, CadaUnoLleva, Lleva,
           ConPCB, ConPID, ConProceso, Pasos, Regresos
  <2>3. TipoCPUs'
    BY <1>4, ZenonT(60) DEF ejecutarPrograma, PasoCPU, Mensajes, TipoCPUs, TipoHilos, EstadosCPU
  <2>4. \A u \in Hilos \ {SrvCPU} : Lleva(u)'
    BY <1>4 DEF ejecutarPrograma, PasoCPU, Mensajes, TipoHilos, CadaUnoLleva, Lleva
  <2>5. Lleva(SrvCPU)'
    BY <1>4
       DEF ejecutarPrograma, PasoCPU, Mensajes, TipoColas, TipoHilos, TipoCPUs, CadaUnoLleva, Lleva,
           ConPCB, ConPID, ConProceso, Regresos
  <2>6. \A d \in Cpus : (estado[d] \in ConProceso => ejecuta[d] \in PID)'
    BY <1>4 DEF ejecutarPrograma, PasoCPU, Mensajes, TipoCPUs, CadaUnoLleva, ConProceso
  <2> QED
    BY <2>1, <2>2, <2>3, <2>4, <2>5, <2>6 DEF CadaUnoLleva
<1>5. CASE conectarCPU(c)
  <2>1. TipoColas'
    BY <1>5
       DEF conectarCPU, PasoCPU, Mensajes, TipoColas, TipoHilos, TipoCPUs, CadaUnoLleva, Lleva,
           ConPCB, ConPID, ConProceso, ExitCodes
  <2>2. TipoHilos'
    BY <1>5
       DEF conectarCPU, PasoCPU, Mensajes, TipoColas, TipoHilos, TipoCPUs, CadaUnoLleva, Lleva,
           ConPCB, ConPID, ConProceso, Pasos, Regresos
  <2>3. TipoCPUs'
    BY <1>5 DEF conectarCPU, PasoCPU, Mensajes, TipoCPUs, TipoHilos, EstadosCPU
  <2>4. \A u \in Hilos \ {SrvCPU} : Lleva(u)'
    BY <1>5 DEF conectarCPU, PasoCPU, Mensajes, TipoHilos, CadaUnoLleva, Lleva
  <2>5. Lleva(SrvCPU)'
    BY <1>5
       DEF conectarCPU, PasoCPU, Mensajes, TipoColas, TipoHilos, TipoCPUs, CadaUnoLleva, Lleva,
           ConPCB, ConPID, ConProceso, Regresos
  <2>6. \A d \in Cpus : (estado[d] \in ConProceso => ejecuta[d] \in PID)'
    BY <1>5 DEF conectarCPU, PasoCPU, Mensajes, TipoCPUs, CadaUnoLleva, ConProceso
  <2> QED
    BY <2>1, <2>2, <2>3, <2>4, <2>5, <2>6 DEF CadaUnoLleva
<1>6. CASE signalHandler(c)
  <2>1. TipoColas'
    BY <1>6
       DEF signalHandler, PasoCPU, Mensajes, TipoColas, TipoHilos, TipoCPUs, CadaUnoLleva, Lleva,
           ConPCB, ConPID, ConProceso, ExitCodes
  <2>2. TipoHilos'
    BY <1>6
       DEF signalHandler, PasoCPU, Mensajes, TipoColas, TipoHilos, TipoCPUs, CadaUnoLleva, Lleva,
           ConPCB, ConPID, ConProceso, Pasos, Regresos
  <2>3. TipoCPUs'
    BY <1>6 DEF signalHandler, PasoCPU, Mensajes, TipoCPUs, TipoHilos, EstadosCPU
  <2>4. \A u \in Hilos \ {SrvCPU} : Lleva(u)'
    BY <1>6 DEF signalHandler, PasoCPU, Mensajes, TipoHilos, CadaUnoLleva, Lleva
  <2>5. Lleva(SrvCPU)'
    BY <1>6
       DEF signalHandler, PasoCPU, Mensajes, TipoColas, TipoHilos, TipoCPUs, CadaUnoLleva, Lleva,
           ConPCB, ConPID, ConProceso, Regresos
  <2>6. \A d \in Cpus : (estado[d] \in ConProceso => ejecuta[d] \in PID)'
    BY <1>6 DEF signalHandler, PasoCPU, Mensajes, TipoCPUs, CadaUnoLleva, ConProceso
  <2> QED
    BY <2>1, <2>2, <2>3, <2>4, <2>5, <2>6 DEF CadaUnoLleva
<1>7. CASE waitAnsisop(c)
  <2>1. TipoColas'
    BY <1>7
       DEF waitAnsisop, PasoCPU, Mensajes, TipoColas, TipoHilos, TipoCPUs, CadaUnoLleva, Lleva,
           ConPCB, ConPID, ConProceso, ExitCodes
  <2>2. TipoHilos'
    BY <1>7
       DEF waitAnsisop, PasoCPU, Mensajes, TipoColas, TipoHilos, TipoCPUs, CadaUnoLleva, Lleva,
           ConPCB, ConPID, ConProceso, Pasos, Regresos
  <2>3. TipoCPUs'
    BY <1>7 DEF waitAnsisop, PasoCPU, Mensajes, TipoCPUs, TipoHilos, EstadosCPU
  <2>4. \A u \in Hilos \ {SrvCPU} : Lleva(u)'
    BY <1>7 DEF waitAnsisop, PasoCPU, Mensajes, TipoHilos, CadaUnoLleva, Lleva
  <2>5. Lleva(SrvCPU)'
    BY <1>7
       DEF waitAnsisop, PasoCPU, Mensajes, TipoColas, TipoHilos, TipoCPUs, CadaUnoLleva, Lleva,
           ConPCB, ConPID, ConProceso, Regresos
  <2>6. \A d \in Cpus : (estado[d] \in ConProceso => ejecuta[d] \in PID)'
    BY <1>7 DEF waitAnsisop, PasoCPU, Mensajes, TipoCPUs, CadaUnoLleva, ConProceso
  <2> QED
    BY <2>1, <2>2, <2>3, <2>4, <2>5, <2>6 DEF CadaUnoLleva
<1>8. CASE signalAnsisop(c)
  <2>1. TipoColas'
    BY <1>8
       DEF signalAnsisop, PasoCPU, Mensajes, TipoColas, TipoHilos, TipoCPUs, CadaUnoLleva, Lleva,
           ConPCB, ConPID, ConProceso, ExitCodes
  <2>2. TipoHilos'
    BY <1>8
       DEF signalAnsisop, PasoCPU, Mensajes, TipoColas, TipoHilos, TipoCPUs, CadaUnoLleva, Lleva,
           ConPCB, ConPID, ConProceso, Pasos, Regresos
  <2>3. TipoCPUs'
    BY <1>8 DEF signalAnsisop, PasoCPU, Mensajes, TipoCPUs, TipoHilos, EstadosCPU
  <2>4. \A u \in Hilos \ {SrvCPU} : Lleva(u)'
    BY <1>8 DEF signalAnsisop, PasoCPU, Mensajes, TipoHilos, CadaUnoLleva, Lleva
  <2>5. Lleva(SrvCPU)'
    BY <1>8
       DEF signalAnsisop, PasoCPU, Mensajes, TipoColas, TipoHilos, TipoCPUs, CadaUnoLleva, Lleva,
           ConPCB, ConPID, ConProceso, Regresos
  <2>6. \A d \in Cpus : (estado[d] \in ConProceso => ejecuta[d] \in PID)'
    BY <1>8 DEF signalAnsisop, PasoCPU, Mensajes, TipoCPUs, CadaUnoLleva, ConProceso
  <2> QED
    BY <2>1, <2>2, <2>3, <2>4, <2>5, <2>6 DEF CadaUnoLleva
<1> QED
  BY <1>1, <1>2, <1>3, <1>4, <1>5, <1>6, <1>7, <1>8 DEF PasoProcesoCPU

LEMMA TypeInv_Consola ==
    ASSUME TypeInv,
           \/ \E c \in Consolas : nuevoPrograma(c) \/ desconexionConsola(c)
           \/ \E p \in PID : finalizarProgramaConsola(p) \/ end(p)
    PROVE  TypeInv'
<1> USE ConstantesAssumption, ThreadFacts DEF TypeInv, TypeOK, PID, SinPid
<1>1. CASE \E c \in Consolas : nuevoPrograma(c)
  <2>1. PICK c \in Consolas : nuevoPrograma(c)
    BY <1>1
  <2>2. ultimoPID \in PID /\ Programa(ultimoPID) \in Hilos
    BY <2>1 DEF nuevoPrograma, TipoColas
  <2>3. TipoColas'
    <3>1. ultimoPID' \in 0 .. MaxProgramas /\ consola' \in [PID -> Consolas]
      BY <2>1 DEF nuevoPrograma, TipoColas
    <3> QED
      BY <2>1, <3>1 DEF nuevoPrograma, TipoColas
  <2>4. TipoHilos'
    BY <2>1, <2>2 DEF nuevoPrograma, TipoHilos, Pasos
  <2>5. TipoCPUs'
    BY <2>1 DEF nuevoPrograma, TipoCPUs
  <2>6. CadaUnoLleva'
    <3>0. PICK p \in PID : p = ultimoPID
      BY <2>2
    <3>1. \A u \in Hilos \ {Programa(p)} : Lleva(u)'
      BY <2>1, <3>0 DEF nuevoPrograma, TipoHilos, CadaUnoLleva, Lleva
    <3>2. Lleva(Programa(p))'
      <4>1. /\ paso'[Programa(p)] = "cargar_programa"
            /\ pcb'[Programa(p)] = p /\ pid'[Programa(p)] = p
            /\ vuelve'[Programa(p)] = vuelve[Programa(p)]
        BY <2>1, <2>2, <3>0 DEF nuevoPrograma, TipoHilos
      <4> QED
        BY <2>2, <3>0, <4>1 DEF CadaUnoLleva, Lleva
    <3> QED
      BY <2>1, <3>1, <3>2 DEF nuevoPrograma, CadaUnoLleva
  <2> QED
    BY <2>3, <2>4, <2>5, <2>6
<1>2. CASE \E c \in Consolas : desconexionConsola(c)
  <2>1. PICK c \in Consolas : desconexionConsola(c)
    BY <1>2
  <2>2. \A t \in Hilos : paso'[t] \in {paso[t], "finalizarProceso"}
    BY <2>1 DEF desconexionConsola
  <2>3. TipoColas'
    BY <2>1 DEF desconexionConsola, TipoColas
  <2>4. TipoHilos'
    BY <2>1 DEF desconexionConsola, TipoHilos, Pasos
  <2>5. TipoCPUs'
    BY <2>1 DEF desconexionConsola, TipoCPUs
  <2>6. CadaUnoLleva'
    BY <2>1, <2>2 DEF desconexionConsola, CadaUnoLleva, Lleva, ConPCB, ConPID
  <2> QED
    BY <2>3, <2>4, <2>5, <2>6
<1>3. CASE \E p \in PID : finalizarProgramaConsola(p) \/ end(p)
  <2>1. PICK p \in PID : finalizarProgramaConsola(p)
    BY <1>3 DEF end
  <2>2. FinEnd(p) \in Hilos
    OBVIOUS
  <2>3. TipoColas'
    <3>1. pedidosEnd[p] + 1 \in Nat
      BY DEF TipoColas
    <3>2. pedidosEnd' \in [PID -> Nat]
      BY <2>1, <3>1 DEF finalizarProgramaConsola, TipoColas
    <3> QED
      BY <2>1, <3>2 DEF finalizarProgramaConsola, TipoColas
  <2>4. TipoHilos'
    BY <2>1 DEF finalizarProgramaConsola, LanzarFinalizador, TipoHilos, Pasos
  <2>5. TipoCPUs'
    BY <2>1 DEF finalizarProgramaConsola, TipoCPUs
  <2>6. CadaUnoLleva'
    <3>1. \A u \in Hilos \ {FinEnd(p)} : Lleva(u)'
      BY <2>1 DEF finalizarProgramaConsola, LanzarFinalizador, TipoHilos, CadaUnoLleva, Lleva
    <3>2. Lleva(FinEnd(p))'
      BY <2>1, <2>2
         DEF finalizarProgramaConsola, LanzarFinalizador, TipoHilos, CadaUnoLleva, Lleva, ConPCB,
             ConPID
    <3> QED
      BY <2>1, <3>1, <3>2 DEF finalizarProgramaConsola, CadaUnoLleva
  <2> QED
    BY <2>3, <2>4, <2>5, <2>6
<1> QED
  BY <1>1, <1>2, <1>3

LEMMA TypeInv_Init == Init => TypeInv
<1> SUFFICES ASSUME Init PROVE TypeInv
  OBVIOUS
<1> USE ConstantesAssumption, ThreadFacts DEF Init, PID, SinPid
<1>1. TipoColas
  <2>1. /\ \A s \in Semaforos : <<>> \in Seq(PID)
        /\ (CHOOSE c \in Consolas : TRUE) \in Consolas
    OBVIOUS
  <2> QED
    BY <2>1 DEF TipoColas, ExitCodes
<1>2. TipoHilos
  BY DEF TipoHilos, Pasos
<1>3. TipoCPUs
  <2>1. <<>> \in Seq(Cpus) /\ <<>> \in Seq(Mensajes)
    OBVIOUS
  <2> QED
    BY <2>1 DEF TipoCPUs, EstadosCPU
<1>4. CadaUnoLleva
  BY DEF CadaUnoLleva, Lleva, ConPCB, ConPID, Regresos, ConProceso
<1> QED
  BY <1>1, <1>2, <1>3, <1>4 DEF TypeInv, TypeOK

LEMMA TypeInv_Next == TypeInv /\ [Next]_vars => TypeInv'
<1> SUFFICES ASSUME TypeInv, [Next]_vars PROVE TypeInv'
  OBVIOUS
<1>1. CASE Next
  BY <1>1, TypeInv_PasoHilo, TypeInv_PasoFinalizador, TypeInv_SrvCPU, TypeInv_SrvCPU_sigue,
     TypeInv_CPU, TypeInv_Consola
     DEF Next, Nucleo, SigueSrvCPU, ManejaPCB, ManejaOtro
<1>2. CASE UNCHANGED vars
  BY <1>2 DEF vars, TypeInv, TypeOK, TipoColas, TipoHilos, TipoCPUs, CadaUnoLleva, Lleva
<1> QED
  BY <1>1, <1>2

(* Type correctness of the scheduler (TypeOK), whatever the number of      *)
(* programs, CPUs, consoles and semaphores.                                *)
THEOREM TypeCorrect == Spec => []TypeOK
<1>1. TypeInv => TypeOK
  BY DEF TypeInv
<1> QED
  BY <1>1, TypeInv_Init, TypeInv_Next, PTL DEF Spec

-----------------------------------------------------------------------------
(* The circular waits.  Duenos says at which steps a mutex is held; the    *)
(* rest is what keeps a thread that owns one from being started again.     *)

PasosFin == {"nada", "finalizarProceso", "sacarDe_colaReady", "exit", "FINZ_PROGM", "END_PRGM"}

Duenos ==
    /\ mutexReady # Nadie => /\ mutexReady \notin Finalizadores
                             /\ paso[mutexReady] \in {"exit", "FINZ_PROGM", "END_PRGM"}
    /\ mutexCPU # Nadie => paso[mutexCPU] \in {"sacarCualquieraDeReady", "relacionar"}
    /\ mutexProgramas # Nadie =>
          /\ mutexProgramas \in Finalizadores
          /\ paso[mutexProgramas] \in {"sacarDe_colaReady", "exit", "FINZ_PROGM", "END_PRGM"}

DeFinalizadores == \A t \in Finalizadores : paso[t] \in PasosFin /\ vuelve[t] = "nada"

SinEmpezar ==
    /\ \A p \in PID : p >= ultimoPID => paso[Programa(p)] = "nada"
    /\ \A t \in Hilos : paso[t] = "cargar_programa" => pid[t] < ultimoPID
    /\ \A p \in programas : p < ultimoPID
    /\ \A p \in PID : paso[FinDesconexion(p)] # "nada" =>
                          p < ultimoPID /\ consola[p] \notin conectadas

MutexInv == TypeInv /\ Duenos /\ DeFinalizadores /\ SinEmpezar

(* Every thread is of one kind, and nobody is a thread. *)
LEMMA HilosDistintos ==
    /\ Nadie \notin Hilos /\ SrvCPU \notin Finalizadores
    /\ \A p \in PID : /\ Programa(p) \notin Finalizadores /\ Programa(p) # SrvCPU
                      /\ \A q \in PID : FinEnd(p) # FinDesconexion(q)
    /\ \A p, q \in PID : p # q => /\ Programa(p) # Programa(q)
                                  /\ FinDesconexion(p) # FinDesconexion(q)
BY DEF Nadie, Hilos, Finalizadores, SrvCPU, Programa, FinEnd, FinDesconexion


LEMMA MutexInv_PasoHilo ==
    ASSUME MutexInv, NEW t \in Hilos, PasoHilo(t)
    PROVE  (Duenos /\ DeFinalizadores /\ SinEmpezar)'
<1> USE ThreadFacts, HilosDistintos DEF MutexInv, TypeInv, TypeOK
<1>1. CASE cargar_programa(t)
  <2>1. Duenos'
    BY <1>1 DEF cargar_programa, TipoHilos, Duenos, DeFinalizadores
  <2>2. DeFinalizadores'
    BY <1>1 DEF cargar_programa, TipoHilos, DeFinalizadores, PasosFin
  <2>3. SinEmpezar'
    BY <1>1 DEF cargar_programa, TipoHilos, SinEmpezar
  <2> QED
    BY <2>1, <2>2, <2>3
<1>2. CASE moverA_colaNew(t)
  <2>1. Duenos'
    BY <1>2 DEF moverA_colaNew, TipoHilos, Duenos, DeFinalizadores
  <2>2. DeFinalizadores'
    BY <1>2 DEF moverA_colaNew, TipoHilos, DeFinalizadores, PasosFin
  <2>3. SinEmpezar'
    BY <1>2 DEF moverA_colaNew, TipoHilos, SinEmpezar
  <2> QED
    BY <2>1, <2>2, <2>3
<1>3. CASE sem_wait(t)
  <2>1. Duenos'
    BY <1>3 DEF sem_wait, TipoHilos, Duenos, DeFinalizadores
  <2>2. DeFinalizadores'
    BY <1>3 DEF sem_wait, TipoHilos, DeFinalizadores, PasosFin
  <2>3. SinEmpezar'
    BY <1>3 DEF sem_wait, TipoHilos, SinEmpezar
  <2> QED
    BY <2>1, <2>2, <2>3
<1>4. CASE inicializar_programa(t)
  <2>1. Duenos'
    BY <1>4 DEF inicializar_programa, TipoHilos, Duenos, DeFinalizadores
  <2>2. DeFinalizadores'
    BY <1>4 DEF inicializar_programa, TipoHilos, DeFinalizadores, PasosFin
  <2>3. SinEmpezar'
    BY <1>4 DEF inicializar_programa, TipoHilos, SinEmpezar
  <2> QED
    BY <2>1, <2>2, <2>3
<1>5. CASE moverA_colaReady(t)
  <2>1. Duenos'
    BY <1>5 DEF moverA_colaReady, TipoHilos, Duenos, DeFinalizadores, PasosFin
  <2>2. DeFinalizadores'
    BY <1>5 DEF moverA_colaReady, TipoHilos, DeFinalizadores, PasosFin
  <2>3. SinEmpezar'
    <3>1. vuelve[t] # "cargar_programa"
      BY DEF CadaUnoLleva, Lleva, Regresos
    <3> QED
      BY <1>5, <3>1 DEF moverA_colaReady, TipoHilos, SinEmpezar
  <2> QED
    BY <2>1, <2>2, <2>3
<1>6. CASE moverA_colaExit(t)
  <2>1. Duenos'
    BY <1>6 DEF moverA_colaExit, TipoHilos, Duenos, DeFinalizadores
  <2>2. DeFinalizadores'
    BY <1>6 DEF moverA_colaExit, TipoHilos, DeFinalizadores, PasosFin
  <2>3. SinEmpezar'
    BY <1>6 DEF moverA_colaExit, TipoHilos, SinEmpezar
  <2> QED
    BY <2>1, <2>2, <2>3
<1>7. CASE finalizarProcesoMemoria(t)
  <2>1. Duenos'
    BY <1>7 DEF finalizarProcesoMemoria, TipoHilos, Duenos, DeFinalizadores
  <2>2. DeFinalizadores'
    BY <1>7 DEF finalizarProcesoMemoria, TipoHilos, DeFinalizadores, PasosFin
  <2>3. SinEmpezar'
    BY <1>7 DEF finalizarProcesoMemoria, TipoHilos, SinEmpezar
  <2> QED
    BY <2>1, <2>2, <2>3
<1>8. CASE finishProcess(t)
  <2>1. Duenos'
    BY <1>8 DEF finishProcess, eliminarConsolaPorPID, TipoHilos, Duenos, DeFinalizadores
  <2>2. DeFinalizadores'
    BY <1>8 DEF finishProcess, eliminarConsolaPorPID, TipoHilos, DeFinalizadores, PasosFin
  <2>3. SinEmpezar'
    <3>1. vuelve[t] # "cargar_programa"
      BY DEF CadaUnoLleva, Lleva, Regresos
    <3> QED
      BY <1>8, <3>1 DEF finishProcess, eliminarConsolaPorPID, TipoHilos, SinEmpezar
  <2> QED
    BY <2>1, <2>2, <2>3
<1>9. CASE enviar_a_cpu(t)
  <2>1. Duenos'
    BY <1>9 DEF enviar_a_cpu, Final, TipoHilos, Duenos, DeFinalizadores
  <2>2. DeFinalizadores'
    BY <1>9 DEF enviar_a_cpu, Final, TipoHilos, DeFinalizadores, PasosFin
  <2>3. SinEmpezar'
    BY <1>9 DEF enviar_a_cpu, Final, TipoHilos, SinEmpezar
  <2> QED
    BY <2>1, <2>2, <2>3
<1>10. CASE sacarCualquieraDeReady(t)
  <2>1. Duenos'
    BY <1>10
       DEF sacarCualquieraDeReady, suelta_colaReadyMutex, Final, TipoHilos, Duenos, DeFinalizadores
  <2>2. DeFinalizadores'
    BY <1>10
       DEF sacarCualquieraDeReady, suelta_colaReadyMutex, Final, TipoHilos, DeFinalizadores,
           PasosFin
  <2>3. SinEmpezar'
    BY <1>10 DEF sacarCualquieraDeReady, suelta_colaReadyMutex, Final, TipoHilos, SinEmpezar
  <2> QED
    BY <2>1, <2>2, <2>3
<1>11. CASE relacionar(t)
  <2>1. Duenos'
    BY <1>11 DEF relacionar, Final, TipoHilos, Duenos, DeFinalizadores
  <2>2. DeFinalizadores'
    BY <1>11 DEF relacionar, Final, TipoHilos, DeFinalizadores, PasosFin
  <2>3. SinEmpezar'
    BY <1>11 DEF relacionar, Final, TipoHilos, SinEmpezar
  <2> QED
    BY <2>1, <2>2, <2>3
<1>12. CASE correr_pcb(t)
  <2>1. Duenos'
    BY <1>12 DEF correr_pcb, Final, TipoHilos, Duenos, DeFinalizadores
  <2>2. DeFinalizadores'
    BY <1>12 DEF correr_pcb, Final, TipoHilos, DeFinalizadores, PasosFin
  <2>3. SinEmpezar'
    BY <1>12 DEF correr_pcb, Final, TipoHilos, SinEmpezar
  <2> QED
    BY <2>1, <2>2, <2>3
<1> QED
  BY <1>1, <1>2, <1>3, <1>4, <1>5, <1>6, <1>7, <1>8, <1>9, <1>10, <1>11, <1>12 DEF PasoHilo

LEMMA MutexInv_PasoFinalizador ==
    ASSUME MutexInv, NEW t \in Finalizadores, PasoFinalizador(t)
    PROVE  (Duenos /\ DeFinalizadores /\ SinEmpezar)'
<1> USE ThreadFacts, HilosDistintos DEF MutexInv, TypeInv, TypeOK
<1>1. CASE finalizarProceso(t)
  <2>1. Duenos'
    BY <1>1 DEF finalizarProceso, TipoHilos, Duenos, DeFinalizadores
  <2>2. DeFinalizadores'
    BY <1>1 DEF finalizarProceso, TipoHilos, DeFinalizadores, PasosFin
  <2>3. SinEmpezar'
    BY <1>1 DEF finalizarProceso, TipoHilos, SinEmpezar
  <2> QED
    BY <2>1, <2>2, <2>3
<1>2. CASE sacarDe_colaReady(t)
  <2>1. Duenos'
    BY <1>2 DEF sacarDe_colaReady, TipoHilos, Duenos, DeFinalizadores
  <2>2. DeFinalizadores'
    BY <1>2 DEF sacarDe_colaReady, TipoHilos, DeFinalizadores, PasosFin
  <2>3. SinEmpezar'
    BY <1>2 DEF sacarDe_colaReady, TipoHilos, SinEmpezar
  <2> QED
    BY <2>1, <2>2, <2>3
<1> QED
  BY <1>1, <1>2 DEF PasoFinalizador

LEMMA MutexInv_SrvCPU ==
    ASSUME MutexInv, NEW c \in Cpus,
           \/ nuevaConexionCPU(c) \/ finishCPU(c) \/ retornarPCB(c)
           \/ wait_ok(c) \/ wait_bloquea(c) \/ signal(c)
    PROVE  (Duenos /\ DeFinalizadores /\ SinEmpezar)'
<1> USE ThreadFacts, HilosDistintos DEF MutexInv, TypeInv, TypeOK
<1>1. CASE nuevaConexionCPU(c)
  <2>1. Duenos'
    BY <1>1 DEF nuevaConexionCPU, cargarCPU, Atiende, TipoHilos, Duenos, DeFinalizadores
  <2>2. DeFinalizadores'
    BY <1>1 DEF nuevaConexionCPU, cargarCPU, Atiende, TipoHilos, DeFinalizadores, PasosFin
  <2>3. SinEmpezar'
    BY <1>1 DEF nuevaConexionCPU, cargarCPU, Atiende, TipoHilos, SinEmpezar
  <2> QED
    BY <2>1, <2>2, <2>3
<1>2. CASE finishCPU(c)
  <2>1. Duenos'
    BY <1>2 DEF finishCPU, Atiende, TipoHilos, Duenos, DeFinalizadores
  <2>2. DeFinalizadores'
    BY <1>2 DEF finishCPU, Atiende, TipoHilos, DeFinalizadores, PasosFin
  <2>3. SinEmpezar'
    BY <1>2 DEF finishCPU, Atiende, TipoHilos, SinEmpezar
  <2> QED
    BY <2>1, <2>2, <2>3
<1>3. CASE retornarPCB(c)
  <2>1. Duenos'
    BY <1>3 DEF retornarPCB, Atiende, TipoHilos, Duenos, DeFinalizadores
  <2>2. DeFinalizadores'
    BY <1>3 DEF retornarPCB, Atiende, TipoHilos, DeFinalizadores, PasosFin
  <2>3. SinEmpezar'
    BY <1>3 DEF retornarPCB, Atiende, TipoHilos, SinEmpezar
  <2> QED
    BY <2>1, <2>2, <2>3
<1>4. CASE wait_ok(c)
  <2>1. Duenos'
    BY <1>4 DEF wait_ok, Atiende, TipoHilos, Duenos, DeFinalizadores
  <2>2. DeFinalizadores'
    BY <1>4 DEF wait_ok, Atiende, TipoHilos, DeFinalizadores, PasosFin
  <2>3. SinEmpezar'
    BY <1>4 DEF wait_ok, Atiende, TipoHilos, SinEmpezar
  <2> QED
    BY <2>1, <2>2, <2>3
<1>5. CASE wait_bloquea(c)
  <2>1. Duenos'
    BY <1>5 DEF wait_bloquea, Atiende, TipoHilos, Duenos, DeFinalizadores
  <2>2. DeFinalizadores'
    BY <1>5 DEF wait_bloquea, Atiende, TipoHilos, DeFinalizadores, PasosFin
  <2>3. SinEmpezar'
    BY <1>5 DEF wait_bloquea, Atiende, TipoHilos, SinEmpezar
  <2> QED
    BY <2>1, <2>2, <2>3
<1>6. CASE signal(c)
  <2>1. Duenos'
    BY <1>6 DEF signal, Atiende, TipoHilos, Duenos, DeFinalizadores
  <2>2. DeFinalizadores'
    BY <1>6 DEF signal, Atiende, TipoHilos, DeFinalizadores, PasosFin
  <2>3. SinEmpezar'
    BY <1>6 DEF signal, Atiende, TipoHilos, SinEmpezar
  <2> QED
    BY <2>1, <2>2, <2>3
<1> QED
  BY <1>1, <1>2, <1>3, <1>4, <1>5, <1>6 DEF PID

LEMMA MutexInv_SrvCPU_sigue ==
    ASSUME MutexInv, \/ retornarPCB_desconectar \/ retornarPCB_decidir \/ program_change_running
           \/ wait_encolar \/ wait_responder \/ signal_responder
    PROVE  (Duenos /\ DeFinalizadores /\ SinEmpezar)'
<1> USE ThreadFacts, HilosDistintos DEF MutexInv, TypeInv, TypeOK
<1>1. CASE retornarPCB_desconectar
  <2>1. Duenos'
    BY <1>1 DEF retornarPCB_desconectar, TipoHilos, Duenos, DeFinalizadores
  <2>2. DeFinalizadores'
    BY <1>1 DEF retornarPCB_desconectar, TipoHilos, DeFinalizadores, PasosFin
  <2>3. SinEmpezar'
    BY <1>1 DEF retornarPCB_desconectar, TipoHilos, SinEmpezar
  <2> QED
    BY <2>1, <2>2, <2>3
<1>2. CASE retornarPCB_decidir
  <2>1. Duenos'
    BY <1>2 DEF retornarPCB_decidir, TipoHilos, Duenos, DeFinalizadores
  <2>2. DeFinalizadores'
    BY <1>2 DEF retornarPCB_decidir, TipoHilos, DeFinalizadores, PasosFin
  <2>3. SinEmpezar'
    BY <1>2 DEF retornarPCB_decidir, TipoHilos, SinEmpezar
  <2> QED
    BY <2>1, <2>2, <2>3
<1>3. CASE program_change_running
  <2>1. Duenos'
    BY <1>3 DEF program_change_running, TipoHilos, Duenos, DeFinalizadores
  <2>2. DeFinalizadores'
    BY <1>3 DEF program_change_running, TipoHilos, DeFinalizadores, PasosFin
  <2>3. SinEmpezar'
    BY <1>3 DEF program_change_running, TipoHilos, SinEmpezar
  <2> QED
    BY <2>1, <2>2, <2>3
<1>4. CASE wait_encolar
  <2>1. Duenos'
    BY <1>4 DEF wait_encolar, TipoHilos, Duenos, DeFinalizadores
  <2>2. DeFinalizadores'
    BY <1>4 DEF wait_encolar, TipoHilos, DeFinalizadores, PasosFin
  <2>3. SinEmpezar'
    BY <1>4 DEF wait_encolar, TipoHilos, SinEmpezar
  <2> QED
    BY <2>1, <2>2, <2>3
<1>5. CASE wait_responder
  <2>1. Duenos'
    BY <1>5 DEF wait_responder, TipoHilos, Duenos, DeFinalizadores
  <2>2. DeFinalizadores'
    BY <1>5 DEF wait_responder, TipoHilos, DeFinalizadores, PasosFin
  <2>3. SinEmpezar'
    BY <1>5 DEF wait_responder, TipoHilos, SinEmpezar
  <2> QED
    BY <2>1, <2>2, <2>3
<1>6. CASE signal_responder
  <2>1. Duenos'
    BY <1>6 DEF signal_responder, TipoHilos, Duenos, DeFinalizadores
  <2>2. DeFinalizadores'
    BY <1>6 DEF signal_responder, TipoHilos, DeFinalizadores, PasosFin
  <2>3. SinEmpezar'
    BY <1>6 DEF signal_responder, TipoHilos, SinEmpezar
  <2> QED
    BY <2>1, <2>2, <2>3
<1> QED
  BY <1>1, <1>2, <1>3, <1>4, <1>5, <1>6 DEF PID

LEMMA MutexInv_CPU ==
    ASSUME MutexInv, NEW c \in Cpus,
           \/ PasoProcesoCPU(c) \/ conectarCPU(c) \/ signalHandler(c)
           \/ waitAnsisop(c) \/ signalAnsisop(c)
    PROVE  (Duenos /\ DeFinalizadores /\ SinEmpezar)'
<1>1. UNCHANGED kernel
  BY DEF PasoProcesoCPU, correrPCB, finishCPU_cpu, recibirRespuesta, ejecutarPrograma, conectarCPU,
         signalHandler, waitAnsisop, signalAnsisop
<1> QED
  BY <1>1 DEF MutexInv, Duenos, DeFinalizadores, SinEmpezar

(* A new program takes the number of a thread that never ran. *)
LEMMA MutexInv_nuevoPrograma ==
    ASSUME MutexInv, NEW c \in Consolas, nuevoPrograma(c)
    PROVE  (Duenos /\ DeFinalizadores /\ SinEmpezar)'
<1> USE ThreadFacts, HilosDistintos DEF MutexInv, TypeInv, TypeOK
<1>1. PICK p \in PID : p = ultimoPID
  BY ConstantesAssumption DEF nuevoPrograma, TipoColas, PID
<1>2. /\ paso[Programa(p)] = "nada" /\ ultimoPID' = p + 1
      /\ paso' = [paso EXCEPT ![Programa(p)] = "cargar_programa"]
      /\ pid' = [pid EXCEPT ![Programa(p)] = p]
      /\ consola' = [consola EXCEPT ![p] = c] /\ conectadas' = conectadas
      /\ programas' = programas /\ vuelve' = vuelve
      /\ UNCHANGED mutexes
  BY <1>1, ConstantesAssumption DEF nuevoPrograma, SinEmpezar, TipoColas, PID
<1>3. Duenos'
  BY <1>2 DEF TipoHilos, Duenos
<1>4. DeFinalizadores'
  BY <1>2 DEF TipoHilos, DeFinalizadores
<1>5. SinEmpezar'
  <2>1. (\A q \in PID : q >= ultimoPID => paso[Programa(q)] = "nada")'
    BY <1>1, <1>2 DEF TipoHilos, SinEmpezar, PID
  <2>2. (\A t \in Hilos : paso[t] = "cargar_programa" => pid[t] < ultimoPID)'
    BY <1>1, <1>2, ConstantesAssumption DEF TipoHilos, SinEmpezar, PID, SinPid
  <2>3. (\A q \in programas : q < ultimoPID)'
    BY <1>1, <1>2, ConstantesAssumption DEF TipoColas, SinEmpezar, PID
  <2>4. \A q \in PID : paso'[FinDesconexion(q)] # "nada" =>
                           q < ultimoPID' /\ consola'[q] \notin conectadas'
    BY <1>1, <1>2, ConstantesAssumption DEF TipoHilos, TipoColas, SinEmpezar, PID
  <2> QED
    BY <2>1, <2>2, <2>3, <2>4 DEF SinEmpezar
<1> QED
  BY <1>3, <1>4, <1>5

(* A console disconnects once, so its finalizador threads are all idle. *)
LEMMA MutexInv_desconexionConsola ==
    ASSUME MutexInv, NEW c \in Consolas, desconexionConsola(c)
    PROVE  (Duenos /\ DeFinalizadores /\ SinEmpezar)'
<1> USE ThreadFacts, HilosDistintos DEF MutexInv, TypeInv, TypeOK
<1> DEFINE suyos == {p \in programas : consola[p] = c}
<1>1. \A p \in suyos : p \in PID /\ p < ultimoPID /\ paso[FinDesconexion(p)] = "nada"
  BY DEF desconexionConsola, SinEmpezar, TipoColas
<1>2. \A t \in Hilos : \/ paso'[t] = paso[t]
                       \/ /\ paso[t] = "nada" /\ paso'[t] = "finalizarProceso"
                          /\ \E p \in suyos : t = FinDesconexion(p)
  BY <1>1 DEF desconexionConsola
<1>3. Duenos'
  BY <1>2 DEF desconexionConsola, TipoHilos, Duenos
<1>4. DeFinalizadores'
  BY <1>2 DEF desconexionConsola, TipoHilos, DeFinalizadores, PasosFin
<1>5. SinEmpezar'
  <2>1. /\ UNCHANGED <<ultimoPID, pid, programas, consola>>
        /\ conectadas' = conectadas \ {c}
    BY DEF desconexionConsola
  <2>2. \A p \in PID : paso'[Programa(p)] = paso[Programa(p)]
    BY <1>1, <1>2
  <2>3. \A q \in PID : paso'[FinDesconexion(q)] # "nada" =>
                           q < ultimoPID /\ consola[q] \notin conectadas'
    <3> SUFFICES ASSUME NEW q \in PID, paso'[FinDesconexion(q)] # "nada"
                 PROVE  q < ultimoPID /\ consola[q] \notin conectadas'
      OBVIOUS
    <3>1. CASE paso[FinDesconexion(q)] # "nada"
      BY <2>1, <3>1 DEF SinEmpezar
    <3>2. CASE paso[FinDesconexion(q)] = "nada"
      <4>1. PICK p \in suyos : FinDesconexion(q) = FinDesconexion(p)
        BY <1>2, <3>2
      <4>2. p = q
        BY <1>1, <4>1
      <4> QED
        BY <1>1, <2>1, <4>2
    <3> QED
      BY <3>1, <3>2
  <2> QED
    BY <1>2, <2>1, <2>2, <2>3 DEF SinEmpezar
<1> QED
  BY <1>3, <1>4, <1>5

LEMMA MutexInv_end ==
    ASSUME MutexInv, NEW p \in PID, finalizarProgramaConsola(p)
    PROVE  (Duenos /\ DeFinalizadores /\ SinEmpezar)'
<1> USE ThreadFacts, HilosDistintos DEF MutexInv, TypeInv, TypeOK
<1>1. /\ FinEnd(p) \in Hilos /\ paso[FinEnd(p)] = "nada"
      /\ paso' = [paso EXCEPT ![FinEnd(p)] = "finalizarProceso"]
      /\ UNCHANGED <<ultimoPID, pid, programas, consola, conectadas, vuelve, mutexes>>
  BY DEF finalizarProgramaConsola, LanzarFinalizador
<1>2. Duenos'
  BY <1>1 DEF TipoHilos, Duenos
<1>3. DeFinalizadores'
  BY <1>1 DEF TipoHilos, DeFinalizadores, PasosFin
<1>4. SinEmpezar'
  BY <1>1 DEF TipoHilos, SinEmpezar
<1> QED
  BY <1>2, <1>3, <1>4

LEMMA MutexInv_Init == Init => MutexInv
<1> SUFFICES ASSUME Init PROVE MutexInv
  OBVIOUS
<1> USE ThreadFacts, HilosDistintos DEF Init
<1>1. Duenos /\ DeFinalizadores
  BY DEF Duenos, DeFinalizadores, PasosFin
<1>2. SinEmpezar
  BY DEF SinEmpezar
<1> QED
  BY <1>1, <1>2, TypeInv_Init DEF MutexInv

LEMMA MutexInv_Next == MutexInv /\ [Next]_vars => MutexInv'
<1> SUFFICES ASSUME MutexInv, [Next]_vars PROVE MutexInv'
  OBVIOUS
<1>1. TypeInv'
  BY TypeInv_Next DEF MutexInv
<1>2. (Duenos /\ DeFinalizadores /\ SinEmpezar)'
  <2>1. CASE Next
    BY <2>1, MutexInv_PasoHilo, MutexInv_PasoFinalizador, MutexInv_SrvCPU, MutexInv_SrvCPU_sigue,
       MutexInv_CPU, MutexInv_nuevoPrograma, MutexInv_desconexionConsola, MutexInv_end
       DEF Next, Nucleo, SigueSrvCPU, ManejaPCB, ManejaOtro, end
  <2>2. CASE UNCHANGED vars
    BY <2>2 DEF vars, MutexInv, Duenos, DeFinalizadores, SinEmpezar
  <2> QED
    BY <2>1, <2>2
<1> QED
  BY <1>1, <1>2 DEF MutexInv

LEMMA MutexInv_Abrazo == MutexInv => UnicoAbrazoMortal
<1> SUFFICES ASSUME MutexInv, NEW t \in Hilos,
                    Frena(t) # Nadie, Frena(Frena(t)) # Nadie,
                    Frena(Frena(t)) = t \/ Frena(Frena(Frena(t))) = t
             PROVE  /\ {t, Frena(t)} = {mutexReady, mutexProgramas}
                    /\ mutexProgramas \in Finalizadores
                    /\ paso[mutexProgramas] = "sacarDe_colaReady"
                    /\ paso[mutexReady] = "END_PRGM"
  BY DEF UnicoAbrazoMortal
<1> USE ThreadFacts, HilosDistintos DEF MutexInv, TypeInv, TypeOK
<1>1. \A u : Frena(u) \in {mutexReady, mutexProgramas, mutexCPU, Nadie}
  BY DEF Frena, PideProgramas
<1>2. mutexReady # Nadie /\ Frena(mutexReady) # Nadie =>
         paso[mutexReady] = "END_PRGM" /\ Frena(mutexReady) = mutexProgramas
  BY DEF Duenos, Frena, PideProgramas
<1>3. mutexProgramas # Nadie /\ Frena(mutexProgramas) # Nadie =>
         paso[mutexProgramas] = "sacarDe_colaReady" /\ Frena(mutexProgramas) = mutexReady
  BY DEF Duenos, Frena, PideProgramas
<1>4. mutexCPU # Nadie => Frena(mutexCPU) \in {mutexReady, mutexProgramas}
  BY DEF Duenos, Frena, PideProgramas
<1>5. mutexReady # Nadie /\ mutexProgramas # Nadie => mutexReady # mutexProgramas
  BY DEF Duenos
<1>6. mutexCPU # Nadie => mutexCPU # mutexReady /\ mutexCPU # mutexProgramas
  BY DEF Duenos
<1> QED
  BY <1>1, <1>2, <1>3, <1>4, <1>5, <1>6 DEF Duenos

(* The locks of the scheduler (UnicoAbrazoMortal): with any number of      *)
(* programs, CPUs and finalizador threads, the one circular wait is that   *)
(* of a finalizador that searches Ready against a thread that finishes a   *)
(* PCB on its way into Ready.                                              *)
THEOREM OneDeadlyEmbrace == Spec => []UnicoAbrazoMortal
BY MutexInv_Init, MutexInv_Next, MutexInv_Abrazo, PTL DEF Spec

-----------------------------------------------------------------------------
(* What each step does to the threads, and what it leaves alone.           *)

(* The threads but the ones of T are where they were, with what they had;  *)
(* and t goes to s, to go on afterwards at v, with the PCB p in its hands. *)
Quietos(T) ==
    \A u \in Hilos \ T : /\ paso'[u] = paso[u] /\ vuelve'[u] = vuelve[u]
                         /\ pcb'[u] = pcb[u] /\ pid'[u] = pid[u] /\ sock'[u] = sock[u]
Va(t, s, v, p, q) == paso'[t] = s /\ vuelve'[t] = v /\ pcb'[t] = p /\ pid'[t] = q

LEMMA Ef_cargar_programa ==
    ASSUME TypeOK, NEW t \in Hilos, cargar_programa(t)
    PROVE  /\ Quietos({t})
           /\ paso[t] = "cargar_programa"
           /\ Va(t, "moverA_colaNew", vuelve[t], pcb[t], pid[t])
           /\ sock'[t] = sock[t]
           /\ programas' = programas \cup {pid[t]}
           /\ UNCHANGED <<ultimoPID, colaNew, colaReady, colaExec, colaBlocked, colaExit,
                          cpus, ocupada, grado, listForFinish, listForFinishDesconexion,
                          mutexCPU, atendida, exitCode, enMemoria, avisos, estado, ejecuta,
                          deKernel, pedidos, desfase>>
BY ConstantesAssumption, ThreadFacts
   DEF Quietos, Va, PID, SinPid, cargar_programa, TypeOK, TipoColas, TipoHilos, TipoCPUs

LEMMA Ef_moverA_colaNew ==
    ASSUME TypeOK, NEW t \in Hilos, moverA_colaNew(t)
    PROVE  /\ Quietos({t})
           /\ paso[t] = "moverA_colaNew"
           /\ Va(t, "sem_wait", vuelve[t], SinPid, pid[t])
           /\ sock'[t] = sock[t]
           /\ colaNew' = colaNew \cup {pcb[t]}
           /\ UNCHANGED <<ultimoPID, colaReady, colaExec, colaBlocked, colaExit, programas,
                          cpus, ocupada, grado, listForFinish, listForFinishDesconexion,
                          mutexCPU, atendida, exitCode, enMemoria, avisos, estado, ejecuta,
                          deKernel, pedidos, desfase>>
BY ConstantesAssumption, ThreadFacts
   DEF Quietos, Va, PID, SinPid, moverA_colaNew, TypeOK, TipoColas, TipoHilos, TipoCPUs

LEMMA Ef_sem_wait ==
    ASSUME TypeOK, NEW t \in Hilos, sem_wait(t)
    PROVE  /\ Quietos({t})
           /\ paso[t] = "sem_wait" /\ grado > 0
           /\ Va(t, "inicializar_programa", vuelve[t], pcb[t], pid[t])
           /\ sock'[t] = sock[t]
           /\ grado' = grado - 1
           /\ UNCHANGED <<ultimoPID, colaNew, colaReady, colaExec, colaBlocked, colaExit,
                          programas, cpus, ocupada, listForFinish, listForFinishDesconexion,
                          mutexCPU, atendida, exitCode, enMemoria, avisos, estado, ejecuta,
                          deKernel, pedidos, desfase>>
BY ConstantesAssumption, ThreadFacts
   DEF Quietos, Va, PID, SinPid, sem_wait, hayLugar, TypeOK, TipoColas, TipoHilos, TipoCPUs

LEMMA Ef_inicializar_programa ==
    ASSUME TypeOK, NEW t \in Hilos, inicializar_programa(t)
    PROVE  /\ Quietos({t})
           /\ paso[t] = "inicializar_programa" /\ pid[t] \in colaNew
           /\ sock'[t] = sock[t]
           /\ colaNew' = colaNew \ {pid[t]}
           /\ UNCHANGED <<ultimoPID, colaReady, colaExec, colaBlocked, colaExit, programas,
                          cpus, ocupada, grado, listForFinish, listForFinishDesconexion,
                          mutexCPU, atendida, avisos, estado, ejecuta, deKernel, pedidos,
                          desfase>>
           /\ \/ /\ Va(t, "exitSinMemoria", "nada", pid[t], pid[t])
                 /\ exitCode' = [exitCode EXCEPT ![pid[t]] = "SIN_RECURSOS"]
                 /\ UNCHANGED <<enMemoria>>
              \/ /\ Va(t, "moverA_colaReady", "enviar_a_cpu", pid[t], pid[t])
                 /\ enMemoria' = enMemoria \cup {pid[t]}
                 /\ UNCHANGED <<exitCode>>
              \/ /\ Va(t, "exit", "nada", pid[t], pid[t])
                 /\ exitCode' = [exitCode EXCEPT ![pid[t]] = "SIN_RECURSOS"]
                 /\ enMemoria' = enMemoria \cup {pid[t]}
BY ConstantesAssumption, ThreadFacts, SMTT(30)
   DEF Quietos, Va, PID, SinPid, inicializar_programa, TypeOK, TipoColas, TipoHilos, TipoCPUs

LEMMA Ef_moverA_colaReady ==
    ASSUME TypeOK, NEW t \in Hilos, moverA_colaReady(t)
    PROVE  /\ Quietos({t})
           /\ paso[t] \in {"moverA_colaReady", "moverA_colaReadySinFinalizar"}
           /\ sock'[t] = sock[t]
           /\ UNCHANGED <<ultimoPID, colaNew, colaExec, colaBlocked, colaExit, programas,
                          cpus, ocupada, grado, mutexCPU, atendida, enMemoria, avisos,
                          estado, ejecuta, deKernel, pedidos, desfase>>
           /\ \/ /\ Va(t, "exit", vuelve[t], pcb[t], pid[t])
                 /\ pcb[t] \in listForFinish
                 /\ listForFinish' = listForFinish \ {pcb[t]}
                 /\ exitCode' = [exitCode EXCEPT ![pcb[t]] = "BY_CONSOLE"]
                 /\ UNCHANGED <<colaReady, listForFinishDesconexion>>
              \/ /\ Va(t, "exit", vuelve[t], pcb[t], pid[t])
                 /\ pcb[t] \in listForFinishDesconexion
                 /\ listForFinishDesconexion' = listForFinishDesconexion \ {pcb[t]}
                 /\ exitCode' = [exitCode EXCEPT ![pcb[t]] = "DESCONEXION"]
                 /\ UNCHANGED <<colaReady, listForFinish>>
              \/ /\ Va(t, vuelve[t], vuelve[t], SinPid, pid[t])
                 /\ colaReady' = Append(colaReady, pcb[t])
                 /\ UNCHANGED <<listForFinish, listForFinishDesconexion, exitCode>>
BY ConstantesAssumption, ThreadFacts, ZenonT(60)
   DEF Quietos, Va, PID, SinPid, moverA_colaReady, TypeOK, TipoColas, TipoHilos, TipoCPUs

LEMMA Ef_moverA_colaExit ==
    ASSUME TypeOK, NEW t \in Hilos, moverA_colaExit(t)
    PROVE  /\ Quietos({t})
           /\ \/ paso[t] = "exit" /\ Va(t, "FINZ_PROGM", vuelve[t], SinPid, pcb[t])
              \/ paso[t] = "exitSinMemoria" /\ Va(t, "END_PRGM", vuelve[t], SinPid, pcb[t])
           /\ sock'[t] = sock[t]
           /\ colaExit' = colaExit \cup {pcb[t]}
           /\ grado' = grado + 1
           /\ UNCHANGED <<ultimoPID, colaNew, colaReady, colaExec, colaBlocked, programas,
                          cpus, ocupada, listForFinish, listForFinishDesconexion, mutexCPU,
                          atendida, exitCode, enMemoria, avisos, estado, ejecuta, deKernel,
                          pedidos, desfase>>
BY ConstantesAssumption, ThreadFacts
   DEF Quietos, Va, PID, SinPid, moverA_colaExit, sem_post, TypeOK, TipoColas, TipoHilos, TipoCPUs

LEMMA Ef_finalizarProcesoMemoria ==
    ASSUME TypeOK, NEW t \in Hilos, finalizarProcesoMemoria(t)
    PROVE  /\ Quietos({t})
           /\ paso[t] = "FINZ_PROGM"
           /\ Va(t, "END_PRGM", vuelve[t], pcb[t], pid[t])
           /\ sock'[t] = sock[t]
           /\ enMemoria' = enMemoria \ {pid[t]}
           /\ UNCHANGED <<ultimoPID, colaNew, colaReady, colaExec, colaBlocked, colaExit,
                          programas, cpus, ocupada, grado, listForFinish,
                          listForFinishDesconexion, mutexCPU, atendida, exitCode, avisos,
                          estado, ejecuta, deKernel, pedidos, desfase>>
BY ConstantesAssumption, ThreadFacts
   DEF Quietos, Va, PID, SinPid, finalizarProcesoMemoria, FINZ_PROGM, TypeOK, TipoColas, TipoHilos,
       TipoCPUs

LEMMA Ef_finishProcess ==
    ASSUME TypeOK, NEW t \in Hilos, finishProcess(t)
    PROVE  /\ Quietos({t})
           /\ paso[t] = "END_PRGM"
           /\ Va(t, vuelve[t], vuelve[t], pcb[t], pid[t])
           /\ sock'[t] = sock[t]
           /\ UNCHANGED <<ultimoPID, colaNew, colaReady, colaExec, colaBlocked, colaExit,
                          cpus, ocupada, grado, listForFinish, listForFinishDesconexion,
                          mutexCPU, atendida, exitCode, enMemoria, estado, ejecuta,
                          deKernel, pedidos, desfase>>
           /\ \/ /\ pid[t] \in programas
                 /\ programas' = programas \ {pid[t]}
                 /\ avisos' = [avisos EXCEPT ![pid[t]] = avisos[pid[t]] + 1]
              \/ /\ pid[t] \notin programas
                 /\ UNCHANGED <<programas, avisos>>
BY ConstantesAssumption, ThreadFacts
   DEF Quietos, Va, PID, SinPid, finishProcess, eliminarConsolaPorPID, TypeOK, TipoColas, TipoHilos,
       TipoCPUs

LEMMA Ef_enviar_a_cpu ==
    ASSUME TypeOK, NEW t \in Hilos, enviar_a_cpu(t)
    PROVE  /\ Quietos({t})
           /\ paso[t] = "enviar_a_cpu" /\ mutexCPU = Nadie
           /\ UNCHANGED <<ultimoPID, colaNew, colaReady, colaExec, colaBlocked, colaExit,
                          programas, cpus, ocupada, grado, listForFinish,
                          listForFinishDesconexion, atendida, exitCode, enMemoria, avisos,
                          estado, ejecuta, deKernel, pedidos, desfase>>
           /\ \/ /\ Va(t, Final(t), vuelve[t], pcb[t], pid[t])
                 /\ sock'[t] = sock[t]
                 /\ UNCHANGED <<mutexCPU>>
              \/ /\ Va(t, "sacarCualquieraDeReady", vuelve[t], pcb[t], pid[t])
                 /\ sock'[t] \in Conectadas /\ ~ocupada[sock'[t]]
                 /\ mutexCPU' = t
BY ConstantesAssumption, ThreadFacts
   DEF Quietos, Va, PID, SinPid, enviar_a_cpu, cpu_libre, Libres, Conectadas, TypeOK, TipoColas,
       TipoHilos, TipoCPUs

LEMMA Ef_sacarCualquieraDeReady ==
    ASSUME TypeOK, NEW t \in Hilos, sacarCualquieraDeReady(t)
    PROVE  /\ Quietos({t})
           /\ paso[t] = "sacarCualquieraDeReady"
           /\ sock'[t] = sock[t]
           /\ UNCHANGED <<ultimoPID, colaNew, colaExec, colaBlocked, colaExit, programas,
                          cpus, ocupada, grado, listForFinish, listForFinishDesconexion,
                          atendida, exitCode, enMemoria, avisos, estado, ejecuta, deKernel,
                          pedidos, desfase>>
           /\ \/ /\ Va(t, Final(t), vuelve[t], pcb[t], pid[t])
                 /\ mutexCPU' = Nadie
                 /\ UNCHANGED <<colaReady>>
              \/ /\ Va(t, "relacionar", vuelve[t], Head(colaReady), pid[t])
                 /\ colaReady # <<>> /\ colaReady' = Tail(colaReady)
                 /\ UNCHANGED <<mutexCPU>>
BY ConstantesAssumption, ThreadFacts
   DEF Quietos, Va, PID, SinPid, sacarCualquieraDeReady, queue_pop_Ready, suelta_colaReadyMutex,
       TypeOK, TipoColas, TipoHilos, TipoCPUs

LEMMA Ef_relacionar ==
    ASSUME TypeOK, NEW t \in Hilos, relacionar(t)
    PROVE  /\ Quietos({t})
           /\ paso[t] = "relacionar"
           /\ sock'[t] = sock[t]
           /\ mutexCPU' = Nadie
           /\ UNCHANGED <<ultimoPID, colaNew, colaReady, colaBlocked, colaExit, programas,
                          cpus, grado, listForFinish, listForFinishDesconexion, atendida,
                          exitCode, enMemoria, avisos, estado, ejecuta, deKernel, pedidos,
                          desfase>>
           /\ \/ /\ Va(t, "CORRER_PCB", vuelve[t], SinPid, pcb[t])
                 /\ pcb[t] \in programas
                 /\ colaExec' = colaExec \cup {pcb[t]}
                 /\ ocupada' = [ocupada EXCEPT ![sock[t]] = TRUE]
              \/ /\ Va(t, Final(t), vuelve[t], SinPid, pid[t])
                 /\ pcb[t] \notin programas
                 /\ UNCHANGED <<colaExec, ocupada>>
BY ConstantesAssumption, ThreadFacts
   DEF Quietos, Va, PID, SinPid, relacionar, TypeOK, TipoColas, TipoHilos, TipoCPUs

LEMMA Ef_correr_pcb ==
    ASSUME TypeOK, NEW t \in Hilos, correr_pcb(t)
    PROVE  /\ Quietos({t})
           /\ paso[t] = "CORRER_PCB"
           /\ Va(t, Final(t), vuelve[t], pcb[t], pid[t])
           /\ sock'[t] = sock[t]
           /\ deKernel' = [deKernel EXCEPT ![sock[t]] = @ \o CorrerPCB(pid[t])]
           /\ desfase' = (desfase \/ (estado[sock[t]] = "esperaWait" /\ deKernel[sock[t]] = <<>>))
           /\ UNCHANGED <<ultimoPID, colaNew, colaReady, colaExec, colaBlocked, colaExit,
                          programas, cpus, ocupada, grado, listForFinish,
                          listForFinishDesconexion, mutexCPU, atendida, exitCode, enMemoria,
                          avisos, estado, ejecuta, pedidos>>
BY ConstantesAssumption, ThreadFacts
   DEF Quietos, Va, PID, SinPid, correr_pcb, Enviar, TypeOK, TipoColas, TipoHilos, TipoCPUs

LEMMA Ef_finalizarProceso ==
    ASSUME TypeOK, NEW t \in Finalizadores, finalizarProceso(t)
    PROVE  /\ Quietos({t})
           /\ t \in Hilos /\ paso[t] = "finalizarProceso"
           /\ sock'[t] = sock[t]
           /\ UNCHANGED <<ultimoPID, colaNew, colaReady, colaExec, colaBlocked, colaExit,
                          programas, cpus, ocupada, grado, mutexCPU, atendida, exitCode,
                          enMemoria, avisos, estado, ejecuta, deKernel, desfase>>
           /\ \/ /\ Va(t, "nada", vuelve[t], pcb[t], pid[t])
                 /\ UNCHANGED <<listForFinish, listForFinishDesconexion, pedidos>>
              \/ /\ Va(t, "nada", vuelve[t], pcb[t], pid[t])
                 /\ pedidos' = pedidos \cup {t[2]}
                 /\ t[2] \in listForFinish' \cup listForFinishDesconexion'
                 /\ listForFinish \subseteq listForFinish'
                 /\ listForFinishDesconexion \subseteq listForFinishDesconexion'
              \/ /\ Va(t, "sacarDe_colaReady", vuelve[t], pcb[t], pid[t])
                 /\ UNCHANGED <<listForFinish, listForFinishDesconexion, pedidos>>
<1> USE ConstantesAssumption, ThreadFacts DEF PID, SinPid
<1>1. t \in Hilos /\ t[2] \in PID
  BY DEF Finalizadores, Hilos
<1>2. Anotar(t) => /\ pedidos' = pedidos \cup {t[2]}
                   /\ t[2] \in listForFinish' \cup listForFinishDesconexion'
                   /\ listForFinish \subseteq listForFinish'
                   /\ listForFinishDesconexion \subseteq listForFinishDesconexion'
  BY DEF Anotar
<1>3. /\ paso \in [Hilos -> Pasos] /\ vuelve \in [Hilos -> Pasos]
      /\ pcb \in [Hilos -> PID \cup {SinPid}] /\ pid \in [Hilos -> PID \cup {SinPid}]
  BY DEF TypeOK, TipoHilos
<1> QED
  BY <1>1, <1>2, <1>3 DEF Quietos, Va, finalizarProceso

LEMMA Ef_sacarDe_colaReady ==
    ASSUME TypeOK, NEW t \in Finalizadores, sacarDe_colaReady(t)
    PROVE  /\ Quietos({t})
           /\ t \in Hilos /\ paso[t] = "sacarDe_colaReady"
           /\ sock'[t] = sock[t]
           /\ UNCHANGED <<ultimoPID, colaNew, colaExec, colaBlocked, colaExit, programas,
                          cpus, ocupada, grado, mutexCPU, atendida, enMemoria, avisos,
                          estado, ejecuta, deKernel, desfase>>
           /\ \/ /\ Va(t, "exit", "nada", t[2], pid[t])
                 /\ t[2] \in EnReady /\ colaReady' = Sin(colaReady, t[2])
                 /\ pedidos' = pedidos \cup {t[2]}
                 /\ \E e \in {"BY_CONSOLE", "DESCONEXION"} : exitCode' = [exitCode EXCEPT ![t[2]] = e]
                 /\ UNCHANGED <<listForFinish, listForFinishDesconexion>>
              \/ /\ Va(t, "nada", vuelve[t], pcb[t], pid[t])
                 /\ pedidos' = pedidos \cup {t[2]}
                 /\ t[2] \in listForFinish' \cup listForFinishDesconexion'
                 /\ listForFinish \subseteq listForFinish'
                 /\ listForFinishDesconexion \subseteq listForFinishDesconexion'
                 /\ UNCHANGED <<colaReady, exitCode>>
<1> USE ConstantesAssumption, ThreadFacts DEF PID, SinPid
<1>1. t \in Hilos /\ t[2] \in PID
  BY DEF Finalizadores, Hilos
<1>2. Anotar(t) => /\ pedidos' = pedidos \cup {t[2]}
                   /\ t[2] \in listForFinish' \cup listForFinishDesconexion'
                   /\ listForFinish \subseteq listForFinish'
                   /\ listForFinishDesconexion \subseteq listForFinishDesconexion'
  BY DEF Anotar
<1>3. /\ paso \in [Hilos -> Pasos] /\ vuelve \in [Hilos -> Pasos]
      /\ pcb \in [Hilos -> PID \cup {SinPid}] /\ pid \in [Hilos -> PID \cup {SinPid}]
  BY DEF TypeOK, TipoHilos
<1> QED
  BY <1>1, <1>2, <1>3 DEF Quietos, Va, sacarDe_colaReady

LEMMA Ef_nuevaConexionCPU ==
    ASSUME TypeOK, NEW c \in Cpus, nuevaConexionCPU(c)
    PROVE  /\ Quietos({SrvCPU})
           /\ paso[SrvCPU] = "select" /\ mutexCPU = Nadie /\ estado[c] = "conectando"
           /\ Va(SrvCPU, "enviar_a_cpu", vuelve[SrvCPU], pcb[SrvCPU], pid[SrvCPU])
           /\ sock'[SrvCPU] = sock[SrvCPU]
           /\ atendida' = NadieCPU
           /\ estado' = [estado EXCEPT ![c] = "libre"]
           /\ cpus' = Append(cpus, c)
           /\ ocupada' = [ocupada EXCEPT ![c] = FALSE]
           /\ UNCHANGED <<ultimoPID, colaNew, colaReady, colaExec, colaBlocked, colaExit,
                          programas, grado, listForFinish, listForFinishDesconexion,
                          mutexCPU, exitCode, enMemoria, avisos, ejecuta, deKernel, pedidos,
                          desfase>>
BY ConstantesAssumption, ThreadFacts
   DEF Quietos, Va, PID, SinPid, nuevaConexionCPU, cargarCPU, Atiende, TypeOK, TipoColas, TipoHilos,
       TipoCPUs

LEMMA Ef_finishCPU ==
    ASSUME TypeOK, NEW c \in Cpus, finishCPU(c)
    PROVE  /\ Quietos({})
           /\ paso[SrvCPU] = "select" /\ mutexCPU = Nadie
           /\ atendida' = NadieCPU
           /\ UNCHANGED <<paso, vuelve, pcb, pid, sock, ultimoPID, colaNew, colaReady,
                          colaExec, colaBlocked, colaExit, programas, ocupada, grado,
                          listForFinish, listForFinishDesconexion, mutexCPU, exitCode,
                          enMemoria, avisos, estado, ejecuta, pedidos, desfase>>
           /\ \/ /\ c \in Conectadas /\ ~ocupada[c]
                 /\ cpus' = Sin(cpus, c)
                 /\ deKernel' = [deKernel EXCEPT ![c] = @ \o <<Msg("FINISH_CPU")>>]
              \/ /\ TRUE
                 /\ UNCHANGED <<cpus, deKernel>>
BY ConstantesAssumption, ThreadFacts
   DEF Quietos, Va, PID, SinPid, finishCPU, Atiende, desconectarCPU, matchCPU, Enviar, TypeOK,
       TipoColas, TipoHilos, TipoCPUs

LEMMA Ef_retornarPCB ==
    ASSUME TypeOK, NEW c \in Cpus, retornarPCB(c)
    PROVE  /\ Quietos({SrvCPU})
           /\ paso[SrvCPU] = "select" /\ mutexCPU = Nadie /\ estado[c] = "RET_PCB"
           /\ \E s \in {"desconectarCPU", "processIsForFinish"} :
                 Va(SrvCPU, s, vuelve[SrvCPU], ejecuta[c], ejecuta[c])
           /\ sock'[SrvCPU] = sock[SrvCPU]
           /\ \E e \in {"OK", "enCurso"} : exitCode' = [exitCode EXCEPT ![ejecuta[c]] = e]
           /\ atendida' = c
           /\ colaExec' = colaExec \ {ejecuta[c]}
           /\ ocupada' = [ocupada EXCEPT ![c] = FALSE]
           /\ estado' = [estado EXCEPT ![c] = "libre"]
           /\ ejecuta' = [ejecuta EXCEPT ![c] = SinPid]
           /\ UNCHANGED <<ultimoPID, colaNew, colaReady, colaBlocked, colaExit, programas,
                          cpus, grado, listForFinish, listForFinishDesconexion, mutexCPU,
                          enMemoria, avisos, deKernel, pedidos, desfase>>
BY ConstantesAssumption, ThreadFacts
   DEF Quietos, Va, PID, SinPid, retornarPCB, Atiende, sacarDe_colaExec, TypeOK, TipoColas,
       TipoHilos, TipoCPUs

LEMMA Ef_retornarPCB_desconectar ==
    ASSUME TypeOK, retornarPCB_desconectar
    PROVE  /\ Quietos({SrvCPU})
           /\ paso[SrvCPU] = "desconectarCPU" /\ mutexCPU = Nadie
           /\ Va(SrvCPU, "processIsForFinish", vuelve[SrvCPU], pcb[SrvCPU], pid[SrvCPU])
           /\ sock'[SrvCPU] = sock[SrvCPU]
           /\ UNCHANGED <<ultimoPID, colaNew, colaReady, colaExec, colaBlocked, colaExit,
                          programas, ocupada, grado, listForFinish,
                          listForFinishDesconexion, mutexCPU, atendida, exitCode, enMemoria,
                          avisos, estado, ejecuta, pedidos, desfase>>
           /\ \/ /\ atendida \in Conectadas /\ ~ocupada[atendida]
                 /\ cpus' = Sin(cpus, atendida)
                 /\ deKernel' = [deKernel EXCEPT ![atendida] = @ \o <<Msg("FINISH_CPU")>>]
              \/ /\ TRUE
                 /\ UNCHANGED <<cpus, deKernel>>
BY ConstantesAssumption, ThreadFacts
   DEF Quietos, Va, PID, SinPid, retornarPCB_desconectar, desconectarCPU, matchCPU, Enviar, TypeOK,
       TipoColas, TipoHilos, TipoCPUs

LEMMA Ef_retornarPCB_decidir ==
    ASSUME TypeOK, retornarPCB_decidir
    PROVE  /\ Quietos({SrvCPU})
           /\ paso[SrvCPU] = "processIsForFinish"
           /\ sock'[SrvCPU] = sock[SrvCPU]
           /\ listForFinish' = listForFinish \ {pcb[SrvCPU]}
           /\ UNCHANGED <<ultimoPID, colaNew, colaReady, colaExec, colaBlocked, colaExit,
                          programas, cpus, ocupada, grado, listForFinishDesconexion,
                          mutexCPU, atendida, enMemoria, avisos, estado, ejecuta, deKernel,
                          pedidos, desfase>>
           /\ \/ /\ Va(SrvCPU, "exit", "enviar_a_cpu", pcb[SrvCPU], pid[SrvCPU])
                 /\ exitCode' = [exitCode EXCEPT ![pcb[SrvCPU]] = "BY_CONSOLE"]
              \/ /\ Va(SrvCPU, "exit", "enviar_a_cpu", pcb[SrvCPU], pid[SrvCPU])
                 /\ exitCode[pcb[SrvCPU]] # "enCurso"
                 /\ UNCHANGED <<exitCode>>
              \/ /\ Va(SrvCPU, "moverA_colaReady", "program_change_running", pcb[SrvCPU], pid[SrvCPU])
                 /\ exitCode[pcb[SrvCPU]] = "enCurso"
                 /\ pcb[SrvCPU] \notin listForFinish
                 /\ UNCHANGED <<exitCode>>
BY ConstantesAssumption, ThreadFacts
   DEF Quietos, Va, PID, SinPid, retornarPCB_decidir, pedidaFin, TypeOK, TipoColas, TipoHilos,
       TipoCPUs

LEMMA Ef_program_change_running ==
    ASSUME TypeOK, program_change_running
    PROVE  /\ Quietos({SrvCPU})
           /\ \/ /\ paso[SrvCPU] = "program_change_running"
                 /\ Va(SrvCPU, "enviar_a_cpu", vuelve[SrvCPU], pcb[SrvCPU], pid[SrvCPU])
              \/ /\ paso[SrvCPU] = "program_change_running_wait"
                 /\ Va(SrvCPU, "RES_WAIT", vuelve[SrvCPU], pcb[SrvCPU], pid[SrvCPU])
           /\ sock'[SrvCPU] = sock[SrvCPU]
           /\ UNCHANGED <<ultimoPID, colaNew, colaReady, colaExec, colaBlocked, colaExit,
                          programas, cpus, ocupada, grado, listForFinish,
                          listForFinishDesconexion, mutexCPU, atendida, exitCode, enMemoria,
                          avisos, estado, ejecuta, deKernel, pedidos, desfase>>
BY ConstantesAssumption, ThreadFacts
   DEF Quietos, Va, PID, SinPid, program_change_running, TypeOK, TipoColas, TipoHilos, TipoCPUs

LEMMA Ef_wait_ok ==
    ASSUME TypeOK, NEW c \in Cpus, wait_ok(c)
    PROVE  /\ Quietos({})
           /\ paso[SrvCPU] = "select" /\ estado[c] = "WAIT"
           /\ atendida' = NadieCPU
           /\ estado' = [estado EXCEPT ![c] = "esperaWait"]
           /\ deKernel' = [deKernel EXCEPT ![c] = @ \o <<Msg("RES_WAIT_OK")>>]
           /\ UNCHANGED <<paso, vuelve, pcb, pid, sock, ultimoPID, colaNew, colaReady,
                          colaExec, colaBlocked, colaExit, programas, cpus, ocupada, grado,
                          listForFinish, listForFinishDesconexion, mutexCPU, exitCode,
                          enMemoria, avisos, ejecuta, pedidos, desfase>>
BY ConstantesAssumption, ThreadFacts
   DEF Quietos, Va, PID, SinPid, wait_ok, Atiende, Enviar, TypeOK, TipoColas, TipoHilos, TipoCPUs

LEMMA Ef_wait_bloquea ==
    ASSUME TypeOK, NEW c \in Cpus, wait_bloquea(c)
    PROVE  /\ Quietos({SrvCPU})
           /\ paso[SrvCPU] = "select" /\ estado[c] = "WAIT"
           /\ sock'[SrvCPU] = sock[SrvCPU]
           /\ atendida' = c
           /\ estado' = [estado EXCEPT ![c] = "esperaWait"]
           /\ colaExec' = colaExec \ {ejecuta[c]}
           /\ UNCHANGED <<ultimoPID, colaNew, colaReady, colaExit, programas, cpus, ocupada,
                          grado, listForFinish, mutexCPU, enMemoria, avisos, ejecuta,
                          deKernel, pedidos, desfase>>
           /\ \/ /\ Va(SrvCPU, "exit", "encolar", ejecuta[c], ejecuta[c])
                 /\ ejecuta[c] \in colaExec \cap listForFinishDesconexion
                 /\ listForFinishDesconexion' = listForFinishDesconexion \ {ejecuta[c]}
                 /\ exitCode' = [exitCode EXCEPT ![ejecuta[c]] = "DESCONEXION"]
                 /\ UNCHANGED <<colaBlocked>>
              \/ /\ Va(SrvCPU, "encolar", "encolar", pcb[SrvCPU], ejecuta[c])
                 /\ colaBlocked' = colaBlocked \cup (colaExec \cap {ejecuta[c]})
                 /\ UNCHANGED <<listForFinishDesconexion, exitCode>>
BY ConstantesAssumption, ThreadFacts
   DEF Quietos, Va, PID, SinPid, wait_bloquea, Atiende, sacarDe_colaExec, TypeOK, TipoColas,
       TipoHilos, TipoCPUs

LEMMA Ef_wait_encolar ==
    ASSUME TypeOK, wait_encolar
    PROVE  /\ Quietos({SrvCPU})
           /\ paso[SrvCPU] = "encolar" /\ mutexCPU = Nadie
           /\ Va(SrvCPU, "program_change_running_wait", vuelve[SrvCPU], pcb[SrvCPU], pid[SrvCPU])
           /\ sock'[SrvCPU] = sock[SrvCPU]
           /\ ocupada' = [ocupada EXCEPT ![atendida] = FALSE]
           /\ UNCHANGED <<ultimoPID, colaNew, colaReady, colaExec, colaBlocked, colaExit,
                          programas, cpus, grado, listForFinish, listForFinishDesconexion,
                          mutexCPU, atendida, exitCode, enMemoria, avisos, estado, ejecuta,
                          deKernel, pedidos, desfase>>
BY ConstantesAssumption, ThreadFacts
   DEF Quietos, Va, PID, SinPid, wait_encolar, TypeOK, TipoColas, TipoHilos, TipoCPUs

LEMMA Ef_wait_responder ==
    ASSUME TypeOK, wait_responder
    PROVE  /\ Quietos({SrvCPU})
           /\ paso[SrvCPU] = "RES_WAIT"
           /\ Va(SrvCPU, "enviar_a_cpu", vuelve[SrvCPU], pcb[SrvCPU], pid[SrvCPU])
           /\ sock'[SrvCPU] = sock[SrvCPU]
           /\ deKernel' = [deKernel EXCEPT ![atendida] = @ \o <<Msg("RES_WAIT_BLOCKED")>>]
           /\ UNCHANGED <<ultimoPID, colaNew, colaReady, colaExec, colaBlocked, colaExit,
                          programas, cpus, ocupada, grado, listForFinish,
                          listForFinishDesconexion, mutexCPU, atendida, exitCode, enMemoria,
                          avisos, estado, ejecuta, pedidos, desfase>>
BY ConstantesAssumption, ThreadFacts
   DEF Quietos, Va, PID, SinPid, wait_responder, Enviar, TypeOK, TipoColas, TipoHilos, TipoCPUs

LEMMA Ef_signal ==
    ASSUME TypeOK, NEW c \in Cpus, signal(c)
    PROVE  /\ Quietos({SrvCPU})
           /\ paso[SrvCPU] = "select" /\ estado[c] = "SIGNAL"
           /\ sock'[SrvCPU] = sock[SrvCPU]
           /\ atendida' = c
           /\ estado' = [estado EXCEPT ![c] = "esperaSignal"]
           /\ UNCHANGED <<ultimoPID, colaNew, colaReady, colaExec, colaExit, programas,
                          cpus, ocupada, grado, listForFinish, listForFinishDesconexion,
                          mutexCPU, exitCode, enMemoria, avisos, ejecuta, deKernel, pedidos,
                          desfase>>
           /\ \/ /\ \E s \in {"RES_SIGNAL", "enviar_a_cpu"} :
                       Va(SrvCPU, s, "enviar_a_cpu", pcb[SrvCPU], pid[SrvCPU])
                 /\ UNCHANGED <<colaBlocked>>
              \/ \E q \in colaBlocked :
                    /\ colaBlocked' = colaBlocked \ {q}
                    /\ Va(SrvCPU, "moverA_colaReadySinFinalizar", "enviar_a_cpu", q,
                          pid[SrvCPU])
BY ConstantesAssumption, ThreadFacts, ZenonT(60)
   DEF Quietos, Va, PID, SinPid, signal, Atiende, TypeOK, TipoColas, TipoHilos, TipoCPUs

LEMMA Ef_signal_responder ==
    ASSUME TypeOK, signal_responder
    PROVE  /\ Quietos({SrvCPU})
           /\ paso[SrvCPU] = "RES_SIGNAL"
           /\ Va(SrvCPU, "select", vuelve[SrvCPU], pcb[SrvCPU], pid[SrvCPU])
           /\ sock'[SrvCPU] = sock[SrvCPU]
           /\ atendida' = NadieCPU
           /\ deKernel' = [deKernel EXCEPT ![atendida] = @ \o <<Msg("RES_SIGNAL")>>]
           /\ UNCHANGED <<ultimoPID, colaNew, colaReady, colaExec, colaBlocked, colaExit,
                          programas, cpus, ocupada, grado, listForFinish,
                          listForFinishDesconexion, mutexCPU, exitCode, enMemoria, avisos,
                          estado, ejecuta, pedidos, desfase>>
BY ConstantesAssumption, ThreadFacts
   DEF Quietos, Va, PID, SinPid, signal_responder, Enviar, TypeOK, TipoColas, TipoHilos, TipoCPUs

LEMMA Ef_nuevoPrograma ==
    ASSUME TypeOK, NEW c \in Consolas, nuevoPrograma(c)
    PROVE  /\ Quietos({Programa(ultimoPID)})
           /\ ultimoPID \in PID /\ Programa(ultimoPID) \in Hilos
           /\ Va(Programa(ultimoPID), "cargar_programa", vuelve[Programa(ultimoPID)],
                 ultimoPID, ultimoPID)
           /\ sock'[Programa(ultimoPID)] = sock[Programa(ultimoPID)]
           /\ ultimoPID' = ultimoPID + 1
           /\ UNCHANGED <<colaNew, colaReady, colaExec, colaBlocked, colaExit, programas,
                          cpus, ocupada, grado, listForFinish, listForFinishDesconexion,
                          mutexCPU, atendida, exitCode, enMemoria, avisos, estado, ejecuta,
                          deKernel, pedidos, desfase>>
BY ConstantesAssumption, ThreadFacts
   DEF Quietos, Va, PID, SinPid, nuevoPrograma, TypeOK, TipoColas, TipoHilos, TipoCPUs

-----------------------------------------------------------------------------
(* What each thread has at each step of its own.                           *)

PasosNuevo == {"cargar_programa", "moverA_colaNew", "sem_wait", "inicializar_programa",
               "exitSinMemoria"}
PasosSrv == {"select", "desconectarCPU", "processIsForFinish", "program_change_running", "encolar",
             "program_change_running_wait", "RES_WAIT", "RES_SIGNAL", "moverA_colaReadySinFinalizar"}

(* A thread holds a PCB at the steps that hand one on; only the thread of  *)
(* a program starts it, and only the select loop serves a CPU; whoever     *)
(* tells the end of a program has put it in Exit; and the thread that      *)
(* chose a CPU holds the mutex of the CPUs, and finds it idle.             *)
Mano(t) == pcb[t] # SinPid <=> paso[t] \in ConPCB
Nuevo(t) ==
    paso[t] \in PasosNuevo =>
        /\ t[1] = "programa" /\ t[2] \in PID /\ t = Programa(t[2]) /\ pid[t] = t[2] /\ t[2] < ultimoPID
        /\ paso[t] \in {"cargar_programa", "moverA_colaNew", "exitSinMemoria"} => pcb[t] = t[2]
Propio(t) == t # SrvCPU => paso[t] \notin PasosSrv /\ vuelve[t] \in {"nada", "enviar_a_cpu"}
Avisa(t) == paso[t] \in {"FINZ_PROGM", "END_PRGM"} => pid[t] \in colaExit
Elige(t) ==
    /\ paso[t] \in {"sacarCualquieraDeReady", "relacionar"} =>
          mutexCPU = t /\ sock[t] \in Conectadas /\ ~ocupada[sock[t]]
    /\ paso[t] = "CORRER_PCB" => sock[t] \in Cpus

(* Every program is listed until it is in Exit, and a CPU is listed once.  *)
Listados ==
    \A p \in PID : p < ultimoPID /\ p \notin colaExit =>
        p \in programas \/ paso[Programa(p)] = "cargar_programa"
SinRepetir == \A i, j \in DOMAIN cpus : i # j => cpus[i] # cpus[j]
Apagadas == \A c \in Cpus : estado[c] \in {"apagada", "conectando"} => c \notin Conectadas

HilosInv ==
    /\ \A t \in Hilos : Mano(t) /\ Nuevo(t) /\ Propio(t) /\ Avisa(t) /\ Elige(t)
    /\ Listados /\ SinRepetir /\ Apagadas

LEMMA FinalDe ==
    \A t : /\ t # SrvCPU => Final(t) = "nada"
           /\ t = SrvCPU => Final(t) \in {"select", "RES_SIGNAL"}
BY DEF Final

LEMMA FinalizadorDe == \A t \in Finalizadores : t[2] \in PID
BY DEF Finalizadores

(* The threads a step leaves alone. *)
LEMMA HilosFrame ==
    ASSUME MutexInv, HilosInv, NEW T, Quietos(T), ultimoPID' = ultimoPID \/ ultimoPID' = ultimoPID + 1,
           colaExit \subseteq colaExit', NEW u \in Hilos \ T
    PROVE  (Mano(u) /\ Nuevo(u) /\ Propio(u) /\ Avisa(u))'
<1>1. Mano(u) /\ Nuevo(u) /\ Propio(u) /\ Avisa(u)
  BY DEF HilosInv
<1>2. ultimoPID \in Int /\ \A q \in PID : q \in Int
  BY ConstantesAssumption DEF MutexInv, TypeInv, TypeOK, TipoColas, PID
<1>3. \A q \in PID : q < ultimoPID => q < ultimoPID'
  BY <1>2
<1> QED
  BY <1>1, <1>3 DEF Quietos, Mano, Nuevo, Propio, Avisa

LEMMA EligeFrame ==
    ASSUME HilosInv, NEW T, Quietos(T),
           UNCHANGED <<cpus, ocupada, mutexCPU>> \/ mutexCPU \in T \cup {Nadie},
           NEW u \in Hilos \ T
    PROVE  Elige(u)'
BY HilosDistintos DEF Quietos, HilosInv, Elige, Conectadas

LEMMA ListadosFrame ==
    ASSUME HilosInv, NEW T, Quietos(T), UNCHANGED ultimoPID,
           programas \subseteq programas', colaExit \subseteq colaExit',
           \A t \in T : paso[t] # "cargar_programa"
    PROVE  Listados'
BY ThreadFacts DEF Quietos, HilosInv, Listados

(* Removing an element of a sequence without repetitions.                  *)
Elementos(s) == {s[k] : k \in DOMAIN s}

LEMMA SinElementos ==
    ASSUME NEW S, NEW s \in Seq(S), NEW x, \E i \in DOMAIN s : s[i] = x,
           \A i, j \in DOMAIN s : i # j => s[i] # s[j]
    PROVE  /\ Elementos(Sin(s, x)) = Elementos(s) \ {x}
           /\ \A i, j \in DOMAIN Sin(s, x) : i # j => Sin(s, x)[i] # Sin(s, x)[j]
<1> DEFINE m == CHOOSE k \in DOMAIN s : s[k] = x
           r == [j \in 1 .. Len(s) - 1 |-> IF j < m THEN s[j] ELSE s[j + 1]]
<1>1. m \in 1 .. Len(s) /\ s[m] = x /\ Len(s) \in Nat /\ DOMAIN s = 1 .. Len(s)
  OBVIOUS
<1>2. Sin(s, x) = r /\ DOMAIN r = 1 .. Len(s) - 1
  BY <1>1 DEF Sin
<1> HIDE DEF m
<1>3. \A j \in 1 .. Len(s) - 1 : r[j] = IF j < m THEN s[j] ELSE s[j + 1]
  OBVIOUS
<1> HIDE DEF r
<1>4. \A i, j \in DOMAIN r : i # j => r[i] # r[j]
  <2> SUFFICES ASSUME NEW i \in 1 .. Len(s) - 1, NEW j \in 1 .. Len(s) - 1, i # j PROVE r[i] # r[j]
    BY <1>2
  <2>1. i \in 1 .. Len(s) /\ i + 1 \in 1 .. Len(s) /\ j \in 1 .. Len(s) /\ j + 1 \in 1 .. Len(s)
    BY <1>1
  <2> QED
    BY <1>1, <1>3, <2>1
<1>5. \A i \in DOMAIN r : r[i] \in {s[k] : k \in DOMAIN s} \ {x}
  <2> SUFFICES ASSUME NEW i \in 1 .. Len(s) - 1 PROVE r[i] \in {s[k] : k \in DOMAIN s} \ {x}
    BY <1>2
  <2>1. i \in 1 .. Len(s) /\ i + 1 \in 1 .. Len(s)
    BY <1>1
  <2>2. CASE i < m
    BY <1>1, <1>3, <2>1, <2>2
  <2>3. CASE ~(i < m)
    <3>1. r[i] = s[i + 1] /\ i + 1 # m
      BY <1>1, <1>3, <2>1, <2>3
    <3> QED
      BY <1>1, <2>1, <3>1
  <2> QED
    BY <2>2, <2>3
<1>6. \A k \in DOMAIN s : s[k] # x => \E i \in DOMAIN r : r[i] = s[k]
  <2> SUFFICES ASSUME NEW k \in 1 .. Len(s), s[k] # x PROVE \E i \in 1 .. Len(s) - 1 : r[i] = s[k]
    BY <1>1, <1>2
  <2>1. CASE k < m
    <3>1. k \in 1 .. Len(s) - 1
      BY <1>1, <2>1
    <3> QED
      BY <1>3, <2>1, <3>1
  <2>2. CASE k > m
    <3>1. k - 1 \in 1 .. Len(s) - 1 /\ ~(k - 1 < m) /\ (k - 1) + 1 = k
      BY <1>1, <2>2
    <3> QED
      BY <1>3, <3>1
  <2> QED
    BY <1>1, <2>1, <2>2
<1>7. Elementos(r) = Elementos(s) \ {x}
  BY <1>5, <1>6 DEF Elementos
<1> QED
  BY <1>2, <1>4, <1>7

LEMMA ElementosDe == Conectadas = Elementos(cpus) /\ EnReady = Elementos(colaReady)
BY DEF Conectadas, EnReady, Elementos

LEMMA SinCPU ==
    ASSUME TypeOK, HilosInv, NEW c \in Conectadas, cpus' = Sin(cpus, c)
    PROVE  Conectadas' = Conectadas \ {c} /\ SinRepetir'
<1>1. (\E i \in DOMAIN cpus : cpus[i] = c) /\ \A i, j \in DOMAIN cpus : i # j => cpus[i] # cpus[j]
  BY DEF HilosInv, SinRepetir, Conectadas
<1>2. cpus \in Seq(Cpus)
  BY DEF TypeOK, TipoCPUs
<1>3. Elementos(Sin(cpus, c)) = Elementos(cpus) \ {c}
  BY <1>1, <1>2, SinElementos
<1>4. \A i, j \in DOMAIN Sin(cpus, c) : i # j => Sin(cpus, c)[i] # Sin(cpus, c)[j]
  BY <1>1, <1>2, SinElementos
<1>5. Conectadas' = Elementos(Sin(cpus, c)) /\ Conectadas = Elementos(cpus)
  BY DEF Conectadas, Elementos
<1> QED
  BY <1>3, <1>4, <1>5 DEF SinRepetir

LEMMA ApagadasFrame ==
    ASSUME HilosInv, Conectadas' \subseteq Conectadas,
           \A c \in Cpus :
              estado'[c] \in {"apagada", "conectando"} => estado[c] \in {"apagada", "conectando"}
    PROVE  Apagadas'
BY DEF HilosInv, Apagadas

LEMMA SinRepetirFrame == ASSUME HilosInv, UNCHANGED cpus PROVE SinRepetir'
BY DEF HilosInv, SinRepetir

LEMMA HeadDeReady == ASSUME TypeOK, colaReady # <<>> PROVE Head(colaReady) \in PID
BY HeadTailProperties DEF TypeOK, TipoColas

(* A step of one thread that lists everybody, and the CPUs, as they were.  *)
LEMMA HilosPaso ==
    ASSUME MutexInv, HilosInv, NEW t \in Hilos, Quietos({t}),
           (Mano(t) /\ Nuevo(t) /\ Propio(t) /\ Avisa(t))', Elige(t)',
           UNCHANGED <<cpus, ultimoPID>>, colaExit \subseteq colaExit', programas \subseteq programas',
           paso[t] # "cargar_programa",
           UNCHANGED <<cpus, ocupada, mutexCPU>> \/ mutexCPU \in {t} \cup {Nadie},
           \A d \in Cpus :
              estado'[d] \in {"apagada", "conectando"} => estado[d] \in {"apagada", "conectando"}
    PROVE  HilosInv'
<1>1. \A u \in Hilos \ {t} : (Mano(u) /\ Nuevo(u) /\ Propio(u) /\ Avisa(u))'
  BY HilosFrame
<1>2. \A u \in Hilos \ {t} : Elige(u)'
  BY EligeFrame
<1>3. Listados' /\ SinRepetir' /\ Apagadas'
  BY ListadosFrame, SinRepetirFrame, ApagadasFrame DEF Conectadas
<1> QED
  BY <1>1, <1>2, <1>3 DEF HilosInv

LEMMA Hi_cargar_programa ==
    ASSUME MutexInv, HilosInv, NEW t \in Hilos, cargar_programa(t)
    PROVE  HilosInv'
<1>1. TypeOK
  BY DEF MutexInv, TypeInv
<1>2. Mano(t)' /\ Nuevo(t)' /\ Propio(t)' /\ Avisa(t)'
  <2>1. Mano(t) /\ Nuevo(t) /\ Propio(t) /\ Avisa(t) /\ Lleva(t) /\ t \in Hilos
    BY ThreadFacts DEF HilosInv, MutexInv, TypeInv, CadaUnoLleva
  <2>2. Mano(t)'
    BY <1>1, <2>1, Ef_cargar_programa, FinalDe, ThreadFacts, HilosDistintos
       DEF Va, Mano, Lleva, ConPCB, Regresos, Propio, ConProceso
  <2>3. Nuevo(t)'
    BY <1>1, <2>1, Ef_cargar_programa, FinalDe, ThreadFacts, HilosDistintos
       DEF Va, Nuevo, Propio, PasosNuevo, Lleva, Regresos
  <2>4. Propio(t)'
    BY <1>1, <2>1, Ef_cargar_programa, FinalDe, ThreadFacts, HilosDistintos
       DEF Va, Propio, PasosSrv, Lleva, Regresos, Nuevo
  <2>5. Avisa(t)'
    BY <1>1, <2>1, Ef_cargar_programa, FinalDe, ThreadFacts, HilosDistintos
       DEF Va, Avisa, Propio, Lleva, Regresos
  <2> QED
    BY <2>2, <2>3, <2>4, <2>5
<1>3. Elige(t)'
  <2>1. Elige(t) /\ Lleva(t) /\ Propio(t)
    BY ThreadFacts DEF HilosInv, MutexInv, TypeInv, CadaUnoLleva
  <2> QED
    BY <1>1, <2>1, Ef_cargar_programa, FinalDe, ThreadFacts
       DEF Va, Elige, Conectadas, Lleva, Regresos, Propio
<1>4. \A u \in Hilos \ {t} : (Mano(u) /\ Nuevo(u) /\ Propio(u) /\ Avisa(u))'
  BY <1>1, Ef_cargar_programa, HilosFrame
<1>5. \A u \in Hilos \ {t} : Elige(u)'
  <2>1. UNCHANGED <<cpus, ocupada, mutexCPU>> \/ mutexCPU \in {t} \cup {Nadie}
    BY <1>1, Ef_cargar_programa DEF HilosInv, Elige
  <2> QED
    BY <1>1, <2>1, Ef_cargar_programa, EligeFrame
<1>6. Listados'
  <2>1. \A p \in PID : t = Programa(p) /\ paso[t] = "cargar_programa" => pid[t] = p
    <3>1. \A p \in PID : Programa(p)[2] = p
      BY DEF Programa
    <3>2. Nuevo(t)
      BY DEF HilosInv
    <3> QED
      BY <3>1, <3>2 DEF Nuevo, PasosNuevo
  <2> SUFFICES ASSUME NEW p \in PID, p < ultimoPID', p \notin colaExit'
               PROVE  p \in programas' \/ paso'[Programa(p)] = "cargar_programa"
    BY DEF Listados
  <2>2. p \in programas \/ paso[Programa(p)] = "cargar_programa"
    BY <1>1, Ef_cargar_programa DEF HilosInv, Listados
  <2> QED
    BY <1>1, <2>1, <2>2, Ef_cargar_programa, ThreadFacts DEF Quietos
<1>7. SinRepetir'
  BY <1>1, Ef_cargar_programa, SinRepetirFrame
<1>8. Apagadas'
  BY <1>1, Ef_cargar_programa, ApagadasFrame DEF Conectadas
<1> QED
  BY <1>2, <1>3, <1>4, <1>5, <1>6, <1>7, <1>8 DEF HilosInv

LEMMA Hi_moverA_colaNew ==
    ASSUME MutexInv, HilosInv, NEW t \in Hilos, moverA_colaNew(t)
    PROVE  HilosInv'
<1>1. TypeOK
  BY DEF MutexInv, TypeInv
<1>2. Mano(t)' /\ Nuevo(t)' /\ Propio(t)' /\ Avisa(t)'
  <2>1. Mano(t) /\ Nuevo(t) /\ Propio(t) /\ Avisa(t) /\ Lleva(t) /\ t \in Hilos
    BY ThreadFacts DEF HilosInv, MutexInv, TypeInv, CadaUnoLleva
  <2>2. Mano(t)'
    BY <1>1, <2>1, Ef_moverA_colaNew, FinalDe, ThreadFacts, HilosDistintos
       DEF Va, Mano, Lleva, ConPCB, Regresos, Propio, ConProceso
  <2>3. Nuevo(t)'
    BY <1>1, <2>1, Ef_moverA_colaNew, FinalDe, ThreadFacts, HilosDistintos
       DEF Va, Nuevo, Propio, PasosNuevo, Lleva, Regresos
  <2>4. Propio(t)'
    BY <1>1, <2>1, Ef_moverA_colaNew, FinalDe, ThreadFacts, HilosDistintos
       DEF Va, Propio, PasosSrv, Lleva, Regresos, Nuevo
  <2>5. Avisa(t)'
    BY <1>1, <2>1, Ef_moverA_colaNew, FinalDe, ThreadFacts, HilosDistintos
       DEF Va, Avisa, Propio, Lleva, Regresos
  <2> QED
    BY <2>2, <2>3, <2>4, <2>5
<1>3. Elige(t)'
  <2>1. Elige(t) /\ Lleva(t) /\ Propio(t)
    BY ThreadFacts DEF HilosInv, MutexInv, TypeInv, CadaUnoLleva
  <2> QED
    BY <1>1, <2>1, Ef_moverA_colaNew, FinalDe, ThreadFacts
       DEF Va, Elige, Conectadas, Lleva, Regresos, Propio
<1>4. UNCHANGED <<cpus, ocupada, mutexCPU>> \/ mutexCPU \in {t} \cup {Nadie}
  BY <1>1, Ef_moverA_colaNew DEF HilosInv, Elige
<1> QED
  BY <1>1, <1>2, <1>3, <1>4, Ef_moverA_colaNew, ThreadFacts, HilosPaso

LEMMA Hi_sem_wait ==
    ASSUME MutexInv, HilosInv, NEW t \in Hilos, sem_wait(t)
    PROVE  HilosInv'
<1>1. TypeOK
  BY DEF MutexInv, TypeInv
<1>2. Mano(t)' /\ Nuevo(t)' /\ Propio(t)' /\ Avisa(t)'
  <2>1. Mano(t) /\ Nuevo(t) /\ Propio(t) /\ Avisa(t) /\ Lleva(t) /\ t \in Hilos
    BY ThreadFacts DEF HilosInv, MutexInv, TypeInv, CadaUnoLleva
  <2>2. Mano(t)'
    BY <1>1, <2>1, Ef_sem_wait, FinalDe, ThreadFacts, HilosDistintos
       DEF Va, Mano, Lleva, ConPCB, Regresos, Propio, ConProceso
  <2>3. Nuevo(t)'
    BY <1>1, <2>1, Ef_sem_wait, FinalDe, ThreadFacts, HilosDistintos
       DEF Va, Nuevo, Propio, PasosNuevo, Lleva, Regresos
  <2>4. Propio(t)'
    BY <1>1, <2>1, Ef_sem_wait, FinalDe, ThreadFacts, HilosDistintos
       DEF Va, Propio, PasosSrv, Lleva, Regresos, Nuevo
  <2>5. Avisa(t)'
    BY <1>1, <2>1, Ef_sem_wait, FinalDe, ThreadFacts, HilosDistintos
       DEF Va, Avisa, Propio, Lleva, Regresos
  <2> QED
    BY <2>2, <2>3, <2>4, <2>5
<1>3. Elige(t)'
  <2>1. Elige(t) /\ Lleva(t) /\ Propio(t)
    BY ThreadFacts DEF HilosInv, MutexInv, TypeInv, CadaUnoLleva
  <2> QED
    BY <1>1, <2>1, Ef_sem_wait, FinalDe, ThreadFacts
       DEF Va, Elige, Conectadas, Lleva, Regresos, Propio
<1>4. UNCHANGED <<cpus, ocupada, mutexCPU>> \/ mutexCPU \in {t} \cup {Nadie}
  BY <1>1, Ef_sem_wait DEF HilosInv, Elige
<1> QED
  BY <1>1, <1>2, <1>3, <1>4, Ef_sem_wait, ThreadFacts, HilosPaso

LEMMA Hi_inicializar_programa ==
    ASSUME MutexInv, HilosInv, NEW t \in Hilos, inicializar_programa(t)
    PROVE  HilosInv'
<1>1. TypeOK
  BY DEF MutexInv, TypeInv
<1>2. Mano(t)' /\ Nuevo(t)' /\ Propio(t)' /\ Avisa(t)'
  <2>1. Mano(t) /\ Nuevo(t) /\ Propio(t) /\ Avisa(t) /\ Lleva(t) /\ t \in Hilos
    BY ThreadFacts DEF HilosInv, MutexInv, TypeInv, CadaUnoLleva
  <2>a. pid[t] \in PID /\ pid[t] # SinPid
    <3>1. pid[t] \in colaNew
      BY <1>1, Ef_inicializar_programa
    <3>2. colaNew \subseteq PID
      BY <1>1 DEF TypeOK, TipoColas
    <3> QED
      BY <3>1, <3>2, ThreadFacts
  <2>b. paso'[t] \in ConPCB /\ pcb'[t] = pid[t]
    BY <1>1, Ef_inicializar_programa DEF Va, ConPCB
  <2>2. Mano(t)'
    BY <2>a, <2>b DEF Mano
  <2>3. Nuevo(t)'
    BY <1>1, <2>1, Ef_inicializar_programa, FinalDe, ThreadFacts, HilosDistintos
       DEF Va, Nuevo, Propio, PasosNuevo, Lleva, Regresos, TypeOK, TipoColas
  <2>4. Propio(t)'
    BY <1>1, <2>1, Ef_inicializar_programa, FinalDe, ThreadFacts, HilosDistintos
       DEF Va, Propio, PasosSrv, Lleva, Regresos, Nuevo, TypeOK, TipoColas
  <2>5. Avisa(t)'
    BY <1>1, <2>1, Ef_inicializar_programa, FinalDe, ThreadFacts, HilosDistintos
       DEF Va, Avisa, Propio, Lleva, Regresos, TypeOK, TipoColas
  <2> QED
    BY <2>2, <2>3, <2>4, <2>5
<1>3. Elige(t)'
  <2>1. Elige(t) /\ Lleva(t) /\ Propio(t)
    BY ThreadFacts DEF HilosInv, MutexInv, TypeInv, CadaUnoLleva
  <2> QED
    BY <1>1, <2>1, Ef_inicializar_programa, FinalDe, ThreadFacts
       DEF Va, Elige, Conectadas, Lleva, Regresos, Propio
<1>4. UNCHANGED <<cpus, ocupada, mutexCPU>> \/ mutexCPU \in {t} \cup {Nadie}
  BY <1>1, Ef_inicializar_programa DEF HilosInv, Elige
<1> QED
  BY <1>1, <1>2, <1>3, <1>4, Ef_inicializar_programa, ThreadFacts, HilosPaso

LEMMA Hi_moverA_colaReady ==
    ASSUME MutexInv, HilosInv, NEW t \in Hilos, moverA_colaReady(t)
    PROVE  HilosInv'
<1>1. TypeOK
  BY DEF MutexInv, TypeInv
<1>2. Mano(t)' /\ Nuevo(t)' /\ Propio(t)' /\ Avisa(t)'
  <2>1. Mano(t) /\ Nuevo(t) /\ Propio(t) /\ Avisa(t) /\ Lleva(t) /\ t \in Hilos
    BY ThreadFacts DEF HilosInv, MutexInv, TypeInv, CadaUnoLleva
  <2>2. Mano(t)'
    BY <1>1, <2>1, Ef_moverA_colaReady, FinalDe, ThreadFacts, HilosDistintos
       DEF Va, Mano, Lleva, ConPCB, Regresos, Propio, ConProceso
  <2>3. Nuevo(t)'
    BY <1>1, <2>1, Ef_moverA_colaReady, FinalDe, ThreadFacts, HilosDistintos
       DEF Va, Nuevo, Propio, PasosNuevo, Lleva, Regresos
  <2>4. Propio(t)'
    BY <1>1, <2>1, Ef_moverA_colaReady, FinalDe, ThreadFacts, HilosDistintos
       DEF Va, Propio, PasosSrv, Lleva, Regresos, Nuevo
  <2>5. Avisa(t)'
    BY <1>1, <2>1, Ef_moverA_colaReady, FinalDe, ThreadFacts, HilosDistintos
       DEF Va, Avisa, Propio, Lleva, Regresos
  <2> QED
    BY <2>2, <2>3, <2>4, <2>5
<1>3. Elige(t)'
  <2>1. Elige(t) /\ Lleva(t) /\ Propio(t)
    BY ThreadFacts DEF HilosInv, MutexInv, TypeInv, CadaUnoLleva
  <2> QED
    BY <1>1, <2>1, Ef_moverA_colaReady, FinalDe, ThreadFacts
       DEF Va, Elige, Conectadas, Lleva, Regresos, Propio
<1>4. UNCHANGED <<cpus, ocupada, mutexCPU>> \/ mutexCPU \in {t} \cup {Nadie}
  BY <1>1, Ef_moverA_colaReady DEF HilosInv, Elige
<1> QED
  BY <1>1, <1>2, <1>3, <1>4, Ef_moverA_colaReady, ThreadFacts, HilosPaso

LEMMA Hi_moverA_colaExit ==
    ASSUME MutexInv, HilosInv, NEW t \in Hilos, moverA_colaExit(t)
    PROVE  HilosInv'
<1>1. TypeOK
  BY DEF MutexInv, TypeInv
<1>2. Mano(t)' /\ Nuevo(t)' /\ Propio(t)' /\ Avisa(t)'
  <2>1. Mano(t) /\ Nuevo(t) /\ Propio(t) /\ Avisa(t) /\ Lleva(t) /\ t \in Hilos
    BY ThreadFacts DEF HilosInv, MutexInv, TypeInv, CadaUnoLleva
  <2>2. Mano(t)'
    BY <1>1, <2>1, Ef_moverA_colaExit, FinalDe, ThreadFacts, HilosDistintos
       DEF Va, Mano, Lleva, ConPCB, Regresos, Propio, ConProceso
  <2>3. Nuevo(t)'
    BY <1>1, <2>1, Ef_moverA_colaExit, FinalDe, ThreadFacts, HilosDistintos
       DEF Va, Nuevo, Propio, PasosNuevo, Lleva, Regresos
  <2>4. Propio(t)'
    BY <1>1, <2>1, Ef_moverA_colaExit, FinalDe, ThreadFacts, HilosDistintos
       DEF Va, Propio, PasosSrv, Lleva, Regresos, Nuevo
  <2>5. Avisa(t)'
    BY <1>1, <2>1, Ef_moverA_colaExit, FinalDe, ThreadFacts, HilosDistintos
       DEF Va, Avisa, Propio, Lleva, Regresos
  <2> QED
    BY <2>2, <2>3, <2>4, <2>5
<1>3. Elige(t)'
  <2>1. Elige(t) /\ Lleva(t) /\ Propio(t)
    BY ThreadFacts DEF HilosInv, MutexInv, TypeInv, CadaUnoLleva
  <2> QED
    BY <1>1, <2>1, Ef_moverA_colaExit, FinalDe, ThreadFacts
       DEF Va, Elige, Conectadas, Lleva, Regresos, Propio
<1>4. UNCHANGED <<cpus, ocupada, mutexCPU>> \/ mutexCPU \in {t} \cup {Nadie}
  BY <1>1, Ef_moverA_colaExit DEF HilosInv, Elige
<1> QED
  BY <1>1, <1>2, <1>3, <1>4, Ef_moverA_colaExit, ThreadFacts, HilosPaso

LEMMA Hi_finalizarProcesoMemoria ==
    ASSUME MutexInv, HilosInv, NEW t \in Hilos, finalizarProcesoMemoria(t)
    PROVE  HilosInv'
<1>1. TypeOK
  BY DEF MutexInv, TypeInv
<1>2. Mano(t)' /\ Nuevo(t)' /\ Propio(t)' /\ Avisa(t)'
  <2>1. Mano(t) /\ Nuevo(t) /\ Propio(t) /\ Avisa(t) /\ Lleva(t) /\ t \in Hilos
    BY ThreadFacts DEF HilosInv, MutexInv, TypeInv, CadaUnoLleva
  <2>2. Mano(t)'
    BY <1>1, <2>1, Ef_finalizarProcesoMemoria, FinalDe, ThreadFacts, HilosDistintos
       DEF Va, Mano, Lleva, ConPCB, Regresos, Propio, ConProceso
  <2>3. Nuevo(t)'
    BY <1>1, <2>1, Ef_finalizarProcesoMemoria, FinalDe, ThreadFacts, HilosDistintos
       DEF Va, Nuevo, Propio, PasosNuevo, Lleva, Regresos
  <2>4. Propio(t)'
    BY <1>1, <2>1, Ef_finalizarProcesoMemoria, FinalDe, ThreadFacts, HilosDistintos
       DEF Va, Propio, PasosSrv, Lleva, Regresos, Nuevo
  <2>5. Avisa(t)'
    <3>1. Va(t, "END_PRGM", vuelve[t], pcb[t], pid[t]) /\ colaExit' = colaExit /\ paso[t] = "FINZ_PROGM"
      BY <1>1, Ef_finalizarProcesoMemoria
    <3> QED
      BY <2>1, <3>1 DEF Va, Avisa
  <2> QED
    BY <2>2, <2>3, <2>4, <2>5
<1>3. Elige(t)'
  <2>1. Elige(t) /\ Lleva(t) /\ Propio(t)
    BY ThreadFacts DEF HilosInv, MutexInv, TypeInv, CadaUnoLleva
  <2> QED
    BY <1>1, <2>1, Ef_finalizarProcesoMemoria, FinalDe, ThreadFacts
       DEF Va, Elige, Conectadas, Lleva, Regresos, Propio
<1>4. UNCHANGED <<cpus, ocupada, mutexCPU>> \/ mutexCPU \in {t} \cup {Nadie}
  BY <1>1, Ef_finalizarProcesoMemoria DEF HilosInv, Elige
<1> QED
  BY <1>1, <1>2, <1>3, <1>4, Ef_finalizarProcesoMemoria, ThreadFacts, HilosPaso

LEMMA Hi_finishProcess ==
    ASSUME MutexInv, HilosInv, NEW t \in Hilos, finishProcess(t)
    PROVE  HilosInv'
<1>1. TypeOK
  BY DEF MutexInv, TypeInv
<1>2. Mano(t)' /\ Nuevo(t)' /\ Propio(t)' /\ Avisa(t)'
  <2>1. Mano(t) /\ Nuevo(t) /\ Propio(t) /\ Avisa(t) /\ Lleva(t) /\ t \in Hilos
    BY ThreadFacts DEF HilosInv, MutexInv, TypeInv, CadaUnoLleva
  <2>2. Mano(t)'
    BY <1>1, <2>1, Ef_finishProcess, FinalDe, ThreadFacts, HilosDistintos
       DEF Va, Mano, Lleva, ConPCB, Regresos, Propio, ConProceso
  <2>3. Nuevo(t)'
    BY <1>1, <2>1, Ef_finishProcess, FinalDe, ThreadFacts, HilosDistintos
       DEF Va, Nuevo, Propio, PasosNuevo, Lleva, Regresos
  <2>4. Propio(t)'
    BY <1>1, <2>1, Ef_finishProcess, FinalDe, ThreadFacts, HilosDistintos
       DEF Va, Propio, PasosSrv, Lleva, Regresos, Nuevo
  <2>5. Avisa(t)'
    BY <1>1, <2>1, Ef_finishProcess, FinalDe, ThreadFacts, HilosDistintos
       DEF Va, Avisa, Propio, Lleva, Regresos
  <2> QED
    BY <2>2, <2>3, <2>4, <2>5
<1>3. Elige(t)'
  <2>1. Elige(t) /\ Lleva(t) /\ Propio(t)
    BY ThreadFacts DEF HilosInv, MutexInv, TypeInv, CadaUnoLleva
  <2> QED
    BY <1>1, <2>1, Ef_finishProcess, FinalDe, ThreadFacts
       DEF Va, Elige, Conectadas, Lleva, Regresos, Propio
<1>4. \A u \in Hilos \ {t} : (Mano(u) /\ Nuevo(u) /\ Propio(u) /\ Avisa(u))'
  BY <1>1, Ef_finishProcess, HilosFrame
<1>5. \A u \in Hilos \ {t} : Elige(u)'
  <2>1. UNCHANGED <<cpus, ocupada, mutexCPU>> \/ mutexCPU \in {t} \cup {Nadie}
    BY <1>1, Ef_finishProcess DEF HilosInv, Elige
  <2> QED
    BY <1>1, <2>1, Ef_finishProcess, EligeFrame
<1>6. Listados'
  <2>1. pid[t] \in colaExit
    BY <1>1, Ef_finishProcess DEF HilosInv, Avisa
  <2> SUFFICES ASSUME NEW p \in PID, p < ultimoPID', p \notin colaExit'
               PROVE  p \in programas' \/ paso'[Programa(p)] = "cargar_programa"
    BY DEF Listados
  <2>2. p \in programas \/ paso[Programa(p)] = "cargar_programa"
    BY <1>1, Ef_finishProcess DEF HilosInv, Listados
  <2> QED
    BY <1>1, <2>1, <2>2, Ef_finishProcess, ThreadFacts DEF Quietos
<1>7. SinRepetir'
  BY <1>1, Ef_finishProcess, SinRepetirFrame
<1>8. Apagadas'
  BY <1>1, Ef_finishProcess, ApagadasFrame DEF Conectadas
<1> QED
  BY <1>2, <1>3, <1>4, <1>5, <1>6, <1>7, <1>8 DEF HilosInv

LEMMA Hi_enviar_a_cpu ==
    ASSUME MutexInv, HilosInv, NEW t \in Hilos, enviar_a_cpu(t)
    PROVE  HilosInv'
<1>1. TypeOK
  BY DEF MutexInv, TypeInv
<1>2. Mano(t)' /\ Nuevo(t)' /\ Propio(t)' /\ Avisa(t)'
  <2>1. Mano(t) /\ Nuevo(t) /\ Propio(t) /\ Avisa(t) /\ Lleva(t) /\ t \in Hilos
    BY ThreadFacts DEF HilosInv, MutexInv, TypeInv, CadaUnoLleva
  <2>2. Mano(t)'
    BY <1>1, <2>1, Ef_enviar_a_cpu, FinalDe, ThreadFacts, HilosDistintos
       DEF Va, Mano, Lleva, ConPCB, Regresos, Propio, ConProceso
  <2>3. Nuevo(t)'
    <3>1. Final(t) \notin PasosNuevo
      BY FinalDe DEF PasosNuevo
    <3>2. paso'[t] \notin PasosNuevo
      BY <1>1, <3>1, Ef_enviar_a_cpu DEF Va, PasosNuevo
    <3> QED
      BY <3>2 DEF Nuevo
  <2>4. Propio(t)'
    <3>1. t # SrvCPU => Final(t) = "nada"
      BY FinalDe
    <3>2. t # SrvCPU => paso'[t] \notin PasosSrv
      BY <1>1, <3>1, Ef_enviar_a_cpu DEF Va, PasosSrv
    <3>3. vuelve'[t] = vuelve[t]
      BY <1>1, Ef_enviar_a_cpu DEF Va
    <3> QED
      BY <2>1, <3>2, <3>3 DEF Propio
  <2>5. Avisa(t)'
    BY <1>1, <2>1, Ef_enviar_a_cpu, FinalDe, ThreadFacts, HilosDistintos
       DEF Va, Avisa, Propio, Lleva, Regresos
  <2> QED
    BY <2>2, <2>3, <2>4, <2>5
<1>3. Elige(t)'
  <2>1. Elige(t)
    BY DEF HilosInv
  <2>2. Final(t) \notin {"sacarCualquieraDeReady", "relacionar", "CORRER_PCB"}
    BY FinalDe
  <2>3. CASE paso'[t] = Final(t)
    BY <2>2, <2>3 DEF Elige
  <2>4. CASE paso'[t] # Final(t)
    BY <1>1, <2>4, Ef_enviar_a_cpu DEF Va, Elige, Conectadas
  <2> QED
    BY <2>3, <2>4
<1>4. UNCHANGED <<cpus, ocupada, mutexCPU>> \/ mutexCPU \in {t} \cup {Nadie}
  BY <1>1, Ef_enviar_a_cpu DEF HilosInv, Elige
<1> QED
  BY <1>1, <1>2, <1>3, <1>4, Ef_enviar_a_cpu, ThreadFacts, HilosPaso

LEMMA Hi_sacarCualquieraDeReady ==
    ASSUME MutexInv, HilosInv, NEW t \in Hilos, sacarCualquieraDeReady(t)
    PROVE  HilosInv'
<1>1. TypeOK
  BY DEF MutexInv, TypeInv
<1>2. Mano(t)' /\ Nuevo(t)' /\ Propio(t)' /\ Avisa(t)'
  <2>1. Mano(t) /\ Nuevo(t) /\ Propio(t) /\ Avisa(t) /\ Lleva(t) /\ t \in Hilos
    BY ThreadFacts DEF HilosInv, MutexInv, TypeInv, CadaUnoLleva
  <2>2. Mano(t)'
    BY <1>1, <2>1, Ef_sacarCualquieraDeReady, FinalDe, ThreadFacts, HilosDistintos, HeadDeReady, ZenonT(60)
       DEF Va, Mano, Lleva, ConPCB, Regresos, Propio, ConProceso
  <2>3. Nuevo(t)'
    <3>1. Final(t) \notin PasosNuevo
      BY FinalDe DEF PasosNuevo
    <3>2. paso'[t] \notin PasosNuevo
      BY <1>1, <3>1, Ef_sacarCualquieraDeReady DEF Va, PasosNuevo
    <3> QED
      BY <3>2 DEF Nuevo
  <2>4. Propio(t)'
    <3>1. t # SrvCPU => Final(t) = "nada"
      BY FinalDe
    <3>2. t # SrvCPU => paso'[t] \notin PasosSrv
      BY <1>1, <3>1, Ef_sacarCualquieraDeReady DEF Va, PasosSrv
    <3>3. vuelve'[t] = vuelve[t]
      BY <1>1, Ef_sacarCualquieraDeReady DEF Va
    <3> QED
      BY <2>1, <3>2, <3>3 DEF Propio
  <2>5. Avisa(t)'
    BY <1>1, <2>1, Ef_sacarCualquieraDeReady, FinalDe, ThreadFacts, HilosDistintos, HeadDeReady
       DEF Va, Avisa, Propio, Lleva, Regresos
  <2> QED
    BY <2>2, <2>3, <2>4, <2>5
<1>3. Elige(t)'
  <2>1. Elige(t)
    BY DEF HilosInv
  <2>2. Final(t) \notin {"sacarCualquieraDeReady", "relacionar", "CORRER_PCB"}
    BY FinalDe
  <2>3. CASE paso'[t] = Final(t)
    BY <2>2, <2>3 DEF Elige
  <2>4. CASE paso'[t] # Final(t)
    <3>1. paso'[t] = "relacionar" /\ paso[t] = "sacarCualquieraDeReady" /\ sock'[t] = sock[t]
          /\ UNCHANGED <<mutexCPU, cpus, ocupada>>
      BY <1>1, <2>4, Ef_sacarCualquieraDeReady DEF Va
    <3> QED
      BY <2>1, <3>1 DEF Elige, Conectadas
  <2> QED
    BY <2>3, <2>4
<1>4. UNCHANGED <<cpus, ocupada, mutexCPU>> \/ mutexCPU \in {t} \cup {Nadie}
  BY <1>1, Ef_sacarCualquieraDeReady DEF HilosInv, Elige
<1> QED
  BY <1>1, <1>2, <1>3, <1>4, Ef_sacarCualquieraDeReady, ThreadFacts, HilosPaso

LEMMA Hi_relacionar ==
    ASSUME MutexInv, HilosInv, NEW t \in Hilos, relacionar(t)
    PROVE  HilosInv'
<1>1. TypeOK
  BY DEF MutexInv, TypeInv
<1>2. Mano(t)' /\ Nuevo(t)' /\ Propio(t)' /\ Avisa(t)'
  <2>1. Mano(t) /\ Nuevo(t) /\ Propio(t) /\ Avisa(t) /\ Lleva(t) /\ t \in Hilos
    BY ThreadFacts DEF HilosInv, MutexInv, TypeInv, CadaUnoLleva
  <2>2. Mano(t)'
    BY <1>1, <2>1, Ef_relacionar, FinalDe, ThreadFacts, HilosDistintos
       DEF Va, Mano, Lleva, ConPCB, Regresos, Propio, ConProceso
  <2>3. Nuevo(t)'
    <3>1. Final(t) \notin PasosNuevo
      BY FinalDe DEF PasosNuevo
    <3>2. paso'[t] \notin PasosNuevo
      BY <1>1, <3>1, Ef_relacionar DEF Va, PasosNuevo
    <3> QED
      BY <3>2 DEF Nuevo
  <2>4. Propio(t)'
    <3>1. t # SrvCPU => Final(t) = "nada"
      BY FinalDe
    <3>2. t # SrvCPU => paso'[t] \notin PasosSrv
      BY <1>1, <3>1, Ef_relacionar DEF Va, PasosSrv
    <3>3. vuelve'[t] = vuelve[t]
      BY <1>1, Ef_relacionar DEF Va
    <3> QED
      BY <2>1, <3>2, <3>3 DEF Propio
  <2>5. Avisa(t)'
    BY <1>1, <2>1, Ef_relacionar, FinalDe, ThreadFacts, HilosDistintos
       DEF Va, Avisa, Propio, Lleva, Regresos
  <2> QED
    BY <2>2, <2>3, <2>4, <2>5
<1>3. Elige(t)'
  <2>1. Elige(t)
    BY DEF HilosInv
  <2>2. Final(t) \notin {"sacarCualquieraDeReady", "relacionar", "CORRER_PCB"}
    BY FinalDe
  <2>3. sock'[t] = sock[t] /\ sock[t] \in Cpus
    <3>1. Conectadas \subseteq Cpus
      BY <1>1 DEF TypeOK, TipoCPUs, Conectadas
    <3> QED
      BY <1>1, <2>1, <3>1, Ef_relacionar DEF Elige
  <2>4. paso'[t] \in {"CORRER_PCB", Final(t)}
    BY <1>1, Ef_relacionar DEF Va
  <2> QED
    BY <2>2, <2>3, <2>4 DEF Elige
<1>4. UNCHANGED <<cpus, ocupada, mutexCPU>> \/ mutexCPU \in {t} \cup {Nadie}
  BY <1>1, Ef_relacionar DEF HilosInv, Elige
<1> QED
  BY <1>1, <1>2, <1>3, <1>4, Ef_relacionar, ThreadFacts, HilosPaso

LEMMA Hi_correr_pcb ==
    ASSUME MutexInv, HilosInv, NEW t \in Hilos, correr_pcb(t)
    PROVE  HilosInv'
<1>1. TypeOK
  BY DEF MutexInv, TypeInv
<1>2. Mano(t)' /\ Nuevo(t)' /\ Propio(t)' /\ Avisa(t)'
  <2>1. Mano(t) /\ Nuevo(t) /\ Propio(t) /\ Avisa(t) /\ Lleva(t) /\ t \in Hilos
    BY ThreadFacts DEF HilosInv, MutexInv, TypeInv, CadaUnoLleva
  <2>2. Mano(t)'
    BY <1>1, <2>1, Ef_correr_pcb, FinalDe, ThreadFacts, HilosDistintos
       DEF Va, Mano, Lleva, ConPCB, Regresos, Propio, ConProceso
  <2>3. Nuevo(t)'
    <3>1. Final(t) \notin PasosNuevo
      BY FinalDe DEF PasosNuevo
    <3>2. paso'[t] \notin PasosNuevo
      BY <1>1, <3>1, Ef_correr_pcb DEF Va, PasosNuevo
    <3> QED
      BY <3>2 DEF Nuevo
  <2>4. Propio(t)'
    <3>1. t # SrvCPU => Final(t) = "nada"
      BY FinalDe
    <3>2. t # SrvCPU => paso'[t] \notin PasosSrv
      BY <1>1, <3>1, Ef_correr_pcb DEF Va, PasosSrv
    <3>3. vuelve'[t] = vuelve[t]
      BY <1>1, Ef_correr_pcb DEF Va
    <3> QED
      BY <2>1, <3>2, <3>3 DEF Propio
  <2>5. Avisa(t)'
    BY <1>1, <2>1, Ef_correr_pcb, FinalDe, ThreadFacts, HilosDistintos
       DEF Va, Avisa, Propio, Lleva, Regresos
  <2> QED
    BY <2>2, <2>3, <2>4, <2>5
<1>3. Elige(t)'
  <2>1. Elige(t) /\ Lleva(t) /\ Propio(t)
    BY ThreadFacts DEF HilosInv, MutexInv, TypeInv, CadaUnoLleva
  <2> QED
    BY <1>1, <2>1, Ef_correr_pcb, FinalDe, ThreadFacts
       DEF Va, Elige, Conectadas, Lleva, Regresos, Propio
<1>4. \A u \in Hilos \ {t} : (Mano(u) /\ Nuevo(u) /\ Propio(u) /\ Avisa(u))'
  BY <1>1, Ef_correr_pcb, HilosFrame
<1>5. \A u \in Hilos \ {t} : Elige(u)'
  <2>1. UNCHANGED <<cpus, ocupada, mutexCPU>> \/ mutexCPU \in {t} \cup {Nadie}
    BY <1>1, Ef_correr_pcb DEF HilosInv, Elige
  <2> QED
    BY <1>1, <2>1, Ef_correr_pcb, EligeFrame
<1>6. Listados'
  BY <1>1, Ef_correr_pcb, ListadosFrame
<1>7. SinRepetir'
  BY <1>1, Ef_correr_pcb, SinRepetirFrame
<1>8. Apagadas'
  <2>1. UNCHANGED <<cpus, estado>>
    BY <1>1, Ef_correr_pcb
  <2> QED
    BY <2>1, ApagadasFrame DEF Conectadas
<1> QED
  BY <1>2, <1>3, <1>4, <1>5, <1>6, <1>7, <1>8 DEF HilosInv

LEMMA Hi_finalizarProceso ==
    ASSUME MutexInv, HilosInv, NEW t \in Finalizadores, finalizarProceso(t)
    PROVE  HilosInv'
<1>1. TypeOK
  BY DEF MutexInv, TypeInv
<1>2. Mano(t)' /\ Nuevo(t)' /\ Propio(t)' /\ Avisa(t)'
  <2>1. Mano(t) /\ Nuevo(t) /\ Propio(t) /\ Avisa(t) /\ Lleva(t) /\ t \in Hilos
    BY ThreadFacts DEF HilosInv, MutexInv, TypeInv, CadaUnoLleva
  <2>2. Mano(t)'
    BY <1>1, <2>1, Ef_finalizarProceso, FinalDe, ThreadFacts, HilosDistintos
       DEF Va, Mano, Lleva, ConPCB, Regresos, Propio, ConProceso
  <2>3. Nuevo(t)'
    BY <1>1, <2>1, Ef_finalizarProceso, FinalDe, ThreadFacts, HilosDistintos
       DEF Va, Nuevo, Propio, PasosNuevo, Lleva, Regresos
  <2>4. Propio(t)'
    BY <1>1, <2>1, Ef_finalizarProceso, FinalDe, ThreadFacts, HilosDistintos
       DEF Va, Propio, PasosSrv, Lleva, Regresos, Nuevo
  <2>5. Avisa(t)'
    BY <1>1, <2>1, Ef_finalizarProceso, FinalDe, ThreadFacts, HilosDistintos
       DEF Va, Avisa, Propio, Lleva, Regresos
  <2> QED
    BY <2>2, <2>3, <2>4, <2>5
<1>3. Elige(t)'
  <2>1. Elige(t) /\ Lleva(t) /\ Propio(t)
    BY ThreadFacts DEF HilosInv, MutexInv, TypeInv, CadaUnoLleva
  <2> QED
    BY <1>1, <2>1, Ef_finalizarProceso, FinalDe, ThreadFacts
       DEF Va, Elige, Conectadas, Lleva, Regresos, Propio
<1>4. UNCHANGED <<cpus, ocupada, mutexCPU>> \/ mutexCPU \in {t} \cup {Nadie}
  BY <1>1, Ef_finalizarProceso DEF HilosInv, Elige
<1> QED
  BY <1>1, <1>2, <1>3, <1>4, Ef_finalizarProceso, ThreadFacts, HilosPaso

LEMMA Hi_sacarDe_colaReady ==
    ASSUME MutexInv, HilosInv, NEW t \in Finalizadores, sacarDe_colaReady(t)
    PROVE  HilosInv'
<1>1. TypeOK
  BY DEF MutexInv, TypeInv
<1>2. Mano(t)' /\ Nuevo(t)' /\ Propio(t)' /\ Avisa(t)'
  <2>1. Mano(t) /\ Nuevo(t) /\ Propio(t) /\ Avisa(t) /\ Lleva(t) /\ t \in Hilos
    BY ThreadFacts DEF HilosInv, MutexInv, TypeInv, CadaUnoLleva
  <2>2. Mano(t)'
    <3>1. t[2] \in PID
      BY FinalizadorDe
    <3> QED
      BY <1>1, <2>1, <3>1, Ef_sacarDe_colaReady, ThreadFacts DEF Va, Mano, ConPCB
  <2>3. Nuevo(t)'
    BY <1>1, <2>1, Ef_sacarDe_colaReady, FinalDe, ThreadFacts, HilosDistintos
       DEF Va, Nuevo, Propio, PasosNuevo, Lleva, Regresos
  <2>4. Propio(t)'
    BY <1>1, <2>1, Ef_sacarDe_colaReady, FinalDe, ThreadFacts, HilosDistintos
       DEF Va, Propio, PasosSrv, Lleva, Regresos, Nuevo
  <2>5. Avisa(t)'
    BY <1>1, <2>1, Ef_sacarDe_colaReady, FinalDe, ThreadFacts, HilosDistintos
       DEF Va, Avisa, Propio, Lleva, Regresos
  <2> QED
    BY <2>2, <2>3, <2>4, <2>5
<1>3. Elige(t)'
  <2>1. Elige(t) /\ Lleva(t) /\ Propio(t)
    BY ThreadFacts DEF HilosInv, MutexInv, TypeInv, CadaUnoLleva
  <2> QED
    BY <1>1, <2>1, Ef_sacarDe_colaReady, FinalDe, ThreadFacts
       DEF Va, Elige, Conectadas, Lleva, Regresos, Propio
<1>4. UNCHANGED <<cpus, ocupada, mutexCPU>> \/ mutexCPU \in {t} \cup {Nadie}
  BY <1>1, Ef_sacarDe_colaReady DEF HilosInv, Elige
<1> QED
  BY <1>1, <1>2, <1>3, <1>4, Ef_sacarDe_colaReady, ThreadFacts, HilosPaso

LEMMA Hi_nuevaConexionCPU ==
    ASSUME MutexInv, HilosInv, NEW c \in Cpus, nuevaConexionCPU(c)
    PROVE  HilosInv'
<1>1. TypeOK
  BY DEF MutexInv, TypeInv
<1>2. Mano(SrvCPU)' /\ Nuevo(SrvCPU)' /\ Propio(SrvCPU)' /\ Avisa(SrvCPU)'
  <2>1. /\ Mano(SrvCPU) /\ Nuevo(SrvCPU) /\ Propio(SrvCPU) /\ Avisa(SrvCPU)
        /\ Lleva(SrvCPU) /\ SrvCPU \in Hilos
    BY ThreadFacts DEF HilosInv, MutexInv, TypeInv, CadaUnoLleva
  <2>2. Mano(SrvCPU)'
    BY <1>1, <2>1, Ef_nuevaConexionCPU, FinalDe, ThreadFacts, HilosDistintos
       DEF Va, Mano, Lleva, ConPCB, Regresos, Propio, ConProceso
  <2>3. Nuevo(SrvCPU)'
    BY <1>1, <2>1, Ef_nuevaConexionCPU, FinalDe, ThreadFacts, HilosDistintos
       DEF Va, Nuevo, Propio, PasosNuevo, Lleva, Regresos
  <2>4. Propio(SrvCPU)'
    BY <1>1, <2>1, Ef_nuevaConexionCPU, FinalDe, ThreadFacts, HilosDistintos
       DEF Va, Propio, PasosSrv, Lleva, Regresos, Nuevo
  <2>5. Avisa(SrvCPU)'
    BY <1>1, <2>1, Ef_nuevaConexionCPU, FinalDe, ThreadFacts, HilosDistintos
       DEF Va, Avisa, Propio, Lleva, Regresos
  <2> QED
    BY <2>2, <2>3, <2>4, <2>5
<1>3. Elige(SrvCPU)'
  <2>1. Elige(SrvCPU) /\ Lleva(SrvCPU) /\ Propio(SrvCPU)
    BY ThreadFacts DEF HilosInv, MutexInv, TypeInv, CadaUnoLleva
  <2> QED
    BY <1>1, <2>1, Ef_nuevaConexionCPU, FinalDe, ThreadFacts
       DEF Va, Elige, Conectadas, Lleva, Regresos, Propio
<1>4. \A u \in Hilos \ {SrvCPU} : (Mano(u) /\ Nuevo(u) /\ Propio(u) /\ Avisa(u))'
  BY <1>1, Ef_nuevaConexionCPU, HilosFrame
<1>5. \A u \in Hilos \ {SrvCPU} : Elige(u)'
  <2>1. UNCHANGED <<cpus, ocupada, mutexCPU>> \/ mutexCPU \in {SrvCPU} \cup {Nadie}
    BY <1>1, Ef_nuevaConexionCPU DEF HilosInv, Elige
  <2> QED
    BY <1>1, <2>1, Ef_nuevaConexionCPU, EligeFrame
<1>6. Listados'
  BY <1>1, Ef_nuevaConexionCPU, ListadosFrame
<1>7. SinRepetir'
  <2>1. cpus \in Seq(Cpus) /\ cpus' = Append(cpus, c)
    BY <1>1, Ef_nuevaConexionCPU DEF TypeOK, TipoCPUs
  <2>2. c \notin Conectadas
    BY Ef_nuevaConexionCPU, <1>1 DEF HilosInv, Apagadas
  <2> QED
    BY <2>1, <2>2, AppendProperties DEF HilosInv, SinRepetir, Conectadas
<1>8. Apagadas'
  <2>1. cpus \in Seq(Cpus) /\ estado \in [Cpus -> EstadosCPU] /\ cpus' = Append(cpus, c)
        /\ estado' = [estado EXCEPT ![c] = "libre"]
    BY <1>1, Ef_nuevaConexionCPU DEF TypeOK, TipoCPUs
  <2>2. Conectadas' = Conectadas \cup {c}
    BY <2>1, AppendProperties DEF Conectadas
  <2> QED
    BY <2>1, <2>2 DEF HilosInv, Apagadas
<1> QED
  BY <1>2, <1>3, <1>4, <1>5, <1>6, <1>7, <1>8 DEF HilosInv

LEMMA Hi_finishCPU ==
    ASSUME MutexInv, HilosInv, NEW c \in Cpus, finishCPU(c)
    PROVE  HilosInv'
<1>1. TypeOK
  BY DEF MutexInv, TypeInv
<1>4. \A u \in Hilos \ {} : (Mano(u) /\ Nuevo(u) /\ Propio(u) /\ Avisa(u))'
  BY <1>1, Ef_finishCPU, HilosFrame
<1>5. \A u \in Hilos \ {} : Elige(u)'
  <2>1. UNCHANGED <<cpus, ocupada, mutexCPU>> \/ mutexCPU \in {} \cup {Nadie}
    BY <1>1, Ef_finishCPU DEF HilosInv, Elige
  <2> QED
    BY <1>1, <2>1, Ef_finishCPU, EligeFrame
<1>6. Listados'
  BY <1>1, Ef_finishCPU, ListadosFrame
<1>7. SinRepetir'
  BY <1>1, Ef_finishCPU, SinRepetirFrame, SinCPU
<1>8. Apagadas'
  <2>1. Conectadas' \subseteq Conectadas
    <3>1. CASE UNCHANGED cpus
      BY <3>1 DEF Conectadas
    <3>2. CASE c \in Conectadas /\ cpus' = Sin(cpus, c)
      BY <1>1, <3>2, SinCPU
    <3> QED
      BY <1>1, <3>1, <3>2, Ef_finishCPU
  <2> QED
    BY <1>1, <2>1, Ef_finishCPU, ApagadasFrame
<1> QED
  BY <1>4, <1>5, <1>6, <1>7, <1>8 DEF HilosInv

LEMMA Hi_retornarPCB ==
    ASSUME MutexInv, HilosInv, NEW c \in Cpus, retornarPCB(c)
    PROVE  HilosInv'
<1>1. TypeOK
  BY DEF MutexInv, TypeInv
<1>2. Mano(SrvCPU)' /\ Nuevo(SrvCPU)' /\ Propio(SrvCPU)' /\ Avisa(SrvCPU)'
  <2>1. /\ Mano(SrvCPU) /\ Nuevo(SrvCPU) /\ Propio(SrvCPU) /\ Avisa(SrvCPU)
        /\ Lleva(SrvCPU) /\ SrvCPU \in Hilos
    BY ThreadFacts DEF HilosInv, MutexInv, TypeInv, CadaUnoLleva
  <2>2. Mano(SrvCPU)'
    <3>1. ejecuta[c] \in PID
      BY <1>1, Ef_retornarPCB DEF MutexInv, TypeInv, CadaUnoLleva, ConProceso
    <3> QED
      BY <1>1, <2>1, <3>1, Ef_retornarPCB, ThreadFacts DEF Va, Mano, ConPCB
  <2>3. Nuevo(SrvCPU)'
    BY <1>1, <2>1, Ef_retornarPCB, FinalDe, ThreadFacts, HilosDistintos
       DEF Va, Nuevo, Propio, PasosNuevo, Lleva, Regresos
  <2>4. Propio(SrvCPU)'
    BY <1>1, <2>1, Ef_retornarPCB, FinalDe, ThreadFacts, HilosDistintos
       DEF Va, Propio, PasosSrv, Lleva, Regresos, Nuevo
  <2>5. Avisa(SrvCPU)'
    BY <1>1, <2>1, Ef_retornarPCB, FinalDe, ThreadFacts, HilosDistintos
       DEF Va, Avisa, Propio, Lleva, Regresos
  <2> QED
    BY <2>2, <2>3, <2>4, <2>5
<1>3. Elige(SrvCPU)'
  <2>1. Elige(SrvCPU) /\ Lleva(SrvCPU) /\ Propio(SrvCPU)
    BY ThreadFacts DEF HilosInv, MutexInv, TypeInv, CadaUnoLleva
  <2> QED
    BY <1>1, <2>1, Ef_retornarPCB, FinalDe, ThreadFacts
       DEF Va, Elige, Conectadas, Lleva, Regresos, Propio
<1>4. UNCHANGED <<cpus, ocupada, mutexCPU>> \/ mutexCPU \in {SrvCPU} \cup {Nadie}
  BY <1>1, Ef_retornarPCB DEF HilosInv, Elige
<1>5. \A d \in Cpus :
       estado'[d] \in {"apagada", "conectando"} => estado[d] \in {"apagada", "conectando"}
  BY <1>1, Ef_retornarPCB DEF TypeOK, TipoCPUs
<1> QED
  BY <1>1, <1>2, <1>3, <1>4, <1>5, Ef_retornarPCB, ThreadFacts, HilosPaso

LEMMA Hi_retornarPCB_desconectar ==
    ASSUME MutexInv, HilosInv, retornarPCB_desconectar
    PROVE  HilosInv'
<1>1. TypeOK
  BY DEF MutexInv, TypeInv
<1>2. Mano(SrvCPU)' /\ Nuevo(SrvCPU)' /\ Propio(SrvCPU)' /\ Avisa(SrvCPU)'
  <2>1. /\ Mano(SrvCPU) /\ Nuevo(SrvCPU) /\ Propio(SrvCPU) /\ Avisa(SrvCPU)
        /\ Lleva(SrvCPU) /\ SrvCPU \in Hilos
    BY ThreadFacts DEF HilosInv, MutexInv, TypeInv, CadaUnoLleva
  <2>2. Mano(SrvCPU)'
    BY <1>1, <2>1, Ef_retornarPCB_desconectar, FinalDe, ThreadFacts, HilosDistintos
       DEF Va, Mano, Lleva, ConPCB, Regresos, Propio, ConProceso
  <2>3. Nuevo(SrvCPU)'
    BY <1>1, <2>1, Ef_retornarPCB_desconectar, FinalDe, ThreadFacts, HilosDistintos
       DEF Va, Nuevo, Propio, PasosNuevo, Lleva, Regresos
  <2>4. Propio(SrvCPU)'
    BY <1>1, <2>1, Ef_retornarPCB_desconectar, FinalDe, ThreadFacts, HilosDistintos
       DEF Va, Propio, PasosSrv, Lleva, Regresos, Nuevo
  <2>5. Avisa(SrvCPU)'
    BY <1>1, <2>1, Ef_retornarPCB_desconectar, FinalDe, ThreadFacts, HilosDistintos
       DEF Va, Avisa, Propio, Lleva, Regresos
  <2> QED
    BY <2>2, <2>3, <2>4, <2>5
<1>3. Elige(SrvCPU)'
  <2>1. Elige(SrvCPU) /\ Lleva(SrvCPU) /\ Propio(SrvCPU)
    BY ThreadFacts DEF HilosInv, MutexInv, TypeInv, CadaUnoLleva
  <2> QED
    BY <1>1, <2>1, Ef_retornarPCB_desconectar, FinalDe, ThreadFacts
       DEF Va, Elige, Conectadas, Lleva, Regresos, Propio
<1>4. \A u \in Hilos \ {SrvCPU} : (Mano(u) /\ Nuevo(u) /\ Propio(u) /\ Avisa(u))'
  BY <1>1, Ef_retornarPCB_desconectar, HilosFrame
<1>5. \A u \in Hilos \ {SrvCPU} : Elige(u)'
  <2>1. UNCHANGED <<cpus, ocupada, mutexCPU>> \/ mutexCPU \in {SrvCPU} \cup {Nadie}
    BY <1>1, Ef_retornarPCB_desconectar DEF HilosInv, Elige
  <2> QED
    BY <1>1, <2>1, Ef_retornarPCB_desconectar, EligeFrame
<1>6. Listados'
  BY <1>1, Ef_retornarPCB_desconectar, ListadosFrame
<1>7. SinRepetir'
  BY <1>1, Ef_retornarPCB_desconectar, SinRepetirFrame, SinCPU
<1>8. Apagadas'
  <2>1. Conectadas' \subseteq Conectadas
    <3>1. CASE UNCHANGED cpus
      BY <3>1 DEF Conectadas
    <3>2. CASE atendida \in Conectadas /\ cpus' = Sin(cpus, atendida)
      BY <1>1, <3>2, SinCPU
    <3> QED
      BY <1>1, <3>1, <3>2, Ef_retornarPCB_desconectar
  <2> QED
    BY <1>1, <2>1, Ef_retornarPCB_desconectar, ApagadasFrame
<1> QED
  BY <1>2, <1>3, <1>4, <1>5, <1>6, <1>7, <1>8 DEF HilosInv

LEMMA Hi_retornarPCB_decidir ==
    ASSUME MutexInv, HilosInv, retornarPCB_decidir
    PROVE  HilosInv'
<1>1. TypeOK
  BY DEF MutexInv, TypeInv
<1>2. Mano(SrvCPU)' /\ Nuevo(SrvCPU)' /\ Propio(SrvCPU)' /\ Avisa(SrvCPU)'
  <2>1. /\ Mano(SrvCPU) /\ Nuevo(SrvCPU) /\ Propio(SrvCPU) /\ Avisa(SrvCPU)
        /\ Lleva(SrvCPU) /\ SrvCPU \in Hilos
    BY ThreadFacts DEF HilosInv, MutexInv, TypeInv, CadaUnoLleva
  <2>2. Mano(SrvCPU)'
    BY <1>1, <2>1, Ef_retornarPCB_decidir, FinalDe, ThreadFacts, HilosDistintos
       DEF Va, Mano, Lleva, ConPCB, Regresos, Propio, ConProceso
  <2>3. Nuevo(SrvCPU)'
    BY <1>1, <2>1, Ef_retornarPCB_decidir, FinalDe, ThreadFacts, HilosDistintos
       DEF Va, Nuevo, Propio, PasosNuevo, Lleva, Regresos
  <2>4. Propio(SrvCPU)'
    BY <1>1, <2>1, Ef_retornarPCB_decidir, FinalDe, ThreadFacts, HilosDistintos
       DEF Va, Propio, PasosSrv, Lleva, Regresos, Nuevo
  <2>5. Avisa(SrvCPU)'
    BY <1>1, <2>1, Ef_retornarPCB_decidir, FinalDe, ThreadFacts, HilosDistintos
       DEF Va, Avisa, Propio, Lleva, Regresos
  <2> QED
    BY <2>2, <2>3, <2>4, <2>5
<1>3. Elige(SrvCPU)'
  <2>1. Elige(SrvCPU) /\ Lleva(SrvCPU) /\ Propio(SrvCPU)
    BY ThreadFacts DEF HilosInv, MutexInv, TypeInv, CadaUnoLleva
  <2> QED
    BY <1>1, <2>1, Ef_retornarPCB_decidir, FinalDe, ThreadFacts
       DEF Va, Elige, Conectadas, Lleva, Regresos, Propio
<1>4. UNCHANGED <<cpus, ocupada, mutexCPU>> \/ mutexCPU \in {SrvCPU} \cup {Nadie}
  BY <1>1, Ef_retornarPCB_decidir DEF HilosInv, Elige
<1> QED
  BY <1>1, <1>2, <1>3, <1>4, Ef_retornarPCB_decidir, ThreadFacts, HilosPaso

LEMMA Hi_program_change_running ==
    ASSUME MutexInv, HilosInv, program_change_running
    PROVE  HilosInv'
<1>1. TypeOK
  BY DEF MutexInv, TypeInv
<1>2. Mano(SrvCPU)' /\ Nuevo(SrvCPU)' /\ Propio(SrvCPU)' /\ Avisa(SrvCPU)'
  <2>1. /\ Mano(SrvCPU) /\ Nuevo(SrvCPU) /\ Propio(SrvCPU) /\ Avisa(SrvCPU)
        /\ Lleva(SrvCPU) /\ SrvCPU \in Hilos
    BY ThreadFacts DEF HilosInv, MutexInv, TypeInv, CadaUnoLleva
  <2>2. Mano(SrvCPU)'
    BY <1>1, <2>1, Ef_program_change_running, FinalDe, ThreadFacts, HilosDistintos
       DEF Va, Mano, Lleva, ConPCB, Regresos, Propio, ConProceso
  <2>3. Nuevo(SrvCPU)'
    BY <1>1, <2>1, Ef_program_change_running, FinalDe, ThreadFacts, HilosDistintos
       DEF Va, Nuevo, Propio, PasosNuevo, Lleva, Regresos
  <2>4. Propio(SrvCPU)'
    BY <1>1, <2>1, Ef_program_change_running, FinalDe, ThreadFacts, HilosDistintos
       DEF Va, Propio, PasosSrv, Lleva, Regresos, Nuevo
  <2>5. Avisa(SrvCPU)'
    BY <1>1, <2>1, Ef_program_change_running, FinalDe, ThreadFacts, HilosDistintos
       DEF Va, Avisa, Propio, Lleva, Regresos
  <2> QED
    BY <2>2, <2>3, <2>4, <2>5
<1>3. Elige(SrvCPU)'
  <2>1. Elige(SrvCPU) /\ Lleva(SrvCPU) /\ Propio(SrvCPU)
    BY ThreadFacts DEF HilosInv, MutexInv, TypeInv, CadaUnoLleva
  <2> QED
    BY <1>1, <2>1, Ef_program_change_running, FinalDe, ThreadFacts
       DEF Va, Elige, Conectadas, Lleva, Regresos, Propio
<1>4. UNCHANGED <<cpus, ocupada, mutexCPU>> \/ mutexCPU \in {SrvCPU} \cup {Nadie}
  BY <1>1, Ef_program_change_running DEF HilosInv, Elige
<1> QED
  BY <1>1, <1>2, <1>3, <1>4, Ef_program_change_running, ThreadFacts, HilosPaso

LEMMA Hi_wait_ok ==
    ASSUME MutexInv, HilosInv, NEW c \in Cpus, wait_ok(c)
    PROVE  HilosInv'
<1>1. TypeOK
  BY DEF MutexInv, TypeInv
<1>4. \A u \in Hilos \ {} : (Mano(u) /\ Nuevo(u) /\ Propio(u) /\ Avisa(u))'
  BY <1>1, Ef_wait_ok, HilosFrame
<1>5. \A u \in Hilos \ {} : Elige(u)'
  <2>1. UNCHANGED <<cpus, ocupada, mutexCPU>> \/ mutexCPU \in {} \cup {Nadie}
    BY <1>1, Ef_wait_ok DEF HilosInv, Elige
  <2> QED
    BY <1>1, <2>1, Ef_wait_ok, EligeFrame
<1>6. Listados'
  BY <1>1, Ef_wait_ok, ListadosFrame
<1>7. SinRepetir'
  BY <1>1, Ef_wait_ok, SinRepetirFrame
<1>8. Apagadas'
  BY <1>1, Ef_wait_ok, ApagadasFrame DEF Conectadas, TypeOK, TipoCPUs
<1> QED
  BY <1>4, <1>5, <1>6, <1>7, <1>8 DEF HilosInv

LEMMA Hi_wait_bloquea ==
    ASSUME MutexInv, HilosInv, NEW c \in Cpus, wait_bloquea(c)
    PROVE  HilosInv'
<1>1. TypeOK
  BY DEF MutexInv, TypeInv
<1>2. Mano(SrvCPU)' /\ Nuevo(SrvCPU)' /\ Propio(SrvCPU)' /\ Avisa(SrvCPU)'
  <2>1. /\ Mano(SrvCPU) /\ Nuevo(SrvCPU) /\ Propio(SrvCPU) /\ Avisa(SrvCPU)
        /\ Lleva(SrvCPU) /\ SrvCPU \in Hilos
    BY ThreadFacts DEF HilosInv, MutexInv, TypeInv, CadaUnoLleva
  <2>2. Mano(SrvCPU)'
    <3>1. ejecuta[c] \in PID
      BY <1>1, Ef_wait_bloquea DEF MutexInv, TypeInv, CadaUnoLleva, ConProceso
    <3> QED
      BY <1>1, <2>1, <3>1, Ef_wait_bloquea, ThreadFacts DEF Va, Mano, ConPCB
  <2>3. Nuevo(SrvCPU)'
    BY <1>1, <2>1, Ef_wait_bloquea, FinalDe, ThreadFacts, HilosDistintos
       DEF Va, Nuevo, Propio, PasosNuevo, Lleva, Regresos
  <2>4. Propio(SrvCPU)'
    BY <1>1, <2>1, Ef_wait_bloquea, FinalDe, ThreadFacts, HilosDistintos
       DEF Va, Propio, PasosSrv, Lleva, Regresos, Nuevo
  <2>5. Avisa(SrvCPU)'
    BY <1>1, <2>1, Ef_wait_bloquea, FinalDe, ThreadFacts, HilosDistintos
       DEF Va, Avisa, Propio, Lleva, Regresos
  <2> QED
    BY <2>2, <2>3, <2>4, <2>5
<1>3. Elige(SrvCPU)'
  <2>1. Elige(SrvCPU) /\ Lleva(SrvCPU) /\ Propio(SrvCPU)
    BY ThreadFacts DEF HilosInv, MutexInv, TypeInv, CadaUnoLleva
  <2> QED
    BY <1>1, <2>1, Ef_wait_bloquea, FinalDe, ThreadFacts
       DEF Va, Elige, Conectadas, Lleva, Regresos, Propio
<1>4. UNCHANGED <<cpus, ocupada, mutexCPU>> \/ mutexCPU \in {SrvCPU} \cup {Nadie}
  BY <1>1, Ef_wait_bloquea DEF HilosInv, Elige
<1>5. \A d \in Cpus :
       estado'[d] \in {"apagada", "conectando"} => estado[d] \in {"apagada", "conectando"}
  BY <1>1, Ef_wait_bloquea DEF TypeOK, TipoCPUs
<1> QED
  BY <1>1, <1>2, <1>3, <1>4, <1>5, Ef_wait_bloquea, ThreadFacts, HilosPaso

LEMMA Hi_wait_encolar ==
    ASSUME MutexInv, HilosInv, wait_encolar
    PROVE  HilosInv'
<1>1. TypeOK
  BY DEF MutexInv, TypeInv
<1>2. Mano(SrvCPU)' /\ Nuevo(SrvCPU)' /\ Propio(SrvCPU)' /\ Avisa(SrvCPU)'
  <2>1. /\ Mano(SrvCPU) /\ Nuevo(SrvCPU) /\ Propio(SrvCPU) /\ Avisa(SrvCPU)
        /\ Lleva(SrvCPU) /\ SrvCPU \in Hilos
    BY ThreadFacts DEF HilosInv, MutexInv, TypeInv, CadaUnoLleva
  <2>2. Mano(SrvCPU)'
    BY <1>1, <2>1, Ef_wait_encolar, FinalDe, ThreadFacts, HilosDistintos
       DEF Va, Mano, Lleva, ConPCB, Regresos, Propio, ConProceso
  <2>3. Nuevo(SrvCPU)'
    BY <1>1, <2>1, Ef_wait_encolar, FinalDe, ThreadFacts, HilosDistintos
       DEF Va, Nuevo, Propio, PasosNuevo, Lleva, Regresos
  <2>4. Propio(SrvCPU)'
    BY <1>1, <2>1, Ef_wait_encolar, FinalDe, ThreadFacts, HilosDistintos
       DEF Va, Propio, PasosSrv, Lleva, Regresos, Nuevo
  <2>5. Avisa(SrvCPU)'
    BY <1>1, <2>1, Ef_wait_encolar, FinalDe, ThreadFacts, HilosDistintos
       DEF Va, Avisa, Propio, Lleva, Regresos
  <2> QED
    BY <2>2, <2>3, <2>4, <2>5
<1>3. Elige(SrvCPU)'
  <2>1. Elige(SrvCPU) /\ Lleva(SrvCPU) /\ Propio(SrvCPU)
    BY ThreadFacts DEF HilosInv, MutexInv, TypeInv, CadaUnoLleva
  <2> QED
    BY <1>1, <2>1, Ef_wait_encolar, FinalDe, ThreadFacts
       DEF Va, Elige, Conectadas, Lleva, Regresos, Propio
<1>4. UNCHANGED <<cpus, ocupada, mutexCPU>> \/ mutexCPU \in {SrvCPU} \cup {Nadie}
  BY <1>1, Ef_wait_encolar DEF HilosInv, Elige
<1> QED
  BY <1>1, <1>2, <1>3, <1>4, Ef_wait_encolar, ThreadFacts, HilosPaso

LEMMA Hi_wait_responder ==
    ASSUME MutexInv, HilosInv, wait_responder
    PROVE  HilosInv'
<1>1. TypeOK
  BY DEF MutexInv, TypeInv
<1>2. Mano(SrvCPU)' /\ Nuevo(SrvCPU)' /\ Propio(SrvCPU)' /\ Avisa(SrvCPU)'
  <2>1. /\ Mano(SrvCPU) /\ Nuevo(SrvCPU) /\ Propio(SrvCPU) /\ Avisa(SrvCPU)
        /\ Lleva(SrvCPU) /\ SrvCPU \in Hilos
    BY ThreadFacts DEF HilosInv, MutexInv, TypeInv, CadaUnoLleva
  <2>2. Mano(SrvCPU)'
    BY <1>1, <2>1, Ef_wait_responder, FinalDe, ThreadFacts, HilosDistintos
       DEF Va, Mano, Lleva, ConPCB, Regresos, Propio, ConProceso
  <2>3. Nuevo(SrvCPU)'
    BY <1>1, <2>1, Ef_wait_responder, FinalDe, ThreadFacts, HilosDistintos
       DEF Va, Nuevo, Propio, PasosNuevo, Lleva, Regresos
  <2>4. Propio(SrvCPU)'
    BY <1>1, <2>1, Ef_wait_responder, FinalDe, ThreadFacts, HilosDistintos
       DEF Va, Propio, PasosSrv, Lleva, Regresos, Nuevo
  <2>5. Avisa(SrvCPU)'
    BY <1>1, <2>1, Ef_wait_responder, FinalDe, ThreadFacts, HilosDistintos
       DEF Va, Avisa, Propio, Lleva, Regresos
  <2> QED
    BY <2>2, <2>3, <2>4, <2>5
<1>3. Elige(SrvCPU)'
  <2>1. Elige(SrvCPU) /\ Lleva(SrvCPU) /\ Propio(SrvCPU)
    BY ThreadFacts DEF HilosInv, MutexInv, TypeInv, CadaUnoLleva
  <2> QED
    BY <1>1, <2>1, Ef_wait_responder, FinalDe, ThreadFacts
       DEF Va, Elige, Conectadas, Lleva, Regresos, Propio
<1>4. UNCHANGED <<cpus, ocupada, mutexCPU>> \/ mutexCPU \in {SrvCPU} \cup {Nadie}
  BY <1>1, Ef_wait_responder DEF HilosInv, Elige
<1> QED
  BY <1>1, <1>2, <1>3, <1>4, Ef_wait_responder, ThreadFacts, HilosPaso

LEMMA Hi_signal ==
    ASSUME MutexInv, HilosInv, NEW c \in Cpus, signal(c)
    PROVE  HilosInv'
<1>1. TypeOK
  BY DEF MutexInv, TypeInv
<1>2. Mano(SrvCPU)' /\ Nuevo(SrvCPU)' /\ Propio(SrvCPU)' /\ Avisa(SrvCPU)'
  <2>1. /\ Mano(SrvCPU) /\ Nuevo(SrvCPU) /\ Propio(SrvCPU) /\ Avisa(SrvCPU)
        /\ Lleva(SrvCPU) /\ SrvCPU \in Hilos
    BY ThreadFacts DEF HilosInv, MutexInv, TypeInv, CadaUnoLleva
  <2>2. Mano(SrvCPU)'
    <3>1. colaBlocked \subseteq PID
      BY <1>1 DEF TypeOK, TipoColas
    <3> QED
      BY <1>1, <2>1, <3>1, Ef_signal, ThreadFacts DEF Va, Mano, ConPCB
  <2>3. Nuevo(SrvCPU)'
    BY <1>1, <2>1, Ef_signal, FinalDe, ThreadFacts, HilosDistintos
       DEF Va, Nuevo, Propio, PasosNuevo, Lleva, Regresos
  <2>4. Propio(SrvCPU)'
    BY <1>1, <2>1, Ef_signal, FinalDe, ThreadFacts, HilosDistintos
       DEF Va, Propio, PasosSrv, Lleva, Regresos, Nuevo
  <2>5. Avisa(SrvCPU)'
    BY <1>1, <2>1, Ef_signal, FinalDe, ThreadFacts, HilosDistintos
       DEF Va, Avisa, Propio, Lleva, Regresos
  <2> QED
    BY <2>2, <2>3, <2>4, <2>5
<1>3. Elige(SrvCPU)'
  <2>1. Elige(SrvCPU) /\ Lleva(SrvCPU) /\ Propio(SrvCPU)
    BY ThreadFacts DEF HilosInv, MutexInv, TypeInv, CadaUnoLleva
  <2> QED
    BY <1>1, <2>1, Ef_signal, FinalDe, ThreadFacts
       DEF Va, Elige, Conectadas, Lleva, Regresos, Propio
<1>4. UNCHANGED <<cpus, ocupada, mutexCPU>> \/ mutexCPU \in {SrvCPU} \cup {Nadie}
  BY <1>1, Ef_signal DEF HilosInv, Elige
<1>5. \A d \in Cpus :
       estado'[d] \in {"apagada", "conectando"} => estado[d] \in {"apagada", "conectando"}
  BY <1>1, Ef_signal DEF TypeOK, TipoCPUs
<1> QED
  BY <1>1, <1>2, <1>3, <1>4, <1>5, Ef_signal, ThreadFacts, HilosPaso

LEMMA Hi_signal_responder ==
    ASSUME MutexInv, HilosInv, signal_responder
    PROVE  HilosInv'
<1>1. TypeOK
  BY DEF MutexInv, TypeInv
<1>2. Mano(SrvCPU)' /\ Nuevo(SrvCPU)' /\ Propio(SrvCPU)' /\ Avisa(SrvCPU)'
  <2>1. /\ Mano(SrvCPU) /\ Nuevo(SrvCPU) /\ Propio(SrvCPU) /\ Avisa(SrvCPU)
        /\ Lleva(SrvCPU) /\ SrvCPU \in Hilos
    BY ThreadFacts DEF HilosInv, MutexInv, TypeInv, CadaUnoLleva
  <2>2. Mano(SrvCPU)'
    BY <1>1, <2>1, Ef_signal_responder, FinalDe, ThreadFacts, HilosDistintos
       DEF Va, Mano, Lleva, ConPCB, Regresos, Propio, ConProceso
  <2>3. Nuevo(SrvCPU)'
    BY <1>1, <2>1, Ef_signal_responder, FinalDe, ThreadFacts, HilosDistintos
       DEF Va, Nuevo, Propio, PasosNuevo, Lleva, Regresos
  <2>4. Propio(SrvCPU)'
    BY <1>1, <2>1, Ef_signal_responder, FinalDe, ThreadFacts, HilosDistintos
       DEF Va, Propio, PasosSrv, Lleva, Regresos, Nuevo
  <2>5. Avisa(SrvCPU)'
    BY <1>1, <2>1, Ef_signal_responder, FinalDe, ThreadFacts, HilosDistintos
       DEF Va, Avisa, Propio, Lleva, Regresos
  <2> QED
    BY <2>2, <2>3, <2>4, <2>5
<1>3. Elige(SrvCPU)'
  <2>1. Elige(SrvCPU) /\ Lleva(SrvCPU) /\ Propio(SrvCPU)
    BY ThreadFacts DEF HilosInv, MutexInv, TypeInv, CadaUnoLleva
  <2> QED
    BY <1>1, <2>1, Ef_signal_responder, FinalDe, ThreadFacts
       DEF Va, Elige, Conectadas, Lleva, Regresos, Propio
<1>4. UNCHANGED <<cpus, ocupada, mutexCPU>> \/ mutexCPU \in {SrvCPU} \cup {Nadie}
  BY <1>1, Ef_signal_responder DEF HilosInv, Elige
<1> QED
  BY <1>1, <1>2, <1>3, <1>4, Ef_signal_responder, ThreadFacts, HilosPaso

LEMMA Ef_pedirFin ==
    ASSUME MutexInv,
           \/ \E c \in Consolas : desconexionConsola(c)
           \/ \E p \in PID : finalizarProgramaConsola(p)
    PROVE  /\ \A u \in Hilos : \/ paso'[u] = paso[u]
                               \/ /\ u \in Finalizadores /\ paso[u] = "nada"
                                  /\ paso'[u] = "finalizarProceso"
           /\ UNCHANGED <<vuelve, pcb, pid, sock, ultimoPID, colaNew, colaReady, colaExec,
                          colaBlocked, colaExit, programas, cpus, ocupada, grado,
                          listForFinish, listForFinishDesconexion, mutexCPU, atendida,
                          exitCode, enMemoria, avisos, estado, ejecuta, deKernel, pedidos, desfase>>
<1>1. CASE \E c \in Consolas : desconexionConsola(c)
  <2>1. PICK c \in Consolas : desconexionConsola(c)
    BY <1>1
  <2> DEFINE suyos == {p \in programas : consola[p] = c}
  <2>2. \A p \in suyos :
           p \in PID /\ FinDesconexion(p) \in Finalizadores /\ paso[FinDesconexion(p)] = "nada"
    BY <2>1, ThreadFacts DEF desconexionConsola, SinEmpezar, MutexInv, TypeInv, TypeOK, TipoColas
  <2>3. \A u \in Hilos : \/ paso'[u] = paso[u]
                         \/ paso'[u] = "finalizarProceso" /\ \E p \in suyos : u = FinDesconexion(p)
    BY <2>1 DEF desconexionConsola
  <2> QED
    BY <2>1, <2>2, <2>3 DEF desconexionConsola
<1>2. CASE \E p \in PID : finalizarProgramaConsola(p)
  <2>1. PICK p \in PID : finalizarProgramaConsola(p)
    BY <1>2
  <2>2. paso \in [Hilos -> Pasos] /\ FinEnd(p) \in Finalizadores
    BY ThreadFacts DEF MutexInv, TypeInv, TypeOK, TipoHilos
  <2> QED
    BY <2>1, <2>2 DEF finalizarProgramaConsola, LanzarFinalizador, Ir
<1> QED
  BY <1>1, <1>2

LEMMA Hi_pedirFin ==
    ASSUME MutexInv, HilosInv,
           \/ \E c \in Consolas : desconexionConsola(c)
           \/ \E p \in PID : finalizarProgramaConsola(p)
    PROVE  HilosInv'
<1>1. ASSUME NEW u \in Hilos PROVE (Mano(u) /\ Nuevo(u) /\ Propio(u) /\ Avisa(u) /\ Elige(u))'
  <2>1. Mano(u) /\ Nuevo(u) /\ Propio(u) /\ Avisa(u) /\ Elige(u)
    BY DEF HilosInv
  <2>2. CASE paso'[u] = paso[u]
    BY <2>1, <2>2, Ef_pedirFin DEF Mano, Nuevo, Propio, Avisa, Elige, Conectadas
  <2>3. CASE paso[u] = "nada" /\ paso'[u] = "finalizarProceso"
    BY <2>1, <2>3, Ef_pedirFin DEF Mano, Nuevo, Propio, Avisa, Elige, ConPCB, PasosNuevo, PasosSrv
  <2> QED
    BY <2>2, <2>3, Ef_pedirFin
<1>2. \A p \in PID : paso'[Programa(p)] = paso[Programa(p)]
  BY Ef_pedirFin, ThreadFacts, HilosDistintos
<1>3. Listados' /\ SinRepetir' /\ Apagadas'
  BY <1>2, Ef_pedirFin DEF HilosInv, Listados, SinRepetir, Apagadas, Conectadas
<1> QED
  BY <1>1, <1>3 DEF HilosInv

LEMMA Hi_nuevoPrograma ==
    ASSUME MutexInv, HilosInv, NEW c \in Consolas, nuevoPrograma(c)
    PROVE  HilosInv'
<1>0. TypeOK
  BY DEF MutexInv, TypeInv
<1>p. PICK p \in PID : p = ultimoPID
  BY <1>0, Ef_nuevoPrograma
<1>1. p \in Int /\ Programa(p) \in Hilos
  BY ThreadFacts, ConstantesAssumption DEF PID
<1>2. /\ Quietos({Programa(p)}) /\ Va(Programa(p), "cargar_programa", vuelve[Programa(p)], p, p)
      /\ ultimoPID' = p + 1
      /\ UNCHANGED <<colaExit, programas, cpus, ocupada, mutexCPU, estado>>
  BY <1>0, <1>p, Ef_nuevoPrograma
<1>3. Programa(p) # SrvCPU /\ Programa(p)[1] = "programa" /\ Programa(p)[2] = p
  BY <1>1, HilosDistintos DEF Programa
<1>4. (Mano(Programa(p)) /\ Propio(Programa(p)) /\ Avisa(Programa(p)) /\ Elige(Programa(p)))'
  <2>1. Propio(Programa(p))
    BY <1>1 DEF HilosInv
  <2> QED
    BY <1>1, <1>2, <1>3, <2>1, ThreadFacts DEF Va, Mano, Propio, Avisa, Elige, ConPCB, PasosSrv
<1>5. Nuevo(Programa(p))'
  <2>1. /\ p < ultimoPID' /\ paso'[Programa(p)] = "cargar_programa"
        /\ pcb'[Programa(p)] = p /\ pid'[Programa(p)] = p
    BY <1>1, <1>2 DEF Va
  <2> QED
    BY <1>1, <1>3, <2>1 DEF Nuevo
<1>6. \A u \in Hilos \ {Programa(p)} : (Mano(u) /\ Nuevo(u) /\ Propio(u) /\ Avisa(u))'
  BY <1>2, <1>p, HilosFrame
<1>7. \A u \in Hilos \ {Programa(p)} : Elige(u)'
  BY <1>2, EligeFrame
<1>8. Listados'
  <2> SUFFICES ASSUME NEW q \in PID, q < p + 1, q \notin colaExit
               PROVE  q \in programas \/ paso'[Programa(q)] = "cargar_programa"
    BY <1>2 DEF Listados
  <2>1. CASE q = p
    BY <1>2, <2>1 DEF Va
  <2>2. CASE q # p
    <3>1. q < p /\ Programa(q) \in Hilos /\ Programa(q) # Programa(p)
      BY <1>1, <2>2, ThreadFacts DEF Programa, PID
    <3> QED
      BY <1>2, <1>p, <3>1 DEF Quietos, HilosInv, Listados
  <2> QED
    BY <2>1, <2>2
<1>9. SinRepetir' /\ Apagadas'
  BY <1>2 DEF HilosInv, SinRepetir, Apagadas, Conectadas
<1> QED
  BY <1>4, <1>5, <1>6, <1>7, <1>8, <1>9 DEF HilosInv

(* The steps of a CPU process leave the Kernel alone.                      *)
LEMMA Hi_CPU ==
    ASSUME MutexInv, HilosInv, NEW c \in Cpus,
           \/ PasoProcesoCPU(c) \/ conectarCPU(c) \/ signalHandler(c)
           \/ waitAnsisop(c) \/ signalAnsisop(c)
    PROVE  HilosInv'
<1>1. UNCHANGED kernel
  BY DEF PasoProcesoCPU, correrPCB, finishCPU_cpu, recibirRespuesta, ejecutarPrograma, conectarCPU,
         signalHandler, waitAnsisop, signalAnsisop
<1>2. \A t \in Hilos : (Mano(t) /\ Nuevo(t) /\ Propio(t) /\ Avisa(t) /\ Elige(t))'
  BY <1>1 DEF HilosInv, Mano, Nuevo, Propio, Avisa, Elige, Conectadas
<1>3. Listados' /\ SinRepetir'
  BY <1>1 DEF HilosInv, Listados, SinRepetir
<1>4. /\ estado \in [Cpus -> EstadosCPU]
      /\ estado' = estado \/ \E e \in EstadosCPU \ {"apagada"} : estado' = [estado EXCEPT ![c] = e]
      /\ estado'[c] = "conectando" => estado[c] \in {"apagada", "conectando"}
  <2>1. estado \in [Cpus -> EstadosCPU]
    BY DEF MutexInv, TypeInv, TypeOK, TipoCPUs
  <2>2. CASE correrPCB(c)
    BY <2>1, <2>2 DEF correrPCB, PasoCPU, EstadosCPU
  <2>3. CASE finishCPU_cpu(c)
    BY <2>1, <2>3 DEF finishCPU_cpu, PasoCPU, EstadosCPU
  <2>4. CASE recibirRespuesta(c)
    <3>1. PICK e \in {"libre", "corre"} : PasoCPU(c, e)
      BY <2>4 DEF recibirRespuesta
    <3> QED
      BY <2>1, <3>1 DEF PasoCPU, EstadosCPU
  <2>5. CASE ejecutarPrograma(c)
    BY <2>1, <2>5 DEF ejecutarPrograma, PasoCPU, EstadosCPU
  <2>6. CASE conectarCPU(c) \/ signalHandler(c) \/ waitAnsisop(c) \/ signalAnsisop(c)
    BY <2>1, <2>6 DEF conectarCPU, signalHandler, waitAnsisop, signalAnsisop, PasoCPU, EstadosCPU
  <2> QED
    BY <2>2, <2>3, <2>4, <2>5, <2>6 DEF PasoProcesoCPU
<1>5. \A d \in Cpus :
       estado'[d] \in {"apagada", "conectando"} => estado[d] \in {"apagada", "conectando"}
  BY <1>4
<1>6. Apagadas'
  BY <1>1, <1>5, ApagadasFrame DEF Conectadas
<1> QED
  BY <1>2, <1>3, <1>6 DEF HilosInv

LEMMA HilosInv_Init == Init => HilosInv
<1> SUFFICES ASSUME Init PROVE HilosInv
  OBVIOUS
<1>1. \A t \in Hilos : Mano(t) /\ Nuevo(t) /\ Propio(t) /\ Avisa(t) /\ Elige(t)
  BY DEF Init, Mano, Nuevo, Propio, Avisa, Elige, ConPCB, PasosNuevo, PasosSrv
<1>2. Listados
  BY DEF Init, Listados, PID
<1>3. SinRepetir /\ Apagadas
  BY DEF Init, SinRepetir, Apagadas, Conectadas
<1> QED
  BY <1>1, <1>2, <1>3 DEF HilosInv

LEMMA HilosInv_Next == MutexInv /\ HilosInv /\ [Next]_vars => HilosInv'
<1> SUFFICES ASSUME MutexInv, HilosInv, [Next]_vars PROVE HilosInv'
  OBVIOUS
<1>1. CASE UNCHANGED vars
  BY <1>1
     DEF vars, HilosInv, Mano, Nuevo, Propio, Avisa, Elige, Listados, SinRepetir, Apagadas,
         Conectadas
<1>2. CASE \E t \in Hilos : PasoHilo(t)
  BY <1>2, Hi_cargar_programa, Hi_moverA_colaNew, Hi_sem_wait, Hi_inicializar_programa,
     Hi_moverA_colaReady, Hi_moverA_colaExit, Hi_finalizarProcesoMemoria, Hi_finishProcess,
     Hi_enviar_a_cpu, Hi_sacarCualquieraDeReady, Hi_relacionar, Hi_correr_pcb
     DEF PasoHilo
<1>3. CASE \E t \in Finalizadores : PasoFinalizador(t)
  BY <1>3, Hi_finalizarProceso, Hi_sacarDe_colaReady DEF PasoFinalizador
<1>4. CASE SigueSrvCPU
  BY <1>4, Hi_retornarPCB_desconectar, Hi_retornarPCB_decidir, Hi_program_change_running,
     Hi_wait_encolar, Hi_wait_responder, Hi_signal_responder
     DEF SigueSrvCPU
<1>5. CASE \E c \in Cpus : ManejaPCB(c) \/ ManejaOtro(c)
  BY <1>5, Hi_retornarPCB, Hi_wait_bloquea, Hi_signal, Hi_nuevaConexionCPU, Hi_finishCPU, Hi_wait_ok
     DEF ManejaPCB, ManejaOtro
<1> QED
  BY <1>1, <1>2, <1>3, <1>4, <1>5, Hi_pedirFin, Hi_nuevoPrograma, Hi_CPU DEF Next, Nucleo, end
=============================================================================
