----------------------- MODULE Planificador_lugares -----------------------
(***************************************************************************)
(* Proofs about where a PCB is and who works on it, for every number of    *)
(* programs, CPUs, consoles and semaphores: one place for a PCB, one CPU   *)
(* for a running one, no request to finish forgotten, pages for admitted   *)
(* programs only and a complete end.  They follow from one inductive       *)
(* invariant, PlanInv, whose parts are proved action by action from what   *)
(* Planificador_proofs says of each step (the lemmas Ef_...).  On PlanInv  *)
(* rest two more: the turns to dispatch cover the PCBs in Ready or the     *)
(* idle CPUs (TurnosInv), and the queues of the semaphores hold what their *)
(* values owe (SemaforosInv).  The last part carries them over to the      *)
(* scheduler with its operator (Detencion) and proves what stop, restart   *)
(* and multiprogramacion promise.                                          *)
(***************************************************************************)
EXTENDS Detencion, Planificador_proofs, FiniteSetTheorems

USE DEF colas, listas, finalizables, semaforos, mutexes, locales, fuera, procesoCPU, consolas,
        kernel

(* The messages a CPU process can find: nothing, the PCB it must run, the  *)
(* word to leave, or the reply it waits for with one of the two after it.  *)
ResWait == Msg("RES_WAIT_BLOCKED")
Despedida == <<Msg("FINISH_CPU")>>
Concedido == <<Msg("RES_WAIT_OK")>>
Bloqueado == <<ResWait>>
BloqueadoYDespedida == <<ResWait, Msg("FINISH_CPU")>>
Senalado == <<Msg("RES_SIGNAL")>>
PorCorrer(p) == <<ResWait, Msg("NUEVO_QUANTUM_SLEEP"), [tipo |-> "CORRER_PCB", pid |-> p]>>
Manda(c, p) == deKernel[c] \in {CorrerPCB(p), PorCorrer(p)}
SeVa(c) == deKernel[c] \in {Despedida, BloqueadoYDespedida}

Bloqueando ==
    \/ paso[SrvCPU] = "encolar"
    \/ vuelve[SrvCPU] = "encolar" /\ paso[SrvCPU] \in {"exit", "FINZ_PROGM", "END_PRGM"}
SinResponder == Bloqueando \/ paso[SrvCPU] \in {"program_change_running_wait", "RES_WAIT"}

Forma(c) ==
    /\ estado[c] \in {"apagada", "conectando", "fin"} => c \notin Conectadas /\ deKernel[c] = <<>>
    /\ estado[c] \in {"corre", "RET_PCB", "WAIT", "SIGNAL"} => deKernel[c] = <<>>
    /\ estado[c] = "esperaSignal" => deKernel[c] \in {<<>>, Senalado}
    /\ estado[c] = "libre" =>
          deKernel[c] \in {<<>>, Despedida} \/ \E p \in PID : deKernel[c] = CorrerPCB(p)
    /\ estado[c] = "esperaWait" =>
          \/ deKernel[c] \in {<<>>, Concedido, Bloqueado, BloqueadoYDespedida}
          \/ \E p \in PID : deKernel[c] = PorCorrer(p)
    /\ SeVa(c) => c \notin Conectadas

Respuestas ==
    /\ SinResponder => /\ atendida \in Cpus /\ estado[atendida] = "esperaWait"
                       /\ deKernel[atendida] = <<>>
    /\ \A c \in Cpus : estado[c] = "esperaWait" /\ deKernel[c] = <<>> => SinResponder /\ atendida = c
    /\ atendida \in Cpus /\ estado[atendida] = "esperaSignal" => deKernel[atendida] = <<>>
    /\ paso[SrvCPU] = "RES_SIGNAL" => atendida \in Cpus /\ estado[atendida] = "esperaSignal"

Canales == Respuestas /\ \A c \in Cpus : Forma(c)

(* The CPU of a process in Exec. *)
Corre(c) ==
    \/ estado[c] \in {"corre", "RET_PCB", "WAIT", "SIGNAL", "esperaSignal"}
    \/ estado[c] = "esperaWait" /\ deKernel[c] = Concedido
Envia(t, c) == paso[t] = "CORRER_PCB" /\ sock[t] = c
Ocupan(c, p) ==
    \/ Corre(c) /\ ejecuta[c] = p
    \/ Manda(c, p)
    \/ \E t \in Hilos : Envia(t, c) /\ pid[t] = p

EnExec == \A p \in PID : p \in colaExec <=> \E c \in Cpus : Ocupan(c, p)
ConCPU == \A c \in Cpus, p \in PID : Ocupan(c, p) => c \in Conectadas /\ ocupada[c]
DeAUno == \A c, d \in Cpus, p, q \in PID : Ocupan(c, p) /\ Ocupan(d, q) => (c = d <=> p = q)
UnEnvio ==
    \A c \in Cpus, t \in Hilos : Envia(t, c) =>
        /\ ~Corre(c) /\ \A p \in PID : ~Manda(c, p)
        /\ \A u \in Hilos : Envia(u, c) => u = t
SinEnvio == Bloqueando => ocupada[atendida] /\ \A t \in Hilos : ~Envia(t, atendida)
Tenencia == EnExec /\ ConCPU /\ DeAUno /\ UnEnvio /\ SinEnvio

-----------------------------------------------------------------------------
(* The packages are told apart, and what is left of them.                  *)
LEMMA Distintos ==
    /\ \A x \in {Despedida, Concedido, Bloqueado, BloqueadoYDespedida, Senalado} : x # <<>>
    /\ Despedida # Concedido /\ Despedida # Bloqueado /\ Despedida # BloqueadoYDespedida
    /\ Despedida # Senalado /\ Concedido # Bloqueado /\ Concedido # BloqueadoYDespedida
    /\ Concedido # Senalado /\ Bloqueado # BloqueadoYDespedida /\ Bloqueado # Senalado
    /\ BloqueadoYDespedida # Senalado
BY DEF Despedida, Concedido, Bloqueado, BloqueadoYDespedida, Senalado, ResWait, Msg

LEMMA DistintosPCB ==
    ASSUME NEW p, NEW q
    PROVE  /\ CorrerPCB(p) \notin {<<>>, Despedida, Concedido, Bloqueado, BloqueadoYDespedida, Senalado}
           /\ PorCorrer(p) \notin {<<>>, Despedida, Concedido, Bloqueado, BloqueadoYDespedida, Senalado}
           /\ CorrerPCB(p) # PorCorrer(q)
           /\ CorrerPCB(p) = CorrerPCB(q) => p = q
           /\ PorCorrer(p) = PorCorrer(q) => p = q
<1>1. CorrerPCB(p) \notin {<<>>, Despedida, Concedido, Bloqueado, Senalado}
  BY DEF Despedida, Concedido, Bloqueado, Senalado, ResWait, CorrerPCB
<1>2. CorrerPCB(p) # BloqueadoYDespedida
  BY DEF BloqueadoYDespedida, ResWait, Msg, CorrerPCB
<1>3. PorCorrer(p) \notin {<<>>, Despedida, Concedido, Bloqueado, BloqueadoYDespedida, Senalado}
  BY DEF Despedida, Concedido, Bloqueado, BloqueadoYDespedida, Senalado, PorCorrer
<1>4. CorrerPCB(p) # PorCorrer(q)
  BY DEF CorrerPCB, PorCorrer
<1>5. CorrerPCB(p) = CorrerPCB(q) => p = q
  <2>1. CorrerPCB(p)[2].pid = p /\ CorrerPCB(q)[2].pid = q
    BY DEF CorrerPCB
  <2> QED
    BY <2>1
<1>6. PorCorrer(p) = PorCorrer(q) => p = q
  <2>1. PorCorrer(p)[3].pid = p /\ PorCorrer(q)[3].pid = q
    BY DEF PorCorrer
  <2> QED
    BY <2>1
<1> QED
  BY <1>1, <1>2, <1>3, <1>4, <1>5, <1>6

LEMMA UnoMasUno == ASSUME NEW x, NEW y PROVE <<x>> \o <<y>> = <<x, y>>
<1> DEFINE S == {x, y}
           r == <<x>> \o <<y>>
<1>1. <<x>> \in Seq(S) /\ <<y>> \in Seq(S) /\ Len(<<x>>) = 1 /\ Len(<<y>>) = 1
  OBVIOUS
<1>2. r \in Seq(S) /\ Len(r) = 2 /\ \A i \in 1 .. 2 : r[i] = IF i <= 1 THEN <<x>>[i] ELSE <<y>>[i - 1]
  BY <1>1, ConcatProperties
<1>3. r[1] = x /\ r[2] = y
  BY <1>2
<1> HIDE DEF r
<1>4. DOMAIN r = 1 .. 2
  BY <1>2
<1>5. r = [i \in 1 .. 2 |-> r[i]]
  BY <1>2, <1>4
<1>6. <<x, y>> = [i \in 1 .. 2 |-> <<x, y>>[i]]
  OBVIOUS
<1>7. \A i \in 1 .. 2 : r[i] = <<x, y>>[i]
  BY <1>3
<1>8. r = <<x, y>>
  BY <1>5, <1>6, <1>7
<1> QED
  BY <1>8 DEF r

LEMMA UnoMasDos == ASSUME NEW x, NEW y, NEW z PROVE <<x>> \o <<y, z>> = <<x, y, z>>
<1> DEFINE S == {x, y, z}
           r == <<x>> \o <<y, z>>
<1>1. <<x>> \in Seq(S) /\ <<y, z>> \in Seq(S) /\ Len(<<x>>) = 1 /\ Len(<<y, z>>) = 2
  OBVIOUS
<1>2. r \in Seq(S) /\ Len(r) = 3
      /\ \A i \in 1 .. 3 : r[i] = IF i <= 1 THEN <<x>>[i] ELSE <<y, z>>[i - 1]
  BY <1>1, ConcatProperties
<1>3. r[1] = x /\ r[2] = y /\ r[3] = z
  BY <1>2
<1> HIDE DEF r
<1>4. DOMAIN r = 1 .. 3
  BY <1>2
<1>5. r = [i \in 1 .. 3 |-> r[i]]
  BY <1>2, <1>4
<1>6. <<x, y, z>> = [i \in 1 .. 3 |-> <<x, y, z>>[i]]
  OBVIOUS
<1>7. \A i \in 1 .. 3 : r[i] = <<x, y, z>>[i]
  BY <1>3
<1>8. r = <<x, y, z>>
  BY <1>5, <1>6, <1>7
<1> QED
  BY <1>8 DEF r

(* What a message sent after the ones that are pending leaves.             *)
LEMMA Agregados ==
    /\ <<>> \o Despedida = Despedida /\ <<>> \o Concedido = Concedido /\ <<>> \o Bloqueado = Bloqueado
    /\ <<>> \o Senalado = Senalado /\ Bloqueado \o Despedida = BloqueadoYDespedida
    /\ \A p : <<>> \o CorrerPCB(p) = CorrerPCB(p) /\ Bloqueado \o CorrerPCB(p) = PorCorrer(p)
<1>1. \A p : <<>> \o CorrerPCB(p) = CorrerPCB(p)
  BY DEF CorrerPCB
<1>2. \A p : Bloqueado \o CorrerPCB(p) = PorCorrer(p)
  BY UnoMasDos DEF Bloqueado, CorrerPCB, PorCorrer
<1>3. Bloqueado \o Despedida = BloqueadoYDespedida
  BY UnoMasUno DEF Bloqueado, Despedida, BloqueadoYDespedida
<1> QED
  BY <1>1, <1>2, <1>3 DEF Despedida, Concedido, Bloqueado, Senalado

(* What a CPU reads first, and what is left.                               *)
LEMMA Leidos ==
    /\ \A p : /\ CorrerPCB(p)[1].tipo = "NUEVO_QUANTUM_SLEEP" /\ Len(CorrerPCB(p)) = 2
              /\ Tail(CorrerPCB(p)) = <<[tipo |-> "CORRER_PCB", pid |-> p]>>
              /\ Tail(Tail(CorrerPCB(p))) = <<>>
              /\ PorCorrer(p)[1].tipo = "RES_WAIT_BLOCKED" /\ Tail(PorCorrer(p)) = CorrerPCB(p)
    /\ Despedida[1].tipo = "FINISH_CPU" /\ Tail(Despedida) = <<>>
    /\ Concedido[1].tipo = "RES_WAIT_OK" /\ Tail(Concedido) = <<>>
    /\ Bloqueado[1].tipo = "RES_WAIT_BLOCKED" /\ Tail(Bloqueado) = <<>>
    /\ BloqueadoYDespedida[1].tipo = "RES_WAIT_BLOCKED" /\ Tail(BloqueadoYDespedida) = Despedida
    /\ Senalado[1].tipo = "RES_SIGNAL" /\ Tail(Senalado) = <<>>
<1>1. \A p : /\ CorrerPCB(p)[1].tipo = "NUEVO_QUANTUM_SLEEP" /\ Len(CorrerPCB(p)) = 2
             /\ Tail(CorrerPCB(p)) = <<[tipo |-> "CORRER_PCB", pid |-> p]>>
             /\ Tail(Tail(CorrerPCB(p))) = <<>>
  BY DEF CorrerPCB, Msg
<1>2. \A p : PorCorrer(p)[1].tipo = "RES_WAIT_BLOCKED" /\ Tail(PorCorrer(p)) = CorrerPCB(p)
  BY DEF CorrerPCB, PorCorrer, ResWait, Msg
<1>3. /\ Despedida[1].tipo = "FINISH_CPU" /\ Tail(Despedida) = <<>>
      /\ Concedido[1].tipo = "RES_WAIT_OK" /\ Tail(Concedido) = <<>>
      /\ Bloqueado[1].tipo = "RES_WAIT_BLOCKED" /\ Tail(Bloqueado) = <<>>
      /\ BloqueadoYDespedida[1].tipo = "RES_WAIT_BLOCKED" /\ Tail(BloqueadoYDespedida) = Despedida
      /\ Senalado[1].tipo = "RES_SIGNAL" /\ Tail(Senalado) = <<>>
  BY DEF Despedida, Concedido, Bloqueado, BloqueadoYDespedida, Senalado, ResWait, Msg
<1> QED
  BY <1>1, <1>2, <1>3

-----------------------------------------------------------------------------
(* Whether the select loop owes a reply.                                   *)
MismaDeuda ==
    /\ SinResponder' <=> SinResponder
    /\ paso'[SrvCPU] = "RES_SIGNAL" =>
          \/ paso[SrvCPU] = "RES_SIGNAL"
          \/ atendida # NadieCPU /\ estado[atendida] = "esperaSignal"
SinCambio == MismaDeuda /\ (Bloqueando' <=> Bloqueando)

LEMMA FinalDelServidor ==
    /\ Final(SrvCPU) \in {"select", "RES_SIGNAL"}
    /\ Final(SrvCPU) = "RES_SIGNAL" => atendida # NadieCPU /\ estado[atendida] = "esperaSignal"
BY DEF Final

LEMMA Re_cargar_programa ==
    ASSUME MutexInv, HilosInv, NEW t \in Hilos, cargar_programa(t)
    PROVE  SinCambio
<1>1. TypeOK
  BY DEF MutexInv, TypeInv
<1>2. CASE t # SrvCPU
  BY <1>1, <1>2, Ef_cargar_programa, ThreadFacts
     DEF Quietos, SinCambio, MismaDeuda, Bloqueando, SinResponder
<1>3. CASE t = SrvCPU
  <2>1. Lleva(t) /\ Nuevo(t)
    BY DEF HilosInv, MutexInv, TypeInv, CadaUnoLleva
  <2>2. t[1] # "programa"
    BY <1>3 DEF SrvCPU
  <2> QED
    BY <1>1, <1>3, <2>1, <2>2, Ef_cargar_programa, FinalDelServidor
       DEF Va, SinCambio, MismaDeuda, Bloqueando, SinResponder, Lleva, Regresos, Nuevo, PasosNuevo
<1> QED
  BY <1>2, <1>3

LEMMA Re_moverA_colaNew ==
    ASSUME MutexInv, HilosInv, NEW t \in Hilos, moverA_colaNew(t)
    PROVE  SinCambio
<1>1. TypeOK
  BY DEF MutexInv, TypeInv
<1>2. CASE t # SrvCPU
  BY <1>1, <1>2, Ef_moverA_colaNew, ThreadFacts
     DEF Quietos, SinCambio, MismaDeuda, Bloqueando, SinResponder
<1>3. CASE t = SrvCPU
  <2>1. Lleva(t) /\ Nuevo(t)
    BY DEF HilosInv, MutexInv, TypeInv, CadaUnoLleva
  <2>2. t[1] # "programa"
    BY <1>3 DEF SrvCPU
  <2> QED
    BY <1>1, <1>3, <2>1, <2>2, Ef_moverA_colaNew, FinalDelServidor
       DEF Va, SinCambio, MismaDeuda, Bloqueando, SinResponder, Lleva, Regresos, Nuevo, PasosNuevo
<1> QED
  BY <1>2, <1>3

LEMMA Re_sem_wait ==
    ASSUME MutexInv, HilosInv, NEW t \in Hilos, sem_wait(t)
    PROVE  SinCambio
<1>1. TypeOK
  BY DEF MutexInv, TypeInv
<1>2. CASE t # SrvCPU
  BY <1>1, <1>2, Ef_sem_wait, ThreadFacts
     DEF Quietos, SinCambio, MismaDeuda, Bloqueando, SinResponder
<1>3. CASE t = SrvCPU
  <2>1. Lleva(t) /\ Nuevo(t)
    BY DEF HilosInv, MutexInv, TypeInv, CadaUnoLleva
  <2>2. t[1] # "programa"
    BY <1>3 DEF SrvCPU
  <2> QED
    BY <1>1, <1>3, <2>1, <2>2, Ef_sem_wait, FinalDelServidor
       DEF Va, SinCambio, MismaDeuda, Bloqueando, SinResponder, Lleva, Regresos, Nuevo, PasosNuevo
<1> QED
  BY <1>2, <1>3

LEMMA Re_inicializar_programa ==
    ASSUME MutexInv, HilosInv, NEW t \in Hilos, inicializar_programa(t)
    PROVE  SinCambio
<1>1. TypeOK
  BY DEF MutexInv, TypeInv
<1>2. CASE t # SrvCPU
  BY <1>1, <1>2, Ef_inicializar_programa, ThreadFacts
     DEF Quietos, SinCambio, MismaDeuda, Bloqueando, SinResponder
<1>3. CASE t = SrvCPU
  <2>1. Lleva(t) /\ Nuevo(t)
    BY DEF HilosInv, MutexInv, TypeInv, CadaUnoLleva
  <2>2. t[1] # "programa"
    BY <1>3 DEF SrvCPU
  <2> QED
    BY <1>1, <1>3, <2>1, <2>2, Ef_inicializar_programa, FinalDelServidor
       DEF Va, SinCambio, MismaDeuda, Bloqueando, SinResponder, Lleva, Regresos, Nuevo, PasosNuevo
<1> QED
  BY <1>2, <1>3

LEMMA Re_moverA_colaReady ==
    ASSUME MutexInv, HilosInv, NEW t \in Hilos, moverA_colaReady(t)
    PROVE  SinCambio
<1>1. TypeOK
  BY DEF MutexInv, TypeInv
<1>2. CASE t # SrvCPU
  BY <1>1, <1>2, Ef_moverA_colaReady, ThreadFacts
     DEF Quietos, SinCambio, MismaDeuda, Bloqueando, SinResponder
<1>3. CASE t = SrvCPU
  <2>1. Lleva(t) /\ Nuevo(t)
    BY DEF HilosInv, MutexInv, TypeInv, CadaUnoLleva
  <2>2. t[1] # "programa"
    BY <1>3 DEF SrvCPU
  <2> QED
    BY <1>1, <1>3, <2>1, <2>2, Ef_moverA_colaReady, FinalDelServidor
       DEF Va, SinCambio, MismaDeuda, Bloqueando, SinResponder, Lleva, Regresos, Nuevo, PasosNuevo
<1> QED
  BY <1>2, <1>3

LEMMA Re_moverA_colaExit ==
    ASSUME MutexInv, HilosInv, NEW t \in Hilos, moverA_colaExit(t)
    PROVE  SinCambio
<1>1. TypeOK
  BY DEF MutexInv, TypeInv
<1>2. CASE t # SrvCPU
  BY <1>1, <1>2, Ef_moverA_colaExit, ThreadFacts
     DEF Quietos, SinCambio, MismaDeuda, Bloqueando, SinResponder
<1>3. CASE t = SrvCPU
  <2>1. Lleva(t) /\ Nuevo(t)
    BY DEF HilosInv, MutexInv, TypeInv, CadaUnoLleva
  <2>2. t[1] # "programa"
    BY <1>3 DEF SrvCPU
  <2> QED
    BY <1>1, <1>3, <2>1, <2>2, Ef_moverA_colaExit, FinalDelServidor
       DEF Va, SinCambio, MismaDeuda, Bloqueando, SinResponder, Lleva, Regresos, Nuevo, PasosNuevo
<1> QED
  BY <1>2, <1>3

LEMMA Re_finalizarProcesoMemoria ==
    ASSUME MutexInv, HilosInv, NEW t \in Hilos, finalizarProcesoMemoria(t)
    PROVE  SinCambio
<1>1. TypeOK
  BY DEF MutexInv, TypeInv
<1>2. CASE t # SrvCPU
  BY <1>1, <1>2, Ef_finalizarProcesoMemoria, ThreadFacts
     DEF Quietos, SinCambio, MismaDeuda, Bloqueando, SinResponder
<1>3. CASE t = SrvCPU
  <2>1. Lleva(t) /\ Nuevo(t)
    BY DEF HilosInv, MutexInv, TypeInv, CadaUnoLleva
  <2>2. t[1] # "programa"
    BY <1>3 DEF SrvCPU
  <2> QED
    BY <1>1, <1>3, <2>1, <2>2, Ef_finalizarProcesoMemoria, FinalDelServidor
       DEF Va, SinCambio, MismaDeuda, Bloqueando, SinResponder, Lleva, Regresos, Nuevo, PasosNuevo
<1> QED
  BY <1>2, <1>3

LEMMA Re_finishProcess ==
    ASSUME MutexInv, HilosInv, NEW t \in Hilos, finishProcess(t)
    PROVE  SinCambio
<1>1. TypeOK
  BY DEF MutexInv, TypeInv
<1>2. CASE t # SrvCPU
  BY <1>1, <1>2, Ef_finishProcess, ThreadFacts
     DEF Quietos, SinCambio, MismaDeuda, Bloqueando, SinResponder
<1>3. CASE t = SrvCPU
  <2>1. Lleva(t) /\ Nuevo(t)
    BY DEF HilosInv, MutexInv, TypeInv, CadaUnoLleva
  <2>2. t[1] # "programa"
    BY <1>3 DEF SrvCPU
  <2> QED
    BY <1>1, <1>3, <2>1, <2>2, Ef_finishProcess, FinalDelServidor
       DEF Va, SinCambio, MismaDeuda, Bloqueando, SinResponder, Lleva, Regresos, Nuevo, PasosNuevo
<1> QED
  BY <1>2, <1>3

LEMMA Re_enviar_a_cpu ==
    ASSUME MutexInv, HilosInv, NEW t \in Hilos, enviar_a_cpu(t)
    PROVE  SinCambio
<1>1. TypeOK
  BY DEF MutexInv, TypeInv
<1>2. CASE t # SrvCPU
  BY <1>1, <1>2, Ef_enviar_a_cpu, ThreadFacts
     DEF Quietos, SinCambio, MismaDeuda, Bloqueando, SinResponder
<1>3. CASE t = SrvCPU
  <2>1. Lleva(t) /\ Nuevo(t)
    BY DEF HilosInv, MutexInv, TypeInv, CadaUnoLleva
  <2>2. t[1] # "programa"
    BY <1>3 DEF SrvCPU
  <2> QED
    BY <1>1, <1>3, <2>1, <2>2, Ef_enviar_a_cpu, FinalDelServidor
       DEF Va, SinCambio, MismaDeuda, Bloqueando, SinResponder, Lleva, Regresos, Nuevo, PasosNuevo
<1> QED
  BY <1>2, <1>3

LEMMA Re_sacarCualquieraDeReady ==
    ASSUME MutexInv, HilosInv, NEW t \in Hilos, sacarCualquieraDeReady(t)
    PROVE  SinCambio
<1>1. TypeOK
  BY DEF MutexInv, TypeInv
<1>2. CASE t # SrvCPU
  BY <1>1, <1>2, Ef_sacarCualquieraDeReady, ThreadFacts
     DEF Quietos, SinCambio, MismaDeuda, Bloqueando, SinResponder
<1>3. CASE t = SrvCPU
  <2>1. Lleva(t) /\ Nuevo(t)
    BY DEF HilosInv, MutexInv, TypeInv, CadaUnoLleva
  <2>2. t[1] # "programa"
    BY <1>3 DEF SrvCPU
  <2> QED
    BY <1>1, <1>3, <2>1, <2>2, Ef_sacarCualquieraDeReady, FinalDelServidor
       DEF Va, SinCambio, MismaDeuda, Bloqueando, SinResponder, Lleva, Regresos, Nuevo, PasosNuevo
<1> QED
  BY <1>2, <1>3

LEMMA Re_relacionar ==
    ASSUME MutexInv, HilosInv, NEW t \in Hilos, relacionar(t)
    PROVE  SinCambio
<1>1. TypeOK
  BY DEF MutexInv, TypeInv
<1>2. CASE t # SrvCPU
  BY <1>1, <1>2, Ef_relacionar, ThreadFacts
     DEF Quietos, SinCambio, MismaDeuda, Bloqueando, SinResponder
<1>3. CASE t = SrvCPU
  <2>1. Lleva(t) /\ Nuevo(t)
    BY DEF HilosInv, MutexInv, TypeInv, CadaUnoLleva
  <2>2. t[1] # "programa"
    BY <1>3 DEF SrvCPU
  <2> QED
    BY <1>1, <1>3, <2>1, <2>2, Ef_relacionar, FinalDelServidor
       DEF Va, SinCambio, MismaDeuda, Bloqueando, SinResponder, Lleva, Regresos, Nuevo, PasosNuevo
<1> QED
  BY <1>2, <1>3

LEMMA Re_correr_pcb ==
    ASSUME MutexInv, HilosInv, NEW t \in Hilos, correr_pcb(t)
    PROVE  SinCambio
<1>1. TypeOK
  BY DEF MutexInv, TypeInv
<1>2. CASE t # SrvCPU
  BY <1>1, <1>2, Ef_correr_pcb, ThreadFacts
     DEF Quietos, SinCambio, MismaDeuda, Bloqueando, SinResponder
<1>3. CASE t = SrvCPU
  <2>1. Lleva(t) /\ Nuevo(t)
    BY DEF HilosInv, MutexInv, TypeInv, CadaUnoLleva
  <2>2. t[1] # "programa"
    BY <1>3 DEF SrvCPU
  <2> QED
    BY <1>1, <1>3, <2>1, <2>2, Ef_correr_pcb, FinalDelServidor
       DEF Va, SinCambio, MismaDeuda, Bloqueando, SinResponder, Lleva, Regresos, Nuevo, PasosNuevo
<1> QED
  BY <1>2, <1>3

LEMMA Re_finalizarProceso ==
    ASSUME MutexInv, HilosInv, NEW t \in Finalizadores, finalizarProceso(t)
    PROVE  SinCambio
<1>1. TypeOK
  BY DEF MutexInv, TypeInv
<1> QED
  BY <1>1, Ef_finalizarProceso, HilosDistintos, ThreadFacts
     DEF Quietos, SinCambio, MismaDeuda, Bloqueando, SinResponder

LEMMA Re_sacarDe_colaReady ==
    ASSUME MutexInv, HilosInv, NEW t \in Finalizadores, sacarDe_colaReady(t)
    PROVE  SinCambio
<1>1. TypeOK
  BY DEF MutexInv, TypeInv
<1> QED
  BY <1>1, Ef_sacarDe_colaReady, HilosDistintos, ThreadFacts
     DEF Quietos, SinCambio, MismaDeuda, Bloqueando, SinResponder

LEMMA Re_nuevaConexionCPU ==
    ASSUME MutexInv, HilosInv, NEW c \in Cpus, nuevaConexionCPU(c)
    PROVE  (Bloqueando' <=> Bloqueando) /\ (SinResponder' <=> SinResponder)
<1>1. TypeOK
  BY DEF MutexInv, TypeInv
<1> QED
  BY <1>1, Ef_nuevaConexionCPU DEF Va, Bloqueando, SinResponder

LEMMA Re_finishCPU ==
    ASSUME MutexInv, HilosInv, NEW c \in Cpus, finishCPU(c)
    PROVE  (Bloqueando' <=> Bloqueando) /\ (SinResponder' <=> SinResponder)
<1>1. TypeOK
  BY DEF MutexInv, TypeInv
<1> QED
  BY <1>1, Ef_finishCPU DEF Va, Bloqueando, SinResponder

LEMMA Re_retornarPCB ==
    ASSUME MutexInv, HilosInv, NEW c \in Cpus, retornarPCB(c)
    PROVE  (Bloqueando' <=> Bloqueando) /\ (SinResponder' <=> SinResponder)
<1>1. TypeOK
  BY DEF MutexInv, TypeInv
<1> QED
  BY <1>1, Ef_retornarPCB DEF Va, Bloqueando, SinResponder

LEMMA Re_retornarPCB_desconectar ==
    ASSUME MutexInv, HilosInv, retornarPCB_desconectar
    PROVE  (Bloqueando' <=> Bloqueando) /\ (SinResponder' <=> SinResponder)
<1>1. TypeOK
  BY DEF MutexInv, TypeInv
<1> QED
  BY <1>1, Ef_retornarPCB_desconectar DEF Va, Bloqueando, SinResponder

LEMMA Re_retornarPCB_decidir ==
    ASSUME MutexInv, HilosInv, retornarPCB_decidir
    PROVE  (Bloqueando' <=> Bloqueando) /\ (SinResponder' <=> SinResponder)
<1>1. TypeOK
  BY DEF MutexInv, TypeInv
<1> QED
  BY <1>1, Ef_retornarPCB_decidir DEF Va, Bloqueando, SinResponder

LEMMA Re_program_change_running ==
    ASSUME MutexInv, HilosInv, program_change_running
    PROVE  (Bloqueando' <=> Bloqueando) /\ (SinResponder' <=> SinResponder)
<1>1. TypeOK
  BY DEF MutexInv, TypeInv
<1> QED
  BY <1>1, Ef_program_change_running DEF Va, Bloqueando, SinResponder

LEMMA Re_wait_ok ==
    ASSUME MutexInv, HilosInv, NEW c \in Cpus, wait_ok(c)
    PROVE  (Bloqueando' <=> Bloqueando) /\ (SinResponder' <=> SinResponder)
<1>1. TypeOK
  BY DEF MutexInv, TypeInv
<1> QED
  BY <1>1, Ef_wait_ok DEF Va, Bloqueando, SinResponder

LEMMA Re_signal ==
    ASSUME MutexInv, HilosInv, NEW c \in Cpus, signal(c)
    PROVE  (Bloqueando' <=> Bloqueando) /\ (SinResponder' <=> SinResponder)
<1>1. TypeOK
  BY DEF MutexInv, TypeInv
<1> QED
  BY <1>1, Ef_signal DEF Va, Bloqueando, SinResponder

LEMMA Re_signal_responder ==
    ASSUME MutexInv, HilosInv, signal_responder
    PROVE  (Bloqueando' <=> Bloqueando) /\ (SinResponder' <=> SinResponder)
<1>1. TypeOK
  BY DEF MutexInv, TypeInv
<1> QED
  BY <1>1, Ef_signal_responder DEF Va, Bloqueando, SinResponder

-----------------------------------------------------------------------------
(* The channels, step by step. *)

LEMMA CanalesIgual ==
    ASSUME TypeOK, Canales, MismaDeuda, UNCHANGED <<estado, deKernel, atendida, cpus>>
    PROVE  Canales'
<1>1. \A c \in Cpus : Forma(c)'
  BY DEF Canales, Forma, SeVa, Conectadas
<1>2. atendida \in Cpus \cup {NadieCPU}
  BY DEF TypeOK, TipoHilos
<1>3. Respuestas'
  BY <1>2 DEF Canales, Respuestas, MismaDeuda
<1> QED
  BY <1>1, <1>3 DEF Canales

LEMMA FormaDeOtros ==
    ASSUME Canales, NEW c \in Cpus, Conectadas' \subseteq Conectadas \cup {c},
           \A d \in Cpus \ {c} : estado'[d] = estado[d] /\ deKernel'[d] = deKernel[d]
    PROVE  \A d \in Cpus \ {c} : Forma(d)'
BY DEF Canales, Forma, SeVa

(* What a CPU that is asked to run a PCB, or told to leave, can have.      *)
LEMMA SinProceso ==
    ASSUME TypeOK, Canales, NEW c \in Cpus, c \in Conectadas, ~Corre(c), \A p \in PID : ~Manda(c, p)
    PROVE  \/ estado[c] = "libre" /\ deKernel[c] = <<>>
           \/ estado[c] = "esperaWait" /\ deKernel[c] \in {<<>>, Bloqueado}
<1>1. estado[c] \in EstadosCPU
  BY DEF TypeOK, TipoCPUs
<1>2. Forma(c)
  BY DEF Canales
<1>3. estado[c] \in {"libre", "esperaWait"}
  BY <1>1, <1>2 DEF Forma, Corre, EstadosCPU
<1>4. CASE estado[c] = "libre"
  BY <1>2, <1>4 DEF Forma, Manda, SeVa
<1>5. CASE estado[c] = "esperaWait"
  BY <1>2, <1>5 DEF Forma, Manda, SeVa, Corre
<1> QED
  BY <1>3, <1>4, <1>5

LEMMA Ca_correr_pcb ==
    ASSUME MutexInv, HilosInv, Canales, Tenencia, ~desfase', NEW t \in Hilos, correr_pcb(t)
    PROVE  /\ Canales'
           /\ sock[t] \in Cpus /\ pid[t] \in PID
           /\ estado[sock[t]] # "esperaSignal"
           /\ \/ deKernel' = [deKernel EXCEPT ![sock[t]] = CorrerPCB(pid[t])]
              \/ deKernel' = [deKernel EXCEPT ![sock[t]] = PorCorrer(pid[t])]
<1>1. TypeOK /\ SinCambio
  BY Re_correr_pcb DEF MutexInv, TypeInv
<1>2. /\ paso[t] = "CORRER_PCB" /\ UNCHANGED <<estado, cpus, atendida>>
      /\ deKernel' = [deKernel EXCEPT ![sock[t]] = @ \o CorrerPCB(pid[t])]
      /\ ~(estado[sock[t]] = "esperaWait" /\ deKernel[sock[t]] = <<>>)
  BY <1>1, Ef_correr_pcb
<1>3. pid[t] \in PID /\ Conectadas \subseteq Cpus
  BY <1>1, <1>2 DEF MutexInv, TypeInv, CadaUnoLleva, Lleva, ConPID, TypeOK, TipoCPUs, Conectadas
<1>4. PICK c \in Cpus, p \in PID : c = sock[t] /\ p = pid[t]
  BY <1>2, <1>3 DEF HilosInv, Elige
<1>5. Envia(t, c) /\ Ocupan(c, p)
  BY <1>2, <1>4 DEF Envia, Ocupan
<1>6. c \in Conectadas /\ ~Corre(c) /\ \A q \in PID : ~Manda(c, q)
  BY <1>5 DEF Tenencia, ConCPU, UnEnvio
<1>7. deKernel \in [Cpus -> Seq(Mensajes)]
  BY <1>1 DEF TypeOK, TipoCPUs
<1>8. \/ estado[c] = "libre" /\ deKernel' = [deKernel EXCEPT ![c] = CorrerPCB(p)]
      \/ estado[c] = "esperaWait" /\ deKernel' = [deKernel EXCEPT ![c] = PorCorrer(p)]
  BY <1>1, <1>2, <1>4, <1>6, SinProceso, Agregados
<1>9. Forma(c)'
  <2>1. CASE estado[c] = "libre" /\ deKernel' = [deKernel EXCEPT ![c] = CorrerPCB(p)]
    <3>1. deKernel'[c] = CorrerPCB(p) /\ estado'[c] = "libre"
      BY <1>2, <1>7, <2>1
    <3> QED
      BY <3>1, DistintosPCB DEF Forma, SeVa
  <2>2. CASE estado[c] = "esperaWait" /\ deKernel' = [deKernel EXCEPT ![c] = PorCorrer(p)]
    <3>1. deKernel'[c] = PorCorrer(p) /\ estado'[c] = "esperaWait"
      BY <1>2, <1>7, <2>2
    <3> QED
      BY <3>1, DistintosPCB DEF Forma, SeVa
  <2> QED
    BY <1>8, <2>1, <2>2
<1>10. \A d \in Cpus \ {c} : deKernel'[d] = deKernel[d]
  BY <1>7, <1>8
<1>11. deKernel'[c] # <<>>
  BY <1>7, <1>8, DistintosPCB
<1>12. Respuestas'
  <2>1. Respuestas
    BY DEF Canales
  <2>2. SinResponder => atendida # c
    BY <1>2, <1>4, <2>1 DEF Respuestas
  <2>3. estado[c] # "esperaSignal"
    BY <1>8
  <2>4. atendida \in Cpus \cup {NadieCPU}
    BY <1>1 DEF TypeOK, TipoHilos
  <2> QED
    BY <1>1, <1>2, <1>10, <1>11, <2>1, <2>2, <2>3, <2>4 DEF Respuestas, SinCambio, MismaDeuda
<1>13. Canales'
  BY <1>2, <1>9, <1>10, <1>12, FormaDeOtros DEF Canales, Conectadas
<1> QED
  BY <1>4, <1>8, <1>13

(* A CPU that is idle for the Kernel has no process and no PCB on its way. *)
LEMMA OciosaLibre ==
    ASSUME MutexInv, Tenencia, NEW c \in Cpus, ~ocupada[c] \/ c \notin Conectadas
    PROVE  ~Corre(c) /\ \A p \in PID : ~Manda(c, p) /\ ~Ocupan(c, p)
<1>1. \A p \in PID : ~Ocupan(c, p)
  BY DEF Tenencia, ConCPU
<1>2. Corre(c) => ejecuta[c] \in PID
  BY DEF Corre, MutexInv, TypeInv, CadaUnoLleva, ConProceso
<1> QED
  BY <1>1, <1>2 DEF Ocupan

(* A CPU is let go.                                                        *)
LEMMA Ca_desconecta ==
    ASSUME MutexInv, HilosInv, Canales, Tenencia, NEW c \in Cpus, ~SinResponder, ~SinResponder',
           c \in Conectadas, ~ocupada[c], cpus' = Sin(cpus, c), UNCHANGED estado,
           deKernel' = [deKernel EXCEPT ![c] = @ \o <<Msg("FINISH_CPU")>>],
           atendida' \in {atendida, NadieCPU}, paso'[SrvCPU] # "RES_SIGNAL"
    PROVE  /\ Canales' /\ Conectadas' = Conectadas \ {c}
           /\ \/ deKernel' = [deKernel EXCEPT ![c] = Despedida]
              \/ estado[c] = "esperaWait" /\ deKernel' = [deKernel EXCEPT ![c] = BloqueadoYDespedida]
           /\ estado[c] \in {"libre", "esperaWait"}
<1>1. TypeOK /\ cpus \in Seq(Cpus) /\ deKernel \in [Cpus -> Seq(Mensajes)] /\ NadieCPU \notin Cpus
  BY ConstantesAssumption DEF MutexInv, TypeInv, TypeOK, TipoCPUs
<1>2. Conectadas' = Conectadas \ {c}
  BY <1>1, SinCPU
<1>3. ~Corre(c) /\ \A p \in PID : ~Manda(c, p)
  BY OciosaLibre
<1>4. \/ estado[c] = "libre" /\ deKernel[c] = <<>>
      \/ estado[c] = "esperaWait" /\ deKernel[c] = Bloqueado
  <2>1. ~(estado[c] = "esperaWait" /\ deKernel[c] = <<>>)
    BY DEF Canales, Respuestas
  <2> QED
    BY <1>1, <1>3, <2>1, SinProceso
<1>5. \/ estado[c] = "libre" /\ deKernel' = [deKernel EXCEPT ![c] = Despedida]
      \/ estado[c] = "esperaWait" /\ deKernel' = [deKernel EXCEPT ![c] = BloqueadoYDespedida]
  BY <1>4, Agregados DEF Despedida
<1>6. Forma(c)'
  BY <1>1, <1>2, <1>5 DEF Forma
<1>7. \A d \in Cpus \ {c} : deKernel'[d] = deKernel[d]
  BY <1>1, <1>5
<1>8. deKernel'[c] # <<>>
  BY <1>1, <1>5, Distintos
<1>9. Respuestas'
  BY <1>1, <1>4, <1>7, <1>8 DEF Canales, Respuestas
<1>10. \A d \in Cpus \ {c} : Forma(d)'
  BY <1>2, <1>7, FormaDeOtros
<1>11. Canales'
  BY <1>6, <1>9, <1>10 DEF Canales
<1> QED
  BY <1>2, <1>4, <1>5, <1>11

LEMMA Ca_finishCPU ==
    ASSUME MutexInv, HilosInv, Canales, Tenencia, NEW c \in Cpus, finishCPU(c)
    PROVE  Canales'
<1>1. TypeOK /\ ~SinResponder /\ ~SinResponder' /\ paso'[SrvCPU] = "select"
  BY Re_finishCPU, Ef_finishCPU DEF MutexInv, TypeInv, SinResponder, Bloqueando
<1>2. CASE UNCHANGED <<cpus, deKernel>>
  <2>1. atendida' = NadieCPU /\ UNCHANGED <<cpus, deKernel, estado>>
    BY <1>1, <1>2, Ef_finishCPU
  <2>2. Respuestas'
    BY <1>1, <2>1, ConstantesAssumption DEF Canales, Respuestas
  <2> QED
    BY <2>1, <2>2 DEF Canales, Forma, SeVa, Conectadas
<1>3. CASE ~UNCHANGED <<cpus, deKernel>>
  BY <1>1, <1>3, Ef_finishCPU, Ca_desconecta
<1> QED
  BY <1>2, <1>3

LEMMA Ca_retornarPCB_desconectar ==
    ASSUME MutexInv, HilosInv, Canales, Tenencia, retornarPCB_desconectar
    PROVE  Canales'
<1>1. TypeOK /\ ~SinResponder /\ ~SinResponder' /\ paso'[SrvCPU] = "processIsForFinish"
  BY Re_retornarPCB_desconectar, Ef_retornarPCB_desconectar
     DEF MutexInv, TypeInv, SinResponder, Bloqueando, Va
<1>2. CASE UNCHANGED <<cpus, deKernel>>
  BY <1>1, <1>2, Ef_retornarPCB_desconectar, CanalesIgual DEF MismaDeuda
<1>3. CASE ~UNCHANGED <<cpus, deKernel>>
  <2>1. Conectadas \subseteq Cpus
    BY <1>1 DEF TypeOK, TipoCPUs, Conectadas
  <2> QED
    BY <1>1, <1>3, <2>1, Ef_retornarPCB_desconectar, Ca_desconecta
<1> QED
  BY <1>2, <1>3

LEMMA Ca_nuevaConexionCPU ==
    ASSUME MutexInv, HilosInv, Canales, NEW c \in Cpus, nuevaConexionCPU(c)
    PROVE  Canales' /\ deKernel[c] = <<>> /\ Conectadas' = Conectadas \cup {c} /\ c \notin Conectadas
<1>1. /\ TypeOK /\ ~SinResponder /\ ~SinResponder' /\ paso'[SrvCPU] # "RES_SIGNAL"
      /\ cpus \in Seq(Cpus) /\ estado \in [Cpus -> EstadosCPU]
  BY Re_nuevaConexionCPU, Ef_nuevaConexionCPU
     DEF MutexInv, TypeInv, TypeOK, TipoCPUs, SinResponder, Bloqueando, Va
<1>2. /\ estado[c] = "conectando" /\ estado' = [estado EXCEPT ![c] = "libre"] /\ cpus' = Append(cpus, c)
      /\ deKernel' = deKernel /\ atendida' = NadieCPU
  BY <1>1, Ef_nuevaConexionCPU
<1>3. Conectadas' = Conectadas \cup {c}
  BY <1>1, <1>2, AppendProperties DEF Conectadas
<1>4. c \notin Conectadas /\ deKernel[c] = <<>>
  BY <1>2 DEF Canales, Forma
<1>5. Forma(c)'
  BY <1>1, <1>2, <1>4, Distintos DEF Forma, SeVa
<1>6. Respuestas'
  BY <1>1, <1>2, ConstantesAssumption DEF Canales, Respuestas
<1> QED
  BY <1>1, <1>2, <1>3, <1>4, <1>5, <1>6, FormaDeOtros DEF Canales

LEMMA Ca_retornarPCB ==
    ASSUME MutexInv, HilosInv, Canales, NEW c \in Cpus, retornarPCB(c)
    PROVE  Canales' /\ deKernel[c] = <<>>
<1>1. /\ TypeOK /\ ~SinResponder /\ ~SinResponder' /\ paso'[SrvCPU] # "RES_SIGNAL"
      /\ estado \in [Cpus -> EstadosCPU]
  BY Re_retornarPCB, Ef_retornarPCB
     DEF MutexInv, TypeInv, TypeOK, TipoCPUs, SinResponder, Bloqueando, Va
<1>2. /\ estado[c] = "RET_PCB" /\ estado' = [estado EXCEPT ![c] = "libre"]
      /\ deKernel' = deKernel /\ atendida' = c /\ cpus' = cpus
  BY <1>1, Ef_retornarPCB
<1>3. deKernel[c] = <<>>
  BY <1>2 DEF Canales, Forma
<1>4. Forma(c)'
  BY <1>1, <1>2, <1>3, Distintos DEF Forma, SeVa
<1>5. Respuestas'
  BY <1>1, <1>2 DEF Canales, Respuestas
<1> QED
  BY <1>1, <1>2, <1>3, <1>4, <1>5, FormaDeOtros DEF Canales, Conectadas

LEMMA Ca_wait_ok ==
    ASSUME MutexInv, HilosInv, Canales, NEW c \in Cpus, wait_ok(c)
    PROVE  Canales' /\ deKernel[c] = <<>> /\ deKernel' = [deKernel EXCEPT ![c] = Concedido]
<1>1. /\ TypeOK /\ ~SinResponder /\ ~SinResponder' /\ paso'[SrvCPU] # "RES_SIGNAL"
      /\ estado \in [Cpus -> EstadosCPU] /\ deKernel \in [Cpus -> Seq(Mensajes)]
  BY Re_wait_ok, Ef_wait_ok DEF MutexInv, TypeInv, TypeOK, TipoCPUs, SinResponder, Bloqueando
<1>2. /\ estado[c] = "WAIT" /\ estado' = [estado EXCEPT ![c] = "esperaWait"]
      /\ deKernel' = [deKernel EXCEPT ![c] = @ \o <<Msg("RES_WAIT_OK")>>] /\ atendida' = NadieCPU
      /\ cpus' = cpus
  BY <1>1, Ef_wait_ok
<1>3. deKernel[c] = <<>>
  BY <1>2 DEF Canales, Forma
<1>4. deKernel' = [deKernel EXCEPT ![c] = Concedido]
  BY <1>2, <1>3, Agregados DEF Concedido
<1>5. Forma(c)'
  BY <1>1, <1>2, <1>4, Distintos DEF Forma, SeVa
<1>6. Respuestas'
  <2>1. deKernel'[c] # <<>>
    BY <1>1, <1>4, Distintos
  <2> QED
    BY <1>1, <1>2, <1>4, <2>1, ConstantesAssumption DEF Canales, Respuestas
<1>7. \A d \in Cpus \ {c} : Forma(d)'
  BY <1>1, <1>2, <1>3, <1>4, FormaDeOtros DEF Conectadas
<1> QED
  BY <1>1, <1>2, <1>3, <1>4, <1>5, <1>6, <1>7 DEF Canales

LEMMA Ca_wait_bloquea ==
    ASSUME MutexInv, HilosInv, Canales, NEW c \in Cpus, wait_bloquea(c)
    PROVE  Canales' /\ deKernel[c] = <<>> /\ Bloqueando'
<1>1. /\ TypeOK /\ ~SinResponder /\ Bloqueando' /\ paso'[SrvCPU] # "RES_SIGNAL"
      /\ estado \in [Cpus -> EstadosCPU] /\ deKernel \in [Cpus -> Seq(Mensajes)]
  BY Ef_wait_bloquea DEF MutexInv, TypeInv, TypeOK, TipoCPUs, SinResponder, Bloqueando, Va
<1>2. /\ estado[c] = "WAIT" /\ estado' = [estado EXCEPT ![c] = "esperaWait"]
      /\ deKernel' = deKernel /\ atendida' = c /\ cpus' = cpus
  BY <1>1, Ef_wait_bloquea
<1>3. deKernel[c] = <<>>
  BY <1>2 DEF Canales, Forma
<1>4. Forma(c)'
  BY <1>1, <1>2, <1>3, Distintos DEF Forma, SeVa
<1>5. Respuestas'
  BY <1>1, <1>2, <1>3 DEF Canales, Respuestas, SinResponder
<1> QED
  BY <1>1, <1>2, <1>3, <1>4, <1>5, FormaDeOtros DEF Canales, Conectadas

LEMMA Ca_wait_encolar ==
    ASSUME MutexInv, HilosInv, Canales, wait_encolar
    PROVE  Canales' /\ Bloqueando /\ ~Bloqueando'
<1>1. /\ TypeOK /\ Bloqueando /\ SinResponder /\ SinResponder' /\ paso'[SrvCPU] # "RES_SIGNAL"
      /\ ~Bloqueando'
  BY Ef_wait_encolar DEF MutexInv, TypeInv, SinResponder, Bloqueando, Va
<1> QED
  BY <1>1, Ef_wait_encolar, CanalesIgual DEF MismaDeuda

LEMMA Ca_wait_responder ==
    ASSUME MutexInv, HilosInv, Canales, wait_responder
    PROVE  /\ Canales' /\ atendida \in Cpus /\ estado[atendida] = "esperaWait"
              /\ deKernel[atendida] = <<>>
           /\ deKernel' = [deKernel EXCEPT ![atendida] = Bloqueado]
           /\ Bloqueando' <=> Bloqueando
<1>1. /\ TypeOK /\ SinResponder /\ ~SinResponder' /\ paso'[SrvCPU] # "RES_SIGNAL"
      /\ deKernel \in [Cpus -> Seq(Mensajes)] /\ (Bloqueando' <=> Bloqueando)
  BY Ef_wait_responder DEF MutexInv, TypeInv, TypeOK, TipoCPUs, SinResponder, Bloqueando, Va
<1>2. PICK c \in Cpus : c = atendida /\ estado[c] = "esperaWait" /\ deKernel[c] = <<>>
  BY <1>1 DEF Canales, Respuestas
<1>3. UNCHANGED <<estado, cpus, atendida>>
      /\ deKernel' = [deKernel EXCEPT ![c] = @ \o <<Msg("RES_WAIT_BLOCKED")>>]
  BY <1>1, <1>2, Ef_wait_responder
<1>4. deKernel' = [deKernel EXCEPT ![c] = Bloqueado]
  BY <1>2, <1>3, Agregados DEF Bloqueado, ResWait
<1>5. Forma(c)'
  BY <1>1, <1>2, <1>3, <1>4, Distintos DEF Forma, SeVa
<1>6. Respuestas'
  <2>1. deKernel'[c] # <<>> /\ \A d \in Cpus \ {c} : deKernel'[d] = deKernel[d]
    BY <1>1, <1>4, Distintos
  <2> QED
    BY <1>1, <1>2, <1>3, <2>1 DEF Canales, Respuestas
<1>7. \A d \in Cpus \ {c} : Forma(d)'
  BY <1>1, <1>2, <1>3, <1>4, FormaDeOtros DEF Conectadas
<1> QED
  BY <1>1, <1>2, <1>3, <1>4, <1>5, <1>6, <1>7 DEF Canales

LEMMA Ca_signal ==
    ASSUME MutexInv, HilosInv, Canales, NEW c \in Cpus, signal(c)
    PROVE  Canales' /\ deKernel[c] = <<>>
<1>1. /\ TypeOK /\ ~SinResponder /\ ~SinResponder'
      /\ estado \in [Cpus -> EstadosCPU] /\ deKernel \in [Cpus -> Seq(Mensajes)]
  BY Re_signal, Ef_signal DEF MutexInv, TypeInv, TypeOK, TipoCPUs, SinResponder, Bloqueando, Va
<1>2. /\ estado[c] = "SIGNAL" /\ estado' = [estado EXCEPT ![c] = "esperaSignal"]
      /\ deKernel' = deKernel /\ atendida' = c /\ cpus' = cpus
  BY <1>1, Ef_signal
<1>3. deKernel[c] = <<>>
  BY <1>2 DEF Canales, Forma
<1>4. Forma(c)'
  BY <1>1, <1>2, <1>3, Distintos DEF Forma, SeVa
<1>5. Respuestas'
  BY <1>1, <1>2, <1>3 DEF Canales, Respuestas
<1> QED
  BY <1>1, <1>2, <1>3, <1>4, <1>5, FormaDeOtros DEF Canales, Conectadas

LEMMA Ca_signal_responder ==
    ASSUME MutexInv, HilosInv, Canales, signal_responder
    PROVE  /\ Canales' /\ atendida \in Cpus /\ estado[atendida] = "esperaSignal"
              /\ deKernel[atendida] = <<>>
           /\ deKernel' = [deKernel EXCEPT ![atendida] = Senalado]
<1>1. /\ TypeOK /\ ~SinResponder /\ ~SinResponder' /\ paso[SrvCPU] = "RES_SIGNAL"
      /\ paso'[SrvCPU] # "RES_SIGNAL"
      /\ deKernel \in [Cpus -> Seq(Mensajes)]
  BY Re_signal_responder, Ef_signal_responder
     DEF MutexInv, TypeInv, TypeOK, TipoCPUs, SinResponder, Bloqueando, Va
<1>2. PICK c \in Cpus : c = atendida /\ estado[c] = "esperaSignal" /\ deKernel[c] = <<>>
  BY <1>1 DEF Canales, Respuestas
<1>3. /\ UNCHANGED <<estado, cpus>> /\ atendida' = NadieCPU
      /\ deKernel' = [deKernel EXCEPT ![c] = @ \o <<Msg("RES_SIGNAL")>>]
  BY <1>1, <1>2, Ef_signal_responder
<1>4. deKernel' = [deKernel EXCEPT ![c] = Senalado]
  BY <1>2, <1>3, Agregados DEF Senalado
<1>5. Forma(c)'
  BY <1>1, <1>2, <1>3, <1>4, Distintos DEF Forma, SeVa
<1>6. Respuestas'
  <2>1. \A d \in Cpus \ {c} : deKernel'[d] = deKernel[d]
    BY <1>1, <1>4
  <2> QED
    BY <1>1, <1>2, <1>3, <2>1, ConstantesAssumption DEF Canales, Respuestas
<1>7. \A d \in Cpus \ {c} : Forma(d)'
  BY <1>1, <1>2, <1>3, <1>4, FormaDeOtros DEF Conectadas
<1> QED
  BY <1>1, <1>2, <1>3, <1>4, <1>5, <1>6, <1>7 DEF Canales


-----------------------------------------------------------------------------
(* The steps of the CPU processes, on the messages they can find.          *)

LEMMA Ef_correrPCB ==
    ASSUME TypeOK, Canales, NEW c \in Cpus, correrPCB(c)
    PROVE  \E p \in PID, e \in {"RET_PCB", "corre"} :
              /\ estado[c] = "libre" /\ deKernel[c] = CorrerPCB(p)
              /\ estado' = [estado EXCEPT ![c] = e] /\ deKernel' = [deKernel EXCEPT ![c] = <<>>]
              /\ ejecuta' = [ejecuta EXCEPT ![c] = p] /\ UNCHANGED <<kernel, desfase>>
<1> DEFINE resto == IF deKernel[c][1].tipo = "NUEVO_QUANTUM_SLEEP" THEN Tail(deKernel[c])
                     ELSE deKernel[c]
<1>1. /\ estado[c] = "libre" /\ deKernel[c] # <<>> /\ resto[1].tipo = "CORRER_PCB"
      /\ ejecuta' = [ejecuta EXCEPT ![c] = resto[1].pid]
      /\ deKernel' = [deKernel EXCEPT ![c] = Tail(resto)]
      /\ \E e \in {"RET_PCB", "corre"} : estado' = [estado EXCEPT ![c] = e]
      /\ UNCHANGED <<kernel, desfase>>
  BY DEF correrPCB, PasoCPU
<1>2. deKernel[c] # Despedida
  BY <1>1, Leidos
<1>3. PICK p \in PID : deKernel[c] = CorrerPCB(p)
  BY <1>1, <1>2 DEF Canales, Forma
<1>4. resto = <<[tipo |-> "CORRER_PCB", pid |-> p]>> /\ Tail(resto) = <<>>
  BY <1>3, Leidos
<1> HIDE DEF resto
<1>5. resto[1].pid = p
  BY <1>4
<1> QED
  BY <1>1, <1>3, <1>4, <1>5

LEMMA Ef_finishCPU_cpu ==
    ASSUME TypeOK, Canales, NEW c \in Cpus, finishCPU_cpu(c)
    PROVE  /\ estado[c] = "libre" /\ deKernel[c] = Despedida
           /\ estado' = [estado EXCEPT ![c] = "fin"] /\ deKernel' = [deKernel EXCEPT ![c] = <<>>]
           /\ UNCHANGED <<kernel, ejecuta, desfase>>
<1>1. /\ estado[c] = "libre" /\ deKernel[c] # <<>> /\ deKernel[c][1].tipo # "NUEVO_QUANTUM_SLEEP"
      /\ deKernel' = [deKernel EXCEPT ![c] = Tail(@)]
      /\ estado' = [estado EXCEPT ![c] = IF deKernel[c][1].tipo = "FINISH_CPU" THEN "fin" ELSE "libre"]
      /\ UNCHANGED <<kernel, ejecuta, desfase>>
  BY DEF finishCPU_cpu, PasoCPU
<1>2. deKernel[c] = Despedida
  <2>1. \A p \in PID : deKernel[c] # CorrerPCB(p)
    BY <1>1, Leidos
  <2> QED
    BY <1>1, <2>1 DEF Canales, Forma
<1> QED
  BY <1>1, <1>2, Leidos

(* The reply to a wait or a signal, or the word that the process stays     *)
(* blocked.                                                                *)
LEMMA Ef_recibirRespuesta ==
    ASSUME TypeOK, Canales, NEW c \in Cpus, recibirRespuesta(c)
    PROVE  /\ UNCHANGED <<kernel, ejecuta, desfase>>
           /\ \/ /\ estado[c] = "esperaSignal" /\ deKernel[c] = Senalado
                 /\ estado' = [estado EXCEPT ![c] = "corre"]
                 /\ deKernel' = [deKernel EXCEPT ![c] = <<>>]
              \/ /\ estado[c] = "esperaWait" /\ deKernel[c] = Concedido
                 /\ estado' = [estado EXCEPT ![c] = "corre"]
                 /\ deKernel' = [deKernel EXCEPT ![c] = <<>>]
              \/ /\ estado[c] = "esperaWait" /\ estado' = [estado EXCEPT ![c] = "libre"]
                 /\ \/ deKernel[c] = Bloqueado /\ deKernel' = [deKernel EXCEPT ![c] = <<>>]
                    \/ deKernel[c] = BloqueadoYDespedida
                       /\ deKernel' = [deKernel EXCEPT ![c] = Despedida]
                    \/ \E p \in PID : /\ deKernel[c] = PorCorrer(p)
                                      /\ deKernel' = [deKernel EXCEPT ![c] = CorrerPCB(p)]
<1> DEFINE m == deKernel[c][1].tipo
<1>1. /\ estado[c] \in {"esperaWait", "esperaSignal"} /\ deKernel[c] # <<>>
      /\ deKernel' = [deKernel EXCEPT ![c] = Tail(@)]
      /\ UNCHANGED <<kernel, ejecuta, desfase>>
  BY DEF recibirRespuesta
<1>2. m = "RES_WAIT_BLOCKED" => estado' = [estado EXCEPT ![c] = "libre"]
  BY DEF recibirRespuesta, PasoCPU
<1>3. m \in {"RES_WAIT_OK", "RES_SIGNAL"} => estado' = [estado EXCEPT ![c] = "corre"]
  BY DEF recibirRespuesta, PasoCPU
<1> HIDE DEF m
<1>4. CASE estado[c] = "esperaSignal"
  <2>1. deKernel[c] = Senalado
    BY <1>1, <1>4 DEF Canales, Forma
  <2>2. m = "RES_SIGNAL" /\ Tail(deKernel[c]) = <<>>
    BY <2>1, Leidos DEF m
  <2> QED
    BY <1>1, <1>3, <1>4, <2>1, <2>2
<1>5. CASE estado[c] = "esperaWait"
  <2>1. \/ deKernel[c] \in {Concedido, Bloqueado, BloqueadoYDespedida}
        \/ \E p \in PID : deKernel[c] = PorCorrer(p)
    BY <1>1, <1>5 DEF Canales, Forma
  <2>2. CASE deKernel[c] = Concedido
    <3>1. m = "RES_WAIT_OK" /\ Tail(deKernel[c]) = <<>>
      BY <2>2, Leidos DEF m
    <3> QED
      BY <1>1, <1>3, <1>5, <2>2, <3>1
  <2>3. CASE deKernel[c] = Bloqueado
    <3>1. m = "RES_WAIT_BLOCKED" /\ Tail(deKernel[c]) = <<>>
      BY <2>3, Leidos DEF m
    <3> QED
      BY <1>1, <1>2, <1>5, <2>3, <3>1
  <2>4. CASE deKernel[c] = BloqueadoYDespedida
    <3>1. m = "RES_WAIT_BLOCKED" /\ Tail(deKernel[c]) = Despedida
      BY <2>4, Leidos DEF m
    <3> QED
      BY <1>1, <1>2, <1>5, <2>4, <3>1
  <2>5. CASE \E p \in PID : deKernel[c] = PorCorrer(p)
    <3>1. PICK p \in PID : deKernel[c] = PorCorrer(p)
      BY <2>5
    <3>2. m = "RES_WAIT_BLOCKED" /\ Tail(deKernel[c]) = CorrerPCB(p)
      BY <3>1, Leidos DEF m
    <3> QED
      BY <1>1, <1>2, <1>5, <3>1, <3>2
  <2> QED
    BY <2>1, <2>2, <2>3, <2>4, <2>5
<1> QED
  BY <1>1, <1>4, <1>5

(* A CPU connects, or makes a request.                                     *)
LEMMA Ef_pide ==
    ASSUME NEW c \in Cpus, ejecutarPrograma(c) \/ conectarCPU(c) \/ waitAnsisop(c) \/ signalAnsisop(c)
    PROVE  /\ UNCHANGED <<kernel, ejecuta, deKernel, desfase>>
           /\ \/ estado[c] = "apagada" /\ estado' = [estado EXCEPT ![c] = "conectando"]
              \/ /\ estado[c] = "corre"
                 /\ \E e \in {"RET_PCB", "WAIT", "SIGNAL"} : estado' = [estado EXCEPT ![c] = e]
BY DEF ejecutarPrograma, conectarCPU, waitAnsisop, signalAnsisop, PasoCPU

LEMMA CanalesDeCPU ==
    ASSUME TypeOK, Canales, UNCHANGED kernel, NEW c \in Cpus, Forma(c)',
           \A d \in Cpus \ {c} : estado'[d] = estado[d] /\ deKernel'[d] = deKernel[d],
           estado[c] # "esperaWait" \/ deKernel[c] # <<>>,
           estado[c] # "esperaSignal" \/ deKernel[c] # <<>>,
           estado'[c] \notin {"esperaWait", "esperaSignal"}
    PROVE  Canales'
<1>1. \A d \in Cpus \ {c} : Forma(d)'
  BY FormaDeOtros DEF Conectadas
<1>2. Respuestas'
  <2>1. Respuestas /\ (SinResponder' <=> SinResponder)
    BY DEF Canales, SinResponder, Bloqueando
  <2>2. UNCHANGED <<atendida, paso>>
    OBVIOUS
  <2> QED
    BY <2>1, <2>2 DEF Respuestas
<1> QED
  BY <1>1, <1>2 DEF Canales

LEMMA Ca_CPU ==
    ASSUME MutexInv, Canales, NEW c \in Cpus,
           \/ PasoProcesoCPU(c) \/ conectarCPU(c) \/ signalHandler(c)
           \/ waitAnsisop(c) \/ signalAnsisop(c)
    PROVE  Canales'
<1>1. TypeOK /\ estado \in [Cpus -> EstadosCPU] /\ deKernel \in [Cpus -> Seq(Mensajes)]
  BY DEF MutexInv, TypeInv, TypeOK, TipoCPUs
<1>2. CASE correrPCB(c)
  <2>1. PICK p \in PID, e \in {"RET_PCB", "corre"} :
           /\ estado[c] = "libre" /\ deKernel[c] = CorrerPCB(p)
           /\ estado' = [estado EXCEPT ![c] = e] /\ deKernel' = [deKernel EXCEPT ![c] = <<>>]
           /\ UNCHANGED kernel
    BY <1>1, <1>2, Ef_correrPCB
  <2>2. estado'[c] = e /\ deKernel'[c] = <<>>
    BY <1>1, <2>1
  <2>3. Forma(c)'
    BY <2>2, Distintos DEF Forma, SeVa
  <2> QED
    BY <1>1, <2>1, <2>2, <2>3, CanalesDeCPU
<1>3. CASE finishCPU_cpu(c)
  <2>1. /\ estado[c] = "libre" /\ deKernel[c] = Despedida
        /\ estado' = [estado EXCEPT ![c] = "fin"] /\ deKernel' = [deKernel EXCEPT ![c] = <<>>]
        /\ UNCHANGED kernel
    BY <1>1, <1>3, Ef_finishCPU_cpu
  <2>2. estado'[c] = "fin" /\ deKernel'[c] = <<>>
    BY <1>1, <2>1
  <2>3. c \notin Conectadas'
    BY <2>1 DEF Canales, Forma, SeVa, Conectadas
  <2>4. Forma(c)'
    BY <2>2, <2>3, Distintos DEF Forma, SeVa
  <2> QED
    BY <1>1, <2>1, <2>2, <2>4, CanalesDeCPU
<1>4. CASE recibirRespuesta(c)
  <2>1. UNCHANGED kernel /\ deKernel[c] # <<>>
    BY <1>1, <1>4, Ef_recibirRespuesta DEF recibirRespuesta
  <2>2. /\ \A d \in Cpus \ {c} : estado'[d] = estado[d] /\ deKernel'[d] = deKernel[d]
        /\ estado'[c] \in {"corre", "libre"}
    BY <1>1, <1>4, Ef_recibirRespuesta
  <2>3. Forma(c)'
    <3>1. CASE estado'[c] = "corre"
      <4>1. deKernel'[c] = <<>>
        BY <1>1, <1>4, <3>1, Ef_recibirRespuesta
      <4> QED
        BY <3>1, <4>1, Distintos DEF Forma, SeVa
    <3>2. CASE estado'[c] = "libre"
      <4>1. \/ deKernel'[c] = <<>>
            \/ deKernel[c] = BloqueadoYDespedida /\ deKernel'[c] = Despedida
            \/ \E p \in PID : deKernel'[c] = CorrerPCB(p)
        BY <1>1, <1>4, <3>2, Ef_recibirRespuesta
      <4>2. CASE deKernel[c] = BloqueadoYDespedida /\ deKernel'[c] = Despedida
        BY <2>1, <3>2, <4>2 DEF Canales, Forma, SeVa, Conectadas
      <4>3. CASE deKernel'[c] = <<>> \/ \E p \in PID : deKernel'[c] = CorrerPCB(p)
        BY <3>2, <4>3, Distintos, DistintosPCB DEF Forma, SeVa
      <4> QED
        BY <4>1, <4>2, <4>3
    <3> QED
      BY <2>2, <3>1, <3>2
  <2> QED
    BY <1>1, <2>1, <2>2, <2>3, CanalesDeCPU
<1>5. CASE ejecutarPrograma(c) \/ conectarCPU(c) \/ waitAnsisop(c) \/ signalAnsisop(c)
  <2>1. UNCHANGED kernel /\ deKernel' = deKernel
    BY <1>5, Ef_pide
  <2>2. /\ \A d \in Cpus \ {c} : estado'[d] = estado[d]
        /\ \/ estado[c] = "apagada" /\ estado'[c] = "conectando"
           \/ estado[c] = "corre" /\ estado'[c] \in {"RET_PCB", "WAIT", "SIGNAL"}
    BY <1>1, <1>5, Ef_pide
  <2>3. Forma(c)'
    BY <2>1, <2>2 DEF Canales, Forma, SeVa, Conectadas
  <2> QED
    BY <1>1, <2>1, <2>2, <2>3, CanalesDeCPU
<1>6. CASE signalHandler(c)
  <2>1. UNCHANGED <<kernel, estado, deKernel>>
    BY <1>6 DEF signalHandler
  <2> QED
    BY <2>1 DEF Canales, Respuestas, Forma, SeVa, Conectadas, SinResponder, Bloqueando
<1> QED
  BY <1>2, <1>3, <1>4, <1>5, <1>6 DEF PasoProcesoCPU


-----------------------------------------------------------------------------
(* Who has the process of each CPU, step by step. *)
Activa(c) == Corre(c) \/ \E p \in PID : Manda(c, p)

LEMMA TenenciaMisma ==
    ASSUME Tenencia, UNCHANGED colaExec,
           \A c \in Cpus, p \in PID : Ocupan(c, p)' <=> Ocupan(c, p),
           \A c \in Cpus, p \in PID : Ocupan(c, p) => c \in Conectadas' /\ ocupada'[c]
    PROVE  EnExec' /\ ConCPU' /\ DeAUno'
<1>1. EnExec'
  BY DEF Tenencia, EnExec
<1>2. ConCPU'
  BY DEF ConCPU
<1>3. DeAUno'
  BY DEF Tenencia, DeAUno
<1> QED
  BY <1>1, <1>2, <1>3

(* The threads of T neither come to send a PCB nor were to send one.       *)
LEMMA EnviosMismos ==
    ASSUME MutexInv, NEW T, Quietos(T),
           \A t \in T : t \in Hilos => "CORRER_PCB" \notin {paso[t], paso'[t]}
    PROVE  \A c : \A t \in Hilos : /\ Envia(t, c)' <=> Envia(t, c)
                                   /\ Envia(t, c) => pid'[t] = pid[t]
BY DEF Quietos, Envia

LEMMA Te_hilo ==
    ASSUME MutexInv, Tenencia, NEW T, Quietos(T),
           \A t \in T : t \in Hilos => "CORRER_PCB" \notin {paso[t], paso'[t]},
           UNCHANGED <<estado, ejecuta, deKernel, colaExec, ocupada, cpus, atendida>>,
           Bloqueando' => Bloqueando
    PROVE  Tenencia'
<1>1. \A c : \A t \in Hilos : (Envia(t, c)' <=> Envia(t, c)) /\ (Envia(t, c) => pid'[t] = pid[t])
  BY EnviosMismos
<1>2. \A c \in Cpus : (Corre(c)' <=> Corre(c)) /\ \A p \in PID : Manda(c, p)' <=> Manda(c, p)
  BY DEF Corre, Manda
<1>3. \A c \in Cpus, p \in PID : Ocupan(c, p)' <=> Ocupan(c, p)
  BY <1>1, <1>2 DEF Ocupan
<1>4. \A c \in Cpus, p \in PID : Ocupan(c, p) => c \in Conectadas' /\ ocupada'[c]
  BY DEF Tenencia, ConCPU, Conectadas
<1>5. UnEnvio'
  BY <1>1, <1>2 DEF Tenencia, UnEnvio
<1>6. SinEnvio'
  BY <1>1 DEF Tenencia, SinEnvio
<1> QED
  BY <1>3, <1>4, <1>5, <1>6, TenenciaMisma DEF Tenencia

(* Only what CPU c has changes, and it has the same process.               *)
LEMMA Te_CPU ==
    ASSUME MutexInv, Tenencia, NEW c \in Cpus,
           \A d \in Cpus \ {c} : estado'[d] = estado[d] /\ deKernel'[d] = deKernel[d]
           /\ ejecuta'[d] = ejecuta[d],
           \A p \in PID : (Corre(c)' /\ ejecuta'[c] = p) \/ Manda(c, p)' <=>
              (Corre(c) /\ ejecuta[c] = p) \/ Manda(c, p),
           Activa(c)' => Activa(c),
           \A d : \A t \in Hilos : (Envia(t, d)' <=> Envia(t, d)) /\ (Envia(t, d) => pid'[t] = pid[t]),
           UNCHANGED <<colaExec, ocupada>>, \A d \in Conectadas : ocupada[d] => d \in Conectadas',
           Bloqueando' => Bloqueando /\ UNCHANGED atendida
    PROVE  Tenencia'
<1>1. \A d \in Cpus \ {c} : (Corre(d)' <=> Corre(d)) /\ \A p \in PID : Manda(d, p)' <=> Manda(d, p)
  BY DEF Corre, Manda
<1>2. \A d \in Cpus, p \in PID : Ocupan(d, p)' <=> Ocupan(d, p)
  BY <1>1 DEF Ocupan
<1>3. \A d \in Cpus, p \in PID : Ocupan(d, p) => d \in Conectadas' /\ ocupada'[d]
  BY DEF Tenencia, ConCPU
<1>4. UnEnvio'
  <2> SUFFICES ASSUME NEW d \in Cpus, NEW t \in Hilos, Envia(t, d)'
               PROVE  (~Corre(d) /\ (\A p \in PID : ~Manda(d, p))
                         /\ \A u \in Hilos : Envia(u, d) => u = t)'
    BY DEF UnEnvio
  <2>1. /\ Envia(t, d) /\ ~Corre(d) /\ \A p \in PID : ~Manda(d, p)
        /\ \A u \in Hilos : Envia(u, d) => u = t
    BY DEF Tenencia, UnEnvio
  <2>2. CASE d = c
    BY <2>1, <2>2 DEF Activa
  <2>3. CASE d # c
    BY <1>1, <2>1, <2>3
  <2> QED
    BY <2>2, <2>3
<1>5. SinEnvio'
  BY DEF Tenencia, SinEnvio
<1> QED
  BY <1>2, <1>3, <1>4, <1>5, TenenciaMisma DEF Tenencia

-----------------------------------------------------------------------------
(* The steps that leave the CPUs and their channels alone.                 *)
LEMMA CT_hilo ==
    ASSUME MutexInv, HilosInv, Canales, Tenencia, NEW t \in Hilos,
           PasoHilo(t), ~relacionar(t), ~correr_pcb(t)
    PROVE  Canales' /\ Tenencia'
<1>1. TypeOK /\ Lleva(t) /\ "CORRER_PCB" \notin {"nada", "select", "RES_SIGNAL"} \cup Regresos
  BY DEF MutexInv, TypeInv, CadaUnoLleva, Regresos
<1>2. /\ SinCambio /\ Quietos({t})
      /\ UNCHANGED <<estado, ejecuta, deKernel, colaExec, ocupada, cpus, atendida>>
      /\ "CORRER_PCB" \notin {paso[t], paso'[t]}
  <2>1. CASE cargar_programa(t)
    BY <1>1, <2>1, Re_cargar_programa, Ef_cargar_programa, FinalDe DEF Va, Lleva
  <2>2. CASE moverA_colaNew(t)
    BY <1>1, <2>2, Re_moverA_colaNew, Ef_moverA_colaNew, FinalDe DEF Va, Lleva
  <2>3. CASE sem_wait(t)
    BY <1>1, <2>3, Re_sem_wait, Ef_sem_wait, FinalDe DEF Va, Lleva
  <2>4. CASE inicializar_programa(t)
    BY <1>1, <2>4, Re_inicializar_programa, Ef_inicializar_programa, FinalDe DEF Va, Lleva
  <2>5. CASE moverA_colaReady(t)
    BY <1>1, <2>5, Re_moverA_colaReady, Ef_moverA_colaReady, FinalDe DEF Va, Lleva
  <2>6. CASE moverA_colaExit(t)
    BY <1>1, <2>6, Re_moverA_colaExit, Ef_moverA_colaExit, FinalDe DEF Va, Lleva
  <2>7. CASE finalizarProcesoMemoria(t)
    BY <1>1, <2>7, Re_finalizarProcesoMemoria, Ef_finalizarProcesoMemoria, FinalDe DEF Va, Lleva
  <2>8. CASE finishProcess(t)
    BY <1>1, <2>8, Re_finishProcess, Ef_finishProcess, FinalDe DEF Va, Lleva
  <2>9. CASE enviar_a_cpu(t)
    BY <1>1, <2>9, Re_enviar_a_cpu, Ef_enviar_a_cpu, FinalDe DEF Va, Lleva
  <2>10. CASE sacarCualquieraDeReady(t)
    BY <1>1, <2>10, Re_sacarCualquieraDeReady, Ef_sacarCualquieraDeReady, FinalDe DEF Va, Lleva
  <2> QED
    BY <2>1, <2>2, <2>3, <2>4, <2>5, <2>6, <2>7, <2>8, <2>9, <2>10 DEF PasoHilo
<1> QED
  BY <1>1, <1>2, CanalesIgual, Te_hilo DEF SinCambio

LEMMA CT_finalizador ==
    ASSUME MutexInv, HilosInv, Canales, Tenencia, NEW t \in Finalizadores, PasoFinalizador(t)
    PROVE  Canales' /\ Tenencia'
<1>1. TypeOK
  BY DEF MutexInv, TypeInv
<1>2. /\ SinCambio /\ Quietos({t})
      /\ UNCHANGED <<estado, ejecuta, deKernel, colaExec, ocupada, cpus, atendida>>
      /\ "CORRER_PCB" \notin {paso[t], paso'[t]}
  <2>1. CASE finalizarProceso(t)
    BY <1>1, <2>1, Re_finalizarProceso, Ef_finalizarProceso DEF Va
  <2>2. CASE sacarDe_colaReady(t)
    BY <1>1, <2>2, Re_sacarDe_colaReady, Ef_sacarDe_colaReady DEF Va
  <2> QED
    BY <2>1, <2>2 DEF PasoFinalizador
<1> QED
  BY <1>1, <1>2, CanalesIgual, Te_hilo DEF SinCambio

LEMMA CT_decide ==
    ASSUME MutexInv, HilosInv, Canales, Tenencia, retornarPCB_decidir \/ program_change_running
    PROVE  Canales' /\ Tenencia'
<1>1. TypeOK
  BY DEF MutexInv, TypeInv
<1>2. /\ SinCambio /\ Quietos({SrvCPU})
      /\ UNCHANGED <<estado, ejecuta, deKernel, colaExec, ocupada, cpus, atendida>>
      /\ "CORRER_PCB" \notin {paso[SrvCPU], paso'[SrvCPU]}
  <2>1. CASE retornarPCB_decidir
    BY <1>1, <2>1, Re_retornarPCB_decidir, Ef_retornarPCB_decidir DEF Va, SinCambio, MismaDeuda
  <2>2. CASE program_change_running
    BY <1>1, <2>2, Re_program_change_running, Ef_program_change_running
       DEF Va, SinCambio, MismaDeuda
  <2> QED
    BY <2>1, <2>2
<1> QED
  BY <1>1, <1>2, CanalesIgual, Te_hilo DEF SinCambio

LEMMA CT_nuevoPrograma ==
    ASSUME MutexInv, HilosInv, Canales, Tenencia, NEW c \in Consolas, nuevoPrograma(c)
    PROVE  Canales' /\ Tenencia'
<1>1. TypeOK
  BY DEF MutexInv, TypeInv
<1>2. PICK p \in PID : p = ultimoPID
  BY <1>1, Ef_nuevoPrograma
<1>3. Programa(p) \in Hilos \ {SrvCPU}
  BY <1>2, ThreadFacts, HilosDistintos
<1>4. paso[Programa(p)] # "CORRER_PCB"
  <2>1. p >= ultimoPID
    BY <1>2, ConstantesAssumption DEF PID
  <2> QED
    BY <2>1 DEF MutexInv, SinEmpezar
<1>5. /\ Quietos({Programa(p)}) /\ paso'[Programa(p)] = "cargar_programa"
      /\ UNCHANGED <<estado, ejecuta, deKernel, colaExec, ocupada, cpus, atendida>>
  BY <1>1, <1>2, Ef_nuevoPrograma DEF Va
<1>6. SinCambio
  BY <1>3, <1>5, ThreadFacts DEF Quietos, SinCambio, MismaDeuda, Bloqueando, SinResponder
<1> QED
  BY <1>1, <1>3, <1>4, <1>5, <1>6, CanalesIgual, Te_hilo DEF SinCambio

LEMMA CT_pedirFin ==
    ASSUME MutexInv, HilosInv, Canales, Tenencia,
           \/ \E c \in Consolas : desconexionConsola(c)
           \/ \E p \in PID : finalizarProgramaConsola(p)
    PROVE  Canales' /\ Tenencia'
<1>1. TypeOK
  BY DEF MutexInv, TypeInv
<1> DEFINE T == {u \in Hilos : paso'[u] # paso[u]}
<1>2. /\ Quietos(T) /\ UNCHANGED <<estado, ejecuta, deKernel, colaExec, ocupada, cpus, atendida>>
      /\ \A u \in T : "CORRER_PCB" \notin {paso[u], paso'[u]}
  BY Ef_pedirFin DEF Quietos
<1>3. paso'[SrvCPU] = paso[SrvCPU] /\ vuelve' = vuelve
  BY Ef_pedirFin, ThreadFacts, HilosDistintos
<1>4. SinCambio
  BY <1>3 DEF SinCambio, MismaDeuda, Bloqueando, SinResponder
<1> HIDE DEF T
<1> QED
  BY <1>1, <1>2, <1>4, CanalesIgual, Te_hilo DEF SinCambio

(* A thread that puts its PCB in Exec sends it to the CPU it chose, which  *)
(* had none.                                                               *)
LEMMA Te_relacionar ==
    ASSUME MutexInv, HilosInv, Canales, Tenencia, NEW t \in Hilos, relacionar(t),
           pcb[t] \notin colaExec
    PROVE  Tenencia'
<1>1. TypeOK /\ SinCambio /\ Lleva(t) /\ paso[t] = "relacionar" /\ Quietos({t})
      /\ UNCHANGED <<estado, ejecuta, deKernel, cpus, atendida>> /\ sock'[t] = sock[t]
  BY Re_relacionar, Ef_relacionar DEF MutexInv, TypeInv, CadaUnoLleva
<1>2. Conectadas \subseteq Cpus /\ ocupada \in [Cpus -> BOOLEAN]
  BY <1>1 DEF TypeOK, TipoCPUs, Conectadas
<1>3. PICK c \in Cpus, p \in PID : c = sock[t] /\ p = pcb[t] /\ c \in Conectadas /\ ~ocupada[c]
  BY <1>1, <1>2 DEF HilosInv, Elige, Lleva, ConPCB
<1>4. ~Corre(c) /\ \A q \in PID : ~Manda(c, q) /\ ~Ocupan(c, q)
  BY <1>3, OciosaLibre
<1>5. CASE paso'[t] # "CORRER_PCB"
  <2>1. UNCHANGED <<colaExec, ocupada>>
    BY <1>1, <1>5, Ef_relacionar DEF Va
  <2> QED
    BY <1>1, <1>5, <2>1, Te_hilo DEF SinCambio
<1>6. CASE paso'[t] = "CORRER_PCB"
  <2>1. /\ pid'[t] = p /\ colaExec' = colaExec \cup {p} /\ ocupada' = [ocupada EXCEPT ![c] = TRUE]
    <3>1. paso'[t] # Final(t)
      BY <1>6, FinalDe
    <3> QED
      BY <1>1, <1>3, <3>1, Ef_relacionar DEF Va
  <2>2. \A d : \A u \in Hilos : /\ Envia(u, d)' <=> Envia(u, d) \/ (u = t /\ d = c)
                                /\ Envia(u, d) => pid'[u] = pid[u]
    BY <1>1, <1>3, <1>6 DEF Quietos, Envia
  <2>3. \A d \in Cpus : (Corre(d)' <=> Corre(d)) /\ \A q \in PID : Manda(d, q)' <=> Manda(d, q)
    BY <1>1 DEF Corre, Manda
  <2>4. \A d \in Cpus, q \in PID : Ocupan(d, q)' <=> Ocupan(d, q) \/ (d = c /\ q = p)
    BY <1>1, <2>1, <2>2, <2>3 DEF Ocupan
  <2>5. \A u \in Hilos : ~Envia(u, c)
    <3> SUFFICES ASSUME NEW u \in Hilos, Envia(u, c) PROVE FALSE
      OBVIOUS
    <3>1. pid[u] \in PID
      BY DEF Envia, MutexInv, TypeInv, CadaUnoLleva, Lleva, ConPID
    <3> QED
      BY <1>4, <3>1 DEF Ocupan
  <2>6. EnExec'
    BY <2>1, <2>4 DEF Tenencia, EnExec
  <2>7. ConCPU'
    <3>1. \A d \in Cpus, q \in PID : Ocupan(d, q) => d \in Conectadas /\ ocupada[d]
      BY DEF Tenencia, ConCPU
    <3> QED
      BY <1>1, <1>2, <1>3, <2>1, <2>4, <3>1 DEF ConCPU, Conectadas
  <2>8. DeAUno'
    <3>1. \A d \in Cpus : ~Ocupan(d, p)
      BY <1>3 DEF Tenencia, EnExec
    <3> QED
      BY <1>4, <2>4, <3>1 DEF Tenencia, DeAUno
  <2>9. UnEnvio'
    BY <1>4, <2>2, <2>3, <2>5 DEF Tenencia, UnEnvio
  <2>10. SinEnvio'
    BY <1>1, <1>2, <1>3, <2>1, <2>2 DEF Tenencia, SinEnvio, SinCambio, MismaDeuda
  <2> QED
    BY <2>6, <2>7, <2>8, <2>9, <2>10 DEF Tenencia
<1> QED
  BY <1>5, <1>6

(* The PCB that was sent is on its way to the CPU.                         *)
LEMMA Te_correr_pcb ==
    ASSUME MutexInv, HilosInv, Canales, Tenencia, ~desfase', NEW t \in Hilos, correr_pcb(t)
    PROVE  Tenencia'
<1>1. TypeOK /\ SinCambio /\ paso[t] = "CORRER_PCB" /\ paso'[t] # "CORRER_PCB" /\ Quietos({t})
      /\ UNCHANGED <<estado, ejecuta, colaExec, ocupada, cpus, atendida>> /\ sock'[t] = sock[t]
  BY Re_correr_pcb, Ef_correr_pcb, FinalDe DEF MutexInv, TypeInv, Va
<1>2. deKernel \in [Cpus -> Seq(Mensajes)]
  BY <1>1 DEF TypeOK, TipoCPUs
<1>3. PICK c \in Cpus, p \in PID :
         /\ c = sock[t] /\ p = pid[t]
         /\ \/ deKernel' = [deKernel EXCEPT ![c] = CorrerPCB(p)]
            \/ deKernel' = [deKernel EXCEPT ![c] = PorCorrer(p)]
  BY Ca_correr_pcb
<1>4. Envia(t, c) /\ Ocupan(c, p)
  BY <1>1, <1>3 DEF Envia, Ocupan
<1>5. /\ ~Corre(c) /\ \A q \in PID : ~Manda(c, q)
      /\ \A u \in Hilos : Envia(u, c) => u = t
  BY <1>4 DEF Tenencia, UnEnvio
<1>6. deKernel'[c] \in {CorrerPCB(p), PorCorrer(p)} /\ \A d \in Cpus \ {c} : deKernel'[d] = deKernel[d]
  BY <1>2, <1>3
<1>7. ~Corre(c)' /\ \A q \in PID : Manda(c, q)' <=> q = p
  BY <1>1, <1>5, <1>6, DistintosPCB DEF Corre, Manda
<1>8. \A d \in Cpus \ {c} : (Corre(d)' <=> Corre(d)) /\ \A q \in PID : Manda(d, q)' <=> Manda(d, q)
  BY <1>1, <1>6 DEF Corre, Manda
<1>9. \A d : \A u \in Hilos : /\ Envia(u, d)' <=> Envia(u, d) /\ u # t
                              /\ Envia(u, d) => pid'[u] = pid[u] \/ u = t
  BY <1>1 DEF Quietos, Envia
<1>10. \A q \in PID : Ocupan(c, q)' <=> Ocupan(c, q)
  <2>1. \A q \in PID : Ocupan(c, q) <=> q = p
    BY <1>4 DEF Tenencia, DeAUno
  <2>2. \A u \in Hilos : ~Envia(u, c)'
    BY <1>5, <1>9
  <2> QED
    BY <1>7, <2>1, <2>2 DEF Ocupan
<1>11. \A d \in Cpus \ {c}, q \in PID : Ocupan(d, q)' <=> Ocupan(d, q)
  <2>1. \A d \in Cpus \ {c} : ~Envia(t, d)
    BY <1>3 DEF Envia
  <2> QED
    BY <1>1, <1>8, <1>9, <2>1 DEF Ocupan
<1>12. \A d \in Cpus, q \in PID : Ocupan(d, q) => d \in Conectadas' /\ ocupada'[d]
  BY <1>1 DEF Tenencia, ConCPU, Conectadas
<1>13. EnExec' /\ ConCPU' /\ DeAUno'
  <2>1. \A d \in Cpus, q \in PID : Ocupan(d, q)' <=> Ocupan(d, q)
    BY <1>10, <1>11
  <2> QED
    BY <1>1, <1>12, <2>1, TenenciaMisma
<1>14. UnEnvio'
  BY <1>5, <1>8, <1>9 DEF Tenencia, UnEnvio
<1>15. SinEnvio'
  BY <1>1, <1>9 DEF Tenencia, SinEnvio, SinCambio
<1> QED
  BY <1>13, <1>14, <1>15 DEF Tenencia

LEMMA Te_nuevaConexionCPU ==
    ASSUME MutexInv, HilosInv, Canales, Tenencia, NEW c \in Cpus, nuevaConexionCPU(c)
    PROVE  Tenencia'
<1>1. /\ TypeOK /\ ~Bloqueando' /\ Quietos({SrvCPU})
      /\ "CORRER_PCB" \notin {paso[SrvCPU], paso'[SrvCPU]}
      /\ estado \in [Cpus -> EstadosCPU] /\ ocupada \in [Cpus -> BOOLEAN]
  BY Re_nuevaConexionCPU, Ef_nuevaConexionCPU
     DEF MutexInv, TypeInv, TypeOK, TipoCPUs, Bloqueando, Va
<1>2. /\ estado[c] = "conectando" /\ estado' = [estado EXCEPT ![c] = "libre"]
      /\ UNCHANGED <<ejecuta, deKernel, colaExec>>
      /\ ocupada' = [ocupada EXCEPT ![c] = FALSE]
      /\ c \notin Conectadas /\ Conectadas' = Conectadas \cup {c}
  BY <1>1, Ef_nuevaConexionCPU, Ca_nuevaConexionCPU
<1>3. \A d : \A t \in Hilos : (Envia(t, d)' <=> Envia(t, d)) /\ (Envia(t, d) => pid'[t] = pid[t])
  BY <1>1, EnviosMismos
<1>4. \A d \in Cpus : (Corre(d)' <=> Corre(d)) /\ \A q \in PID : Manda(d, q)' <=> Manda(d, q)
  BY <1>1, <1>2 DEF Corre, Manda
<1>5. \A d \in Cpus, p \in PID : Ocupan(d, p)' <=> Ocupan(d, p)
  BY <1>2, <1>3, <1>4 DEF Ocupan
<1>6. \A d \in Cpus, p \in PID : Ocupan(d, p) => d \in Conectadas' /\ ocupada'[d]
  BY <1>1, <1>2 DEF Tenencia, ConCPU
<1>7. UnEnvio'
  BY <1>3, <1>4 DEF Tenencia, UnEnvio
<1>8. SinEnvio'
  BY <1>1 DEF SinEnvio
<1> QED
  BY <1>2, <1>5, <1>6, <1>7, <1>8, TenenciaMisma DEF Tenencia

(* A CPU that gives its process back, or loses it.                         *)
LEMMA Suelta ==
    ASSUME MutexInv, HilosInv, Canales, Tenencia, NEW c \in Cpus,
           Corre(c), ~Corre(c)', deKernel[c] = <<>>, colaExec' = colaExec \ {ejecuta[c]},
           Quietos({SrvCPU}), "CORRER_PCB" \notin {paso[SrvCPU], paso'[SrvCPU]},
           UNCHANGED <<deKernel, cpus>>,
           \A d \in Cpus \ {c} : estado'[d] = estado[d] /\ ejecuta'[d] = ejecuta[d]
           /\ ocupada'[d] = ocupada[d]
    PROVE  EnExec' /\ ConCPU' /\ DeAUno' /\ UnEnvio' /\ ocupada[c] /\ \A t \in Hilos : ~Envia(t, c)'
<1>1. PICK p \in PID : p = ejecuta[c]
  BY DEF Corre, MutexInv, TypeInv, CadaUnoLleva, ConProceso
<1>2. Ocupan(c, p)
  BY <1>1 DEF Ocupan
<1>3. \A d : \A t \in Hilos : (Envia(t, d)' <=> Envia(t, d)) /\ (Envia(t, d) => pid'[t] = pid[t])
  BY EnviosMismos
<1>4. \A t \in Hilos : ~Envia(t, c)
  BY DEF Tenencia, UnEnvio
<1>5. /\ \A d \in Cpus \ {c} : Corre(d)' <=> Corre(d)
      /\ \A d \in Cpus, q \in PID : Manda(d, q)' <=> Manda(d, q)
      /\ \A q \in PID : ~Manda(c, q)
  BY DistintosPCB DEF Corre, Manda
<1>6. \A d \in Cpus, q \in PID : Ocupan(d, q)' <=> d # c /\ Ocupan(d, q)
  BY <1>3, <1>4, <1>5 DEF Ocupan
<1>7. \A d \in Cpus, q \in PID : Ocupan(d, q) => (d = c <=> q = p)
  BY <1>2 DEF Tenencia, DeAUno
<1>8. EnExec'
  BY <1>1, <1>6, <1>7 DEF Tenencia, EnExec
<1>9. ConCPU'
  BY <1>6 DEF Tenencia, ConCPU, Conectadas
<1>10. DeAUno'
  BY <1>6 DEF Tenencia, DeAUno
<1>11. UnEnvio'
  BY <1>3, <1>4, <1>5 DEF Tenencia, UnEnvio
<1> QED
  BY <1>2, <1>3, <1>4, <1>8, <1>9, <1>10, <1>11 DEF Tenencia, ConCPU

LEMMA Te_retornarPCB ==
    ASSUME MutexInv, HilosInv, Canales, Tenencia, NEW c \in Cpus, retornarPCB(c)
    PROVE  Tenencia'
<1>1. /\ TypeOK /\ ~Bloqueando' /\ Quietos({SrvCPU})
      /\ "CORRER_PCB" \notin {paso[SrvCPU], paso'[SrvCPU]}
      /\ estado \in [Cpus -> EstadosCPU] /\ ocupada \in [Cpus -> BOOLEAN]
      /\ ejecuta \in [Cpus -> PID \cup {SinPid}]
  BY Re_retornarPCB, Ef_retornarPCB DEF MutexInv, TypeInv, TypeOK, TipoCPUs, Bloqueando, Va
<1>2. /\ estado[c] = "RET_PCB" /\ estado' = [estado EXCEPT ![c] = "libre"]
      /\ UNCHANGED <<deKernel, cpus>>
      /\ ejecuta' = [ejecuta EXCEPT ![c] = SinPid] /\ ocupada' = [ocupada EXCEPT ![c] = FALSE]
      /\ colaExec' = colaExec \ {ejecuta[c]} /\ deKernel[c] = <<>>
  BY <1>1, Ef_retornarPCB, Ca_retornarPCB
<1>3. Corre(c) /\ ~Corre(c)'
  BY <1>1, <1>2 DEF Corre
<1>4. EnExec' /\ ConCPU' /\ DeAUno' /\ UnEnvio'
  BY <1>1, <1>2, <1>3, Suelta
<1> QED
  BY <1>1, <1>4 DEF Tenencia, SinEnvio

LEMMA Te_wait_bloquea ==
    ASSUME MutexInv, HilosInv, Canales, Tenencia, NEW c \in Cpus, wait_bloquea(c)
    PROVE  Tenencia'
<1>1. /\ TypeOK /\ Quietos({SrvCPU}) /\ "CORRER_PCB" \notin {paso[SrvCPU], paso'[SrvCPU]}
      /\ estado \in [Cpus -> EstadosCPU]
  BY Ef_wait_bloquea DEF MutexInv, TypeInv, TypeOK, TipoCPUs, Va
<1>2. /\ estado[c] = "WAIT" /\ estado' = [estado EXCEPT ![c] = "esperaWait"] /\ atendida' = c
      /\ UNCHANGED <<deKernel, cpus, ejecuta, ocupada>>
      /\ colaExec' = colaExec \ {ejecuta[c]} /\ deKernel[c] = <<>>
  BY <1>1, Ef_wait_bloquea, Ca_wait_bloquea
<1>3. Corre(c) /\ ~Corre(c)'
  BY <1>1, <1>2, Distintos DEF Corre
<1>4. EnExec' /\ ConCPU' /\ DeAUno' /\ UnEnvio' /\ ocupada[c] /\ \A t \in Hilos : ~Envia(t, c)'
  BY <1>1, <1>2, <1>3, Suelta
<1>5. SinEnvio'
  BY <1>2, <1>4 DEF SinEnvio
<1> QED
  BY <1>4, <1>5 DEF Tenencia

LEMMA Te_wait_encolar ==
    ASSUME MutexInv, HilosInv, Canales, Tenencia, wait_encolar
    PROVE  Tenencia'
<1>1. /\ TypeOK /\ Bloqueando /\ ~Bloqueando' /\ Quietos({SrvCPU})
      /\ "CORRER_PCB" \notin {paso[SrvCPU], paso'[SrvCPU]}
      /\ ocupada \in [Cpus -> BOOLEAN]
  BY Ef_wait_encolar, Ca_wait_encolar DEF MutexInv, TypeInv, TypeOK, TipoCPUs, Va
<1>2. ocupada' = [ocupada EXCEPT ![atendida] = FALSE]
      /\ UNCHANGED <<estado, ejecuta, deKernel, colaExec, cpus>>
  BY <1>1, Ef_wait_encolar
<1>3. PICK c \in Cpus : c = atendida /\ estado[c] = "esperaWait" /\ deKernel[c] = <<>>
                        /\ \A t \in Hilos : ~Envia(t, c)
  BY <1>1 DEF Canales, Respuestas, SinResponder, Tenencia, SinEnvio
<1>4. \A p \in PID : ~Ocupan(c, p)
  BY <1>3, Distintos, DistintosPCB DEF Ocupan, Corre, Manda
<1>5. \A d : \A t \in Hilos : (Envia(t, d)' <=> Envia(t, d)) /\ (Envia(t, d) => pid'[t] = pid[t])
  BY <1>1, EnviosMismos
<1>6. \A d \in Cpus : (Corre(d)' <=> Corre(d)) /\ \A q \in PID : Manda(d, q)' <=> Manda(d, q)
  BY <1>2 DEF Corre, Manda
<1>7. \A d \in Cpus, p \in PID : Ocupan(d, p)' <=> Ocupan(d, p)
  BY <1>2, <1>5, <1>6 DEF Ocupan
<1>8. \A d \in Cpus, p \in PID : Ocupan(d, p) => d \in Conectadas' /\ ocupada'[d]
  BY <1>1, <1>2, <1>3, <1>4 DEF Tenencia, ConCPU, Conectadas
<1>9. UnEnvio'
  BY <1>5, <1>6 DEF Tenencia, UnEnvio
<1>10. SinEnvio'
  BY <1>1 DEF SinEnvio
<1> QED
  BY <1>2, <1>7, <1>8, <1>9, <1>10, TenenciaMisma DEF Tenencia

LEMMA Te_wait_ok ==
    ASSUME MutexInv, HilosInv, Canales, Tenencia, NEW c \in Cpus, wait_ok(c)
    PROVE  Tenencia'
<1>1. /\ TypeOK /\ ~Bloqueando' /\ Quietos({}) /\ estado \in [Cpus -> EstadosCPU]
      /\ deKernel \in [Cpus -> Seq(Mensajes)]
  BY Ef_wait_ok DEF MutexInv, TypeInv, TypeOK, TipoCPUs, Bloqueando
<1>2. /\ estado[c] = "WAIT" /\ estado' = [estado EXCEPT ![c] = "esperaWait"]
      /\ deKernel[c] = <<>> /\ deKernel' = [deKernel EXCEPT ![c] = Concedido]
      /\ UNCHANGED <<ejecuta, colaExec, ocupada, cpus>>
  BY <1>1, Ef_wait_ok, Ca_wait_ok
<1>3. Corre(c) /\ Corre(c)' /\ \A p \in PID : ~Manda(c, p) /\ ~Manda(c, p)'
  BY <1>1, <1>2, DistintosPCB DEF Corre, Manda
<1>4. \A d : \A t \in Hilos : (Envia(t, d)' <=> Envia(t, d)) /\ (Envia(t, d) => pid'[t] = pid[t])
  BY <1>1, EnviosMismos
<1> QED
  BY <1>1, <1>2, <1>3, <1>4, Te_CPU DEF Activa, Conectadas

LEMMA Te_signal ==
    ASSUME MutexInv, HilosInv, Canales, Tenencia, NEW c \in Cpus, signal(c)
    PROVE  Tenencia'
<1>1. /\ TypeOK /\ ~Bloqueando' /\ Quietos({SrvCPU}) /\ estado \in [Cpus -> EstadosCPU]
      /\ "CORRER_PCB" \notin {paso[SrvCPU], paso'[SrvCPU]}
  BY Re_signal, Ef_signal DEF MutexInv, TypeInv, TypeOK, TipoCPUs, Bloqueando, Va
<1>2. /\ estado[c] = "SIGNAL" /\ estado' = [estado EXCEPT ![c] = "esperaSignal"]
      /\ UNCHANGED <<deKernel, ejecuta, colaExec, ocupada, cpus>>
  BY <1>1, Ef_signal
<1>3. Corre(c) /\ Corre(c)' /\ \A p \in PID : Manda(c, p)' <=> Manda(c, p)
  BY <1>1, <1>2 DEF Corre, Manda
<1>4. \A d : \A t \in Hilos : (Envia(t, d)' <=> Envia(t, d)) /\ (Envia(t, d) => pid'[t] = pid[t])
  BY <1>1, EnviosMismos
<1> QED
  BY <1>1, <1>2, <1>3, <1>4, Te_CPU DEF Activa, Conectadas

LEMMA Te_wait_responder ==
    ASSUME MutexInv, HilosInv, Canales, Tenencia, wait_responder
    PROVE  Tenencia'
<1>1. /\ TypeOK /\ Quietos({SrvCPU}) /\ "CORRER_PCB" \notin {paso[SrvCPU], paso'[SrvCPU]}
      /\ deKernel \in [Cpus -> Seq(Mensajes)] /\ (Bloqueando' <=> Bloqueando)
      /\ UNCHANGED <<estado, ejecuta, colaExec, ocupada, cpus, atendida>>
  BY Ef_wait_responder, Ca_wait_responder DEF MutexInv, TypeInv, TypeOK, TipoCPUs, Va
<1>2. PICK c \in Cpus : /\ c = atendida /\ estado[c] = "esperaWait" /\ deKernel[c] = <<>>
                        /\ deKernel' = [deKernel EXCEPT ![c] = Bloqueado]
  BY Ca_wait_responder
<1>3. ~Corre(c) /\ ~Corre(c)' /\ \A p \in PID : ~Manda(c, p) /\ ~Manda(c, p)'
  BY <1>1, <1>2, Distintos, DistintosPCB DEF Corre, Manda
<1>4. \A d : \A t \in Hilos : (Envia(t, d)' <=> Envia(t, d)) /\ (Envia(t, d) => pid'[t] = pid[t])
  BY <1>1, EnviosMismos
<1> QED
  BY <1>1, <1>2, <1>3, <1>4, Te_CPU DEF Activa, Conectadas

LEMMA Te_signal_responder ==
    ASSUME MutexInv, HilosInv, Canales, Tenencia, signal_responder
    PROVE  Tenencia'
<1>1. /\ TypeOK /\ Quietos({SrvCPU}) /\ "CORRER_PCB" \notin {paso[SrvCPU], paso'[SrvCPU]}
      /\ ~Bloqueando'
      /\ deKernel \in [Cpus -> Seq(Mensajes)]
      /\ UNCHANGED <<estado, ejecuta, colaExec, ocupada, cpus>>
  BY Re_signal_responder, Ef_signal_responder
     DEF MutexInv, TypeInv, TypeOK, TipoCPUs, Va, Bloqueando
<1>2. PICK c \in Cpus : /\ c = atendida /\ estado[c] = "esperaSignal" /\ deKernel[c] = <<>>
                        /\ deKernel' = [deKernel EXCEPT ![c] = Senalado]
  BY Ca_signal_responder
<1>3. Corre(c) /\ Corre(c)' /\ \A p \in PID : ~Manda(c, p) /\ ~Manda(c, p)'
  BY <1>1, <1>2, Distintos, DistintosPCB DEF Corre, Manda
<1>4. \A d : \A t \in Hilos : (Envia(t, d)' <=> Envia(t, d)) /\ (Envia(t, d) => pid'[t] = pid[t])
  BY <1>1, EnviosMismos
<1> QED
  BY <1>1, <1>2, <1>3, <1>4, Te_CPU DEF Activa, Conectadas

LEMMA Te_desconecta ==
    ASSUME MutexInv, HilosInv, Canales, Tenencia, NEW c \in Cpus, ~SinResponder, ~SinResponder',
           c \in Conectadas, ~ocupada[c], cpus' = Sin(cpus, c),
           deKernel' = [deKernel EXCEPT ![c] = @ \o <<Msg("FINISH_CPU")>>],
           atendida' \in {atendida, NadieCPU}, paso'[SrvCPU] # "RES_SIGNAL",
           UNCHANGED <<estado, ejecuta, colaExec, ocupada>>,
           \A d : \A t \in Hilos : (Envia(t, d)' <=> Envia(t, d)) /\ (Envia(t, d) => pid'[t] = pid[t])
    PROVE  Tenencia'
<1>1. deKernel \in [Cpus -> Seq(Mensajes)]
  BY DEF MutexInv, TypeInv, TypeOK, TipoCPUs
<1>2. /\ Conectadas' = Conectadas \ {c} /\ estado[c] \in {"libre", "esperaWait"}
      /\ \/ deKernel' = [deKernel EXCEPT ![c] = Despedida]
         \/ deKernel' = [deKernel EXCEPT ![c] = BloqueadoYDespedida]
  BY Ca_desconecta
<1>3. ~Corre(c) /\ \A p \in PID : ~Manda(c, p)
  BY OciosaLibre
<1>4. deKernel'[c] \in {Despedida, BloqueadoYDespedida}
      /\ \A d \in Cpus \ {c} : deKernel'[d] = deKernel[d]
  BY <1>1, <1>2
<1>5. ~Corre(c)' /\ \A p \in PID : ~Manda(c, p)'
  BY <1>2, <1>4, Distintos, DistintosPCB DEF Corre, Manda
<1>6. ~Bloqueando'
  BY DEF SinResponder
<1> QED
  BY <1>2, <1>3, <1>4, <1>5, <1>6, Te_CPU DEF Activa

LEMMA Te_finishCPU ==
    ASSUME MutexInv, HilosInv, Canales, Tenencia, NEW c \in Cpus, finishCPU(c)
    PROVE  Tenencia'
<1>1. /\ TypeOK /\ ~SinResponder /\ ~SinResponder' /\ ~Bloqueando' /\ paso'[SrvCPU] = "select"
      /\ Quietos({})
      /\ UNCHANGED <<estado, ejecuta, colaExec, ocupada>>
  BY Re_finishCPU, Ef_finishCPU DEF MutexInv, TypeInv, SinResponder, Bloqueando
<1>2. \A d : \A t \in Hilos : (Envia(t, d)' <=> Envia(t, d)) /\ (Envia(t, d) => pid'[t] = pid[t])
  BY <1>1, EnviosMismos
<1>3. CASE UNCHANGED <<cpus, deKernel>>
  <2>1. (Corre(c)' <=> Corre(c)) /\ \A p \in PID : Manda(c, p)' <=> Manda(c, p)
    BY <1>1, <1>3 DEF Corre, Manda
  <2> QED
    BY <1>1, <1>2, <1>3, <2>1, Te_CPU DEF Activa, Conectadas
<1>4. CASE ~UNCHANGED <<cpus, deKernel>>
  BY <1>1, <1>2, <1>4, Ef_finishCPU, Te_desconecta
<1> QED
  BY <1>3, <1>4

LEMMA Te_retornarPCB_desconectar ==
    ASSUME MutexInv, HilosInv, Canales, Tenencia, retornarPCB_desconectar
    PROVE  Tenencia'
<1>1. /\ TypeOK /\ ~SinResponder /\ ~SinResponder' /\ paso'[SrvCPU] = "processIsForFinish"
      /\ paso[SrvCPU] = "desconectarCPU" /\ Quietos({SrvCPU})
      /\ UNCHANGED <<estado, ejecuta, colaExec, ocupada, atendida>>
  BY Re_retornarPCB_desconectar, Ef_retornarPCB_desconectar
     DEF MutexInv, TypeInv, SinResponder, Bloqueando, Va
<1>2. CASE UNCHANGED <<cpus, deKernel>>
  BY <1>1, <1>2, Te_hilo DEF SinResponder
<1>3. CASE ~UNCHANGED <<cpus, deKernel>>
  <2>1. Conectadas \subseteq Cpus
    BY <1>1 DEF TypeOK, TipoCPUs, Conectadas
  <2>2. \A d : \A t \in Hilos : (Envia(t, d)' <=> Envia(t, d)) /\ (Envia(t, d) => pid'[t] = pid[t])
    BY <1>1, EnviosMismos
  <2> QED
    BY <1>1, <1>3, <2>1, <2>2, Ef_retornarPCB_desconectar, Te_desconecta
<1> QED
  BY <1>2, <1>3

(* The steps of a CPU process keep its process, on its way to it or run.   *)
LEMMA Te_proceso ==
    ASSUME MutexInv, Canales, Tenencia, NEW c \in Cpus,
           \/ PasoProcesoCPU(c) \/ conectarCPU(c) \/ signalHandler(c)
           \/ waitAnsisop(c) \/ signalAnsisop(c)
    PROVE  Tenencia'
<1>1. /\ TypeOK /\ estado \in [Cpus -> EstadosCPU] /\ deKernel \in [Cpus -> Seq(Mensajes)]
      /\ ejecuta \in [Cpus -> PID \cup {SinPid}]
  BY DEF MutexInv, TypeInv, TypeOK, TipoCPUs
<1> DEFINE Igual ==
      /\ UNCHANGED kernel
      /\ \A d \in Cpus \ {c} : estado'[d] = estado[d] /\ deKernel'[d] = deKernel[d]
         /\ ejecuta'[d] = ejecuta[d]
      /\ \A p \in PID : (Corre(c)' /\ ejecuta'[c] = p) \/ Manda(c, p)' <=>
            (Corre(c) /\ ejecuta[c] = p) \/ Manda(c, p)
      /\ Activa(c)' => Activa(c)
<1>2. ASSUME correrPCB(c) PROVE Igual
  <2>1. PICK p \in PID, e \in {"RET_PCB", "corre"} :
           /\ estado[c] = "libre" /\ deKernel[c] = CorrerPCB(p)
           /\ estado' = [estado EXCEPT ![c] = e] /\ deKernel' = [deKernel EXCEPT ![c] = <<>>]
           /\ ejecuta' = [ejecuta EXCEPT ![c] = p] /\ UNCHANGED kernel
    BY <1>1, <1>2, Ef_correrPCB
  <2>2. Corre(c)' /\ ejecuta'[c] = p /\ \A q \in PID : ~Manda(c, q)'
    BY <1>1, <2>1, DistintosPCB DEF Corre, Manda
  <2>3. ~Corre(c) /\ \A q \in PID : Manda(c, q) <=> q = p
    BY <2>1, DistintosPCB DEF Corre, Manda
  <2> QED
    BY <1>1, <2>1, <2>2, <2>3 DEF Activa
<1>3. ASSUME finishCPU_cpu(c) PROVE Igual
  <2>1. /\ estado[c] = "libre" /\ deKernel[c] = Despedida
        /\ estado' = [estado EXCEPT ![c] = "fin"] /\ deKernel' = [deKernel EXCEPT ![c] = <<>>]
        /\ UNCHANGED kernel /\ ejecuta' = ejecuta
    BY <1>1, <1>3, Ef_finishCPU_cpu
  <2>2. ~Corre(c)' /\ ~Corre(c) /\ \A q \in PID : ~Manda(c, q)' /\ ~Manda(c, q)
    BY <1>1, <2>1, DistintosPCB DEF Corre, Manda
  <2> QED
    BY <1>1, <2>1, <2>2 DEF Activa
<1>4. ASSUME recibirRespuesta(c) PROVE Igual
  <2>1. UNCHANGED kernel /\ ejecuta' = ejecuta
    BY <1>1, <1>4, Ef_recibirRespuesta
  <2>2. \A d \in Cpus \ {c} : estado'[d] = estado[d] /\ deKernel'[d] = deKernel[d]
    BY <1>1, <1>4, Ef_recibirRespuesta
  <2>3. \/ /\ estado[c] = "esperaSignal" /\ deKernel[c] = Senalado /\ estado'[c] = "corre"
           /\ deKernel'[c] = <<>>
        \/ /\ estado[c] = "esperaWait" /\ deKernel[c] = Concedido /\ estado'[c] = "corre"
           /\ deKernel'[c] = <<>>
        \/ /\ estado[c] = "esperaWait" /\ estado'[c] = "libre"
           /\ \/ deKernel[c] = Bloqueado /\ deKernel'[c] = <<>>
              \/ deKernel[c] = BloqueadoYDespedida /\ deKernel'[c] = Despedida
              \/ \E p \in PID : deKernel[c] = PorCorrer(p) /\ deKernel'[c] = CorrerPCB(p)
    BY <1>1, <1>4, Ef_recibirRespuesta
  <2>4. CASE estado'[c] = "corre"
    <3>1. deKernel[c] \in {Senalado, Concedido} /\ deKernel'[c] = <<>> /\ Corre(c) /\ Corre(c)'
      BY <2>3, <2>4 DEF Corre
    <3>2. \A q \in PID : ~Manda(c, q)' /\ ~Manda(c, q)
      BY <3>1, DistintosPCB DEF Manda
    <3> QED
      BY <2>1, <2>2, <3>1, <3>2 DEF Activa
  <2>5. CASE estado'[c] = "libre"
    <3>1. ~Corre(c)'
      BY <2>5 DEF Corre
    <3>2. ~Corre(c)
      BY <2>3, <2>5, Distintos, DistintosPCB DEF Corre
    <3>3. \A q \in PID : Manda(c, q)' <=> Manda(c, q)
      <4>1. CASE deKernel[c] \in {Bloqueado, BloqueadoYDespedida}
        <5>1. deKernel'[c] \in {<<>>, Despedida}
          BY <2>3, <2>5, <4>1, DistintosPCB
        <5> QED
          BY <4>1, <5>1, DistintosPCB DEF Manda
      <4>2. CASE \E p \in PID : deKernel[c] = PorCorrer(p) /\ deKernel'[c] = CorrerPCB(p)
        BY <4>2, DistintosPCB DEF Manda
      <4> QED
        BY <2>3, <2>5, <4>1, <4>2
    <3> QED
      BY <2>1, <2>2, <3>1, <3>2, <3>3 DEF Activa
  <2> QED
    BY <2>3, <2>4, <2>5
<1>5. ASSUME ejecutarPrograma(c) \/ conectarCPU(c) \/ waitAnsisop(c) \/ signalAnsisop(c) PROVE Igual
  <2>1. UNCHANGED kernel /\ UNCHANGED <<ejecuta, deKernel>>
    BY <1>5, Ef_pide
  <2>2. /\ \A d \in Cpus \ {c} : estado'[d] = estado[d]
        /\ \/ estado[c] = "apagada" /\ estado'[c] = "conectando"
           \/ estado[c] = "corre" /\ estado'[c] \in {"RET_PCB", "WAIT", "SIGNAL"}
    BY <1>1, <1>5, Ef_pide
  <2>3. (Corre(c)' <=> Corre(c)) /\ \A q \in PID : Manda(c, q)' <=> Manda(c, q)
    BY <2>1, <2>2 DEF Corre, Manda
  <2> QED
    BY <2>1, <2>2, <2>3 DEF Activa
<1>6. ASSUME signalHandler(c) PROVE Igual
  <2>1. UNCHANGED kernel /\ UNCHANGED <<estado, ejecuta, deKernel>>
    BY <1>6 DEF signalHandler
  <2>2. (Corre(c)' <=> Corre(c)) /\ \A q \in PID : Manda(c, q)' <=> Manda(c, q)
    BY <2>1 DEF Corre, Manda
  <2> QED
    BY <2>1, <2>2 DEF Activa
<1>7. Igual
  BY <1>2, <1>3, <1>4, <1>5, <1>6 DEF PasoProcesoCPU
<1>8. \A d : \A t \in Hilos : (Envia(t, d)' <=> Envia(t, d)) /\ (Envia(t, d) => pid'[t] = pid[t])
  BY <1>7 DEF Envia
<1>9. Bloqueando' => Bloqueando /\ UNCHANGED atendida
  BY <1>7 DEF Bloqueando
<1>10. UNCHANGED <<colaExec, ocupada>> /\ Conectadas' = Conectadas
  BY <1>7 DEF Conectadas
<1> QED
  BY <1>7, <1>8, <1>9, <1>10, Te_CPU

LEMMA CanalesTenencia_Init == Init => Canales /\ Tenencia
<1> SUFFICES ASSUME Init PROVE Canales /\ Tenencia
  OBVIOUS
<1>1. \A c \in Cpus : ~Corre(c) /\ \A p \in PID : ~Manda(c, p)
  BY DistintosPCB DEF Init, Corre, Manda
<1>2. \A c : \A t \in Hilos : ~Envia(t, c)
  BY DEF Init, Envia
<1>3. ~SinResponder /\ ~Bloqueando
  BY ThreadFacts DEF Init, SinResponder, Bloqueando
<1>4. Respuestas
  BY <1>3, ThreadFacts DEF Init, Respuestas
<1>5. \A c \in Cpus : Forma(c)
  BY Distintos DEF Init, Forma, SeVa, Conectadas
<1>6. Tenencia
  BY <1>1, <1>2, <1>3 DEF Init, Ocupan, Tenencia, EnExec, ConCPU, DeAUno, UnEnvio, SinEnvio
<1> QED
  BY <1>4, <1>5, <1>6 DEF Canales

(* No thread holds a PCB that is in Exec. *)
LEMMA CanalesTenencia_Next ==
    MutexInv /\ HilosInv /\ Canales /\ Tenencia /\ (\A t \in Hilos : pcb[t] \notin colaExec)
        /\ ~desfase' /\ [Next]_vars => Canales' /\ Tenencia'
<1> SUFFICES ASSUME MutexInv, HilosInv, Canales, Tenencia,
             \A t \in Hilos : pcb[t] \notin colaExec, ~desfase',
                    [Next]_vars
             PROVE  Canales' /\ Tenencia'
  OBVIOUS
<1>1. CASE UNCHANGED vars
  BY <1>1
     DEF vars, Canales, Respuestas, Forma, SeVa, Conectadas, SinResponder, Bloqueando, Tenencia,
         EnExec, ConCPU, DeAUno, UnEnvio, SinEnvio, Ocupan, Corre, Manda, Envia
<1>2. CASE \E t \in Hilos : PasoHilo(t)
  <2>1. ASSUME NEW t \in Hilos, relacionar(t) PROVE Canales' /\ Tenencia'
    <3>1. TypeOK /\ SinCambio
      BY <2>1, Re_relacionar DEF MutexInv, TypeInv
    <3> QED
      BY <2>1, <3>1, Ef_relacionar, CanalesIgual, Te_relacionar DEF SinCambio
  <2> QED
    BY <1>2, <2>1, CT_hilo, Ca_correr_pcb, Te_correr_pcb
<1>3. CASE \E t \in Finalizadores : PasoFinalizador(t)
  BY <1>3, CT_finalizador
<1>4. CASE SigueSrvCPU
  BY <1>4, Ca_retornarPCB_desconectar, Te_retornarPCB_desconectar, CT_decide, Ca_wait_encolar,
     Te_wait_encolar, Ca_wait_responder, Te_wait_responder, Ca_signal_responder, Te_signal_responder
     DEF SigueSrvCPU
<1>5. CASE \E c \in Cpus : ManejaPCB(c) \/ ManejaOtro(c)
  BY <1>5, Ca_retornarPCB, Te_retornarPCB, Ca_wait_bloquea, Te_wait_bloquea, Ca_signal, Te_signal,
     Ca_nuevaConexionCPU, Te_nuevaConexionCPU, Ca_finishCPU, Te_finishCPU, Ca_wait_ok, Te_wait_ok
     DEF ManejaPCB, ManejaOtro
<1> QED
  BY <1>1, <1>2, <1>3, <1>4, <1>5, CT_pedirFin, CT_nuevoPrograma, Ca_CPU, Te_proceso
     DEF Next, Nucleo, end

(* Where a PCB can be: in one of the queues, or in the hands of a thread.  *)
New == <<"cola", "New">>
Ready == <<"cola", "Ready">>
Exec == <<"cola", "Exec">>
Blocked == <<"cola", "Blocked">>
Exit == <<"cola", "Exit">>
Sitios == {New, Ready, Exec, Blocked, Exit} \cup Hilos
Esta(z, p) ==
    \/ z = New /\ p \in colaNew
    \/ z = Ready /\ p \in EnReady
    \/ z = Exec /\ p \in colaExec
    \/ z = Blocked /\ p \in colaBlocked
    \/ z = Exit /\ p \in colaExit
    \/ z \in Hilos /\ pcb[z] = p

EnUno == \A p \in PID : \A y, z \in Sitios : Esta(y, p) /\ Esta(z, p) => y = z
Creados == \A p \in PID : p < ultimoPID <=> \E z \in Sitios : Esta(z, p)
ReadySinRepetir == \A i, j \in DOMAIN colaReady : i # j => colaReady[i] # colaReady[j]
Ubicados == EnUno /\ Creados /\ ReadySinRepetir

LEMMA SitiosDistintos ==
    /\ New \notin Hilos /\ Ready \notin Hilos /\ Exec \notin Hilos /\ Blocked \notin Hilos
    /\ Exit \notin Hilos
    /\ New # Ready /\ New # Exec /\ New # Blocked /\ New # Exit /\ Ready # Exec
    /\ Ready # Blocked /\ Ready # Exit
    /\ Exec # Blocked /\ Exec # Exit /\ Blocked # Exit
<1>1. \A t \in Hilos : t[1] \in {"programa", "end", "desconexion", "srvCPU"}
  BY DEF Hilos, Finalizadores, SrvCPU
<1>2. \A z \in {New, Ready, Exec, Blocked, Exit} : z[1] = "cola"
  BY DEF New, Ready, Exec, Blocked, Exit
<1>3. New[2] = "New" /\ Ready[2] = "Ready" /\ Exec[2] = "Exec" /\ Blocked[2] = "Blocked"
      /\ Exit[2] = "Exit"
  BY DEF New, Ready, Exec, Blocked, Exit
<1> QED
  BY <1>1, <1>2, <1>3

(* A PCB goes from y to z; or no PCB goes anywhere; or one is created.     *)
Muda(p, y, z) ==
    \A q \in PID, w \in Sitios :
        Esta(w, q)' <=> IF q = p THEN w = z ELSE Esta(w, q)

LEMMA Traslado ==
    ASSUME EnUno, Creados, NEW p \in PID, NEW y \in Sitios, NEW z \in Sitios, Esta(y, p), Muda(p, y, z),
           UNCHANGED ultimoPID
    PROVE  EnUno' /\ Creados'
BY DEF EnUno, Creados, Muda

LEMMA Quietud ==
    ASSUME EnUno, Creados, UNCHANGED <<colaNew, EnReady, colaExec, colaBlocked, colaExit, ultimoPID>>,
           \A t \in Hilos : pcb'[t] = pcb[t]
    PROVE  EnUno' /\ Creados'
<1>1. \A q \in PID, w \in Sitios : Esta(w, q)' <=> Esta(w, q)
  BY DEF Esta
<1> QED
  BY <1>1 DEF EnUno, Creados

LEMMA ReadyIgual ==
    ASSUME Ubicados, UNCHANGED colaReady
    PROVE  ReadySinRepetir' /\ EnReady' = EnReady
BY DEF Ubicados, ReadySinRepetir, EnReady

LEMMA ReadyEntra ==
    ASSUME TypeOK, Ubicados, NEW p, p \notin EnReady, p \in PID, colaReady' = Append(colaReady, p)
    PROVE  ReadySinRepetir' /\ EnReady' = EnReady \cup {p}
<1>1. colaReady \in Seq(PID)
  BY DEF TypeOK, TipoColas
<1>2. /\ Len(colaReady') = Len(colaReady) + 1 /\ DOMAIN colaReady' = 1 .. Len(colaReady) + 1
      /\ \A i \in 1 .. Len(colaReady) : colaReady'[i] = colaReady[i]
      /\ colaReady'[Len(colaReady) + 1] = p /\ Len(colaReady) \in Nat
      /\ DOMAIN colaReady = 1 .. Len(colaReady)
  BY <1>1, AppendProperties
<1>3. \A i \in 1 .. Len(colaReady) + 1 : i \in 1 .. Len(colaReady) \/ i = Len(colaReady) + 1
  BY <1>2
<1>4. \A i \in 1 .. Len(colaReady) : colaReady[i] # p
  BY <1>2 DEF EnReady
<1>5. ReadySinRepetir'
  BY <1>2, <1>3, <1>4 DEF Ubicados, ReadySinRepetir
<1>6. EnReady' = EnReady \cup {p}
  BY <1>2, <1>3 DEF EnReady
<1> QED
  BY <1>5, <1>6

LEMMA ReadySaleHead ==
    ASSUME TypeOK, Ubicados, colaReady # <<>>, colaReady' = Tail(colaReady)
    PROVE  /\ ReadySinRepetir' /\ EnReady' = EnReady \ {Head(colaReady)}
           /\ Head(colaReady) \in EnReady /\ Head(colaReady) \in PID
<1>1. colaReady \in Seq(PID)
  BY DEF TypeOK, TipoColas
<1> DEFINE n == Len(colaReady)
<1>2. /\ n \in Nat /\ n > 0 /\ DOMAIN colaReady = 1 .. n /\ Head(colaReady) = colaReady[1]
      /\ DOMAIN colaReady' = 1 .. n - 1 /\ \A i \in 1 .. n - 1 : colaReady'[i] = colaReady[i + 1]
  BY <1>1, HeadTailProperties, EmptySeq
<1> HIDE DEF n
<1>3. \A i \in 1 .. n - 1 : i + 1 \in 1 .. n /\ i + 1 # 1
  BY <1>2
<1>4. \A i \in 1 .. n : i # 1 => i - 1 \in 1 .. n - 1 /\ (i - 1) + 1 = i
  BY <1>2
<1>5. 1 \in 1 .. n
  BY <1>2
<1>6. ReadySinRepetir'
  <2> SUFFICES ASSUME NEW i \in 1 .. n - 1, NEW j \in 1 .. n - 1, i # j
           PROVE colaReady'[i] # colaReady'[j]
    BY <1>2 DEF ReadySinRepetir
  <2>1. i + 1 # j + 1
    BY <1>2
  <2> QED
    BY <1>2, <1>3, <2>1 DEF Ubicados, ReadySinRepetir
<1>7. \A q \in EnReady' : q \in EnReady /\ q # colaReady[1]
  BY <1>2, <1>3, <1>5 DEF EnReady, Ubicados, ReadySinRepetir
<1>8. \A q \in EnReady : q # colaReady[1] => q \in EnReady'
  <2> SUFFICES ASSUME NEW i \in 1 .. n, colaReady[i] # colaReady[1] PROVE colaReady[i] \in EnReady'
    BY <1>2 DEF EnReady
  <2>1. i - 1 \in 1 .. n - 1 /\ colaReady'[i - 1] = colaReady[i]
    BY <1>2, <1>4
  <2> QED
    BY <1>2, <2>1 DEF EnReady
<1>9. colaReady[1] \in EnReady /\ colaReady[1] \in PID
  BY <1>1, <1>2, <1>5 DEF EnReady
<1> QED
  BY <1>2, <1>6, <1>7, <1>8, <1>9

LEMMA ReadySale ==
    ASSUME TypeOK, Ubicados, NEW p, p \in EnReady, colaReady' = Sin(colaReady, p)
    PROVE  ReadySinRepetir' /\ EnReady' = EnReady \ {p}
<1>1. colaReady \in Seq(PID) /\ \E i \in DOMAIN colaReady : colaReady[i] = p
  BY DEF TypeOK, TipoColas, EnReady
<1>2. \A i, j \in DOMAIN colaReady : i # j => colaReady[i] # colaReady[j]
  BY DEF Ubicados, ReadySinRepetir
<1>3. Elementos(Sin(colaReady, p)) = Elementos(colaReady) \ {p}
  BY <1>1, <1>2, SinElementos
<1>4. \A i, j \in DOMAIN Sin(colaReady, p) : i # j => Sin(colaReady, p)[i] # Sin(colaReady, p)[j]
  BY <1>1, <1>2, SinElementos
<1>5. EnReady' = Elementos(Sin(colaReady, p)) /\ EnReady = Elementos(colaReady)
  BY DEF EnReady, Elementos
<1> QED
  BY <1>3, <1>4, <1>5 DEF ReadySinRepetir

(* A thread puts its PCB in a queue: the other queues stay as they are.    *)
LEMMA Deja ==
    ASSUME Ubicados, NEW t \in Hilos, NEW p \in PID, pcb[t] = p, pcb'[t] = SinPid,
           \A u \in Hilos \ {t} : pcb'[u] = pcb[u], UNCHANGED <<ultimoPID, colaBlocked>>,
           ReadySinRepetir',
           \/ colaNew' = colaNew \cup {p} /\ UNCHANGED <<EnReady, colaExec, colaExit>>
           \/ EnReady' = EnReady \cup {p} /\ UNCHANGED <<colaNew, colaExec, colaExit>>
           \/ colaExec' = colaExec \cup {p} /\ UNCHANGED <<colaNew, EnReady, colaExit>>
           \/ colaExit' = colaExit \cup {p} /\ UNCHANGED <<colaNew, EnReady, colaExec>>
    PROVE  Ubicados'
<1>1. Esta(t, p) /\ t \in Sitios
  BY DEF Esta, Sitios
<1>2. \A w \in Sitios : Esta(w, p) => w = t
  BY <1>1 DEF Ubicados, EnUno
<1>3. p # SinPid
  BY ThreadFacts
<1>4. \A q \in PID \ {p} : \A w \in Sitios : Esta(w, q)' <=> Esta(w, q)
  BY ThreadFacts DEF Esta
<1>5. \E z \in Sitios : \A w \in Sitios : Esta(w, p)' <=> w = z
  <2>1. p \notin colaNew \cup EnReady \cup colaExec \cup colaBlocked \cup colaExit
        /\ \A u \in Hilos \ {t} : pcb[u] # p
    BY <1>2, SitiosDistintos DEF Esta, Sitios
  <2>2. CASE colaNew' = colaNew \cup {p} /\ UNCHANGED <<EnReady, colaExec, colaExit>>
    <3>1. \A w \in Sitios : Esta(w, p)' <=> w = New
      BY <1>3, <2>1, <2>2, SitiosDistintos DEF Esta
    <3> QED
      BY <3>1 DEF Sitios
  <2>3. CASE EnReady' = EnReady \cup {p} /\ UNCHANGED <<colaNew, colaExec, colaExit>>
    <3>1. \A w \in Sitios : Esta(w, p)' <=> w = Ready
      BY <1>3, <2>1, <2>3, SitiosDistintos DEF Esta
    <3> QED
      BY <3>1 DEF Sitios
  <2>4. CASE colaExec' = colaExec \cup {p} /\ UNCHANGED <<colaNew, EnReady, colaExit>>
    <3>1. \A w \in Sitios : Esta(w, p)' <=> w = Exec
      BY <1>3, <2>1, <2>4, SitiosDistintos DEF Esta
    <3> QED
      BY <3>1 DEF Sitios
  <2>5. CASE colaExit' = colaExit \cup {p} /\ UNCHANGED <<colaNew, EnReady, colaExec>>
    <3>1. \A w \in Sitios : Esta(w, p)' <=> w = Exit
      BY <1>3, <2>1, <2>5, SitiosDistintos DEF Esta
    <3> QED
      BY <3>1 DEF Sitios
  <2> QED
    BY <2>2, <2>3, <2>4, <2>5
<1>6. PICK z \in Sitios : \A w \in Sitios : Esta(w, p)' <=> w = z
  BY <1>5
<1>7. Muda(p, t, z)
  BY <1>4, <1>6 DEF Muda
<1> QED
  BY <1>1, <1>6, <1>7, Traslado DEF Ubicados

(* A thread takes a PCB out of a queue. *)
LEMMA Saca ==
    ASSUME Ubicados, NEW t \in Hilos, NEW p \in PID, pcb[t] = SinPid, pcb'[t] = p,
           \A u \in Hilos \ {t} : pcb'[u] = pcb[u], UNCHANGED <<ultimoPID, colaExit>>, ReadySinRepetir',
           \/ p \in colaNew /\ colaNew' = colaNew \ {p} /\ UNCHANGED <<EnReady, colaExec, colaBlocked>>
           \/ p \in EnReady /\ EnReady' = EnReady \ {p} /\ UNCHANGED <<colaNew, colaExec, colaBlocked>>
           \/ p \in colaExec /\ colaExec' = colaExec \ {p}
              /\ UNCHANGED <<colaNew, EnReady, colaBlocked>>
           \/ p \in colaBlocked /\ colaBlocked' = colaBlocked \ {p}
              /\ UNCHANGED <<colaNew, EnReady, colaExec>>
    PROVE  Ubicados'
<1>1. \E y \in Sitios : Esta(y, p)
  BY DEF Esta, Sitios
<1>2. PICK y \in Sitios : Esta(y, p)
  BY <1>1
<1>3. \A w \in Sitios : Esta(w, p) => w = y
  BY <1>2 DEF Ubicados, EnUno
<1>4. \A q \in PID \ {p} : \A w \in Sitios : Esta(w, q)' <=> Esta(w, q)
  BY ThreadFacts DEF Esta
<1>5. t \in Sitios /\ \A w \in Sitios : Esta(w, p)' <=> w = t
  <2>1. \A u \in Hilos \ {t} : pcb[u] # p
    <3> SUFFICES ASSUME NEW u \in Hilos, pcb[u] = p PROVE FALSE
      OBVIOUS
    <3>1. u = y
      BY <1>3 DEF Esta, Sitios
    <3>2. p \in colaNew => New = y
      BY <1>3 DEF Esta, Sitios
    <3>3. p \in EnReady => Ready = y
      BY <1>3 DEF Esta, Sitios
    <3>4. p \in colaExec => Exec = y
      BY <1>3 DEF Esta, Sitios
    <3>5. p \in colaBlocked => Blocked = y
      BY <1>3 DEF Esta, Sitios
    <3> QED
      BY <3>1, <3>2, <3>3, <3>4, <3>5, SitiosDistintos
  <2>2. /\ p \in colaNew => New = y
        /\ p \in EnReady => Ready = y
        /\ p \in colaExec => Exec = y
        /\ p \in colaBlocked => Blocked = y
        /\ p \in colaExit => Exit = y
    BY <1>3 DEF Esta, Sitios
  <2>3. p \notin colaNew' /\ p \notin EnReady' /\ p \notin colaExec' /\ p \notin colaBlocked'
        /\ p \notin colaExit'
    BY <2>2, SitiosDistintos
  <2> QED
    BY <2>1, <2>3, SitiosDistintos DEF Esta, Sitios
<1>6. Muda(p, y, t)
  BY <1>4, <1>5 DEF Muda
<1> QED
  BY <1>2, <1>5, <1>6, Traslado DEF Ubicados

(* A PCB goes from Exec to Blocked. *)
LEMMA Bloquea ==
    ASSUME Ubicados, NEW p \in PID, p \in colaExec, colaExec' = colaExec \ {p},
           colaBlocked' = colaBlocked \cup {p},
           \A u \in Hilos : pcb'[u] = pcb[u], UNCHANGED <<ultimoPID, colaNew, colaReady, colaExit>>
    PROVE  Ubicados'
<1>1. Esta(Exec, p) /\ Exec \in Sitios /\ Blocked \in Sitios
  BY DEF Esta, Sitios
<1>2. \A w \in Sitios : Esta(w, p) => w = Exec
  BY <1>1 DEF Ubicados, EnUno
<1>3. EnReady' = EnReady /\ ReadySinRepetir'
  BY ReadyIgual
<1>4. \A q \in PID \ {p} : \A w \in Sitios : Esta(w, q)' <=> Esta(w, q)
  BY <1>3 DEF Esta
<1>5. \A w \in Sitios : Esta(w, p)' <=> w = Blocked
  <2>1. p \notin colaNew /\ p \notin EnReady /\ p \notin colaExit /\ \A u \in Hilos : pcb[u] # p
    BY <1>2, SitiosDistintos DEF Esta, Sitios
  <2> QED
    BY <1>3, <2>1, SitiosDistintos DEF Esta, Sitios
<1>6. Muda(p, Exec, Blocked)
  BY <1>4, <1>5 DEF Muda
<1> QED
  BY <1>1, <1>3, <1>6, Traslado DEF Ubicados

(* A PCB is created in the hands of the thread of its program. *)
LEMMA Nace ==
    ASSUME MutexInv, HilosInv, Ubicados, NEW c \in Consolas, nuevoPrograma(c)
    PROVE  Ubicados'
<1>1. TypeOK
  BY DEF MutexInv, TypeInv
<1>2. PICK p \in PID : p = ultimoPID
  BY <1>1, Ef_nuevoPrograma
<1>3. PICK t \in Hilos : t = Programa(p) /\ t \in Sitios
  BY ThreadFacts DEF Sitios
<1>4. pcb[t] = SinPid
  <2>1. p >= ultimoPID
    BY <1>2, ConstantesAssumption DEF PID
  <2>2. paso[t] = "nada"
    BY <1>3, <2>1 DEF MutexInv, SinEmpezar
  <2> QED
    BY <2>2 DEF HilosInv, Mano, ConPCB
<1>5. /\ Quietos({t}) /\ pcb'[t] = p /\ ultimoPID' = p + 1
      /\ UNCHANGED <<colaNew, colaReady, colaExec, colaBlocked, colaExit>>
  BY <1>1, <1>2, <1>3, Ef_nuevoPrograma DEF Va
<1>6. EnReady' = EnReady /\ ReadySinRepetir'
  BY <1>5, ReadyIgual
<1>7. \A w \in Sitios : ~Esta(w, p)
  <2>1. ~(p < p)
    BY ConstantesAssumption DEF PID
  <2> QED
    BY <1>2, <2>1 DEF Ubicados, Creados
<1>8. \A q \in PID, w \in Sitios : Esta(w, q)' <=> IF q = p THEN w = t ELSE Esta(w, q)
  <2>1. \A w \in Sitios : Esta(w, p)' <=> w = t
    <3>1. p \notin colaNew \cup EnReady \cup colaExec \cup colaBlocked \cup colaExit
          /\ \A u \in Hilos : pcb[u] # p
      BY <1>7 DEF Esta, Sitios
    <3> QED
      BY <1>3, <1>5, <1>6, <3>1 DEF Esta, Quietos
  <2>2. \A q \in PID \ {p} : \A w \in Sitios : Esta(w, q)' <=> Esta(w, q)
    BY <1>4, <1>5, <1>6, ThreadFacts DEF Esta, Quietos
  <2> QED
    BY <2>1, <2>2
<1>9. EnUno'
  BY <1>8 DEF Ubicados, EnUno
<1>10. Creados'
  <2>1. \A q \in PID : q < p + 1 <=> q < p \/ q = p
    BY ConstantesAssumption DEF PID
  <2>2. \A q \in PID : q < p <=> \E z \in Sitios : Esta(z, q)
    BY <1>2 DEF Ubicados, Creados
  <2>3. \A q \in PID : (\E z \in Sitios : Esta(z, q)') <=> q < p \/ q = p
    BY <1>3, <1>8, <2>2
  <2> QED
    BY <1>5, <2>1, <2>3 DEF Creados
<1> QED
  BY <1>6, <1>9, <1>10 DEF Ubicados

-----------------------------------------------------------------------------
(* Where the PCBs are, step by step. *)

LEMMA Ub_igual ==
    ASSUME Ubicados, UNCHANGED <<colaNew, colaReady, colaExec, colaBlocked, colaExit, ultimoPID>>,
           \A t \in Hilos : pcb'[t] = pcb[t]
    PROVE  Ubicados'
BY ReadyIgual, Quietud DEF Ubicados

(* The list of programs holds every program that is not in Exit, so the    *)
(* PCB that goes to a CPU is never dropped.                                *)
LEMMA NoSeDescarta ==
    ASSUME MutexInv, HilosInv, Ubicados, NEW t \in Hilos, paso[t] = "relacionar"
    PROVE  pcb[t] \in programas /\ pcb[t] \in PID
<1>1. PICK p \in PID : p = pcb[t]
  BY DEF MutexInv, TypeInv, CadaUnoLleva, Lleva, ConPCB
<1>2. Esta(t, p) /\ t \in Sitios /\ Exit \in Sitios
  BY <1>1 DEF Esta, Sitios
<1>3. p < ultimoPID
  BY <1>2 DEF Ubicados, Creados
<1>4. p \notin colaExit
  BY <1>2, SitiosDistintos DEF Ubicados, EnUno, Esta
<1>5. paso[Programa(p)] # "cargar_programa"
  <2> SUFFICES ASSUME paso[Programa(p)] = "cargar_programa" PROVE FALSE
    OBVIOUS
  <2>1. Programa(p) \in Hilos /\ pcb[Programa(p)] = p
    BY ThreadFacts DEF HilosInv, Nuevo, PasosNuevo, Programa
  <2>2. Esta(Programa(p), p) /\ Programa(p) \in Sitios
    BY <2>1 DEF Esta, Sitios
  <2> QED
    BY <1>2, <2>2 DEF Ubicados, EnUno
<1> QED
  BY <1>1, <1>3, <1>4, <1>5 DEF HilosInv, Listados

LEMMA Ub_PasoHilo ==
    ASSUME MutexInv, HilosInv, Ubicados, NEW t \in Hilos, PasoHilo(t)
    PROVE  Ubicados'
<1>1. TypeOK /\ Lleva(t) /\ Mano(t) /\ Nuevo(t)
  BY DEF MutexInv, TypeInv, CadaUnoLleva, HilosInv
<1>2. \A T : Quietos(T) => \A u \in Hilos \ T : pcb'[u] = pcb[u]
  BY DEF Quietos
<1>3. \A p \in PID : pcb[t] = p => p \notin EnReady
  <2> SUFFICES ASSUME NEW p \in PID, pcb[t] = p, p \in EnReady PROVE FALSE
    OBVIOUS
  <2>1. Esta(t, p) /\ Esta(Ready, p) /\ t \in Sitios /\ Ready \in Sitios
    BY DEF Esta, Sitios
  <2> QED
    BY <2>1, SitiosDistintos DEF Ubicados, EnUno
<1>4. CASE cargar_programa(t) \/ sem_wait(t) \/ finalizarProcesoMemoria(t) \/ finishProcess(t)
      \/ enviar_a_cpu(t) \/ correr_pcb(t)
  <2>1. /\ UNCHANGED <<colaNew, colaReady, colaExec, colaBlocked, colaExit, ultimoPID>>
        /\ Quietos({t}) /\ pcb'[t] = pcb[t]
    BY <1>1, <1>4, Ef_cargar_programa, Ef_sem_wait, Ef_finalizarProcesoMemoria, Ef_finishProcess,
       Ef_enviar_a_cpu, Ef_correr_pcb
       DEF Va
  <2> QED
    BY <1>2, <2>1, Ub_igual
<1>5. CASE moverA_colaNew(t)
  <2>1. /\ Quietos({t}) /\ pcb[t] \in PID /\ pcb'[t] = SinPid /\ colaNew' = colaNew \cup {pcb[t]}
        /\ UNCHANGED <<ultimoPID, colaReady, colaExec, colaBlocked, colaExit>>
    BY <1>1, <1>5, Ef_moverA_colaNew DEF Va, Lleva, ConPCB
  <2> QED
    BY <1>2, <2>1, ReadyIgual, Deja
<1>6. CASE inicializar_programa(t)
  <2>1. /\ Quietos({t}) /\ pid[t] \in PID /\ pcb[t] = SinPid /\ pcb'[t] = pid[t]
        /\ colaNew' = colaNew \ {pid[t]}
        /\ pid[t] \in colaNew /\ UNCHANGED <<ultimoPID, colaReady, colaExec, colaBlocked, colaExit>>
    BY <1>1, <1>6, Ef_inicializar_programa DEF Va, Mano, ConPCB, TypeOK, TipoColas
  <2> QED
    BY <1>2, <2>1, ReadyIgual, Saca
<1>7. CASE moverA_colaReady(t)
  <2>1. /\ Quietos({t}) /\ pcb[t] \in PID
        /\ UNCHANGED <<ultimoPID, colaNew, colaExec, colaBlocked, colaExit>>
        /\ \/ pcb'[t] = SinPid /\ colaReady' = Append(colaReady, pcb[t])
           \/ pcb'[t] = pcb[t] /\ UNCHANGED colaReady
    BY <1>1, <1>7, Ef_moverA_colaReady DEF Va, Lleva, ConPCB
  <2>2. CASE pcb'[t] = SinPid /\ colaReady' = Append(colaReady, pcb[t])
    <3>1. ReadySinRepetir' /\ EnReady' = EnReady \cup {pcb[t]}
      BY <1>1, <1>3, <2>1, <2>2, ReadyEntra
    <3> QED
      BY <1>2, <2>1, <2>2, <3>1, Deja
  <2>3. CASE pcb'[t] = pcb[t] /\ UNCHANGED colaReady
    BY <1>2, <2>1, <2>3, Ub_igual
  <2> QED
    BY <2>1, <2>2, <2>3
<1>8. CASE moverA_colaExit(t)
  <2>1. /\ Quietos({t}) /\ pcb[t] \in PID /\ pcb'[t] = SinPid /\ colaExit' = colaExit \cup {pcb[t]}
        /\ UNCHANGED <<ultimoPID, colaReady, colaExec, colaBlocked, colaNew>>
    BY <1>1, <1>8, Ef_moverA_colaExit DEF Va, Lleva, ConPCB
  <2> QED
    BY <1>2, <2>1, ReadyIgual, Deja
<1>9. CASE sacarCualquieraDeReady(t)
  <2>1. /\ Quietos({t}) /\ pcb[t] = SinPid
        /\ UNCHANGED <<ultimoPID, colaNew, colaExec, colaBlocked, colaExit>>
        /\ \/ pcb'[t] = Head(colaReady) /\ colaReady # <<>> /\ colaReady' = Tail(colaReady)
           \/ pcb'[t] = pcb[t] /\ UNCHANGED colaReady
    BY <1>1, <1>9, Ef_sacarCualquieraDeReady DEF Va, Mano, ConPCB
  <2>2. CASE pcb'[t] = Head(colaReady) /\ colaReady # <<>> /\ colaReady' = Tail(colaReady)
    <3>1. /\ ReadySinRepetir' /\ EnReady' = EnReady \ {Head(colaReady)}
          /\ Head(colaReady) \in EnReady /\ Head(colaReady) \in PID
      BY <1>1, <2>2, ReadySaleHead
    <3> QED
      BY <1>2, <2>1, <2>2, <3>1, Saca
  <2>3. CASE pcb'[t] = pcb[t] /\ UNCHANGED colaReady
    BY <1>2, <2>1, <2>3, Ub_igual
  <2> QED
    BY <2>1, <2>2, <2>3
<1>10. CASE relacionar(t)
  <2>1. /\ Quietos({t}) /\ pcb[t] \in PID /\ pcb'[t] = SinPid /\ colaExec' = colaExec \cup {pcb[t]}
        /\ UNCHANGED <<ultimoPID, colaReady, colaNew, colaBlocked, colaExit>>
    BY <1>1, <1>10, Ef_relacionar, NoSeDescarta DEF Va
  <2> QED
    BY <1>2, <2>1, ReadyIgual, Deja
<1> QED
  BY <1>4, <1>5, <1>6, <1>7, <1>8, <1>9, <1>10 DEF PasoHilo

LEMMA Ub_PasoFinalizador ==
    ASSUME MutexInv, HilosInv, Ubicados, NEW t \in Finalizadores, PasoFinalizador(t)
    PROVE  Ubicados'
<1>1. TypeOK /\ t \in Hilos /\ Mano(t) /\ t[2] \in PID
  BY ThreadFacts, FinalizadorDe DEF MutexInv, TypeInv, HilosInv
<1>2. Quietos({t}) => \A u \in Hilos \ {t} : pcb'[u] = pcb[u]
  BY DEF Quietos
<1>3. CASE finalizarProceso(t)
  <2>1. /\ UNCHANGED <<colaNew, colaReady, colaExec, colaBlocked, colaExit, ultimoPID>>
        /\ Quietos({t}) /\ pcb'[t] = pcb[t]
    BY <1>1, <1>3, Ef_finalizarProceso DEF Va
  <2> QED
    BY <1>2, <2>1, Ub_igual
<1>4. CASE sacarDe_colaReady(t)
  <2>1. /\ Quietos({t}) /\ pcb[t] = SinPid
        /\ UNCHANGED <<ultimoPID, colaNew, colaExec, colaBlocked, colaExit>>
        /\ \/ pcb'[t] = t[2] /\ t[2] \in EnReady /\ colaReady' = Sin(colaReady, t[2])
           \/ pcb'[t] = pcb[t] /\ UNCHANGED colaReady
    BY <1>1, <1>4, Ef_sacarDe_colaReady DEF Va, Mano, ConPCB
  <2>2. CASE pcb'[t] = t[2] /\ t[2] \in EnReady /\ colaReady' = Sin(colaReady, t[2])
    <3>1. ReadySinRepetir' /\ EnReady' = EnReady \ {t[2]}
      BY <1>1, <2>2, ReadySale
    <3> QED
      BY <1>1, <1>2, <2>1, <2>2, <3>1, Saca
  <2>3. CASE pcb'[t] = pcb[t] /\ UNCHANGED colaReady
    BY <1>2, <2>1, <2>3, Ub_igual
  <2> QED
    BY <2>1, <2>2, <2>3
<1> QED
  BY <1>3, <1>4 DEF PasoFinalizador

(* The process of the CPU that is served is in Exec. *)
LEMMA EstaEnExec ==
    ASSUME MutexInv, Tenencia, NEW c \in Cpus, Corre(c)
    PROVE  ejecuta[c] \in PID /\ ejecuta[c] \in colaExec
<1>1. PICK p \in PID : p = ejecuta[c]
  BY DEF Corre, MutexInv, TypeInv, CadaUnoLleva, ConProceso
<1>2. Ocupan(c, p)
  BY <1>1 DEF Ocupan
<1> QED
  BY <1>1, <1>2 DEF Tenencia, EnExec

LEMMA Ub_SrvCPU ==
    ASSUME MutexInv, HilosInv, Tenencia, Ubicados, NEW c \in Cpus, ManejaPCB(c) \/ ManejaOtro(c)
    PROVE  Ubicados'
<1>1. TypeOK /\ SrvCPU \in Hilos /\ Mano(SrvCPU)
  BY ThreadFacts DEF MutexInv, TypeInv, HilosInv
<1>2. /\ Quietos({SrvCPU}) => \A u \in Hilos \ {SrvCPU} : pcb'[u] = pcb[u]
      /\ Quietos({}) => \A u \in Hilos : pcb'[u] = pcb[u]
  BY DEF Quietos
<1>3. CASE nuevaConexionCPU(c) \/ finishCPU(c) \/ wait_ok(c)
  <2>1. /\ UNCHANGED <<colaNew, colaReady, colaExec, colaBlocked, colaExit, ultimoPID>>
        /\ \A u \in Hilos : pcb'[u] = pcb[u]
    BY <1>1, <1>2, <1>3, Ef_nuevaConexionCPU, Ef_finishCPU, Ef_wait_ok DEF Va
  <2> QED
    BY <2>1, Ub_igual
<1>4. CASE retornarPCB(c)
  <2>1. /\ Quietos({SrvCPU}) /\ pcb[SrvCPU] = SinPid /\ pcb'[SrvCPU] = ejecuta[c] /\ Corre(c)
        /\ colaExec' = colaExec \ {ejecuta[c]}
        /\ UNCHANGED <<ultimoPID, colaNew, colaReady, colaBlocked, colaExit>>
    BY <1>1, <1>4, Ef_retornarPCB DEF Va, Mano, ConPCB, Corre
  <2> QED
    BY <1>1, <1>2, <2>1, EstaEnExec, ReadyIgual, Saca
<1>5. CASE wait_bloquea(c)
  <2>1. /\ Quietos({SrvCPU}) /\ pcb[SrvCPU] = SinPid /\ Corre(c) /\ colaExec' = colaExec \ {ejecuta[c]}
        /\ UNCHANGED <<ultimoPID, colaNew, colaReady, colaExit>>
        /\ \/ pcb'[SrvCPU] = ejecuta[c] /\ UNCHANGED colaBlocked
           \/ pcb'[SrvCPU] = pcb[SrvCPU] /\ colaBlocked' = colaBlocked \cup (colaExec \cap {ejecuta[c]})
    BY <1>1, <1>5, Ef_wait_bloquea DEF Va, Mano, ConPCB, Corre
  <2>2. CASE pcb'[SrvCPU] = ejecuta[c] /\ UNCHANGED colaBlocked
    BY <1>1, <1>2, <2>1, <2>2, EstaEnExec, ReadyIgual, Saca
  <2>3. CASE pcb'[SrvCPU] = pcb[SrvCPU] /\ colaBlocked' = colaBlocked \cup (colaExec \cap {ejecuta[c]})
    <3>1. /\ ejecuta[c] \in PID /\ ejecuta[c] \in colaExec
          /\ colaBlocked' = colaBlocked \cup {ejecuta[c]}
          /\ \A u \in Hilos : pcb'[u] = pcb[u]
      BY <1>2, <2>1, <2>3, EstaEnExec
    <3> QED
      BY <2>1, <3>1, Bloquea
  <2> QED
    BY <2>1, <2>2, <2>3
<1>6. CASE signal(c)
  <2>1. /\ Quietos({SrvCPU}) /\ pcb[SrvCPU] = SinPid
        /\ UNCHANGED <<ultimoPID, colaNew, colaReady, colaExec, colaExit>>
        /\ \/ pcb'[SrvCPU] = pcb[SrvCPU] /\ UNCHANGED colaBlocked
           \/ \E q \in colaBlocked : pcb'[SrvCPU] = q /\ colaBlocked' = colaBlocked \ {q}
    BY <1>1, <1>6, Ef_signal DEF Va, Mano, ConPCB
  <2>2. CASE pcb'[SrvCPU] = pcb[SrvCPU] /\ UNCHANGED colaBlocked
    BY <1>2, <2>1, <2>2, Ub_igual
  <2>3. CASE \E q \in colaBlocked : pcb'[SrvCPU] = q /\ colaBlocked' = colaBlocked \ {q}
    <3>1. PICK q \in PID : q \in colaBlocked /\ pcb'[SrvCPU] = q /\ colaBlocked' = colaBlocked \ {q}
      BY <1>1, <2>3 DEF TypeOK, TipoColas
    <3> QED
      BY <1>1, <1>2, <2>1, <3>1, ReadyIgual, Saca
  <2> QED
    BY <2>1, <2>2, <2>3
<1> QED
  BY <1>3, <1>4, <1>5, <1>6 DEF ManejaPCB, ManejaOtro

LEMMA Ub_SigueSrvCPU ==
    ASSUME MutexInv, HilosInv, Ubicados, SigueSrvCPU
    PROVE  Ubicados'
<1>1. TypeOK
  BY DEF MutexInv, TypeInv
<1>2. /\ Quietos({SrvCPU}) /\ pcb'[SrvCPU] = pcb[SrvCPU]
      /\ UNCHANGED <<colaNew, colaReady, colaExec, colaBlocked, colaExit, ultimoPID>>
  BY <1>1, Ef_retornarPCB_desconectar, Ef_retornarPCB_decidir, Ef_program_change_running,
     Ef_wait_encolar, Ef_wait_responder, Ef_signal_responder
     DEF SigueSrvCPU, Va
<1> QED
  BY <1>2, Ub_igual DEF Quietos

LEMMA Ub_CPU ==
    ASSUME Ubicados, UNCHANGED kernel
    PROVE  Ubicados'
BY Ub_igual

LEMMA KernelIgual ==
    ASSUME NEW c \in Cpus,
           \/ PasoProcesoCPU(c) \/ conectarCPU(c) \/ signalHandler(c)
           \/ waitAnsisop(c) \/ signalAnsisop(c)
    PROVE  UNCHANGED kernel
BY DEF PasoProcesoCPU, correrPCB, finishCPU_cpu, recibirRespuesta, ejecutarPrograma, conectarCPU,
       signalHandler, waitAnsisop, signalAnsisop

LEMMA Ubicados_Init == Init => Ubicados
<1> SUFFICES ASSUME Init PROVE Ubicados
  OBVIOUS
<1>1. \A p \in PID, z \in Sitios : ~Esta(z, p)
  BY ThreadFacts DEF Init, Esta, EnReady
<1>2. \A p \in PID : ~(p < ultimoPID)
  BY ConstantesAssumption DEF Init, PID
<1>3. ReadySinRepetir
  BY DEF Init, ReadySinRepetir
<1> QED
  BY <1>1, <1>2, <1>3 DEF Ubicados, EnUno, Creados

LEMMA Ubicados_Next == MutexInv /\ HilosInv /\ Tenencia /\ Ubicados /\ [Next]_vars => Ubicados'
<1> SUFFICES ASSUME MutexInv, HilosInv, Tenencia, Ubicados, [Next]_vars PROVE Ubicados'
  OBVIOUS
<1>1. CASE UNCHANGED vars
  BY <1>1, Ub_igual DEF vars
<1>2. CASE \/ \E c \in Consolas : desconexionConsola(c)
           \/ \E p \in PID : finalizarProgramaConsola(p)
  BY <1>2, Ef_pedirFin, Ub_igual
<1> QED
  BY <1>1, <1>2, Ub_PasoHilo, Ub_PasoFinalizador, Ub_SigueSrvCPU, Ub_SrvCPU, Nace, KernelIgual,
     Ub_CPU
     DEF Next, Nucleo, end

LEMMA EnManoFuera == ASSUME MutexInv, Ubicados PROVE \A t \in Hilos : pcb[t] \notin colaExec
<1> SUFFICES ASSUME NEW t \in Hilos, pcb[t] \in colaExec PROVE FALSE
  OBVIOUS
<1>1. pcb[t] \in PID
  BY DEF MutexInv, TypeInv, TypeOK, TipoColas
<1>2. Esta(t, pcb[t]) /\ Esta(Exec, pcb[t]) /\ t \in Sitios /\ Exec \in Sitios
  BY DEF Esta, Sitios
<1> QED
  BY <1>1, <1>2, SitiosDistintos DEF Ubicados, EnUno

(* A program whose exit code was set is in Exit, or with whoever takes it  *)
(* there; and a request to finish a program is noted until its exit code   *)
(* is set.                                                                 *)
PasosTermina == {"exit", "exitSinMemoria", "processIsForFinish", "desconectarCPU"}
Terminados ==
    \A p \in PID : exitCode[p] # "enCurso" =>
        p \in colaExit \/ \E t \in Hilos : pcb[t] = p /\ paso[t] \in PasosTermina
Anotados ==
    \A p \in pedidos :
        p \in colaExit \/ p \in listForFinish \/ p \in listForFinishDesconexion
        \/ exitCode[p] # "enCurso"

(* A program is in New while its thread waits for a place.                 *)
Antes == {"cargar_programa", "moverA_colaNew", "sem_wait"}
EnNew == \A p \in PID : paso[Programa(p)] \in {"sem_wait", "inicializar_programa"} => p \in colaNew

(* Who has pages in Memoria, and who must not have them any more.          *)
ConPaginas ==
    /\ \A p \in enMemoria : p \notin colaNew /\ p < ultimoPID
    /\ \A p \in enMemoria : \/ p \notin colaExit /\ paso[Programa(p)] \notin Antes
                            \/ \E t \in Hilos : paso[t] = "FINZ_PROGM" /\ pid[t] = p
    /\ \A t \in Hilos : paso[t] = "exitSinMemoria" => pcb[t] \notin enMemoria
    /\ \A t \in Hilos : paso[t] = "END_PRGM" => pid[t] \notin enMemoria

(* The end of a program is told once, by who put it in Exit.               *)
Avisados ==
    /\ \A p \in PID : p \notin colaExit => avisos[p] = 0
    /\ \A p \in colaExit :
          \/ p \notin programas /\ p \notin enMemoria /\ avisos[p] = 1
          \/ /\ p \in programas /\ avisos[p] = 0
             /\ \E t \in Hilos : pid[t] = p /\ paso[t] \in {"FINZ_PROGM", "END_PRGM"}

Fines == Terminados /\ Anotados
Paginas == EnNew /\ ConPaginas /\ Avisados

(* A process that is in no hands, and not in Exit, has not ended.          *)
LEMMA EnCurso ==
    ASSUME MutexInv, Ubicados, Terminados, NEW p \in PID, p \in colaExec
    PROVE  exitCode[p] = "enCurso"
<1> SUFFICES ASSUME exitCode[p] # "enCurso" PROVE FALSE
  OBVIOUS
<1>1. Esta(Exec, p) /\ Exec \in Sitios /\ Exit \in Sitios /\ Hilos \subseteq Sitios
  BY DEF Esta, Sitios
<1>2. p \in colaExit => Esta(Exit, p)
  BY DEF Esta
<1>3. \A t \in Hilos : pcb[t] = p => Esta(t, p)
  BY DEF Esta
<1> QED
  BY <1>1, <1>2, <1>3, SitiosDistintos DEF Terminados, Ubicados, EnUno

LEMMA FinesFrame ==
    ASSUME MutexInv, Fines, NEW t \in Hilos, Quietos({t}), colaExit \subseteq colaExit',
           \A p \in PID : exitCode'[p] # exitCode[p] => pcb'[t] = p /\ paso'[t] \in PasosTermina,
           paso[t] \in PasosTermina => \/ paso'[t] \in PasosTermina /\ pcb'[t] = pcb[t]
                                       \/ pcb[t] \in colaExit' \/ exitCode'[pcb[t]] = "enCurso",
           \A p \in PID : exitCode[p] # "enCurso" => exitCode'[p] # "enCurso",
           \A p \in PID : p \in listForFinish \ listForFinish' => exitCode'[p] # "enCurso",
           \A p \in PID : p \in listForFinishDesconexion \ listForFinishDesconexion' =>
              exitCode'[p] # "enCurso",
           \A p \in PID : p \in pedidos' \ pedidos =>
                  p \in listForFinish' \/ p \in listForFinishDesconexion' \/ exitCode'[p] # "enCurso",
           pedidos' \subseteq PID
    PROVE  Fines'
<1>1. Terminados'
  <2> SUFFICES ASSUME NEW p \in PID, exitCode'[p] # "enCurso", p \notin colaExit',
                      ~(pcb'[t] = p /\ paso'[t] \in PasosTermina)
               PROVE  \E u \in Hilos : pcb'[u] = p /\ paso'[u] \in PasosTermina
    BY DEF Terminados
  <2>1. PICK u \in Hilos : pcb[u] = p /\ paso[u] \in PasosTermina
    BY DEF Fines, Terminados
  <2>2. u # t
    BY <2>1
  <2> QED
    BY <2>1, <2>2 DEF Quietos
<1>2. Anotados'
  BY DEF Fines, Anotados
<1> QED
  BY <1>1, <1>2 DEF Fines

LEMMA PaginasFrame ==
    ASSUME MutexInv, Paginas, NEW t \in Hilos, Quietos({t}),
           UNCHANGED <<colaNew, colaExit, enMemoria, avisos, programas, ultimoPID>>,
           paso'[t] \notin Antes, paso'[t] = "inicializar_programa" => paso[t] = "sem_wait",
           paso[t] \notin {"FINZ_PROGM", "END_PRGM"}, paso'[t] \notin {"exitSinMemoria", "END_PRGM"}
    PROVE  Paginas'
<1>1. EnNew'
  BY ThreadFacts DEF Paginas, EnNew, Quietos, Antes
<1>2. ConPaginas'
  <2>1. \A p \in enMemoria : p \in PID
    BY DEF MutexInv, TypeInv, TypeOK, TipoColas
  <2>2. \A p \in PID : paso'[Programa(p)] \in Antes => paso[Programa(p)] \in Antes
    BY ThreadFacts DEF Quietos
  <2>3. \A u \in Hilos : paso[u] = "FINZ_PROGM" => paso'[u] = "FINZ_PROGM" /\ pid'[u] = pid[u]
    BY DEF Quietos
  <2>4. \A p \in enMemoria' : \/ p \notin colaExit' /\ paso'[Programa(p)] \notin Antes
                              \/ \E u \in Hilos : paso'[u] = "FINZ_PROGM" /\ pid'[u] = p
    BY <2>1, <2>2, <2>3 DEF Paginas, ConPaginas
  <2>5. \A u \in Hilos : paso'[u] = "exitSinMemoria" => pcb'[u] \notin enMemoria'
    BY DEF Paginas, ConPaginas, Quietos
  <2>6. \A u \in Hilos : paso'[u] = "END_PRGM" => pid'[u] \notin enMemoria'
    BY DEF Paginas, ConPaginas, Quietos
  <2> QED
    BY <2>4, <2>5, <2>6 DEF Paginas, ConPaginas
<1>3. Avisados'
  <2>1. \A u \in Hilos : paso[u] \in {"FINZ_PROGM", "END_PRGM"} =>
           paso'[u] = paso[u] /\ pid'[u] = pid[u]
    BY DEF Quietos
  <2> QED
    BY <2>1 DEF Paginas, Avisados
<1> QED
  BY <1>1, <1>2, <1>3 DEF Paginas

-----------------------------------------------------------------------------
(* The steps of the threads, for the end of the programs.                  *)
LEMMA Fi_PasoHilo ==
    ASSUME MutexInv, HilosInv, Fines, NEW t \in Hilos, PasoHilo(t)
    PROVE  Fines'
<1>1. /\ TypeOK /\ Lleva(t) /\ Mano(t) /\ pedidos \subseteq PID /\ exitCode \in [PID -> ExitCodes]
      /\ "enCurso" \notin {"BY_CONSOLE", "DESCONEXION", "SIN_RECURSOS"}
  BY DEF MutexInv, TypeInv, CadaUnoLleva, HilosInv, TypeOK, TipoColas
<1>2. CASE cargar_programa(t) \/ moverA_colaNew(t) \/ sem_wait(t) \/ finalizarProcesoMemoria(t)
      \/ finishProcess(t)
           \/ enviar_a_cpu(t) \/ sacarCualquieraDeReady(t) \/ relacionar(t) \/ correr_pcb(t)
  <2>1. /\ Quietos({t}) /\ paso[t] \notin PasosTermina
        /\ UNCHANGED <<colaExit, exitCode, listForFinish, listForFinishDesconexion, pedidos>>
    BY <1>1, <1>2, Ef_cargar_programa, Ef_moverA_colaNew, Ef_sem_wait, Ef_finalizarProcesoMemoria,
       Ef_finishProcess, Ef_enviar_a_cpu, Ef_sacarCualquieraDeReady, Ef_relacionar, Ef_correr_pcb
       DEF PasosTermina
  <2> QED
    BY <1>1, <2>1, FinesFrame
<1>3. CASE inicializar_programa(t)
  <2>1. /\ Quietos({t}) /\ paso[t] \notin PasosTermina
        /\ UNCHANGED <<colaExit, listForFinish, listForFinishDesconexion, pedidos>>
        /\ \/ UNCHANGED exitCode
           \/ /\ pcb'[t] = pid[t] /\ paso'[t] \in PasosTermina
              /\ exitCode' = [exitCode EXCEPT ![pid[t]] = "SIN_RECURSOS"]
    BY <1>1, <1>3, Ef_inicializar_programa DEF PasosTermina, Va
  <2> QED
    BY <1>1, <2>1, FinesFrame
<1>4. CASE moverA_colaReady(t)
  <2>1. /\ Quietos({t}) /\ paso[t] \notin PasosTermina /\ UNCHANGED <<colaExit, pedidos>>
        /\ \/ UNCHANGED <<exitCode, listForFinish, listForFinishDesconexion>>
           \/ /\ pcb'[t] = pcb[t] /\ paso'[t] \in PasosTermina
              /\ \E e \in {"BY_CONSOLE", "DESCONEXION"} : exitCode' = [exitCode EXCEPT ![pcb[t]] = e]
              /\ listForFinish \ {pcb[t]} \subseteq listForFinish'
              /\ listForFinishDesconexion \ {pcb[t]} \subseteq listForFinishDesconexion'
    BY <1>1, <1>4, Ef_moverA_colaReady DEF PasosTermina, Va
  <2> QED
    BY <1>1, <2>1, FinesFrame
<1>5. CASE moverA_colaExit(t)
  <2>1. /\ Quietos({t}) /\ pcb[t] \in colaExit' /\ colaExit \subseteq colaExit'
        /\ UNCHANGED <<exitCode, listForFinish, listForFinishDesconexion, pedidos>>
    BY <1>1, <1>5, Ef_moverA_colaExit
  <2> QED
    BY <1>1, <2>1, FinesFrame
<1> QED
  BY <1>2, <1>3, <1>4, <1>5 DEF PasoHilo

LEMMA Fi_PasoFinalizador ==
    ASSUME MutexInv, HilosInv, Fines, NEW t \in Finalizadores, PasoFinalizador(t)
    PROVE  Fines'
<1>1. /\ TypeOK /\ t \in Hilos /\ pedidos \subseteq PID /\ exitCode \in [PID -> ExitCodes]
      /\ t[2] \in PID
      /\ "enCurso" \notin {"BY_CONSOLE", "DESCONEXION", "SIN_RECURSOS"}
  BY ThreadFacts, FinalizadorDe DEF MutexInv, TypeInv, TypeOK, TipoColas
<1>2. CASE finalizarProceso(t)
  <2>1. /\ Quietos({t}) /\ paso[t] \notin PasosTermina /\ UNCHANGED <<colaExit, exitCode>>
        /\ listForFinish \subseteq listForFinish'
        /\ listForFinishDesconexion \subseteq listForFinishDesconexion'
        /\ \/ pedidos' = pedidos
           \/ pedidos' = pedidos \cup {t[2]} /\ t[2] \in listForFinish' \cup listForFinishDesconexion'
    BY <1>1, <1>2, Ef_finalizarProceso DEF PasosTermina
  <2> QED
    BY <1>1, <2>1, FinesFrame
<1>3. CASE sacarDe_colaReady(t)
  <2>1. /\ Quietos({t}) /\ paso[t] \notin PasosTermina /\ UNCHANGED colaExit
        /\ listForFinish \subseteq listForFinish'
        /\ listForFinishDesconexion \subseteq listForFinishDesconexion'
        /\ pedidos' = pedidos \cup {t[2]}
        /\ \/ UNCHANGED exitCode /\ t[2] \in listForFinish' \cup listForFinishDesconexion'
           \/ /\ pcb'[t] = t[2] /\ paso'[t] \in PasosTermina
              /\ \E e \in {"BY_CONSOLE", "DESCONEXION"} : exitCode' = [exitCode EXCEPT ![t[2]] = e]
    BY <1>1, <1>3, Ef_sacarDe_colaReady DEF PasosTermina, Va
  <2> QED
    BY <1>1, <2>1, FinesFrame
<1> QED
  BY <1>2, <1>3 DEF PasoFinalizador

(* Only the return of a PCB may set an exit code back, that was not set.   *)
LEMMA Fi_SrvCPU ==
    ASSUME MutexInv, HilosInv, Tenencia, Ubicados, Fines, NEW c \in Cpus, ManejaPCB(c) \/ ManejaOtro(c)
    PROVE  Fines'
<1>1. /\ TypeOK /\ SrvCPU \in Hilos /\ pedidos \subseteq PID /\ exitCode \in [PID -> ExitCodes]
      /\ "enCurso" \notin {"BY_CONSOLE", "DESCONEXION", "SIN_RECURSOS"}
  BY ThreadFacts DEF MutexInv, TypeInv, TypeOK, TipoColas
<1>2. Quietos({}) => Quietos({SrvCPU})
  BY DEF Quietos
<1>3. CASE nuevaConexionCPU(c) \/ finishCPU(c) \/ wait_ok(c) \/ signal(c)
  <2>1. /\ Quietos({SrvCPU}) /\ paso[SrvCPU] \notin PasosTermina
        /\ UNCHANGED <<colaExit, exitCode, listForFinish, listForFinishDesconexion, pedidos>>
    BY <1>1, <1>2, <1>3, Ef_nuevaConexionCPU, Ef_finishCPU, Ef_wait_ok, Ef_signal DEF PasosTermina
  <2> QED
    BY <1>1, <2>1, FinesFrame
<1>4. CASE retornarPCB(c)
  <2>1. Corre(c)
    BY <1>1, <1>4, Ef_retornarPCB DEF Corre
  <2>2. PICK p \in PID : p = ejecuta[c] /\ exitCode[p] = "enCurso"
    BY <2>1, EstaEnExec, EnCurso DEF Fines
  <2>3. /\ Quietos({SrvCPU}) /\ paso[SrvCPU] \notin PasosTermina
        /\ UNCHANGED <<colaExit, listForFinish, listForFinishDesconexion, pedidos>>
        /\ pcb'[SrvCPU] = p /\ paso'[SrvCPU] \in PasosTermina
        /\ \E e \in {"OK", "enCurso"} : exitCode' = [exitCode EXCEPT ![p] = e]
    BY <1>1, <1>4, <2>2, Ef_retornarPCB DEF PasosTermina, Va
  <2> QED
    BY <1>1, <2>2, <2>3, FinesFrame
<1>5. CASE wait_bloquea(c)
  <2>1. Corre(c)
    BY <1>1, <1>5, Ef_wait_bloquea DEF Corre
  <2>2. PICK p \in PID : p = ejecuta[c]
    BY <2>1, EstaEnExec
  <2>3. /\ Quietos({SrvCPU}) /\ paso[SrvCPU] \notin PasosTermina
        /\ UNCHANGED <<colaExit, listForFinish, pedidos>>
        /\ \/ UNCHANGED <<exitCode, listForFinishDesconexion>>
           \/ /\ pcb'[SrvCPU] = p /\ paso'[SrvCPU] \in PasosTermina
              /\ exitCode' = [exitCode EXCEPT ![p] = "DESCONEXION"]
              /\ listForFinishDesconexion' = listForFinishDesconexion \ {p}
    BY <1>1, <1>5, <2>2, Ef_wait_bloquea DEF PasosTermina, Va
  <2> QED
    BY <1>1, <2>3, FinesFrame
<1> QED
  BY <1>3, <1>4, <1>5 DEF ManejaPCB, ManejaOtro

LEMMA Fi_SigueSrvCPU ==
    ASSUME MutexInv, HilosInv, Fines, SigueSrvCPU
    PROVE  Fines'
<1>1. /\ TypeOK /\ SrvCPU \in Hilos /\ pedidos \subseteq PID /\ exitCode \in [PID -> ExitCodes]
      /\ Lleva(SrvCPU)
      /\ "enCurso" \notin {"BY_CONSOLE", "DESCONEXION", "SIN_RECURSOS"}
  BY ThreadFacts DEF MutexInv, TypeInv, TypeOK, TipoColas, CadaUnoLleva
<1>2. CASE program_change_running \/ wait_encolar \/ wait_responder \/ signal_responder
  <2>1. /\ Quietos({SrvCPU}) /\ paso[SrvCPU] \notin PasosTermina
        /\ UNCHANGED <<colaExit, exitCode, listForFinish, listForFinishDesconexion, pedidos>>
    BY <1>1, <1>2, Ef_program_change_running, Ef_wait_encolar, Ef_wait_responder,
       Ef_signal_responder
       DEF PasosTermina
  <2> QED
    BY <1>1, <2>1, FinesFrame
<1>3. CASE retornarPCB_desconectar
  <2>1. /\ Quietos({SrvCPU}) /\ paso'[SrvCPU] \in PasosTermina /\ pcb'[SrvCPU] = pcb[SrvCPU]
        /\ UNCHANGED <<colaExit, exitCode, listForFinish, listForFinishDesconexion, pedidos>>
    BY <1>1, <1>3, Ef_retornarPCB_desconectar DEF PasosTermina, Va
  <2> QED
    BY <1>1, <2>1, FinesFrame
<1>4. CASE retornarPCB_decidir
  <2>1. PICK p \in PID : p = pcb[SrvCPU]
    BY <1>1, <1>4, Ef_retornarPCB_decidir DEF Lleva, ConPCB
  <2>2. /\ Quietos({SrvCPU}) /\ pcb'[SrvCPU] = p /\ listForFinish' = listForFinish \ {p}
        /\ UNCHANGED <<colaExit, listForFinishDesconexion, pedidos>>
        /\ \/ paso'[SrvCPU] \in PasosTermina /\ exitCode' = [exitCode EXCEPT ![p] = "BY_CONSOLE"]
           \/ paso'[SrvCPU] \in PasosTermina /\ exitCode[p] # "enCurso" /\ UNCHANGED exitCode
           \/ exitCode[p] = "enCurso" /\ p \notin listForFinish /\ UNCHANGED exitCode
    BY <1>1, <1>4, <2>1, Ef_retornarPCB_decidir DEF PasosTermina, Va
  <2> QED
    BY <1>1, <2>1, <2>2, FinesFrame
<1> QED
  BY <1>2, <1>3, <1>4 DEF SigueSrvCPU

LEMMA Fines_Next == MutexInv /\ HilosInv /\ Tenencia /\ Ubicados /\ Fines /\ [Next]_vars => Fines'
<1> SUFFICES ASSUME MutexInv, HilosInv, Tenencia, Ubicados, Fines, [Next]_vars PROVE Fines'
  OBVIOUS
<1>1. CASE UNCHANGED <<exitCode, colaExit, pcb, paso, pedidos, listForFinish, listForFinishDesconexion>>
  BY <1>1 DEF Fines, Terminados, Anotados
<1>2. ASSUME \/ \E c \in Consolas : desconexionConsola(c)
             \/ \E p \in PID : finalizarProgramaConsola(p)
      PROVE  Fines'
  <2>1. /\ UNCHANGED <<exitCode, colaExit, pcb, pedidos, listForFinish, listForFinishDesconexion>>
        /\ \A u \in Hilos : paso[u] \in PasosTermina => paso'[u] = paso[u]
    BY <1>2, Ef_pedirFin DEF PasosTermina
  <2> QED
    BY <2>1 DEF Fines, Terminados, Anotados
<1>3. ASSUME NEW c \in Consolas, nuevoPrograma(c) PROVE Fines'
  <2>1. TypeOK
    BY DEF MutexInv, TypeInv
  <2>2. PICK p \in PID : p = ultimoPID /\ Programa(p) \in Hilos
    BY <1>3, <2>1, Ef_nuevoPrograma
  <2>3. paso[Programa(p)] \notin PasosTermina
    <3>1. p >= ultimoPID
      BY <2>2, ConstantesAssumption DEF PID
    <3> QED
      BY <2>2, <3>1 DEF MutexInv, SinEmpezar, PasosTermina
  <2>4. /\ Quietos({Programa(p)}) /\ pedidos \subseteq PID
        /\ UNCHANGED <<exitCode, colaExit, pedidos, listForFinish, listForFinishDesconexion>>
    BY <1>3, <2>1, <2>2, Ef_nuevoPrograma DEF TypeOK, TipoColas
  <2> QED
    BY <2>2, <2>3, <2>4, FinesFrame
<1>4. ASSUME UNCHANGED kernel PROVE Fines'
  BY <1>1, <1>4
<1>5. CASE UNCHANGED vars
  BY <1>1, <1>5 DEF vars
<1> QED
  BY <1>2, <1>3, <1>4, <1>5, Fi_PasoHilo, Fi_PasoFinalizador, Fi_SigueSrvCPU, Fi_SrvCPU, KernelIgual
     DEF Next, Nucleo, end

LEMMA Fines_Init == Init => Fines
BY DEF Init, Fines, Terminados, Anotados

-----------------------------------------------------------------------------
(* The steps of the threads, for the pages and the notices.                *)
LEMMA Aparte ==
    ASSUME Ubicados, NEW p \in PID
    PROVE  /\ p \in colaNew => p \notin colaExit /\ \A t \in Hilos : pcb[t] # p
           /\ p \in colaExit => p < ultimoPID /\ \A t \in Hilos : pcb[t] # p
<1>1. /\ p \in colaNew => Esta(New, p)
      /\ p \in colaExit => Esta(Exit, p)
      /\ \A t \in Hilos : pcb[t] = p => Esta(t, p)
  BY DEF Esta
<1>2. New \in Sitios /\ Exit \in Sitios /\ Hilos \subseteq Sitios
  BY DEF Sitios
<1> QED
  BY <1>1, <1>2, SitiosDistintos DEF Ubicados, EnUno, Creados

(* At the first steps of a program its thread is the one that has it.      *)
LEMMA SuHilo ==
    ASSUME HilosInv, NEW t \in Hilos, paso[t] \in PasosNuevo
    PROVE  /\ pid[t] \in PID /\ t = Programa(pid[t]) /\ pid[t] < ultimoPID
           /\ paso[t] \in {"cargar_programa", "moverA_colaNew", "exitSinMemoria"} => pcb[t] = pid[t]
           /\ \A p \in PID : t = Programa(p) => p = pid[t]
<1>1. Nuevo(t)
  BY DEF HilosInv
<1>2. \A p \in PID : t = Programa(p) => t[2] = p
  BY DEF Programa
<1> QED
  BY <1>1, <1>2 DEF Nuevo

LEMMA Pa_cargar_programa ==
    ASSUME MutexInv, HilosInv, Ubicados, Paginas, NEW t \in Hilos, cargar_programa(t)
    PROVE  Paginas'
<1>1. TypeOK
  BY DEF MutexInv, TypeInv
<1>2. PICK p \in PID : p = pid[t] /\ pcb[t] = p /\ t = Programa(p)
                       /\ \A q \in PID : t = Programa(q) => q = p
  BY <1>1, SuHilo, Ef_cargar_programa DEF PasosNuevo
<1>3. p \notin colaExit
  BY <1>2, Aparte
<1>4. /\ Quietos({t}) /\ paso[t] = "cargar_programa" /\ paso'[t] = "moverA_colaNew"
      /\ programas' = programas \cup {p}
      /\ UNCHANGED <<colaNew, colaExit, enMemoria, avisos, ultimoPID>>
  BY <1>1, <1>2, Ef_cargar_programa DEF Va
<1>5. EnNew'
  BY <1>4, ThreadFacts DEF Paginas, EnNew, Quietos
<1>6. ConPaginas'
  <2>1. \A q \in enMemoria : q \in PID
    BY <1>1 DEF TypeOK, TipoColas
  <2>2. \A q \in PID : paso'[Programa(q)] \in Antes => paso[Programa(q)] \in Antes
    BY <1>4, ThreadFacts DEF Quietos, Antes
  <2>3. \A u \in Hilos : paso[u] = "FINZ_PROGM" => paso'[u] = "FINZ_PROGM" /\ pid'[u] = pid[u]
    BY <1>4 DEF Quietos
  <2>4. \A q \in enMemoria' : \/ q \notin colaExit' /\ paso'[Programa(q)] \notin Antes
                              \/ \E u \in Hilos : paso'[u] = "FINZ_PROGM" /\ pid'[u] = q
    BY <1>4, <2>1, <2>2, <2>3 DEF Paginas, ConPaginas
  <2>5. \A u \in Hilos : /\ paso'[u] = "exitSinMemoria" => pcb'[u] \notin enMemoria'
                         /\ paso'[u] = "END_PRGM" => pid'[u] \notin enMemoria'
    BY <1>4 DEF Paginas, ConPaginas, Quietos
  <2> QED
    BY <1>4, <2>4, <2>5 DEF Paginas, ConPaginas
<1>7. Avisados'
  <2>1. \A u \in Hilos : paso[u] \in {"FINZ_PROGM", "END_PRGM"} =>
           paso'[u] = paso[u] /\ pid'[u] = pid[u]
    BY <1>4 DEF Quietos
  <2> QED
    BY <1>3, <1>4, <2>1 DEF Paginas, Avisados
<1> QED
  BY <1>5, <1>6, <1>7 DEF Paginas

LEMMA Pa_moverA_colaNew ==
    ASSUME MutexInv, HilosInv, Ubicados, Paginas, NEW t \in Hilos, moverA_colaNew(t)
    PROVE  Paginas'
<1>1. TypeOK
  BY DEF MutexInv, TypeInv
<1>2. PICK p \in PID : p = pid[t] /\ pcb[t] = p /\ t = Programa(p)
                       /\ \A q \in PID : t = Programa(q) => q = p
  BY <1>1, SuHilo, Ef_moverA_colaNew DEF PasosNuevo
<1>3. p \notin colaExit
  BY <1>2, Aparte
<1>4. /\ Quietos({t}) /\ paso[t] = "moverA_colaNew" /\ paso'[t] = "sem_wait"
      /\ colaNew' = colaNew \cup {p}
      /\ UNCHANGED <<programas, colaExit, enMemoria, avisos, ultimoPID>>
  BY <1>1, <1>2, Ef_moverA_colaNew DEF Va
<1>5. p \notin enMemoria
  <2>1. \A u \in Hilos : paso[u] = "FINZ_PROGM" => pid[u] # p
    BY <1>3 DEF HilosInv, Avisa
  <2> QED
    BY <1>2, <1>4, <2>1 DEF Paginas, ConPaginas, Antes
<1>6. EnNew'
  BY <1>2, <1>4, ThreadFacts DEF Paginas, EnNew, Quietos
<1>7. ConPaginas'
  <2>1. \A q \in enMemoria : q \in PID
    BY <1>1 DEF TypeOK, TipoColas
  <2>2. \A q \in PID : paso'[Programa(q)] \in Antes => paso[Programa(q)] \in Antes
    BY <1>4, ThreadFacts DEF Quietos, Antes
  <2>3. \A u \in Hilos : paso[u] = "FINZ_PROGM" => paso'[u] = "FINZ_PROGM" /\ pid'[u] = pid[u]
    BY <1>4 DEF Quietos
  <2>4. \A q \in enMemoria' : \/ q \notin colaExit' /\ paso'[Programa(q)] \notin Antes
                              \/ \E u \in Hilos : paso'[u] = "FINZ_PROGM" /\ pid'[u] = q
    BY <1>4, <2>1, <2>2, <2>3 DEF Paginas, ConPaginas
  <2>5. \A u \in Hilos : /\ paso'[u] = "exitSinMemoria" => pcb'[u] \notin enMemoria'
                         /\ paso'[u] = "END_PRGM" => pid'[u] \notin enMemoria'
    BY <1>4 DEF Paginas, ConPaginas, Quietos
  <2>6. \A q \in enMemoria' : q \notin colaNew' /\ q < ultimoPID'
    BY <1>4, <1>5 DEF Paginas, ConPaginas
  <2> QED
    BY <2>4, <2>5, <2>6 DEF ConPaginas
<1>8. Avisados'
  <2>1. \A u \in Hilos : paso[u] \in {"FINZ_PROGM", "END_PRGM"} =>
           paso'[u] = paso[u] /\ pid'[u] = pid[u]
    BY <1>4 DEF Quietos
  <2> QED
    BY <1>4, <2>1 DEF Paginas, Avisados
<1> QED
  BY <1>6, <1>7, <1>8 DEF Paginas

LEMMA Pa_inicializar_programa ==
    ASSUME MutexInv, HilosInv, Ubicados, Paginas, NEW t \in Hilos, inicializar_programa(t)
    PROVE  Paginas'
<1>1. TypeOK
  BY DEF MutexInv, TypeInv
<1>2. PICK p \in PID : /\ p = pid[t] /\ t = Programa(p) /\ p < ultimoPID /\ p \in colaNew
                       /\ \A q \in PID : t = Programa(q) => q = p
  BY <1>1, SuHilo, Ef_inicializar_programa DEF PasosNuevo
<1>3. p \notin colaExit /\ p \notin enMemoria /\ \A u \in Hilos : pcb[u] # p
  BY <1>2, Aparte DEF Paginas, ConPaginas
<1>4. /\ Quietos({t}) /\ paso[t] = "inicializar_programa"
      /\ colaNew' = colaNew \ {p} /\ UNCHANGED <<programas, colaExit, avisos, ultimoPID>>
      /\ \/ paso'[t] = "exitSinMemoria" /\ pcb'[t] = p /\ enMemoria' = enMemoria
         \/ paso'[t] \in {"moverA_colaReady", "exit"} /\ enMemoria' = enMemoria \cup {p}
  BY <1>1, <1>2, Ef_inicializar_programa DEF Va
<1>5. EnNew'
  BY <1>2, <1>4, ThreadFacts DEF Paginas, EnNew, Quietos
<1>6. ConPaginas'
  <2>1. \A q \in enMemoria : q \in PID
    BY <1>1 DEF TypeOK, TipoColas
  <2>2. \A q \in PID : paso'[Programa(q)] \in Antes => paso[Programa(q)] \in Antes
    BY <1>4, ThreadFacts DEF Quietos, Antes
  <2>3. \A u \in Hilos : paso[u] = "FINZ_PROGM" => paso'[u] = "FINZ_PROGM" /\ pid'[u] = pid[u]
    BY <1>4 DEF Quietos
  <2>4. paso'[Programa(p)] \notin Antes
    BY <1>2, <1>4 DEF Antes
  <2>5. \A q \in enMemoria' : \/ q \notin colaExit' /\ paso'[Programa(q)] \notin Antes
                              \/ \E u \in Hilos : paso'[u] = "FINZ_PROGM" /\ pid'[u] = q
    BY <1>3, <1>4, <2>1, <2>2, <2>3, <2>4 DEF Paginas, ConPaginas
  <2>6. \A u \in Hilos : paso'[u] = "exitSinMemoria" => pcb'[u] \notin enMemoria'
    BY <1>3, <1>4 DEF Paginas, ConPaginas, Quietos
  <2>7. \A u \in Hilos : paso'[u] = "END_PRGM" => pid'[u] \notin enMemoria'
    <3>1. \A u \in Hilos : paso[u] = "END_PRGM" => pid[u] # p
      BY <1>3 DEF HilosInv, Avisa
    <3> QED
      BY <1>4, <3>1 DEF Paginas, ConPaginas, Quietos
  <2>8. \A q \in enMemoria' : q \notin colaNew' /\ q < ultimoPID'
    BY <1>2, <1>4 DEF Paginas, ConPaginas
  <2> QED
    BY <2>5, <2>6, <2>7, <2>8 DEF ConPaginas
<1>7. Avisados'
  <2>1. \A u \in Hilos : paso[u] \in {"FINZ_PROGM", "END_PRGM"} =>
           paso'[u] = paso[u] /\ pid'[u] = pid[u]
    BY <1>4 DEF Quietos
  <2> QED
    BY <1>3, <1>4, <2>1 DEF Paginas, Avisados
<1> QED
  BY <1>5, <1>6, <1>7 DEF Paginas

(* The PCB that goes to Exit is listed. *)
LEMMA SigueListado ==
    ASSUME MutexInv, HilosInv, Ubicados, NEW t \in Hilos, NEW p \in PID, pcb[t] = p,
           paso[t] # "cargar_programa"
    PROVE  p \in programas /\ p \notin colaExit /\ p < ultimoPID
<1>1. Esta(t, p) /\ t \in Sitios /\ Exit \in Sitios
  BY DEF Esta, Sitios
<1>2. p < ultimoPID
  BY <1>1 DEF Ubicados, Creados
<1>3. p \notin colaExit
  BY Aparte
<1>4. paso[Programa(p)] # "cargar_programa"
  <2> SUFFICES ASSUME paso[Programa(p)] = "cargar_programa" PROVE FALSE
    OBVIOUS
  <2>1. Programa(p) \in Hilos /\ pcb[Programa(p)] = p
    BY ThreadFacts DEF HilosInv, Nuevo, PasosNuevo, Programa
  <2>2. Esta(Programa(p), p) /\ Programa(p) \in Sitios
    BY <2>1 DEF Esta, Sitios
  <2> QED
    BY <1>1, <2>2 DEF Ubicados, EnUno
<1> QED
  BY <1>2, <1>3, <1>4 DEF HilosInv, Listados

LEMMA Pa_moverA_colaExit ==
    ASSUME MutexInv, HilosInv, Ubicados, Paginas, NEW t \in Hilos, moverA_colaExit(t)
    PROVE  Paginas'
<1>1. TypeOK /\ Lleva(t)
  BY DEF MutexInv, TypeInv, CadaUnoLleva
<1>2. PICK p \in PID : p = pcb[t]
  BY <1>1, Ef_moverA_colaExit DEF Lleva, ConPCB
<1>3. /\ Quietos({t}) /\ colaExit' = colaExit \cup {p} /\ pid'[t] = p
      /\ \/ paso[t] = "exit" /\ paso'[t] = "FINZ_PROGM"
         \/ paso[t] = "exitSinMemoria" /\ paso'[t] = "END_PRGM"
      /\ UNCHANGED <<programas, colaNew, enMemoria, avisos, ultimoPID>>
  BY <1>1, <1>2, Ef_moverA_colaExit DEF Va
<1>4. p \in programas /\ p \notin colaExit
  BY <1>2, <1>3, SigueListado
<1>5. paso[t] = "exitSinMemoria" => p \notin enMemoria
  BY <1>2 DEF Paginas, ConPaginas
<1>6. EnNew'
  BY <1>3, ThreadFacts DEF Paginas, EnNew, Quietos
<1>7. ConPaginas'
  <2>1. \A q \in enMemoria : q \in PID
    BY <1>1 DEF TypeOK, TipoColas
  <2>2. \A q \in PID : paso'[Programa(q)] \in Antes => paso[Programa(q)] \in Antes
    BY <1>3, ThreadFacts DEF Quietos, Antes
  <2>3. \A u \in Hilos : paso[u] = "FINZ_PROGM" => paso'[u] = "FINZ_PROGM" /\ pid'[u] = pid[u]
    BY <1>3 DEF Quietos
  <2>4. p \in enMemoria => paso'[t] = "FINZ_PROGM" /\ pid'[t] = p
    BY <1>3, <1>5
  <2>5. \A q \in enMemoria' : \/ q \notin colaExit' /\ paso'[Programa(q)] \notin Antes
                              \/ \E u \in Hilos : paso'[u] = "FINZ_PROGM" /\ pid'[u] = q
    BY <1>3, <2>1, <2>2, <2>3, <2>4 DEF Paginas, ConPaginas
  <2>6. \A u \in Hilos : /\ paso'[u] = "exitSinMemoria" => pcb'[u] \notin enMemoria'
                         /\ paso'[u] = "END_PRGM" => pid'[u] \notin enMemoria'
    BY <1>3, <1>5 DEF Paginas, ConPaginas, Quietos
  <2> QED
    BY <1>3, <2>5, <2>6 DEF Paginas, ConPaginas
<1>8. Avisados'
  <2>1. \A u \in Hilos : paso[u] \in {"FINZ_PROGM", "END_PRGM"} =>
           paso'[u] = paso[u] /\ pid'[u] = pid[u]
    BY <1>3 DEF Quietos
  <2>2. avisos'[p] = 0 /\ p \in programas'
        /\ \E u \in Hilos : pid'[u] = p /\ paso'[u] \in {"FINZ_PROGM", "END_PRGM"}
    BY <1>3, <1>4 DEF Paginas, Avisados
  <2> QED
    BY <1>3, <2>1, <2>2 DEF Paginas, Avisados
<1> QED
  BY <1>6, <1>7, <1>8 DEF Paginas

LEMMA Pa_finalizarProcesoMemoria ==
    ASSUME MutexInv, HilosInv, Ubicados, Paginas, NEW t \in Hilos, finalizarProcesoMemoria(t)
    PROVE  Paginas'
<1>1. TypeOK
  BY DEF MutexInv, TypeInv
<1>2. /\ Quietos({t}) /\ paso[t] = "FINZ_PROGM" /\ paso'[t] = "END_PRGM" /\ pid'[t] = pid[t]
      /\ enMemoria' = enMemoria \ {pid[t]}
      /\ UNCHANGED <<programas, colaNew, colaExit, avisos, ultimoPID>>
  BY <1>1, Ef_finalizarProcesoMemoria DEF Va
<1>3. EnNew'
  BY <1>2, ThreadFacts DEF Paginas, EnNew, Quietos
<1>4. ConPaginas'
  <2>1. \A q \in enMemoria : q \in PID
    BY <1>1 DEF TypeOK, TipoColas
  <2>2. \A q \in PID : paso'[Programa(q)] \in Antes => paso[Programa(q)] \in Antes
    BY <1>2, ThreadFacts DEF Quietos, Antes
  <2>3. \A u \in Hilos \ {t} : paso[u] = "FINZ_PROGM" => paso'[u] = "FINZ_PROGM" /\ pid'[u] = pid[u]
    BY <1>2 DEF Quietos
  <2>4. \A q \in enMemoria' : \/ q \notin colaExit' /\ paso'[Programa(q)] \notin Antes
                              \/ \E u \in Hilos : paso'[u] = "FINZ_PROGM" /\ pid'[u] = q
    BY <1>2, <2>1, <2>2, <2>3 DEF Paginas, ConPaginas
  <2>5. \A u \in Hilos : /\ paso'[u] = "exitSinMemoria" => pcb'[u] \notin enMemoria'
                         /\ paso'[u] = "END_PRGM" => pid'[u] \notin enMemoria'
    BY <1>2 DEF Paginas, ConPaginas, Quietos
  <2> QED
    BY <1>2, <2>4, <2>5 DEF Paginas, ConPaginas
<1>5. Avisados'
  <2>1. \A u \in Hilos : paso[u] \in {"FINZ_PROGM", "END_PRGM"} =>
            paso'[u] \in {"FINZ_PROGM", "END_PRGM"} /\ pid'[u] = pid[u]
    BY <1>2 DEF Quietos
  <2> QED
    BY <1>2, <2>1 DEF Paginas, Avisados
<1> QED
  BY <1>3, <1>4, <1>5 DEF Paginas

LEMMA Pa_finishProcess ==
    ASSUME MutexInv, HilosInv, Ubicados, Paginas, NEW t \in Hilos, finishProcess(t)
    PROVE  Paginas'
<1>1. TypeOK /\ Lleva(t) /\ Avisa(t)
  BY DEF MutexInv, TypeInv, CadaUnoLleva, HilosInv
<1>2. PICK p \in PID : p = pid[t] /\ p \in colaExit
  BY <1>1, Ef_finishProcess DEF Lleva, ConPID, Avisa
<1>3. /\ Quietos({t}) /\ paso[t] = "END_PRGM" /\ paso'[t] \in Regresos
      /\ UNCHANGED <<colaNew, colaExit, enMemoria, ultimoPID>>
      /\ \/ /\ p \in programas /\ programas' = programas \ {p}
            /\ avisos' = [avisos EXCEPT ![p] = avisos[p] + 1]
         \/ p \notin programas /\ UNCHANGED <<programas, avisos>>
  BY <1>1, <1>2, Ef_finishProcess DEF Va, Lleva
<1>4. p \notin enMemoria
  BY <1>2, <1>3 DEF Paginas, ConPaginas
<1>5. EnNew'
  BY <1>3, ThreadFacts DEF Paginas, EnNew, Quietos, Regresos
<1>6. ConPaginas'
  <2>1. \A q \in enMemoria : q \in PID
    BY <1>1 DEF TypeOK, TipoColas
  <2>2. \A q \in PID : paso'[Programa(q)] \in Antes => paso[Programa(q)] \in Antes
    BY <1>3, ThreadFacts DEF Quietos, Antes, Regresos
  <2>3. \A u \in Hilos : paso[u] = "FINZ_PROGM" => paso'[u] = "FINZ_PROGM" /\ pid'[u] = pid[u]
    BY <1>3 DEF Quietos
  <2>4. \A q \in enMemoria' : \/ q \notin colaExit' /\ paso'[Programa(q)] \notin Antes
                              \/ \E u \in Hilos : paso'[u] = "FINZ_PROGM" /\ pid'[u] = q
    BY <1>3, <2>1, <2>2, <2>3 DEF Paginas, ConPaginas
  <2>5. \A u \in Hilos : /\ paso'[u] = "exitSinMemoria" => pcb'[u] \notin enMemoria'
                         /\ paso'[u] = "END_PRGM" => pid'[u] \notin enMemoria'
    BY <1>3 DEF Paginas, ConPaginas, Quietos, Regresos
  <2> QED
    BY <1>3, <2>4, <2>5 DEF Paginas, ConPaginas
<1>7. Avisados'
  <2>1. \A u \in Hilos \ {t} : paso[u] \in {"FINZ_PROGM", "END_PRGM"} =>
           paso'[u] = paso[u] /\ pid'[u] = pid[u]
    BY <1>3 DEF Quietos
  <2>2. avisos \in [PID -> Nat]
    BY <1>1 DEF TypeOK, TipoColas
  <2>3. \A q \in PID : q \notin colaExit' => avisos'[q] = 0
    BY <1>2, <1>3, <2>2 DEF Paginas, Avisados
  <2>4. p \notin programas' /\ p \notin enMemoria' /\ avisos'[p] = 1
    BY <1>2, <1>3, <1>4, <2>2 DEF Paginas, Avisados
  <2>5. ASSUME NEW q \in colaExit', q # p
        PROVE  \/ q \notin programas' /\ q \notin enMemoria' /\ avisos'[q] = 1
               \/ /\ q \in programas' /\ avisos'[q] = 0
                  /\ \E u \in Hilos : pid'[u] = q /\ paso'[u] \in {"FINZ_PROGM", "END_PRGM"}
    <3>1. q \in colaExit /\ q \in PID /\ avisos'[q] = avisos[q]
          /\ (q \in programas' <=> q \in programas)
      BY <1>1, <1>3, <2>2, <2>5 DEF TypeOK, TipoColas
    <3>2. \A u \in Hilos : pid[u] = q => u # t
      BY <1>2, <2>5
    <3> QED
      BY <1>3, <2>1, <3>1, <3>2 DEF Paginas, Avisados
  <2> QED
    BY <2>3, <2>4, <2>5 DEF Avisados
<1> QED
  BY <1>5, <1>6, <1>7 DEF Paginas

LEMMA Pa_nuevoPrograma ==
    ASSUME MutexInv, HilosInv, Ubicados, Paginas, NEW c \in Consolas, nuevoPrograma(c)
    PROVE  Paginas'
<1>1. TypeOK
  BY DEF MutexInv, TypeInv
<1>2. PICK p \in PID : p = ultimoPID /\ Programa(p) \in Hilos
  BY <1>1, Ef_nuevoPrograma
<1>3. PICK t \in Hilos : t = Programa(p)
  BY <1>2
<1>4. /\ paso[t] = "nada" /\ ~(p < p)
  <2>1. p >= ultimoPID /\ ~(p < p)
    BY <1>2, ConstantesAssumption DEF PID
  <2> QED
    BY <1>3, <2>1 DEF MutexInv, SinEmpezar
<1>5. /\ Quietos({t}) /\ paso'[t] = "cargar_programa" /\ ultimoPID' = p + 1
      /\ UNCHANGED <<colaNew, colaExit, enMemoria, avisos, programas>>
  BY <1>1, <1>2, <1>3, Ef_nuevoPrograma DEF Va
<1>6. p \notin enMemoria
  BY <1>2, <1>4 DEF Paginas, ConPaginas
<1>7. \A q \in PID : q < p => q < p + 1
  BY ConstantesAssumption DEF PID
<1>8. \A q \in PID : t = Programa(q) => q = p
  BY <1>3 DEF Programa
<1>9. EnNew'
  BY <1>5, ThreadFacts DEF Paginas, EnNew, Quietos
<1>10. ConPaginas'
  <2>1. \A q \in enMemoria : q \in PID /\ q # p
    BY <1>1, <1>6 DEF TypeOK, TipoColas
  <2>2. \A q \in PID \ {p} : paso'[Programa(q)] \in Antes => paso[Programa(q)] \in Antes
    BY <1>5, <1>8, ThreadFacts DEF Quietos
  <2>3. \A u \in Hilos : paso[u] = "FINZ_PROGM" => paso'[u] = "FINZ_PROGM" /\ pid'[u] = pid[u]
    BY <1>4, <1>5 DEF Quietos
  <2>4. \A q \in enMemoria' : \/ q \notin colaExit' /\ paso'[Programa(q)] \notin Antes
                              \/ \E u \in Hilos : paso'[u] = "FINZ_PROGM" /\ pid'[u] = q
    BY <1>5, <2>1, <2>2, <2>3 DEF Paginas, ConPaginas
  <2>5. \A u \in Hilos : /\ paso'[u] = "exitSinMemoria" => pcb'[u] \notin enMemoria'
                         /\ paso'[u] = "END_PRGM" => pid'[u] \notin enMemoria'
    BY <1>5 DEF Paginas, ConPaginas, Quietos
  <2>6. \A q \in enMemoria' : q \notin colaNew' /\ q < ultimoPID'
    BY <1>2, <1>5, <1>7, <2>1 DEF Paginas, ConPaginas
  <2> QED
    BY <2>4, <2>5, <2>6 DEF ConPaginas
<1>11. Avisados'
  <2>1. \A u \in Hilos : paso[u] \in {"FINZ_PROGM", "END_PRGM"} =>
           paso'[u] = paso[u] /\ pid'[u] = pid[u]
    BY <1>4, <1>5 DEF Quietos
  <2> QED
    BY <1>5, <2>1 DEF Paginas, Avisados
<1> QED
  BY <1>9, <1>10, <1>11 DEF Paginas

(* The other steps leave the pages and the notices alone. *)
LEMMA Pa_resto ==
    ASSUME MutexInv, HilosInv, Paginas, NEW t \in Hilos,
           \/ sem_wait(t) \/ moverA_colaReady(t) \/ enviar_a_cpu(t) \/ sacarCualquieraDeReady(t)
           \/ relacionar(t) \/ correr_pcb(t)
    PROVE  Paginas'
<1>1. TypeOK /\ Lleva(t)
  BY DEF MutexInv, TypeInv, CadaUnoLleva
<1>2. Quietos({t}) /\ UNCHANGED <<colaNew, colaExit, enMemoria, avisos, programas, ultimoPID>>
  BY <1>1, Ef_sem_wait, Ef_moverA_colaReady, Ef_enviar_a_cpu, Ef_sacarCualquieraDeReady,
     Ef_relacionar, Ef_correr_pcb
<1>3. \/ paso[t] = "sem_wait" /\ paso'[t] = "inicializar_programa"
      \/ /\ paso[t] \notin {"FINZ_PROGM", "END_PRGM"}
         /\ paso'[t] \in Regresos \cup {"exit", "select", "RES_SIGNAL", "sacarCualquieraDeReady",
                                        "relacionar",
                                        "CORRER_PCB"}
  <2>1. CASE sem_wait(t)
    BY <1>1, <2>1, Ef_sem_wait DEF Va
  <2>2. CASE moverA_colaReady(t)
    BY <1>1, <2>2, Ef_moverA_colaReady DEF Va, Lleva
  <2>3. CASE enviar_a_cpu(t) \/ sacarCualquieraDeReady(t) \/ relacionar(t) \/ correr_pcb(t)
    <3>1. Final(t) \in Regresos \cup {"select", "RES_SIGNAL"}
      BY FinalDe DEF Regresos
    <3> QED
      BY <1>1, <2>3, <3>1, Ef_enviar_a_cpu, Ef_sacarCualquieraDeReady, Ef_relacionar, Ef_correr_pcb
         DEF Va
  <2> QED
    BY <2>1, <2>2, <2>3
<1>4. /\ paso'[t] \notin Antes /\ (paso'[t] = "inicializar_programa" => paso[t] = "sem_wait")
      /\ paso[t] \notin {"FINZ_PROGM", "END_PRGM"} /\ paso'[t] \notin {"exitSinMemoria", "END_PRGM"}
  BY <1>3 DEF Antes, Regresos
<1> QED
  BY <1>2, <1>4, PaginasFrame

LEMMA Pa_PasoFinalizador ==
    ASSUME MutexInv, HilosInv, Paginas, NEW t \in Finalizadores, PasoFinalizador(t)
    PROVE  Paginas'
<1>1. TypeOK /\ t \in Hilos
  BY ThreadFacts DEF MutexInv, TypeInv
<1>2. Quietos({t}) /\ UNCHANGED <<colaNew, colaExit, enMemoria, avisos, programas, ultimoPID>>
  BY <1>1, Ef_finalizarProceso, Ef_sacarDe_colaReady DEF PasoFinalizador
<1>3. paso[t] \in {"finalizarProceso", "sacarDe_colaReady"}
      /\ paso'[t] \in {"nada", "exit", "sacarDe_colaReady"}
  BY <1>1, Ef_finalizarProceso, Ef_sacarDe_colaReady DEF PasoFinalizador, Va
<1> QED
  BY <1>1, <1>2, <1>3, PaginasFrame DEF Antes

LEMMA Pa_SrvCPU ==
    ASSUME MutexInv, HilosInv, Paginas, NEW c \in Cpus, ManejaPCB(c) \/ ManejaOtro(c)
    PROVE  Paginas'
<1>1. TypeOK /\ SrvCPU \in Hilos /\ (Quietos({}) => Quietos({SrvCPU}))
  BY ThreadFacts DEF MutexInv, TypeInv, Quietos
<1>2. Quietos({SrvCPU}) /\ UNCHANGED <<colaNew, colaExit, enMemoria, avisos, programas, ultimoPID>>
  BY <1>1, Ef_nuevaConexionCPU, Ef_finishCPU, Ef_wait_ok, Ef_retornarPCB, Ef_wait_bloquea, Ef_signal
     DEF ManejaPCB, ManejaOtro
<1>3. /\ paso[SrvCPU] = "select"
      /\ paso'[SrvCPU] \in {"select", "enviar_a_cpu", "desconectarCPU", "processIsForFinish",
                            "exit", "encolar",
                            "RES_SIGNAL", "moverA_colaReadySinFinalizar"}
  BY <1>1, Ef_nuevaConexionCPU, Ef_finishCPU, Ef_wait_ok, Ef_retornarPCB, Ef_wait_bloquea, Ef_signal
     DEF ManejaPCB, ManejaOtro, Va
<1> QED
  BY <1>1, <1>2, <1>3, PaginasFrame DEF Antes

LEMMA Pa_SigueSrvCPU ==
    ASSUME MutexInv, HilosInv, Paginas, SigueSrvCPU
    PROVE  Paginas'
<1>1. TypeOK /\ SrvCPU \in Hilos
  BY ThreadFacts DEF MutexInv, TypeInv
<1>2. Quietos({SrvCPU}) /\ UNCHANGED <<colaNew, colaExit, enMemoria, avisos, programas, ultimoPID>>
  BY <1>1, Ef_retornarPCB_desconectar, Ef_retornarPCB_decidir, Ef_program_change_running,
     Ef_wait_encolar, Ef_wait_responder, Ef_signal_responder
     DEF SigueSrvCPU
<1>3. /\ paso[SrvCPU] \in {"desconectarCPU", "processIsForFinish", "program_change_running",
                           "program_change_running_wait", "encolar", "RES_WAIT", "RES_SIGNAL"}
      /\ paso'[SrvCPU] \in {"processIsForFinish", "exit", "moverA_colaReady", "enviar_a_cpu",
                            "RES_WAIT",
                            "program_change_running_wait", "select"}
  BY <1>1, Ef_retornarPCB_desconectar, Ef_retornarPCB_decidir, Ef_program_change_running,
     Ef_wait_encolar, Ef_wait_responder, Ef_signal_responder
     DEF SigueSrvCPU, Va
<1> QED
  BY <1>1, <1>2, <1>3, PaginasFrame DEF Antes

LEMMA Pa_igual ==
    ASSUME Paginas, UNCHANGED <<colaNew, colaExit, enMemoria, avisos, programas, ultimoPID, pcb, pid>>,
           \A u \in Hilos : \/ paso'[u] = paso[u]
                            \/ u \in Finalizadores /\ paso[u] = "nada" /\ paso'[u] = "finalizarProceso",
           \A p \in PID : paso'[Programa(p)] = paso[Programa(p)], enMemoria \subseteq PID
    PROVE  Paginas'
<1>1. EnNew'
  BY DEF Paginas, EnNew
<1>2. \A u \in Hilos : /\ paso'[u] \in {"exitSinMemoria", "END_PRGM", "FINZ_PROGM"} =>
                             paso'[u] = paso[u]
                       /\ paso[u] \in {"exitSinMemoria", "END_PRGM", "FINZ_PROGM"} => paso'[u] = paso[u]
  OBVIOUS
<1>3. ConPaginas'
  BY <1>2 DEF Paginas, ConPaginas
<1>4. Avisados'
  BY <1>2 DEF Paginas, Avisados
<1> QED
  BY <1>1, <1>3, <1>4 DEF Paginas

LEMMA Paginas_Next == MutexInv /\ HilosInv /\ Ubicados /\ Paginas /\ [Next]_vars => Paginas'
<1> SUFFICES ASSUME MutexInv, HilosInv, Ubicados, Paginas, [Next]_vars PROVE Paginas'
  OBVIOUS
<1>1. enMemoria \subseteq PID
  BY DEF MutexInv, TypeInv, TypeOK, TipoColas
<1>2. ASSUME UNCHANGED kernel \/ UNCHANGED vars PROVE Paginas'
  BY <1>1, <1>2, Pa_igual DEF vars
<1>3. ASSUME \/ \E c \in Consolas : desconexionConsola(c)
             \/ \E p \in PID : finalizarProgramaConsola(p)
      PROVE  Paginas'
  <2>1. \A p \in PID : paso'[Programa(p)] = paso[Programa(p)]
    BY <1>3, Ef_pedirFin, ThreadFacts, HilosDistintos
  <2> QED
    BY <1>1, <1>3, <2>1, Ef_pedirFin, Pa_igual
<1>4. ASSUME NEW t \in Hilos, PasoHilo(t) PROVE Paginas'
  BY <1>4, Pa_cargar_programa, Pa_moverA_colaNew, Pa_inicializar_programa, Pa_moverA_colaExit,
     Pa_finalizarProcesoMemoria, Pa_finishProcess, Pa_resto
     DEF PasoHilo
<1> QED
  BY <1>2, <1>3, <1>4, Pa_PasoFinalizador, Pa_SigueSrvCPU, Pa_SrvCPU, Pa_nuevoPrograma, KernelIgual
     DEF Next, Nucleo, end

LEMMA Paginas_Init == Init => Paginas
<1> SUFFICES ASSUME Init PROVE Paginas
  OBVIOUS
<1>1. \A t \in Hilos : paso[t] \in {"nada", "select"}
  BY DEF Init
<1> QED
  BY <1>1, ThreadFacts DEF Init, Paginas, EnNew, ConPaginas, Avisados

-----------------------------------------------------------------------------
(* The degree: the places left and the places taken add up to the same.    *)
Plazas == grado + Cardinality(Admitidos)

LEMMA Numeros == \A u \in 0 .. MaxProgramas : \A p : p \in 0 .. u - 1 <=> p \in PID /\ p < u
BY ConstantesAssumption DEF PID

LEMMA AdmitidosFinitos ==
    ASSUME TypeOK
    PROVE  IsFiniteSet(Admitidos) /\ Cardinality(Admitidos) \in Nat
<1>1. IsFiniteSet(0 .. ultimoPID - 1)
  <2>1. ultimoPID - 1 \in Int
    BY ConstantesAssumption DEF TypeOK, TipoColas
  <2> QED
    BY <2>1, FS_Interval
<1>2. Admitidos \subseteq 0 .. ultimoPID - 1
  BY DEF Admitidos
<1> QED
  BY <1>1, <1>2, FS_Subset, FS_CardinalityType

(* What a step that takes no place leaves. *)
LEMMA PlazasIgual ==
    ASSUME TypeOK, UNCHANGED <<ultimoPID, colaExit, grado>>,
           \A p \in PID : paso'[Programa(p)] \in Antes <=> paso[Programa(p)] \in Antes
    PROVE  Plazas' = Plazas
<1>1. \A p \in 0 .. ultimoPID - 1 : p \in PID
  BY Numeros DEF TypeOK, TipoColas
<1>2. Admitidos' = Admitidos
  BY <1>1 DEF Admitidos, Antes
<1> QED
  BY <1>2 DEF Plazas

LEMMA PlazasHilo ==
    ASSUME TypeOK, NEW t \in Hilos, Quietos({t}), UNCHANGED <<ultimoPID, colaExit, grado>>,
           paso'[t] \in Antes <=> paso[t] \in Antes
    PROVE  Plazas' = Plazas
<1>1. \A p \in PID : paso'[Programa(p)] \in Antes <=> paso[Programa(p)] \in Antes
  BY ThreadFacts DEF Quietos
<1> QED
  BY <1>1, PlazasIgual

LEMMA Pl_sem_wait ==
    ASSUME MutexInv, HilosInv, Ubicados, Paginas, NEW t \in Hilos, sem_wait(t)
    PROVE  Plazas' = Plazas
<1>1. TypeOK
  BY DEF MutexInv, TypeInv
<1>2. PICK p \in PID : /\ p = pid[t] /\ t = Programa(p) /\ p < ultimoPID
                       /\ \A q \in PID : t = Programa(q) => q = p
  BY <1>1, SuHilo, Ef_sem_wait DEF PasosNuevo
<1>3. /\ Quietos({t}) /\ paso[t] = "sem_wait" /\ paso'[t] = "inicializar_programa" /\ grado' = grado - 1
      /\ UNCHANGED <<ultimoPID, colaExit>>
  BY <1>1, Ef_sem_wait DEF Va
<1>4. p \notin colaExit
  BY <1>2, <1>3, Aparte DEF Paginas, EnNew
<1>5. \A q \in 0 .. ultimoPID - 1 : q \in PID
  BY <1>1, Numeros DEF TypeOK, TipoColas
<1>6. p \in 0 .. ultimoPID - 1
  BY <1>1, <1>2, Numeros DEF TypeOK, TipoColas
<1>7. \A q \in PID : q # p => paso'[Programa(q)] = paso[Programa(q)]
  BY <1>2, <1>3, ThreadFacts DEF Quietos
<1>8. Admitidos' = Admitidos \cup {p} /\ p \notin Admitidos
  BY <1>2, <1>3, <1>4, <1>5, <1>6, <1>7 DEF Admitidos
<1>9. Cardinality(Admitidos') = Cardinality(Admitidos) + 1
  BY <1>1, <1>8, AdmitidosFinitos, FS_AddElement
<1> QED
  BY <1>1, <1>3, <1>9, AdmitidosFinitos DEF Plazas, TypeOK, TipoHilos

LEMMA Pl_moverA_colaExit ==
    ASSUME MutexInv, HilosInv, Ubicados, Paginas, NEW t \in Hilos, moverA_colaExit(t)
    PROVE  Plazas' = Plazas
<1>1. TypeOK /\ Lleva(t)
  BY DEF MutexInv, TypeInv, CadaUnoLleva
<1>2. PICK p \in PID : p = pcb[t]
  BY <1>1, Ef_moverA_colaExit DEF Lleva, ConPCB
<1>3. /\ Quietos({t}) /\ colaExit' = colaExit \cup {p} /\ grado' = grado + 1 /\ ultimoPID' = ultimoPID
      /\ paso[t] \in {"exit", "exitSinMemoria"} /\ paso'[t] \in {"FINZ_PROGM", "END_PRGM"}
  BY <1>1, <1>2, Ef_moverA_colaExit DEF Va
<1>4. p \notin colaExit /\ p < ultimoPID
  BY <1>2, <1>3, SigueListado
<1>5. paso[Programa(p)] \notin Antes
  <2>1. p \notin colaNew
    BY <1>2, Aparte
  <2>2. ASSUME paso[Programa(p)] \in {"cargar_programa", "moverA_colaNew"} PROVE FALSE
    <3>1. Programa(p) \in Hilos /\ pcb[Programa(p)] = p
      BY <2>2, ThreadFacts DEF HilosInv, Nuevo, PasosNuevo, Programa
    <3>2. Esta(Programa(p), p) /\ Esta(t, p) /\ Programa(p) \in Sitios /\ t \in Sitios
      BY <1>2, <3>1 DEF Esta, Sitios
    <3> QED
      BY <1>3, <2>2, <3>2 DEF Ubicados, EnUno
  <2> QED
    BY <2>1, <2>2 DEF Antes, Paginas, EnNew
<1>6. \A q \in 0 .. ultimoPID - 1 : q \in PID
  BY <1>1, Numeros DEF TypeOK, TipoColas
<1>7. p \in 0 .. ultimoPID - 1
  BY <1>1, <1>4, Numeros DEF TypeOK, TipoColas
<1>8. \A q \in PID : paso'[Programa(q)] \in Antes <=> paso[Programa(q)] \in Antes
  BY <1>3, ThreadFacts DEF Quietos, Antes
<1>9. Admitidos' = Admitidos \ {p} /\ p \in Admitidos
  BY <1>3, <1>4, <1>5, <1>6, <1>7, <1>8 DEF Admitidos, Antes
<1>10. Cardinality(Admitidos') = Cardinality(Admitidos) - 1
  BY <1>1, <1>9, AdmitidosFinitos, FS_RemoveElement
<1> QED
  BY <1>1, <1>3, <1>10, AdmitidosFinitos DEF Plazas, TypeOK, TipoHilos

LEMMA Pl_nuevoPrograma ==
    ASSUME MutexInv, Ubicados, NEW c \in Consolas, nuevoPrograma(c)
    PROVE  Plazas' = Plazas
<1>1. TypeOK
  BY DEF MutexInv, TypeInv
<1>2. PICK p \in PID : p = ultimoPID
  BY <1>1, Ef_nuevoPrograma
<1>3. /\ Quietos({Programa(p)}) /\ paso'[Programa(p)] = "cargar_programa" /\ ultimoPID' = p + 1
      /\ UNCHANGED <<colaExit, grado>>
  BY <1>1, <1>2, Ef_nuevoPrograma DEF Va
<1>4. \A q \in 0 .. p - 1 : q \in PID /\ q # p
  BY ConstantesAssumption DEF PID
<1>5. \A q \in PID : Programa(q) = Programa(p) => q = p
  BY DEF Programa
<1>6. \A q \in PID : q # p => paso'[Programa(q)] = paso[Programa(q)]
  BY <1>3, <1>5, ThreadFacts DEF Quietos
<1>7. \A q : q \in 0 .. (p + 1) - 1 <=> q \in 0 .. p - 1 \/ q = p
  BY ConstantesAssumption DEF PID
<1>8. Admitidos' = Admitidos
  BY <1>2, <1>3, <1>4, <1>6, <1>7 DEF Admitidos
<1> QED
  BY <1>3, <1>8 DEF Plazas

(* The other steps take no place and give none back. *)
LEMMA Pl_resto ==
    ASSUME MutexInv, HilosInv, NEW t \in Hilos,
           \/ cargar_programa(t) \/ moverA_colaNew(t) \/ inicializar_programa(t) \/ moverA_colaReady(t)
           \/ finalizarProcesoMemoria(t) \/ finishProcess(t) \/ enviar_a_cpu(t)
           \/ sacarCualquieraDeReady(t) \/ relacionar(t) \/ correr_pcb(t)
    PROVE  Plazas' = Plazas
<1>1. TypeOK /\ Lleva(t)
  BY DEF MutexInv, TypeInv, CadaUnoLleva
<1>2. Quietos({t}) /\ UNCHANGED <<ultimoPID, colaExit, grado>>
  BY <1>1, Ef_cargar_programa, Ef_moverA_colaNew, Ef_inicializar_programa, Ef_moverA_colaReady,
     Ef_finalizarProcesoMemoria, Ef_finishProcess, Ef_enviar_a_cpu, Ef_sacarCualquieraDeReady,
     Ef_relacionar, Ef_correr_pcb
<1>3. vuelve[t] \notin Antes /\ Final(t) \notin Antes
  BY <1>1, FinalDe DEF Lleva, Regresos, Antes
<1>4. CASE cargar_programa(t) \/ moverA_colaNew(t) \/ inicializar_programa(t)
  <2>1. paso'[t] \in Antes <=> paso[t] \in Antes
    BY <1>1, <1>4, Ef_cargar_programa, Ef_moverA_colaNew, Ef_inicializar_programa DEF Va, Antes
  <2> QED
    BY <1>1, <1>2, <2>1, PlazasHilo
<1>5. CASE moverA_colaReady(t) \/ finalizarProcesoMemoria(t) \/ finishProcess(t)
  <2>1. paso'[t] \notin Antes /\ paso[t] \notin Antes
    BY <1>1, <1>3, <1>5, Ef_moverA_colaReady, Ef_finalizarProcesoMemoria, Ef_finishProcess
       DEF Va, Antes
  <2> QED
    BY <1>1, <1>2, <2>1, PlazasHilo
<1>6. CASE enviar_a_cpu(t) \/ sacarCualquieraDeReady(t) \/ relacionar(t) \/ correr_pcb(t)
  <2>1. paso'[t] \notin Antes /\ paso[t] \notin Antes
    BY <1>1, <1>3, <1>6, Ef_enviar_a_cpu, Ef_sacarCualquieraDeReady, Ef_relacionar, Ef_correr_pcb
       DEF Va, Antes
  <2> QED
    BY <1>1, <1>2, <2>1, PlazasHilo
<1> QED
  BY <1>4, <1>5, <1>6

LEMMA Plazas_Next == MutexInv /\ HilosInv /\ Ubicados /\ Paginas /\ [Next]_vars => Plazas' = Plazas
<1> SUFFICES ASSUME MutexInv, HilosInv, Ubicados, Paginas, [Next]_vars PROVE Plazas' = Plazas
  OBVIOUS
<1>1. TypeOK
  BY DEF MutexInv, TypeInv
<1>2. ASSUME UNCHANGED kernel \/ UNCHANGED vars PROVE Plazas' = Plazas
  <2>1. UNCHANGED <<ultimoPID, colaExit, grado, paso>>
    BY <1>2 DEF vars
  <2> QED
    BY <1>1, <2>1, PlazasIgual
<1>3. ASSUME \/ \E c \in Consolas : desconexionConsola(c)
             \/ \E p \in PID : finalizarProgramaConsola(p)
      PROVE  Plazas' = Plazas
  <2>1. \A p \in PID : paso'[Programa(p)] = paso[Programa(p)]
    BY <1>3, Ef_pedirFin, ThreadFacts, HilosDistintos
  <2> QED
    BY <1>1, <1>3, <2>1, Ef_pedirFin, PlazasIgual
<1>4. ASSUME NEW t \in Hilos, PasoHilo(t) PROVE Plazas' = Plazas
  BY <1>4, Pl_sem_wait, Pl_moverA_colaExit, Pl_resto DEF PasoHilo
<1>5. ASSUME UNCHANGED <<ultimoPID, colaExit, grado>>, NEW t \in Hilos, Quietos({t}),
             \A p \in PID : t # Programa(p)
      PROVE  Plazas' = Plazas
  <2>1. \A p \in PID : paso'[Programa(p)] = paso[Programa(p)]
    BY <1>5, ThreadFacts DEF Quietos
  <2> QED
    BY <1>1, <1>5, <2>1, PlazasIgual
<1>6. ASSUME NEW t \in Finalizadores, PasoFinalizador(t) PROVE Plazas' = Plazas
  <2>1. Quietos({t}) /\ UNCHANGED <<ultimoPID, colaExit, grado>> /\ t \in Hilos
    BY <1>1, <1>6, Ef_finalizarProceso, Ef_sacarDe_colaReady DEF PasoFinalizador
  <2> QED
    BY <1>5, <2>1, HilosDistintos
<1>7. ASSUME SigueSrvCPU \/ \E c \in Cpus : ManejaPCB(c) \/ ManejaOtro(c) PROVE Plazas' = Plazas
  <2>1. Quietos({}) => Quietos({SrvCPU})
    BY DEF Quietos
  <2>2. SigueSrvCPU => Quietos({SrvCPU}) /\ UNCHANGED <<ultimoPID, colaExit, grado>>
    BY <1>1, Ef_retornarPCB_desconectar, Ef_retornarPCB_decidir, Ef_program_change_running,
       Ef_wait_encolar, Ef_wait_responder, Ef_signal_responder
       DEF SigueSrvCPU
  <2>3. \A c \in Cpus : ManejaPCB(c) \/ ManejaOtro(c) =>
            Quietos({SrvCPU}) /\ UNCHANGED <<ultimoPID, colaExit, grado>>
    BY <1>1, <2>1, Ef_nuevaConexionCPU, Ef_finishCPU, Ef_wait_ok, Ef_retornarPCB, Ef_wait_bloquea,
       Ef_signal
       DEF ManejaPCB, ManejaOtro
  <2>4. Quietos({SrvCPU}) /\ UNCHANGED <<ultimoPID, colaExit, grado>>
    BY <1>7, <2>2, <2>3
  <2> QED
    BY <1>5, <2>4, ThreadFacts, HilosDistintos
<1> QED
  BY <1>2, <1>3, <1>4, <1>6, <1>7, Pl_nuevoPrograma, KernelIgual DEF Next, Nucleo, end

LEMMA Plazas_Init == Init => Plazas = GradoMultiprog
<1> SUFFICES ASSUME Init PROVE Plazas = GradoMultiprog
  OBVIOUS
<1>1. Admitidos = {}
  BY DEF Init, Admitidos
<1> QED
  BY <1>1, FS_EmptySet, ConstantesAssumption DEF Init, Plazas

-----------------------------------------------------------------------------
(* The invariant of the scheduler.  What the queues, the CPUs and Memoria  *)
(* share is kept until a CORRER_PCB overtakes a RES_WAIT, which no step    *)
(* undoes.                                                                 *)
Reparto == Canales /\ Tenencia /\ Ubicados /\ Fines /\ Paginas
PlanInv == MutexInv /\ HilosInv /\ (~desfase => Reparto)

LEMMA DesfaseQueda == MutexInv /\ [Next]_vars => (desfase => desfase')
<1> SUFFICES ASSUME MutexInv, [Next]_vars, desfase PROVE desfase'
  OBVIOUS
<1>1. CASE UNCHANGED desfase
  BY <1>1
<1>2. ASSUME NEW t \in Hilos, correr_pcb(t) PROVE desfase'
  BY <1>2 DEF correr_pcb
<1>3. TypeOK
  BY DEF MutexInv, TypeInv
<1>4. ASSUME NEW t \in Hilos, PasoHilo(t) PROVE desfase'
  BY <1>1, <1>2, <1>3, <1>4, Ef_cargar_programa, Ef_moverA_colaNew, Ef_sem_wait,
     Ef_inicializar_programa, Ef_moverA_colaReady, Ef_moverA_colaExit, Ef_finalizarProcesoMemoria,
     Ef_finishProcess, Ef_enviar_a_cpu, Ef_sacarCualquieraDeReady, Ef_relacionar
     DEF PasoHilo
<1>5. ASSUME NEW t \in Finalizadores, PasoFinalizador(t) PROVE desfase'
  BY <1>1, <1>3, <1>5, Ef_finalizarProceso, Ef_sacarDe_colaReady DEF PasoFinalizador
<1>6. ASSUME SigueSrvCPU PROVE desfase'
  BY <1>1, <1>3, <1>6, Ef_retornarPCB_desconectar, Ef_retornarPCB_decidir,
     Ef_program_change_running, Ef_wait_encolar, Ef_wait_responder, Ef_signal_responder
     DEF SigueSrvCPU
<1>7. ASSUME NEW c \in Cpus, ManejaPCB(c) \/ ManejaOtro(c) PROVE desfase'
  BY <1>1, <1>3, <1>7, Ef_nuevaConexionCPU, Ef_finishCPU, Ef_wait_ok, Ef_retornarPCB,
     Ef_wait_bloquea, Ef_signal
     DEF ManejaPCB, ManejaOtro
<1>8. ASSUME NEW c \in Cpus, \/ PasoProcesoCPU(c) \/ conectarCPU(c) \/ signalHandler(c)
                             \/ waitAnsisop(c) \/ signalAnsisop(c)
      PROVE  desfase'
  BY <1>8
     DEF PasoProcesoCPU, correrPCB, finishCPU_cpu, recibirRespuesta, ejecutarPrograma, conectarCPU,
         signalHandler, waitAnsisop, signalAnsisop
<1>9. ASSUME UNCHANGED vars PROVE desfase'
  BY <1>9 DEF vars
<1> QED
  BY <1>1, <1>3, <1>4, <1>5, <1>6, <1>7, <1>8, <1>9, Ef_pedirFin, Ef_nuevoPrograma
     DEF Next, Nucleo, end

LEMMA PlanInv_Init == Init => PlanInv
BY MutexInv_Init, HilosInv_Init, CanalesTenencia_Init, Ubicados_Init, Fines_Init, Paginas_Init
   DEF PlanInv, Reparto

LEMMA PlanInv_Next == PlanInv /\ [Next]_vars => PlanInv'
<1> SUFFICES ASSUME PlanInv, [Next]_vars PROVE PlanInv'
  OBVIOUS
<1>1. MutexInv /\ HilosInv /\ MutexInv' /\ HilosInv'
  BY MutexInv_Next, HilosInv_Next DEF PlanInv
<1>2. ASSUME ~desfase' PROVE Reparto'
  <2>1. Reparto
    BY <1>1, <1>2, DesfaseQueda DEF PlanInv
  <2>2. Canales' /\ Tenencia'
    BY <1>1, <1>2, <2>1, EnManoFuera, CanalesTenencia_Next DEF Reparto
  <2> QED
    BY <1>1, <2>1, <2>2, Ubicados_Next, Fines_Next, Paginas_Next DEF Reparto
<1> QED
  BY <1>1, <1>2 DEF PlanInv

LEMMA PlanInv_Siempre == Spec => []PlanInv
BY PlanInv_Init, PlanInv_Next, PTL DEF Spec

PlazasInv == ~desfase => Plazas = GradoMultiprog

LEMMA PlazasInv_Siempre == Spec => []PlazasInv
<1>1. Init => PlazasInv
  BY Plazas_Init DEF PlazasInv
<1>2. PlanInv /\ PlazasInv /\ [Next]_vars => PlazasInv'
  BY DesfaseQueda, Plazas_Next DEF PlanInv, Reparto, PlazasInv
<1> QED
  BY <1>1, <1>2, PlanInv_Siempre, PTL DEF Spec

-----------------------------------------------------------------------------
(* What the invariant says of the queues, of the CPUs and of Memoria.      *)

(* The number of the place of a PCB in Lugares. *)
Lugar(z) ==
    IF z = New THEN 1 ELSE IF z = Ready THEN 2 ELSE IF z = Exec THEN 3
    ELSE IF z = Blocked THEN 4 ELSE IF z = Exit THEN 5 ELSE 6

LEMMA EnLugar ==
    \A p \in PID, i \in 1 .. 6 : p \in Lugares[i] <=> \E z \in Sitios : Lugar(z) = i /\ Esta(z, p)
<1>1. /\ Lugares[1] = colaNew /\ Lugares[2] = EnReady /\ Lugares[3] = colaExec
      /\ Lugares[4] = colaBlocked /\ Lugares[5] = colaExit /\ Lugares[6] = EnMano
  BY DEF Lugares
<1>2. \A p \in PID : p \in EnMano <=> \E t \in Hilos : pcb[t] = p
  BY ThreadFacts DEF EnMano
<1>3. /\ Lugar(New) = 1 /\ Lugar(Ready) = 2 /\ Lugar(Exec) = 3 /\ Lugar(Blocked) = 4 /\ Lugar(Exit) = 5
      /\ \A t \in Hilos : Lugar(t) = 6
  BY SitiosDistintos DEF Lugar
<1> SUFFICES ASSUME NEW p \in PID, NEW i \in 1 .. 6
             PROVE  p \in Lugares[i] <=> \E z \in Sitios : Lugar(z) = i /\ Esta(z, p)
  OBVIOUS
<1>4. p \in Lugares[i] <=> \/ (i = 1 /\ p \in colaNew) \/ (i = 2 /\ p \in EnReady)
                           \/ (i = 3 /\ p \in colaExec) \/ (i = 4 /\ p \in colaBlocked)
                           \/ (i = 5 /\ p \in colaExit) \/ (i = 6 /\ p \in EnMano)
  <2>1. i = 1 \/ i = 2 \/ i = 3 \/ i = 4 \/ i = 5 \/ i = 6
    OBVIOUS
  <2> QED
    BY <1>1, <2>1
<1>5. \A z \in Sitios : z \in {New, Ready, Exec, Blocked, Exit} \/ z \in Hilos
  BY DEF Sitios
<1>6. ASSUME p \in Lugares[i] PROVE \E z \in Sitios : Lugar(z) = i /\ Esta(z, p)
  <2>1. CASE i = 6
    <3>1. PICK t \in Hilos : pcb[t] = p
      BY <1>2, <1>4, <1>6, <2>1
    <3> QED
      BY <1>3, <2>1, <3>1 DEF Esta, Sitios
  <2>2. CASE i # 6
    BY <1>3, <1>4, <1>6, <2>2 DEF Esta, Sitios
  <2> QED
    BY <2>1, <2>2
<1>7. ASSUME NEW z \in Sitios, Lugar(z) = i, Esta(z, p) PROVE p \in Lugares[i]
  <2>1. CASE z \in Hilos
    BY <1>2, <1>3, <1>4, <1>7, <2>1, SitiosDistintos DEF Esta
  <2>2. CASE z \in {New, Ready, Exec, Blocked, Exit}
    <3>1. \/ (z = New /\ i = 1) \/ (z = Ready /\ i = 2) \/ (z = Exec /\ i = 3)
          \/ (z = Blocked /\ i = 4) \/ (z = Exit /\ i = 5)
      BY <1>3, <1>7, <2>2
    <3>2. \/ (z = New /\ p \in colaNew) \/ (z = Ready /\ p \in EnReady) \/ (z = Exec /\ p \in colaExec)
          \/ (z = Blocked /\ p \in colaBlocked) \/ (z = Exit /\ p \in colaExit)
      BY <1>7, <2>2, SitiosDistintos DEF Esta
    <3> QED
      BY <1>1, <3>1, <3>2, SitiosDistintos
  <2> QED
    BY <1>5, <2>1, <2>2
<1> QED
  BY <1>6, <1>7

LEMMA LugaresPID == ASSUME TypeOK PROVE \A i \in 1 .. 6 : Lugares[i] \subseteq PID
<1>1. EnReady \subseteq PID
  <2>1. \A i \in DOMAIN colaReady : colaReady[i] \in PID
    BY DEF TypeOK, TipoColas
  <2> QED
    BY <2>1 DEF EnReady
<1>2. EnMano \subseteq PID
  BY DEF EnMano, TypeOK, TipoHilos
<1> QED
  BY <1>1, <1>2 DEF Lugares, TypeOK, TipoColas

LEMMA DeUnSoloLugar == ASSUME MutexInv, Ubicados PROVE UnSoloLugar
<1>1. TypeOK
  BY DEF MutexInv, TypeInv
<1>2. UNION {Lugares[i] : i \in 1 .. 6} = 0 .. ultimoPID - 1
  <2>1. \A p : p \in 0 .. ultimoPID - 1 <=> p \in PID /\ p < ultimoPID
    BY <1>1, Numeros DEF TypeOK, TipoColas
  <2>2. \A z \in Sitios : Lugar(z) \in 1 .. 6
    BY DEF Lugar
  <2>3. ASSUME NEW i \in 1 .. 6, NEW p \in Lugares[i] PROVE p \in PID /\ p < ultimoPID
    BY <1>1, LugaresPID, EnLugar DEF Ubicados, Creados
  <2>4. ASSUME NEW p \in PID, p < ultimoPID PROVE \E i \in 1 .. 6 : p \in Lugares[i]
    BY <2>2, <2>4, EnLugar DEF Ubicados, Creados
  <2> QED
    BY <2>1, <2>3, <2>4
<1>3. \A i, j \in 1 .. 6 : i # j => Lugares[i] \cap Lugares[j] = {}
  <2> SUFFICES ASSUME NEW i \in 1 .. 6, NEW j \in 1 .. 6, i # j, NEW p, p \in Lugares[i],
               p \in Lugares[j]
               PROVE  FALSE
    OBVIOUS
  <2>1. p \in PID
    BY <1>1, LugaresPID
  <2>2. PICK y \in Sitios : Lugar(y) = i /\ Esta(y, p)
    BY <2>1, EnLugar
  <2>3. PICK z \in Sitios : Lugar(z) = j /\ Esta(z, p)
    BY <2>1, EnLugar
  <2> QED
    BY <2>1, <2>2, <2>3 DEF Ubicados, EnUno
<1>4. \A t, u \in Hilos : t # u /\ pcb[t] # SinPid => pcb[t] # pcb[u]
  <2> SUFFICES ASSUME NEW t \in Hilos, NEW u \in Hilos, t # u, pcb[t] # SinPid, pcb[t] = pcb[u]
           PROVE FALSE
    OBVIOUS
  <2>1. pcb[t] \in PID
    BY <1>1 DEF TypeOK, TipoHilos
  <2>2. Esta(t, pcb[t]) /\ Esta(u, pcb[t]) /\ t \in Sitios /\ u \in Sitios
    BY DEF Esta, Sitios
  <2> QED
    BY <2>1, <2>2 DEF Ubicados, EnUno
<1> QED
  BY <1>2, <1>3, <1>4 DEF UnSoloLugar, Ubicados, ReadySinRepetir

(* The message at the head of what a CPU has pending, and where the PCB    *)
(* it is sent is.                                                          *)
LEMMA Pendientes ==
    ASSUME MutexInv, Canales, NEW c \in Cpus
    PROVE  /\ Ejecutando(c) <=> Corre(c)
           /\ \A p \in PID : (\E i \in DOMAIN deKernel[c] :
                                  deKernel[c][i] = [tipo |-> "CORRER_PCB", pid |-> p])
                             <=> Manda(c, p)
<1>1. Forma(c) /\ estado[c] \in EstadosCPU
  BY DEF Canales, MutexInv, TypeInv, TypeOK, TipoCPUs
<1>2. \/ deKernel[c] \in {<<>>, Despedida, Concedido, Bloqueado, BloqueadoYDespedida, Senalado}
      \/ \E p \in PID : deKernel[c] \in {CorrerPCB(p), PorCorrer(p)}
  BY <1>1 DEF Forma, EstadosCPU
<1>3. Ejecutando(c) <=> Corre(c)
  <2>1. CASE estado[c] = "esperaWait"
    <3>1. Concedido # <<>> /\ Concedido[1].tipo = "RES_WAIT_OK"
      BY DEF Concedido, Msg
    <3>2. \A s \in {Bloqueado, BloqueadoYDespedida} : s[1].tipo # "RES_WAIT_OK"
      BY DEF Bloqueado, BloqueadoYDespedida, ResWait, Msg
    <3>3. \A p : PorCorrer(p)[1].tipo # "RES_WAIT_OK"
      BY DEF PorCorrer, ResWait, Msg
    <3> QED
      BY <1>1, <2>1, <3>1, <3>2, <3>3 DEF Forma, Ejecutando, Corre
  <2>2. CASE estado[c] # "esperaWait"
    BY <2>2 DEF Ejecutando, Corre
  <2> QED
    BY <2>1, <2>2
<1> DEFINE Correr(p) == [tipo |-> "CORRER_PCB", pid |-> p]
<1>4. ASSUME NEW p \in PID
         PROVE (\E i \in DOMAIN deKernel[c] : deKernel[c][i] = Correr(p)) <=> Manda(c, p)
  <2>1. \A q : Correr(q) = Correr(p) <=> q = p
    <3>1. \A q : Correr(q).pid = q
      OBVIOUS
    <3> QED
      BY <3>1
  <2>2. \A tipo \in {"NUEVO_QUANTUM_SLEEP", "RES_WAIT_OK", "RES_WAIT_BLOCKED", "RES_SIGNAL",
                     "FINISH_CPU"} :
            Msg(tipo) # Correr(p)
    BY DEF Msg
  <2>3. CASE deKernel[c] \in {<<>>, Despedida, Concedido, Bloqueado, BloqueadoYDespedida, Senalado}
    <3>1. \A s \in {<<>>, Despedida, Concedido, Bloqueado, BloqueadoYDespedida, Senalado} :
             \A i \in DOMAIN s : s[i] # Correr(p)
      BY <2>2 DEF Despedida, Concedido, Bloqueado, BloqueadoYDespedida, Senalado, ResWait
    <3> QED
      BY <2>3, <3>1, DistintosPCB DEF Manda
  <2>4. ASSUME NEW q \in PID, deKernel[c] = CorrerPCB(q)
        PROVE  (\E i \in DOMAIN deKernel[c] : deKernel[c][i] = Correr(p)) <=> Manda(c, p)
    <3>1. DOMAIN CorrerPCB(q) = 1 .. 2 /\ CorrerPCB(q)[1] = Msg("NUEVO_QUANTUM_SLEEP")
          /\ CorrerPCB(q)[2] = Correr(q)
      BY DEF CorrerPCB
    <3>2. (\E i \in 1 .. 2 : CorrerPCB(q)[i] = Correr(p)) <=> q = p
      BY <2>1, <2>2, <3>1
    <3> QED
      BY <2>4, <3>1, <3>2, DistintosPCB DEF Manda
  <2>5. ASSUME NEW q \in PID, deKernel[c] = PorCorrer(q)
        PROVE  (\E i \in DOMAIN deKernel[c] : deKernel[c][i] = Correr(p)) <=> Manda(c, p)
    <3>1. /\ DOMAIN PorCorrer(q) = 1 .. 3 /\ PorCorrer(q)[1] = Msg("RES_WAIT_BLOCKED")
          /\ PorCorrer(q)[2] = Msg("NUEVO_QUANTUM_SLEEP") /\ PorCorrer(q)[3] = Correr(q)
      BY DEF PorCorrer, ResWait
    <3>2. (\E i \in 1 .. 3 : PorCorrer(q)[i] = Correr(p)) <=> q = p
      BY <2>1, <2>2, <3>1
    <3> QED
      BY <2>5, <3>1, <3>2, DistintosPCB DEF Manda
  <2> QED
    BY <1>2, <2>3, <2>4, <2>5
<1> QED
  BY <1>3, <1>4

LEMMA DeTenenciaUnica == ASSUME MutexInv, HilosInv, Canales, Tenencia PROVE TenenciaUnica
<1>1. \A c \in Cpus, p \in PID : p \in Tiene(c) <=> Ocupan(c, p)
  BY Pendientes DEF Tiene, Ocupan, Envia
<1>2. colaExec = UNION {Tiene(c) : c \in Cpus}
  <2>1. colaExec \subseteq PID /\ \A c : Tiene(c) \subseteq PID
    BY DEF MutexInv, TypeInv, TypeOK, TipoColas, Tiene
  <2> QED
    BY <1>1, <2>1 DEF Tenencia, EnExec
<1>3. ASSUME NEW c \in Cpus, Tiene(c) # {}
      PROVE  c \in Conectadas /\ ocupada[c] /\ Cardinality(Tiene(c)) = 1
  <2>1. PICK p \in PID : p \in Tiene(c)
    BY <1>3 DEF Tiene
  <2>2. \A q \in Tiene(c) : q = p
    BY <1>1, <2>1 DEF Tenencia, DeAUno, Tiene
  <2>3. Tiene(c) = {p}
    BY <2>1, <2>2
  <2> QED
    BY <1>1, <2>1, <2>3, FS_Singleton DEF Tenencia, ConCPU
<1>4. \A c, d \in Cpus : c # d => Tiene(c) \cap Tiene(d) = {}
  BY <1>1 DEF Tenencia, DeAUno, Tiene
<1> QED
  BY <1>2, <1>3, <1>4 DEF TenenciaUnica

LEMMA DePedidoNoOlvidado == ASSUME MutexInv, Fines PROVE PedidoNoOlvidado
<1> SUFFICES ASSUME NEW p \in pedidos, p \notin colaExit,
             p \notin listForFinish \cup listForFinishDesconexion
             PROVE  p \in EnMano /\ exitCode[p] # "enCurso"
  BY DEF PedidoNoOlvidado
<1>1. p \in PID /\ exitCode[p] # "enCurso"
  BY DEF Fines, Anotados, MutexInv, TypeInv, TypeOK, TipoColas
<1>2. \E t \in Hilos : pcb[t] = p
  BY <1>1 DEF Fines, Terminados
<1> QED
  BY <1>1, <1>2, ThreadFacts DEF EnMano

LEMMA DeMemoriaAcotada == ASSUME MutexInv, Paginas PROVE MemoriaAcotada
<1> SUFFICES ASSUME NEW p \in enMemoria
             PROVE  p \in Admitidos \/ \E t \in Hilos : paso[t] = "FINZ_PROGM" /\ pid[t] = p
  BY DEF MemoriaAcotada
<1>1. p \in PID /\ p < ultimoPID /\ ultimoPID \in 0 .. MaxProgramas
  BY DEF Paginas, ConPaginas, MutexInv, TypeInv, TypeOK, TipoColas
<1>2. p \in 0 .. ultimoPID - 1
  BY <1>1, Numeros
<1> QED
  BY <1>2 DEF Admitidos, Paginas, ConPaginas, Antes

LEMMA DeFinCompleto == ASSUME MutexInv, HilosInv, Paginas, Plazas = GradoMultiprog PROVE FinCompleto
<1>1. TypeOK
  BY DEF MutexInv, TypeInv
<1>2. grado = GradoMultiprog - Cardinality(Admitidos)
  BY <1>1, AdmitidosFinitos, ConstantesAssumption DEF Plazas, TypeOK, TipoHilos
<1>3. ASSUME NEW p \in 0 .. ultimoPID - 1 PROVE p \in PID /\ p < ultimoPID
  BY <1>1, <1>3, Numeros DEF TypeOK, TipoColas
<1>4. ASSUME NEW p \in PID, p < ultimoPID
      PROVE  IF p \notin colaExit
               THEN avisos[p] = 0 /\ (p \in programas \/ paso[Programa(p)] = "cargar_programa")
               ELSE \/ p \notin programas /\ p \notin enMemoria /\ avisos[p] = 1
                    \/ /\ p \in programas /\ avisos[p] = 0
                       /\ \E t \in Hilos : pid[t] = p /\ paso[t] \in {"FINZ_PROGM", "END_PRGM"}
  BY <1>4 DEF Paginas, Avisados, HilosInv, Listados
<1> QED
  BY <1>2, <1>3, <1>4 DEF FinCompleto

-----------------------------------------------------------------------------
(* A PCB is never lost and never in two places, whatever the number of     *)
(* programs, CPUs and threads: every program that was created is in one    *)
(* queue, once, or in the hands of one thread (estados.c).                 *)
THEOREM OnePlace == Spec => []UnSoloLugar
<1>1. PlanInv => UnSoloLugar
  BY DeUnSoloLugar DEF PlanInv, Reparto, UnSoloLugar
<1> QED
  BY <1>1, PlanInv_Siempre, PTL

(* A process is in Exec exactly when one and only one CPU has it, and a    *)
(* CPU has at most one process and is listed as busy while it does         *)
(* (enviar_a_cpu and the handlers of the select loop, Kernel.c:855-918).   *)
THEOREM OneHolder == Spec => []TenenciaUnica
<1>1. PlanInv => TenenciaUnica
  BY DeTenenciaUnica DEF PlanInv, Reparto, TenenciaUnica
<1> QED
  BY <1>1, PlanInv_Siempre, PTL

(* A request to finish a program, once a finalizador found it alive, is    *)
(* never forgotten (Kernel.c:59-71, 105-159).                              *)
THEOREM NoRequestForgotten == Spec => []PedidoNoOlvidado
<1>1. PlanInv => PedidoNoOlvidado
  BY DePedidoNoOlvidado DEF PlanInv, Reparto, PedidoNoOlvidado
<1> QED
  BY <1>1, PlanInv_Siempre, PTL

(* The programs that hold pages took a place of the degree and did not     *)
(* give it back, or are being finished (Kernel.c:801-806).                 *)
THEOREM MemoryBounded == Spec => []MemoriaAcotada
<1>1. PlanInv => MemoriaAcotada
  BY DeMemoriaAcotada DEF PlanInv, Reparto, MemoriaAcotada
<1> QED
  BY <1>1, PlanInv_Siempre, PTL

(* The end of a program is told once, its pages are given back, and the    *)
(* sem_wait of programa (Kernel.c:527) and the sem_post of moverA_colaExit *)
(* (estados.c:87) stay paired, whatever way programs end.                  *)
THEOREM CompleteEnd == Spec => []FinCompleto
<1>1. PlanInv /\ PlazasInv => FinCompleto
  BY DeFinCompleto DEF PlanInv, Reparto, PlazasInv, FinCompleto
<1> QED
  BY <1>1, PlanInv_Siempre, PlazasInv_Siempre, PTL

-----------------------------------------------------------------------------
(* Nobody waits in Ready beside an idle CPU.  Each turn to dispatch is     *)
(* compared with the PCBs in Ready, one more while the select loop brings  *)
(* one there, and with the CPUs that are idle, one more while it is about  *)
(* to let the CPU of a WAIT go: what a handler is going to add is counted  *)
(* when it begins, together with the turn it brings.                       *)
Trae == paso[SrvCPU] \in {"desconectarCPU", "processIsForFinish", "moverA_colaReady",
                          "moverA_colaReadySinFinalizar"}
Ociosas == {c \in Conectadas : ~ocupada[c] /\ ~Elegida(c)}
Turnos == Cardinality(PorDespachar)
Listos == Len(colaReady) + IF Trae THEN 1 ELSE 0
Huecos == Cardinality(Ociosas) + IF Bloqueando THEN 1 ELSE 0
Alcanzan == Turnos >= Listos \/ Turnos >= Huecos

(* The thread of a program that puts it in Ready dispatches afterwards.    *)
Despacha(t) ==
    t # SrvCPU /\ paso[t] \in {"moverA_colaReady", "moverA_colaReadySinFinalizar"} =>
        vuelve[t] = "enviar_a_cpu"

(* A step that changes turns, PCBs and CPUs alike, at worst. *)
Cambian(d) == Turnos' >= Turnos + d /\ Listos' <= Listos + d /\ Huecos' <= Huecos + d

LEMMA HilosFinitos == IsFiniteSet(Hilos)
<1>1. IsFiniteSet(PID)
  BY ConstantesAssumption, FS_Interval DEF PID
<1>2. IsFiniteSet({"end"}) /\ IsFiniteSet({"desconexion"}) /\ IsFiniteSet({"programa"})
      /\ IsFiniteSet({SrvCPU})
  BY FS_Singleton
<1>3. IsFiniteSet({"end"} \cup {"desconexion"})
  BY <1>2, FS_Union
<1>4. IsFiniteSet(Finalizadores)
  <2>1. {"end"} \cup {"desconexion"} = {"end", "desconexion"}
    OBVIOUS
  <2> QED
    BY <1>1, <1>3, <2>1, FS_Product DEF Finalizadores
<1>5. IsFiniteSet({"programa"} \X PID)
  BY <1>1, <1>2, FS_Product
<1>6. IsFiniteSet(({"programa"} \X PID) \cup Finalizadores)
  BY <1>4, <1>5, FS_Union
<1> QED
  BY <1>2, <1>6, FS_Union DEF Hilos

LEMMA RangoFinito ==
    ASSUME NEW S, NEW s \in Seq(S)
    PROVE  IsFiniteSet({s[i] : i \in DOMAIN s})
<1> DEFINE T == {s[i] : i \in DOMAIN s}
<1>1. IsFiniteSet(DOMAIN s)
  <2>1. DOMAIN s = 1 .. Len(s) /\ Len(s) \in Nat
    OBVIOUS
  <2> QED
    BY <2>1, FS_Interval
<1>2. s \in Surjection(DOMAIN s, T)
  <2>1. s \in [DOMAIN s -> T]
    OBVIOUS
  <2> QED
    BY <2>1 DEF Surjection
<1> QED
  BY <1>1, <1>2, FS_Surjection

LEMMA SonFinitos ==
    ASSUME TypeOK
    PROVE  /\ IsFiniteSet(PorDespachar) /\ IsFiniteSet(Ociosas)
           /\ Turnos \in Nat /\ Cardinality(Ociosas) \in Nat /\ Len(colaReady) \in Nat
           /\ Listos \in Nat /\ Huecos \in Nat
<1>1. PorDespachar \subseteq Hilos
  BY DEF PorDespachar
<1>2. cpus \in Seq(Cpus) /\ colaReady \in Seq(PID)
  BY DEF TypeOK, TipoCPUs, TipoColas
<1>3. Ociosas \subseteq Conectadas /\ IsFiniteSet(Conectadas)
  BY <1>2, RangoFinito DEF Ociosas, Conectadas
<1>4. IsFiniteSet(PorDespachar) /\ IsFiniteSet(Ociosas)
  BY <1>1, <1>3, HilosFinitos, FS_Subset
<1>5. Turnos \in Nat /\ Cardinality(Ociosas) \in Nat
  BY <1>4, FS_CardinalityType DEF Turnos
<1>6. Len(colaReady) \in Nat
  BY <1>2
<1> QED
  BY <1>4, <1>5, <1>6 DEF Listos, Huecos

Contables ==
    TypeOK => /\ IsFiniteSet(PorDespachar) /\ IsFiniteSet(Ociosas)
              /\ Cardinality(Ociosas) \in Nat /\ Len(colaReady) \in Nat
              /\ Turnos \in Nat /\ Listos \in Nat /\ Huecos \in Nat

LEMMA SonContables == Contables
BY SonFinitos DEF Contables

LEMMA SonContablesDespues == Contables'
BY SonContables, PTL

LEMMA SonNaturales ==
    TypeOK => Turnos \in Nat /\ Listos \in Nat /\ Huecos \in Nat
BY SonFinitos

LEMMA SonFinitosDespues ==
    TypeOK' => /\ IsFiniteSet(PorDespachar') /\ IsFiniteSet(Ociosas')
               /\ Cardinality(Ociosas') \in Nat /\ Len(colaReady') \in Nat
BY SonContablesDespues DEF Contables

LEMMA SonNaturalesDespues ==
    TypeOK' => Turnos' \in Nat /\ Listos' \in Nat /\ Huecos' \in Nat
BY SonContablesDespues DEF Contables

LEMMA Siguen ==
    ASSUME TypeOK, TypeOK', Alcanzan, NEW d \in Int, Cambian(d)
    PROVE  Alcanzan'
<1>1. /\ Turnos \in Nat /\ Listos \in Nat /\ Huecos \in Nat
      /\ Turnos' \in Nat /\ Listos' \in Nat /\ Huecos' \in Nat
  BY SonNaturales, SonNaturalesDespues
<1> QED
  BY <1>1 DEF Alcanzan, Cambian

(* The three kinds of steps. *)
LEMMA NoQuita ==
    ASSUME TypeOK, TypeOK', PorDespachar \subseteq PorDespachar',
           Len(colaReady') <= Len(colaReady), Trae' => Trae,
           \/ Ociosas' \subseteq Ociosas /\ (Bloqueando' => Bloqueando)
           \/ Bloqueando /\ ~Bloqueando' /\ Ociosas' \subseteq Ociosas \cup {atendida}
    PROVE  Cambian(0)
<1>1. PICK D, E : D = PorDespachar' /\ E = Ociosas'
  OBVIOUS
<1>2. IsFiniteSet(PorDespachar) /\ IsFiniteSet(Ociosas) /\ IsFiniteSet(D) /\ IsFiniteSet(E)
  BY <1>1, SonFinitos, SonFinitosDespues
<1>3. Cardinality(PorDespachar) <= Cardinality(D)
  BY <1>1, <1>2, FS_Subset
<1>4. Cardinality(E) + (IF Bloqueando' THEN 1 ELSE 0)
        <= Cardinality(Ociosas) + (IF Bloqueando THEN 1 ELSE 0)
  <2>1. Cardinality(E) \in Nat /\ Cardinality(Ociosas) \in Nat
    BY <1>2, FS_CardinalityType
  <2>2. ASSUME Ociosas' \subseteq Ociosas, Bloqueando' => Bloqueando
        PROVE  Cardinality(E) <= Cardinality(Ociosas)
    BY <1>1, <1>2, <2>2, FS_Subset
  <2>3. ASSUME Ociosas' \subseteq Ociosas \cup {atendida}
        PROVE  Cardinality(E) <= Cardinality(Ociosas) + 1
    <3>1. /\ IsFiniteSet(Ociosas \cup {atendida})
          /\ Cardinality(Ociosas \cup {atendida}) <= Cardinality(Ociosas) + 1
      <4>1. ASSUME NEW c
            PROVE  /\ IsFiniteSet(Ociosas \cup {c})
                   /\ Cardinality(Ociosas \cup {c}) <= Cardinality(Ociosas) + 1
        <5>1. /\ IsFiniteSet(Ociosas \cup {c})
              /\ Cardinality(Ociosas \cup {c}) = IF c \in Ociosas THEN Cardinality(Ociosas)
                                                 ELSE Cardinality(Ociosas) + 1
          BY <1>2, FS_AddElement
        <5> QED
          BY <2>1, <5>1
      <4> QED
        BY <4>1
    <3>2. /\ Cardinality(E) <= Cardinality(Ociosas \cup {atendida})
          /\ Cardinality(Ociosas \cup {atendida}) \in Nat
      BY <1>1, <2>3, <3>1, FS_Subset, FS_CardinalityType
    <3> QED
      BY <2>1, <3>1, <3>2
  <2> QED
    BY <2>1, <2>2, <2>3
<1>5. Turnos' = Cardinality(D) /\ Turnos = Cardinality(PorDespachar)
  BY <1>1 DEF Turnos
<1>6. Huecos' <= Huecos
  BY <1>1, <1>4 DEF Huecos
<1>7. Listos' <= Listos
  BY SonFinitos, SonFinitosDespues DEF Listos
<1> QED
  BY <1>3, <1>5, <1>6, <1>7, SonNaturales, SonNaturalesDespues DEF Cambian

LEMMA Agrega ==
    ASSUME TypeOK, TypeOK', NEW t, t \notin PorDespachar, PorDespachar \cup {t} \subseteq PorDespachar',
           \/ Len(colaReady') <= Len(colaReady) + 1 /\ (Trae' => Trae)
           \/ Len(colaReady') <= Len(colaReady),
           \/ \E c : Ociosas' \subseteq Ociosas \cup {c} /\ (Bloqueando' => Bloqueando)
           \/ Ociosas' \subseteq Ociosas
    PROVE  Cambian(1)
<1>1. PICK D, E : D = PorDespachar' /\ E = Ociosas'
  OBVIOUS
<1>2. IsFiniteSet(PorDespachar) /\ IsFiniteSet(Ociosas) /\ IsFiniteSet(D) /\ IsFiniteSet(E)
  BY <1>1, SonFinitos, SonFinitosDespues
<1>3. Cardinality(PorDespachar) + 1 <= Cardinality(D)
  <2>1. Cardinality(PorDespachar \cup {t}) = Cardinality(PorDespachar) + 1
    BY <1>2, FS_AddElement
  <2>2. Cardinality(PorDespachar \cup {t}) <= Cardinality(D)
    BY <1>1, <1>2, FS_Subset
  <2> QED
    BY <2>1, <2>2
<1>4. Cardinality(E) + (IF Bloqueando' THEN 1 ELSE 0)
        <= Cardinality(Ociosas) + (IF Bloqueando THEN 1 ELSE 0) + 1
  <2>1. Cardinality(E) \in Nat /\ Cardinality(Ociosas) \in Nat
    BY <1>2, FS_CardinalityType
  <2>2. ASSUME Ociosas' \subseteq Ociosas PROVE Cardinality(E) <= Cardinality(Ociosas)
    BY <1>1, <1>2, <2>2, FS_Subset
  <2>3. ASSUME NEW c, Ociosas' \subseteq Ociosas \cup {c}
        PROVE  Cardinality(E) <= Cardinality(Ociosas) + 1
    <3>1. /\ IsFiniteSet(Ociosas \cup {c})
          /\ Cardinality(Ociosas \cup {c}) <= Cardinality(Ociosas) + 1
      <4>1. /\ IsFiniteSet(Ociosas \cup {c})
            /\ \/ Cardinality(Ociosas \cup {c}) = Cardinality(Ociosas)
               \/ Cardinality(Ociosas \cup {c}) = Cardinality(Ociosas) + 1
        BY <1>2, FS_AddElement
      <4> QED
        BY <2>1, <4>1
    <3>2. /\ Cardinality(E) <= Cardinality(Ociosas \cup {c})
          /\ Cardinality(Ociosas \cup {c}) \in Nat
      BY <1>1, <2>3, <3>1, FS_Subset, FS_CardinalityType
    <3> QED
      BY <2>1, <3>1, <3>2
  <2> QED
    BY <2>1, <2>2, <2>3
<1>5. Turnos' = Cardinality(D) /\ Turnos = Cardinality(PorDespachar)
  BY <1>1 DEF Turnos
<1>6. Huecos' <= Huecos + 1
  BY <1>1, <1>4 DEF Huecos
<1>7. Listos' <= Listos + 1
  BY SonFinitos, SonFinitosDespues DEF Listos
<1> QED
  BY <1>3, <1>5, <1>6, <1>7, SonNaturales, SonNaturalesDespues DEF Cambian

LEMMA Gasta ==
    ASSUME TypeOK, TypeOK', NEW t \in PorDespachar, PorDespachar \ {t} \subseteq PorDespachar',
           Len(colaReady') = Len(colaReady) - 1, Trae' => Trae,
           NEW c \in Ociosas, Ociosas' \subseteq Ociosas \ {c}, Bloqueando' => Bloqueando
    PROVE  Cambian(-1)
<1>1. PICK D, E : D = PorDespachar' /\ E = Ociosas'
  OBVIOUS
<1>2. IsFiniteSet(PorDespachar) /\ IsFiniteSet(Ociosas) /\ IsFiniteSet(D) /\ IsFiniteSet(E)
  BY <1>1, SonFinitos, SonFinitosDespues
<1>3. Cardinality(PorDespachar) - 1 <= Cardinality(D)
  <2>1. Cardinality(PorDespachar \ {t}) = Cardinality(PorDespachar) - 1
    BY <1>2, FS_RemoveElement
  <2>2. Cardinality(PorDespachar \ {t}) <= Cardinality(D)
    BY <1>1, <1>2, FS_Subset
  <2> QED
    BY <2>1, <2>2
<1>4. Cardinality(E) <= Cardinality(Ociosas) - 1
  <2>1. Cardinality(Ociosas \ {c}) = Cardinality(Ociosas) - 1 /\ IsFiniteSet(Ociosas \ {c})
    BY <1>2, FS_RemoveElement
  <2>2. Cardinality(E) <= Cardinality(Ociosas \ {c})
    BY <1>1, <2>1, FS_Subset
  <2> QED
    BY <2>1, <2>2
<1>5. Turnos' = Cardinality(D) /\ Turnos = Cardinality(PorDespachar)
  BY <1>1 DEF Turnos
<1>6. Cardinality(E) \in Nat /\ Cardinality(Ociosas) \in Nat
  BY <1>2, FS_CardinalityType
<1>7. Huecos' <= Huecos - 1
  BY <1>1, <1>4, <1>6 DEF Huecos
<1>8. Listos' <= Listos - 1
  BY SonFinitos, SonFinitosDespues DEF Listos
<1> QED
  BY <1>3, <1>5, <1>7, <1>8, SonNaturales, SonNaturalesDespues DEF Cambian

(* What a step of one thread leaves. *)
LEMMA LosDemas ==
    ASSUME NEW t \in Hilos, Quietos({t})
    PROVE  /\ \A u \in Hilos : u # t => (u \in PorDespachar' <=> u \in PorDespachar)
           /\ \A c : \A u \in Hilos : u # t =>
                 (paso'[u] = "relacionar" /\ sock'[u] = c <=> paso[u] = "relacionar" /\ sock[u] = c)
           /\ t \in PorDespachar' => PorDespachar \subseteq PorDespachar'
           /\ t \notin PorDespachar => PorDespachar \subseteq PorDespachar'
           /\ PorDespachar \ {t} \subseteq PorDespachar'
BY DEF Quietos, PorDespachar

LEMMA OciosasHilo ==
    ASSUME NEW t \in Hilos, Quietos({t}), UNCHANGED <<cpus, ocupada>>,
           paso[t] # "relacionar", paso'[t] # "relacionar"
    PROVE  Ociosas' = Ociosas
BY LosDemas DEF Ociosas, Elegida, Conectadas

LEMMA TraeHilo ==
    ASSUME NEW t \in Hilos, Quietos({t})
    PROVE  t # SrvCPU => (Trae' <=> Trae)
BY ThreadFacts DEF Quietos, Trae

(* A thread stays at work, or at rest. *)
LEMMA SiguePendiente ==
    ASSUME NEW t \in Hilos, Quietos({t}),
           paso[t] \notin {"enviar_a_cpu", "sacarCualquieraDeReady"},
           \/ paso'[t] \notin {"select", "relacionar", "CORRER_PCB", "RES_SIGNAL"}
           \/ t # SrvCPU
           \/ paso[t] \in {"select", "relacionar", "CORRER_PCB", "RES_SIGNAL"}
    PROVE  PorDespachar \subseteq PorDespachar'
<1>1. t \in PorDespachar => t \in PorDespachar'
  BY DEF PorDespachar
<1> QED
  BY <1>1, LosDemas

LEMMA De_sencillo ==
    ASSUME MutexInv, MutexInv', HilosInv, NEW t \in Hilos,
           \/ cargar_programa(t) \/ moverA_colaNew(t) \/ sem_wait(t) \/ inicializar_programa(t)
           \/ moverA_colaExit(t) \/ finalizarProcesoMemoria(t) \/ finishProcess(t)
    PROVE  Cambian(0)
<1>1. TypeOK /\ TypeOK' /\ Lleva(t) /\ Nuevo(t)
  BY DEF MutexInv, TypeInv, CadaUnoLleva, HilosInv
<1>2. Bloqueando' <=> Bloqueando
  BY Re_cargar_programa, Re_moverA_colaNew, Re_sem_wait, Re_inicializar_programa, Re_moverA_colaExit,
     Re_finalizarProcesoMemoria, Re_finishProcess DEF SinCambio
<1>3. /\ Quietos({t}) /\ UNCHANGED <<cpus, ocupada, colaReady>>
  BY <1>1, Ef_cargar_programa, Ef_moverA_colaNew, Ef_sem_wait, Ef_inicializar_programa,
     Ef_moverA_colaExit, Ef_finalizarProcesoMemoria, Ef_finishProcess
<1>4. CASE cargar_programa(t) \/ moverA_colaNew(t) \/ sem_wait(t) \/ inicializar_programa(t)
  <2>1. /\ paso[t] \in {"cargar_programa", "moverA_colaNew", "sem_wait", "inicializar_programa"}
        /\ paso'[t] \in {"moverA_colaNew", "sem_wait", "inicializar_programa", "exitSinMemoria",
                         "moverA_colaReady", "exit"}
    BY <1>1, <1>4, Ef_cargar_programa, Ef_moverA_colaNew, Ef_sem_wait, Ef_inicializar_programa DEF Va
  <2>2. t # SrvCPU
    BY <1>1, <2>1 DEF Nuevo, PasosNuevo, SrvCPU
  <2>3. PorDespachar \subseteq PorDespachar' /\ Ociosas' = Ociosas /\ (Trae' <=> Trae)
    BY <1>3, <2>1, <2>2, SiguePendiente, OciosasHilo, TraeHilo
  <2> QED
    BY <1>1, <1>2, <1>3, <2>3, NoQuita, SonFinitos
<1>5. CASE moverA_colaExit(t) \/ finalizarProcesoMemoria(t) \/ finishProcess(t)
  <2>1. /\ paso[t] \in {"exit", "exitSinMemoria", "FINZ_PROGM", "END_PRGM"}
        /\ paso'[t] \in {"FINZ_PROGM", "END_PRGM"} \cup Regresos
    BY <1>1, <1>5, Ef_moverA_colaExit, Ef_finalizarProcesoMemoria, Ef_finishProcess DEF Va, Lleva
  <2>2. PorDespachar \subseteq PorDespachar' /\ Ociosas' = Ociosas
    BY <1>3, <2>1, SiguePendiente, OciosasHilo DEF Regresos
  <2>3. Trae' => Trae
    BY <1>3, <2>1, TraeHilo DEF Trae, Regresos
  <2> QED
    BY <1>1, <1>2, <1>3, <2>2, <2>3, NoQuita, SonFinitos
<1> QED
  BY <1>4, <1>5

LEMMA De_moverA_colaReady ==
    ASSUME MutexInv, MutexInv', HilosInv, NEW t \in Hilos, Despacha(t), moverA_colaReady(t)
    PROVE  Cambian(0) \/ Cambian(1)
<1>1. TypeOK /\ TypeOK' /\ Lleva(t)
  BY DEF MutexInv, TypeInv, CadaUnoLleva, HilosInv
<1>2. Bloqueando' <=> Bloqueando
  BY Re_moverA_colaReady DEF SinCambio
<1>3. /\ Quietos({t}) /\ UNCHANGED <<cpus, ocupada>>
      /\ paso[t] \in {"moverA_colaReady", "moverA_colaReadySinFinalizar"}
      /\ \/ paso'[t] = "exit" /\ UNCHANGED colaReady
         \/ paso'[t] = vuelve[t] /\ colaReady' = Append(colaReady, pcb[t])
  BY <1>1, Ef_moverA_colaReady DEF Va
<1>4. paso'[t] \in Regresos \cup {"exit"}
  BY <1>1, <1>3 DEF Lleva
<1>5. PorDespachar \subseteq PorDespachar' /\ Ociosas' = Ociosas
  BY <1>3, <1>4, SiguePendiente, OciosasHilo DEF Regresos
<1>6. Trae' => Trae
  BY <1>3, <1>4, TraeHilo DEF Trae, Regresos
<1>7. CASE paso'[t] = "exit" /\ UNCHANGED colaReady
  <2>1. Cambian(0)
    BY <1>1, <1>2, <1>5, <1>6, <1>7, NoQuita, SonFinitos
  <2> QED
    BY <2>1
<1>8. CASE paso'[t] = vuelve[t] /\ colaReady' = Append(colaReady, pcb[t])
  <2>1. Len(colaReady') = Len(colaReady) + 1
    BY <1>1, <1>8 DEF TypeOK, TipoColas
  <2>2. CASE t # SrvCPU
    <3>1. t \notin PorDespachar /\ t \in PorDespachar'
      BY <1>3, <1>8, <2>2 DEF PorDespachar, Despacha
    <3>2. Cambian(1)
      BY <1>1, <1>2, <1>5, <1>6, <2>1, <3>1, Agrega, SonFinitos
    <3> QED
      BY <3>2
  <2>3. CASE t = SrvCPU
    <3>1. Trae /\ ~Trae'
      BY <1>1, <1>3, <1>8, <2>3 DEF Trae, Lleva, Regresos
    <3>2. Listos' = Listos
      BY <2>1, <3>1, SonFinitos DEF Listos
    <3>3. Huecos' = Huecos
      BY <1>2, <1>5 DEF Huecos
    <3>4. Turnos' >= Turnos
      <4>1. PICK D : D = PorDespachar'
        OBVIOUS
      <4>2. IsFiniteSet(D) /\ Cardinality(PorDespachar) <= Cardinality(D)
        BY <1>1, <1>5, <4>1, SonFinitosDespues, FS_Subset
      <4> QED
        BY <1>1, <4>1, <4>2, SonNaturales, SonNaturalesDespues DEF Turnos
    <3> QED
      BY <1>1, <3>2, <3>3, <3>4, SonNaturales, SonNaturalesDespues DEF Cambian
  <2> QED
    BY <2>2, <2>3
<1> QED
  BY <1>3, <1>7, <1>8

(* The select loop at work is one turn at least. *)
LEMMA UnTurno ==
    ASSUME TypeOK, SrvCPU \in PorDespachar
    PROVE  Turnos >= 1
<1>1. Turnos \in Nat /\ IsFiniteSet(PorDespachar)
  BY SonFinitos
<1>2. Turnos # 0
  BY <1>1, FS_EmptySet DEF Turnos
<1> QED
  BY <1>1, <1>2

LEMMA AlMenosUno == TypeOK /\ SrvCPU \in PorDespachar => Turnos >= 1
BY UnTurno

AlMenos == TypeOK /\ SrvCPU \in PorDespachar => Turnos >= 1
LEMMA AlMenosUnoDespues == TypeOK' /\ SrvCPU \in PorDespachar' => Turnos' >= 1
<1>1. AlMenos
  BY AlMenosUno DEF AlMenos
<1>2. AlMenos'
  BY AlMenosUno, PTL DEF AlMenos
<1> QED
  BY <1>2 DEF AlMenos

LEMMA De_enviar_a_cpu ==
    ASSUME MutexInv, MutexInv', HilosInv, NEW t \in Hilos, enviar_a_cpu(t)
    PROVE  Alcanzan' \/ Cambian(0)
<1>1. TypeOK /\ TypeOK'
  BY DEF MutexInv, TypeInv
<1>2. Bloqueando' <=> Bloqueando
  BY Re_enviar_a_cpu DEF SinCambio
<1>3. /\ Quietos({t}) /\ UNCHANGED <<cpus, ocupada, colaReady>>
      /\ paso[t] = "enviar_a_cpu"
      /\ \/ paso'[t] = Final(t)
         \/ paso'[t] = "sacarCualquieraDeReady"
  BY <1>1, Ef_enviar_a_cpu DEF Va
<1>4. paso'[t] # "relacionar" /\ Ociosas' = Ociosas
  BY <1>3, FinalDe, OciosasHilo
<1>5. CASE paso'[t] = "sacarCualquieraDeReady"
  <2>1. t \in PorDespachar' /\ PorDespachar \subseteq PorDespachar'
    BY <1>3, <1>5, LosDemas DEF PorDespachar
  <2>2. Trae' => Trae
    BY <1>3, <1>5, TraeHilo DEF Trae
  <2> QED
    BY <1>1, <1>2, <1>3, <1>4, <2>1, <2>2, NoQuita, SonFinitos
<1>6. CASE paso'[t] = Final(t)
  <2>1. Libres = {}
    <3>1. Final(t) # "sacarCualquieraDeReady"
      BY FinalDe
    <3>2. ~Ir(t, "sacarCualquieraDeReady")
      BY <1>1, <1>6, <3>1 DEF Ir, TypeOK, TipoHilos
    <3> QED
      BY <3>2 DEF enviar_a_cpu
  <2>2. Ociosas = {}
    BY <2>1 DEF Ociosas, Libres, Conectadas
  <2>3. Cardinality(Ociosas') = 0
    BY <1>4, <2>2, FS_EmptySet
  <2>4. ASSUME Bloqueando' PROVE SrvCPU \in PorDespachar'
    BY <2>4, ThreadFacts DEF Bloqueando, PorDespachar
  <2>5. Turnos' >= Huecos'
    BY <1>1, <2>3, <2>4, AlMenosUnoDespues, SonNaturalesDespues DEF Huecos
  <2> QED
    BY <2>5 DEF Alcanzan
<1> QED
  BY <1>3, <1>5, <1>6

LEMMA De_sacarCualquieraDeReady ==
    ASSUME MutexInv, MutexInv', HilosInv, NEW t \in Hilos, sacarCualquieraDeReady(t)
    PROVE  Alcanzan' \/ Cambian(-1)
<1>1. TypeOK /\ TypeOK' /\ Elige(t)
  BY DEF MutexInv, TypeInv, HilosInv
<1>2. Bloqueando' <=> Bloqueando
  BY Re_sacarCualquieraDeReady DEF SinCambio
<1>3. /\ Quietos({t}) /\ UNCHANGED <<cpus, ocupada>>
      /\ paso[t] = "sacarCualquieraDeReady" /\ sock'[t] = sock[t]
      /\ \/ paso'[t] = Final(t) /\ UNCHANGED colaReady
         \/ paso'[t] = "relacionar" /\ colaReady # <<>> /\ colaReady' = Tail(colaReady)
  BY <1>1, Ef_sacarCualquieraDeReady DEF Va
<1>4. CASE paso'[t] = Final(t) /\ UNCHANGED colaReady
  <2>1. colaReady = <<>>
    <3>1. Final(t) # "relacionar"
      BY FinalDe
    <3>2. ~Ir(t, "relacionar")
      BY <1>1, <1>4, <3>1 DEF Ir, TypeOK, TipoHilos
    <3> QED
      BY <3>2 DEF sacarCualquieraDeReady
  <2>2. Len(colaReady') = 0
    BY <1>4, <2>1
  <2>3. ASSUME Trae' PROVE SrvCPU \in PorDespachar'
    BY <2>3, ThreadFacts DEF Trae, PorDespachar
  <2>4. Turnos' >= Listos'
    BY <1>1, <2>2, <2>3, AlMenosUnoDespues, SonNaturalesDespues DEF Listos
  <2> QED
    BY <2>4 DEF Alcanzan
<1>5. CASE paso'[t] = "relacionar" /\ colaReady # <<>> /\ colaReady' = Tail(colaReady)
  <2>1. Len(colaReady') = Len(colaReady) - 1
    BY <1>1, <1>5 DEF TypeOK, TipoColas
  <2>2. Trae' => Trae
    BY <1>3, <1>5, TraeHilo DEF Trae
  <2>3. \A u \in Hilos : ~(paso[u] = "relacionar" /\ sock[u] = sock[t])
    <3> SUFFICES ASSUME NEW u \in Hilos, paso[u] = "relacionar" PROVE FALSE
      OBVIOUS
    <3>1. mutexCPU = u /\ mutexCPU = t
      BY <1>1, <1>3 DEF HilosInv, Elige
    <3> QED
      BY <1>3, <3>1
  <2>4. sock[t] \in Ociosas
    BY <1>1, <1>3, <2>3 DEF Elige, Ociosas, Elegida
  <2>5. Ociosas' \subseteq Ociosas \ {sock[t]}
    BY <1>3, <1>5, LosDemas DEF Ociosas, Elegida, Conectadas
  <2>6. t \in PorDespachar /\ PorDespachar \ {t} \subseteq PorDespachar'
    BY <1>3, LosDemas DEF PorDespachar
  <2> QED
    BY <1>1, <1>2, <2>1, <2>2, <2>4, <2>5, <2>6, Gasta
<1> QED
  BY <1>3, <1>4, <1>5

LEMMA De_relacionar ==
    ASSUME MutexInv, MutexInv', HilosInv, Ubicados, NEW t \in Hilos, relacionar(t)
    PROVE  Cambian(0)
<1>1. TypeOK /\ TypeOK' /\ Elige(t)
  BY DEF MutexInv, TypeInv, HilosInv
<1>2. Bloqueando' <=> Bloqueando
  BY Re_relacionar DEF SinCambio
<1>3. paso[t] = "relacionar"
  BY <1>1, Ef_relacionar
<1>4. pcb[t] \in programas
  BY <1>3, NoSeDescarta
<1>5. /\ Quietos({t}) /\ UNCHANGED <<cpus, colaReady>> /\ sock'[t] = sock[t]
      /\ paso'[t] = "CORRER_PCB" /\ ocupada' = [ocupada EXCEPT ![sock[t]] = TRUE]
  BY <1>1, <1>4, Ef_relacionar DEF Va
<1>6. /\ sock[t] \in Cpus /\ ocupada \in [Cpus -> BOOLEAN] /\ Conectadas \subseteq Cpus
      /\ Conectadas' = Conectadas
  BY <1>1, <1>3, <1>5 DEF Elige, TypeOK, TipoCPUs, Conectadas
<1>7. Ociosas' \subseteq Ociosas
  <2> SUFFICES ASSUME NEW c \in Conectadas, ~ocupada'[c], ~Elegida(c)' PROVE c \in Ociosas
    BY <1>6 DEF Ociosas
  <2>1. c # sock[t] /\ ~ocupada[c]
    BY <1>5, <1>6
  <2>2. ~Elegida(c)
    BY <1>5, <2>1, LosDemas DEF Elegida
  <2> QED
    BY <2>1, <2>2 DEF Ociosas
<1>8. PorDespachar \subseteq PorDespachar'
  BY <1>3, <1>5, SiguePendiente
<1>9. Trae' => Trae
  BY <1>5, TraeHilo DEF Trae
<1> QED
  BY <1>1, <1>2, <1>5, <1>7, <1>8, <1>9, NoQuita, SonFinitos

LEMMA De_correr_pcb ==
    ASSUME MutexInv, MutexInv', HilosInv, NEW t \in Hilos, correr_pcb(t)
    PROVE  Cambian(0)
<1>1. TypeOK /\ TypeOK'
  BY DEF MutexInv, TypeInv
<1>2. Bloqueando' <=> Bloqueando
  BY Re_correr_pcb DEF SinCambio
<1>3. /\ Quietos({t}) /\ UNCHANGED <<cpus, ocupada, colaReady>>
      /\ paso[t] = "CORRER_PCB" /\ paso'[t] = Final(t)
  BY <1>1, Ef_correr_pcb DEF Va
<1>4. paso'[t] # "relacionar" /\ Ociosas' = Ociosas
  BY <1>3, FinalDe, OciosasHilo
<1>5. PorDespachar \subseteq PorDespachar'
  BY <1>3, SiguePendiente
<1>6. Trae' => Trae
  BY <1>3, FinalDe, TraeHilo DEF Trae
<1> QED
  BY <1>1, <1>2, <1>3, <1>4, <1>5, <1>6, NoQuita, SonFinitos

LEMMA De_PasoFinalizador ==
    ASSUME MutexInv, MutexInv', HilosInv, NEW t \in Finalizadores, PasoFinalizador(t)
    PROVE  Cambian(0)
<1>1. TypeOK /\ TypeOK' /\ t \in Hilos /\ t # SrvCPU
  BY ThreadFacts, HilosDistintos DEF MutexInv, TypeInv
<1>2. Bloqueando' <=> Bloqueando
  BY Re_finalizarProceso, Re_sacarDe_colaReady DEF SinCambio, PasoFinalizador
<1>3. /\ Quietos({t}) /\ UNCHANGED <<cpus, ocupada>>
      /\ paso[t] \in {"finalizarProceso", "sacarDe_colaReady"}
      /\ paso'[t] \in {"nada", "sacarDe_colaReady", "exit"}
      /\ \/ UNCHANGED colaReady
         \/ t[2] \in EnReady /\ colaReady' = Sin(colaReady, t[2])
  BY <1>1, Ef_finalizarProceso, Ef_sacarDe_colaReady DEF Va, PasoFinalizador
<1>4. Len(colaReady') <= Len(colaReady)
  <2>1. CASE UNCHANGED colaReady
    BY <1>1, <2>1, SonFinitos
  <2>2. CASE t[2] \in EnReady /\ colaReady' = Sin(colaReady, t[2])
    <3>1. Len(colaReady) \in Nat /\ Len(colaReady) > 0
      <4>1. PICK i \in DOMAIN colaReady : colaReady[i] = t[2]
        BY <2>2 DEF EnReady
      <4>2. DOMAIN colaReady = 1 .. Len(colaReady) /\ Len(colaReady) \in Nat
        BY <1>1 DEF TypeOK, TipoColas
      <4> QED
        BY <4>1, <4>2
    <3>2. Len(colaReady') = Len(colaReady) - 1
      BY <2>2, <3>1 DEF Sin
    <3> QED
      BY <3>1, <3>2
  <2> QED
    BY <1>3, <2>1, <2>2
<1>5. PorDespachar \subseteq PorDespachar' /\ Ociosas' = Ociosas /\ (Trae' <=> Trae)
  BY <1>1, <1>3, SiguePendiente, OciosasHilo, TraeHilo
<1> QED
  BY <1>1, <1>2, <1>4, <1>5, NoQuita

(* The chosen CPUs are the same after a step of the select loop that       *)
(* serves them.                                                            *)
LEMMA ElegidaIgual ==
    ASSUME Quietos({SrvCPU}), paso[SrvCPU] # "relacionar", paso'[SrvCPU] # "relacionar"
    PROVE  \A c : Elegida(c)' <=> Elegida(c)
BY ThreadFacts DEF Quietos, Elegida

LEMMA OciosasSrv ==
    ASSUME Quietos({SrvCPU}), paso[SrvCPU] # "relacionar", paso'[SrvCPU] # "relacionar",
           NEW S, Conectadas' \subseteq Conectadas \cup S,
           \A c \in Conectadas \ S : ocupada[c] => ocupada'[c]
    PROVE  Ociosas' \subseteq Ociosas \cup S
BY ElegidaIgual DEF Ociosas

LEMMA QuietosNadie == Quietos({}) => Quietos({SrvCPU})
BY DEF Quietos

LEMMA De_nuevaConexionCPU ==
    ASSUME MutexInv, MutexInv', HilosInv, NEW c \in Cpus, nuevaConexionCPU(c)
    PROVE  Cambian(1)
<1>1. TypeOK /\ TypeOK'
  BY DEF MutexInv, TypeInv
<1>2. /\ Quietos({SrvCPU}) /\ UNCHANGED colaReady /\ cpus' = Append(cpus, c)
      /\ paso[SrvCPU] = "select" /\ paso'[SrvCPU] = "enviar_a_cpu"
      /\ ocupada' = [ocupada EXCEPT ![c] = FALSE]
      /\ (Bloqueando' <=> Bloqueando)
  BY <1>1, Ef_nuevaConexionCPU, Re_nuevaConexionCPU DEF Va
<1>3. Conectadas' \subseteq Conectadas \cup {c}
  <2>1. cpus \in Seq(Cpus)
    BY <1>1 DEF TypeOK, TipoCPUs
  <2> QED
    BY <1>2, <2>1 DEF Conectadas
<1>4. \A d \in Conectadas \ {c} : ocupada[d] => ocupada'[d]
  BY <1>1, <1>2 DEF TypeOK, TipoCPUs
<1>5. Ociosas' \subseteq Ociosas \cup {c}
  BY <1>2, <1>3, <1>4, OciosasSrv
<1>6. SrvCPU \notin PorDespachar /\ PorDespachar \cup {SrvCPU} \subseteq PorDespachar'
  BY <1>2, LosDemas, ThreadFacts DEF PorDespachar
<1>7. Len(colaReady') <= Len(colaReady)
  BY <1>1, <1>2, SonFinitos
<1> QED
  BY <1>1, <1>2, <1>5, <1>6, <1>7, Agrega

LEMMA De_finishCPU ==
    ASSUME MutexInv, MutexInv', HilosInv, NEW c \in Cpus, finishCPU(c)
    PROVE  Cambian(0)
<1>1. TypeOK /\ TypeOK'
  BY DEF MutexInv, TypeInv
<1>2. /\ Quietos({SrvCPU}) /\ UNCHANGED <<paso, colaReady, ocupada>> /\ paso[SrvCPU] = "select"
      /\ (Bloqueando' <=> Bloqueando)
  BY <1>1, Ef_finishCPU, Re_finishCPU, QuietosNadie
<1>3. Conectadas' \subseteq Conectadas
  BY <1>1, Ef_finishCPU, SinCPU DEF Conectadas
<1>4. Ociosas' \subseteq Ociosas
  BY <1>2, <1>3 DEF Ociosas, Elegida, Quietos
<1>5. PorDespachar \subseteq PorDespachar' /\ (Trae' <=> Trae)
  BY <1>2 DEF PorDespachar, Trae
<1> QED
  BY <1>1, <1>2, <1>4, <1>5, NoQuita, SonFinitos

LEMMA De_retornarPCB ==
    ASSUME MutexInv, MutexInv', HilosInv, NEW c \in Cpus, retornarPCB(c)
    PROVE  Cambian(1)
<1>1. TypeOK /\ TypeOK'
  BY DEF MutexInv, TypeInv
<1>2. /\ Quietos({SrvCPU}) /\ UNCHANGED <<colaReady, cpus>>
      /\ paso[SrvCPU] = "select" /\ paso'[SrvCPU] \in {"desconectarCPU", "processIsForFinish"}
      /\ ocupada' = [ocupada EXCEPT ![c] = FALSE]
      /\ (Bloqueando' <=> Bloqueando)
  BY <1>1, Ef_retornarPCB, Re_retornarPCB DEF Va
<1>3. \A d \in Conectadas \ {c} : ocupada[d] => ocupada'[d]
  BY <1>1, <1>2 DEF TypeOK, TipoCPUs
<1>4. Ociosas' \subseteq Ociosas \cup {c}
  BY <1>2, <1>3, OciosasSrv DEF Conectadas
<1>5. SrvCPU \notin PorDespachar /\ PorDespachar \cup {SrvCPU} \subseteq PorDespachar'
  BY <1>2, LosDemas, ThreadFacts DEF PorDespachar
<1>6. Len(colaReady') <= Len(colaReady)
  BY <1>1, <1>2, SonFinitos
<1> QED
  BY <1>1, <1>2, <1>4, <1>5, <1>6, Agrega

LEMMA De_wait_bloquea ==
    ASSUME MutexInv, MutexInv', HilosInv, NEW c \in Cpus, wait_bloquea(c)
    PROVE  Cambian(1)
<1>1. TypeOK /\ TypeOK'
  BY DEF MutexInv, TypeInv
<1>2. /\ Quietos({SrvCPU}) /\ UNCHANGED <<colaReady, cpus, ocupada>>
      /\ paso[SrvCPU] = "select" /\ paso'[SrvCPU] \in {"exit", "encolar"}
  BY <1>1, Ef_wait_bloquea DEF Va
<1>3. Ociosas' \subseteq Ociosas
  BY <1>2, OciosasHilo, ThreadFacts
<1>4. SrvCPU \notin PorDespachar /\ PorDespachar \cup {SrvCPU} \subseteq PorDespachar'
  BY <1>2, LosDemas, ThreadFacts DEF PorDespachar
<1>5. Len(colaReady') <= Len(colaReady)
  BY <1>1, <1>2, SonFinitos
<1> QED
  BY <1>1, <1>3, <1>4, <1>5, Agrega

LEMMA De_signal ==
    ASSUME MutexInv, MutexInv', HilosInv, NEW c \in Cpus, signal(c)
    PROVE  Cambian(0) \/ Cambian(1)
<1>1. TypeOK /\ TypeOK'
  BY DEF MutexInv, TypeInv
<1>2. /\ Quietos({SrvCPU}) /\ UNCHANGED <<colaReady, cpus, ocupada>>
      /\ paso[SrvCPU] = "select"
      /\ paso'[SrvCPU] \in {"RES_SIGNAL", "enviar_a_cpu", "moverA_colaReadySinFinalizar"}
      /\ (Bloqueando' <=> Bloqueando)
  BY <1>1, Ef_signal, Re_signal DEF Va
<1>3. Ociosas' \subseteq Ociosas
  BY <1>2, OciosasHilo, ThreadFacts
<1>4. Len(colaReady') <= Len(colaReady)
  BY <1>1, <1>2, SonFinitos
<1>5. CASE paso'[SrvCPU] = "RES_SIGNAL"
  <2>1. PorDespachar \subseteq PorDespachar' /\ ~Trae'
    BY <1>2, <1>5, SiguePendiente, ThreadFacts DEF Trae
  <2> QED
    BY <1>1, <1>2, <1>3, <1>4, <2>1, NoQuita
<1>6. CASE paso'[SrvCPU] # "RES_SIGNAL"
  <2>1. SrvCPU \notin PorDespachar /\ PorDespachar \cup {SrvCPU} \subseteq PorDespachar'
    BY <1>2, <1>6, LosDemas, ThreadFacts DEF PorDespachar
  <2> QED
    BY <1>1, <1>3, <1>4, <2>1, Agrega
<1> QED
  BY <1>5, <1>6

LEMMA De_wait_ok ==
    ASSUME MutexInv, MutexInv', HilosInv, NEW c \in Cpus, wait_ok(c)
    PROVE  Cambian(0)
<1>1. TypeOK /\ TypeOK'
  BY DEF MutexInv, TypeInv
<1>2. UNCHANGED <<paso, sock, colaReady, cpus, ocupada>> /\ (Bloqueando' <=> Bloqueando)
  BY <1>1, Ef_wait_ok, Re_wait_ok
<1>3. UNCHANGED <<PorDespachar, Ociosas>> /\ (Trae' <=> Trae)
  BY <1>2 DEF PorDespachar, Ociosas, Elegida, Conectadas, Trae
<1> QED
  BY <1>1, <1>2, <1>3, NoQuita, SonFinitos

(* The steps of the select loop once it has the message. *)
LEMMA De_SigueSrvCPU ==
    ASSUME MutexInv, MutexInv', HilosInv, SigueSrvCPU
    PROVE  Cambian(0)
<1>1. TypeOK /\ TypeOK'
  BY DEF MutexInv, TypeInv
<1>2. CASE wait_encolar
  <2>1. /\ Quietos({SrvCPU}) /\ UNCHANGED <<colaReady, cpus>>
        /\ paso[SrvCPU] = "encolar" /\ paso'[SrvCPU] = "program_change_running_wait"
        /\ ocupada' = [ocupada EXCEPT ![atendida] = FALSE]
    BY <1>1, <1>2, Ef_wait_encolar DEF Va
  <2>2. Bloqueando /\ ~Bloqueando'
    BY <2>1 DEF Bloqueando
  <2>3. \A d \in Conectadas \ {atendida} : ocupada[d] => ocupada'[d]
    BY <1>1, <2>1 DEF TypeOK, TipoCPUs
  <2>4. Ociosas' \subseteq Ociosas \cup {atendida}
    BY <2>1, <2>3, OciosasSrv DEF Conectadas
  <2>5. PorDespachar \subseteq PorDespachar' /\ ~Trae'
    BY <2>1, SiguePendiente, ThreadFacts DEF Trae
  <2> QED
    BY <1>1, <2>1, <2>2, <2>4, <2>5, NoQuita, SonFinitos
<1>3. CASE wait_responder
  <2>1. /\ Quietos({SrvCPU}) /\ UNCHANGED <<colaReady, cpus, ocupada>>
        /\ paso[SrvCPU] = "RES_WAIT" /\ paso'[SrvCPU] = "enviar_a_cpu"
    BY <1>1, <1>3, Ef_wait_responder DEF Va
  <2>2. ~Bloqueando' /\ ~Trae'
    BY <2>1 DEF Bloqueando, Trae
  <2>3. Ociosas' \subseteq Ociosas /\ PorDespachar \subseteq PorDespachar'
    BY <2>1, OciosasHilo, SiguePendiente, ThreadFacts
  <2> QED
    BY <1>1, <2>1, <2>2, <2>3, NoQuita, SonFinitos
<1>4. CASE retornarPCB_desconectar
  <2>1. /\ Quietos({SrvCPU}) /\ UNCHANGED <<colaReady, ocupada>>
        /\ paso[SrvCPU] = "desconectarCPU" /\ paso'[SrvCPU] = "processIsForFinish"
        /\ (Bloqueando' <=> Bloqueando)
    BY <1>1, <1>4, Ef_retornarPCB_desconectar, Re_retornarPCB_desconectar DEF Va
  <2>2. Conectadas' \subseteq Conectadas
    BY <1>1, <1>4, Ef_retornarPCB_desconectar, SinCPU DEF Conectadas
  <2>3. Ociosas' \subseteq Ociosas \cup {}
    BY <2>1, <2>2, OciosasSrv
  <2>4. PorDespachar \subseteq PorDespachar' /\ Trae
    BY <2>1, SiguePendiente, ThreadFacts DEF Trae
  <2> QED
    BY <1>1, <2>1, <2>3, <2>4, NoQuita, SonFinitos
<1>5. CASE retornarPCB_decidir
  <2>1. /\ Quietos({SrvCPU}) /\ UNCHANGED <<colaReady, cpus, ocupada>>
        /\ paso[SrvCPU] = "processIsForFinish" /\ paso'[SrvCPU] \in {"exit", "moverA_colaReady"}
        /\ (Bloqueando' <=> Bloqueando)
    BY <1>1, <1>5, Ef_retornarPCB_decidir, Re_retornarPCB_decidir DEF Va
  <2>2. Ociosas' \subseteq Ociosas /\ PorDespachar \subseteq PorDespachar' /\ Trae
    BY <2>1, OciosasHilo, SiguePendiente, ThreadFacts DEF Trae
  <2> QED
    BY <1>1, <2>1, <2>2, NoQuita, SonFinitos
<1>6. CASE program_change_running
  <2>1. /\ Quietos({SrvCPU}) /\ UNCHANGED <<colaReady, cpus, ocupada>>
        /\ paso[SrvCPU] \in {"program_change_running", "program_change_running_wait"}
        /\ paso'[SrvCPU] \in {"enviar_a_cpu", "RES_WAIT"}
        /\ (Bloqueando' <=> Bloqueando)
    BY <1>1, <1>6, Ef_program_change_running, Re_program_change_running DEF Va
  <2>2. Ociosas' \subseteq Ociosas /\ PorDespachar \subseteq PorDespachar' /\ ~Trae'
    BY <2>1, OciosasHilo, SiguePendiente, ThreadFacts DEF Trae
  <2> QED
    BY <1>1, <2>1, <2>2, NoQuita, SonFinitos
<1>7. CASE signal_responder
  <2>1. /\ Quietos({SrvCPU}) /\ UNCHANGED <<colaReady, cpus, ocupada>>
        /\ paso[SrvCPU] = "RES_SIGNAL" /\ paso'[SrvCPU] = "select"
        /\ (Bloqueando' <=> Bloqueando)
    BY <1>1, <1>7, Ef_signal_responder, Re_signal_responder DEF Va
  <2>2. Ociosas' \subseteq Ociosas /\ PorDespachar \subseteq PorDespachar' /\ ~Trae'
    BY <2>1, OciosasHilo, SiguePendiente, ThreadFacts DEF Trae
  <2> QED
    BY <1>1, <2>1, <2>2, NoQuita, SonFinitos
<1> QED
  BY <1>2, <1>3, <1>4, <1>5, <1>6, <1>7 DEF SigueSrvCPU

(* The steps that are nobody's turn. *)
LEMMA De_igual ==
    ASSUME TypeOK, TypeOK', UNCHANGED <<paso, vuelve, sock, colaReady, cpus, ocupada>>
    PROVE  Cambian(0)
<1>1. UNCHANGED <<PorDespachar, Ociosas>> /\ (Trae' <=> Trae) /\ (Bloqueando' <=> Bloqueando)
  BY DEF PorDespachar, Ociosas, Elegida, Conectadas, Trae, Bloqueando
<1> QED
  BY <1>1, NoQuita, SonFinitos

LEMMA De_nuevoPrograma ==
    ASSUME MutexInv, MutexInv', HilosInv, NEW c \in Consolas, nuevoPrograma(c)
    PROVE  Cambian(0)
<1>1. TypeOK /\ TypeOK'
  BY DEF MutexInv, TypeInv
<1>2. PICK t \in Hilos : t = Programa(ultimoPID) /\ t # SrvCPU
  BY <1>1, Ef_nuevoPrograma, HilosDistintos
<1>3. /\ Quietos({t}) /\ UNCHANGED <<colaReady, cpus, ocupada>>
      /\ paso[t] = "nada" /\ paso'[t] = "cargar_programa"
  <2>1. ultimoPID \in PID /\ ultimoPID \in Int
    BY <1>1, Ef_nuevoPrograma DEF TypeOK, TipoColas
  <2>2. paso[t] = "nada"
    BY <1>2, <2>1 DEF MutexInv, SinEmpezar
  <2> QED
    BY <1>1, <1>2, <2>2, Ef_nuevoPrograma DEF Va
<1>4. Ociosas' = Ociosas /\ PorDespachar \subseteq PorDespachar' /\ (Trae' <=> Trae)
  BY <1>2, <1>3, OciosasHilo, SiguePendiente, TraeHilo
<1>5. Bloqueando' <=> Bloqueando
  BY <1>2, <1>3, ThreadFacts DEF Quietos, Bloqueando
<1> QED
  BY <1>1, <1>3, <1>4, <1>5, NoQuita, SonFinitos

LEMMA De_pedirFin ==
    ASSUME MutexInv, MutexInv',
           \/ \E c \in Consolas : desconexionConsola(c)
           \/ \E p \in PID : finalizarProgramaConsola(p)
    PROVE  Cambian(0)
<1>1. TypeOK /\ TypeOK'
  BY DEF MutexInv, TypeInv
<1>2. /\ UNCHANGED <<vuelve, sock, colaReady, cpus, ocupada>>
      /\ \A u \in Hilos : \/ paso'[u] = paso[u]
                          \/ u # SrvCPU /\ paso[u] = "nada" /\ paso'[u] = "finalizarProceso"
  BY Ef_pedirFin, HilosDistintos
<1>3. paso'[SrvCPU] = paso[SrvCPU]
  BY <1>2, ThreadFacts
<1>4. Ociosas' = Ociosas /\ PorDespachar \subseteq PorDespachar'
  BY <1>2 DEF Ociosas, Elegida, Conectadas, PorDespachar
<1>5. (Trae' <=> Trae) /\ (Bloqueando' <=> Bloqueando)
  BY <1>2, <1>3 DEF Trae, Bloqueando
<1> QED
  BY <1>1, <1>2, <1>4, <1>5, NoQuita, SonFinitos

LEMMA De_PasoHilo ==
    ASSUME MutexInv, MutexInv', HilosInv, Ubicados, NEW t \in Hilos, Despacha(t), PasoHilo(t)
    PROVE  Alcanzan' \/ Cambian(0) \/ Cambian(1) \/ Cambian(-1)
<1>1. CASE \/ cargar_programa(t) \/ moverA_colaNew(t) \/ sem_wait(t) \/ inicializar_programa(t)
           \/ moverA_colaExit(t) \/ finalizarProcesoMemoria(t) \/ finishProcess(t)
  BY <1>1, De_sencillo
<1>2. CASE moverA_colaReady(t)
  BY <1>2, De_moverA_colaReady
<1>3. CASE enviar_a_cpu(t) \/ sacarCualquieraDeReady(t)
  BY <1>3, De_enviar_a_cpu, De_sacarCualquieraDeReady
<1>4. CASE relacionar(t) \/ correr_pcb(t)
  BY <1>4, De_relacionar, De_correr_pcb
<1> QED
  BY <1>1, <1>2, <1>3, <1>4 DEF PasoHilo

LEMMA Alcanzan_Next ==
    ASSUME MutexInv, MutexInv', HilosInv, Ubicados, \A t \in Hilos : Despacha(t), Alcanzan,
           [Next]_vars
    PROVE  Alcanzan'
<1>1. TypeOK /\ TypeOK'
  BY DEF MutexInv, TypeInv
<1>2. ASSUME Cambian(0) \/ Cambian(1) \/ Cambian(-1) PROVE Alcanzan'
  <2>1. 0 \in Int /\ 1 \in Int /\ -1 \in Int
    OBVIOUS
  <2> QED
    BY <1>1, <1>2, <2>1, Siguen
<1>3. CASE UNCHANGED vars
  BY <1>1, <1>2, <1>3, De_igual DEF vars
<1>4. CASE \/ \E c \in Consolas : desconexionConsola(c)
           \/ \E p \in PID : finalizarProgramaConsola(p)
  BY <1>2, <1>4, De_pedirFin
<1>5. ASSUME NEW c \in Consolas, nuevoPrograma(c) PROVE Alcanzan'
  BY <1>2, <1>5, De_nuevoPrograma
<1>6. ASSUME NEW t \in Hilos, PasoHilo(t) PROVE Alcanzan'
  BY <1>2, <1>6, De_PasoHilo
<1>7. ASSUME NEW t \in Finalizadores, PasoFinalizador(t) PROVE Alcanzan'
  BY <1>2, <1>7, De_PasoFinalizador
<1>8. CASE SigueSrvCPU
  BY <1>2, <1>8, De_SigueSrvCPU
<1>9. ASSUME NEW c \in Cpus, ManejaPCB(c) \/ ManejaOtro(c) PROVE Alcanzan'
  BY <1>2, <1>9, De_retornarPCB, De_wait_bloquea, De_signal, De_nuevaConexionCPU, De_finishCPU,
     De_wait_ok DEF ManejaPCB, ManejaOtro
<1>10. ASSUME NEW c \in Cpus, \/ PasoProcesoCPU(c) \/ conectarCPU(c) \/ signalHandler(c)
                              \/ waitAnsisop(c) \/ signalAnsisop(c)
       PROVE  Alcanzan'
  BY <1>1, <1>2, <1>10, KernelIgual, De_igual
<1> QED
  BY <1>3, <1>4, <1>5, <1>6, <1>7, <1>8, <1>9, <1>10 DEF Next, Nucleo, end

(* A thread that puts its program in Ready was told to dispatch afterwards *)
(* when the program was given its pages.                                   *)
Despachan == \A t \in Hilos : Despacha(t)

LEMMA DespachaIgual ==
    ASSUME Despachan, NEW t \in Hilos, Quietos({t}),
           \/ t = SrvCPU
           \/ paso'[t] \notin {"moverA_colaReady", "moverA_colaReadySinFinalizar"}
           \/ vuelve'[t] = "enviar_a_cpu"
    PROVE  Despachan'
BY DEF Quietos, Despachan, Despacha

LEMMA Despachan_PasoHilo ==
    ASSUME MutexInv, HilosInv, Despachan, NEW t \in Hilos, PasoHilo(t)
    PROVE  Despachan'
<1>1. TypeOK /\ Lleva(t)
  BY DEF MutexInv, TypeInv, CadaUnoLleva
<1>2. CASE \/ cargar_programa(t) \/ moverA_colaNew(t) \/ sem_wait(t) \/ inicializar_programa(t)
  BY <1>1, <1>2, DespachaIgual, Ef_cargar_programa, Ef_moverA_colaNew, Ef_sem_wait,
     Ef_inicializar_programa DEF Va
<1>3. CASE moverA_colaReady(t) \/ moverA_colaExit(t) \/ finalizarProcesoMemoria(t) \/ finishProcess(t)
  <2>1. Quietos({t}) /\ paso'[t] \in {"exit", "FINZ_PROGM", "END_PRGM"} \cup Regresos
    BY <1>1, <1>3, Ef_moverA_colaReady, Ef_moverA_colaExit, Ef_finalizarProcesoMemoria, Ef_finishProcess
       DEF Va, Lleva
  <2> QED
    BY <2>1, DespachaIgual DEF Regresos
<1>4. CASE enviar_a_cpu(t) \/ sacarCualquieraDeReady(t) \/ correr_pcb(t)
  <2>1. Quietos({t}) /\ paso'[t] \in {Final(t), "sacarCualquieraDeReady", "relacionar"}
    BY <1>1, <1>4, Ef_enviar_a_cpu, Ef_sacarCualquieraDeReady, Ef_correr_pcb DEF Va
  <2> QED
    BY <2>1, FinalDe, DespachaIgual
<1>5. CASE relacionar(t)
  <2>1. Quietos({t}) /\ paso'[t] \in {Final(t), "CORRER_PCB"}
    BY <1>1, <1>5, Ef_relacionar DEF Va
  <2> QED
    BY <2>1, FinalDe, DespachaIgual
<1> QED
  BY <1>2, <1>3, <1>4, <1>5 DEF PasoHilo

LEMMA Despachan_Next == MutexInv /\ HilosInv /\ Despachan /\ [Next]_vars => Despachan'
<1> SUFFICES ASSUME MutexInv, HilosInv, Despachan, [Next]_vars PROVE Despachan'
  OBVIOUS
<1>1. TypeOK
  BY DEF MutexInv, TypeInv
<1>2. ASSUME UNCHANGED <<paso, vuelve>> PROVE Despachan'
  BY <1>2 DEF Despachan, Despacha
<1>3. CASE \/ \E c \in Consolas : desconexionConsola(c)
           \/ \E p \in PID : finalizarProgramaConsola(p)
  BY <1>3, Ef_pedirFin DEF Despachan, Despacha
<1>4. ASSUME NEW c \in Consolas, nuevoPrograma(c) PROVE Despachan'
  BY <1>1, <1>4, Ef_nuevoPrograma, DespachaIgual DEF Va
<1>5. ASSUME NEW t \in Finalizadores, PasoFinalizador(t) PROVE Despachan'
  <2>1. t \in Hilos /\ Quietos({t}) /\ paso'[t] \in {"nada", "sacarDe_colaReady", "exit"}
    BY <1>1, <1>5, ThreadFacts, Ef_finalizarProceso, Ef_sacarDe_colaReady DEF Va, PasoFinalizador
  <2> QED
    BY <2>1, DespachaIgual
<1>6. ASSUME SigueSrvCPU \/ \E c \in Cpus : ManejaPCB(c) \/ ManejaOtro(c) PROVE Despachan'
  <2>1. SigueSrvCPU => Quietos({SrvCPU})
    BY <1>1, Ef_retornarPCB_desconectar, Ef_retornarPCB_decidir, Ef_program_change_running,
       Ef_wait_encolar, Ef_wait_responder, Ef_signal_responder
       DEF SigueSrvCPU
  <2>2. \A c \in Cpus : ManejaPCB(c) \/ ManejaOtro(c) => Quietos({SrvCPU})
    BY <1>1, QuietosNadie, Ef_nuevaConexionCPU, Ef_finishCPU, Ef_wait_ok, Ef_retornarPCB,
       Ef_wait_bloquea, Ef_signal
       DEF ManejaPCB, ManejaOtro
  <2> QED
    BY <1>6, <2>1, <2>2, ThreadFacts, DespachaIgual
<1> QED
  BY <1>2, <1>3, <1>4, <1>5, <1>6, Despachan_PasoHilo, KernelIgual DEF Next, Nucleo, end, vars

LEMMA Despachos_Init == Init => Despachan /\ Alcanzan
<1> SUFFICES ASSUME Init PROVE Despachan /\ Alcanzan
  OBVIOUS
<1>1. TypeOK
  BY MutexInv_Init DEF MutexInv, TypeInv
<1>2. Despachan
  BY DEF Init, Despachan, Despacha
<1>3. Listos = 0
  BY ThreadFacts DEF Init, Listos, Trae
<1>4. Turnos \in Nat
  BY <1>1, SonFinitos
<1> QED
  BY <1>2, <1>3, <1>4 DEF Alcanzan

TurnosInv == Despachan /\ (~desfase => Alcanzan)

LEMMA TurnosInv_Siempre == Spec => []TurnosInv
<1>1. Init => TurnosInv
  BY Despachos_Init DEF TurnosInv
<1>2. PlanInv /\ PlanInv' /\ TurnosInv /\ [Next]_vars => TurnosInv'
  <2> SUFFICES ASSUME PlanInv, PlanInv', TurnosInv, [Next]_vars PROVE TurnosInv'
    OBVIOUS
  <2>1. MutexInv /\ HilosInv /\ MutexInv' /\ Despachan'
    BY Despachan_Next DEF PlanInv, TurnosInv
  <2>2. ASSUME ~desfase' PROVE Alcanzan'
    <3>1. Ubicados /\ Alcanzan /\ \A t \in Hilos : Despacha(t)
      BY <2>1, <2>2, DesfaseQueda DEF PlanInv, Reparto, TurnosInv, Despachan
    <3> QED
      BY <2>1, <3>1, Alcanzan_Next
  <2> QED
    BY <2>1, <2>2 DEF TurnosInv
<1> QED
  BY <1>1, <1>2, PlanInv_Siempre, PTL DEF Spec

LEMMA DeDespachosSuficientes == ASSUME TypeOK, Alcanzan PROVE DespachosSuficientes
<1>1. Cardinality(PorDespachar) = Turnos /\ Turnos \in Nat
  BY SonFinitos DEF Turnos
<1>2. Len(colaReady) <= Listos /\ Len(colaReady) \in Nat
  BY SonFinitos DEF Listos
<1>3. Cardinality(Ociosas) <= Huecos /\ Cardinality(Ociosas) \in Nat
  BY SonFinitos DEF Huecos
<1>4. Turnos >= Listos \/ Turnos >= Huecos
  BY DEF Alcanzan
<1>5. Listos \in Nat /\ Huecos \in Nat
  BY SonFinitos
<1> QED
  BY <1>1, <1>2, <1>3, <1>4, <1>5 DEF DespachosSuficientes, Ociosas

(* A process never waits in Ready beside an idle CPU without a turn to     *)
(* dispatch left for it or for the CPU, whatever the number of CPUs and    *)
(* threads and whatever the order of their calls (enviar_a_cpu,            *)
(* Kernel.c:855-918, and its callers).                                     *)
THEOREM EnoughDispatches == Spec => []DespachosSuficientes
<1>1. PlanInv /\ TurnosInv => DespachosSuficientes
  BY DeDespachosSuficientes DEF PlanInv, MutexInv, TypeInv, TurnosInv, DespachosSuficientes
<1> QED
  BY <1>1, PlanInv_Siempre, TurnosInv_Siempre, PTL

-----------------------------------------------------------------------------
(* The semaphores: a PID is queued once, on one semaphore; a process in    *)
(* Blocked is queued, except while the handler of its WAIT is going to     *)
(* queue it; and what a value below zero owes is what is queued, with the  *)
(* PID of the WAIT that is being handled.                                  *)
EnCola(p) == \E s \in Semaforos : \E i \in DOMAIN cola[s] : cola[s][i] = p
Unicas ==
    \A s \in Semaforos, r \in Semaforos : \A i \in DOMAIN cola[s] : \A j \in DOMAIN cola[r] :
        cola[s][i] = cola[r][j] => s = r /\ i = j
Esperan == \A p \in PID : EnCola(p) => p \in colaBlocked \cup colaExit
Duermen == \A p \in colaBlocked : EnCola(p) \/ (paso[SrvCPU] = "encolar" /\ pid[SrvCPU] = p)
SeBloquea ==
    Bloqueando =>
        /\ pid[SrvCPU] \in PID /\ ~EnCola(pid[SrvCPU])
        /\ IF paso[SrvCPU] = "exit" THEN pcb[SrvCPU] = pid[SrvCPU]
                                    ELSE pid[SrvCPU] \in colaBlocked \cup colaExit
Debe(s) == Bloqueando /\ semCPU[atendida] = s
Cuentas ==
    \A s \in Semaforos :
        Len(cola[s]) + (IF Debe(s) THEN 1 ELSE 0) = IF valor[s] < 0 THEN -valor[s] ELSE 0
EnSemaforo == {"WAIT", "SIGNAL", "esperaWait"}
Pedidos == \A c \in Cpus : estado[c] \in EnSemaforo => semCPU[c] \in Semaforos
EsperaInv == Unicas /\ Esperan /\ Duermen /\ SeBloquea /\ Cuentas /\ Pedidos

LEMMA EsperaIgual ==
    ASSUME EsperaInv, UNCHANGED <<cola, valor, colaBlocked>>, colaExit \subseteq colaExit',
           Bloqueando' <=> Bloqueando,
           Bloqueando =>
              /\ atendida' = atendida /\ semCPU'[atendida] = semCPU[atendida]
              /\ pid'[SrvCPU] = pid[SrvCPU]
              /\ paso[SrvCPU] = "encolar" => paso'[SrvCPU] = "encolar"
              /\ \/ paso'[SrvCPU] = paso[SrvCPU] /\ pcb'[SrvCPU] = pcb[SrvCPU]
                 \/ paso'[SrvCPU] # "exit" /\ (paso[SrvCPU] = "exit" => pid[SrvCPU] \in colaExit'),
           \A c \in Cpus : estado'[c] \in EnSemaforo => semCPU'[c] \in Semaforos
    PROVE  EsperaInv'
<1>1. \A p : EnCola(p)' <=> EnCola(p)
  BY DEF EnCola
<1>2. Unicas' /\ Pedidos'
  BY DEF EsperaInv, Unicas, Pedidos
<1>3. Esperan'
  BY <1>1 DEF EsperaInv, Esperan
<1>4. Duermen'
  BY <1>1 DEF EsperaInv, Duermen, Bloqueando
<1>5. SeBloquea'
  BY <1>1 DEF EsperaInv, SeBloquea
<1>6. \A s : Debe(s)' <=> Debe(s)
  BY DEF Debe
<1>7. Cuentas'
  BY <1>6 DEF EsperaInv, Cuentas
<1> QED
  BY <1>2, <1>3, <1>4, <1>5, <1>7 DEF EsperaInv

(* The steps that leave the semaphores as they are. *)
LEMMA Sem_PasoHilo ==
    ASSUME NEW t, PasoHilo(t)
    PROVE  UNCHANGED <<cola, valor, semCPU, estado>>
BY DEF PasoHilo, cargar_programa, moverA_colaNew, sem_wait, inicializar_programa, moverA_colaReady,
       moverA_colaExit, finalizarProcesoMemoria, finishProcess, enviar_a_cpu,
       sacarCualquieraDeReady, relacionar, correr_pcb

LEMMA Sem_PasoFinalizador ==
    ASSUME NEW t, PasoFinalizador(t)
    PROVE  UNCHANGED <<cola, valor, semCPU, estado>>
BY DEF PasoFinalizador, finalizarProceso, sacarDe_colaReady

LEMMA Sem_SigueSrvCPU ==
    ASSUME SigueSrvCPU, ~wait_encolar
    PROVE  UNCHANGED <<cola, valor, semCPU, estado>>
BY DEF SigueSrvCPU, retornarPCB_desconectar, retornarPCB_decidir, program_change_running,
       wait_responder, signal_responder

LEMMA Sem_Consola ==
    ASSUME \/ \E c \in Consolas : nuevoPrograma(c) \/ desconexionConsola(c)
           \/ \E p \in PID : finalizarProgramaConsola(p)
    PROVE  UNCHANGED <<cola, valor, semCPU, estado>>
BY DEF nuevoPrograma, desconexionConsola, finalizarProgramaConsola

LEMMA Sem_SrvCPU ==
    ASSUME NEW c, retornarPCB(c) \/ nuevaConexionCPU(c) \/ finishCPU(c)
    PROVE  UNCHANGED <<cola, valor, semCPU>>
BY DEF retornarPCB, nuevaConexionCPU, cargarCPU, finishCPU

(* A step that leaves the select loop where it is. *)
LEMMA EsperaAjena ==
    ASSUME EsperaInv, UNCHANGED <<cola, valor, semCPU, estado, colaBlocked, atendida>>,
           colaExit \subseteq colaExit',
           paso'[SrvCPU] = paso[SrvCPU], vuelve'[SrvCPU] = vuelve[SrvCPU],
           pcb'[SrvCPU] = pcb[SrvCPU], pid'[SrvCPU] = pid[SrvCPU]
    PROVE  EsperaInv'
<1>1. Bloqueando' <=> Bloqueando
  BY DEF Bloqueando
<1>2. Pedidos
  BY DEF EsperaInv
<1> QED
  BY <1>1, <1>2, EsperaIgual DEF Pedidos

(* A step of the select loop that is not handling a WAIT. *)
LEMMA EsperaDeOtro ==
    ASSUME EsperaInv, UNCHANGED <<cola, valor, semCPU, colaBlocked>>, colaExit \subseteq colaExit',
           \A c \in Cpus : estado'[c] \in EnSemaforo => estado[c] \in EnSemaforo,
           ~Bloqueando, ~Bloqueando'
    PROVE  EsperaInv'
<1>1. \A c \in Cpus : estado'[c] \in EnSemaforo => semCPU'[c] \in Semaforos
  BY DEF EsperaInv, Pedidos
<1> QED
  BY <1>1, EsperaIgual

LEMMA Es_PasoHilo ==
    ASSUME MutexInv, HilosInv, EsperaInv, NEW t \in Hilos, PasoHilo(t)
    PROVE  EsperaInv'
<1>1. TypeOK /\ Lleva(t) /\ Nuevo(t)
  BY DEF MutexInv, TypeInv, CadaUnoLleva, HilosInv
<1>2. UNCHANGED <<cola, valor, semCPU, estado>>
  BY Sem_PasoHilo
<1>3. Quietos({t}) /\ UNCHANGED <<colaBlocked, atendida>> /\ colaExit \subseteq colaExit'
  BY <1>1, Ef_cargar_programa, Ef_moverA_colaNew, Ef_sem_wait, Ef_inicializar_programa,
     Ef_moverA_colaReady, Ef_moverA_colaExit, Ef_finalizarProcesoMemoria, Ef_finishProcess,
     Ef_enviar_a_cpu, Ef_sacarCualquieraDeReady, Ef_relacionar, Ef_correr_pcb
     DEF PasoHilo
<1>4. CASE t # SrvCPU
  BY <1>2, <1>3, <1>4, EsperaAjena, ThreadFacts DEF Quietos
<1>5. CASE t = SrvCPU /\ (moverA_colaExit(t) \/ finalizarProcesoMemoria(t) \/ finishProcess(t))
  <2>1. Bloqueando' <=> Bloqueando
    BY <1>5, Re_moverA_colaExit, Re_finalizarProcesoMemoria, Re_finishProcess DEF SinCambio
  <2>2. Pedidos
    BY DEF EsperaInv
  <2>3. ASSUME Bloqueando
        PROVE  /\ pid'[SrvCPU] = pid[SrvCPU] /\ paso[SrvCPU] # "encolar"
               /\ paso'[SrvCPU] # "exit" /\ (paso[SrvCPU] = "exit" => pid[SrvCPU] \in colaExit')
    <3>1. paso[SrvCPU] = "exit" => pcb[SrvCPU] = pid[SrvCPU]
      BY <2>3 DEF EsperaInv, SeBloquea
    <3>2. CASE moverA_colaExit(t)
      <4>1. paso[SrvCPU] = "exit"
        BY <1>1, <1>5, <2>3, <3>2, Ef_moverA_colaExit DEF Bloqueando
      <4>2. paso'[SrvCPU] = "FINZ_PROGM" /\ pid'[SrvCPU] = pcb[SrvCPU] /\ colaExit' = colaExit \cup {pcb[SrvCPU]}
        BY <1>1, <1>5, <3>2, <4>1, Ef_moverA_colaExit DEF Va
      <4> QED
        BY <3>1, <4>1, <4>2
    <3>3. CASE finalizarProcesoMemoria(t) \/ finishProcess(t)
      BY <1>1, <1>5, <3>3, Ef_finalizarProcesoMemoria, Ef_finishProcess DEF Va, Lleva, Regresos
    <3> QED
      BY <1>5, <3>2, <3>3
  <2> QED
    BY <1>2, <1>3, <2>1, <2>2, <2>3, EsperaIgual DEF Pedidos
<1>6. CASE t = SrvCPU /\ ~(moverA_colaExit(t) \/ finalizarProcesoMemoria(t) \/ finishProcess(t))
  <2>1. Bloqueando' <=> Bloqueando
    BY <1>6, Re_moverA_colaReady, Re_cargar_programa, Re_moverA_colaNew, Re_sem_wait,
       Re_inicializar_programa, Re_enviar_a_cpu, Re_sacarCualquieraDeReady, Re_relacionar,
       Re_correr_pcb DEF SinCambio, PasoHilo
  <2>2. paso[SrvCPU] \notin {"encolar", "exit", "FINZ_PROGM", "END_PRGM"}
    BY <1>1, <1>6, Ef_cargar_programa, Ef_moverA_colaNew, Ef_sem_wait, Ef_inicializar_programa,
       Ef_moverA_colaReady, Ef_enviar_a_cpu, Ef_sacarCualquieraDeReady, Ef_relacionar, Ef_correr_pcb
       DEF PasoHilo
  <2>3. ~Bloqueando /\ ~Bloqueando'
    BY <2>1, <2>2 DEF Bloqueando
  <2> QED
    BY <1>2, <1>3, <2>3, EsperaDeOtro
<1> QED
  BY <1>4, <1>5, <1>6

LEMMA Es_Consola ==
    ASSUME MutexInv, HilosInv, EsperaInv,
           \/ \E t \in Finalizadores : PasoFinalizador(t)
           \/ \E c \in Consolas : nuevoPrograma(c) \/ desconexionConsola(c)
           \/ \E p \in PID : finalizarProgramaConsola(p)
    PROVE  EsperaInv'
<1>1. TypeOK
  BY DEF MutexInv, TypeInv
<1>2. ASSUME NEW t \in Finalizadores, PasoFinalizador(t) PROVE EsperaInv'
  <2>1. Quietos({t}) /\ UNCHANGED <<colaBlocked, atendida, colaExit>> /\ t # SrvCPU
    BY <1>1, <1>2, HilosDistintos, Ef_finalizarProceso, Ef_sacarDe_colaReady DEF PasoFinalizador
  <2> QED
    BY <1>2, <2>1, Sem_PasoFinalizador, EsperaAjena, ThreadFacts DEF Quietos
<1>3. ASSUME NEW c \in Consolas, nuevoPrograma(c) PROVE EsperaInv'
  <2>1. \E t \in Hilos : t # SrvCPU /\ Quietos({t})
    BY <1>1, <1>3, HilosDistintos, Ef_nuevoPrograma
  <2>2. UNCHANGED <<colaBlocked, atendida, colaExit>>
    BY <1>1, <1>3, Ef_nuevoPrograma
  <2> QED
    BY <1>3, <2>1, <2>2, Sem_Consola, EsperaAjena, ThreadFacts DEF Quietos
<1>4. CASE \/ \E c \in Consolas : desconexionConsola(c)
           \/ \E p \in PID : finalizarProgramaConsola(p)
  <2>1. paso'[SrvCPU] = paso[SrvCPU] /\ UNCHANGED <<vuelve, pcb, pid, colaBlocked, atendida, colaExit>>
    BY <1>4, Ef_pedirFin, ThreadFacts, HilosDistintos
  <2> QED
    BY <1>4, <2>1, Sem_Consola, EsperaAjena
<1> QED
  BY <1>2, <1>3, <1>4

LEMMA ColaDe ==
    ASSUME TypeOK, NEW s \in Semaforos
    PROVE  cola[s] \in Seq(PID) /\ Len(cola[s]) \in Nat /\ DOMAIN cola[s] = 1 .. Len(cola[s])
           /\ valor[s] \in Int
<1>1. cola[s] \in Seq(PID) /\ valor[s] \in Int
  BY DEF TypeOK, TipoColas
<1> QED
  BY <1>1

(* A CPU process changes what it waits for only when it has a program, so  *)
(* not while the handler of its WAIT is at work.                           *)
LEMMA Es_CPU ==
    ASSUME MutexInv, Canales, EsperaInv, NEW c \in Cpus,
           \/ PasoProcesoCPU(c) \/ conectarCPU(c) \/ signalHandler(c)
           \/ waitAnsisop(c) \/ signalAnsisop(c)
    PROVE  EsperaInv'
<1>1. UNCHANGED kernel
  BY KernelIgual
<1>2. Bloqueando' <=> Bloqueando
  BY <1>1 DEF Bloqueando
<1>3. estado \in [Cpus -> EstadosCPU] /\ semCPU \in [Cpus -> Semaforos \cup {SinSem}]
  BY DEF MutexInv, TypeInv, TypeOK, TipoCPUs
<1>4. CASE waitAnsisop(c) \/ signalAnsisop(c)
  <2>1. PICK s \in Semaforos, e \in {"WAIT", "SIGNAL"} :
           /\ estado[c] = "corre" /\ semCPU' = [semCPU EXCEPT ![c] = s]
           /\ estado' = [estado EXCEPT ![c] = e]
    BY <1>4 DEF waitAnsisop, signalAnsisop, PasoCPU
  <2>2. \A d \in Cpus : estado'[d] \in EnSemaforo => semCPU'[d] \in Semaforos
    BY <1>3, <2>1 DEF EsperaInv, Pedidos
  <2>3. Bloqueando => semCPU'[atendida] = semCPU[atendida]
    BY <1>3, <2>1 DEF Canales, Respuestas, SinResponder
  <2> QED
    BY <1>1, <1>2, <2>2, <2>3, EsperaIgual
<1>5. CASE PasoProcesoCPU(c) \/ conectarCPU(c) \/ signalHandler(c)
  <2>1. /\ UNCHANGED semCPU
        /\ \A d \in Cpus : estado'[d] \in EnSemaforo => estado[d] \in EnSemaforo
    <3>1. ASSUME NEW e, e \notin EnSemaforo, PasoCPU(c, e)
          PROVE  \A d \in Cpus : estado'[d] \in EnSemaforo => estado[d] \in EnSemaforo
      BY <1>3, <3>1 DEF PasoCPU
    <3>2. \A e \in {"conectando", "corre", "RET_PCB", "fin", "libre"} : e \notin EnSemaforo
      BY DEF EnSemaforo
    <3>3. CASE conectarCPU(c) \/ correrPCB(c) \/ finishCPU_cpu(c) \/ ejecutarPrograma(c)
      <4>1. UNCHANGED semCPU /\ \E e \in {"conectando", "corre", "RET_PCB", "fin", "libre"} : PasoCPU(c, e)
        BY <3>3 DEF conectarCPU, correrPCB, finishCPU_cpu, ejecutarPrograma
      <4> QED
        BY <3>1, <3>2, <4>1
    <3>4. CASE recibirRespuesta(c)
      <4>1. UNCHANGED semCPU /\ \E e \in {"corre", "libre"} : PasoCPU(c, e)
        BY <3>4 DEF recibirRespuesta
      <4> QED
        BY <3>1, <3>2, <4>1
    <3>5. CASE signalHandler(c)
      BY <3>5 DEF signalHandler
    <3> QED
      BY <1>5, <3>3, <3>4, <3>5 DEF PasoProcesoCPU
  <2>2. \A d \in Cpus : estado'[d] \in EnSemaforo => semCPU'[d] \in Semaforos
    BY <2>1 DEF EsperaInv, Pedidos
  <2> QED
    BY <1>1, <1>2, <2>1, <2>2, EsperaIgual
<1> QED
  BY <1>4, <1>5

(* The handlers of the select loop that are not about semaphores. *)
LEMMA Es_SrvCPU ==
    ASSUME MutexInv, HilosInv, EsperaInv, NEW c \in Cpus,
           retornarPCB(c) \/ nuevaConexionCPU(c) \/ finishCPU(c)
    PROVE  EsperaInv'
<1>1. TypeOK /\ estado \in [Cpus -> EstadosCPU]
  BY DEF MutexInv, TypeInv, TypeOK, TipoCPUs
<1>2. paso[SrvCPU] = "select" /\ UNCHANGED <<colaBlocked, colaExit>>
  BY <1>1, Ef_retornarPCB, Ef_nuevaConexionCPU, Ef_finishCPU
<1>3. ~Bloqueando /\ ~Bloqueando'
  BY <1>2, Re_retornarPCB, Re_nuevaConexionCPU, Re_finishCPU DEF Bloqueando
<1>4. \A d \in Cpus : estado'[d] \in EnSemaforo => estado[d] \in EnSemaforo
  BY <1>1, Ef_retornarPCB, Ef_nuevaConexionCPU, Ef_finishCPU DEF EnSemaforo
<1> QED
  BY <1>2, <1>3, <1>4, Sem_SrvCPU, EsperaDeOtro

LEMMA Es_SigueSrvCPU ==
    ASSUME MutexInv, HilosInv, EsperaInv, SigueSrvCPU, ~wait_encolar
    PROVE  EsperaInv'
<1>1. TypeOK
  BY DEF MutexInv, TypeInv
<1>2. UNCHANGED <<cola, valor, semCPU, estado>>
  BY Sem_SigueSrvCPU
<1>3. /\ paso[SrvCPU] \notin {"encolar", "exit", "FINZ_PROGM", "END_PRGM"}
      /\ UNCHANGED <<colaBlocked, colaExit>>
  BY <1>1, Ef_retornarPCB_desconectar, Ef_retornarPCB_decidir, Ef_program_change_running,
     Ef_wait_responder, Ef_signal_responder
     DEF SigueSrvCPU
<1>4. Bloqueando' <=> Bloqueando
  <2>1. ASSUME wait_responder PROVE ~Bloqueando'
    BY <1>1, <2>1, Ef_wait_responder DEF Va, Bloqueando
  <2> QED
    BY <1>3, <2>1, Re_retornarPCB_desconectar, Re_retornarPCB_decidir, Re_program_change_running,
       Re_signal_responder DEF SigueSrvCPU, Bloqueando
<1>5. ~Bloqueando /\ ~Bloqueando'
  BY <1>3, <1>4 DEF Bloqueando
<1> QED
  BY <1>2, <1>3, <1>5, EsperaDeOtro

LEMMA Es_wait_ok ==
    ASSUME MutexInv, HilosInv, EsperaInv, NEW c \in Cpus, wait_ok(c)
    PROVE  EsperaInv'
<1>1. TypeOK /\ estado \in [Cpus -> EstadosCPU] /\ valor \in [Semaforos -> Int]
  BY DEF MutexInv, TypeInv, TypeOK, TipoCPUs, TipoColas
<1>2. PICK s : s = semCPU[c]
  OBVIOUS
<1>3. /\ UNCHANGED <<cola, semCPU, colaBlocked, colaExit, paso, pid>> /\ valor[s] > 0
      /\ valor' = [valor EXCEPT ![s] = valor[s] - 1]
      /\ estado[c] = "WAIT" /\ estado' = [estado EXCEPT ![c] = "esperaWait"]
      /\ paso[SrvCPU] = "select"
  BY <1>2 DEF wait_ok, Atiende
<1>4. s \in Semaforos
  BY <1>2, <1>3 DEF EsperaInv, Pedidos, EnSemaforo
<1>5. ~Bloqueando /\ ~Bloqueando'
  BY <1>3 DEF Bloqueando
<1>6. Unicas' /\ Esperan' /\ Duermen' /\ SeBloquea'
  BY <1>3, <1>5 DEF EsperaInv, Unicas, Esperan, Duermen, SeBloquea, EnCola
<1>7. Pedidos'
  BY <1>1, <1>3 DEF EsperaInv, Pedidos, EnSemaforo
<1>8. Cuentas'
  <2> SUFFICES ASSUME NEW r \in Semaforos
               PROVE  Len(cola'[r]) = IF valor'[r] < 0 THEN -valor'[r] ELSE 0
    BY <1>1, <1>3, <1>5, ColaDe DEF Cuentas, Debe
  <2>1. Len(cola[r]) = IF valor[r] < 0 THEN -valor[r] ELSE 0
    BY <1>1, <1>5, ColaDe DEF EsperaInv, Cuentas, Debe
  <2>2. CASE r = s
    BY <1>1, <1>3, <2>1, <2>2
  <2>3. CASE r # s
    BY <1>1, <1>3, <2>1, <2>3
  <2> QED
    BY <2>2, <2>3
<1> QED
  BY <1>6, <1>7, <1>8 DEF EsperaInv

LEMMA Es_wait_bloquea ==
    ASSUME MutexInv, HilosInv, Tenencia, Ubicados, EsperaInv, NEW c \in Cpus, wait_bloquea(c)
    PROVE  EsperaInv'
<1>1. /\ TypeOK /\ estado \in [Cpus -> EstadosCPU] /\ valor \in [Semaforos -> Int]
      /\ SrvCPU \in Hilos /\ pcb \in [Hilos -> PID \cup {SinPid}] /\ pid \in [Hilos -> PID \cup {SinPid}]
      /\ paso \in [Hilos -> Pasos] /\ vuelve \in [Hilos -> Pasos]
  BY ThreadFacts DEF MutexInv, TypeInv, TypeOK, TipoCPUs, TipoColas, TipoHilos
<1>2. PICK s, p : s = semCPU[c] /\ p = ejecuta[c]
  OBVIOUS
<1>3. /\ UNCHANGED <<cola, semCPU, colaExit>> /\ valor[s] <= 0
      /\ valor' = [valor EXCEPT ![s] = valor[s] - 1]
      /\ estado[c] = "WAIT" /\ estado' = [estado EXCEPT ![c] = "esperaWait"]
      /\ paso[SrvCPU] = "select" /\ atendida' = c /\ pid'[SrvCPU] = p /\ vuelve'[SrvCPU] = "encolar"
      /\ \/ /\ p \in colaExec /\ pcb'[SrvCPU] = p /\ paso'[SrvCPU] = "exit" /\ colaBlocked' = colaBlocked
         \/ /\ paso'[SrvCPU] = "encolar" /\ colaBlocked' = colaBlocked \cup (colaExec \cap {p})
  BY <1>1, <1>2 DEF wait_bloquea, Atiende, Toma, Ir
<1>4. s \in Semaforos
  BY <1>2, <1>3 DEF EsperaInv, Pedidos, EnSemaforo
<1>5. p \in PID /\ p \in colaExec
  BY <1>2, <1>3, EstaEnExec DEF Corre
<1>6. ~EnCola(p)
  <2>1. p \notin colaBlocked /\ p \notin colaExit
    BY <1>5, SitiosDistintos DEF Ubicados, EnUno, Esta, Sitios
  <2> QED
    BY <1>5, <2>1 DEF EsperaInv, Esperan
<1>7. ~Bloqueando /\ Bloqueando'
  BY <1>3 DEF Bloqueando
<1>8. \A q : EnCola(q)' <=> EnCola(q)
  BY <1>3 DEF EnCola
<1>9. Unicas'
  BY <1>3 DEF EsperaInv, Unicas
<1>10. Esperan'
  BY <1>3, <1>8 DEF EsperaInv, Esperan
<1>11. Duermen'
  <2>1. \A q \in colaBlocked : EnCola(q)
    BY <1>3 DEF EsperaInv, Duermen
  <2> QED
    BY <1>3, <1>8, <2>1 DEF Duermen
<1>12. SeBloquea'
  <2>1. paso'[SrvCPU] # "exit" => p \in colaBlocked'
    BY <1>3, <1>5
  <2> QED
    BY <1>3, <1>5, <1>6, <1>8, <2>1 DEF SeBloquea
<1>13. Pedidos'
  BY <1>1, <1>3 DEF EsperaInv, Pedidos, EnSemaforo
<1>14. Cuentas'
  <2>1. \A r : Debe(r)' <=> r = s
    BY <1>2, <1>3, <1>7 DEF Debe
  <2> SUFFICES ASSUME NEW r \in Semaforos
               PROVE  Len(cola[r]) + (IF r = s THEN 1 ELSE 0) = IF valor'[r] < 0 THEN -valor'[r] ELSE 0
    BY <1>3, <2>1 DEF Cuentas
  <2>2. Len(cola[r]) = IF valor[r] < 0 THEN -valor[r] ELSE 0
    BY <1>1, <1>7, ColaDe DEF EsperaInv, Cuentas, Debe
  <2>3. CASE r = s
    BY <1>1, <1>3, <2>2, <2>3
  <2>4. CASE r # s
    BY <1>1, <1>3, <2>2, <2>4
  <2> QED
    BY <2>3, <2>4
<1> QED
  BY <1>9, <1>10, <1>11, <1>12, <1>13, <1>14 DEF EsperaInv

LEMMA Es_wait_encolar ==
    ASSUME MutexInv, HilosInv, Canales, EsperaInv, wait_encolar
    PROVE  EsperaInv'
<1>1. TypeOK /\ cola \in [Semaforos -> Seq(PID)]
  BY DEF MutexInv, TypeInv, TypeOK, TipoColas
<1>2. PICK s, p : s = semCPU[atendida] /\ p = pid[SrvCPU]
  OBVIOUS
<1>3. /\ cola' = [cola EXCEPT ![s] = Append(cola[s], p)]
      /\ UNCHANGED <<valor, semCPU, estado, atendida, colaBlocked, colaExit, pid>>
      /\ paso[SrvCPU] = "encolar"
  BY <1>2 DEF wait_encolar
<1>4. Bloqueando /\ ~Bloqueando'
  BY <1>1, <1>3, Ef_wait_encolar DEF Bloqueando, Va
<1>5. s \in Semaforos
  BY <1>2, <1>4 DEF Canales, Respuestas, SinResponder, EsperaInv, Pedidos, EnSemaforo
<1>6. p \in PID /\ ~EnCola(p) /\ p \in colaBlocked \cup colaExit
  BY <1>2, <1>3, <1>4 DEF EsperaInv, SeBloquea
<1>7. /\ cola[s] \in Seq(PID) /\ Len(cola[s]) \in Nat /\ DOMAIN cola[s] = 1 .. Len(cola[s])
  BY <1>1, <1>5, ColaDe
<1>8. /\ cola'[s] = Append(cola[s], p) /\ Len(cola'[s]) = Len(cola[s]) + 1
      /\ DOMAIN cola'[s] = 1 .. (Len(cola[s]) + 1)
      /\ cola'[s][Len(cola[s]) + 1] = p
      /\ \A i \in DOMAIN cola[s] : i \in DOMAIN cola'[s] /\ cola'[s][i] = cola[s][i]
      /\ \A i \in DOMAIN cola'[s] : i \in DOMAIN cola[s] \/ i = Len(cola[s]) + 1
      /\ \A r \in Semaforos \ {s} : cola'[r] = cola[r]
  BY <1>1, <1>3, <1>5, <1>6, <1>7
<1>9. \A q : EnCola(q)' <=> EnCola(q) \/ q = p
  <2>1. ASSUME NEW q, EnCola(q) PROVE EnCola(q)'
    <3>1. PICK r \in Semaforos : \E i \in DOMAIN cola[r] : cola[r][i] = q
      BY <2>1 DEF EnCola
    <3>2. \E i \in DOMAIN cola'[r] : cola'[r][i] = q
      BY <1>8, <3>1
    <3> QED
      BY <3>1, <3>2 DEF EnCola
  <2>2. EnCola(p)'
    <3>1. Len(cola[s]) + 1 \in DOMAIN cola'[s]
      BY <1>7, <1>8
    <3> QED
      BY <1>5, <1>8, <3>1 DEF EnCola
  <2>3. ASSUME NEW q, EnCola(q)', q # p PROVE EnCola(q)
    <3>1. PICK r \in Semaforos : \E i \in DOMAIN cola'[r] : cola'[r][i] = q
      BY <2>3 DEF EnCola
    <3>2. \E i \in DOMAIN cola[r] : cola[r][i] = q
      BY <1>8, <2>3, <3>1
    <3> QED
      BY <3>1, <3>2 DEF EnCola
  <2> QED
    BY <2>1, <2>2, <2>3
<1>10. Unicas'
  <2>1. \A r \in Semaforos : \A i \in DOMAIN cola[r] : cola[r][i] # p
    BY <1>6 DEF EnCola
  <2>2. \A r \in Semaforos : \A i \in DOMAIN cola'[r] :
           \/ i \in DOMAIN cola[r] /\ cola'[r][i] = cola[r][i]
           \/ r = s /\ i = Len(cola[s]) + 1 /\ cola'[r][i] = p
    BY <1>8
  <2> SUFFICES ASSUME NEW r \in Semaforos, NEW u \in Semaforos, NEW i \in DOMAIN cola'[r],
                      NEW j \in DOMAIN cola'[u], cola'[r][i] = cola'[u][j]
               PROVE  r = u /\ i = j
    BY DEF Unicas
  <2> QED
    BY <2>1, <2>2 DEF EsperaInv, Unicas
<1>11. Esperan'
  BY <1>3, <1>6, <1>9 DEF EsperaInv, Esperan
<1>12. Duermen'
  BY <1>2, <1>3, <1>9 DEF EsperaInv, Duermen
<1>13. SeBloquea' /\ Pedidos'
  BY <1>3, <1>4 DEF EsperaInv, SeBloquea, Pedidos
<1>14. Cuentas'
  <2>1. \A r : Debe(r) <=> r = s
    BY <1>2, <1>4 DEF Debe
  <2> SUFFICES ASSUME NEW r \in Semaforos
               PROVE  Len(cola'[r]) = IF valor[r] < 0 THEN -valor[r] ELSE 0
    BY <1>1, <1>3, <1>4, <1>8, ColaDe DEF Cuentas, Debe
  <2>2. Len(cola[r]) + (IF r = s THEN 1 ELSE 0) = IF valor[r] < 0 THEN -valor[r] ELSE 0
    BY <2>1 DEF EsperaInv, Cuentas
  <2>3. Len(cola[r]) \in Nat /\ valor[r] \in Int
    BY <1>1, ColaDe
  <2>4. CASE r = s
    BY <1>8, <2>2, <2>3, <2>4
  <2>5. CASE r # s
    BY <1>8, <2>2, <2>3, <2>5
  <2> QED
    BY <2>4, <2>5
<1> QED
  BY <1>10, <1>11, <1>12, <1>13, <1>14 DEF EsperaInv

LEMMA Es_signal ==
    ASSUME MutexInv, HilosInv, EsperaInv, NEW c \in Cpus, signal(c)
    PROVE  EsperaInv'
<1>1. /\ TypeOK /\ estado \in [Cpus -> EstadosCPU] /\ valor \in [Semaforos -> Int]
      /\ cola \in [Semaforos -> Seq(PID)]
  BY DEF MutexInv, TypeInv, TypeOK, TipoCPUs, TipoColas
<1>2. PICK s, q : s = semCPU[c] /\ q = Head(cola[s])
  OBVIOUS
<1>3. /\ UNCHANGED <<semCPU, colaExit>> /\ valor' = [valor EXCEPT ![s] = valor[s] + 1]
      /\ estado[c] = "SIGNAL" /\ estado' = [estado EXCEPT ![c] = "esperaSignal"]
      /\ paso[SrvCPU] = "select"
      /\ \/ ~(valor[s] < 0 /\ cola[s] # <<>>) /\ cola' = cola /\ colaBlocked' = colaBlocked
         \/ /\ valor[s] < 0 /\ cola[s] # <<>> /\ cola' = [cola EXCEPT ![s] = Tail(cola[s])]
            /\ colaBlocked' = colaBlocked \ {q}
  BY <1>2 DEF signal, Atiende, Despierta
<1>4. s \in Semaforos
  BY <1>2, <1>3 DEF EsperaInv, Pedidos, EnSemaforo
<1>5. ~Bloqueando /\ ~Bloqueando'
  BY <1>3, Re_signal DEF Bloqueando
<1>6. Pedidos' /\ SeBloquea'
  BY <1>1, <1>3, <1>5 DEF EsperaInv, Pedidos, EnSemaforo, SeBloquea
<1>7. cola[s] \in Seq(PID) /\ Len(cola[s]) \in Nat /\ DOMAIN cola[s] = 1 .. Len(cola[s]) /\ valor[s] \in Int
  BY <1>1, <1>4, ColaDe
<1>8. \A r \in Semaforos : Len(cola[r]) = IF valor[r] < 0 THEN -valor[r] ELSE 0
  BY <1>1, <1>5, ColaDe DEF EsperaInv, Cuentas, Debe
<1>9. ASSUME \A r \in Semaforos : Len(cola'[r]) = IF valor'[r] < 0 THEN -valor'[r] ELSE 0
      PROVE  Cuentas'
  <2>1. ~Debe(s)'
    BY <1>5 DEF Debe
  <2>2. \A r \in Semaforos : Len(cola'[r]) \in Nat
    <3>1. Len(cola'[s]) \in Nat
      BY <1>3, <1>4, <1>7, <1>1
    <3>2. \A r \in Semaforos \ {s} : cola'[r] = cola[r]
      BY <1>1, <1>3
    <3> QED
      BY <1>1, <3>1, <3>2, ColaDe
  <2> QED
    BY <1>5, <1>9, <2>2 DEF Cuentas, Debe
<1>10. CASE ~(valor[s] < 0 /\ cola[s] # <<>>) /\ cola' = cola /\ colaBlocked' = colaBlocked
  <2>1. valor[s] >= 0
    BY <1>4, <1>7, <1>8, <1>10
  <2>2. \A r \in Semaforos : Len(cola'[r]) = IF valor'[r] < 0 THEN -valor'[r] ELSE 0
    <3>1. cola' = cola /\ valor'[s] = valor[s] + 1 /\ \A r \in Semaforos \ {s} : valor'[r] = valor[r]
      BY <1>1, <1>3, <1>4, <1>10
    <3>2. Len(cola[s]) = 0 /\ ~(valor'[s] < 0)
      BY <1>4, <1>7, <1>8, <2>1, <3>1
    <3> QED
      BY <1>8, <3>1, <3>2
  <2>3. Unicas' /\ Esperan' /\ Duermen'
    BY <1>3, <1>10 DEF EsperaInv, Unicas, Esperan, Duermen, EnCola
  <2> QED
    BY <1>6, <1>9, <2>2, <2>3 DEF EsperaInv
<1>11. CASE /\ valor[s] < 0 /\ cola[s] # <<>> /\ cola' = [cola EXCEPT ![s] = Tail(cola[s])]
            /\ colaBlocked' = colaBlocked \ {q}
  <2>1. /\ cola'[s] = Tail(cola[s]) /\ Len(cola'[s]) = Len(cola[s]) - 1
        /\ DOMAIN cola'[s] = 1 .. (Len(cola[s]) - 1)
        /\ \A i \in DOMAIN cola'[s] : i + 1 \in DOMAIN cola[s] /\ cola'[s][i] = cola[s][i + 1]
        /\ \A i \in DOMAIN cola[s] : i = 1 \/ (i - 1 \in DOMAIN cola'[s] /\ cola'[s][i - 1] = cola[s][i])
        /\ 1 \in DOMAIN cola[s] /\ cola[s][1] = q
        /\ \A r \in Semaforos \ {s} : cola'[r] = cola[r]
    <3>1. cola'[s] = Tail(cola[s]) /\ \A r \in Semaforos \ {s} : cola'[r] = cola[r]
      BY <1>1, <1>4, <1>11
    <3>2. /\ Len(Tail(cola[s])) = Len(cola[s]) - 1 /\ Len(cola[s]) >= 1
          /\ \A i \in 1 .. (Len(cola[s]) - 1) : Tail(cola[s])[i] = cola[s][i + 1]
          /\ DOMAIN Tail(cola[s]) = 1 .. (Len(cola[s]) - 1)
      BY <1>7, <1>11
    <3>3. cola[s][1] = q
      BY <1>2, <1>7, <1>11
    <3> QED
      BY <1>7, <3>1, <3>2, <3>3
  <2>2. \A r \in Semaforos : \A i \in DOMAIN cola[r] : cola[r][i] = q => r = s /\ i = 1
    BY <1>4, <2>1 DEF EsperaInv, Unicas
  <2>3. \A p : EnCola(p)' <=> EnCola(p) /\ p # q
    <3>1. ASSUME NEW p, EnCola(p)' PROVE EnCola(p) /\ p # q
      <4>1. PICK r \in Semaforos : \E i \in DOMAIN cola'[r] : cola'[r][i] = p
        BY <3>1 DEF EnCola
      <4>2. CASE r = s
        <5>1. PICK i \in DOMAIN cola'[s] : cola'[s][i] = p
          BY <4>1, <4>2
        <5>2. i + 1 \in DOMAIN cola[s] /\ cola[s][i + 1] = p /\ i + 1 # 1
          BY <2>1, <5>1
        <5> QED
          BY <1>4, <2>2, <5>2 DEF EnCola
      <4>3. CASE r # s
        <5>1. \E i \in DOMAIN cola[r] : cola[r][i] = p
          BY <2>1, <4>1, <4>3
        <5> QED
          BY <2>2, <4>1, <4>3, <5>1 DEF EnCola
      <4> QED
        BY <4>2, <4>3
    <3>2. ASSUME NEW p, EnCola(p), p # q PROVE EnCola(p)'
      <4>1. PICK r \in Semaforos : \E i \in DOMAIN cola[r] : cola[r][i] = p
        BY <3>2 DEF EnCola
      <4>2. \E i \in DOMAIN cola'[r] : cola'[r][i] = p
        <5>1. PICK i \in DOMAIN cola[r] : cola[r][i] = p
          BY <4>1
        <5>2. CASE r = s
          <6>1. i # 1
            BY <2>1, <3>2, <5>1, <5>2
          <6>2. i - 1 \in DOMAIN cola'[s] /\ cola'[s][i - 1] = p
            BY <2>1, <5>1, <5>2, <6>1
          <6> QED
            BY <5>2, <6>2
        <5>3. CASE r # s
          BY <2>1, <5>1, <5>3
        <5> QED
          BY <5>2, <5>3
      <4> QED
        BY <4>1, <4>2 DEF EnCola
    <3> QED
      BY <3>1, <3>2
  <2>4. Unicas'
    <3>1. ASSUME NEW r \in Semaforos, NEW i \in DOMAIN cola'[r]
          PROVE  \E k \in DOMAIN cola[r] : /\ cola'[r][i] = cola[r][k] /\ i \in Int
                                           /\ k = IF r = s THEN i + 1 ELSE i
      <4>1. CASE r = s
        <5>1. i \in Int /\ i + 1 \in DOMAIN cola[s] /\ cola'[s][i] = cola[s][i + 1]
          <6>1. i \in DOMAIN cola'[s] /\ i \in 1 .. (Len(cola[s]) - 1)
            BY <2>1, <4>1
          <6> QED
            BY <1>7, <2>1, <6>1
        <5> QED
          BY <4>1, <5>1
      <4>2. CASE r # s
        BY <1>1, <2>1, <4>2, ColaDe
      <4> QED
        BY <4>1, <4>2
    <3> SUFFICES ASSUME NEW r \in Semaforos, NEW u \in Semaforos, NEW i \in DOMAIN cola'[r],
                        NEW j \in DOMAIN cola'[u], cola'[r][i] = cola'[u][j]
                 PROVE  r = u /\ i = j
      BY DEF Unicas
    <3>2. PICK k \in DOMAIN cola[r] : cola'[r][i] = cola[r][k] /\ i \in Int /\ k = IF r = s THEN i + 1 ELSE i
      BY <3>1
    <3>3. PICK l \in DOMAIN cola[u] : cola'[u][j] = cola[u][l] /\ j \in Int /\ l = IF u = s THEN j + 1 ELSE j
      BY <3>1
    <3>4. cola[r][k] = cola[u][l]
      BY <3>2, <3>3
    <3>5. Unicas
      BY DEF EsperaInv
    <3>6. r = u /\ k = l
      BY <3>4, <3>5 DEF Unicas
    <3> QED
      BY <3>2, <3>3, <3>6
  <2>5. Esperan' /\ Duermen'
    BY <1>3, <1>11, <2>3 DEF EsperaInv, Esperan, Duermen
  <2>6. \A r \in Semaforos : Len(cola'[r]) = IF valor'[r] < 0 THEN -valor'[r] ELSE 0
    <3> SUFFICES ASSUME NEW r \in Semaforos PROVE Len(cola'[r]) = IF valor'[r] < 0 THEN -valor'[r] ELSE 0
      OBVIOUS
    <3>1. CASE r = s
      <4>1. valor'[s] = valor[s] + 1 /\ Len(cola'[s]) = Len(cola[s]) - 1
        BY <1>1, <1>3, <1>4, <2>1
      <4>2. Len(cola[s]) = -valor[s]
        BY <1>4, <1>8, <1>11
      <4> QED
        BY <1>7, <1>11, <3>1, <4>1, <4>2
    <3>2. CASE r # s
      BY <1>1, <1>3, <1>8, <2>1, <3>2
    <3> QED
      BY <3>1, <3>2
  <2> QED
    BY <1>6, <1>9, <2>4, <2>5, <2>6 DEF EsperaInv
<1> QED
  BY <1>3, <1>10, <1>11

LEMMA EsperaInv_Init == Init => EsperaInv
<1> SUFFICES ASSUME Init PROVE EsperaInv
  OBVIOUS
<1>1. ~Bloqueando /\ colaBlocked = {} /\ \A c \in Cpus : estado[c] = "apagada"
  BY ThreadFacts DEF Init, Bloqueando
<1>2. \A s \in Semaforos : cola[s] = <<>> /\ DOMAIN cola[s] = {} /\ Len(cola[s]) = 0 /\ valor[s] \in Nat
  BY ConstantesAssumption DEF Init
<1>3. Unicas /\ Esperan /\ Duermen /\ SeBloquea
  BY <1>1, <1>2 DEF Unicas, Esperan, Duermen, SeBloquea, EnCola
<1>4. Cuentas
  BY <1>1, <1>2 DEF Cuentas, Debe
<1>5. Pedidos
  BY <1>1 DEF Pedidos, EnSemaforo
<1> QED
  BY <1>3, <1>4, <1>5 DEF EsperaInv

LEMMA EsperaInv_Next ==
    ASSUME MutexInv, HilosInv, Canales, Tenencia, Ubicados, EsperaInv, [Next]_vars
    PROVE  EsperaInv'
<1>1. CASE UNCHANGED vars
  <2>1. UNCHANGED <<cola, valor, semCPU, estado, colaBlocked, atendida, colaExit, paso, vuelve, pcb, pid>>
    BY <1>1 DEF vars
  <2> QED
    BY <2>1, EsperaAjena
<1>2. ASSUME NEW t \in Hilos, PasoHilo(t) PROVE EsperaInv'
  BY <1>2, Es_PasoHilo
<1>3. CASE SigueSrvCPU
  BY <1>3, Es_SigueSrvCPU, Es_wait_encolar
<1>4. ASSUME NEW c \in Cpus, ManejaPCB(c) \/ ManejaOtro(c) PROVE EsperaInv'
  BY <1>4, Es_SrvCPU, Es_wait_ok, Es_wait_bloquea, Es_signal DEF ManejaPCB, ManejaOtro
<1> QED
  BY <1>1, <1>2, <1>3, <1>4, Es_Consola, Es_CPU DEF Next, Nucleo, end

SemaforosInv == ~desfase => EsperaInv

LEMMA SemaforosInv_Siempre == Spec => []SemaforosInv
<1>1. Init => SemaforosInv
  BY EsperaInv_Init DEF SemaforosInv
<1>2. PlanInv /\ SemaforosInv /\ [Next]_vars => SemaforosInv'
  BY DesfaseQueda, EsperaInv_Next DEF PlanInv, Reparto, SemaforosInv
<1> QED
  BY <1>1, <1>2, PlanInv_Siempre, PTL DEF Spec

(* Where a blocked process waits, as a set of places of the queues. *)
Puestos(p) ==
    {x \in Semaforos \X (1 .. MaxProgramas) : x[2] \in DOMAIN cola[x[1]] /\ cola[x[1]][x[2]] = p}

LEMMA ColaCorta ==
    ASSUME TypeOK, Unicas, NEW s \in Semaforos
    PROVE  Len(cola[s]) <= MaxProgramas
<1>1. cola[s] \in Seq(PID) /\ Len(cola[s]) \in Nat /\ DOMAIN cola[s] = 1 .. Len(cola[s])
  BY ColaDe
<1>2. cola[s] \in Injection(1 .. Len(cola[s]), PID)
  <2>1. cola[s] \in [1 .. Len(cola[s]) -> PID]
    BY <1>1
  <2>2. \A i, j \in 1 .. Len(cola[s]) : cola[s][i] = cola[s][j] => i = j
    BY <1>1 DEF Unicas
  <2> QED
    BY <2>1, <2>2 DEF Injection, IsInjective
<1>3. IsFiniteSet(PID) /\ Cardinality(PID) = MaxProgramas
  BY ConstantesAssumption, FS_Interval DEF PID
<1>4. Cardinality(1 .. Len(cola[s])) = Len(cola[s])
  BY <1>1, FS_Interval
<1>5. Cardinality(1 .. Len(cola[s])) <= Cardinality(PID)
  BY <1>2, <1>3, FS_Injection
<1> QED
  BY <1>3, <1>4, <1>5

LEMMA DeBloqueadosDespertables == ASSUME MutexInv, EsperaInv PROVE BloqueadosDespertables
<1>1. TypeOK /\ Unicas /\ colaBlocked \subseteq PID
  BY DEF MutexInv, TypeInv, EsperaInv, TypeOK, TipoColas
<1>2. \A s \in Semaforos : PorEncolar(s) <=> Debe(s)
  BY DEF PorEncolar, Debe, Bloqueando
<1>3. ASSUME NEW p \in colaBlocked
      PROVE  Cardinality(Puestos(p)) = IF paso[SrvCPU] = "encolar" /\ pid[SrvCPU] = p THEN 0 ELSE 1
  <2>1. CASE paso[SrvCPU] = "encolar" /\ pid[SrvCPU] = p
    <3>1. ~EnCola(p)
      BY <2>1 DEF EsperaInv, SeBloquea, Bloqueando
    <3>2. Puestos(p) = {}
      BY <3>1 DEF Puestos, EnCola
    <3> QED
      BY <2>1, <3>2, FS_EmptySet
  <2>2. CASE ~(paso[SrvCPU] = "encolar" /\ pid[SrvCPU] = p)
    <3>1. PICK s \in Semaforos : \E i \in DOMAIN cola[s] : cola[s][i] = p
      BY <1>3, <2>2 DEF EsperaInv, Duermen, EnCola
    <3>2. PICK i \in DOMAIN cola[s] : cola[s][i] = p
      BY <3>1
    <3>3. i \in 1 .. MaxProgramas
      BY <1>1, <3>2, ColaDe, ColaCorta, ConstantesAssumption
    <3>4. Puestos(p) = {<<s, i>>}
      <4>1. <<s, i>> \in Puestos(p)
        BY <3>2, <3>3 DEF Puestos
      <4>2. ASSUME NEW x \in Puestos(p) PROVE x = <<s, i>>
        BY <1>1, <3>2, <4>2 DEF Puestos, Unicas
      <4> QED
        BY <4>1, <4>2
    <3> QED
      BY <2>2, <3>4, FS_Singleton
  <2> QED
    BY <2>1, <2>2
<1>4. \A s \in Semaforos :
         Len(cola[s]) + (IF PorEncolar(s) THEN 1 ELSE 0) = IF valor[s] < 0 THEN -valor[s] ELSE 0
  BY <1>2 DEF EsperaInv, Cuentas
<1> QED
  BY <1>3, <1>4 DEF BloqueadosDespertables, Puestos

(* A process in Blocked can be woken: it is queued once, on one semaphore, *)
(* and what a value below zero owes is what is queued, although processes  *)
(* that were finished are still queued (CapaMemoria.c:72-162).             *)
THEOREM BlockedCanBeWoken == Spec => []BloqueadosDespertables
<1>1. PlanInv /\ SemaforosInv => BloqueadosDespertables
  BY DeBloqueadosDespertables DEF PlanInv, SemaforosInv, BloqueadosDespertables
<1> QED
  BY <1>1, PlanInv_Siempre, SemaforosInv_Siempre, PTL

-----------------------------------------------------------------------------
(***************************************************************************)
(* The scheduler with its operator (Detencion).  A step of the Kernel with *)
(* its operator is a step of the scheduler, a step that only moves the     *)
(* degree, or leaves the scheduler alone; so what was proved of the        *)
(* scheduler still holds.                                                  *)
(***************************************************************************)


SoloGrado ==
    /\ grado' \in Nat
    /\ UNCHANGED <<colas, listas, finalizables, semaforos, mutexes, locales, fuera, procesoCPU,
                   consolas, paso, vuelve, exitCode, deKernel, desfase>>

Dormidos == esperan = {} \/ \E t \in Hilos : esperan = {t}
Respaldo ==
    /\ Dormidos /\ stopped \in Nat
    /\ ~isStopped /\ esperan # {} => stopped > 0

LEMMA MutexInv_SoloGrado ==
    ASSUME MutexInv, SoloGrado
    PROVE  MutexInv'
<1> USE DEF SoloGrado, colas, listas, finalizables, semaforos, mutexes, locales, fuera,
            procesoCPU, consolas
<1>1. TipoColas'
  BY DEF MutexInv, TypeInv, TypeOK, TipoColas
<1>2. TipoHilos'
  BY DEF MutexInv, TypeInv, TypeOK, TipoHilos
<1>3. TipoCPUs'
  BY DEF MutexInv, TypeInv, TypeOK, TipoCPUs
<1>4. CadaUnoLleva'
  BY DEF MutexInv, TypeInv, CadaUnoLleva, Lleva
<1>5. Duenos' /\ DeFinalizadores' /\ SinEmpezar'
  BY DEF MutexInv, Duenos, DeFinalizadores, SinEmpezar
<1> QED
  BY <1>1, <1>2, <1>3, <1>4, <1>5 DEF MutexInv, TypeInv, TypeOK

LEMMA GradoTurn ==
    ASSUME TypeOK, NEW k \in Cambios, bajarGrado(k)
    PROVE  SoloGrado
<1>1. grado \in Nat
  BY DEF TypeOK, TipoHilos
<1>2. grado' \in Nat
  BY <1>1 DEF bajarGrado, bajarGrado_ajusta
<1> QED
  BY <1>2 DEF bajarGrado, SoloGrado

(* Which steps the scheduler sees. *)
LEMMA StepOfScheduler ==
    ASSUME TypeOK, [NextD]_varsD
    PROVE  [Next]_vars \/ SoloGrado
<1>1. CASE Planifica
  BY <1>1 DEF Planifica, Next
<1>2. CASE \E c \in Cpus : Maneja(c)
  BY <1>2 DEF Maneja, Next
<1>3. CASE \E t \in Hilos : checkStopped(t) \/ checkStopped_sale(t) \/ moverA_colaExec(t)
  BY <1>3 DEF checkStopped, checkStopped_sale, moverA_colaExec
<1>4. CASE stop \/ restart
  BY <1>4 DEF stop, restart
<1>5. CASE \E p \in PID : escribirEnd(p) \/ endOperador(p)
  BY <1>5 DEF escribirEnd, endOperador, Next
<1>6. ASSUME NEW k \in Cambios,
             \/ \E n \in 0 .. MaxGrado : changeMultiprogramacion(k, n)
             \/ bajarGrado_lee(k) \/ bajarGrado_escribe(k) \/ bajarGrado(k)
      PROVE  [Next]_vars \/ SoloGrado
  BY <1>6, GradoTurn DEF changeMultiprogramacion, bajarGrado_lee, bajarGrado_escribe
<1>7. CASE UNCHANGED varsD
  BY <1>7 DEF varsD
<1> QED
  BY <1>1, <1>2, <1>3, <1>4, <1>5, <1>6, <1>7 DEF NextD

LEMMA MutexInv_InitD == InitD => MutexInv
BY MutexInv_Init DEF InitD

LEMMA MutexInv_NextD == MutexInv /\ [NextD]_varsD => MutexInv'
<1>1. MutexInv => TypeOK
  BY DEF MutexInv, TypeInv
<1> QED
  BY <1>1, StepOfScheduler, MutexInv_Next, MutexInv_SoloGrado

-----------------------------------------------------------------------------
(* stopped and the threads that sleep in it. *)

LEMMA RespaldoInit == InitD => Respaldo
BY DEF InitD, Respaldo, Dormidos

LEMMA RespaldoNext == Respaldo /\ [NextD]_varsD => Respaldo'
<1> SUFFICES ASSUME Respaldo, [NextD]_varsD PROVE Respaldo'
  OBVIOUS
<1> USE DEF Respaldo, Dormidos
<1>1. CASE UNCHANGED <<isStopped, stopped, esperan>>
  BY <1>1
<1>2. ASSUME NEW t \in Hilos, checkStopped(t) PROVE Respaldo'
  BY <1>2 DEF checkStopped, stoppedMutex_libre
<1>3. ASSUME NEW t \in Hilos, checkStopped_sale(t) PROVE Respaldo'
  BY <1>3 DEF checkStopped_sale
<1>4. CASE stop
  BY <1>4 DEF stop
<1>5. CASE restart
  BY <1>5 DEF restart, restart_post
<1>6. CASE UNCHANGED <<isStopped, stopped, esperan>> \/ stop \/ restart
           \/ \E t \in Hilos : checkStopped(t) \/ checkStopped_sale(t)
  BY <1>1, <1>2, <1>3, <1>4, <1>5, <1>6
<1> QED
  BY <1>6 DEF NextD, varsD, puerta, Planifica, Maneja, moverA_colaExec, escribirEnd, endOperador,
              changeMultiprogramacion, bajarGrado_lee, bajarGrado_escribe, bajarGrado

(* One thread at a time sleeps in the gate, with stoppedMutex held, and    *)
(* after a restart its sem_post is there, whatever the number of threads   *)
(* and of stop and restart commands (estados.c:48-53, Kernel.c:331-343).   *)
THEOREM BackedWaiters == SpecD => []EsperanRespaldados
<1>1. Respaldo => EsperanRespaldados
  <2>1. Cardinality({}) = 0 /\ \A t : Cardinality({t}) = 1
    BY FS_EmptySet, FS_Singleton
  <2> QED
    BY <2>1 DEF Respaldo, Dormidos, EsperanRespaldados
<1> QED
  BY <1>1, RespaldoInit, RespaldoNext, PTL DEF SpecD

-----------------------------------------------------------------------------
(* The queues while the planning is stopped. *)

(* A thread that changes a queue goes on from in front of the gate.        *)
LEMMA HiloPasa ==
    ASSUME MutexInv, NEW t \in Hilos, PasoHilo(t), ~ UNCHANGED colas
    PROVE  Avanza(t) /\ (AntePuerta(t) \/ EnRelacionar(t))
<1> USE DEF colas, Ir, Avanza, AntePuerta, ConPuerta
<1>1. /\ paso \in [Hilos -> Pasos]
      /\ paso[t] \in {"moverA_colaReady", "moverA_colaReadySinFinalizar"} =>
            vuelve[t] \notin {"moverA_colaReady", "moverA_colaReadySinFinalizar"}
  BY DEF MutexInv, TypeInv, TypeOK, TipoHilos, CadaUnoLleva, Lleva, Regresos
<1>2. CASE moverA_colaNew(t)
  BY <1>1, <1>2 DEF moverA_colaNew
<1>3. CASE inicializar_programa(t)
  BY <1>1, <1>3 DEF inicializar_programa
<1>4. CASE moverA_colaReady(t)
  BY <1>1, <1>4 DEF moverA_colaReady
<1>5. CASE moverA_colaExit(t)
  BY <1>1, <1>5 DEF moverA_colaExit
<1>6. CASE sacarCualquieraDeReady(t)
  BY <1>1, <1>6 DEF sacarCualquieraDeReady
<1>7. CASE relacionar(t)
  <2>1. pcb[t] \in programas
    BY <1>7 DEF relacionar
  <2> QED
    BY <1>1, <1>7, <2>1 DEF relacionar, EnRelacionar
<1>8. CASE UNCHANGED colas
  BY <1>8
<1> QED
  BY <1>2, <1>3, <1>4, <1>5, <1>6, <1>7, <1>8
     DEF PasoHilo, cargar_programa, sem_wait, finalizarProcesoMemoria, finishProcess,
         enviar_a_cpu, correr_pcb

LEMMA NucleoPasa ==
    ASSUME MutexInv, Nucleo, ~ UNCHANGED colas
    PROVE  \E t \in Hilos : Avanza(t) /\ (AntePuerta(t) \/ EnRelacionar(t))
<1>1. CASE \E t \in Hilos : PasoHilo(t)
  BY <1>1, HiloPasa
<1>2. ASSUME NEW t \in Finalizadores, PasoFinalizador(t)
      PROVE  Avanza(t) /\ AntePuerta(t) /\ t \in Hilos
  <2>1. t \in Hilos /\ paso \in [Hilos -> Pasos]
    BY ThreadFacts DEF MutexInv, TypeInv, TypeOK, TipoHilos
  <2>2. sacarDe_colaReady(t)
    BY <1>2 DEF PasoFinalizador, finalizarProceso
  <2> QED
    BY <2>1, <2>2 DEF sacarDe_colaReady, Ir, Avanza, AntePuerta, ConPuerta
<1>3. CASE SigueSrvCPU
  BY <1>3 DEF SigueSrvCPU, retornarPCB_desconectar, retornarPCB_decidir, program_change_running,
              wait_encolar, wait_responder, signal_responder
<1>4. CASE \E c \in Consolas : nuevoPrograma(c) \/ desconexionConsola(c)
  BY <1>4 DEF nuevoPrograma, desconexionConsola
<1>5. CASE \E p \in PID : finalizarProgramaConsola(p)
  BY <1>5 DEF finalizarProgramaConsola
<1>6. CASE \E c \in Cpus : \/ PasoProcesoCPU(c) \/ conectarCPU(c) \/ signalHandler(c)
                           \/ waitAnsisop(c) \/ signalAnsisop(c)
  BY <1>6 DEF PasoProcesoCPU, correrPCB, finishCPU_cpu, recibirRespuesta, ejecutarPrograma,
              conectarCPU, signalHandler, waitAnsisop, signalAnsisop, kernel
<1> QED
  BY <1>1, <1>2, <1>3, <1>4, <1>5, <1>6 DEF Nucleo

LEMMA ManejaPasa ==
    ASSUME NEW c \in Cpus, Maneja(c), ~ UNCHANGED colas
    PROVE  Pasa(SrvCPU)
<1>1. CASE ManejaOtro(c)
  BY <1>1 DEF ManejaOtro, nuevaConexionCPU, cargarCPU, finishCPU, wait_ok
<1>2. CASE retornarPCB(c) /\ (MuevePCB(c) => Pasa(SrvCPU))
  BY <1>2 DEF retornarPCB, MuevePCB
<1>3. CASE wait_bloquea(c) /\ (MuevePCB(c) => Pasa(SrvCPU))
  BY <1>3 DEF wait_bloquea, MuevePCB
<1>4. CASE signal(c) /\ (MuevePCB(c) => Pasa(SrvCPU))
  BY <1>4 DEF signal, MuevePCB, colas
<1> QED
  BY <1>1, <1>2, <1>3, <1>4 DEF Maneja, ManejaPCB

(* stop stops: once the threads that had passed the gate are through, no   *)
(* step of any thread changes a queue until restart, whatever the number   *)
(* of programs, CPUs and commands (Kernel.c:318-343, every function of     *)
(* estados.c).                                                             *)
THEOREM QuietQueues == SpecD => ColasQuietas
<1>1. MutexInv /\ [NextD]_varsD => [isStopped /\ pases = {} => UNCHANGED colas]_varsD
  <2> SUFFICES ASSUME MutexInv, NextD, isStopped, pases = {}, ~ UNCHANGED colas
               PROVE  FALSE
    OBVIOUS
  <2>1. \A t : ~Pasa(t)
    BY DEF Pasa, Abierta
  <2>2. CASE Planifica
    BY <2>1, <2>2, NucleoPasa DEF Planifica
  <2>3. CASE \E c \in Cpus : Maneja(c)
    BY <2>1, <2>3, ManejaPasa
  <2>4. UNCHANGED vars => UNCHANGED colas
    BY DEF vars
  <2>5. ASSUME NEW p \in PID, endOperador(p) PROVE FALSE
    BY <2>4, <2>5 DEF endOperador, end, finalizarProgramaConsola
  <2>6. ASSUME NEW k \in Cambios, bajarGrado(k) PROVE FALSE
    BY <2>6 DEF bajarGrado
  <2> QED
    BY <2>2, <2>3, <2>4, <2>5, <2>6
       DEF NextD, checkStopped, checkStopped_sale, moverA_colaExec, stop, restart, escribirEnd,
           changeMultiprogramacion, bajarGrado_lee, bajarGrado_escribe
<1> QED
  BY <1>1, MutexInv_InitD, MutexInv_NextD, PTL DEF SpecD, ColasQuietas

-----------------------------------------------------------------------------
(* What was proved of the scheduler holds under the operator's commands.   *)

LEMMA PlanInv_SoloGrado ==
    ASSUME PlanInv, SoloGrado
    PROVE  PlanInv'
<1> USE DEF SoloGrado, colas, listas, finalizables, semaforos, mutexes, locales, fuera,
            procesoCPU, consolas
<1>1. HilosInv'
  BY DEF PlanInv, HilosInv, Mano, Nuevo, Propio, Avisa, Elige, Conectadas, Listados, SinRepetir,
         Apagadas
<1>2. ASSUME Reparto PROVE Canales'
  <2>1. Respuestas'
    BY <1>2 DEF Reparto, Canales, Respuestas, SinResponder, Bloqueando
  <2>2. ASSUME NEW c \in Cpus PROVE Forma(c)'
    <3>1. Forma(c)
      BY <1>2 DEF Reparto, Canales
    <3> QED
      BY <3>1 DEF Forma, SeVa, Conectadas
  <2> QED
    BY <2>1, <2>2 DEF Canales
<1>3. ASSUME Reparto PROVE Tenencia'
  <2>1. \A c \in Cpus : /\ Corre(c)' <=> Corre(c)
                        /\ \A p \in PID : Manda(c, p)' <=> Manda(c, p)
                        /\ \A t \in Hilos : Envia(t, c)' <=> Envia(t, c)
    BY DEF Corre, Manda, Envia
  <2>2. \A c \in Cpus, p \in PID : Ocupan(c, p)' <=> Ocupan(c, p)
    BY <2>1 DEF Ocupan
  <2>3. (Bloqueando' <=> Bloqueando) /\ Conectadas' = Conectadas
    BY DEF Bloqueando, Conectadas
  <2>4. EnExec' /\ ConCPU' /\ DeAUno'
    BY <1>3, <2>2, <2>3 DEF Reparto, Tenencia, EnExec, ConCPU, DeAUno
  <2>5. UnEnvio'
    BY <1>3, <2>1 DEF Reparto, Tenencia, UnEnvio
  <2>6. SinEnvio'
    <3>1. Bloqueando => atendida \in Cpus
      BY <1>3 DEF Reparto, Canales, Respuestas, SinResponder
    <3> QED
      BY <1>3, <2>1, <2>3, <3>1 DEF Reparto, Tenencia, SinEnvio
  <2> QED
    BY <2>4, <2>5, <2>6 DEF Tenencia
<1>4. ASSUME Reparto PROVE Ubicados'
  <2>1. \A z \in Sitios, p \in PID : Esta(z, p)' <=> Esta(z, p)
    BY DEF Esta, EnReady
  <2> QED
    BY <1>4, <2>1 DEF Reparto, Ubicados, EnUno, Creados, ReadySinRepetir
<1>5. ASSUME Reparto PROVE Fines' /\ Paginas'
  BY <1>5 DEF Reparto, Fines, Terminados, Anotados, Paginas, EnNew, ConPaginas, Avisados
<1> QED
  BY <1>1, <1>2, <1>3, <1>4, <1>5, MutexInv_SoloGrado DEF PlanInv, Reparto

LEMMA PlanInv_NextD == PlanInv /\ [NextD]_varsD => PlanInv'
<1>1. PlanInv => TypeOK
  BY DEF PlanInv, MutexInv, TypeInv
<1> QED
  BY <1>1, StepOfScheduler, PlanInv_Next, PlanInv_SoloGrado

LEMMA PlanInv_SiempreD == SpecD => []PlanInv
<1>1. InitD => PlanInv
  BY PlanInv_Init DEF InitD
<1> QED
  BY <1>1, PlanInv_NextD, PTL DEF SpecD

(* A stop, a restart, a multiprogramacion or an end at any moment leave    *)
(* every PCB in one queue or in one thread's hands, and the pages with     *)
(* admitted programs or with programs being finished (Kernel.c:189-343,    *)
(* estados.c).                                                             *)
THEOREM OnePlaceD == SpecD => []UnSoloLugar
<1>1. PlanInv => UnSoloLugar
  BY DeUnSoloLugar DEF PlanInv, Reparto, UnSoloLugar
<1> QED
  BY <1>1, PlanInv_SiempreD, PTL

THEOREM MemoryBoundedD == SpecD => []MemoriaAcotada
<1>1. PlanInv => MemoriaAcotada
  BY DeMemoriaAcotada DEF PlanInv, Reparto, MemoriaAcotada
<1> QED
  BY <1>1, PlanInv_SiempreD, PTL

-----------------------------------------------------------------------------
(* The degree: what the turns of the bajarGrado threads add up to.         *)

MaxVueltas == GradoMultiprog + MaxGrado
CuentasPosibles == [Cambios -> -MaxVueltas .. MaxVueltas]
Arriba(f) == {x \in Cambios \X Vueltas : x[2] <= f[x[1]]}

LEMMA Limites == MaxVueltas \in Nat /\ Vueltas = 1 .. MaxVueltas /\ Cambios \subseteq Nat
BY ConstantesAssumption, DetencionAssumption DEF MaxVueltas, Vueltas, Cambios

LEMMA ArribaFinito ==
    ASSUME NEW f
    PROVE  IsFiniteSet(Arriba(f)) /\ Cardinality(Arriba(f)) \in Nat
<1>1. IsFiniteSet(Cambios) /\ IsFiniteSet(Vueltas)
  BY FS_Interval, Limites, DetencionAssumption DEF Cambios
<1>2. IsFiniteSet(Cambios \X Vueltas)
  BY <1>1, FS_Product
<1>3. Arriba(f) \subseteq Cambios \X Vueltas
  BY DEF Arriba
<1> QED
  BY <1>2, <1>3, FS_Subset, FS_CardinalityType

(* A thread that gets its number of turns, and one that makes a turn. *)
LEMMA Empieza ==
    ASSUME NEW f \in CuentasPosibles, NEW g \in CuentasPosibles, NEW k \in Cambios, f[k] = 0, g[k] >= 0,
           \A j \in Cambios \ {k} : g[j] = f[j]
    PROVE  Cardinality(Arriba(g)) = Cardinality(Arriba(f)) + g[k]
<1> DEFINE d == g[k]
           T == {k} \X (1 .. d)
<1>1. d \in Nat /\ d <= MaxVueltas
  BY Limites DEF CuentasPosibles
<1>2. IsFiniteSet(1 .. d) /\ Cardinality(1 .. d) = d
  BY <1>1, FS_Interval, SMTT(30)
<1>3. IsFiniteSet(T) /\ Cardinality(T) = d
  <2>1. IsFiniteSet({k}) /\ Cardinality({k}) = 1
    BY FS_Singleton
  <2>2. IsFiniteSet(T) /\ Cardinality(T) = Cardinality({k}) * Cardinality(1 .. d)
    BY <1>2, <2>1, FS_Product
  <2> QED
    BY <1>1, <1>2, <2>1, <2>2
<1>4. Arriba(g) = Arriba(f) \cup T
  <2>1. ASSUME NEW x \in Cambios \X Vueltas PROVE x \in Arriba(g) <=> x \in Arriba(f) \cup T
    <3>1. PICK j \in Cambios, n \in Vueltas : x = <<j, n>>
      OBVIOUS
    <3>2. x \in T <=> j = k /\ n \in 1 .. d
      BY <3>1
    <3>3. x \in Arriba(f) <=> n <= f[j]
      BY <3>1 DEF Arriba
    <3>4. x \in Arriba(g) <=> n <= g[j]
      BY <3>1 DEF Arriba
    <3>5. n \in Nat /\ n >= 1
      BY Limites
    <3> QED
      BY <1>1, <3>2, <3>3, <3>4, <3>5
  <2>2. T \subseteq Cambios \X Vueltas
    BY <1>1, Limites
  <2> QED
    BY <2>1, <2>2 DEF Arriba
<1>5. Arriba(f) \cap T = {}
  BY Limites DEF Arriba
<1>6. IsFiniteSet(Arriba(f)) /\ Cardinality(Arriba(f)) \in Nat
  BY ArribaFinito
<1>7. Cardinality(Arriba(g)) = Cardinality(Arriba(f)) + d - 0
  BY <1>3, <1>4, <1>5, <1>6, FS_Union, FS_EmptySet
<1> QED
  BY <1>1, <1>6, <1>7

LEMMA Gira ==
    ASSUME NEW f \in CuentasPosibles, NEW g \in CuentasPosibles, NEW k \in Cambios, f[k] > 0, g[k] = f[k] - 1,
           \A j \in Cambios \ {k} : g[j] = f[j]
    PROVE  Cardinality(Arriba(g)) = Cardinality(Arriba(f)) - 1
<1> DEFINE n == f[k]
<1>1. n \in Nat /\ n <= MaxVueltas /\ n \in Vueltas
  BY Limites DEF CuentasPosibles
<1>2. Arriba(g) = Arriba(f) \ {<<k, n>>} /\ <<k, n>> \in Arriba(f)
  <2>1. ASSUME NEW x \in Cambios \X Vueltas PROVE x \in Arriba(g) <=> x \in Arriba(f) \ {<<k, n>>}
    <3>1. PICK j \in Cambios, m \in Vueltas : x = <<j, m>>
      OBVIOUS
    <3>2. (x \in Arriba(f) <=> m <= f[j]) /\ (x \in Arriba(g) <=> m <= g[j])
      BY <3>1 DEF Arriba
    <3>3. m \in Nat
      BY Limites
    <3> QED
      BY <1>1, <3>1, <3>2, <3>3
  <2>2. <<k, n>> \in Arriba(f)
    BY <1>1 DEF Arriba
  <2> QED
    BY <2>1, <2>2 DEF Arriba
<1> QED
  BY <1>2, ArribaFinito, FS_RemoveElement

LEMMA Sigue ==
    ASSUME NEW f \in CuentasPosibles, NEW g \in CuentasPosibles, NEW k \in Cambios, f[k] <= 0, g[k] <= 0,
           \A j \in Cambios \ {k} : g[j] = f[j]
    PROVE  Arriba(g) = Arriba(f)
<1>1. ASSUME NEW x \in Cambios \X Vueltas PROVE x \in Arriba(g) <=> x \in Arriba(f)
  <2>1. PICK j \in Cambios, m \in Vueltas : x = <<j, m>>
    OBVIOUS
  <2>2. (x \in Arriba(f) <=> m <= f[j]) /\ (x \in Arriba(g) <=> m <= g[j])
    BY <2>1 DEF Arriba
  <2>3. m \in Nat /\ m >= 1 /\ f[k] \in Int /\ g[k] \in Int
    BY Limites DEF CuentasPosibles
  <2> QED
    BY <2>2, <2>3
<1> QED
  BY <1>1 DEF Arriba

(* The bajarGrado threads: how many turns each has made at most, and, as   *)
(* long as none read the degree another was to write, that the one about   *)
(* to write read the degree there is.                                      *)
Total(m) == IF m.nuevo > m.viejo THEN m.nuevo - m.viejo ELSE m.viejo - m.nuevo
TipoCambio == [paso : {"nada", "leer", "escribir", "ajustar"}, nuevo : 0 .. MaxVueltas,
               viejo : 0 .. MaxVueltas, i : 0 .. MaxVueltas]
Hechas(m) == m.i <= IF m.paso = "ajustar" THEN Total(m) ELSE 0
Leido ==
    \A k \in Cambios : cambios[k].paso = "escribir" =>
        cambios[k].viejo = multiprog /\ \A j \in Cambios : cambios[j].paso = "escribir" => j = k
CambiosInv ==
    /\ multiprog \in 0 .. MaxVueltas /\ cambios \in [Cambios -> TipoCambio]
    /\ \A k \in Cambios : Hechas(cambios[k])
    /\ ~carrera => Leido

Suben == [k \in Cambios |-> Faltan(k)]
Bajan == [k \in Cambios |-> -Faltan(k)]

SumaSon ==
    /\ PorSubir = Arriba(Suben) /\ PorBajar = Arriba(Bajan)
    /\ \A j \in Cambios : Suben[j] = Faltan(j) /\ Bajan[j] = -Faltan(j)

LEMMA SumaEs == SumaSon
<1>1. \A x \in Cambios \X Vueltas : x[1] \in Cambios
  OBVIOUS
<1> QED
  BY <1>1 DEF SumaSon, PorSubir, PorBajar, Arriba, Suben, Bajan

LEMMA SumaEsDespues == SumaSon'
BY SumaEs, PTL

LEMMA FaltanTipo ==
    ASSUME CambiosInv
    PROVE  /\ Suben \in CuentasPosibles /\ Bajan \in CuentasPosibles
           /\ \A k \in Cambios : Faltan(k) \in Int
<1>1. ASSUME NEW k \in Cambios PROVE Faltan(k) \in -MaxVueltas .. MaxVueltas
  <2>1. cambios[k] \in TipoCambio /\ Hechas(cambios[k])
    BY DEF CambiosInv
  <2> QED
    BY <2>1, Limites, SMTT(30) DEF Faltan, Hechas, Total, TipoCambio
<1>2. \A k \in Cambios : Faltan(k) \in Int /\ -Faltan(k) \in -MaxVueltas .. MaxVueltas
  BY <1>1, Limites
<1> QED
  BY <1>1, <1>2 DEF Suben, Bajan, CuentasPosibles

LEMMA CambiosInit == InitD => CambiosInv /\ SumaFaltan = 0
<1> SUFFICES ASSUME InitD PROVE CambiosInv /\ SumaFaltan = 0
  OBVIOUS
<1>1. CambiosInv
  BY ConstantesAssumption, DetencionAssumption, Limites
     DEF InitD, CambiosInv, TipoCambio, Hechas, Leido, CambioNuevo, MaxVueltas
<1>2. \A k \in Cambios : Faltan(k) = 0
  BY DEF InitD, Faltan, CambioNuevo
<1>3. PorSubir = {} /\ PorBajar = {}
  <2>1. ASSUME NEW x \in Cambios \X Vueltas PROVE ~(x[2] <= Faltan(x[1])) /\ ~(x[2] <= -Faltan(x[1]))
    <3>1. x[1] \in Cambios /\ x[2] \in Nat /\ x[2] >= 1
      BY Limites
    <3> QED
      BY <1>2, <3>1
  <2> QED
    BY <2>1 DEF PorSubir, PorBajar
<1> QED
  BY <1>1, <1>3, FS_EmptySet DEF SumaFaltan

LEMMA CambiosNext == CambiosInv /\ [NextD]_varsD => CambiosInv'
<1> SUFFICES ASSUME CambiosInv, [NextD]_varsD PROVE CambiosInv'
  OBVIOUS
<1>1. CASE UNCHANGED <<cambios, multiprog, carrera>>
  BY <1>1 DEF CambiosInv, Leido
<1>2. ASSUME NEW k \in Cambios, NEW n \in 0 .. MaxGrado, changeMultiprogramacion(k, n)
      PROVE  CambiosInv'
  <2>1. n \in 0 .. MaxVueltas
    BY ConstantesAssumption, DetencionAssumption DEF MaxVueltas
  <2>2. cambios[k] \in TipoCambio /\ Hechas(cambios[k]) /\ cambios[k].paso = "nada"
    BY <1>2 DEF CambiosInv, changeMultiprogramacion
  <2>3. cambios' = [cambios EXCEPT ![k] = [cambios[k] EXCEPT !.paso = "leer", !.nuevo = n]]
    BY <1>2 DEF changeMultiprogramacion, CambiosInv, TipoCambio
  <2> QED
    BY <1>2, <2>1, <2>2, <2>3 DEF CambiosInv, Leido, Hechas, TipoCambio, changeMultiprogramacion
<1>3. ASSUME NEW k \in Cambios, bajarGrado_lee(k) PROVE CambiosInv'
  <2>1. cambios' = [cambios EXCEPT ![k] = [cambios[k] EXCEPT !.paso = "escribir", !.viejo = multiprog]]
    BY <1>3 DEF bajarGrado_lee, CambiosInv, TipoCambio
  <2>2. cambios[k] \in TipoCambio /\ Hechas(cambios[k]) /\ cambios[k].paso = "leer"
    BY <1>3 DEF CambiosInv, bajarGrado_lee
  <2>3. cambios' \in [Cambios -> TipoCambio] /\ \A j \in Cambios : Hechas(cambios'[j])
    BY <2>1, <2>2 DEF CambiosInv, Hechas, TipoCambio
  <2>4. ASSUME ~carrera' PROVE Leido'
    <3>1. \A j \in Cambios : cambios[j].paso # "escribir"
      BY <1>3, <2>4 DEF bajarGrado_lee
    <3>2. \A j \in Cambios : cambios'[j].paso = "escribir" => j = k
      BY <2>1, <3>1 DEF CambiosInv
    <3>3. cambios'[k].viejo = multiprog /\ multiprog' = multiprog
      BY <1>3, <2>1 DEF CambiosInv, TipoCambio, bajarGrado_lee
    <3> QED
      BY <3>2, <3>3 DEF Leido
  <2> QED
    BY <1>3, <2>3, <2>4 DEF CambiosInv, bajarGrado_lee
<1>4. ASSUME NEW k \in Cambios, bajarGrado_escribe(k) PROVE CambiosInv'
  <2>1. cambios' = [cambios EXCEPT ![k] = [cambios[k] EXCEPT !.paso = "ajustar"]]
    BY <1>4 DEF bajarGrado_escribe, CambiosInv, TipoCambio
  <2>2. 0 <= Total(cambios[k])
    BY Limites DEF CambiosInv, TipoCambio, Total
  <2> QED
    BY <1>4, <2>1, <2>2 DEF CambiosInv, Leido, Hechas, Total, TipoCambio, bajarGrado_escribe
<1>5. ASSUME NEW k \in Cambios, bajarGrado(k) PROVE CambiosInv'
  <2>1. cambios' = [cambios EXCEPT ![k] = [cambios[k] EXCEPT !.i = @ + 1]]
    BY <1>5 DEF bajarGrado, CambiosInv, TipoCambio
  <2>2. cambios[k] \in TipoCambio /\ Hechas(cambios[k]) /\ Faltan(k) # 0
    BY <1>5 DEF CambiosInv, bajarGrado
  <2>3. cambios[k].paso = "ajustar" /\ cambios[k].i + 1 <= Total(cambios[k])
    BY <2>2, Limites DEF Faltan, Hechas, Total, TipoCambio
  <2>4. cambios[k].i + 1 \in 0 .. MaxVueltas
    BY <2>2, <2>3, Limites, SMTT(30) DEF Total, TipoCambio
  <2> QED
    BY <1>5, <2>1, <2>3, <2>4 DEF CambiosInv, Leido, Hechas, Total, TipoCambio, bajarGrado
<1> QED
  BY <1>1, <1>2, <1>3, <1>4, <1>5
     DEF NextD, varsD, mando, Planifica, Maneja, checkStopped, checkStopped_sale, moverA_colaExec,
         stop, restart, escribirEnd, endOperador

TipoCuentas == Suben \in CuentasPosibles /\ Bajan \in CuentasPosibles

LEMMA CuentasBien == CambiosInv => TipoCuentas
BY FaltanTipo DEF TipoCuentas

LEMMA CuentasBienDespues == CambiosInv' => TipoCuentas'
BY CuentasBien, PTL

(* What each step of a bajarGrado thread adds to the turns to be made. *)
LEMMA SumaIgual ==
    ASSUME \A k \in Cambios : Faltan(k)' = Faltan(k)
    PROVE  SumaFaltan' = SumaFaltan
<1>1. ASSUME NEW x \in Cambios \X Vueltas PROVE Faltan(x[1])' = Faltan(x[1])
  <2>1. x[1] \in Cambios
    OBVIOUS
  <2> QED
    BY <2>1
<1>2. PorSubir' = PorSubir /\ PorBajar' = PorBajar
  BY <1>1 DEF PorSubir, PorBajar
<1> QED
  BY <1>2 DEF SumaFaltan

LEMMA SumaDe ==
    ASSUME NEW f \in CuentasPosibles, NEW g \in CuentasPosibles, NEW k \in Cambios,
           NEW f2 \in CuentasPosibles, NEW g2 \in CuentasPosibles,
           \A j \in Cambios : f2[j] = -f[j] /\ g2[j] = -g[j],
           \A j \in Cambios \ {k} : g[j] = f[j],
           \/ f[k] = 0
           \/ f[k] > 0 /\ g[k] = f[k] - 1
           \/ f[k] < 0 /\ g[k] = f[k] + 1
    PROVE  Cardinality(Arriba(g)) - Cardinality(Arriba(g2))
              = Cardinality(Arriba(f)) - Cardinality(Arriba(f2)) + (g[k] - f[k])
<1>1. f[k] \in Int /\ g[k] \in Int /\ f2[k] \in Int /\ g2[k] \in Int
  BY Limites DEF CuentasPosibles
<1>2. f2[k] = -f[k] /\ g2[k] = -g[k] /\ \A j \in Cambios \ {k} : g2[j] = f2[j]
  OBVIOUS
<1>3. /\ Cardinality(Arriba(f)) \in Nat /\ Cardinality(Arriba(g)) \in Nat
      /\ Cardinality(Arriba(f2)) \in Nat /\ Cardinality(Arriba(g2)) \in Nat
  BY ArribaFinito
<1>4. CASE f[k] = 0 /\ g[k] >= 0
  <2>1. Cardinality(Arriba(g)) = Cardinality(Arriba(f)) + g[k]
    BY <1>4, Empieza
  <2>2. Arriba(g2) = Arriba(f2)
    BY <1>1, <1>2, <1>4, Sigue
  <2> QED
    BY <1>1, <1>3, <1>4, <2>1, <2>2
<1>5. CASE f[k] = 0 /\ g[k] < 0
  <2>1. Cardinality(Arriba(g2)) = Cardinality(Arriba(f2)) + g2[k]
    BY <1>1, <1>2, <1>5, Empieza
  <2>2. Arriba(g) = Arriba(f)
    BY <1>1, <1>5, Sigue
  <2> QED
    BY <1>1, <1>2, <1>3, <1>5, <2>1, <2>2
<1>6. CASE f[k] > 0 /\ g[k] = f[k] - 1
  <2>1. Cardinality(Arriba(g)) = Cardinality(Arriba(f)) - 1
    BY <1>6, Gira
  <2>2. Arriba(g2) = Arriba(f2)
    BY <1>1, <1>2, <1>6, Sigue
  <2> QED
    BY <1>1, <1>3, <1>6, <2>1, <2>2
<1>7. CASE f[k] < 0 /\ g[k] = f[k] + 1
  <2>1. Cardinality(Arriba(g2)) = Cardinality(Arriba(f2)) - 1
    <3>1. f2[k] > 0 /\ g2[k] = f2[k] - 1
      BY <1>1, <1>2, <1>7
    <3> QED
      BY <1>2, <3>1, Gira
  <2>2. Arriba(g) = Arriba(f)
    BY <1>1, <1>7, Sigue
  <2> QED
    BY <1>1, <1>3, <1>7, <2>1, <2>2
<1> QED
  BY <1>1, <1>4, <1>5, <1>6, <1>7

LEMMA SumaCambia ==
    ASSUME CambiosInv, CambiosInv', NEW k \in Cambios, NEW d,
           \A j \in Cambios \ {k} : Faltan(j)' = Faltan(j),
           Faltan(k)' = Faltan(k) + d,
           \/ Faltan(k) = 0 /\ d \in Int
           \/ Faltan(k) > 0 /\ d = -1
           \/ Faltan(k) < 0 /\ d = 1
    PROVE  SumaFaltan' = SumaFaltan + d
<1>1. /\ Suben \in CuentasPosibles /\ Bajan \in CuentasPosibles /\ Suben' \in CuentasPosibles /\ Bajan' \in CuentasPosibles
      /\ \A j \in Cambios : Faltan(j) \in Int
  BY FaltanTipo, CuentasBien, CuentasBienDespues DEF TipoCuentas, CuentasPosibles
<1>2. /\ \A j \in Cambios : /\ Suben[j] = Faltan(j) /\ Suben'[j] = Faltan(j)'
                            /\ Bajan[j] = -Suben[j] /\ Bajan'[j] = -Suben'[j]
      /\ SumaFaltan = Cardinality(Arriba(Suben)) - Cardinality(Arriba(Bajan))
      /\ SumaFaltan' = Cardinality(Arriba(Suben')) - Cardinality(Arriba(Bajan'))
  BY SumaEs, SumaEsDespues DEF SumaSon, SumaFaltan, Arriba
<1>3. /\ \A j \in Cambios \ {k} : Suben'[j] = Suben[j]
      /\ Suben'[k] = Suben[k] + d /\ d \in Int /\ Suben[k] \in Int
      /\ \/ Suben[k] = 0
         \/ Suben[k] > 0 /\ Suben'[k] = Suben[k] - 1
         \/ Suben[k] < 0 /\ Suben'[k] = Suben[k] + 1
  BY <1>1, <1>2
<1>4. SumaFaltan' = SumaFaltan + (Suben'[k] - Suben[k])
  BY <1>1, <1>2, <1>3, SumaDe
<1>5. Suben'[k] - Suben[k] = d
  BY <1>3
<1> QED
  BY <1>4, <1>5

GradoInv == ~carrera /\ ~desfase => Plazas + SumaFaltan = multiprog

LEMMA StepOfOperator ==
    ASSUME TypeOK, [NextD]_varsD
    PROVE  \/ [Next]_vars /\ UNCHANGED <<cambios, multiprog, carrera>>
           \/ \E k \in Cambios : \/ \E n \in 0 .. MaxGrado : changeMultiprogramacion(k, n)
                                 \/ bajarGrado_lee(k) \/ bajarGrado_escribe(k) \/ bajarGrado(k)
<1>1. CASE \/ Planifica \/ \E c \in Cpus : Maneja(c)
           \/ \E t \in Hilos : checkStopped(t) \/ checkStopped_sale(t) \/ moverA_colaExec(t)
           \/ stop \/ restart
           \/ \E p \in PID : escribirEnd(p) \/ endOperador(p)
  <2>1. UNCHANGED <<cambios, multiprog, carrera>>
    BY <1>1 DEF mando, Planifica, Maneja, checkStopped, checkStopped_sale, moverA_colaExec,
                stop, restart, escribirEnd, endOperador
  <2>2. [Next]_vars
    BY <1>1 DEF Next, Planifica, Maneja, checkStopped, checkStopped_sale, moverA_colaExec,
                stop, restart, escribirEnd, endOperador
  <2> QED
    BY <2>1, <2>2
<1>2. CASE UNCHANGED varsD
  BY <1>2 DEF varsD, mando
<1> QED
  BY <1>1, <1>2 DEF NextD

LEMMA GradoNumeros ==
    ASSUME TypeOK
    PROVE  Plazas \in Int /\ SumaFaltan \in Int
<1>1. grado \in Nat
  BY DEF TypeOK, TipoHilos
<1>2. Cardinality(PorSubir) \in Nat /\ Cardinality(PorBajar) \in Nat
  BY SumaEs, ArribaFinito DEF SumaSon
<1> QED
  BY <1>1, <1>2, AdmitidosFinitos DEF Plazas, SumaFaltan

LEMMA GradoNext ==
    PlanInv /\ CambiosInv /\ CambiosInv' /\ GradoInv /\ [NextD]_varsD => GradoInv'
<1> SUFFICES ASSUME PlanInv, CambiosInv, CambiosInv', GradoInv, [NextD]_varsD,
                    ~carrera', ~desfase'
             PROVE  (Plazas + SumaFaltan = multiprog)'
  BY DEF GradoInv
<1>1. TypeOK /\ MutexInv
  BY DEF PlanInv, MutexInv, TypeInv
<1>2. Plazas \in Int /\ SumaFaltan \in Int /\ multiprog \in Int
  BY <1>1, GradoNumeros, Limites DEF CambiosInv
<1>3. ASSUME [Next]_vars, UNCHANGED <<cambios, multiprog, carrera>>
      PROVE  (Plazas + SumaFaltan = multiprog)'
  <2>1. ~desfase /\ Plazas' = Plazas
    BY <1>1, <1>3, DesfaseQueda, Plazas_Next DEF PlanInv, Reparto
  <2>2. \A k \in Cambios : Faltan(k)' = Faltan(k)
    BY <1>3 DEF Faltan
  <2>3. SumaFaltan' = SumaFaltan
    BY <2>2, SumaIgual
  <2> QED
    BY <1>3, <2>1, <2>3 DEF GradoInv
<1>4. ASSUME UNCHANGED vars
      PROVE  Plazas' = Plazas /\ ~desfase
  BY <1>4 DEF vars, colas, consolas, kernel, Plazas, Admitidos
<1>5. ASSUME NEW k \in Cambios, NEW n \in 0 .. MaxGrado, changeMultiprogramacion(k, n)
      PROVE  (Plazas + SumaFaltan = multiprog)'
  <2>1. \A j \in Cambios : Faltan(j)' = Faltan(j)
    BY <1>5 DEF changeMultiprogramacion, Faltan, CambiosInv, TipoCambio
  <2> QED
    BY <1>4, <1>5, <2>1, SumaIgual DEF changeMultiprogramacion, GradoInv
<1>6. ASSUME NEW k \in Cambios, bajarGrado_lee(k)
      PROVE  (Plazas + SumaFaltan = multiprog)'
  <2>1. \A j \in Cambios : Faltan(j)' = Faltan(j)
    BY <1>6 DEF bajarGrado_lee, Faltan, CambiosInv, TipoCambio
  <2> QED
    BY <1>4, <1>6, <2>1, SumaIgual DEF bajarGrado_lee, GradoInv
<1>7. ASSUME NEW k \in Cambios, bajarGrado_escribe(k)
      PROVE  (Plazas + SumaFaltan = multiprog)'
  <2>1. UNCHANGED vars /\ ~carrera
    BY <1>7 DEF bajarGrado_escribe
  <2>2. multiprog = cambios[k].viejo /\ multiprog' = cambios[k].nuevo
    BY <1>7, <2>1 DEF bajarGrado_escribe, CambiosInv, Leido
  <2>3. \A j \in Cambios \ {k} : Faltan(j)' = Faltan(j)
    BY <1>7 DEF bajarGrado_escribe, Faltan, CambiosInv, TipoCambio
  <2>4. Faltan(k) = 0
    BY <1>7 DEF bajarGrado_escribe, Faltan
  <2>5. cambios[k] \in TipoCambio /\ cambios[k].i = 0
    BY <1>7, Limites DEF CambiosInv, Hechas, TipoCambio, bajarGrado_escribe
  <2>6. cambios'[k] = [cambios[k] EXCEPT !.paso = "ajustar"]
    BY <1>7 DEF bajarGrado_escribe, CambiosInv, TipoCambio
  <2>7. Faltan(k)' = cambios[k].nuevo - cambios[k].viejo
    BY <2>5, <2>6, Limites DEF Faltan, TipoCambio
  <2>8. multiprog' - multiprog \in Int /\ Faltan(k)' = Faltan(k) + (multiprog' - multiprog)
    BY <2>2, <2>4, <2>5, <2>7, Limites DEF TipoCambio
  <2>9. SumaFaltan' = SumaFaltan + (multiprog' - multiprog)
    BY <2>3, <2>4, <2>8, SumaCambia
  <2>10. multiprog' \in Int
    BY <2>2, <2>5, Limites DEF TipoCambio
  <2>11. Plazas' = Plazas /\ Plazas + SumaFaltan = multiprog
    BY <1>4, <2>1 DEF GradoInv
  <2>12. PICK p \in Int, s \in Int, m \in Int, n \in Int :
               p = Plazas /\ s = SumaFaltan /\ m = multiprog /\ n = multiprog'
    BY <1>2, <2>10
  <2>13. p + s = m
    BY <2>11, <2>12
  <2>14. p + (s + (n - m)) = n
    BY <2>13
  <2>15. SumaFaltan' = s + (n - m)
    BY <2>9, <2>12
  <2> QED
    BY <2>11, <2>12, <2>14, <2>15
<1>8. ASSUME NEW k \in Cambios, bajarGrado(k)
      PROVE  (Plazas + SumaFaltan = multiprog)'
  <2>1. multiprog' = multiprog /\ ~carrera /\ ~desfase
    BY <1>8 DEF bajarGrado
  <2>2. UNCHANGED <<ultimoPID, colaExit, paso>>
    BY <1>8 DEF bajarGrado, colas, consolas
  <2>3. Admitidos' = Admitidos
    BY <2>2 DEF Admitidos
  <2>4. \A j \in Cambios \ {k} : Faltan(j)' = Faltan(j)
    BY <1>8 DEF bajarGrado, Faltan, CambiosInv, TipoCambio
  <2>5. cambios[k] \in TipoCambio /\ Faltan(k) \in Int /\ Faltan(k) # 0
    BY <1>8, FaltanTipo DEF CambiosInv, bajarGrado
  <2>6. cambios'[k] = [cambios[k] EXCEPT !.i = @ + 1]
    BY <1>8 DEF bajarGrado, CambiosInv, TipoCambio
  <2>7. Cardinality(Admitidos) \in Nat /\ grado \in Nat
    BY <1>1, AdmitidosFinitos DEF TypeOK, TipoHilos
  <2>8. CASE Faltan(k) > 0
    <3>1. grado' = grado + 1
      BY <1>8, <2>5, <2>8 DEF bajarGrado, bajarGrado_ajusta
    <3>2. Faltan(k)' = Faltan(k) + -1
      <4>1. Hechas(cambios[k]) /\ Hechas(cambios'[k])
        BY DEF CambiosInv
      <4> QED
        BY <2>5, <2>6, <2>8, <4>1, Limites, SMTT(30) DEF Faltan, Hechas, Total, TipoCambio
    <3>3. SumaFaltan' = SumaFaltan + -1
      BY <2>4, <2>8, <3>2, SumaCambia
    <3> QED
      BY <1>2, <2>1, <2>3, <2>7, <3>1, <3>3 DEF GradoInv, Plazas
  <2>9. CASE Faltan(k) < 0
    <3>1. grado' = grado - 1
      BY <1>8, <2>5, <2>9 DEF bajarGrado, bajarGrado_ajusta
    <3>2. Faltan(k)' = Faltan(k) + 1
      <4>1. Hechas(cambios[k]) /\ Hechas(cambios'[k])
        BY DEF CambiosInv
      <4> QED
        BY <2>5, <2>6, <2>9, <4>1, Limites DEF Faltan, Hechas, Total, TipoCambio
    <3>3. SumaFaltan' = SumaFaltan + 1
      BY <2>4, <2>9, <3>2, SumaCambia
    <3> QED
      BY <1>2, <2>1, <2>3, <2>7, <3>1, <3>3 DEF GradoInv, Plazas
  <2> QED
    BY <2>5, <2>8, <2>9
<1> QED
  BY <1>1, <1>3, <1>5, <1>6, <1>7, <1>8, StepOfOperator

(* The degree the operator asked for, the places in use and the turns the  *)
(* bajarGrado threads still have to make add up, for every number of       *)
(* programs and of multiprogramacion commands, unless two commands read    *)
(* and wrote the degree at the same time or a CPU was sent a second PCB    *)
(* (Kernel.c:215-227).                                                     *)
THEOREM DegreeAddsUp == SpecD => []GradoConcuerda
<1>1. InitD => CambiosInv /\ GradoInv
  <2> SUFFICES ASSUME InitD PROVE CambiosInv /\ GradoInv
    OBVIOUS
  <2>1. Plazas = GradoMultiprog /\ GradoMultiprog \in Nat /\ multiprog = GradoMultiprog
    BY Plazas_Init, ConstantesAssumption DEF InitD
  <2> QED
    BY <2>1, CambiosInit DEF GradoInv
<1>2. TypeOK /\ GradoInv => GradoConcuerda
  <2> SUFFICES ASSUME TypeOK, GradoInv PROVE GradoConcuerda
    OBVIOUS
  <2> QED
    BY GradoNumeros DEF GradoInv, GradoConcuerda, Plazas
<1>3. PlanInv => TypeOK
  BY DEF PlanInv, MutexInv, TypeInv
<1> QED
  BY <1>1, <1>2, <1>3, CambiosNext, GradoNext, PlanInv_SiempreD, PTL DEF SpecD
=============================================================================
