--------------------------- MODULE Consola_proofs ---------------------------
(***************************************************************************)
(* What the threads of a console find in the pointer they share, for every *)
(* number of programs and of messages.                                     *)
(***************************************************************************)
EXTENDS Consola, SequenceTheorems, TLAPS

(* The next message of p that esperarKernel has not taken yet.             *)
Proximo(p) == IF aviso.pid = p THEN aviso.n + 1 ELSE vistos[p] + 1

(* The messages on their way are numbered in the order they were sent, and *)
(* NEW_PID is the first: a thread that exists has it behind.               *)
Numerados ==
    \A i \in DOMAIN canal :
        /\ canal[i].tipo = "NEW_PID" <=> canal[i].n = 1
        /\ hilo[canal[i].pid] # "nada" => canal[i].n > 1
        /\ canal[i].n <= enviados[canal[i].pid]
Crecientes ==
    \A i, j \in DOMAIN canal :
        i < j /\ canal[i].pid = canal[j].pid => canal[i].n < canal[j].n

(* None was lost, until the thread of the program is gone.                 *)
Completos ==
    \A p \in PID : hilo[p] # "fin" =>
        /\ Proximo(p) <= enviados[p] + 1
        /\ \A i \in DOMAIN canal : canal[i].pid = p => Proximo(p) <= canal[i].n
        /\ \A n \in Nat : Proximo(p) <= n /\ n <= enviados[p] =>
              \E i \in DOMAIN canal : canal[i].pid = p /\ canal[i].n = n

(* What is in avisoKernel, by where esperarKernel is.                      *)
AvisoTomado ==
    /\ kernel \in {"recibe", "exit"} => aviso = Liberado
    /\ kernel \in {"busca", "procesa"} => aviso \in Mensaje /\ hilo[aviso.pid] # "nada"
    /\ kernel = "busca" /\ hilo[aviso.pid] # "fin" => aviso.n = vistos[aviso.pid] + 1
    /\ kernel = "procesa" /\ valor[aviso.pid] = 0 /\ hilo[aviso.pid] \notin {"lee", "fin"} =>
          vistos[aviso.pid] = aviso.n
    /\ avisoProcesado > 0 => kernel = "procesa"

(* The thread of a program and its entry of the dictionary.                *)
HiloYEntrada ==
    \A p \in PID :
        /\ hilo[p] = "nada" => vistos[p] = 0 /\ valor[p] = 0
        /\ hilo[p] # "nada" => enviados[p] > 0
        /\ p \in semaforosPID => hilo[p] \in {"espera", "lee", "quita", "avisa"}

Mensajes == Numerados /\ Crecientes /\ Completos
IInv == TypeOK /\ EntregaFiel /\ Mensajes /\ AvisoTomado /\ HiloYEntrada

-----------------------------------------------------------------------------
(* The Kernel's half of a step: what it leaves alone, and what it adds.    *)

LEMMA SendTypes ==
    ASSUME TypeOK, NEW p \in PID,
           NEW tipo \in {"NEW_PID", "LOG_MESSAGE", "END_PRGM"}, Manda(p, tipo)
    PROVE  /\ canal' \in Seq(Mensaje) /\ enviados' \in [PID -> Nat]
           /\ Len(canal') = Len(canal) + 1
           /\ \A i \in 1 .. Len(canal) : canal'[i] = canal[i]
           /\ canal'[Len(canal')] = [pid |-> p, n |-> enviados[p] + 1, tipo |-> tipo]
           /\ DOMAIN canal = 1 .. Len(canal) /\ DOMAIN canal' = 1 .. Len(canal')
           /\ Len(canal) \in Nat
<1> DEFINE m == [pid |-> p, n |-> enviados[p] + 1, tipo |-> tipo]
<1>1. m \in Mensaje
  BY DEF TypeOK, Mensaje
<1>2. canal \in Seq(Mensaje) /\ canal' = Append(canal, m)
  BY DEF TypeOK, Manda
<1> HIDE DEF m
<1>3. canal' \in Seq(Mensaje)
  BY <1>1, <1>2
<1>4. enviados' \in [PID -> Nat]
  BY DEF TypeOK, Manda
<1> QED
  BY <1>1, <1>2, <1>3, <1>4 DEF m

(* A step in which the Kernel sends the next message of p.                 *)
LEMMA SendStep ==
    ASSUME IInv, NEW p \in PID,
           NEW tipo \in {"NEW_PID", "LOG_MESSAGE", "END_PRGM"}, Manda(p, tipo),
           tipo = "NEW_PID" <=> enviados[p] = 0, terminado' \subseteq PID
    PROVE  IInv'
<1> USE DEF IInv, Mensajes
<1> DEFINE m == [pid |-> p, n |-> enviados[p] + 1, tipo |-> tipo]
<1>1. /\ canal' \in Seq(Mensaje) /\ enviados' \in [PID -> Nat]
      /\ Len(canal') = Len(canal) + 1
      /\ \A i \in 1 .. Len(canal) : canal'[i] = canal[i]
      /\ canal'[Len(canal')] = m
      /\ DOMAIN canal = 1 .. Len(canal) /\ DOMAIN canal' = 1 .. Len(canal')
      /\ Len(canal) \in Nat
  BY SendTypes
<1>2. /\ UNCHANGED <<aviso, kernel, avisoProcesado, semaforosPID, valor, statsPID, hilo, vistos>>
      /\ enviados' = [enviados EXCEPT ![p] = @ + 1]
      /\ UNCHANGED <<comando, porPedir, pedidos, comandos>>
  BY DEF Manda, entrega, hilos, usuario
<1>13. Len(canal) \in Nat /\ Len(canal') = Len(canal) + 1
  BY <1>1
<1>3. TypeOK'
  BY <1>1, <1>2 DEF TypeOK, Mensaje
<1>4. EntregaFiel'
  BY <1>2 DEF EntregaFiel, Turno
<1>5. AvisoTomado'
  BY <1>2 DEF AvisoTomado
<1>6. HiloYEntrada'
  BY <1>2 DEF HiloYEntrada, TypeOK
<1>7. \A i \in 1 .. Len(canal) : canal[i].pid \in PID /\ canal[i].n \in Nat
  <2>1. \A i \in 1 .. Len(canal) : canal[i] \in Mensaje
    BY <1>1 DEF TypeOK
  <2> QED
    BY <2>1 DEF Mensaje
<1>11. \A q \in PID : /\ enviados[q] \in Nat /\ enviados'[q] \in Nat
                      /\ enviados'[q] = IF q = p THEN enviados[q] + 1 ELSE enviados[q]
  BY <1>2 DEF TypeOK
<1>8. Numerados'
  <2> SUFFICES ASSUME NEW i \in 1 .. Len(canal')
               PROVE  /\ canal'[i].tipo = "NEW_PID" <=> canal'[i].n = 1
                      /\ hilo[canal'[i].pid] # "nada" => canal'[i].n > 1
                      /\ canal'[i].n <= enviados'[canal'[i].pid]
    BY <1>1, <1>2 DEF Numerados
  <2>1. CASE i <= Len(canal)
    <3>1. /\ canal'[i] = canal[i] /\ canal[i].pid \in PID /\ canal[i].n \in Nat
          /\ enviados[canal[i].pid] <= enviados'[canal[i].pid]
          /\ enviados[canal[i].pid] \in Nat /\ enviados'[canal[i].pid] \in Nat
      <4>1. i \in 1 .. Len(canal)
        BY <2>1
      <4> QED
        BY <4>1, <1>1, <1>7, <1>11
    <3>2. /\ canal[i].tipo = "NEW_PID" <=> canal[i].n = 1
          /\ hilo[canal[i].pid] # "nada" => canal[i].n > 1
          /\ canal[i].n <= enviados[canal[i].pid]
      BY <2>1, <1>1 DEF Numerados
    <3> QED
      BY <3>1, <3>2
  <2>2. CASE i = Len(canal')
    <3>1. hilo[p] # "nada" => enviados[p] > 0
      BY DEF HiloYEntrada
    <3> QED
      BY <2>2, <3>1, <1>1, <1>2 DEF TypeOK
  <2> QED
    BY <2>1, <2>2, <1>1
<1>9. Crecientes'
  <2> SUFFICES ASSUME NEW i \in 1 .. Len(canal'), NEW j \in 1 .. Len(canal'),
                      i < j, canal'[i].pid = canal'[j].pid
               PROVE  canal'[i].n < canal'[j].n
    BY <1>1 DEF Crecientes
  <2>1. CASE j <= Len(canal)
    <3>1. i \in DOMAIN canal /\ j \in DOMAIN canal /\ canal'[i] = canal[i] /\ canal'[j] = canal[j]
      BY <2>1, <1>1
    <3> QED
      BY <3>1 DEF Crecientes
  <2>2. CASE j = Len(canal')
    <3>1. i \in DOMAIN canal /\ canal'[i] = canal[i] /\ canal[i].pid = p
      BY <2>2, <1>1
    <3>2. canal[i].n <= enviados[p] /\ canal[i].n \in Nat /\ enviados[p] \in Nat
      BY <3>1, <1>7, <1>1, <1>11 DEF Numerados
    <3>3. canal'[j].n = enviados[p] + 1
      BY <2>2, <1>1
    <3> QED
      BY <3>1, <3>2, <3>3
  <2>3. j <= Len(canal) \/ j = Len(canal')
    BY <1>13
  <2> QED
    BY <2>1, <2>2, <2>3
<1>12. \A q \in PID : Proximo(q)' = Proximo(q)
  BY <1>2 DEF Proximo
<1>10. Completos'
  <2>5. DOMAIN canal' = 1 .. Len(canal') /\ hilo' = hilo
    BY <1>1, <1>2
  <2> SUFFICES ASSUME NEW q \in PID, hilo[q] # "fin"
               PROVE  /\ Proximo(q)' <= enviados'[q] + 1
                      /\ \A i \in DOMAIN canal' : canal'[i].pid = q => Proximo(q)' <= canal'[i].n
                      /\ \A n \in Nat : Proximo(q)' <= n /\ n <= enviados'[q] =>
                            \E i \in DOMAIN canal' : canal'[i].pid = q /\ canal'[i].n = n
    BY <2>5 DEF Completos
  <2>6. Proximo(q)' = Proximo(q)
    BY <1>12
  <2>1. Proximo(q) \in Int /\ Proximo(q) <= enviados[q] + 1 /\ enviados[q] \in Nat
    <3>1. aviso.n \in Nat /\ vistos[q] \in Nat
      BY DEF TypeOK, Mensaje, Liberado
    <3>2. Proximo(q) \in Nat
      BY <3>1 DEF Proximo
    <3> QED
      BY <3>2, <1>11 DEF Completos
  <2>2. enviados'[q] = IF q = p THEN enviados[q] + 1 ELSE enviados[q]
    BY <1>2 DEF TypeOK
  <2>3. \A i \in 1 .. Len(canal') : canal'[i].pid = q => Proximo(q) <= canal'[i].n
    <3> SUFFICES ASSUME NEW i \in 1 .. Len(canal'), canal'[i].pid = q
                 PROVE  Proximo(q) <= canal'[i].n
      OBVIOUS
    <3>1. CASE i <= Len(canal)
      BY <3>1, <1>1 DEF Completos
    <3>2. CASE i = Len(canal')
      BY <3>2, <1>1, <2>1
    <3> QED
      BY <3>1, <3>2, <1>1
  <2>4. ASSUME NEW n \in Nat, Proximo(q) <= n, n <= enviados'[q]
        PROVE  \E i \in 1 .. Len(canal') : canal'[i].pid = q /\ canal'[i].n = n
    <3>1. CASE n <= enviados[q]
      <4>1. PICK i \in 1 .. Len(canal) : canal[i].pid = q /\ canal[i].n = n
        BY <3>1, <2>4, <1>1 DEF Completos
      <4> QED
        BY <4>1, <1>1
    <3>2. CASE n = enviados[q] + 1 /\ q = p
      BY <3>2, <1>1
    <3> QED
      BY <3>1, <3>2, <2>4, <2>2, <2>1
  <2> QED
    <3>1. Proximo(q)' <= enviados'[q] + 1
      BY <2>1, <2>2, <2>6
    <3>2. \A i \in DOMAIN canal' : canal'[i].pid = q => Proximo(q)' <= canal'[i].n
      BY <2>3, <2>5, <2>6
    <3>3. \A n \in Nat : Proximo(q)' <= n /\ n <= enviados'[q] =>
             \E i \in DOMAIN canal' : canal'[i].pid = q /\ canal'[i].n = n
      BY <2>4, <2>5, <2>6
    <3> QED
      BY <3>1, <3>2, <3>3
<1> QED
  BY <1>3, <1>4, <1>5, <1>6, <1>8, <1>9, <1>10

-----------------------------------------------------------------------------
(* The message at the head of the channel: it is the one that comes next   *)
(* for its program, and NEW_PID comes for a program without a thread.      *)
LEMMA HeadIsNext ==
    ASSUME IInv, kernel = "recibe", canal # <<>>
    PROVE  /\ Head(canal) \in Mensaje /\ Head(canal) = canal[1]
           /\ Head(canal).n <= enviados[Head(canal).pid]
           /\ Head(canal).tipo = "NEW_PID" <=> Head(canal).n = 1
           /\ Head(canal).tipo = "NEW_PID" => hilo[Head(canal).pid] = "nada"
           /\ hilo[Head(canal).pid] # "fin" => Head(canal).n = vistos[Head(canal).pid] + 1
<1> DEFINE m == Head(canal)
           p == m.pid
<1>1. canal \in Seq(Mensaje)
  BY DEF IInv, TypeOK
<1>2. m \in Mensaje /\ m = canal[1] /\ 1 \in DOMAIN canal /\ DOMAIN canal = 1 .. Len(canal)
  BY <1>1, HeadTailProperties
<1>3. p \in PID /\ m.n \in Nat \ {0}
  BY <1>2 DEF Mensaje
<1>4. /\ m.n <= enviados[p]
      /\ m.tipo = "NEW_PID" <=> m.n = 1
      /\ hilo[p] # "nada" => m.n > 1
  BY <1>2 DEF IInv, Mensajes, Numerados
<1>5. ASSUME hilo[p] # "fin"
      PROVE  m.n = vistos[p] + 1
  <2>1. aviso = Liberado
    BY DEF IInv, AvisoTomado
  <2>2. Proximo(p) = vistos[p] + 1
    BY <2>1, <1>3, ConsolaAssumption DEF Proximo, Liberado
  <2>3. vistos[p] + 1 <= m.n
    BY <1>2, <1>3, <1>5, <2>2 DEF IInv, Mensajes, Completos
  <2>4. vistos[p] \in Nat /\ enviados[p] \in Nat
    BY <1>3 DEF IInv, TypeOK
  <2>5. \E i \in DOMAIN canal : canal[i].pid = p /\ canal[i].n = vistos[p] + 1
    BY <1>3, <1>4, <1>5, <2>2, <2>3, <2>4 DEF IInv, Mensajes, Completos
  <2>6. PICK i \in DOMAIN canal : canal[i].pid = p /\ canal[i].n = vistos[p] + 1
    BY <2>5
  <2>7. i # 1 => m.n < vistos[p] + 1
    <3> SUFFICES ASSUME i # 1 PROVE m.n < canal[i].n
      BY <2>6
    <3>1. 1 < i
      BY <1>1, <1>2
    <3> QED
      BY <1>2, <2>6, <3>1 DEF IInv, Mensajes, Crecientes
  <2> QED
    BY <1>2, <1>3, <2>3, <2>4, <2>6, <2>7
<1> HIDE DEF m, p
<1>6. m.tipo = "NEW_PID" => hilo[p] = "nada"
  BY <1>3, <1>4
<1> QED
  BY <1>2, <1>4, <1>5, <1>6 DEF m, p

(* What is left in the channel when the head is taken. *)
LEMMA TakeStep ==
    ASSUME IInv, kernel = "recibe", canal # <<>>,
           canal' = Tail(canal), aviso' = Head(canal), UNCHANGED <<enviados, vistos>>,
           \A q \in PID \ {Head(canal).pid} : hilo'[q] = hilo[q],
           \/ hilo'[Head(canal).pid] = hilo[Head(canal).pid]
           \/ (hilo[Head(canal).pid] = "nada" /\ hilo'[Head(canal).pid] = "espera")
    PROVE  canal' \in Seq(Mensaje) /\ Mensajes'
<1> DEFINE m == Head(canal)
<1>1. canal \in Seq(Mensaje)
  BY DEF IInv, TypeOK
<1>2. /\ canal' \in Seq(Mensaje) /\ Len(canal) \in Nat /\ Len(canal') = Len(canal) - 1
      /\ DOMAIN canal = 1 .. Len(canal) /\ DOMAIN canal' = 1 .. Len(canal')
      /\ \A i \in 1 .. Len(canal') : canal'[i] = canal[i + 1]
      /\ Len(canal) > 0
  BY <1>1, HeadTailProperties
<1>3. \A i \in 1 .. Len(canal') : i + 1 \in DOMAIN canal /\ 1 < i + 1
  BY <1>2
<1>4. \A i \in DOMAIN canal : canal[i].pid \in PID /\ canal[i].n \in Nat \ {0}
  <2>1. \A i \in DOMAIN canal : canal[i] \in Mensaje
    BY <1>1, <1>2
  <2> QED
    BY <2>1 DEF Mensaje
<1>5. /\ m \in Mensaje /\ m = canal[1] /\ 1 \in DOMAIN canal
      /\ m.pid \in PID /\ m.n \in Nat \ {0}
      /\ hilo[m.pid] # "fin" => m.n = vistos[m.pid] + 1
  BY <1>2, <1>4, HeadIsNext
<1>6. Numerados'
  <2> SUFFICES ASSUME NEW i \in 1 .. Len(canal')
               PROVE  /\ canal[i + 1].tipo = "NEW_PID" <=> canal[i + 1].n = 1
                      /\ hilo'[canal[i + 1].pid] # "nada" => canal[i + 1].n > 1
                      /\ canal[i + 1].n <= enviados[canal[i + 1].pid]
    BY <1>2 DEF Numerados
  <2>1. /\ canal[i + 1].tipo = "NEW_PID" <=> canal[i + 1].n = 1
        /\ hilo[canal[i + 1].pid] # "nada" => canal[i + 1].n > 1
        /\ canal[i + 1].n <= enviados[canal[i + 1].pid]
    BY <1>3 DEF IInv, Mensajes, Numerados
  <2>2. canal[i + 1].pid = m.pid => m.n < canal[i + 1].n
    BY <1>3, <1>5 DEF IInv, Mensajes, Crecientes
  <2>3. canal[i + 1].pid = m.pid => canal[i + 1].n > 1
    BY <2>2, <1>3, <1>4, <1>5
  <2> QED
    BY <2>1, <2>3, <1>3, <1>4
<1>7. Crecientes'
  <2> SUFFICES ASSUME NEW i \in 1 .. Len(canal'), NEW j \in 1 .. Len(canal'),
                      i < j, canal[i + 1].pid = canal[j + 1].pid
               PROVE  canal[i + 1].n < canal[j + 1].n
    BY <1>2 DEF Crecientes
  <2>1. i + 1 \in DOMAIN canal /\ j + 1 \in DOMAIN canal /\ i + 1 < j + 1
    BY <1>2, <1>3
  <2> QED
    BY <2>1 DEF IInv, Mensajes, Crecientes
<1>8. Completos'
  <2>1. aviso = Liberado
    BY DEF IInv, AvisoTomado
  <2>2. \A q \in PID : Proximo(q) = vistos[q] + 1
    BY <2>1, ConsolaAssumption DEF Proximo, Liberado
  <2>3. \A q \in PID : Proximo(q)' = IF q = m.pid THEN m.n + 1 ELSE vistos[q] + 1
    BY DEF Proximo
  <2>10. DOMAIN canal' = 1 .. Len(canal')
         /\ \A i \in 1 .. Len(canal') : canal'[i] = canal[i + 1]
         /\ enviados' = enviados
    BY <1>2
  <2> SUFFICES ASSUME NEW q \in PID, hilo'[q] # "fin"
               PROVE  /\ Proximo(q)' <= enviados'[q] + 1
                      /\ \A i \in DOMAIN canal' : canal'[i].pid = q => Proximo(q)' <= canal'[i].n
                      /\ \A n \in Nat : Proximo(q)' <= n /\ n <= enviados'[q] =>
                            \E i \in DOMAIN canal' : canal'[i].pid = q /\ canal'[i].n = n
    BY DEF Completos
  <2> DEFINE k == Proximo(q)'
  <2>4. hilo[q] # "fin"
    BY <1>5
  <2>5. /\ vistos[q] \in Nat /\ enviados[q] \in Nat
        /\ vistos[q] + 1 <= enviados[q] + 1
        /\ \A i \in DOMAIN canal : canal[i].pid = q => vistos[q] + 1 <= canal[i].n
        /\ \A n \in Nat : vistos[q] + 1 <= n /\ n <= enviados[q] =>
              \E i \in DOMAIN canal : canal[i].pid = q /\ canal[i].n = n
    BY <2>2, <2>4 DEF IInv, Mensajes, Completos, TypeOK
  <2>6. k \in Nat /\ vistos[q] + 1 <= k
    BY <2>3, <2>4, <2>5, <1>5
  <2>7. k <= enviados[q] + 1
    <3>1. q = m.pid => m.n <= enviados[q]
      BY HeadIsNext
    <3> QED
      BY <3>1, <2>3, <2>5, <1>5
  <2>8. ASSUME NEW i \in 1 .. Len(canal'), canal[i + 1].pid = q
        PROVE  k <= canal[i + 1].n
    <3>1. CASE q = m.pid
      <4>1. m.n < canal[i + 1].n
        BY <2>8, <3>1, <1>3, <1>5 DEF IInv, Mensajes, Crecientes
      <4> QED
        BY <4>1, <3>1, <2>3, <1>3, <1>4, <1>5
    <3>2. CASE q # m.pid
      BY <3>2, <2>8, <2>3, <2>5, <1>3
    <3> QED
      BY <3>1, <3>2
  <2>9. ASSUME NEW n \in Nat, k <= n, n <= enviados[q]
        PROVE  \E i \in 1 .. Len(canal') : canal[i + 1].pid = q /\ canal[i + 1].n = n
    <3>1. vistos[q] + 1 <= n
      BY <2>9, <2>6, <2>5
    <3>2. PICK j \in DOMAIN canal : canal[j].pid = q /\ canal[j].n = n
      BY <3>1, <2>9, <2>5
    <3>3. j # 1
      BY <3>2, <2>9, <2>3, <1>5
    <3>4. j - 1 \in 1 .. Len(canal') /\ (j - 1) + 1 = j
      BY <3>3, <1>2
    <3> QED
      BY <3>2, <3>4
  <2> HIDE DEF k
  <2>12. /\ k <= enviados[q] + 1
         /\ \A i \in 1 .. Len(canal') : canal[i + 1].pid = q => k <= canal[i + 1].n
         /\ \A n \in Nat : k <= n /\ n <= enviados[q] =>
               \E i \in 1 .. Len(canal') : canal[i + 1].pid = q /\ canal[i + 1].n = n
    BY <2>7, <2>8, <2>9
  <2>13. /\ k <= enviados'[q] + 1
         /\ \A i \in DOMAIN canal' : canal'[i].pid = q => k <= canal'[i].n
    BY <2>12, <2>10
  <2>14. ASSUME NEW n \in Nat, k <= n, n <= enviados'[q]
         PROVE  \E i \in DOMAIN canal' : canal'[i].pid = q /\ canal'[i].n = n
    <3>1. PICK i \in 1 .. Len(canal') : canal[i + 1].pid = q /\ canal[i + 1].n = n
      BY <2>12, <2>10, <2>14
    <3> QED
      BY <3>1, <2>10
  <2> QED
    BY <2>13, <2>14 DEF k
<1> QED
  BY <1>2, <1>6, <1>7, <1>8 DEF Mensajes

(* A step that leaves the channel alone and after which every thread still *)
(* there expects the same message.                                         *)
LEMMA QuietStep ==
    ASSUME IInv, UNCHANGED <<canal, enviados>>,
           \A q \in PID : hilo'[q] = "nada" <=> hilo[q] = "nada",
           \A q \in PID : hilo'[q] # "fin" => hilo[q] # "fin" /\ Proximo(q)' = Proximo(q)
    PROVE  Mensajes'
<1>1. Crecientes'
  BY DEF IInv, Mensajes, Crecientes
<1>2. Numerados'
  <2>1. \A i \in DOMAIN canal : canal[i].pid \in PID
    <3>1. canal \in Seq(Mensaje)
      BY DEF IInv, TypeOK
    <3>2. \A i \in DOMAIN canal : canal[i] \in Mensaje
      BY <3>1
    <3> QED
      BY <3>2 DEF Mensaje
  <2> QED
    BY <2>1 DEF IInv, Mensajes, Numerados
<1>3. Completos'
  <2> SUFFICES ASSUME NEW q \in PID, hilo'[q] # "fin"
               PROVE  /\ Proximo(q)' <= enviados'[q] + 1
                      /\ \A i \in DOMAIN canal' : canal'[i].pid = q => Proximo(q)' <= canal'[i].n
                      /\ \A n \in Nat : Proximo(q)' <= n /\ n <= enviados'[q] =>
                            \E i \in DOMAIN canal' : canal'[i].pid = q /\ canal'[i].n = n
    BY DEF Completos
  <2>1. hilo[q] # "fin" /\ Proximo(q)' = Proximo(q)
    OBVIOUS
  <2> QED
    BY <2>1 DEF IInv, Mensajes, Completos
<1> QED
  BY <1>1, <1>2, <1>3 DEF Mensajes

-----------------------------------------------------------------------------
(* The steps of esperarKernel. *)

LEMMA NewPIDStep ==
    ASSUME IInv, newPID
    PROVE  IInv'
<1> DEFINE m == Head(canal)
           p == m.pid
<1>1. /\ kernel = "recibe" /\ canal # <<>> /\ m.tipo = "NEW_PID"
      /\ semaforosPID' = semaforosPID \cup {p}
      /\ valor' = [valor EXCEPT ![p] = 1]
      /\ statsPID' = statsPID \cup {p}
      /\ hilo' = [hilo EXCEPT ![p] = "espera"]
      /\ aviso' = m /\ canal' = Tail(canal) /\ kernel' = "procesa"
      /\ UNCHANGED <<enviados, terminado, avisoProcesado, vistos>>
      /\ UNCHANGED <<comando, porPedir, pedidos, comandos>>
  BY DEF newPID, valorInicial, usuario
<1>2. /\ m \in Mensaje /\ p \in PID /\ m.n \in Nat
      /\ m.n = 1 /\ m.n <= enviados[p] /\ hilo[p] = "nada"
      /\ vistos[p] = 0 /\ valor[p] = 0 /\ enviados[p] \in Nat
  <2>1. m \in Mensaje /\ m.n = 1 /\ m.n <= enviados[p] /\ hilo[p] = "nada"
    BY <1>1, HeadIsNext
  <2>2. p \in PID /\ m.n \in Nat
    BY <2>1 DEF Mensaje
  <2> QED
    BY <2>1, <2>2 DEF IInv, HiloYEntrada, TypeOK
<1>3. /\ \A q \in PID \ {p} : hilo'[q] = hilo[q] /\ valor'[q] = valor[q]
      /\ hilo'[p] = "espera" /\ valor'[p] = 1
  BY <1>1, <1>2 DEF IInv, TypeOK
<1>4. canal' \in Seq(Mensaje) /\ Mensajes'
  <2>1. \A q \in PID \ {p} : hilo'[q] = hilo[q]
    BY <1>3
  <2>2. hilo[p] = "nada" /\ hilo'[p] = "espera"
    BY <1>2, <1>3
  <2> QED
    BY <1>1, <2>1, <2>2, TakeStep
<1> HIDE DEF m, p
<1>5. TypeOK'
  BY <1>1, <1>2, <1>4 DEF IInv, TypeOK
<1>6. \A q \in PID : valor[q] = 0 /\ hilo[q] \notin {"lee", "quita", "avisa", "ultimo"}
  BY <1>1 DEF IInv, EntregaFiel, Turno, TypeOK
<1>7. avisoProcesado = 0
  BY <1>1 DEF IInv, AvisoTomado, TypeOK
<1>8. EntregaFiel'
  <2>1. \A q \in PID : Turno(q)' <=> q = p
    BY <1>3, <1>6 DEF Turno
  <2>2. m.pid = p
    BY DEF p
  <2>3. ASSUME NEW q \in PID, hilo'[q] \in {"espera", "lee", "quita", "avisa"}
        PROVE  q \in semaforosPID'
    BY <2>3, <1>1, <1>3 DEF IInv, EntregaFiel
  <2> QED
    BY <1>1, <1>2, <1>3, <1>6, <1>7, <2>1, <2>2, <2>3 DEF EntregaFiel
<1>9. AvisoTomado'
  BY <1>1, <1>2, <1>3, <1>7 DEF AvisoTomado, p
<1>10. HiloYEntrada'
  BY <1>1, <1>2, <1>3 DEF IInv, HiloYEntrada
<1> QED
  BY <1>4, <1>5, <1>8, <1>9, <1>10 DEF IInv

LEMMA RecibeStep ==
    ASSUME IInv, recibe
    PROVE  IInv'
<1> DEFINE m == Head(canal)
<1>1. /\ kernel = "recibe" /\ canal # <<>> /\ m.tipo # "NEW_PID"
      /\ aviso' = m /\ canal' = Tail(canal) /\ kernel' = "busca"
      /\ UNCHANGED <<enviados, terminado, avisoProcesado>>
      /\ UNCHANGED <<semaforosPID, valor, statsPID, hilo, vistos>>
      /\ UNCHANGED <<comando, porPedir, pedidos, comandos>>
  BY DEF recibe, hilos, usuario
<1>2. /\ m \in Mensaje /\ m.n # 1
      /\ hilo[m.pid] # "fin" => m.n = vistos[m.pid] + 1
  BY <1>1, HeadIsNext
<1>3. m.pid \in PID
  BY <1>2 DEF Mensaje
<1>4. canal' \in Seq(Mensaje) /\ Mensajes'
  BY <1>1, TakeStep
<1> HIDE DEF m
<1>5. hilo[m.pid] # "nada"
  BY <1>2, <1>3 DEF IInv, HiloYEntrada
<1>6. TypeOK'
  BY <1>1, <1>2, <1>4 DEF IInv, TypeOK
<1>7. EntregaFiel'
  <2>1. \A q \in PID : ~Turno(q)
    BY <1>1 DEF IInv, EntregaFiel
  <2>2. \A q \in PID : /\ Turno(q)' <=> Turno(q)
                       /\ valor[q] > 0 => Turno(q)
                       /\ hilo[q] = "lee" => Turno(q)
    BY <1>1 DEF Turno
  <2> QED
    BY <1>1, <2>1, <2>2 DEF IInv, EntregaFiel
<1>8. AvisoTomado'
  BY <1>1, <1>2, <1>5 DEF IInv, AvisoTomado
<1>9. HiloYEntrada'
  BY <1>1 DEF IInv, HiloYEntrada
<1> QED
  BY <1>4, <1>6, <1>7, <1>8, <1>9 DEF IInv

LEMMA BuscaStep ==
    ASSUME IInv, busca
    PROVE  IInv'
<1> DEFINE p == aviso.pid
<1>1. /\ kernel = "busca"
      /\ UNCHANGED <<canal, enviados, terminado, avisoProcesado, semaforosPID, statsPID>>
      /\ UNCHANGED <<hilo, vistos, comando, porPedir, pedidos, comandos>>
  BY DEF busca, delKernel, usuario
<1>2. aviso \in Mensaje /\ p \in PID /\ hilo[p] # "nada" /\ avisoProcesado = 0
  BY <1>1 DEF IInv, AvisoTomado, Mensaje, TypeOK
<1>3. \A q \in PID : valor[q] = 0 /\ hilo[q] \notin {"lee", "quita", "avisa", "ultimo"}
  BY <1>1 DEF IInv, EntregaFiel, Turno, TypeOK
<1>4. CASE p \in semaforosPID
  <2>1. valor' = [valor EXCEPT ![p] = valor[p] + 1] /\ kernel' = "procesa" /\ aviso' = aviso
    BY <1>4 DEF busca
  <2>2. hilo[p] = "espera" /\ aviso.n = vistos[p] + 1
    BY <1>1, <1>2, <1>3, <1>4 DEF IInv, HiloYEntrada, AvisoTomado
  <2>3. valor'[p] = 1 /\ \A q \in PID \ {p} : valor'[q] = 0
    BY <1>2, <1>3, <2>1 DEF IInv, TypeOK
  <2>4. valor' \in [PID -> 0 .. 1]
    <3>1. valor' \in [PID -> Int] /\ \A q \in PID : valor'[q] \in 0 .. 1
      BY <1>2, <2>1, <2>3 DEF IInv, TypeOK
    <3> QED
      BY <3>1
  <2>5. TypeOK'
    BY <1>1, <2>1, <2>4 DEF IInv, TypeOK
  <2>6. EntregaFiel'
    <3>1. \A q \in PID : Turno(q)' <=> q = p
      BY <1>1, <1>2, <1>3, <2>3 DEF Turno
    <3>2. \A q \in PID : hilo[q] \in {"espera", "lee", "quita", "avisa"} => q \in semaforosPID
      BY DEF IInv, EntregaFiel
    <3> QED
      BY <1>1, <1>2, <1>3, <2>1, <2>2, <2>3, <3>1, <3>2 DEF EntregaFiel
  <2>7. Mensajes'
    <3>1. \A q \in PID : Proximo(q)' = Proximo(q)
      BY <1>1, <2>1 DEF Proximo
    <3> QED
      BY <1>1, <3>1, QuietStep
  <2>8. AvisoTomado'
    BY <1>1, <1>2, <2>1, <2>3 DEF AvisoTomado
  <2>9. HiloYEntrada'
    BY <1>1, <1>2, <2>3, <1>3 DEF IInv, HiloYEntrada
  <2> QED
    BY <2>5, <2>6, <2>7, <2>8, <2>9 DEF IInv
<1>5. CASE p \notin semaforosPID
  <2>1. aviso' = Liberado /\ kernel' = "recibe" /\ valor' = valor
    BY <1>5 DEF busca
  <2>2. hilo[p] = "fin"
    BY <1>2, <1>3, <1>5 DEF IInv, EntregaFiel, TypeOK
  <2>3. TypeOK'
    BY <1>1, <2>1 DEF IInv, TypeOK
  <2>4. EntregaFiel'
    <3>1. \A q \in PID : ~Turno(q)' /\ valor'[q] = 0
      BY <1>1, <1>3, <2>1 DEF Turno
    <3> QED
      BY <1>1, <1>3, <2>1, <3>1 DEF IInv, EntregaFiel
  <2>5. Mensajes'
    <3>1. \A q \in PID : hilo'[q] # "fin" => hilo[q] # "fin" /\ Proximo(q)' = Proximo(q)
      BY <1>1, <2>1, <2>2, ConsolaAssumption DEF Proximo, Liberado
    <3> QED
      BY <1>1, <3>1, QuietStep
  <2>6. AvisoTomado'
    BY <1>1, <1>2, <2>1 DEF AvisoTomado
  <2>7. HiloYEntrada'
    BY <1>1, <2>1 DEF IInv, HiloYEntrada
  <2> QED
    BY <2>3, <2>4, <2>5, <2>6, <2>7 DEF IInv
<1> QED
  BY <1>4, <1>5

LEMMA ProcesaStep ==
    ASSUME IInv, procesa
    PROVE  IInv'
<1>1. /\ kernel = "procesa" /\ avisoProcesado > 0 /\ avisoProcesado' = avisoProcesado - 1
      /\ aviso' = Liberado /\ kernel' = "recibe"
      /\ UNCHANGED <<canal, enviados, terminado, semaforosPID, valor, statsPID>>
      /\ UNCHANGED <<hilo, vistos, comando, porPedir, pedidos, comandos>>
  BY DEF procesa, delKernel, hilos, usuario
<1>2. avisoProcesado' = 0
  BY <1>1 DEF IInv, TypeOK
<1>3. \A q \in PID : valor[q] = 0 /\ hilo[q] \notin {"lee", "quita", "avisa", "ultimo"}
  BY <1>1 DEF IInv, EntregaFiel, Turno, TypeOK
<1>4. aviso \in Mensaje /\ aviso.pid \in PID
      /\ (hilo[aviso.pid] # "fin" => vistos[aviso.pid] = aviso.n)
  BY <1>1, <1>3 DEF IInv, AvisoTomado, Mensaje
<1>5. TypeOK'
  BY <1>1, <1>2 DEF IInv, TypeOK
<1>6. EntregaFiel'
  <2>1. \A q \in PID : ~Turno(q)' /\ valor'[q] = 0
    BY <1>1, <1>3 DEF Turno
  <2> QED
    BY <1>1, <1>3, <2>1 DEF IInv, EntregaFiel
<1>7. Mensajes'
  <2>1. \A q \in PID : hilo'[q] # "fin" => hilo[q] # "fin" /\ Proximo(q)' = Proximo(q)
    BY <1>1, <1>4, ConsolaAssumption DEF Proximo, Liberado
  <2> QED
    BY <1>1, <2>1, QuietStep
<1>8. AvisoTomado'
  BY <1>1, <1>2 DEF AvisoTomado
<1>9. HiloYEntrada'
  BY <1>1 DEF IInv, HiloYEntrada
<1> QED
  BY <1>5, <1>6, <1>7, <1>8, <1>9 DEF IInv

LEMMA DesconexionStep ==
    ASSUME IInv, desconexionKernel
    PROVE  IInv'
<1>1. /\ kernel = "recibe" /\ kernel' = "exit"
      /\ UNCHANGED <<canal, enviados, terminado, aviso, avisoProcesado, semaforosPID, valor>>
      /\ UNCHANGED <<statsPID, hilo, vistos, comando, porPedir, pedidos, comandos>>
  BY DEF desconexionKernel, delKernel, hilos, usuario
<1>2. TypeOK'
  BY <1>1 DEF IInv, TypeOK
<1>3. EntregaFiel'
  <2>1. \A q \in PID : ~Turno(q)
    BY <1>1 DEF IInv, EntregaFiel
  <2>2. \A q \in PID : /\ Turno(q)' <=> Turno(q)
                       /\ valor[q] > 0 => Turno(q)
                       /\ hilo[q] = "lee" => Turno(q)
    BY <1>1 DEF Turno
  <2> QED
    BY <1>1, <2>1, <2>2 DEF IInv, EntregaFiel
<1>4. Mensajes'
  <2>1. \A q \in PID : Proximo(q)' = Proximo(q)
    BY <1>1 DEF Proximo
  <2> QED
    BY <1>1, <2>1, QuietStep
<1>5. AvisoTomado'
  BY <1>1 DEF IInv, AvisoTomado
<1>6. HiloYEntrada'
  BY <1>1 DEF IInv, HiloYEntrada
<1> QED
  BY <1>2, <1>3, <1>4, <1>5, <1>6 DEF IInv

-----------------------------------------------------------------------------
(* The steps of the thread of p: it has the turn, or takes it.             *)

LEMMA EsperaStep ==
    ASSUME IInv, NEW p \in PID, espera(p)
    PROVE  IInv'
<1>1. /\ hilo[p] = "espera" /\ valor[p] > 0
      /\ valor' = [valor EXCEPT ![p] = valor[p] - 1]
      /\ hilo' = [hilo EXCEPT ![p] = "lee"]
      /\ UNCHANGED <<canal, enviados, terminado, aviso, kernel, avisoProcesado>>
      /\ UNCHANGED <<semaforosPID, statsPID, vistos, comando, porPedir, pedidos, comandos>>
  BY DEF espera, delKernel, entrega, usuario
<1>2. valor[p] = 1 /\ hilo[p] # "nada" /\ hilo[p] # "fin"
  BY <1>1 DEF IInv, TypeOK
<1>3. /\ hilo'[p] = "lee" /\ valor'[p] = 0
      /\ \A q \in PID \ {p} : hilo'[q] = hilo[q] /\ valor'[q] = valor[q]
  BY <1>1, <1>2 DEF IInv, TypeOK
<1>4. valor' \in [PID -> 0 .. 1]
  <2>1. valor' \in [PID -> Int] /\ \A q \in PID : valor'[q] \in 0 .. 1
    BY <1>1, <1>2, <1>3 DEF IInv, TypeOK
  <2> QED
    BY <2>1
<1>5. TypeOK'
  BY <1>1, <1>4 DEF IInv, TypeOK
<1>6. Turno(p) /\ \A q \in PID : Turno(q)' <=> Turno(q)
  BY <1>1, <1>3 DEF Turno
<1>7. EntregaFiel'
  <2>1. /\ kernel = "procesa" /\ avisoProcesado = 0 /\ aviso.pid = p
        /\ \A q \in PID \ {p} : ~Turno(q)
        /\ aviso.n = vistos[p] + 1 /\ p \in semaforosPID
    BY <1>1, <1>6 DEF IInv, EntregaFiel
  <2>2. \A q \in PID \ {p} : ~(valor[q] > 0) /\ hilo[q] # "lee"
    BY <2>1 DEF Turno
  <2> QED
    BY <1>1, <1>3, <1>6, <2>1, <2>2 DEF IInv, EntregaFiel
<1>8. Mensajes'
  <2>1. \A q \in PID : Proximo(q)' = Proximo(q)
    BY <1>1 DEF Proximo
  <2> QED
    BY <1>1, <1>2, <1>3, <2>1, QuietStep
<1>9. AvisoTomado'
  BY <1>1, <1>3, <1>6 DEF IInv, AvisoTomado, EntregaFiel
<1>10. HiloYEntrada'
  BY <1>1, <1>3 DEF IInv, HiloYEntrada
<1> QED
  BY <1>5, <1>7, <1>8, <1>9, <1>10 DEF IInv

LEMMA LeeStep ==
    ASSUME IInv, NEW p \in PID, lee(p)
    PROVE  IInv'
<1>1. /\ hilo[p] = "lee"
      /\ vistos' = [vistos EXCEPT ![p] = aviso.n]
      /\ hilo' = [hilo EXCEPT ![p] = IF aviso.tipo = "END_PRGM" THEN "quita" ELSE "avisa"]
      /\ UNCHANGED <<canal, enviados, terminado, aviso, kernel, avisoProcesado>>
      /\ UNCHANGED <<semaforosPID, valor, statsPID, comando, porPedir, pedidos, comandos>>
  BY DEF lee, delKernel, entrega, usuario
<1>2. /\ hilo'[p] \in {"quita", "avisa"} /\ vistos'[p] = aviso.n
      /\ \A q \in PID \ {p} : hilo'[q] = hilo[q] /\ vistos'[q] = vistos[q]
  BY <1>1 DEF IInv, TypeOK
<1>3. Turno(p) /\ \A q \in PID : Turno(q)' <=> Turno(q)
  BY <1>1, <1>2 DEF Turno
<1>4. /\ kernel = "procesa" /\ avisoProcesado = 0 /\ aviso.pid = p
      /\ \A q \in PID \ {p} : ~Turno(q)
      /\ p \in semaforosPID
  BY <1>1, <1>3 DEF IInv, EntregaFiel
<1>5. valor[p] = 0
  <2>1. valor[p] \in 0 .. 1
    BY DEF IInv, TypeOK
  <2>2. ~(valor[p] > 0)
    BY <1>1 DEF IInv, EntregaFiel
  <2> QED
    BY <2>1, <2>2
<1>6. TypeOK'
  <2>1. aviso.n \in Nat
    BY DEF IInv, TypeOK, Mensaje, Liberado
  <2>2. /\ vistos' \in [PID -> Nat]
        /\ hilo' \in [PID -> {"nada", "espera", "lee", "quita", "avisa", "ultimo", "fin"}]
    BY <1>1, <2>1 DEF IInv, TypeOK
  <2> QED
    BY <1>1, <2>2 DEF IInv, TypeOK
<1>7. EntregaFiel'
  <2>1. \A q \in PID \ {p} : ~(valor[q] > 0) /\ hilo[q] # "lee"
    BY <1>4 DEF Turno
  <2> QED
    BY <1>1, <1>2, <1>3, <1>4, <1>5, <2>1 DEF IInv, EntregaFiel
<1>8. Mensajes'
  <2>1. \A q \in PID : Proximo(q)' = Proximo(q)
    BY <1>1, <1>2, <1>4 DEF Proximo
  <2> QED
    BY <1>1, <1>2, <2>1, QuietStep
<1>9. AvisoTomado'
  BY <1>1, <1>2, <1>4 DEF IInv, AvisoTomado
<1>10. HiloYEntrada'
  BY <1>1, <1>2 DEF IInv, HiloYEntrada
<1> QED
  BY <1>6, <1>7, <1>8, <1>9, <1>10 DEF IInv

LEMMA QuitaStep ==
    ASSUME IInv, NEW p \in PID, quita(p)
    PROVE  IInv'
<1>1. /\ hilo[p] = "quita"
      /\ semaforosPID' = semaforosPID \ {p} /\ statsPID' = statsPID \ {p}
      /\ hilo' = [hilo EXCEPT ![p] = "ultimo"]
      /\ UNCHANGED <<canal, enviados, terminado, aviso, kernel, avisoProcesado>>
      /\ UNCHANGED <<valor, vistos, comando, porPedir, pedidos, comandos>>
  BY DEF quita, delKernel, entrega, usuario
<1>2. hilo'[p] = "ultimo" /\ \A q \in PID \ {p} : hilo'[q] = hilo[q]
  BY <1>1 DEF IInv, TypeOK
<1>3. Turno(p) /\ \A q \in PID : Turno(q)' <=> Turno(q)
  BY <1>1, <1>2 DEF Turno
<1>4. /\ kernel = "procesa" /\ avisoProcesado = 0 /\ aviso.pid = p
      /\ \A q \in PID \ {p} : ~Turno(q)
  BY <1>1, <1>3 DEF IInv, EntregaFiel
<1>5. valor[p] = 0
  <2>1. valor[p] \in 0 .. 1
    BY DEF IInv, TypeOK
  <2>2. ~(valor[p] > 0)
    BY <1>1 DEF IInv, EntregaFiel
  <2> QED
    BY <2>1, <2>2
<1>6. TypeOK'
  BY <1>1 DEF IInv, TypeOK
<1>7. EntregaFiel'
  <2>1. \A q \in PID \ {p} : ~(valor[q] > 0) /\ hilo[q] # "lee"
    BY <1>4 DEF Turno
  <2> QED
    BY <1>1, <1>2, <1>3, <1>4, <1>5, <2>1 DEF IInv, EntregaFiel
<1>8. Mensajes'
  <2>1. \A q \in PID : Proximo(q)' = Proximo(q)
    BY <1>1 DEF Proximo
  <2> QED
    BY <1>1, <1>2, <2>1, QuietStep
<1>9. AvisoTomado'
  BY <1>1, <1>2, <1>4 DEF IInv, AvisoTomado
<1>10. HiloYEntrada'
  BY <1>1, <1>2 DEF IInv, HiloYEntrada
<1> QED
  BY <1>6, <1>7, <1>8, <1>9, <1>10 DEF IInv

LEMMA AvisaStep ==
    ASSUME IInv, NEW p \in PID, avisa(p)
    PROVE  IInv'
<1>1. /\ hilo[p] \in {"avisa", "ultimo"}
      /\ avisoProcesado' = avisoProcesado + 1
      /\ hilo' = [hilo EXCEPT ![p] = IF hilo[p] = "ultimo" THEN "fin" ELSE "espera"]
      /\ UNCHANGED <<canal, enviados, terminado, aviso, kernel, semaforosPID, valor>>
      /\ UNCHANGED <<statsPID, vistos, comando, porPedir, pedidos, comandos>>
  BY DEF avisa, delKernel, usuario
<1>2. /\ hilo'[p] = IF hilo[p] = "ultimo" THEN "fin" ELSE "espera"
      /\ \A q \in PID \ {p} : hilo'[q] = hilo[q]
  BY <1>1 DEF IInv, TypeOK
<1>3. Turno(p)
  BY <1>1 DEF Turno
<1>4. /\ kernel = "procesa" /\ avisoProcesado = 0 /\ aviso.pid = p
      /\ \A q \in PID \ {p} : ~Turno(q)
  BY <1>3 DEF IInv, EntregaFiel
<1>5. valor[p] = 0
  <2>1. valor[p] \in 0 .. 1
    BY DEF IInv, TypeOK
  <2>2. ~(valor[p] > 0)
    BY <1>1 DEF IInv, EntregaFiel
  <2> QED
    BY <2>1, <2>2
<1>6. \A q \in PID : ~Turno(q)'
  BY <1>1, <1>2, <1>4, <1>5 DEF Turno
<1>7. TypeOK'
  BY <1>1, <1>4 DEF IInv, TypeOK
<1>8. EntregaFiel'
  <2>1. \A q \in PID : ~(valor'[q] > 0) /\ hilo'[q] \notin {"lee", "quita", "avisa", "ultimo"}
    BY <1>6 DEF Turno
  <2>2. \A q \in PID : hilo'[q] = "espera" => q \in semaforosPID
    BY <1>1, <1>2 DEF IInv, EntregaFiel
  <2> QED
    BY <1>1, <1>6, <2>1, <2>2 DEF EntregaFiel
<1>9. Mensajes'
  <2>1. \A q \in PID : Proximo(q)' = Proximo(q)
    BY <1>1 DEF Proximo
  <2> QED
    BY <1>1, <1>2, <2>1, QuietStep
<1>10. AvisoTomado'
  BY <1>1, <1>2, <1>4, <1>5 DEF IInv, AvisoTomado
<1>11. HiloYEntrada'
  BY <1>1, <1>2 DEF IInv, HiloYEntrada
<1> QED
  BY <1>7, <1>8, <1>9, <1>10, <1>11 DEF IInv

-----------------------------------------------------------------------------
(* The user's commands leave the delivery alone.                           *)
LEMMA UsuarioStep ==
    ASSUME IInv, UNCHANGED <<delKernel, entrega, hilos>>,
           comando' \in {"lee", "end", "shutdown"}, porPedir' \subseteq PID,
           pedidos' \subseteq PID, comandos' \in 0 .. MaxEnd
    PROVE  IInv'
<1>1. /\ UNCHANGED <<canal, enviados, terminado, aviso, kernel, avisoProcesado>>
      /\ UNCHANGED <<semaforosPID, valor, statsPID, hilo, vistos>>
  BY DEF delKernel, entrega, hilos
<1>2. TypeOK'
  BY <1>1 DEF IInv, TypeOK
<1>3. EntregaFiel'
  BY <1>1 DEF IInv, EntregaFiel, Turno
<1>4. Mensajes'
  <2>1. \A q \in PID : Proximo(q)' = Proximo(q)
    BY <1>1 DEF Proximo
  <2> QED
    BY <1>1, <2>1, QuietStep
<1>5. AvisoTomado'
  BY <1>1 DEF IInv, AvisoTomado
<1>6. HiloYEntrada'
  BY <1>1 DEF IInv, HiloYEntrada
<1> QED
  BY <1>2, <1>3, <1>4, <1>5, <1>6 DEF IInv

LEMMA InitIInv == Init => IInv
<1> SUFFICES ASSUME Init PROVE IInv
  OBVIOUS
<1> USE ConsolaAssumption DEF Init
<1>1. TypeOK
  BY DEF TypeOK, Mensaje, Liberado
<1>2. EntregaFiel
  BY DEF EntregaFiel, Turno
<1>3. Mensajes
  <2>1. DOMAIN canal = {}
    OBVIOUS
  <2>2. \A p \in PID : Proximo(p) = 1
    BY DEF Proximo, Liberado
  <2>3. Completos
    BY <2>1, <2>2 DEF Completos
  <2> QED
    BY <2>1, <2>3 DEF Mensajes, Numerados, Crecientes
<1>4. AvisoTomado /\ HiloYEntrada
  BY DEF AvisoTomado, HiloYEntrada
<1> QED
  BY <1>1, <1>2, <1>3, <1>4 DEF IInv

LEMMA NextIInv == IInv /\ [Next]_vars => IInv'
<1> SUFFICES ASSUME IInv, [Next]_vars PROVE IInv'
  OBVIOUS
<1>1. CASE hiloKernel
  BY <1>1, NewPIDStep, RecibeStep, BuscaStep, ProcesaStep DEF hiloKernel
<1>2. CASE desconexionKernel
  BY <1>2, DesconexionStep
<1>3. ASSUME NEW p \in PID, hiloPID(p) PROVE IInv'
  BY <1>3, EsperaStep, LeeStep, QuitaStep, AvisaStep DEF hiloPID
<1>4. ASSUME NEW p \in PID, NuevoProceso(p) \/ MensajeDelPrograma(p) \/ FinDelPrograma(p)
      PROVE  IInv'
  <2>1. CASE NuevoProceso(p)
    BY <2>1, SendStep DEF NuevoProceso, IInv, TypeOK
  <2>2. CASE MensajeDelPrograma(p)
    <3>1. Manda(p, "LOG_MESSAGE") /\ enviados[p] > 0 /\ terminado' \subseteq PID
      BY <2>2 DEF MensajeDelPrograma, IInv, TypeOK
    <3>2. ~("LOG_MESSAGE" = "NEW_PID") /\ ~(enviados[p] = 0)
      BY <3>1
    <3> QED
      BY <3>1, <3>2, SendStep
  <2>3. CASE FinDelPrograma(p)
    <3>1. Manda(p, "END_PRGM") /\ enviados[p] > 0 /\ terminado' \subseteq PID
      BY <2>3 DEF FinDelPrograma, IInv, TypeOK
    <3>2. ~("END_PRGM" = "NEW_PID") /\ ~(enviados[p] = 0)
      BY <3>1
    <3> QED
      BY <3>1, <3>2, SendStep
  <2> QED
    BY <1>4, <2>1, <2>2, <2>3
<1>5. CASE cerrarConsola \/ comandoSigue \/ \E p \in PID : end(p)
  <2>1. porPedir \subseteq PID /\ pedidos \subseteq PID /\ semaforosPID \subseteq PID
        /\ comandos \in 0 .. MaxEnd /\ MaxEnd \in Nat
    BY ConsolaAssumption DEF IInv, TypeOK
  <2>2. CASE cerrarConsola
    BY <2>1, <2>2, UsuarioStep DEF cerrarConsola
  <2>3. CASE cerrarConsola_sale
    BY <2>1, <2>3, UsuarioStep DEF cerrarConsola_sale
  <2>4. ASSUME NEW p \in PID, end_envia(p) PROVE IInv'
    BY <2>1, <2>4, UsuarioStep DEF end_envia, PideEnd
  <2>5. ASSUME NEW p \in PID, cerrarConsola_envia(p) PROVE IInv'
    <3>1. comando \in {"lee", "end", "shutdown"}
      BY DEF IInv, TypeOK
    <3> QED
      BY <2>1, <2>5, <3>1, UsuarioStep DEF cerrarConsola_envia, PideEnd
  <2>6. ASSUME NEW p \in PID, end(p) PROVE IInv'
    BY <2>1, <2>6, UsuarioStep DEF end
  <2> QED
    BY <1>5, <2>2, <2>3, <2>4, <2>5, <2>6 DEF comandoSigue
<1>6. CASE UNCHANGED vars
  <2>1. UNCHANGED <<delKernel, entrega, hilos>> /\ UNCHANGED <<comando, porPedir, pedidos, comandos>>
    BY <1>6 DEF vars, usuario
  <2> QED
    BY <2>1, UsuarioStep DEF IInv, TypeOK
<1> QED
  BY <1>1, <1>2, <1>3, <1>4, <1>5, <1>6 DEF Next

(* Every variable of a console keeps its type: in particular no semaphore  *)
(* of a program and not avisoProcesado ever counts beyond one, so the two  *)
(* threads hand the turn back and forth (Consola.c:3-120).                 *)
THEOREM ConsolaTypes == Spec => []TypeOK
<1>1. IInv => TypeOK
  BY DEF IInv
<1> QED
  BY InitIInv, NextIInv, <1>1, PTL DEF Spec

(* Whoever looks at the shared pointer finds there the message that comes  *)
(* next for his own program, for any number of programs and messages: it   *)
(* has not been freed nor replaced, and nobody else has the turn           *)
(* (Consola.c:3-120).                                                      *)
THEOREM FaithfulDelivery == Spec => []EntregaFiel
<1>1. IInv => EntregaFiel
  BY DEF IInv
<1> QED
  BY InitIInv, NextIInv, <1>1, PTL DEF Spec
=============================================================================
