-------------------------------- MODULE Pila --------------------------------
(***************************************************************************)
(* A CPU that runs an AnSISOP program: the primitives of                   *)
(* PrimitivasAnsisop.c over the PCB and the stack, the loop of CPU.c that  *)
(* runs one line after another until the quantum is over, and the trips of *)
(* the PCB between Kernel and CPU through serializacion.c.                 *)
(*                                                                         *)
(* A line is the sequence of primitives the parser (a library) calls for   *)
(* it.  Nothing else touches the PCB or the stack of a program while one   *)
(* of its lines runs, so a line is one step; a primitive is an operator    *)
(* from a machine to the machine it leaves, with its answer in ret.        *)
(***************************************************************************)
EXTENDS Integers, Sequences, SequencesExt, TLC

CONSTANTS
    Programas,   \* the programs that may run
    Letras, Digitos, Numero,   \* names of variables and of arguments
    PagsCodigo, StackSize, PaginaTam,
    Limite,      \* the numbers a char holds are -Limite .. Limite - 1
    Basura       \* what may be read beyond the end of an array of positions

(* What the parser makes of a line, in a program of n lines.               *)
Escritas(n) ==
    {s \in [op : STRING, id : Letras \cup Digitos, de : Letras \cup Digitos, etiqueta : -1 .. n] :
        s.op = "variables" => s.id \in Letras}

ASSUME PilaAssumption ==
    /\ PagsCodigo \in Nat /\ StackSize \in Nat \ {0}
    /\ PaginaTam \in Nat \ {0} /\ PaginaTam % 4 = 0
    /\ Limite \in Nat \ {0} /\ Basura \subseteq Int
    /\ Letras \cap Digitos = {} /\ Numero \in [Digitos -> Nat] /\ "0" \in Digitos
    /\ \A p \in Programas : /\ p.lineas \in Seq(Escritas(Len(p.lineas)))
                            /\ p.inicio \in 0 .. Len(p.lineas)

VARIABLES
    programa,  \* its lines, the labels resolved to line numbers or -1, and the first of main
    cpu,       \* the PCB, the memory of its stack, error_en_ejecucion, proceso_bloqueado
    donde      \* who has the PCB

vars == <<programa, cpu, donde>>

(* cpu.desviado is history: the program did something nothing is promised  *)
(* about.                                                                  *)

cant_pags_totales == PagsCodigo + StackSize

(* pos_fisica_a_logica; pos_logica_a_fisica is its inverse. *)
Logica(pos) == pos.pag * PaginaTam + pos.offset

Direcciones == {d \in PagsCodigo * PaginaTam .. cant_pags_totales * PaginaTam - 1 : d % 4 = 0}
SinDestino == -1

Cima(m) == m.indice_stack[Len(m.indice_stack)]
Falla(m, codigo) == [m EXCEPT !.error = TRUE, !.exit_code = codigo, !.ret = -1]

(* The memory of the CPU before indice_stack[0] is read, or the code is    *)
(* overwritten: the program is not followed any further.                   *)
Indefinido(m) == [m EXCEPT !.error = TRUE, !.exit_code = "indefinido", !.desviado = TRUE]

-----------------------------------------------------------------------------
(* AnSISOP_funciones. *)

avanza_sin_igual(pos) ==
    IF pos.offset + 4 > PaginaTam THEN [pag |-> pos.pag + 1, offset |-> 0]
    ELSE [pos EXCEPT !.offset = @ + 4]

avanza(pos) ==
    IF pos.offset + 4 >= PaginaTam THEN [pag |-> pos.pag + 1, offset |-> 0]
    ELSE [pos EXCEPT !.offset = @ + 4]

ConPosicion(entrada, id, pos) ==
    IF id \in Letras
      THEN [entrada EXCEPT !.variables = Append(@, [id |-> id, pos |-> pos])]
      ELSE [entrada EXCEPT !.argumentos = Append(@, pos)]
EnLaCima(entradas, id, pos) == [entradas EXCEPT ![Len(entradas)] = ConPosicion(@, id, pos)]

definirVariable(m, id) ==
    IF m.error THEN [m EXCEPT !.ret = -1]
    ELSE IF m.fin_stack.pag = cant_pags_totales THEN Falla(m, "FINALIZAR_STACK_OVERFLOW")
    ELSE IF m.indice_stack = <<>> THEN Indefinido(m)
    ELSE [m EXCEPT
            !.indice_stack = EnLaCima(@, id, m.fin_stack),
            !.fin_stack = avanza(@),
            !.ret = Logica(m.fin_stack)]

Definiciones(entrada, id) == {k \in DOMAIN entrada.variables : entrada.variables[k].id = id}

(* The last definition of a variable counts.  The number of an argument    *)
(* may be the number of arguments (l. 114).                                *)
obtenerPosicionVariable(m, id, basura) ==
    IF m.error THEN [m EXCEPT !.ret = -1]
    ELSE IF m.indice_stack = <<>> THEN Indefinido(m)
    ELSE IF id \in Letras
      THEN IF Definiciones(Cima(m), id) = {} THEN Falla(m, "FINALIZAR_EXCEPCION_MEMORIA")
           ELSE [m EXCEPT !.ret = Logica(Cima(m).variables[Max(Definiciones(Cima(m), id))].pos)]
    ELSE IF Numero[id] > Len(Cima(m).argumentos)
      THEN Falla(m, "FINALIZAR_EXCEPCION_MEMORIA")
    ELSE IF Numero[id] = Len(Cima(m).argumentos)
      THEN [m EXCEPT !.ret = basura, !.desviado = TRUE]
    ELSE [m EXCEPT !.ret = Logica(Cima(m).argumentos[Numero[id] + 1])]

(* Memoria answers, or the value is 1. *)
dereferenciar(m, dir) ==
    IF m.error THEN [m EXCEPT !.ret = -1]
    ELSE [m EXCEPT !.ret = IF dir \in Direcciones THEN m.memoria[dir] ELSE 1]

(* A write into the pages of the code changes the lines themselves.        *)
asignar(m, dir, valor) ==
    IF m.error THEN m
    ELSE IF dir \in Direcciones THEN [m EXCEPT !.memoria[dir] = valor]
    ELSE IF dir \in 0 .. PagsCodigo * PaginaTam - 1 THEN Indefinido(m)
    ELSE Falla(m, "FINALIZAR_EXCEPCION_MEMORIA")

irAlLabel(m, etiqueta) ==
    IF m.error THEN m
    ELSE IF etiqueta = -1 THEN Falla(m, "FINALIZAR_ERROR_SIN_DEFINICION")
    ELSE [m EXCEPT !.pc = etiqueta]

Apila(m, destino) ==
    [m EXCEPT !.indice_stack =
        Append(@, [argumentos |-> <<>>, variables |-> <<>>, pos_retorno |-> m.pc,
                   pos_var_retorno |-> destino])]

llamarSinRetorno(m, etiqueta) ==
    IF m.error THEN m ELSE irAlLabel(Apila(m, SinDestino), etiqueta)

llamarConRetorno(m, etiqueta, destino) ==
    IF m.error THEN m ELSE irAlLabel(Apila(m, destino), etiqueta)

Desapila(m) == [m EXCEPT !.indice_stack = Front(@)]

(* There is no look at the error here, only in asignar; pc stays. *)
retornar(m, valor) ==
    IF m.indice_stack = <<>> THEN Indefinido(m)
    ELSE IF Cima(m).pos_var_retorno = SinDestino THEN m
    ELSE Desapila(asignar(m, Cima(m).pos_var_retorno, valor))

(* The destination is written with its own value.  fin_stack stays where   *)
(* it is.                                                                  *)
finalizar_sin_pc(m) ==
    IF m.error THEN m
    ELSE IF m.indice_stack = <<>> THEN Indefinido(m)
    ELSE IF Len(m.indice_stack) = 1 THEN Desapila(m)
    ELSE LET n == m IN
         IF Cima(m).pos_var_retorno = SinDestino THEN Desapila(n)
         ELSE retornar(n, dereferenciar(n, Cima(m).pos_var_retorno).ret)

finalizar(m) ==
    IF m.error THEN m
    ELSE IF m.indice_stack = <<>> THEN Indefinido(m)
    ELSE IF Len(m.indice_stack) = 1 THEN Desapila(m)
    ELSE LET n == [m EXCEPT !.pc = Cima(m).pos_retorno] IN
         IF Cima(m).pos_var_retorno = SinDestino THEN Desapila(n)
         ELSE retornar(n, dereferenciar(n, Cima(m).pos_var_retorno).ret)

-----------------------------------------------------------------------------
(* The primitives that ask the Kernel: the codes a program may stop with.  *)

waitAnsisop == {"ok", "bloqueado", "FINALIZAR_EXCEPCION_MEMORIA"}
signalAnsisop == {"ok", "FINALIZAR_EXCEPCION_MEMORIA"}
obtenerValorCompartida == {"ok", "FINALIZAR_EXCEPCION_MEMORIA"}
asignarValorCompartida == {"ok", "FINALIZAR_EXCEPCION_MEMORIA"}
reservar == {"ok", "FINALIZAR_PAGE_OVERFLOW", "FINALIZAR_SIN_MEMORIA"}
liberar == {"ok", "FINALIZAR_EXCEPCION_MEMORIA"}
abrir == {"ok", "FINALIZAR_ARCHIVO_NO_EXISTE", "FINALIZAR_ARCHIVO_SIN_ESPACIO"}
borrar == {"ok", "FINALIZAR_ARCHIVO_NO_EXISTE", "FINALIZAR_ERROR_SIN_DEFINICION"}
cerrar == {"ok", "FINALIZAR_ARCHIVO_NO_EXISTE"}
moverCursor == {"ok", "FINALIZAR_ARCHIVO_NO_EXISTE"}
escribir == {"ok", "FINALIZAR_ESCRIBIR_ARCHIVO_SIN_PERMISOS", "FINALIZAR_ERROR_SIN_DEFINICION"}
leer == {"ok", "FINALIZAR_ARCHIVO_NO_EXISTE", "FINALIZAR_LEER_ARCHIVO_SIN_PERMISOS",
         "FINALIZAR_EXCEPCION_MEMORIA", "FINALIZAR_PAGE_OVERFLOW"}

Codigos ==
    [wait |-> waitAnsisop, signal |-> signalAnsisop, getShared |-> obtenerValorCompartida,
     setShared |-> asignarValorCompartida, alocar |-> reservar, liberar |-> liberar,
     abrir |-> abrir, borrar |-> borrar, cerrar |-> cerrar, buscar |-> moverCursor,
     escribir |-> escribir, leer |-> leer]

Contesta(m, codigo) ==
    IF codigo = "ok" THEN m
    ELSE IF codigo = "bloqueado" THEN [m EXCEPT !.bloqueado = TRUE]
    ELSE Falla(m, codigo)

-----------------------------------------------------------------------------
(* The loop of ejecutarPrograma: pc goes on before the line runs. *)

Sentencia == programa.lineas[cpu.pc + 1]
Pedida == [cpu EXCEPT !.pc = @ + 1]
PideLinea(op) ==
    /\ donde = "CPU" /\ cpu.pc < Len(programa.lineas) /\ ~cpu.error /\ ~cpu.bloqueado
    /\ Sentencia.op = op

Queda(m) ==
    /\ cpu' = [m EXCEPT !.ret = 0]
    /\ UNCHANGED <<programa, donde>>

variables ==
    /\ PideLinea("variables")
    /\ Queda(definirVariable(Pedida, Sentencia.id))

(* x = 2 *)
constante(b) ==
    /\ PideLinea("constante")
    /\ LET x == obtenerPosicionVariable(Pedida, Sentencia.id, b) IN
       Queda(asignar(x, x.ret, 2))

(* x = y *)
copia(b) ==
    /\ PideLinea("copia")
    /\ LET x == obtenerPosicionVariable(Pedida, Sentencia.id, b)
           y == obtenerPosicionVariable(x, Sentencia.de, b)
           v == dereferenciar(y, y.ret)
       IN Queda(asignar(v, x.ret, v.ret))

(* f y *)
llamada(b) ==
    /\ PideLinea("llamada")
    /\ LET y == obtenerPosicionVariable(Pedida, Sentencia.de, b)
           v == dereferenciar(y, y.ret)
           f == definirVariable(llamarSinRetorno(v, Sentencia.etiqueta), "0")
       IN Queda(asignar(f, f.ret, v.ret))

(* x <- f *)
llamadaConRetorno(b) ==
    /\ PideLinea("llamadaConRetorno")
    /\ LET x == obtenerPosicionVariable(Pedida, Sentencia.id, b) IN
       Queda(llamarConRetorno(x, Sentencia.etiqueta, x.ret))

(* goto, and jnz when it jumps *)
salto ==
    /\ PideLinea("salto")
    /\ Queda(irAlLabel(Pedida, Sentencia.etiqueta))

(* After the end of main the loop goes on with the lines behind it.        *)
end ==
    /\ PideLinea("end")
    /\ LET m == finalizar(Pedida) IN
       Queda([m EXCEPT !.desviado = @ \/ (Len(cpu.indice_stack) = 1 /\ m.pc < Len(programa.lineas))])

return(b) ==
    /\ PideLinea("return")
    /\ LET x == obtenerPosicionVariable(Pedida, Sentencia.id, b)
           v == dereferenciar(x, x.ret)
           m == retornar(v, v.ret)
       IN Queda([m EXCEPT !.desviado =
                    @ \/ (m.indice_stack # cpu.indice_stack /\ ~m.error)])

pedido ==
    \E op \in DOMAIN Codigos : \E codigo \in Codigos[op] :
        PideLinea(op) /\ Queda(Contesta(Pedida, codigo))

-----------------------------------------------------------------------------
(* The trips of the PCB.  deserializar_pcb reads most numbers as one char; *)
(* when a count does not fit, the rest of the buffer is read shifted and   *)
(* the PCB is not followed any further.                                    *)

Char(n) == ((n + Limite) % (2 * Limite)) - Limite

Legible(m) ==
    /\ Char(cant_pags_totales) = cant_pags_totales
    /\ Char(Len(programa.lineas)) = Len(programa.lineas)
    /\ \A i \in DOMAIN m.indice_stack :
          LET entrada == m.indice_stack[i] IN
          /\ Char(Len(entrada.argumentos)) = Len(entrada.argumentos)
          /\ Char(Len(entrada.variables)) = Len(entrada.variables)

Leidas(entradas) == [i \in DOMAIN entradas |-> [entradas[i] EXCEPT !.pos_retorno = Char(@)]]
deserializar_pcb(m) == [m EXCEPT !.pc = Char(@), !.indice_stack = Leidas(@)]

(* CORRER_PCB.  With SIGUSR1 pending the PCB goes back as it came.         *)
correrPCB ==
    /\ donde = "Kernel"
    /\ IF Legible(cpu) THEN cpu' = deserializar_pcb(cpu) /\ donde' = "CPU"
                       ELSE donde' = "ilegible" /\ UNCHANGED cpu
    /\ UNCHANGED programa

(* The end of ejecutarPrograma, and RET_PCB: the quantum may be over after *)
(* any line, and the program ended if no line is left.                     *)
codigoFinal(m) ==
    IF ~m.error /\ ~m.bloqueado /\ m.pc = Len(programa.lineas) THEN "FINALIZAR_OK" ELSE m.exit_code

retornarPCB ==
    /\ donde = "CPU"
    /\ LET m == [cpu EXCEPT !.exit_code = codigoFinal(cpu), !.error = FALSE, !.bloqueado = FALSE]
       IN IF Legible(m)
            THEN /\ cpu' = deserializar_pcb(m)
                 /\ donde' = IF m.exit_code = "corre" THEN "Kernel" ELSE "fin"
            ELSE donde' = "ilegible" /\ UNCHANGED cpu
    /\ UNCHANGED programa

-----------------------------------------------------------------------------
(* The PCB as armar_nuevo_pcb leaves it: the entry of main comes from      *)
(* calloc, so that its destination is the first byte of the code.          *)
Init ==
    /\ programa \in Programas
    /\ cpu = [pc |-> programa.inicio, fin_stack |-> [pag |-> PagsCodigo, offset |-> 0],
              indice_stack |-> <<[argumentos |-> <<>>, variables |-> <<>>,
                                  pos_retorno |-> 0, pos_var_retorno |-> 0]>>,
              exit_code |-> "corre", error |-> FALSE, bloqueado |-> FALSE, ret |-> 0,
              desviado |-> FALSE, memoria |-> [d \in Direcciones |-> 0]]
    /\ donde = "Kernel"

Next ==
    \/ variables \/ salto \/ end \/ pedido
    \/ \E b \in Basura : constante(b) \/ copia(b) \/ llamada(b) \/ llamadaConRetorno(b) \/ return(b)
    \/ correrPCB \/ retornarPCB

Spec == Init /\ [][Next]_vars

-----------------------------------------------------------------------------
(* Properties. *)

Antes(p, q) == p.pag < q.pag \/ (p.pag = q.pag /\ p.offset < q.offset)

PosVar(i, k) == cpu.indice_stack[i].variables[k].pos
PosArg(i, k) == cpu.indice_stack[i].argumentos[k]

(* Every variable and argument of every entry of the stack has four bytes  *)
(* of its own in the pages of the stack, below fin_stack, however often    *)
(* functions are called and left (definirVariable, l. 16-85).              *)
PosicionesPropias ==
    LET entradas == DOMAIN cpu.indice_stack
        vs(i) == DOMAIN cpu.indice_stack[i].variables
        as(i) == DOMAIN cpu.indice_stack[i].argumentos
        EnPila(pos) == PagsCodigo <= pos.pag /\ pos.pag < cant_pags_totales
                       /\ pos.offset + 4 <= PaginaTam
    IN \A i \in entradas :
         /\ \A k \in vs(i) : EnPila(PosVar(i, k)) /\ Antes(PosVar(i, k), cpu.fin_stack)
         /\ \A k \in as(i) : EnPila(PosArg(i, k)) /\ Antes(PosArg(i, k), cpu.fin_stack)
         /\ \A j \in entradas :
              /\ \A k \in vs(i), l \in vs(j) : PosVar(i, k) = PosVar(j, l) => i = j /\ k = l
              /\ \A k \in as(i), l \in as(j) : PosArg(i, k) = PosArg(j, l) => i = j /\ k = l
              /\ \A k \in vs(i), l \in as(j) : PosVar(i, k) # PosArg(j, l)

(* The frames behind the addresses: that of the entry i, the first main's. *)
Marco(entrada, memoria, i) ==
    [vars |-> [id \in {entrada.variables[k].id : k \in DOMAIN entrada.variables} |->
                 memoria[Logica(entrada.variables[Max(Definiciones(entrada, id))].pos)]],
     args |-> [k \in DOMAIN entrada.argumentos |-> memoria[Logica(entrada.argumentos[k])]],
     vuelve |-> entrada.pos_retorno,
     conRetorno |-> i > 1 /\ entrada.pos_var_retorno # SinDestino]
Marcos(entradas, memoria) == [i \in DOMAIN entradas |-> Marco(entradas[i], memoria, i)]

Corre == cpu.exit_code = "corre"
pcVisible == IF Corre THEN cpu.pc ELSE 0
marcosVisibles == IF Corre THEN Marcos(cpu.indice_stack, cpu.memoria) ELSE <<>>

Abstracta == INSTANCE Contextos WITH
    pc <- pcVisible, marcos <- marcosVisibles, estado <- cpu.exit_code

(* The primitives, the loop and the trips of the PCB between Kernel and    *)
(* CPU are the machine with frames and values: a quantum may end anywhere  *)
(* without changing what the program does, a call comes back behind itself *)
(* with the caller's variables as they were, and the code the program ends *)
(* with is that of its first error.  Nothing is said after the number of   *)
(* an argument equal to the number of arguments, return in a function      *)
(* called for its value or in main, and an end of main with lines behind   *)
(* it (PrimitivasAnsisop.c:16-419, CPU.c:42-120, serializacion.c:55-169).  *)
ImplementaContextos ==
    /\ Abstracta!Init({programa})
    /\ [][cpu'.desviado \/ Abstracta!Next(Codigos)]_(Abstracta!vars)
=============================================================================
