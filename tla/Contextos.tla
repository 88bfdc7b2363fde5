------------------------------ MODULE Contextos ------------------------------
(***************************************************************************)
(* What the primitives of the CPU promise to an AnSISOP program: a machine *)
(* whose variables have values and no addresses.  Every function has its   *)
(* own frame, a call goes back to the line after it, and the program runs  *)
(* until the end of main, or until the first line with an error.  Nothing  *)
(* is promised to a function called for its value that says return: the    *)
(* code does not come back from it (PrimitivasAnsisop.c:401-419).          *)
(***************************************************************************)
EXTENDS Integers, Sequences

CONSTANTS Letras, Digitos, Numero

VARIABLES programa, pc, marcos, estado

vars == <<programa, pc, marcos, estado>>

Tope == marcos[Len(marcos)]
Primitiva(op) == estado = "corre" /\ pc < Len(programa.lineas) /\ programa.lineas[pc + 1].op = op
Sentencia == programa.lineas[pc + 1]

Definida(id) ==
    marcos # <<>> /\ IF id \in Letras THEN id \in DOMAIN Tope.vars
                     ELSE Numero[id] < Len(Tope.args)
Valor(id) == IF id \in Letras THEN Tope.vars[id] ELSE Tope.args[Numero[id] + 1]

(* The program stops with a code. *)
Para(codigo) == estado' = codigo /\ pc' = 0 /\ marcos' = <<>>

ConValor(valores, id, valor) ==
    [x \in DOMAIN valores \cup {id} |-> IF x = id THEN valor ELSE valores[x]]
Guardado(marco, id, valor) ==
    IF id \in Letras THEN [marco EXCEPT !.vars = ConValor(@, id, valor)]
    ELSE [marco EXCEPT !.args = [@ EXCEPT ![Numero[id] + 1] = valor]]

Guarda(id, valor) ==
    /\ marcos' = [marcos EXCEPT ![Len(marcos)] = Guardado(@, id, valor)]
    /\ pc' = pc + 1 /\ UNCHANGED estado

(* Any definition may be one too many for the stack. *)
Variables ==
    /\ Primitiva("variables")
    /\ Guarda(Sentencia.id, 0) \/ Para("FINALIZAR_STACK_OVERFLOW")

Asignacion ==
    \/ /\ Primitiva("constante")
       /\ IF Definida(Sentencia.id) THEN Guarda(Sentencia.id, 2)
          ELSE Para("FINALIZAR_EXCEPCION_MEMORIA")
    \/ /\ Primitiva("copia")
       /\ IF Definida(Sentencia.id) /\ Definida(Sentencia.de)
            THEN Guarda(Sentencia.id, Valor(Sentencia.de))
            ELSE Para("FINALIZAR_EXCEPCION_MEMORIA")

Llama(argumentos, conRetorno) ==
    /\ marcos' = Append(marcos, [vars |-> <<>>, args |-> argumentos, vuelve |-> pc + 1,
                                 conRetorno |-> conRetorno])
    /\ pc' = Sentencia.etiqueta /\ UNCHANGED estado

Llamada ==
    /\ Primitiva("llamada")
    /\ IF ~Definida(Sentencia.de) THEN Para("FINALIZAR_EXCEPCION_MEMORIA")
       ELSE IF Sentencia.etiqueta = -1 THEN Para("FINALIZAR_ERROR_SIN_DEFINICION")
       ELSE Llama(<<Valor(Sentencia.de)>>, FALSE) \/ Para("FINALIZAR_STACK_OVERFLOW")

LlamadaConRetorno ==
    /\ Primitiva("llamadaConRetorno")
    /\ IF ~Definida(Sentencia.id) THEN Para("FINALIZAR_EXCEPCION_MEMORIA")
       ELSE IF Sentencia.etiqueta = -1 THEN Para("FINALIZAR_ERROR_SIN_DEFINICION")
       ELSE Llama(<<>>, TRUE)

Salto ==
    /\ Primitiva("salto")
    /\ IF Sentencia.etiqueta = -1 THEN Para("FINALIZAR_ERROR_SIN_DEFINICION")
       ELSE pc' = Sentencia.etiqueta /\ UNCHANGED <<marcos, estado>>

End ==
    /\ Primitiva("end")
    /\ IF Len(marcos) > 1 THEN pc' = Tope.vuelve /\ UNCHANGED estado
       ELSE IF pc + 1 = Len(programa.lineas) THEN pc' = pc + 1 /\ UNCHANGED estado
       ELSE Para("FINALIZAR_OK")
    /\ marcos' = SubSeq(marcos, 1, Len(marcos) - 1)

Return ==
    /\ Primitiva("return")
    /\ IF ~Definida(Sentencia.id) THEN Para("FINALIZAR_EXCEPCION_MEMORIA")
       ELSE ~Tope.conRetorno /\ pc' = pc + 1 /\ UNCHANGED <<marcos, estado>>

(* The Kernel grants what the line asks for, or stops the program. *)
Pedido(codigos) ==
    \E op \in DOMAIN codigos : \E codigo \in codigos[op] :
        /\ Primitiva(op)
        /\ IF codigo \in {"ok", "bloqueado"} THEN pc' = pc + 1 /\ UNCHANGED <<marcos, estado>>
           ELSE Para(codigo)

Termina == estado = "corre" /\ pc = Len(programa.lineas) /\ Para("FINALIZAR_OK")

Init(programas) ==
    /\ programa \in programas /\ pc = programa.inicio /\ estado = "corre"
    /\ marcos = <<[vars |-> <<>>, args |-> <<>>, vuelve |-> 0, conRetorno |-> FALSE]>>

Next(codigos) ==
    /\ \/ Variables \/ Asignacion \/ Llamada \/ LlamadaConRetorno
       \/ Salto \/ End \/ Return \/ Pedido(codigos) \/ Termina
    /\ UNCHANGED programa
=============================================================================
