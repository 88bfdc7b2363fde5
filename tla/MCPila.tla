-------------------------------- MODULE MCPila --------------------------------
(* Programs for the CPU: every one of four lines over a few sentences, and *)
(* some longer ones like those of Ansisop-Ejemplos.                        *)
EXTENDS Pila

MCNumero == [d \in {"0", "1"} |-> IF d = "0" THEN 0 ELSE 1]

S(op) == [op |-> op, id |-> "a", de |-> "a", etiqueta |-> -1]
Con(op, id) == [S(op) EXCEPT !.id = id]
A(op, etiqueta) == [S(op) EXCEPT !.etiqueta = etiqueta]
Copia(x, y) == [S("copia") EXCEPT !.id = x, !.de = y]

Sentencias ==
    {S("variables"), S("constante"), S("end"), S("return"), S("wait"), Copia("a", "0"),
     Copia("0", "a"),
     A("llamada", 2), A("llamada", -1), A("llamadaConRetorno", 2), A("salto", 1)}

Lineas(s) == [lineas |-> s, inicio |-> 0]

(* Two functions before main, with variables of the same name: one with an *)
(* argument, one that leaves its destination alone.                        *)
Completo ==
    [lineas |-> <<S("variables"), Copia("a", "0"), S("end"),
                  S("variables"), S("constante"), S("end"),
                  S("variables"), A("llamada", 0), A("llamadaConRetorno", 3), S("end")>>,
     inicio |-> 6]

(* The primitives of the Kernel, and more lines than a char holds.         *)
Pedidos1 ==
    Lineas(<<S("signal"), S("getShared"), S("setShared"), S("alocar"), S("liberar"), S("end")>>)
Pedidos2 ==
    Lineas(<<S("abrir"), S("escribir"), S("buscar"), S("leer"), S("cerrar"), S("borrar"), S("end")>>)
Largo == Lineas([i \in 1 .. Limite |-> S("wait")])

(* Variables defined over and over. *)
Muchas == Lineas(<<S("variables"), Con("variables", "b"), A("salto", 0), S("end")>>)

(* The argument that is not there, and an undefined one. *)
Faltante == Lineas(<<S("variables"), A("llamada", 2), Copia("a", "1"), S("end")>>)

MCProgramas ==
    {Lineas(s) : s \in [1 .. 4 -> Sentencias]} \cup
    {Completo, Pedidos1, Pedidos2, Largo, Muchas, Faltante}
=============================================================================
