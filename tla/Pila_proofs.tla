----------------------------- MODULE Pila_proofs -----------------------------
(***************************************************************************)
(* Proofs about the primitives of the CPU, for every program, number of    *)
(* stack pages, page size and width of a char.  First, PosicionesPropias:  *)
(* the places of the stack are told apart by entry, kind and index         *)
(* (EsLugar, PosEn), a primitive adds places above all others or takes an  *)
(* entry's away (UnLugarMas, Menos), and PilaInv holds what a line needs   *)
(* when it starts.  Then ImplementaContextos: what each primitive does to  *)
(* the frames behind the addresses (the lemmas Marcos...), and each line   *)
(* as a step of the machine with frames (the lemmas Simula...).            *)
(***************************************************************************)
EXTENDS Pila, FiniteSetTheorems, SequenceTheorems, WellFoundedInduction, TLAPS

-----------------------------------------------------------------------------
(* Numbers. *)

LEMMA MenorDe ==
    ASSUME NEW S, S \subseteq Nat, S # {}
    PROVE  \E x \in S : \A y \in S : x <= y
<1> DEFINE R == {ss \in Nat \X Nat : ss[1] < ss[2]}
<1>1. IsWellFoundedOn(R, Nat)
  BY NatLessThanWellFounded DEF OpToRel
<1> HIDE DEF R
<1>2. \E x \in S : \A y \in S : ~ (<<y, x>> \in R)
  BY <1>1, WFMin
<1>3. ASSUME NEW x \in Nat, NEW y \in Nat, ~ (<<y, x>> \in R) PROVE x <= y
  BY <1>3 DEF R
<1> QED
  BY <1>2, <1>3

(* The greatest number of a set of them, as Max chooses it.                *)
LEMMA MaxDe ==
    ASSUME NEW N \in Nat, NEW S, S \subseteq 1 .. N, S # {}
    PROVE  Max(S) \in S /\ \A y \in S : y <= Max(S)
<1> DEFINE D == {N - x : x \in S}
<1>1. D \subseteq Nat /\ D # {}
  <2>1. \A x \in S : N - x \in Nat
    OBVIOUS
  <2> QED
    BY <2>1
<1>2. PICK m \in D : \A y \in D : m <= y
  BY <1>1, MenorDe
<1>3. PICK x \in S : m = N - x
  BY <1>2
<1>4. ASSUME NEW y \in S PROVE y <= x
  <2>1. m <= N - y
    BY <1>2
  <2>2. y \in 1 .. N /\ x \in 1 .. N
    OBVIOUS
  <2>3. y \in Int /\ x \in Int
    BY <2>2
  <2> QED
    BY <1>3, <2>1, <2>3
<1>5. \E z \in S : \A y \in S : z >= y
  BY <1>4
<1> QED
  BY <1>5 DEF Max

LEMMA MaxUnico ==
    ASSUME NEW N \in Nat, NEW S, S \subseteq 1 .. N, NEW x \in S, \A y \in S : y <= x
    PROVE  Max(S) = x
<1>1. Max(S) \in S /\ x <= Max(S)
  BY MaxDe
<1>2. Max(S) \in 1 .. N /\ x \in 1 .. N /\ Max(S) <= x
  BY <1>1
<1>3. Max(S) \in Int /\ x \in Int
  BY <1>2
<1> QED
  BY <1>1, <1>2, <1>3

(* What a char holds is read as it was written.                            *)
LEMMA CharFiel ==
    ASSUME NEW L \in Nat, Char(L) = L, NEW n \in 0 .. L
    PROVE  Char(n) = n
<1>1. Limite \in Nat /\ Limite > 0
  BY PilaAssumption
<1>2. PICK q \in Nat : q = 2 * Limite
  BY <1>1
<1>3. (L + Limite) % q \in 0 .. q - 1
  BY <1>1, <1>2
<1>4. L < Limite
  BY <1>1, <1>2, <1>3 DEF Char
<1>5. n + Limite \in Nat /\ n + Limite < q
  BY <1>1, <1>2, <1>4
<1>6. (n + Limite) % q = n + Limite
  BY <1>2, <1>5, <1>1
<1> QED
  BY <1>1, <1>2, <1>6 DEF Char

-----------------------------------------------------------------------------
(* Positions of the stack. *)

Posicion == [pag : Int, offset : Int]
DeLaPila(pos) ==
    /\ pos \in Posicion
    /\ PagsCodigo <= pos.pag /\ pos.pag < cant_pags_totales
    /\ 0 <= pos.offset /\ pos.offset + 4 <= PaginaTam /\ pos.offset % 4 = 0
Tope == [pag |-> cant_pags_totales, offset |-> 0]
(* Where fin_stack may be: at a position, or behind the last one.          *)
Limita(pos) == pos = Tope \/ DeLaPila(pos)

LEMMA Tamanios ==
    /\ PagsCodigo \in Nat /\ PaginaTam \in Nat /\ PaginaTam >= 4 /\ PaginaTam % 4 = 0
    /\ cant_pags_totales \in Nat /\ PagsCodigo < cant_pags_totales
BY PilaAssumption DEF cant_pags_totales

LEMMA PorMenor ==
    ASSUME NEW a \in Int, NEW b \in Int, NEW t \in Nat, a <= b
    PROVE  a * t <= b * t
<1>1. PICK d \in Nat : d = b - a
  OBVIOUS
<1>2. d * t \in Nat
  OBVIOUS
<1>3. b * t = (a + d) * t
  BY <1>1
<1>4. (a + d) * t = a * t + d * t
  OBVIOUS
<1>5. a * t \in Int /\ b * t \in Int
  OBVIOUS
<1> QED
  BY <1>2, <1>3, <1>4, <1>5

(* A position is four bytes on an address of its own, and the one with a   *)
(* greater address comes after it.                                         *)
LEMMA Direccion ==
    ASSUME NEW p, DeLaPila(p)
    PROVE  Logica(p) \in Direcciones /\ Logica(p) \in Int
<1>1. /\ p.pag \in Int /\ p.offset \in Int /\ PagsCodigo <= p.pag /\ p.pag < cant_pags_totales
      /\ 0 <= p.offset /\ p.offset + 4 <= PaginaTam /\ p.offset % 4 = 0
  BY DEF DeLaPila, Posicion
<1>2. PICK T \in Nat : T = PaginaTam
  BY Tamanios
<1>3. PICK k \in Nat : T = 4 * k
  <2>1. T % 4 = 0
    BY <1>2, Tamanios
  <2> QED
    BY <2>1
<1>4. PICK j \in Int : p.offset = 4 * j
  BY <1>1
<1>5. PICK g \in Int : g = p.pag
  BY <1>1
<1>6. g * T = 4 * (g * k)
  BY <1>3
<1>7. PICK x \in Int : x = g * k
  OBVIOUS
<1>8. Logica(p) = 4 * (x + j)
  BY <1>2, <1>4, <1>5, <1>6, <1>7, <1>1 DEF Logica
<1>9. Logica(p) % 4 = 0 /\ Logica(p) \in Int
  BY <1>8
<1>10. PagsCodigo * T <= g * T
  BY <1>1, <1>2, <1>5, PorMenor, Tamanios
<1>11. (g + 1) * T <= cant_pags_totales * T
  BY <1>1, <1>2, <1>5, PorMenor, Tamanios
<1>12. (g + 1) * T = g * T + T
  OBVIOUS
<1>13. /\ g * T \in Int /\ PagsCodigo * T \in Int /\ cant_pags_totales * T \in Int
       /\ Logica(p) = g * T + p.offset
  BY <1>1, <1>2, <1>5, Tamanios DEF Logica
<1>14. Logica(p) \in PagsCodigo * T .. cant_pags_totales * T - 1
  <2>1. PICK u \in Int, v \in Int, w \in Int :
            u = PagsCodigo * T /\ v = g * T /\ w = cant_pags_totales * T
    BY <1>13
  <2>2. u <= v /\ v + T <= w /\ Logica(p) = v + p.offset
    BY <1>10, <1>11, <1>12, <1>13, <2>1
  <2>3. u <= Logica(p) /\ Logica(p) <= w - 1
    BY <1>1, <1>2, <2>2
  <2> QED
    BY <1>9, <2>1, <2>3
<1> QED
  BY <1>2, <1>9, <1>14 DEF Direcciones

LEMMA DireccionTope == Logica(Tope) \in Int
BY Tamanios DEF Tope, Logica

LEMMA OrdenDeDirecciones ==
    ASSUME NEW p, NEW q, DeLaPila(p), Limita(q), Antes(p, q)
    PROVE  Logica(p) + 4 <= Logica(q) /\ Logica(p) \in Int /\ Logica(q) \in Int
<1>1. /\ p.pag \in Int /\ p.offset \in Int /\ p.offset + 4 <= PaginaTam
      /\ q.pag \in Int /\ q.offset \in Int /\ 0 <= q.offset
      /\ p.offset % 4 = 0 /\ q.offset % 4 = 0
  BY Tamanios DEF DeLaPila, Posicion, Limita, Tope
<1>2. PICK T \in Nat : T = PaginaTam
  BY Tamanios
<1>3. PICK a \in Int, b \in Int : a = p.pag /\ b = q.pag
  BY <1>1
<1>4. a * T \in Int /\ b * T \in Int /\ Logica(p) = a * T + p.offset /\ Logica(q) = b * T + q.offset
  BY <1>1, <1>2, <1>3 DEF Logica
<1>5. CASE a < b
  <2>1. (a + 1) * T <= b * T
    BY <1>5, PorMenor
  <2>2. (a + 1) * T = a * T + T
    OBVIOUS
  <2>3. PICK u \in Int, v \in Int : u = a * T /\ v = b * T
    BY <1>4
  <2>4. u + T <= v /\ Logica(p) = u + p.offset /\ Logica(q) = v + q.offset
    BY <1>4, <2>1, <2>2, <2>3
  <2> QED
    BY <1>1, <1>2, <2>4
<1>6. CASE a = b /\ p.offset < q.offset
  <2>1. p.offset + 4 <= q.offset
    BY <1>1, <1>6
  <2> QED
    BY <1>1, <1>4, <1>6, <2>1
<1> QED
  BY <1>3, <1>5, <1>6 DEF Antes

LEMMA UnaDireccionCadaUna ==
    ASSUME NEW p, NEW q, DeLaPila(p), DeLaPila(q), Logica(p) = Logica(q)
    PROVE  p = q
<1>1. p \in Posicion /\ q \in Posicion /\ Logica(p) \in Int
  BY Direccion DEF DeLaPila
<1>2. ~Antes(p, q)
  BY <1>1, OrdenDeDirecciones DEF Limita
<1>3. ~Antes(q, p)
  BY <1>1, OrdenDeDirecciones DEF Limita
<1>4. p.pag = q.pag /\ p.offset = q.offset
  BY <1>1, <1>2, <1>3 DEF Antes, Posicion
<1> QED
  BY <1>1, <1>4 DEF Posicion

(* fin_stack goes on to the next position. *)
LEMMA Sigue ==
    ASSUME NEW p, DeLaPila(p)
    PROVE  Limita(avanza(p)) /\ Antes(p, avanza(p))
<1>1. /\ p \in Posicion /\ p.pag \in Int /\ p.offset \in Int
      /\ PagsCodigo <= p.pag /\ p.pag < cant_pags_totales
      /\ 0 <= p.offset /\ p.offset + 4 <= PaginaTam /\ p.offset % 4 = 0
  BY DEF DeLaPila, Posicion
<1>2. CASE p.offset + 4 >= PaginaTam
  <2>1. avanza(p) = [pag |-> p.pag + 1, offset |-> 0]
    BY <1>2 DEF avanza
  <2>2. CASE p.pag + 1 = cant_pags_totales
    BY <1>1, <2>1, <2>2 DEF Limita, Tope, Antes
  <2>3. CASE p.pag + 1 # cant_pags_totales
    <3>1. avanza(p) \in Posicion /\ avanza(p).pag = p.pag + 1 /\ avanza(p).offset = 0
      BY <1>1, <2>1 DEF Posicion
    <3>2. p.pag + 1 < cant_pags_totales
      BY <1>1, <2>3, Tamanios
    <3>3. DeLaPila(avanza(p))
      BY <1>1, <3>1, <3>2, Tamanios DEF DeLaPila
    <3> QED
      BY <1>1, <3>1, <3>3 DEF Limita, Antes
  <2> QED
    BY <2>2, <2>3
<1>3. CASE ~(p.offset + 4 >= PaginaTam)
  <2>1. avanza(p) = [p EXCEPT !.offset = p.offset + 4]
    BY <1>3 DEF avanza
  <2>2. avanza(p) \in Posicion /\ avanza(p).pag = p.pag /\ avanza(p).offset = p.offset + 4
    BY <1>1, <2>1 DEF Posicion
  <2>3. p.offset + 8 <= PaginaTam /\ (p.offset + 4) % 4 = 0
    BY <1>1, <1>3, Tamanios
  <2>4. DeLaPila(avanza(p))
    BY <1>1, <2>2, <2>3, Tamanios DEF DeLaPila
  <2> QED
    BY <1>1, <2>2, <2>4 DEF Limita, Antes
<1> QED
  BY <1>2, <1>3

LEMMA Despues ==
    ASSUME NEW p, NEW q, DeLaPila(p), DeLaPila(q), Antes(p, q)
    PROVE  Antes(p, avanza(q)) /\ p # q
<1>1. /\ p.pag \in Int /\ p.offset \in Int /\ q.pag \in Int /\ q.offset \in Int
  BY DEF DeLaPila, Posicion
<1>2. Limita(avanza(q)) /\ Antes(q, avanza(q))
  BY Sigue
<1>3. avanza(q).pag \in Int /\ avanza(q).offset \in Int
  BY <1>2, Tamanios DEF Limita, DeLaPila, Posicion, Tope
<1> QED
  BY <1>1, <1>2, <1>3 DEF Antes

(* The places of the stack: the k-th variable or argument of an entry.     *)
EsLugar(ind, i, t, k) ==
    /\ i \in DOMAIN ind
    /\ \/ t = "v" /\ k \in DOMAIN ind[i].variables
       \/ t = "a" /\ k \in DOMAIN ind[i].argumentos
PosEn(ind, i, t, k) == IF t = "v" THEN ind[i].variables[k].pos ELSE ind[i].argumentos[k]
Propias(ind, fin) ==
    /\ \A i, t, k : EsLugar(ind, i, t, k) =>
          DeLaPila(PosEn(ind, i, t, k)) /\ Antes(PosEn(ind, i, t, k), fin)
    /\ \A i, t, k, j, u, l :
          /\ EsLugar(ind, i, t, k) /\ EsLugar(ind, j, u, l)
          /\ PosEn(ind, i, t, k) = PosEn(ind, j, u, l)
          => i = j /\ t = u /\ k = l

LEMMA Menos ==
    ASSUME NEW ind, NEW nueva, NEW fin, Propias(ind, fin),
           \A i, t, k : EsLugar(nueva, i, t, k) =>
               EsLugar(ind, i, t, k) /\ PosEn(nueva, i, t, k) = PosEn(ind, i, t, k)
    PROVE  Propias(nueva, fin)
BY DEF Propias

(* The places of nueva are those of ind and one more, at pos.              *)
UnLugarMas(ind, nueva, a, b, c, pos) ==
    \A i, t, k : EsLugar(nueva, i, t, k) =>
        \/ EsLugar(ind, i, t, k) /\ PosEn(nueva, i, t, k) = PosEn(ind, i, t, k)
        \/ i = a /\ t = b /\ k = c /\ PosEn(nueva, i, t, k) = pos

LEMMA Mas ==
    ASSUME NEW ind, NEW nueva, NEW fin, Propias(ind, fin), DeLaPila(fin),
           NEW a, NEW b, NEW c, UnLugarMas(ind, nueva, a, b, c, fin)
    PROVE  Propias(nueva, avanza(fin))
<1>1. ASSUME NEW i, NEW t, NEW k, EsLugar(nueva, i, t, k)
      PROVE  DeLaPila(PosEn(nueva, i, t, k)) /\ Antes(PosEn(nueva, i, t, k), avanza(fin))
  BY <1>1, Sigue, Despues DEF Propias, UnLugarMas
<1>2. ASSUME NEW i, NEW t, NEW k, EsLugar(ind, i, t, k)
      PROVE  PosEn(ind, i, t, k) # fin
  BY <1>2, Despues DEF Propias
<1>3. ASSUME NEW i, NEW t, NEW k, NEW j, NEW u, NEW l,
             EsLugar(nueva, i, t, k), EsLugar(nueva, j, u, l),
             PosEn(nueva, i, t, k) = PosEn(nueva, j, u, l)
      PROVE  i = j /\ t = u /\ k = l
  BY <1>2, <1>3 DEF Propias, UnLugarMas
<1> QED
  BY <1>1, <1>3 DEF Propias

-----------------------------------------------------------------------------
(* The entries of the stack. *)

Variable == [id : Letras, pos : Posicion]
Entrada == [argumentos : Seq(Posicion), variables : Seq(Variable),
            pos_retorno : Int, pos_var_retorno : Int]

LEMMA Entradas ==
    ASSUME NEW ind \in Seq(Entrada)
    PROVE  /\ Len(ind) \in Nat /\ DOMAIN ind = 1 .. Len(ind)
           /\ ind # <<>> => Len(ind) \in DOMAIN ind /\ Len(ind) >= 1
           /\ \A i \in DOMAIN ind :
                 /\ ind[i] \in Entrada
                 /\ ind[i].argumentos \in Seq(Posicion) /\ ind[i].variables \in Seq(Variable)
                 /\ ind[i].pos_retorno \in Int /\ ind[i].pos_var_retorno \in Int
                 /\ Len(ind[i].argumentos) \in Nat
                 /\ DOMAIN ind[i].argumentos = 1 .. Len(ind[i].argumentos)
                 /\ Len(ind[i].variables) \in Nat
                 /\ DOMAIN ind[i].variables = 1 .. Len(ind[i].variables)
                 /\ \A k \in DOMAIN ind[i].argumentos : ind[i].argumentos[k] \in Posicion
                 /\ \A k \in DOMAIN ind[i].variables :
                       /\ ind[i].variables[k] \in Variable
                       /\ ind[i].variables[k].id \in Letras /\ ind[i].variables[k].pos \in Posicion
<1>1. Len(ind) \in Nat /\ DOMAIN ind = 1 .. Len(ind)
  BY LenProperties
<1>2. ind # <<>> => Len(ind) \in Nat \ {0}
  BY EmptySeq
<1>3. ASSUME NEW i \in DOMAIN ind
      PROVE  /\ ind[i] \in Entrada
             /\ ind[i].argumentos \in Seq(Posicion) /\ ind[i].variables \in Seq(Variable)
             /\ ind[i].pos_retorno \in Int /\ ind[i].pos_var_retorno \in Int
  <2>1. ind[i] \in Entrada
    BY <1>1, ElementOfSeq
  <2> QED
    BY <2>1 DEF Entrada
<1>4. ASSUME NEW i \in DOMAIN ind
      PROVE  /\ Len(ind[i].argumentos) \in Nat
             /\ DOMAIN ind[i].argumentos = 1 .. Len(ind[i].argumentos)
             /\ \A k \in DOMAIN ind[i].argumentos : ind[i].argumentos[k] \in Posicion
  <2>1. PICK s \in Seq(Posicion) : s = ind[i].argumentos
    BY <1>3
  <2>2. Len(s) \in Nat /\ DOMAIN s = 1 .. Len(s) /\ \A k \in 1 .. Len(s) : s[k] \in Posicion
    BY LenProperties, ElementOfSeq
  <2> QED
    BY <2>1, <2>2
<1>5. ASSUME NEW i \in DOMAIN ind
      PROVE  /\ Len(ind[i].variables) \in Nat
             /\ DOMAIN ind[i].variables = 1 .. Len(ind[i].variables)
             /\ \A k \in DOMAIN ind[i].variables :
                   /\ ind[i].variables[k] \in Variable
                   /\ ind[i].variables[k].id \in Letras /\ ind[i].variables[k].pos \in Posicion
  <2>1. PICK s \in Seq(Variable) : s = ind[i].variables
    BY <1>3
  <2>2. Len(s) \in Nat /\ DOMAIN s = 1 .. Len(s) /\ \A k \in 1 .. Len(s) : s[k] \in Variable
    BY LenProperties, ElementOfSeq
  <2> QED
    BY <2>1, <2>2 DEF Variable
<1> QED
  BY <1>1, <1>2, <1>3, <1>4, <1>5

(* One more element at the end.                                            *)
UnoMas(q, s, x) ==
    /\ Len(s) = Len(q) + 1 /\ DOMAIN s = 1 .. Len(q) + 1
    /\ \A k \in 1 .. Len(q) : s[k] = q[k]
    /\ s[Len(q) + 1] = x

LEMMA AppendDe ==
    ASSUME NEW S, NEW q \in Seq(S), NEW x \in S
    PROVE  Append(q, x) \in Seq(S) /\ UnoMas(q, Append(q, x), x)
<1>1. /\ Append(q, x) \in Seq(S) /\ Len(Append(q, x)) = Len(q) + 1
      /\ \A k \in 1 .. Len(q) : Append(q, x)[k] = q[k]
      /\ Append(q, x)[Len(q) + 1] = x
  BY AppendProperties
<1>2. DOMAIN Append(q, x) = 1 .. Len(Append(q, x))
  BY <1>1, LenProperties
<1> QED
  BY <1>1, <1>2 DEF UnoMas

(* What definirVariable puts in the last entry.                            *)
ConUnaMas(ind, nueva, id, pos) ==
    LET n == Len(ind) IN
    /\ nueva \in Seq(Entrada) /\ Len(nueva) = n /\ DOMAIN nueva = DOMAIN ind
    /\ \A i \in DOMAIN ind : i # n => nueva[i] = ind[i]
    /\ nueva[n].pos_retorno = ind[n].pos_retorno
    /\ nueva[n].pos_var_retorno = ind[n].pos_var_retorno
    /\ id \in Letras =>
          /\ nueva[n].argumentos = ind[n].argumentos
          /\ DOMAIN nueva[n].variables = 1 .. Len(ind[n].variables) + 1
          /\ \A k \in 1 .. Len(ind[n].variables) : nueva[n].variables[k] = ind[n].variables[k]
          /\ nueva[n].variables[Len(ind[n].variables) + 1].id = id
          /\ nueva[n].variables[Len(ind[n].variables) + 1].pos = pos
    /\ id \notin Letras =>
          /\ nueva[n].variables = ind[n].variables
          /\ DOMAIN nueva[n].argumentos = 1 .. Len(ind[n].argumentos) + 1
          /\ \A k \in 1 .. Len(ind[n].argumentos) : nueva[n].argumentos[k] = ind[n].argumentos[k]
          /\ nueva[n].argumentos[Len(ind[n].argumentos) + 1] = pos

LEMMA EnLaCimaHace ==
    ASSUME NEW ind \in Seq(Entrada), ind # <<>>, NEW id, NEW pos \in Posicion
    PROVE  ConUnaMas(ind, EnLaCima(ind, id, pos), id, pos)
<1> DEFINE n == Len(ind)
           e == ConPosicion(ind[n], id, pos)
<1>1. /\ n \in 1 .. Len(ind) /\ n \in DOMAIN ind /\ ind[n] \in Entrada
      /\ DOMAIN ind = 1 .. Len(ind)
      /\ ind[n].argumentos \in Seq(Posicion) /\ ind[n].variables \in Seq(Variable)
      /\ ind[n].pos_retorno \in Int /\ ind[n].pos_var_retorno \in Int
      /\ Len(ind[n].argumentos) \in Nat /\ Len(ind[n].variables) \in Nat
      /\ DOMAIN ind[n].argumentos = 1 .. Len(ind[n].argumentos)
      /\ DOMAIN ind[n].variables = 1 .. Len(ind[n].variables)
  BY Entradas
<1>2. PICK vs \in Seq(Variable), ar \in Seq(Posicion), en \in Entrada :
          vs = ind[n].variables /\ ar = ind[n].argumentos /\ en = ind[n]
  BY <1>1
<1>3. /\ e \in Entrada
      /\ e.pos_retorno = ind[n].pos_retorno /\ e.pos_var_retorno = ind[n].pos_var_retorno
      /\ id \in Letras =>
          /\ e.argumentos = ar /\ DOMAIN e.variables = 1 .. Len(vs) + 1
          /\ \A k \in 1 .. Len(vs) : e.variables[k] = vs[k]
          /\ e.variables[Len(vs) + 1].id = id /\ e.variables[Len(vs) + 1].pos = pos
      /\ id \notin Letras =>
          /\ e.variables = vs /\ DOMAIN e.argumentos = 1 .. Len(ar) + 1
          /\ \A k \in 1 .. Len(ar) : e.argumentos[k] = ar[k]
          /\ e.argumentos[Len(ar) + 1] = pos
  <2>1. CASE id \in Letras
    <3>1. PICK x \in Variable : x = [id |-> id, pos |-> pos]
      BY <2>1 DEF Variable
    <3>2. PICK s : s = Append(vs, x)
      OBVIOUS
    <3>3. s \in Seq(Variable) /\ UnoMas(vs, s, x)
      BY <3>2, AppendDe
    <3>4. /\ DOMAIN s = 1 .. Len(vs) + 1
          /\ \A k \in 1 .. Len(vs) : s[k] = vs[k]
          /\ s[Len(vs) + 1] = x
      BY <3>3 DEF UnoMas
    <3>5. e = [en EXCEPT !.variables = s]
      BY <1>2, <2>1, <3>1, <3>2 DEF ConPosicion
    <3>6. en \in Entrada
      BY <1>1, <1>2
    <3>7. /\ e \in Entrada /\ e.variables = s /\ e.argumentos = en.argumentos
          /\ e.pos_retorno = en.pos_retorno /\ e.pos_var_retorno = en.pos_var_retorno
      BY <3>3, <3>5, <3>6 DEF Entrada
    <3> QED
      BY <1>2, <2>1, <3>1, <3>3, <3>4, <3>7
  <2>2. CASE id \notin Letras
    <3>1. PICK x \in Posicion : x = pos
      OBVIOUS
    <3>2. PICK s : s = Append(ar, x)
      OBVIOUS
    <3>3. s \in Seq(Posicion) /\ UnoMas(ar, s, x)
      BY <3>2, AppendDe
    <3>4. /\ DOMAIN s = 1 .. Len(ar) + 1
          /\ \A k \in 1 .. Len(ar) : s[k] = ar[k]
          /\ s[Len(ar) + 1] = x
      BY <3>3 DEF UnoMas
    <3>5. e = [en EXCEPT !.argumentos = s]
      BY <1>2, <2>2, <3>1, <3>2 DEF ConPosicion
    <3>6. en \in Entrada
      BY <1>1, <1>2
    <3>7. /\ e \in Entrada /\ e.argumentos = s /\ e.variables = en.variables
          /\ e.pos_retorno = en.pos_retorno /\ e.pos_var_retorno = en.pos_var_retorno
      BY <3>3, <3>5, <3>6 DEF Entrada
    <3> QED
      BY <1>2, <2>2, <3>1, <3>3, <3>4, <3>7
  <2> QED
    BY <2>1, <2>2
<1>4. EnLaCima(ind, id, pos) = [ind EXCEPT ![n] = e]
  BY DEF EnLaCima
<1> HIDE DEF e, n
<1>5. PICK nueva : nueva = EnLaCima(ind, id, pos)
  OBVIOUS
<1>6. /\ nueva \in Seq(Entrada) /\ Len(nueva) = Len(ind)
      /\ \A j \in 1 .. Len(ind) : nueva[j] = IF j = n THEN e ELSE ind[j]
  BY <1>1, <1>3, <1>4, <1>5, ExceptSeq
<1>7. DOMAIN nueva = 1 .. Len(ind) /\ nueva[n] = e /\ \A j \in 1 .. Len(ind) : j # n => nueva[j] = ind[j]
  BY <1>1, <1>6, LenProperties
<1> USE DEF n
<1> QED
  BY <1>1, <1>2, <1>3, <1>5, <1>6, <1>7 DEF ConUnaMas

LEMMA PropiasConUnaMas ==
    ASSUME NEW ind \in Seq(Entrada), ind # <<>>, NEW id, NEW fin,
           DeLaPila(fin), Propias(ind, fin), NEW nueva, ConUnaMas(ind, nueva, id, fin)
    PROVE  Propias(nueva, avanza(fin))
<1>1. /\ Len(ind) \in DOMAIN ind
      /\ DOMAIN ind[Len(ind)].argumentos = 1 .. Len(ind[Len(ind)].argumentos)
      /\ DOMAIN ind[Len(ind)].variables = 1 .. Len(ind[Len(ind)].variables)
      /\ Len(ind[Len(ind)].argumentos) \in Nat /\ Len(ind[Len(ind)].variables) \in Nat
  BY Entradas
<1>2. PICK n, nv \in Nat, na \in Nat : /\ n = Len(ind) /\ nv = Len(ind[n].variables)
                                       /\ na = Len(ind[n].argumentos)
  BY <1>1
<1>3. CASE id \in Letras
  <2>1. ASSUME NEW i, NEW t, NEW k, EsLugar(nueva, i, t, k)
        PROVE  \/ EsLugar(ind, i, t, k) /\ PosEn(nueva, i, t, k) = PosEn(ind, i, t, k)
               \/ i = n /\ t = "v" /\ k = nv + 1 /\ PosEn(nueva, i, t, k) = fin
    <3>1. CASE i # n
      BY <1>2, <2>1, <3>1 DEF ConUnaMas, EsLugar, PosEn
    <3>2. CASE i = n /\ t = "a"
      BY <1>2, <1>3, <2>1, <3>2 DEF ConUnaMas, EsLugar, PosEn
    <3>3. CASE i = n /\ t = "v"
      <4>1. k \in 1 .. nv + 1 /\ i \in DOMAIN ind
        BY <1>2, <1>3, <2>1, <3>3 DEF ConUnaMas, EsLugar
      <4>2. CASE k = nv + 1
        BY <1>2, <1>3, <3>3, <4>2 DEF ConUnaMas, PosEn
      <4>3. CASE k \in 1 .. nv
        BY <1>1, <1>2, <1>3, <3>3, <4>1, <4>3 DEF ConUnaMas, PosEn, EsLugar
      <4> QED
        BY <1>2, <4>1, <4>2, <4>3
    <3> QED
      BY <2>1, <3>1, <3>2, <3>3 DEF EsLugar
  <2>2. UnLugarMas(ind, nueva, n, "v", nv + 1, fin)
    BY <2>1 DEF UnLugarMas
  <2> QED
    BY <2>2, Mas
<1>4. CASE id \notin Letras
  <2>1. ASSUME NEW i, NEW t, NEW k, EsLugar(nueva, i, t, k)
        PROVE  \/ EsLugar(ind, i, t, k) /\ PosEn(nueva, i, t, k) = PosEn(ind, i, t, k)
               \/ i = n /\ t = "a" /\ k = na + 1 /\ PosEn(nueva, i, t, k) = fin
    <3>1. CASE i # n
      BY <1>2, <2>1, <3>1 DEF ConUnaMas, EsLugar, PosEn
    <3>2. CASE i = n /\ t = "v"
      BY <1>2, <1>4, <2>1, <3>2 DEF ConUnaMas, EsLugar, PosEn
    <3>3. CASE i = n /\ t = "a"
      <4>1. k \in 1 .. na + 1 /\ i \in DOMAIN ind
        BY <1>2, <1>4, <2>1, <3>3 DEF ConUnaMas, EsLugar
      <4>2. CASE k = na + 1
        BY <1>2, <1>4, <3>3, <4>2 DEF ConUnaMas, PosEn
      <4>3. CASE k \in 1 .. na
        BY <1>1, <1>2, <1>4, <3>3, <4>1, <4>3 DEF ConUnaMas, PosEn, EsLugar
      <4> QED
        BY <1>2, <4>1, <4>2, <4>3
    <3> QED
      BY <2>1, <3>1, <3>2, <3>3 DEF EsLugar
  <2>2. UnLugarMas(ind, nueva, n, "a", na + 1, fin)
    BY <2>1 DEF UnLugarMas
  <2> QED
    BY <2>2, Mas
<1> QED
  BY <1>3, <1>4

(* The last entry goes away, and an empty one comes.                       *)
SinUltima(ind, nueva) ==
    /\ nueva \in Seq(Entrada) /\ Len(nueva) = Len(ind) - 1 /\ DOMAIN nueva = 1 .. Len(ind) - 1
    /\ \A i \in DOMAIN nueva : nueva[i] = ind[i]

LEMMA FrontHace ==
    ASSUME NEW ind \in Seq(Entrada), ind # <<>>
    PROVE  SinUltima(ind, Front(ind))
<1>1. Len(ind) \in Nat /\ Len(ind) >= 1 /\ DOMAIN ind = 1 .. Len(ind)
  BY Entradas
<1>9. PICK L \in Nat : L = Len(ind) /\ L >= 1
  BY <1>1
<1>0. PICK n \in Nat : n = Len(ind) - 1
  <2>1. L - 1 \in Nat
    BY <1>9
  <2> QED
    BY <1>9, <2>1
<1>2. PICK nueva : n = Len(ind) - 1 /\ nueva = SubSeq(ind, 1, n)
  BY <1>0
<1>3. \A i \in 1 .. n : ind[i] \in Entrada
  BY <1>1, <1>2, Entradas
<1>4. /\ nueva \in Seq(Entrada) /\ Len(nueva) = IF 1 <= n THEN n - 1 + 1 ELSE 0
      /\ \A i \in 1 .. n - 1 + 1 : nueva[i] = ind[1 + i - 1]
  BY <1>2, <1>3, SubSeqProperties
<1>5. Len(nueva) = n /\ \A i \in 1 .. n : nueva[i] = ind[i]
  BY <1>2, <1>4
<1>6. DOMAIN nueva = 1 .. n
  BY <1>4, <1>5, LenProperties
<1>7. Front(ind) = nueva
  BY <1>2 DEF Front
<1> QED
  BY <1>2, <1>4, <1>5, <1>6, <1>7 DEF SinUltima

LEMMA PropiasSinUltima ==
    ASSUME NEW ind \in Seq(Entrada), ind # <<>>, NEW fin, Propias(ind, fin),
           NEW nueva, SinUltima(ind, nueva)
    PROVE  Propias(nueva, fin)
<1>1. DOMAIN nueva \subseteq DOMAIN ind
  BY Entradas DEF SinUltima
<1>2. ASSUME NEW i, NEW t, NEW k, EsLugar(nueva, i, t, k)
      PROVE  EsLugar(ind, i, t, k) /\ PosEn(nueva, i, t, k) = PosEn(ind, i, t, k)
  BY <1>1, <1>2 DEF SinUltima, EsLugar, PosEn
<1> QED
  BY <1>2, Menos

ConUltima(ind, nueva, e) ==
    /\ nueva \in Seq(Entrada) /\ Len(nueva) = Len(ind) + 1 /\ DOMAIN nueva = 1 .. Len(ind) + 1
    /\ \A i \in DOMAIN ind : nueva[i] = ind[i]
    /\ nueva[Len(ind) + 1] = e

LEMMA AppendHace ==
    ASSUME NEW ind \in Seq(Entrada), NEW e \in Entrada
    PROVE  ConUltima(ind, Append(ind, e), e)
<1>1. PICK nueva : nueva = Append(ind, e)
  OBVIOUS
<1>2. nueva \in Seq(Entrada) /\ UnoMas(ind, nueva, e) /\ DOMAIN ind = 1 .. Len(ind)
  BY <1>1, AppendDe, LenProperties
<1> QED
  BY <1>1, <1>2 DEF ConUltima, UnoMas

LEMMA PropiasConUltima ==
    ASSUME NEW ind \in Seq(Entrada), NEW fin, Propias(ind, fin), NEW nueva, NEW e,
           ConUltima(ind, nueva, e), DOMAIN e.variables = {}, DOMAIN e.argumentos = {}
    PROVE  Propias(nueva, fin)
<1>1. DOMAIN ind = 1 .. Len(ind) /\ Len(ind) \in Nat
  BY Entradas
<1>2. ASSUME NEW i, NEW t, NEW k, EsLugar(nueva, i, t, k)
      PROVE  EsLugar(ind, i, t, k) /\ PosEn(nueva, i, t, k) = PosEn(ind, i, t, k)
  <2>1. i \in 1 .. Len(ind) + 1 /\ i # Len(ind) + 1
    BY <1>2 DEF ConUltima, EsLugar
  <2>2. i \in DOMAIN ind /\ nueva[i] = ind[i]
    BY <1>1, <2>1 DEF ConUltima
  <2> QED
    BY <1>2, <2>2 DEF EsLugar, PosEn
<1> QED
  BY <1>2, Menos

-----------------------------------------------------------------------------
(* The machine of a line. *)

CodigosDeFin ==
    {"corre", "indefinido", "FINALIZAR_OK", "FINALIZAR_STACK_OVERFLOW",
     "FINALIZAR_EXCEPCION_MEMORIA", "FINALIZAR_ERROR_SIN_DEFINICION"}
        \cup UNION {Codigos[op] : op \in DOMAIN Codigos}
Maquina ==
    [pc : Int, fin_stack : Posicion, indice_stack : Seq(Entrada), exit_code : CodigosDeFin,
     error : BOOLEAN, bloqueado : BOOLEAN, ret : Int, desviado : BOOLEAN,
     memoria : [Direcciones -> Int]]

Retornos(ind, L) == \A i \in DOMAIN ind : ind[i].pos_retorno \in 0 .. L
(* A call for a value waits for it in the stack; main's destination is the *)
(* first byte of the code.                                                 *)
Destinos(ind) ==
    \A i \in DOMAIN ind :
        \/ i = 1 /\ ind[i].pos_var_retorno = 0
        \/ i > 1 /\ ind[i].pos_var_retorno \in Direcciones \cup {SinDestino}
EnBlanco(mem, fin) == \A d \in Direcciones : d >= Logica(fin) => mem[d] = 0

(* A program of L lines in order: its positions of the stack are its own,  *)
(* it goes back to lines it has, and it has an error if and only if it has *)
(* a code to stop with.  While it did nothing odd, calls wait for their    *)
(* values in the stack and what is above fin_stack was never written.      *)
Sano(m, L) ==
    /\ m \in Maquina
    /\ Limita(m.fin_stack) /\ Propias(m.indice_stack, m.fin_stack)
    /\ m.pc \in 0 .. L /\ Retornos(m.indice_stack, L)
    /\ m.error <=> m.exit_code # "corre"
EnOrden(m, L) ==
    /\ Sano(m, L)
    /\ ~m.desviado => Destinos(m.indice_stack) /\ EnBlanco(m.memoria, m.fin_stack)

MismaPila(r, m) ==
    r.fin_stack = m.fin_stack /\ r.indice_stack = m.indice_stack /\ r.memoria = m.memoria
(* What was wrong stays wrong. *)
SigueMal(r, m) ==
    /\ m.desviado => r.desviado
    /\ m.error => r.error /\ r.exit_code = m.exit_code
Igual(r, m) ==
    /\ MismaPila(r, m) /\ r.pc = m.pc /\ r.bloqueado = m.bloqueado
    /\ r.desviado = m.desviado /\ r.error = m.error /\ r.exit_code = m.exit_code

LEMMA EnOrdenIgual ==
    ASSUME NEW m, NEW r, NEW L, EnOrden(m, L), r \in Maquina, MismaPila(r, m), r.pc \in 0 .. L,
           r.error <=> r.exit_code # "corre", m.desviado => r.desviado
    PROVE  EnOrden(r, L)
BY DEF EnOrden, Sano, MismaPila

LEMMA EsMaquina ==
    ASSUME NEW m \in Maquina
    PROVE  /\ m.pc \in Int /\ m.fin_stack \in Posicion /\ m.indice_stack \in Seq(Entrada)
           /\ m.exit_code \in CodigosDeFin /\ m.error \in BOOLEAN /\ m.bloqueado \in BOOLEAN
           /\ m.ret \in Int /\ m.desviado \in BOOLEAN /\ m.memoria \in [Direcciones -> Int]
BY DEF Maquina

LEMMA FallaHace ==
    ASSUME NEW m \in Maquina, NEW codigo \in CodigosDeFin
    PROVE  LET r == Falla(m, codigo) IN
           /\ r \in Maquina /\ MismaPila(r, m) /\ r.pc = m.pc /\ r.bloqueado = m.bloqueado
           /\ r.error /\ r.exit_code = codigo /\ r.desviado = m.desviado
<1>0. PICK x \in Int : x = -1
  OBVIOUS
<1>1. PICK v \in BOOLEAN : v = TRUE
  OBVIOUS
<1>2. PICK r : r = Falla(m, codigo)
  OBVIOUS
<1>3. r = [m EXCEPT !.error = v, !.exit_code = codigo, !.ret = x]
  BY <1>0, <1>1, <1>2 DEF Falla
<1>4. /\ r \in Maquina /\ r.error = v /\ r.exit_code = codigo /\ r.pc = m.pc
      /\ r.fin_stack = m.fin_stack /\ r.indice_stack = m.indice_stack /\ r.memoria = m.memoria
  BY <1>3 DEF Maquina
<1>5. r.desviado = m.desviado
  BY <1>3 DEF Maquina
<1>6. r.bloqueado = m.bloqueado
  BY <1>3 DEF Maquina
<1> QED
  BY <1>1, <1>2, <1>4, <1>5, <1>6 DEF MismaPila

LEMMA IndefinidoHace ==
    ASSUME NEW m \in Maquina
    PROVE  LET r == Indefinido(m) IN
           /\ r \in Maquina /\ MismaPila(r, m) /\ r.pc = m.pc /\ r.bloqueado = m.bloqueado
           /\ r.error /\ r.exit_code = "indefinido" /\ r.desviado
<1>1. PICK v \in BOOLEAN : v = TRUE
  OBVIOUS
<1>2. PICK r : r = Indefinido(m)
  OBVIOUS
<1>3. r = [m EXCEPT !.error = v, !.exit_code = "indefinido", !.desviado = v]
  BY <1>1, <1>2 DEF Indefinido
<1>7. PICK s \in CodigosDeFin : s = "indefinido"
  BY DEF CodigosDeFin
<1>8. r = [m EXCEPT !.error = v, !.exit_code = s, !.desviado = v]
  BY <1>3, <1>7
<1>4. /\ r \in Maquina /\ r.error = v /\ r.exit_code = s /\ r.pc = m.pc
      /\ r.fin_stack = m.fin_stack /\ r.indice_stack = m.indice_stack /\ r.memoria = m.memoria
  BY <1>8 DEF Maquina
<1>5. r.desviado = v
  BY <1>8 DEF Maquina
<1>6. r.bloqueado = m.bloqueado
  BY <1>8 DEF Maquina
<1> QED
  BY <1>1, <1>2, <1>7, <1>4, <1>5, <1>6 DEF MismaPila

LEMMA ConRet ==
    ASSUME NEW m \in Maquina, NEW x \in Int
    PROVE  LET r == [m EXCEPT !.ret = x] IN r \in Maquina /\ Igual(r, m) /\ r.ret = x
BY DEF Maquina, Igual, MismaPila

(* definirVariable. *)
Define(m, r, id, L) ==
    /\ EnOrden(r, L) /\ SigueMal(r, m) /\ r.pc = m.pc
    /\ ~r.error => r.ret \in Int /\ r.ret < Logica(r.fin_stack)
    /\ ~m.error =>
        \/ r.desviado
        \/ r.error /\ r.exit_code = "FINALIZAR_STACK_OVERFLOW"
        \/ /\ ~r.error /\ r.exit_code = m.exit_code
           /\ m.indice_stack # <<>> /\ DeLaPila(m.fin_stack)
           /\ r.indice_stack = EnLaCima(m.indice_stack, id, m.fin_stack)
           /\ r.memoria = m.memoria
           /\ r.ret = Logica(m.fin_stack)

LEMMA Cabe ==
    ASSUME NEW m \in Maquina, NEW id, DeLaPila(m.fin_stack), m.indice_stack # <<>>
    PROVE  LET r == [m EXCEPT !.indice_stack = EnLaCima(@, id, m.fin_stack),
                              !.fin_stack = avanza(@), !.ret = Logica(m.fin_stack)]
           IN  /\ r \in Maquina /\ r.pc = m.pc /\ r.error = m.error /\ r.exit_code = m.exit_code
               /\ r.desviado = m.desviado /\ r.memoria = m.memoria
               /\ r.indice_stack = EnLaCima(m.indice_stack, id, m.fin_stack)
               /\ r.fin_stack = avanza(m.fin_stack) /\ r.ret = Logica(m.fin_stack)
<1>1. PICK ind, fin, dir : /\ ind = EnLaCima(m.indice_stack, id, m.fin_stack)
                           /\ fin = avanza(m.fin_stack) /\ dir = Logica(m.fin_stack)
  OBVIOUS
<1>2. ConUnaMas(m.indice_stack, ind, id, m.fin_stack)
  BY <1>1, EsMaquina, EnLaCimaHace
<1>3. ind \in Seq(Entrada)
  BY <1>2 DEF ConUnaMas
<1>4. dir \in Int
  BY <1>1, Direccion
<1>5. Limita(fin)
  BY <1>1, Sigue
<1>6. fin \in Posicion
  BY <1>5, Tamanios DEF Limita, DeLaPila, Tope, Posicion
<1>7. PICK r : r = [m EXCEPT !.indice_stack = ind, !.fin_stack = fin, !.ret = dir]
  OBVIOUS
<1>8. /\ r \in Maquina /\ r.pc = m.pc /\ r.error = m.error /\ r.exit_code = m.exit_code
      /\ r.desviado = m.desviado /\ r.memoria = m.memoria
      /\ r.indice_stack = ind /\ r.fin_stack = fin /\ r.ret = dir
  BY <1>3, <1>4, <1>6, <1>7 DEF Maquina
<1> QED
  BY <1>1, <1>7, <1>8

LEMMA DefinirVariable ==
    ASSUME NEW m, NEW L, EnOrden(m, L), NEW id
    PROVE  Define(m, definirVariable(m, id), id, L)
<1>1. PICK r : r = definirVariable(m, id)
  OBVIOUS
<1>2. m \in Maquina /\ Limita(m.fin_stack)
  BY DEF EnOrden, Sano
<1>3. CASE m.error
  <2>1. r = [m EXCEPT !.ret = -1]
    BY <1>1, <1>3 DEF definirVariable
  <2>2. r \in Maquina /\ Igual(r, m)
    BY <1>2, <2>1, ConRet
  <2>3. EnOrden(r, L)
    BY <2>2, EnOrdenIgual DEF EnOrden, Sano, Igual
  <2> QED
    BY <1>1, <1>3, <2>2, <2>3 DEF Define, SigueMal, Igual
<1>4. CASE ~m.error /\ m.fin_stack.pag = cant_pags_totales
  <2>1. r = Falla(m, "FINALIZAR_STACK_OVERFLOW")
    BY <1>1, <1>4 DEF definirVariable
  <2>2. /\ r \in Maquina /\ MismaPila(r, m) /\ r.pc = m.pc
        /\ r.error /\ r.exit_code = "FINALIZAR_STACK_OVERFLOW" /\ r.desviado = m.desviado
    BY <1>2, <2>1, FallaHace DEF CodigosDeFin
  <2>3. EnOrden(r, L)
    BY <2>2, EnOrdenIgual DEF EnOrden, Sano
  <2> QED
    BY <1>1, <1>4, <2>2, <2>3 DEF Define, SigueMal
<1>5. CASE ~m.error /\ m.fin_stack.pag # cant_pags_totales /\ m.indice_stack = <<>>
  <2>1. r = Indefinido(m)
    BY <1>1, <1>5 DEF definirVariable
  <2>2. /\ r \in Maquina /\ MismaPila(r, m) /\ r.pc = m.pc
        /\ r.error /\ r.exit_code = "indefinido" /\ r.desviado
    BY <1>2, <2>1, IndefinidoHace
  <2>3. EnOrden(r, L)
    BY <2>2, EnOrdenIgual DEF EnOrden, Sano
  <2> QED
    BY <1>1, <1>5, <2>2, <2>3 DEF Define, SigueMal
<1>6. CASE ~m.error /\ m.fin_stack.pag # cant_pags_totales /\ m.indice_stack # <<>>
  <2>1. r = [m EXCEPT !.indice_stack = EnLaCima(@, id, m.fin_stack),
                      !.fin_stack = avanza(@), !.ret = Logica(m.fin_stack)]
    BY <1>1, <1>6 DEF definirVariable
  <2>2. DeLaPila(m.fin_stack)
    BY <1>2, <1>6 DEF Limita, Tope
  <2>3. /\ r \in Maquina /\ r.pc = m.pc /\ r.error = m.error /\ r.exit_code = m.exit_code
        /\ r.desviado = m.desviado /\ r.memoria = m.memoria
        /\ r.indice_stack = EnLaCima(m.indice_stack, id, m.fin_stack)
        /\ r.fin_stack = avanza(m.fin_stack) /\ r.ret = Logica(m.fin_stack)
    BY <1>2, <1>6, <2>1, <2>2, Cabe
  <2>4. PICK ind \in Seq(Entrada), nueva \in Seq(Entrada), fin \in Posicion :
            ind = m.indice_stack /\ fin = m.fin_stack /\ nueva = r.indice_stack
    BY <1>2, <2>3, EsMaquina
  <2>5. ConUnaMas(ind, nueva, id, fin) /\ ind # <<>>
    BY <1>2, <1>6, <2>3, <2>4, EsMaquina, EnLaCimaHace
  <2>6. Propias(nueva, avanza(fin))
    BY <2>2, <2>4, <2>5, PropiasConUnaMas DEF EnOrden, Sano
  <2>7. Limita(avanza(fin)) /\ Antes(fin, avanza(fin))
    BY <2>2, <2>4, Sigue
  <2>8. Logica(fin) + 4 <= Logica(avanza(fin)) /\ Logica(fin) \in Int /\ Logica(avanza(fin)) \in Int
    BY <2>2, <2>4, <2>7, OrdenDeDirecciones
  <2>9. Len(ind) \in DOMAIN ind
    BY <2>5, Entradas
  <2>10. /\ DOMAIN nueva = DOMAIN ind
         /\ \A i \in DOMAIN ind : /\ nueva[i].pos_retorno = ind[i].pos_retorno
                                  /\ nueva[i].pos_var_retorno = ind[i].pos_var_retorno
    BY <2>5, <2>9 DEF ConUnaMas
  <2>11. Retornos(nueva, L)
    BY <2>4, <2>10 DEF EnOrden, Sano, Retornos
  <2>12. ~r.desviado => Destinos(nueva)
    BY <2>3, <2>4, <2>10 DEF EnOrden, Sano, Destinos
  <2>13. ASSUME ~r.desviado PROVE EnBlanco(r.memoria, avanza(fin))
    <3>1. EnBlanco(r.memoria, fin)
      BY <2>3, <2>4, <2>13 DEF EnOrden, Sano
    <3>2. \A d \in Direcciones : d \in Int
      BY Tamanios DEF Direcciones
    <3> QED
      BY <2>8, <3>1, <3>2 DEF EnBlanco
  <2>14. EnOrden(r, L)
    BY <2>3, <2>4, <2>6, <2>7, <2>11, <2>12, <2>13 DEF EnOrden, Sano
  <2>15. r.ret \in Int /\ r.ret < Logica(r.fin_stack)
    BY <2>3, <2>4, <2>8
  <2> QED
    BY <1>1, <1>6, <2>2, <2>3, <2>14, <2>15 DEF Define, SigueMal
<1> QED
  BY <1>3, <1>4, <1>5, <1>6, <1>2, EsMaquina

-----------------------------------------------------------------------------
(* A variable or an argument of the last entry, by its name.               *)
HayVariable(ind, id) ==
    /\ ind # <<>>
    /\ IF id \in Letras THEN Definiciones(ind[Len(ind)], id) # {}
       ELSE Numero[id] < Len(ind[Len(ind)].argumentos)
TipoDe(id) == IF id \in Letras THEN "v" ELSE "a"
CualDe(ind, id) ==
    IF id \in Letras THEN Max(Definiciones(ind[Len(ind)], id)) ELSE Numero[id] + 1
PosDe(ind, id) == PosEn(ind, Len(ind), TipoDe(id), CualDe(ind, id))

LEMMA LugarDe ==
    ASSUME NEW ind \in Seq(Entrada), NEW id \in Letras \cup Digitos, HayVariable(ind, id)
    PROVE  EsLugar(ind, Len(ind), TipoDe(id), CualDe(ind, id))
<1>1. PICK n \in Nat : n = Len(ind) /\ n \in DOMAIN ind
  BY Entradas DEF HayVariable
<1>2. PICK nv \in Nat, na \in Nat :
          /\ nv = Len(ind[n].variables) /\ DOMAIN ind[n].variables = 1 .. nv
          /\ na = Len(ind[n].argumentos) /\ DOMAIN ind[n].argumentos = 1 .. na
  BY <1>1, Entradas
<1>3. CASE id \in Letras
  <2>1. /\ Definiciones(ind[n], id) \subseteq 1 .. nv /\ Definiciones(ind[n], id) # {}
    BY <1>1, <1>2, <1>3 DEF Definiciones, HayVariable
  <2>2. Max(Definiciones(ind[n], id)) \in Definiciones(ind[n], id)
    BY <1>2, <2>1, MaxDe
  <2>3. CualDe(ind, id) \in 1 .. nv
    BY <1>1, <1>3, <2>1, <2>2 DEF CualDe
  <2> QED
    BY <1>1, <1>2, <1>3, <2>3 DEF EsLugar, TipoDe
<1>4. CASE id \notin Letras
  <2>1. Numero[id] \in Nat
    BY <1>4, PilaAssumption
  <2>2. Numero[id] < na
    BY <1>1, <1>2, <1>4 DEF HayVariable
  <2>3. Numero[id] + 1 \in 1 .. na
    BY <1>2, <2>1, <2>2
  <2> QED
    BY <1>1, <1>2, <1>4, <2>3 DEF EsLugar, TipoDe, CualDe
<1> QED
  BY <1>3, <1>4

Obtiene(m, r, id, L) ==
    /\ EnOrden(r, L) /\ SigueMal(r, m) /\ MismaPila(r, m) /\ r.pc = m.pc
    /\ ~m.error =>
        \/ r.desviado
        \/ /\ ~HayVariable(m.indice_stack, id)
           /\ r.error /\ r.exit_code = "FINALIZAR_EXCEPCION_MEMORIA"
        \/ /\ HayVariable(m.indice_stack, id) /\ Igual(r, m)
           /\ r.ret = Logica(PosDe(m.indice_stack, id))

LEMMA ObtenerPosicion ==
    ASSUME NEW m, NEW L, EnOrden(m, L), NEW id \in Letras \cup Digitos, NEW basura \in Int
    PROVE  Obtiene(m, obtenerPosicionVariable(m, id, basura), id, L)
<1>1. PICK r : r = obtenerPosicionVariable(m, id, basura)
  OBVIOUS
<1>2. m \in Maquina /\ m.error \in BOOLEAN
  BY EsMaquina DEF EnOrden, Sano
<1>3. PICK ind \in Seq(Entrada) : ind = m.indice_stack
  BY <1>2, EsMaquina
<1>4. CASE m.error
  <2>1. r = [m EXCEPT !.ret = -1]
    BY <1>1, <1>4 DEF obtenerPosicionVariable
  <2>2. r \in Maquina /\ Igual(r, m)
    BY <1>2, <2>1, ConRet
  <2>3. EnOrden(r, L)
    BY <2>2, EnOrdenIgual DEF EnOrden, Sano, Igual
  <2> QED
    BY <1>1, <1>4, <2>2, <2>3 DEF Obtiene, SigueMal, Igual
<1>5. CASE ~m.error /\ ind = <<>>
  <2>1. r = Indefinido(m)
    BY <1>1, <1>3, <1>5 DEF obtenerPosicionVariable
  <2>2. /\ r \in Maquina /\ MismaPila(r, m) /\ r.pc = m.pc
        /\ r.error /\ r.exit_code = "indefinido" /\ r.desviado
    BY <1>2, <2>1, IndefinidoHace
  <2>3. EnOrden(r, L)
    BY <2>2, EnOrdenIgual DEF EnOrden, Sano
  <2> QED
    BY <1>1, <1>5, <2>2, <2>3 DEF Obtiene, SigueMal
<1>6. CASE ~m.error /\ ind # <<>> /\ HayVariable(ind, id)
  <2>1. PICK dir : dir = Logica(PosDe(ind, id))
    OBVIOUS
  <2>2. EsLugar(ind, Len(ind), TipoDe(id), CualDe(ind, id))
    BY <1>6, LugarDe
  <2>3. dir \in Int
    BY <1>3, <2>1, <2>2, Direccion DEF EnOrden, Sano, Propias, PosDe
  <2>4. r = [m EXCEPT !.ret = dir]
    <3>1. CASE id \in Letras
      BY <1>1, <1>3, <1>6, <2>1, <3>1
         DEF obtenerPosicionVariable, Cima, HayVariable, PosDe, PosEn, TipoDe, CualDe
    <3>2. CASE id \notin Letras
      <4>1. Numero[id] \in Nat /\ Numero[id] < Len(ind[Len(ind)].argumentos)
        BY <1>6, <3>2, PilaAssumption DEF HayVariable
      <4>2. Len(ind[Len(ind)].argumentos) \in Nat
        BY <1>6, Entradas
      <4>3. PICK a \in Nat, b \in Nat : a = Numero[id] /\ b = Len(ind[Len(ind)].argumentos)
        BY <4>1, <4>2
      <4>4. ~(a > b) /\ a # b
        BY <4>1, <4>3
      <4>5. ~(Numero[id] > Len(Cima(m).argumentos)) /\ Numero[id] # Len(Cima(m).argumentos)
        BY <1>3, <4>3, <4>4 DEF Cima
      <4>6. dir = Logica(Cima(m).argumentos[Numero[id] + 1])
        BY <1>3, <2>1, <3>2 DEF Cima, PosDe, PosEn, TipoDe, CualDe
      <4>7. r = [m EXCEPT !.ret = Logica(Cima(m).argumentos[Numero[id] + 1])]
        BY <1>1, <1>3, <1>6, <3>2, <4>5 DEF obtenerPosicionVariable
      <4> QED
        BY <4>6, <4>7
    <3> QED
      BY <3>1, <3>2
  <2>5. r \in Maquina /\ Igual(r, m) /\ r.ret = dir
    BY <1>2, <2>3, <2>4, ConRet
  <2>6. EnOrden(r, L)
    BY <2>5, EnOrdenIgual DEF EnOrden, Sano, Igual
  <2> QED
    BY <1>1, <1>3, <1>6, <2>1, <2>5, <2>6 DEF Obtiene, SigueMal, Igual
<1>7. CASE ~m.error /\ ind # <<>> /\ ~HayVariable(ind, id)
  <2>1. \/ r = Falla(m, "FINALIZAR_EXCEPCION_MEMORIA")
        \/ r = [m EXCEPT !.ret = basura, !.desviado = TRUE]
    <3>1. CASE id \in Letras
      BY <1>1, <1>3, <1>7, <3>1 DEF obtenerPosicionVariable, Cima, HayVariable
    <3>2. CASE id \notin Letras
      <4>1. Numero[id] \in Nat /\ ~(Numero[id] < Len(ind[Len(ind)].argumentos))
        BY <1>7, <3>2, PilaAssumption DEF HayVariable
      <4>2. Len(ind[Len(ind)].argumentos) \in Nat
        BY <1>7, Entradas
      <4>3. PICK a \in Nat, b \in Nat : a = Numero[id] /\ b = Len(ind[Len(ind)].argumentos)
        BY <4>1, <4>2
      <4>4. a > b \/ a = b
        BY <4>1, <4>3
      <4>5. Numero[id] > Len(Cima(m).argumentos) \/ Numero[id] = Len(Cima(m).argumentos)
        BY <1>3, <4>3, <4>4 DEF Cima
      <4> QED
        BY <1>1, <1>3, <1>7, <3>2, <4>5 DEF obtenerPosicionVariable
    <3> QED
      BY <3>1, <3>2
  <2>2. CASE r = Falla(m, "FINALIZAR_EXCEPCION_MEMORIA")
    <3>1. /\ r \in Maquina /\ MismaPila(r, m) /\ r.pc = m.pc
          /\ r.error /\ r.exit_code = "FINALIZAR_EXCEPCION_MEMORIA" /\ r.desviado = m.desviado
      BY <1>2, <2>2, FallaHace DEF CodigosDeFin
    <3>2. EnOrden(r, L)
      BY <3>1, EnOrdenIgual DEF EnOrden, Sano
    <3> QED
      BY <1>1, <1>3, <1>7, <3>1, <3>2 DEF Obtiene, SigueMal
  <2>3. CASE r = [m EXCEPT !.ret = basura, !.desviado = TRUE]
    <3>1. PICK v \in BOOLEAN : v = TRUE
      OBVIOUS
    <3>2. r = [m EXCEPT !.ret = basura, !.desviado = v]
      BY <2>3, <3>1
    <3>3. /\ r \in Maquina /\ r.desviado = v /\ r.pc = m.pc /\ r.error = m.error
          /\ r.exit_code = m.exit_code
          /\ r.fin_stack = m.fin_stack /\ r.indice_stack = m.indice_stack /\ r.memoria = m.memoria
      BY <1>2, <3>2 DEF Maquina
    <3>4. MismaPila(r, m)
      BY <3>3 DEF MismaPila
    <3>5. EnOrden(r, L)
      BY <3>1, <3>3, <3>4, EnOrdenIgual DEF EnOrden, Sano
    <3> QED
      BY <1>1, <3>1, <3>3, <3>4, <3>5 DEF Obtiene, SigueMal
  <2> QED
    BY <2>1, <2>2, <2>3
<1> QED
  BY <1>2, <1>4, <1>5, <1>6, <1>7

(* Where a variable is, its four bytes are below fin_stack.                *)
LEMMA DireccionDe ==
    ASSUME NEW m, NEW L, EnOrden(m, L), NEW id \in Letras \cup Digitos,
           HayVariable(m.indice_stack, id)
    PROVE  /\ DeLaPila(PosDe(m.indice_stack, id))
           /\ Logica(PosDe(m.indice_stack, id)) \in Direcciones
           /\ Logica(PosDe(m.indice_stack, id)) < Logica(m.fin_stack)
<1>1. m.indice_stack \in Seq(Entrada)
  BY EsMaquina DEF EnOrden, Sano
<1>2. DeLaPila(PosDe(m.indice_stack, id)) /\ Antes(PosDe(m.indice_stack, id), m.fin_stack)
  BY <1>1, LugarDe DEF EnOrden, Sano, Propias, PosDe
<1>3. PICK p, q : p = PosDe(m.indice_stack, id) /\ q = m.fin_stack
  OBVIOUS
<1>4. Logica(p) + 4 <= Logica(q) /\ Logica(p) \in Int /\ Logica(q) \in Int
  BY <1>2, <1>3, OrdenDeDirecciones DEF EnOrden, Sano
<1>5. Logica(p) < Logica(q)
  BY <1>4
<1> QED
  BY <1>2, <1>3, <1>5, Direccion

(* dereferenciar. *)
LEMMA Dereferenciar ==
    ASSUME NEW m, NEW L, EnOrden(m, L), NEW dir
    PROVE  LET r == dereferenciar(m, dir) IN
           /\ EnOrden(r, L) /\ Igual(r, m) /\ r.ret \in Int
           /\ ~m.error /\ dir \in Direcciones => r.ret = m.memoria[dir]
<1>1. PICK r : r = dereferenciar(m, dir)
  OBVIOUS
<1>2. m \in Maquina /\ m.memoria \in [Direcciones -> Int]
  BY EsMaquina DEF EnOrden, Sano
<1>3. PICK x \in Int : r = [m EXCEPT !.ret = x] /\ (~m.error /\ dir \in Direcciones => x = m.memoria[dir])
  <2>1. CASE m.error
    BY <1>1, <2>1 DEF dereferenciar
  <2>2. CASE ~m.error /\ dir \in Direcciones
    BY <1>1, <1>2, <2>2 DEF dereferenciar
  <2>3. CASE ~m.error /\ dir \notin Direcciones
    BY <1>1, <2>3 DEF dereferenciar
  <2> QED
    BY <2>1, <2>2, <2>3
<1>4. r \in Maquina /\ Igual(r, m) /\ r.ret = x
  BY <1>2, <1>3, ConRet
<1>5. EnOrden(r, L)
  BY <1>4, EnOrdenIgual DEF EnOrden, Sano, Igual
<1> QED
  BY <1>1, <1>3, <1>4, <1>5

(* asignar. *)
Asigna(m, r, dir, v) ==
    /\ r \in Maquina /\ SigueMal(r, m) /\ r.pc = m.pc
    /\ r.fin_stack = m.fin_stack /\ r.indice_stack = m.indice_stack
    /\ r.error <=> r.exit_code # "corre"
    /\ m.error => r = m
    /\ ~m.error /\ dir \in Direcciones =>
          /\ ~r.error /\ r.exit_code = m.exit_code /\ r.desviado = m.desviado
          /\ r.memoria = [m.memoria EXCEPT ![dir] = v]
    /\ ~m.error /\ dir \notin Direcciones => r.error /\ r.memoria = m.memoria
    /\ ~m.error /\ dir = 0 => r.desviado \/ ~r.error

(* The first byte is of the code, or of the stack of a program without.    *)
CeroEsDelCodigo == 0 \in Direcciones \/ 0 \in 0 .. PagsCodigo * PaginaTam - 1
LEMMA CeroDelCodigo == CeroEsDelCodigo
<1>1. PICK P \in Nat, T \in Nat, C \in Nat :
          P = PagsCodigo /\ T = PaginaTam /\ C = cant_pags_totales /\ P < C /\ T >= 4
  BY Tamanios
<1>2. CASE P = 0
  <2>1. C * T >= T
    <3>1. 1 * T <= C * T
      BY <1>1, <1>2, PorMenor
    <3> QED
      BY <3>1
  <2>2. P * T = 0 /\ C * T \in Nat /\ 0 % 4 = 0
    BY <1>2
  <2>3. 0 \in {d \in P * T .. C * T - 1 : d % 4 = 0}
    BY <1>1, <2>1, <2>2
  <2> QED
    BY <1>1, <2>3 DEF CeroEsDelCodigo, Direcciones
<1>3. CASE P > 0
  <2>1. P * T >= T /\ P * T \in Nat
    <3>1. 1 * T <= P * T
      BY <1>1, <1>3, PorMenor
    <3> QED
      BY <3>1
  <2> QED
    BY <1>1, <2>1 DEF CeroEsDelCodigo
<1> QED
  BY <1>1, <1>2, <1>3

LEMMA AsignarHace ==
    ASSUME NEW m \in Maquina, m.error <=> m.exit_code # "corre", NEW dir, NEW v \in Int
    PROVE  Asigna(m, asignar(m, dir, v), dir, v)
<1>1. PICK r : r = asignar(m, dir, v)
  OBVIOUS
<1>2. CASE m.error
  <2>1. r = m
    BY <1>1, <1>2 DEF asignar
  <2> QED
    BY <1>1, <1>2, <2>1 DEF Asigna, SigueMal
<1>3. CASE ~m.error /\ dir \in Direcciones
  <2>1. PICK mem \in [Direcciones -> Int] : mem = [m.memoria EXCEPT ![dir] = v]
    <3>1. m.memoria \in [Direcciones -> Int]
      BY EsMaquina
    <3> QED
      BY <3>1, <1>3
  <2>2. r = [m EXCEPT !.memoria = mem]
    BY <1>1, <1>3, <2>1 DEF asignar
  <2>3. /\ r \in Maquina /\ r.pc = m.pc /\ r.fin_stack = m.fin_stack
        /\ r.indice_stack = m.indice_stack /\ r.error = m.error /\ r.exit_code = m.exit_code
        /\ r.desviado = m.desviado /\ r.memoria = mem
    BY <2>2 DEF Maquina
  <2> QED
    BY <1>1, <1>3, <2>1, <2>3 DEF Asigna, SigueMal
<1>4. CASE ~m.error /\ dir \notin Direcciones
  <2>0. CeroEsDelCodigo
    BY CeroDelCodigo
  <2>1. r = Indefinido(m) \/ (r = Falla(m, "FINALIZAR_EXCEPCION_MEMORIA") /\ dir # 0)
    BY <1>1, <1>4, <2>0 DEF asignar, CeroEsDelCodigo
  <2>2. CASE r = Indefinido(m)
    <3>1. /\ r \in Maquina /\ MismaPila(r, m) /\ r.pc = m.pc
          /\ r.error /\ r.exit_code = "indefinido" /\ r.desviado
      BY <2>2, IndefinidoHace
    <3> QED
      BY <1>1, <1>4, <3>1 DEF Asigna, SigueMal, MismaPila
  <2>3. CASE r = Falla(m, "FINALIZAR_EXCEPCION_MEMORIA") /\ dir # 0
    <3>1. /\ r \in Maquina /\ MismaPila(r, m) /\ r.pc = m.pc
          /\ r.error /\ r.exit_code = "FINALIZAR_EXCEPCION_MEMORIA" /\ r.desviado = m.desviado
      BY <2>3, FallaHace DEF CodigosDeFin
    <3> QED
      BY <1>1, <1>4, <2>3, <3>1 DEF Asigna, SigueMal, MismaPila
  <2> QED
    BY <2>1, <2>2, <2>3
<1> QED
  BY <1>2, <1>3, <1>4, EsMaquina

LEMMA AsignarEnOrden ==
    ASSUME NEW m, NEW L, EnOrden(m, L), NEW dir, NEW v \in Int,
           \/ m.error
           \/ m.desviado
           \/ dir < Logica(m.fin_stack) /\ dir \in Int
    PROVE  EnOrden(asignar(m, dir, v), L)
<1>1. PICK r : r = asignar(m, dir, v)
  OBVIOUS
<1>2. m \in Maquina /\ Asigna(m, r, dir, v)
  BY <1>1, AsignarHace DEF EnOrden, Sano
<1>3. ASSUME ~r.desviado PROVE Destinos(r.indice_stack) /\ EnBlanco(r.memoria, r.fin_stack)
  <2>1. ~m.desviado /\ Destinos(m.indice_stack) /\ EnBlanco(m.memoria, m.fin_stack)
    BY <1>2, <1>3 DEF EnOrden, Sano, Asigna, SigueMal
  <2>2. CASE m.error \/ dir \notin Direcciones
    BY <1>2, <2>1, <2>2, EsMaquina DEF Asigna
  <2>3. CASE ~m.error /\ dir \in Direcciones
    <3>1. r.memoria = [m.memoria EXCEPT ![dir] = v] /\ r.fin_stack = m.fin_stack
      BY <1>2, <2>3 DEF Asigna
    <3>2. m.memoria \in [Direcciones -> Int]
      BY <1>2, EsMaquina
    <3>3. PICK f : f = Logica(m.fin_stack)
      OBVIOUS
    <3>4. f \in Int
      BY <3>3, Direccion, DireccionTope DEF EnOrden, Sano, Limita
    <3>5. dir < f /\ dir \in Int
      BY <2>1, <2>3, <3>3
    <3>6. ASSUME NEW d \in Direcciones, d >= f PROVE r.memoria[d] = 0
      <4>1. d \in Int
        BY Tamanios DEF Direcciones
      <4>2. d # dir
        BY <3>4, <3>5, <3>6, <4>1
      <4>3. m.memoria[d] = 0
        BY <2>1, <3>3, <3>6 DEF EnBlanco
      <4> QED
        BY <3>1, <3>2, <4>2, <4>3
    <3> QED
      BY <1>2, <2>1, <3>1, <3>3, <3>6 DEF EnBlanco, Asigna
  <2> QED
    BY <2>2, <2>3, <1>2, EsMaquina
<1>4. EnOrden(r, L)
  BY <1>2, <1>3 DEF EnOrden, Sano, Asigna
<1> QED
  BY <1>1, <1>4

-----------------------------------------------------------------------------
(* Jumps, calls and returns. *)

Salta(m, r, e, L) ==
    /\ EnOrden(r, L) /\ SigueMal(r, m) /\ MismaPila(r, m)
    /\ ~m.error =>
        \/ e = -1 /\ r.error /\ r.exit_code = "FINALIZAR_ERROR_SIN_DEFINICION"
        \/ e # -1 /\ ~r.error /\ r.exit_code = m.exit_code /\ r.desviado = m.desviado /\ r.pc = e

LEMMA IrAlLabel ==
    ASSUME NEW m, NEW L \in Nat, EnOrden(m, L), NEW e \in -1 .. L
    PROVE  Salta(m, irAlLabel(m, e), e, L)
<1>1. PICK r : r = irAlLabel(m, e)
  OBVIOUS
<1>2. m \in Maquina /\ m.error \in BOOLEAN
  BY EsMaquina DEF EnOrden, Sano
<1>3. CASE m.error
  <2>1. r = m
    BY <1>1, <1>3 DEF irAlLabel
  <2> QED
    BY <1>1, <1>3, <2>1 DEF Salta, SigueMal, MismaPila
<1>4. CASE ~m.error /\ e = -1
  <2>1. r = Falla(m, "FINALIZAR_ERROR_SIN_DEFINICION")
    BY <1>1, <1>4 DEF irAlLabel
  <2>2. /\ r \in Maquina /\ MismaPila(r, m) /\ r.pc = m.pc
        /\ r.error /\ r.exit_code = "FINALIZAR_ERROR_SIN_DEFINICION" /\ r.desviado = m.desviado
    BY <1>2, <2>1, FallaHace DEF CodigosDeFin
  <2>3. EnOrden(r, L)
    BY <2>2, EnOrdenIgual DEF EnOrden, Sano
  <2> QED
    BY <1>1, <1>4, <2>2, <2>3 DEF Salta, SigueMal
<1>5. CASE ~m.error /\ e # -1
  <2>1. r = [m EXCEPT !.pc = e] /\ e \in 0 .. L /\ e \in Int
    BY <1>1, <1>5 DEF irAlLabel
  <2>2. /\ r \in Maquina /\ r.pc = e /\ r.error = m.error /\ r.exit_code = m.exit_code
        /\ r.desviado = m.desviado /\ MismaPila(r, m)
    BY <1>2, <2>1 DEF Maquina, MismaPila
  <2>3. EnOrden(r, L)
    BY <2>1, <2>2, EnOrdenIgual DEF EnOrden, Sano
  <2> QED
    BY <1>1, <1>5, <2>2, <2>3 DEF Salta, SigueMal
<1> QED
  BY <1>2, <1>3, <1>4, <1>5

EntradaNueva(pc, destino) ==
    [argumentos |-> <<>>, variables |-> <<>>, pos_retorno |-> pc, pos_var_retorno |-> destino]

LEMMA EsEntradaNueva ==
    ASSUME NEW pc \in Int, NEW destino \in Int
    PROVE  LET e == EntradaNueva(pc, destino) IN
           /\ e \in Entrada /\ DOMAIN e.variables = {} /\ DOMAIN e.argumentos = {}
           /\ e.pos_retorno = pc /\ e.pos_var_retorno = destino
<1>1. /\ <<>> \in Seq(Posicion) /\ <<>> \in Seq(Variable)
  BY EmptySeq
<1>2. DOMAIN <<>> = {}
  OBVIOUS
<1> QED
  BY <1>1, <1>2 DEF EntradaNueva, Entrada

LEMMA ApilaHace ==
    ASSUME NEW m, NEW L, EnOrden(m, L), NEW destino \in Int,
           m.desviado \/ (m.indice_stack # <<>> /\ destino \in Direcciones \cup {SinDestino})
    PROVE  LET r == Apila(m, destino) IN
           /\ EnOrden(r, L) /\ r.pc = m.pc /\ r.error = m.error /\ r.exit_code = m.exit_code
           /\ r.desviado = m.desviado /\ r.memoria = m.memoria /\ r.fin_stack = m.fin_stack
           /\ r.indice_stack = Append(m.indice_stack, EntradaNueva(m.pc, destino))
<1>1. m \in Maquina /\ m.pc \in Int /\ m.pc \in 0 .. L
  BY EsMaquina DEF EnOrden, Sano
<1>2. PICK ind \in Seq(Entrada) : ind = m.indice_stack
  BY <1>1, EsMaquina
<1>3. PICK e \in Entrada : /\ e = EntradaNueva(m.pc, destino)
                           /\ DOMAIN e.variables = {} /\ DOMAIN e.argumentos = {}
                           /\ e.pos_retorno = m.pc /\ e.pos_var_retorno = destino
  BY <1>1, EsEntradaNueva
<1>4. PICK nueva : nueva = Append(ind, e)
  OBVIOUS
<1>5. ConUltima(ind, nueva, e)
  BY <1>4, AppendHace
<1>6. nueva \in Seq(Entrada) /\ DOMAIN nueva = 1 .. Len(ind) + 1
  BY <1>5 DEF ConUltima
<1>7. Propias(nueva, m.fin_stack)
  BY <1>2, <1>3, <1>5, PropiasConUltima DEF EnOrden, Sano
<1>8. DOMAIN ind = 1 .. Len(ind) /\ Len(ind) \in Nat /\ (ind # <<>> => Len(ind) >= 1)
  BY Entradas
<1>9. ASSUME NEW i \in DOMAIN nueva
      PROVE  (i \in DOMAIN ind /\ nueva[i] = ind[i]) \/ (i = Len(ind) + 1 /\ nueva[i] = e)
  BY <1>5, <1>6, <1>8 DEF ConUltima
<1>10. Retornos(nueva, L)
  BY <1>1, <1>2, <1>3, <1>9 DEF EnOrden, Sano, Retornos
<1>11. ~m.desviado => Destinos(nueva)
  <2>1. ASSUME ~m.desviado, NEW i \in DOMAIN nueva, i = Len(ind) + 1, nueva[i] = e
        PROVE  i > 1 /\ nueva[i].pos_var_retorno \in Direcciones \cup {SinDestino}
    BY <1>2, <1>3, <1>8, <2>1
  <2> QED
    BY <1>2, <1>9, <2>1 DEF EnOrden, Destinos
<1>12. PICK r : r = Apila(m, destino)
  OBVIOUS
<1>13. r = [m EXCEPT !.indice_stack = nueva]
  BY <1>2, <1>3, <1>4, <1>12 DEF Apila, EntradaNueva
<1>14. /\ r \in Maquina /\ r.pc = m.pc /\ r.error = m.error /\ r.exit_code = m.exit_code
       /\ r.desviado = m.desviado /\ r.memoria = m.memoria /\ r.fin_stack = m.fin_stack
       /\ r.indice_stack = nueva
  BY <1>1, <1>6, <1>13 DEF Maquina
<1>15. EnOrden(r, L)
  BY <1>7, <1>10, <1>11, <1>14 DEF EnOrden, Sano
<1> QED
  BY <1>2, <1>3, <1>4, <1>12, <1>14, <1>15

Llama(m, r, e, destino, L) ==
    /\ EnOrden(r, L) /\ SigueMal(r, m) /\ r.memoria = m.memoria /\ r.fin_stack = m.fin_stack
    /\ ~m.error =>
        \/ e = -1 /\ r.error /\ r.exit_code = "FINALIZAR_ERROR_SIN_DEFINICION"
        \/ /\ e # -1 /\ ~r.error /\ r.exit_code = m.exit_code
           /\ r.desviado = m.desviado /\ r.pc = e
           /\ r.indice_stack = Append(m.indice_stack, EntradaNueva(m.pc, destino))

LEMMA Llamar ==
    ASSUME NEW m, NEW L \in Nat, EnOrden(m, L), NEW e \in -1 .. L, NEW destino \in Int,
           ~m.error => \/ m.desviado
                       \/ m.indice_stack # <<>> /\ destino \in Direcciones \cup {SinDestino}
    PROVE  Llama(m, IF m.error THEN m ELSE irAlLabel(Apila(m, destino), e), e, destino, L)
<1>1. m \in Maquina /\ m.error \in BOOLEAN
  BY EsMaquina DEF EnOrden, Sano
<1>2. CASE m.error
  BY <1>2 DEF Llama, SigueMal
<1>3. CASE ~m.error
  <2>1. PICK a, r : a = Apila(m, destino) /\ r = irAlLabel(a, e)
    OBVIOUS
  <2>2. /\ EnOrden(a, L) /\ a.pc = m.pc /\ a.error = m.error /\ a.exit_code = m.exit_code
        /\ a.desviado = m.desviado /\ a.memoria = m.memoria /\ a.fin_stack = m.fin_stack
        /\ a.indice_stack = Append(m.indice_stack, EntradaNueva(m.pc, destino))
    BY <1>3, <2>1, ApilaHace
  <2>3. Salta(a, r, e, L)
    BY <2>1, <2>2, IrAlLabel
  <2> QED
    BY <1>3, <2>1, <2>2, <2>3 DEF Llama, Salta, SigueMal, MismaPila
<1> QED
  BY <1>1, <1>2, <1>3

LEMMA DesapilaHace ==
    ASSUME NEW m, NEW L, Sano(m, L), m.indice_stack # <<>>
    PROVE  LET r == Desapila(m) IN
           /\ Sano(r, L) /\ r.pc = m.pc /\ r.error = m.error /\ r.exit_code = m.exit_code
           /\ r.desviado = m.desviado /\ r.memoria = m.memoria /\ r.fin_stack = m.fin_stack
           /\ r.indice_stack = Front(m.indice_stack)
           /\ Destinos(m.indice_stack) => Destinos(r.indice_stack)
<1>1. m \in Maquina
  BY DEF Sano
<1>2. PICK ind \in Seq(Entrada) : ind = m.indice_stack
  BY <1>1, EsMaquina
<1>3. PICK nueva : nueva = Front(ind)
  OBVIOUS
<1>4. SinUltima(ind, nueva)
  BY <1>2, <1>3, FrontHace
<1>5. nueva \in Seq(Entrada) /\ DOMAIN nueva \subseteq DOMAIN ind /\ \A i \in DOMAIN nueva : nueva[i] = ind[i]
  BY <1>4, Entradas DEF SinUltima
<1>6. Propias(nueva, m.fin_stack)
  BY <1>2, <1>4, PropiasSinUltima DEF Sano
<1>7. Retornos(nueva, L)
  BY <1>2, <1>5 DEF Sano, Retornos
<1>8. Destinos(ind) => Destinos(nueva)
  BY <1>5 DEF Destinos
<1>9. PICK r : r = Desapila(m)
  OBVIOUS
<1>10. r = [m EXCEPT !.indice_stack = nueva]
  BY <1>2, <1>3, <1>9 DEF Desapila
<1>11. /\ r \in Maquina /\ r.pc = m.pc /\ r.error = m.error /\ r.exit_code = m.exit_code
       /\ r.desviado = m.desviado /\ r.memoria = m.memoria /\ r.fin_stack = m.fin_stack
       /\ r.indice_stack = nueva
  BY <1>1, <1>5, <1>10 DEF Maquina
<1>12. Sano(r, L)
  BY <1>6, <1>7, <1>11 DEF Sano
<1> QED
  BY <1>2, <1>3, <1>8, <1>9, <1>11, <1>12

LEMMA AsignarSano ==
    ASSUME NEW m, NEW L, Sano(m, L), NEW dir, NEW v \in Int
    PROVE  Sano(asignar(m, dir, v), L) /\ Asigna(m, asignar(m, dir, v), dir, v)
<1>1. PICK r : r = asignar(m, dir, v)
  OBVIOUS
<1>2. Asigna(m, r, dir, v)
  BY <1>1, AsignarHace DEF Sano
<1>3. Sano(r, L)
  BY <1>2 DEF Sano, Asigna
<1> QED
  BY <1>1, <1>2, <1>3

(* retornar: with an error the memory stays.                               *)
Retorna(m, r, v) ==
    LET dir == Cima(m).pos_var_retorno IN
    /\ r.pc = m.pc /\ r.fin_stack = m.fin_stack
    /\ m.desviado => r.desviado
    /\ m.error => r.error
    /\ \/ r.desviado /\ r.error
       \/ r = m /\ m.indice_stack # <<>> /\ dir = SinDestino
       \/ /\ m.indice_stack # <<>> /\ dir # SinDestino
          /\ r.indice_stack = Front(m.indice_stack)
          /\ Destinos(m.indice_stack) => Destinos(r.indice_stack)
          /\ m.error => r.exit_code = m.exit_code
          /\ r.error => r.memoria = m.memoria
          /\ ~m.error /\ dir = 0 => r.desviado \/ ~r.error
          /\ ~m.error /\ dir \in Direcciones =>
                /\ ~r.error /\ r.exit_code = m.exit_code /\ r.desviado = m.desviado
                /\ r.memoria = [m.memoria EXCEPT ![dir] = v]

LEMMA RetornarSano ==
    ASSUME NEW m, NEW L, Sano(m, L), NEW v \in Int
    PROVE  Sano(retornar(m, v), L) /\ Retorna(m, retornar(m, v), v)
<1>1. PICK r : r = retornar(m, v)
  OBVIOUS
<1>2. m \in Maquina
  BY DEF Sano
<1>3. CASE m.indice_stack = <<>>
  <2>1. r = Indefinido(m)
    BY <1>1, <1>3 DEF retornar
  <2>2. /\ r \in Maquina /\ MismaPila(r, m) /\ r.pc = m.pc
        /\ r.error /\ r.exit_code = "indefinido" /\ r.desviado
    BY <1>2, <2>1, IndefinidoHace
  <2>3. Sano(r, L)
    BY <2>2 DEF Sano, MismaPila
  <2> QED
    BY <1>1, <2>2, <2>3 DEF Retorna, MismaPila
<1>4. CASE m.indice_stack # <<>> /\ Cima(m).pos_var_retorno = SinDestino
  <2>1. r = m
    BY <1>1, <1>4 DEF retornar
  <2> QED
    BY <1>1, <1>4, <2>1 DEF Retorna
<1>5. CASE m.indice_stack # <<>> /\ Cima(m).pos_var_retorno # SinDestino
  <2>1. PICK dir, a : dir = Cima(m).pos_var_retorno /\ a = asignar(m, dir, v)
    OBVIOUS
  <2>2. r = Desapila(a)
    BY <1>1, <1>5, <2>1 DEF retornar
  <2>3. Sano(a, L) /\ Asigna(m, a, dir, v)
    BY <2>1, AsignarSano
  <2>4. /\ a.indice_stack = m.indice_stack /\ a.fin_stack = m.fin_stack /\ a.pc = m.pc
        /\ m.desviado => a.desviado
        /\ m.error => a.error /\ a.exit_code = m.exit_code
    BY <2>3 DEF Asigna, SigueMal
  <2>5. /\ Sano(r, L) /\ r.pc = a.pc /\ r.error = a.error /\ r.exit_code = a.exit_code
        /\ r.desviado = a.desviado /\ r.memoria = a.memoria /\ r.fin_stack = a.fin_stack
        /\ r.indice_stack = Front(a.indice_stack)
        /\ Destinos(a.indice_stack) => Destinos(r.indice_stack)
    BY <1>5, <2>2, <2>3, <2>4, DesapilaHace
  <2>6. /\ ~m.error /\ dir \in Direcciones =>
            /\ ~a.error /\ a.exit_code = m.exit_code /\ a.desviado = m.desviado
            /\ a.memoria = [m.memoria EXCEPT ![dir] = v]
        /\ ~m.error /\ dir = 0 => a.desviado \/ ~a.error
        /\ a.error => a.memoria = m.memoria
    BY <1>2, <2>3, EsMaquina DEF Asigna
  <2> QED
    BY <1>1, <1>5, <2>1, <2>4, <2>5, <2>6 DEF Retorna
<1> QED
  BY <1>3, <1>4, <1>5

(* finalizar: the destination gets the value it has. *)
Finaliza(m, r, L) ==
    /\ EnOrden(r, L)
    /\ m.desviado => r.desviado
    /\ ~m.error =>
        \/ r.desviado
        \/ /\ m.indice_stack # <<>> /\ ~r.error /\ r.exit_code = m.exit_code
           /\ r.memoria = m.memoria /\ r.fin_stack = m.fin_stack
           /\ r.indice_stack = Front(m.indice_stack)
           /\ r.pc = IF Len(m.indice_stack) = 1 THEN m.pc ELSE Cima(m).pos_retorno

LEMMA Desapilada ==
    ASSUME NEW m, NEW L, EnOrden(m, L), m.indice_stack # <<>>
    PROVE  EnOrden(Desapila(m), L)
<1>1. PICK r : r = Desapila(m)
  OBVIOUS
<1>2. /\ Sano(r, L) /\ r.desviado = m.desviado /\ r.memoria = m.memoria
      /\ r.fin_stack = m.fin_stack /\ (Destinos(m.indice_stack) => Destinos(r.indice_stack))
  BY <1>1, DesapilaHace DEF EnOrden
<1> QED
  BY <1>1, <1>2 DEF EnOrden

LEMMA ConPc ==
    ASSUME NEW m, NEW L \in Nat, EnOrden(m, L), NEW pc \in 0 .. L
    PROVE  LET r == [m EXCEPT !.pc = pc] IN
           /\ EnOrden(r, L) /\ MismaPila(r, m) /\ r.pc = pc /\ r.error = m.error
           /\ r.exit_code = m.exit_code /\ r.desviado = m.desviado
<1>1. PICK r : r = [m EXCEPT !.pc = pc]
  OBVIOUS
<1>2. pc \in Int /\ m \in Maquina
  BY DEF EnOrden, Sano
<1>3. /\ r \in Maquina /\ MismaPila(r, m) /\ r.pc = pc /\ r.error = m.error
      /\ r.exit_code = m.exit_code /\ r.desviado = m.desviado
  BY <1>1, <1>2 DEF Maquina, MismaPila
<1>4. EnOrden(r, L)
  BY <1>3, EnOrdenIgual DEF EnOrden, Sano
<1> QED
  BY <1>1, <1>3, <1>4

LEMMA Finalizar ==
    ASSUME NEW m, NEW L \in Nat, EnOrden(m, L)
    PROVE  Finaliza(m, finalizar(m), L)
<1>1. PICK r : r = finalizar(m)
  OBVIOUS
<1>2. m \in Maquina /\ m.error \in BOOLEAN /\ m.desviado \in BOOLEAN
  BY EsMaquina DEF EnOrden, Sano
<1>3. PICK ind \in Seq(Entrada) : ind = m.indice_stack
  BY <1>2, EsMaquina
<1>4. CASE m.error
  <2>1. r = m
    BY <1>1, <1>4 DEF finalizar
  <2> QED
    BY <1>1, <1>4, <2>1 DEF Finaliza
<1>5. CASE ~m.error /\ ind = <<>>
  <2>1. r = Indefinido(m)
    BY <1>1, <1>3, <1>5 DEF finalizar
  <2>2. /\ r \in Maquina /\ MismaPila(r, m) /\ r.pc = m.pc
        /\ r.error /\ r.exit_code = "indefinido" /\ r.desviado
    BY <1>2, <2>1, IndefinidoHace
  <2>3. EnOrden(r, L)
    BY <2>2, EnOrdenIgual DEF EnOrden, Sano
  <2> QED
    BY <1>1, <2>2, <2>3 DEF Finaliza
<1>6. CASE ~m.error /\ ind # <<>> /\ Len(ind) = 1
  <2>1. r = Desapila(m)
    BY <1>1, <1>3, <1>6 DEF finalizar
  <2>2. EnOrden(r, L)
    BY <1>3, <1>6, <2>1, Desapilada
  <2>3. /\ r.pc = m.pc /\ r.error = m.error /\ r.exit_code = m.exit_code
        /\ r.desviado = m.desviado /\ r.memoria = m.memoria /\ r.fin_stack = m.fin_stack
        /\ r.indice_stack = Front(m.indice_stack)
    BY <1>3, <1>6, <2>1, DesapilaHace DEF EnOrden
  <2> QED
    BY <1>1, <1>3, <1>6, <2>2, <2>3 DEF Finaliza
<1>7. CASE ~m.error /\ ind # <<>> /\ Len(ind) # 1
  <2>0. PICK k \in Nat : k = Len(ind) /\ k \in DOMAIN ind /\ k >= 1
    BY <1>7, Entradas
  <2>1. k = Len(ind) /\ k \in DOMAIN ind /\ k > 1
    BY <1>7, <2>0
  <2>2. PICK dir, pc : dir = ind[k].pos_var_retorno /\ pc = ind[k].pos_retorno
    OBVIOUS
  <2>3. pc \in 0 .. L
    BY <1>3, <2>1, <2>2 DEF EnOrden, Sano, Retornos
  <2>4. ~m.desviado => dir \in Direcciones \cup {SinDestino}
    BY <1>3, <2>1, <2>2 DEF EnOrden, Destinos
  <2>5. PICK n : n = [m EXCEPT !.pc = pc]
    OBVIOUS
  <2>6. /\ EnOrden(n, L) /\ MismaPila(n, m) /\ n.pc = pc /\ n.error = m.error
        /\ n.exit_code = m.exit_code /\ n.desviado = m.desviado
    BY <2>3, <2>5, ConPc
  <2>7. PICK v : v = dereferenciar(n, dir).ret
    OBVIOUS
  <2>8. v \in Int /\ (dir \in Direcciones => v = n.memoria[dir])
    BY <1>7, <2>6, <2>7, Dereferenciar
  <2>9. r = IF dir = SinDestino THEN Desapila(n) ELSE retornar(n, v)
    BY <1>1, <1>3, <1>7, <2>1, <2>2, <2>5, <2>7 DEF finalizar, Cima
  <2>10. n.indice_stack = ind /\ n.memoria = m.memoria /\ n.fin_stack = m.fin_stack
    BY <1>3, <2>6 DEF MismaPila
  <2>11. Cima(n).pos_var_retorno = dir /\ Cima(m).pos_retorno = pc
    BY <1>3, <2>1, <2>2, <2>10 DEF Cima
  <2>12. CASE dir = SinDestino
    <3>1. r = Desapila(n)
      BY <2>9, <2>12
    <3>2. EnOrden(r, L)
      BY <1>7, <2>6, <2>10, <3>1, Desapilada
    <3>3. /\ r.pc = n.pc /\ r.error = n.error /\ r.exit_code = n.exit_code
          /\ r.desviado = n.desviado /\ r.memoria = n.memoria /\ r.fin_stack = n.fin_stack
          /\ r.indice_stack = Front(n.indice_stack)
      BY <1>7, <2>6, <2>10, <3>1, DesapilaHace DEF EnOrden
    <3> QED
      BY <1>1, <1>3, <1>7, <2>6, <2>10, <2>11, <3>2, <3>3 DEF Finaliza
  <2>13. CASE dir # SinDestino
    <3>1. r = retornar(n, v)
      BY <2>9, <2>13
    <3>2. Sano(r, L) /\ Retorna(n, r, v)
      BY <2>6, <2>8, <3>1, RetornarSano DEF EnOrden
    <3>3. (m.desviado => r.desviado) /\ r.pc = pc /\ r.fin_stack = m.fin_stack
      BY <2>6, <2>10, <3>2 DEF Retorna
    <3>4. CASE r.desviado
      BY <1>1, <3>2, <3>3, <3>4 DEF Finaliza, EnOrden
    <3>5. CASE ~r.desviado
      <4>1. ~m.desviado /\ dir \in Direcciones
        BY <2>4, <2>13, <3>3, <3>5
      <4>3. /\ r.indice_stack = Front(n.indice_stack)
            /\ Destinos(n.indice_stack) => Destinos(r.indice_stack)
            /\ ~r.error /\ r.exit_code = n.exit_code
            /\ r.memoria = [n.memoria EXCEPT ![dir] = v]
        BY <1>7, <2>6, <2>11, <2>13, <3>2, <3>5, <4>1 DEF Retorna
      <4>4. n.memoria \in [Direcciones -> Int]
        BY <2>6, EsMaquina DEF EnOrden, Sano
      <4>5. r.memoria = n.memoria
        BY <2>8, <4>1, <4>3, <4>4
      <4>6. Destinos(n.indice_stack) /\ EnBlanco(n.memoria, n.fin_stack)
        BY <2>6, <4>1 DEF EnOrden
      <4>7. EnOrden(r, L)
        BY <2>10, <3>2, <3>3, <4>3, <4>5, <4>6 DEF EnOrden
      <4> QED
        BY <1>1, <1>3, <1>7, <2>1, <2>6, <2>10, <2>11, <3>3, <4>3, <4>5, <4>7 DEF Finaliza
    <3> QED
      BY <3>4, <3>5
  <2> QED
    BY <2>12, <2>13
<1> QED
  BY <1>2, <1>4, <1>5, <1>6, <1>7

-----------------------------------------------------------------------------
(* The lines. *)

(* The variable of that name has value v; nothing else changes.            *)
Guardo(m, r, id, v) ==
    /\ HayVariable(m.indice_stack, id)
    /\ ~r.error /\ r.exit_code = m.exit_code /\ r.pc = m.pc
    /\ r.fin_stack = m.fin_stack /\ r.indice_stack = m.indice_stack
    /\ r.memoria = [m.memoria EXCEPT ![Logica(PosDe(m.indice_stack, id))] = v]
(* The line stops the program, that has no such variable.                  *)
NoEsta(m, r, id) ==
    /\ ~HayVariable(m.indice_stack, id)
    /\ r.error /\ r.exit_code = "FINALIZAR_EXCEPCION_MEMORIA"

LEMMA AsignarVariable ==
    ASSUME NEW m, NEW L, EnOrden(m, L), ~m.error, NEW id \in Letras \cup Digitos,
           HayVariable(m.indice_stack, id), NEW v \in Int
    PROVE  LET r == asignar(m, Logica(PosDe(m.indice_stack, id)), v) IN
           EnOrden(r, L) /\ Guardo(m, r, id, v)
<1>1. PICK dir, r : dir = Logica(PosDe(m.indice_stack, id)) /\ r = asignar(m, dir, v)
  OBVIOUS
<1>2. dir \in Direcciones /\ dir < Logica(m.fin_stack)
  BY <1>1, DireccionDe
<1>3. dir \in Int
  BY <1>2, Tamanios DEF Direcciones
<1>4. EnOrden(r, L)
  BY <1>1, <1>2, <1>3, AsignarEnOrden
<1>5. Asigna(m, r, dir, v)
  BY <1>1, AsignarHace DEF EnOrden, Sano
<1> QED
  BY <1>1, <1>2, <1>4, <1>5 DEF Asigna, Guardo

(* Where nothing is promised, and what was wrong stays.                    *)
LEMMA AsignarIgual ==
    ASSUME NEW m, NEW L, EnOrden(m, L), NEW dir, NEW v \in Int, m.desviado \/ m.error
    PROVE  LET r == asignar(m, dir, v) IN EnOrden(r, L) /\ SigueMal(r, m)
<1>1. PICK r : r = asignar(m, dir, v)
  OBVIOUS
<1>2. EnOrden(r, L)
  BY <1>1, AsignarEnOrden
<1>3. SigueMal(r, m)
  BY <1>1, AsignarHace DEF EnOrden, Sano, Asigna
<1> QED
  BY <1>1, <1>2, <1>3

Constante(m, r, id, L) ==
    /\ EnOrden(r, L)
    /\ r.desviado \/ NoEsta(m, r, id) \/ Guardo(m, r, id, 2)

LEMMA LineaConstante ==
    ASSUME NEW m, NEW L \in Nat, EnOrden(m, L), ~m.error, NEW id \in Letras \cup Digitos, NEW b \in Int
    PROVE  LET x == obtenerPosicionVariable(m, id, b) IN Constante(m, asignar(x, x.ret, 2), id, L)
<1>1. PICK x : x = obtenerPosicionVariable(m, id, b)
  OBVIOUS
<1>2. PICK r : r = asignar(x, x.ret, 2)
  OBVIOUS
<1>3. Obtiene(m, x, id, L)
  BY <1>1, ObtenerPosicion
<1>4. EnOrden(x, L) /\ x.indice_stack = m.indice_stack
  BY <1>3 DEF Obtiene, MismaPila
<1>5. CASE x.desviado
  <2>1. EnOrden(r, L) /\ SigueMal(r, x)
    BY <1>2, <1>4, <1>5, AsignarIgual
  <2> QED
    BY <1>1, <1>2, <1>5, <2>1 DEF Constante, SigueMal
<1>6. CASE /\ ~HayVariable(m.indice_stack, id)
           /\ x.error /\ x.exit_code = "FINALIZAR_EXCEPCION_MEMORIA"
  <2>1. EnOrden(r, L) /\ SigueMal(r, x)
    BY <1>2, <1>4, <1>6, AsignarIgual
  <2> QED
    BY <1>1, <1>2, <1>6, <2>1 DEF Constante, SigueMal, NoEsta
<1>7. CASE /\ HayVariable(m.indice_stack, id) /\ Igual(x, m)
           /\ x.ret = Logica(PosDe(m.indice_stack, id))
  <2>1. EnOrden(r, L) /\ Guardo(x, r, id, 2)
    BY <1>2, <1>4, <1>7, AsignarVariable DEF Igual
  <2>2. Guardo(m, r, id, 2)
    BY <1>7, <2>1 DEF Guardo, Igual, MismaPila
  <2> QED
    BY <1>1, <1>2, <2>1, <2>2 DEF Constante
<1> QED
  BY <1>3, <1>5, <1>6, <1>7 DEF Obtiene

(* The value of a variable, in the machine it leaves.                      *)
Lee(m, v, id, L) ==
    /\ EnOrden(v, L) /\ SigueMal(v, m) /\ MismaPila(v, m) /\ v.pc = m.pc /\ v.ret \in Int
    /\ ~m.error =>
        \/ v.desviado
        \/ NoEsta(m, v, id)
        \/ /\ HayVariable(m.indice_stack, id) /\ Igual(v, m)
           /\ v.ret = m.memoria[Logica(PosDe(m.indice_stack, id))]

LEMMA LeerVariable ==
    ASSUME NEW m, NEW L, EnOrden(m, L), NEW id \in Letras \cup Digitos, NEW b \in Int
    PROVE  LET y == obtenerPosicionVariable(m, id, b) IN Lee(m, dereferenciar(y, y.ret), id, L)
<1>1. PICK y : y = obtenerPosicionVariable(m, id, b)
  OBVIOUS
<1>2. PICK v : v = dereferenciar(y, y.ret)
  OBVIOUS
<1>3. Obtiene(m, y, id, L)
  BY <1>1, ObtenerPosicion
<1>4. EnOrden(y, L) /\ SigueMal(y, m) /\ MismaPila(y, m) /\ y.pc = m.pc
  BY <1>3 DEF Obtiene
<1>5. /\ EnOrden(v, L) /\ Igual(v, y) /\ v.ret \in Int
      /\ ~y.error /\ y.ret \in Direcciones => v.ret = y.memoria[y.ret]
  BY <1>2, <1>4, Dereferenciar
<1>6. EnOrden(v, L) /\ SigueMal(v, m) /\ MismaPila(v, m) /\ v.pc = m.pc /\ v.ret \in Int
  BY <1>4, <1>5 DEF Igual, SigueMal, MismaPila
<1>7. CASE m.error
  BY <1>1, <1>2, <1>6, <1>7 DEF Lee
<1>8. CASE y.desviado
  BY <1>1, <1>2, <1>5, <1>6, <1>8 DEF Lee, Igual
<1>9. CASE /\ ~HayVariable(m.indice_stack, id)
           /\ y.error /\ y.exit_code = "FINALIZAR_EXCEPCION_MEMORIA"
  BY <1>1, <1>2, <1>5, <1>6, <1>9 DEF Lee, Igual, NoEsta
<1>10. CASE /\ HayVariable(m.indice_stack, id) /\ Igual(y, m) /\ ~m.error
            /\ y.ret = Logica(PosDe(m.indice_stack, id))
  <2>1. y.ret \in Direcciones
    BY <1>10, DireccionDe
  <2>2. v.ret = m.memoria[Logica(PosDe(m.indice_stack, id))]
    BY <1>5, <1>10, <2>1 DEF Igual, MismaPila
  <2>3. Igual(v, m)
    BY <1>5, <1>10 DEF Igual, MismaPila
  <2> QED
    BY <1>1, <1>2, <1>6, <1>10, <2>2, <2>3 DEF Lee
<1> QED
  BY <1>3, <1>7, <1>8, <1>9, <1>10 DEF Obtiene

Copio(m, r, id, de, L) ==
    /\ EnOrden(r, L)
    /\ \/ r.desviado
       \/ NoEsta(m, r, id)
       \/ NoEsta(m, r, de)
       \/ /\ HayVariable(m.indice_stack, de)
          /\ Guardo(m, r, id, m.memoria[Logica(PosDe(m.indice_stack, de))])

LEMMA LineaCopia ==
    ASSUME NEW m, NEW L \in Nat, EnOrden(m, L), ~m.error,
           NEW id \in Letras \cup Digitos, NEW de \in Letras \cup Digitos, NEW b \in Int
    PROVE  LET x == obtenerPosicionVariable(m, id, b)
               y == obtenerPosicionVariable(x, de, b)
               v == dereferenciar(y, y.ret)
           IN Copio(m, asignar(v, x.ret, v.ret), id, de, L)
<1>1. PICK x : x = obtenerPosicionVariable(m, id, b)
  OBVIOUS
<1>2. PICK y : y = obtenerPosicionVariable(x, de, b)
  OBVIOUS
<1>3. PICK v : v = dereferenciar(y, y.ret)
  OBVIOUS
<1>4. PICK r : r = asignar(v, x.ret, v.ret)
  OBVIOUS
<1>5. Obtiene(m, x, id, L)
  BY <1>1, ObtenerPosicion
<1>6. EnOrden(x, L)
  BY <1>5 DEF Obtiene
<1>7. Lee(x, v, de, L)
  BY <1>2, <1>3, <1>6, LeerVariable
<1>8. EnOrden(v, L) /\ SigueMal(v, x) /\ MismaPila(v, x) /\ v.ret \in Int
  BY <1>7 DEF Lee
<1>9. v.desviado \/ v.error => EnOrden(r, L) /\ SigueMal(r, v)
  BY <1>4, <1>8, AsignarIgual
<1>10. SUFFICES Copio(m, r, id, de, L)
  BY <1>1, <1>2, <1>3, <1>4
<1>11. CASE v.desviado
  BY <1>9, <1>11 DEF Copio, SigueMal
<1>12. CASE /\ ~HayVariable(m.indice_stack, id)
            /\ x.error /\ x.exit_code = "FINALIZAR_EXCEPCION_MEMORIA"
  BY <1>8, <1>9, <1>12 DEF Copio, SigueMal, NoEsta
<1>13. CASE /\ HayVariable(m.indice_stack, id) /\ Igual(x, m)
            /\ x.ret = Logica(PosDe(m.indice_stack, id)) /\ ~v.desviado
  <2>1. CASE NoEsta(x, v, de)
    <3>1. NoEsta(m, v, de)
      BY <1>13, <2>1 DEF NoEsta, Igual, MismaPila
    <3> QED
      BY <1>9, <3>1 DEF Copio, SigueMal, NoEsta
  <2>2. CASE /\ HayVariable(x.indice_stack, de) /\ Igual(v, x)
             /\ v.ret = x.memoria[Logica(PosDe(x.indice_stack, de))]
    <3>1. /\ Igual(v, m) /\ HayVariable(m.indice_stack, de)
          /\ v.ret = m.memoria[Logica(PosDe(m.indice_stack, de))]
      BY <1>13, <2>2 DEF Igual, MismaPila
    <3>2. /\ v.indice_stack = m.indice_stack /\ ~v.error
      BY <3>1 DEF Igual, MismaPila
    <3>3. EnOrden(r, L) /\ Guardo(v, r, id, v.ret)
      BY <1>4, <1>8, <1>13, <3>2, AsignarVariable
    <3>4. Guardo(m, r, id, v.ret)
      BY <3>1, <3>3 DEF Guardo, Igual, MismaPila
    <3> QED
      BY <3>1, <3>3, <3>4 DEF Copio
  <2>3. ~x.error
    BY <1>13 DEF Igual
  <2> QED
    BY <1>7, <1>13, <2>1, <2>2, <2>3 DEF Lee
<1>14. CASE x.desviado
  BY <1>8, <1>11, <1>14 DEF SigueMal
<1> QED
  BY <1>5, <1>11, <1>12, <1>13, <1>14 DEF Obtiene

(* The entry of a function with one argument, and where the argument is.   *)
Invoco(m, r, e, de) ==
    /\ HayVariable(m.indice_stack, de) /\ e # -1 /\ DeLaPila(m.fin_stack)
    /\ ~r.error /\ r.exit_code = m.exit_code /\ r.pc = e
    /\ r.indice_stack =
          EnLaCima(Append(m.indice_stack, EntradaNueva(m.pc, SinDestino)), "0", m.fin_stack)
    /\ r.memoria = [m.memoria EXCEPT ![Logica(m.fin_stack)] =
                        m.memoria[Logica(PosDe(m.indice_stack, de))]]
SinEtiqueta(m, r, e, id) ==
    /\ HayVariable(m.indice_stack, id) /\ e = -1
    /\ r.error /\ r.exit_code = "FINALIZAR_ERROR_SIN_DEFINICION"
SinLugar(m, r, e, id) ==
    /\ HayVariable(m.indice_stack, id) /\ e # -1
    /\ r.error /\ r.exit_code = "FINALIZAR_STACK_OVERFLOW"
Llamo(m, r, e, de, L) ==
    /\ EnOrden(r, L)
    /\ \/ r.desviado
       \/ NoEsta(m, r, de)
       \/ SinEtiqueta(m, r, e, de)
       \/ SinLugar(m, r, e, de)
       \/ Invoco(m, r, e, de)

LEMMA LineaLlamada ==
    ASSUME NEW m, NEW L \in Nat, EnOrden(m, L), ~m.error,
           NEW e \in -1 .. L, NEW de \in Letras \cup Digitos, NEW b \in Int
    PROVE  LET y == obtenerPosicionVariable(m, de, b)
               v == dereferenciar(y, y.ret)
               f == definirVariable(llamarSinRetorno(v, e), "0")
           IN Llamo(m, asignar(f, f.ret, v.ret), e, de, L)
<1>1. PICK y : y = obtenerPosicionVariable(m, de, b)
  OBVIOUS
<1>2. PICK v : v = dereferenciar(y, y.ret)
  OBVIOUS
<1>3. PICK s : s = llamarSinRetorno(v, e)
  OBVIOUS
<1>4. PICK f : f = definirVariable(s, "0")
  OBVIOUS
<1>5. PICK r : r = asignar(f, f.ret, v.ret)
  OBVIOUS
<1>6. SUFFICES Llamo(m, r, e, de, L)
  BY <1>1, <1>2, <1>3, <1>4, <1>5
<1>7. Lee(m, v, de, L)
  BY <1>1, <1>2, LeerVariable
<1>8. EnOrden(v, L) /\ v.ret \in Int /\ v.indice_stack = m.indice_stack
  BY <1>7 DEF Lee, MismaPila
<1>9. Llama(v, s, e, SinDestino, L)
  <2>1. ~v.error => v.desviado \/ v.indice_stack # <<>>
    BY <1>7 DEF Lee, MismaPila, NoEsta, HayVariable
  <2>2. SinDestino \in Int
    BY DEF SinDestino
  <2>3. Llama(v, IF v.error THEN v ELSE irAlLabel(Apila(v, SinDestino), e), e, SinDestino, L)
    BY <1>8, <2>1, <2>2, Llamar
  <2> QED
    BY <1>3, <2>3 DEF llamarSinRetorno
<1>10. EnOrden(s, L) /\ SigueMal(s, v)
  BY <1>9 DEF Llama
<1>11. Define(s, f, "0", L)
  BY <1>4, <1>10, DefinirVariable
<1>12. EnOrden(f, L) /\ SigueMal(f, s)
  BY <1>11 DEF Define
<1>13. f.desviado \/ f.error => EnOrden(r, L) /\ SigueMal(r, f)
  BY <1>5, <1>8, <1>12, AsignarIgual
<1>14. CASE f.desviado
  BY <1>13, <1>14 DEF Llamo, SigueMal
<1>15. CASE NoEsta(m, v, de)
  BY <1>10, <1>12, <1>13, <1>15 DEF Llamo, SigueMal, NoEsta
<1>16. CASE /\ HayVariable(m.indice_stack, de) /\ Igual(v, m) /\ ~f.desviado
            /\ v.ret = m.memoria[Logica(PosDe(m.indice_stack, de))]
  <2>1. ~v.error /\ ~s.desviado
    BY <1>12, <1>16 DEF Igual, SigueMal
  <2>2. CASE e = -1 /\ s.error /\ s.exit_code = "FINALIZAR_ERROR_SIN_DEFINICION"
    BY <1>12, <1>13, <1>16, <2>2 DEF Llamo, SigueMal, SinEtiqueta
  <2>3. CASE /\ e # -1 /\ ~s.error /\ s.exit_code = v.exit_code /\ s.pc = e
             /\ s.indice_stack = Append(v.indice_stack, EntradaNueva(v.pc, SinDestino))
    <3>1. CASE f.error /\ f.exit_code = "FINALIZAR_STACK_OVERFLOW"
      BY <1>13, <1>16, <2>3, <3>1 DEF Llamo, SigueMal, SinLugar
    <3>2. CASE /\ ~f.error /\ f.exit_code = s.exit_code
               /\ DeLaPila(s.fin_stack)
               /\ f.indice_stack = EnLaCima(s.indice_stack, "0", s.fin_stack)
               /\ f.memoria = s.memoria
               /\ f.ret = Logica(s.fin_stack)
      <4>1. f.ret \in Int /\ f.ret < Logica(f.fin_stack) /\ f.pc = s.pc
        BY <1>11, <3>2 DEF Define
      <4>2. EnOrden(r, L)
        BY <1>5, <1>8, <1>12, <4>1, AsignarEnOrden
      <4>3. Asigna(f, r, f.ret, v.ret)
        BY <1>5, <1>8, <1>12, AsignarHace DEF EnOrden, Sano
      <4>4. f.ret \in Direcciones
        BY <3>2, Direccion
      <4>5. /\ ~r.error /\ r.exit_code = f.exit_code /\ r.pc = f.pc
            /\ r.indice_stack = f.indice_stack
            /\ r.memoria = [f.memoria EXCEPT ![f.ret] = v.ret]
        BY <3>2, <4>3, <4>4 DEF Asigna
      <4>6. s.memoria = m.memoria /\ s.fin_stack = m.fin_stack /\ v.pc = m.pc
            /\ v.exit_code = m.exit_code
        BY <1>9, <1>16 DEF Llama, Igual, MismaPila
      <4>7. Invoco(m, r, e, de)
        BY <1>8, <1>16, <2>3, <3>2, <4>1, <4>5, <4>6 DEF Invoco
      <4> QED
        BY <4>2, <4>7 DEF Llamo
    <3> QED
      BY <1>11, <1>16, <2>3, <3>1, <3>2 DEF Define
  <2> QED
    BY <1>9, <2>1, <2>2, <2>3 DEF Llama
<1>17. CASE v.desviado
  BY <1>10, <1>12, <1>14, <1>17 DEF SigueMal
<1> QED
  BY <1>7, <1>14, <1>15, <1>16, <1>17 DEF Lee

LlamoPorValor(m, r, e, id, L) ==
    /\ EnOrden(r, L)
    /\ \/ r.desviado
       \/ NoEsta(m, r, id)
       \/ SinEtiqueta(m, r, e, id)
       \/ /\ HayVariable(m.indice_stack, id) /\ e # -1
          /\ ~r.error /\ r.exit_code = m.exit_code /\ r.pc = e /\ r.memoria = m.memoria
          /\ r.indice_stack =
                Append(m.indice_stack, EntradaNueva(m.pc, Logica(PosDe(m.indice_stack, id))))

LEMMA LineaLlamadaConRetorno ==
    ASSUME NEW m, NEW L \in Nat, EnOrden(m, L), ~m.error,
           NEW e \in -1 .. L, NEW id \in Letras \cup Digitos, NEW b \in Int
    PROVE  LET x == obtenerPosicionVariable(m, id, b)
           IN LlamoPorValor(m, llamarConRetorno(x, e, x.ret), e, id, L)
<1>1. PICK x : x = obtenerPosicionVariable(m, id, b)
  OBVIOUS
<1>2. PICK r : r = llamarConRetorno(x, e, x.ret)
  OBVIOUS
<1>3. Obtiene(m, x, id, L)
  BY <1>1, ObtenerPosicion
<1>4. EnOrden(x, L) /\ x.ret \in Int
  BY <1>3, EsMaquina DEF Obtiene, EnOrden, Sano
<1>5. ~x.error => \/ x.desviado
                  \/ x.indice_stack # <<>> /\ x.ret \in Direcciones \cup {SinDestino}
  <2>1. ASSUME HayVariable(m.indice_stack, id)
        PROVE  Logica(PosDe(m.indice_stack, id)) \in Direcciones
    BY <2>1, DireccionDe
  <2> QED
    BY <1>3, <2>1 DEF Obtiene, MismaPila, HayVariable
<1>6. Llama(x, r, e, x.ret, L)
  <2>1. Llama(x, IF x.error THEN x ELSE irAlLabel(Apila(x, x.ret), e), e, x.ret, L)
    BY <1>4, <1>5, Llamar
  <2> QED
    BY <1>2, <2>1 DEF llamarConRetorno
<1>7. EnOrden(r, L) /\ SigueMal(r, x)
  BY <1>6 DEF Llama
<1>8. CASE x.desviado
  BY <1>1, <1>2, <1>7, <1>8 DEF LlamoPorValor, SigueMal
<1>9. CASE /\ ~HayVariable(m.indice_stack, id)
           /\ x.error /\ x.exit_code = "FINALIZAR_EXCEPCION_MEMORIA"
  BY <1>1, <1>2, <1>7, <1>9 DEF LlamoPorValor, SigueMal, NoEsta
<1>10. CASE /\ HayVariable(m.indice_stack, id) /\ Igual(x, m)
            /\ x.ret = Logica(PosDe(m.indice_stack, id))
  BY <1>1, <1>2, <1>6, <1>7, <1>10 DEF LlamoPorValor, Llama, Igual, MismaPila, SinEtiqueta
<1> QED
  BY <1>3, <1>8, <1>9, <1>10 DEF Obtiene

(* return: the frame goes only where nothing is promised any more, but for *)
(* a return in main.                                                       *)
Retorno(m, r, n, id, L) ==
    /\ Sano(r, L)
    /\ ~(r.desviado \/ (r.indice_stack # n.indice_stack /\ ~r.error)) =>
         /\ EnOrden(r, L)
         /\ \/ NoEsta(m, r, id)
            \/ /\ HayVariable(m.indice_stack, id)
               /\ Cima(m).pos_var_retorno = SinDestino \/ Len(m.indice_stack) = 1
               /\ Igual(r, m)

LEMMA FrontOtra ==
    ASSUME NEW ind \in Seq(Entrada), ind # <<>>
    PROVE  Front(ind) # ind
<1>1. PICK nueva : nueva = Front(ind)
  OBVIOUS
<1>2. SinUltima(ind, nueva)
  BY <1>1, FrontHace
<1>3. Len(nueva) # Len(ind)
  BY <1>2, Entradas DEF SinUltima
<1> QED
  BY <1>1, <1>3

LEMMA LineaReturn ==
    ASSUME NEW m, NEW L \in Nat, EnOrden(m, L), ~m.error, NEW n, n.indice_stack = m.indice_stack,
           NEW id \in Letras \cup Digitos, NEW b \in Int
    PROVE  LET x == obtenerPosicionVariable(m, id, b)
               v == dereferenciar(x, x.ret)
           IN Retorno(m, retornar(v, v.ret), n, id, L)
<1>1. PICK x : x = obtenerPosicionVariable(m, id, b)
  OBVIOUS
<1>2. PICK v : v = dereferenciar(x, x.ret)
  OBVIOUS
<1>3. PICK r : r = retornar(v, v.ret)
  OBVIOUS
<1>4. SUFFICES Retorno(m, r, n, id, L)
  BY <1>1, <1>2, <1>3
<1>5. Lee(m, v, id, L)
  BY <1>1, <1>2, LeerVariable
<1>6. EnOrden(v, L) /\ v.ret \in Int /\ MismaPila(v, m) /\ v.pc = m.pc
  BY <1>5 DEF Lee
<1>7. Sano(r, L) /\ Retorna(v, r, v.ret)
  BY <1>3, <1>6, RetornarSano DEF EnOrden
<1>8. PICK ind \in Seq(Entrada) : ind = m.indice_stack
  BY EsMaquina DEF EnOrden, Sano
<1>9. v.indice_stack = ind /\ n.indice_stack = ind /\ Cima(v) = Cima(m)
  BY <1>6, <1>8 DEF MismaPila, Cima
<1>10. SUFFICES ASSUME ~r.desviado, r.indice_stack = ind \/ r.error
                PROVE  /\ EnOrden(r, L)
                       /\ \/ NoEsta(m, r, id)
                          \/ /\ HayVariable(m.indice_stack, id)
                             /\ Cima(m).pos_var_retorno = SinDestino \/ Len(m.indice_stack) = 1
                             /\ Igual(r, m)
  BY <1>7, <1>8, <1>9 DEF Retorno
<1>11. ~v.desviado /\ Destinos(ind) /\ EnBlanco(v.memoria, v.fin_stack)
  BY <1>6, <1>7, <1>9, <1>10 DEF EnOrden, Retorna
<1>12. CASE r = v /\ Cima(v).pos_var_retorno = SinDestino
  <2>1. EnOrden(r, L)
    BY <1>6, <1>12
  <2>2. NoEsta(m, r, id) \/ (HayVariable(m.indice_stack, id) /\ Igual(r, m))
    BY <1>5, <1>11, <1>12 DEF Lee
  <2> QED
    BY <1>9, <1>12, <2>1, <2>2
<1>13. CASE ind # <<>> /\ Cima(v).pos_var_retorno # SinDestino /\ r.indice_stack = Front(ind)
  <2>1. r.error
    BY <1>10, <1>13, FrontOtra
  <2>2. /\ Destinos(r.indice_stack) /\ r.memoria = v.memoria /\ r.fin_stack = v.fin_stack
    BY <1>7, <1>9, <1>10, <1>11, <1>13, <2>1, FrontOtra DEF Retorna
  <2>3. EnOrden(r, L)
    BY <1>7, <1>11, <2>2 DEF EnOrden
  <2>4. PICK k \in Nat : k = Len(ind) /\ k \in DOMAIN ind /\ k >= 1
    BY <1>13, Entradas
  <2>5. \/ Cima(v).pos_var_retorno = 0
        \/ Cima(v).pos_var_retorno \in Direcciones
    BY <1>9, <1>11, <1>13, <2>4 DEF Destinos, Cima
  <2>6. v.error
    BY <1>7, <1>10, <1>13, <1>9, <2>1, <2>5, FrontOtra DEF Retorna
  <2>7. NoEsta(m, v, id)
    BY <1>5, <1>11, <2>6 DEF Lee, Igual
  <2>8. r.exit_code = v.exit_code
    BY <1>7, <1>10, <1>13, <1>9, <2>6, FrontOtra DEF Retorna
  <2> QED
    BY <2>1, <2>3, <2>7, <2>8 DEF NoEsta
<1> QED
  BY <1>7, <1>9, <1>10, <1>12, <1>13 DEF Retorna

-----------------------------------------------------------------------------
(* The program and its PCB, in the CPU and on its trips. *)

PilaInv ==
    /\ programa \in Programas
    /\ donde \in {"Kernel", "CPU", "fin", "ilegible"}
    /\ cpu \in Maquina /\ Propias(cpu.indice_stack, cpu.fin_stack)
    /\ donde \in {"Kernel", "CPU"} => EnOrden(cpu, Len(programa.lineas))
    /\ donde = "Kernel" => ~cpu.error

LEMMA Programa ==
    ASSUME programa \in Programas
    PROVE  /\ Len(programa.lineas) \in Nat
           /\ programa.inicio \in 0 .. Len(programa.lineas)
           /\ \A k \in 1 .. Len(programa.lineas) :
                 programa.lineas[k] \in Escritas(Len(programa.lineas))
<1>1. PICK s, n : s = programa.lineas /\ n = Len(s)
  OBVIOUS
<1>2. s \in Seq(Escritas(n)) /\ programa.inicio \in 0 .. n
  BY <1>1, PilaAssumption
<1>3. n \in Nat /\ \A k \in 1 .. n : s[k] \in Escritas(n)
  BY <1>1, <1>2, LenProperties, ElementOfSeq
<1> QED
  BY <1>1, <1>2, <1>3

LEMMA QuedaHace ==
    ASSUME NEW m, NEW L, EnOrden(m, L)
    PROVE  LET r == [m EXCEPT !.ret = 0] IN EnOrden(r, L) /\ Igual(r, m)
<1>1. PICK r : r = [m EXCEPT !.ret = 0]
  OBVIOUS
<1>2. r \in Maquina /\ Igual(r, m)
  BY <1>1, ConRet DEF EnOrden, Sano
<1>3. EnOrden(r, L)
  BY <1>2, EnOrdenIgual DEF EnOrden, Sano, Igual
<1> QED
  BY <1>1, <1>2, <1>3

LEMMA Marca ==
    ASSUME NEW m, NEW L, Sano(m, L), NEW P \in BOOLEAN, ~(m.desviado \/ P) => EnOrden(m, L)
    PROVE  LET r == [m EXCEPT !.desviado = @ \/ P] IN
           /\ EnOrden(r, L) /\ MismaPila(r, m) /\ r.pc = m.pc /\ r.error = m.error
           /\ r.exit_code = m.exit_code /\ (r.desviado <=> m.desviado \/ P)
<1>1. PICK r : r = [m EXCEPT !.desviado = @ \/ P]
  OBVIOUS
<1>2. m \in Maquina
  BY DEF Sano
<1>3. PICK d \in BOOLEAN : d = (m.desviado \/ P)
  OBVIOUS
<1>4. r = [m EXCEPT !.desviado = d]
  BY <1>1, <1>3
<1>5. /\ r \in Maquina /\ MismaPila(r, m) /\ r.pc = m.pc /\ r.error = m.error
      /\ r.exit_code = m.exit_code /\ r.desviado = d
  BY <1>2, <1>4 DEF Maquina, MismaPila
<1>6. Sano(r, L)
  BY <1>5 DEF Sano, MismaPila
<1>7. EnOrden(r, L)
  <2>1. CASE d
    BY <1>5, <1>6, <2>1 DEF EnOrden
  <2>2. CASE ~d
    BY <1>3, <1>5, <1>6, <2>2 DEF EnOrden, MismaPila
  <2> QED
    BY <2>1, <2>2
<1> QED
  BY <1>1, <1>3, <1>5, <1>7

LEMMA Contestar ==
    ASSUME NEW m, NEW L, EnOrden(m, L), ~m.error, NEW op \in DOMAIN Codigos, NEW codigo \in Codigos[op]
    PROVE  LET r == Contesta(m, codigo) IN
           /\ EnOrden(r, L) /\ MismaPila(r, m) /\ r.pc = m.pc /\ r.desviado = m.desviado
           /\ IF codigo \in {"ok", "bloqueado"} THEN ~r.error /\ r.exit_code = m.exit_code
              ELSE r.error /\ r.exit_code = codigo
<1>1. PICK r : r = Contesta(m, codigo)
  OBVIOUS
<1>2. m \in Maquina
  BY DEF EnOrden, Sano
<1>3. codigo \in CodigosDeFin
  BY DEF CodigosDeFin
<1>4. codigo # "corre"
  BY DEF Codigos, waitAnsisop, signalAnsisop, obtenerValorCompartida, asignarValorCompartida,
         reservar, liberar, abrir, borrar, cerrar, moverCursor, escribir, leer
<1>5. CASE codigo = "ok"
  <2>1. r = m
    BY <1>1, <1>5 DEF Contesta
  <2> QED
    BY <1>1, <1>5, <2>1 DEF MismaPila
<1>6. CASE codigo = "bloqueado"
  <2>1. PICK v \in BOOLEAN : v = TRUE
    OBVIOUS
  <2>2. r = [m EXCEPT !.bloqueado = v]
    BY <1>1, <1>6, <2>1 DEF Contesta
  <2>3. /\ r \in Maquina /\ MismaPila(r, m) /\ r.pc = m.pc /\ r.desviado = m.desviado
        /\ r.error = m.error /\ r.exit_code = m.exit_code
    BY <1>2, <2>2 DEF Maquina, MismaPila
  <2>4. EnOrden(r, L)
    BY <2>3, EnOrdenIgual DEF EnOrden, Sano
  <2> QED
    BY <1>1, <1>6, <2>3, <2>4
<1>7. CASE codigo # "ok" /\ codigo # "bloqueado"
  <2>1. r = Falla(m, codigo)
    BY <1>1, <1>7 DEF Contesta
  <2>2. /\ r \in Maquina /\ MismaPila(r, m) /\ r.pc = m.pc
        /\ r.error /\ r.exit_code = codigo /\ r.desviado = m.desviado
    BY <1>2, <1>3, <2>1, FallaHace
  <2>3. EnOrden(r, L)
    BY <1>4, <2>2, EnOrdenIgual DEF EnOrden, Sano
  <2> QED
    BY <1>1, <1>7, <2>2, <2>3
<1> QED
  BY <1>5, <1>6, <1>7

(* A trip does not change a PCB whose counts fit.                          *)
LEMMA VuelveIgual ==
    ASSUME NEW m \in Maquina, NEW L \in Nat, m.pc \in 0 .. L, Retornos(m.indice_stack, L), Char(L) = L
    PROVE  deserializar_pcb(m) = m
<1>1. PICK ind \in Seq(Entrada) : ind = m.indice_stack
  BY EsMaquina
<1>2. ASSUME NEW i \in DOMAIN ind
      PROVE  [ind[i] EXCEPT !.pos_retorno = Char(@)] = ind[i]
  <2>1. PICK en \in Entrada : en = ind[i]
    BY Entradas
  <2>2. Char(en.pos_retorno) = en.pos_retorno
    BY <1>1, <2>1, CharFiel DEF Retornos
  <2>3. [en EXCEPT !.pos_retorno = en.pos_retorno] = en
    BY DEF Entrada
  <2> QED
    BY <2>1, <2>2, <2>3
<1>3. Leidas(ind) = [i \in DOMAIN ind |-> ind[i]]
  BY <1>2 DEF Leidas
<1>4. ind = [i \in DOMAIN ind |-> ind[i]]
  <2>1. ind \in [1 .. Len(ind) -> Entrada]
    BY LenProperties
  <2> QED
    BY <2>1
<1>5. Leidas(ind) = ind
  BY <1>3, <1>4
<1>6. PICK pc \in Int : pc = m.pc /\ Char(pc) = pc
  BY CharFiel
<1>7. [m EXCEPT !.pc = pc, !.indice_stack = ind] = m
  BY <1>1, <1>6 DEF Maquina
<1> QED
  BY <1>1, <1>5, <1>6, <1>7 DEF deserializar_pcb

LEMMA PilaInicial == Init => PilaInv
<1> SUFFICES ASSUME Init PROVE PilaInv
  OBVIOUS
<1>1. PICK L \in Nat : L = Len(programa.lineas) /\ programa.inicio \in 0 .. L
  BY Programa DEF Init
<1>2. PICK e \in Entrada : /\ e = EntradaNueva(0, 0)
                           /\ DOMAIN e.variables = {} /\ DOMAIN e.argumentos = {}
                           /\ e.pos_retorno = 0 /\ e.pos_var_retorno = 0
  BY EsEntradaNueva
<1>3. PICK ind : ind = <<e>>
  OBVIOUS
<1>4. ind \in Seq(Entrada) /\ DOMAIN ind = {1} /\ ind[1] = e
  BY <1>3
<1>5. PICK fin : fin = [pag |-> PagsCodigo, offset |-> 0]
  OBVIOUS
<1>6. fin \in Posicion /\ Limita(fin)
  <2>1. 0 % 4 = 0
    OBVIOUS
  <2> QED
    BY <1>5, <2>1, Tamanios DEF Limita, DeLaPila, Posicion
<1>7. PICK mem : mem = [d \in Direcciones |-> 0]
  OBVIOUS
<1>8. mem \in [Direcciones -> Int] /\ \A d \in Direcciones : mem[d] = 0
  BY <1>7
<1>9. PICK v \in BOOLEAN : v = FALSE
  OBVIOUS
<1>10. PICK code \in CodigosDeFin : code = "corre"
  BY DEF CodigosDeFin
<1>11. cpu = [pc |-> programa.inicio, fin_stack |-> fin, indice_stack |-> ind,
              exit_code |-> code, error |-> v, bloqueado |-> v, ret |-> 0,
              desviado |-> v, memoria |-> mem]
  BY <1>2, <1>3, <1>5, <1>7, <1>9, <1>10 DEF Init, EntradaNueva
<1>12. programa.inicio \in Int
  BY <1>1
<1>13. /\ cpu \in Maquina /\ cpu.fin_stack = fin /\ cpu.indice_stack = ind /\ cpu.memoria = mem
       /\ cpu.pc = programa.inicio /\ cpu.exit_code = code /\ cpu.error = v
  BY <1>4, <1>6, <1>8, <1>11, <1>12 DEF Maquina
<1>14. Propias(ind, fin)
  <2>1. ASSUME NEW i, NEW t, NEW k PROVE ~EsLugar(ind, i, t, k)
    BY <1>2, <1>4 DEF EsLugar
  <2> QED
    BY <2>1 DEF Propias
<1>15. Retornos(ind, L) /\ Destinos(ind) /\ EnBlanco(mem, fin)
  BY <1>2, <1>4, <1>8 DEF Retornos, Destinos, EnBlanco
<1>16. EnOrden(cpu, L)
  BY <1>1, <1>6, <1>9, <1>10, <1>13, <1>14, <1>15 DEF EnOrden, Sano
<1> QED
  BY <1>1, <1>9, <1>13, <1>14, <1>16 DEF PilaInv, Init

(* What a line finds.                                                      *)
Empieza(L, op) ==
    /\ L \in Nat /\ L = Len(programa.lineas) /\ donde = "CPU"
    /\ EnOrden(cpu, L) /\ ~cpu.error /\ cpu.pc \in 0 .. L - 1
    /\ EnOrden(Pedida, L) /\ ~Pedida.error /\ MismaPila(Pedida, cpu) /\ Pedida.pc = cpu.pc + 1
    /\ Pedida.exit_code = cpu.exit_code /\ Pedida.desviado = cpu.desviado
    /\ Sentencia.op = op /\ Sentencia.id \in Letras \cup Digitos
    /\ Sentencia.de \in Letras \cup Digitos /\ Sentencia.etiqueta \in -1 .. L
    /\ op = "variables" => Sentencia.id \in Letras

LEMMA Empezar ==
    ASSUME PilaInv, NEW op, PideLinea(op)
    PROVE  \E L : Empieza(L, op)
<1>1. PICK L \in Nat : L = Len(programa.lineas)
  BY Programa DEF PilaInv
<1>2. EnOrden(cpu, L) /\ ~cpu.error /\ donde = "CPU" /\ cpu.pc \in 0 .. L /\ cpu.pc < L
  BY <1>1 DEF PilaInv, PideLinea, EnOrden, Sano
<1>3. PICK pc \in 0 .. L : pc = cpu.pc + 1 /\ pc \in 1 .. L /\ cpu.pc \in 0 .. L - 1
  BY <1>2
<1>4. Sentencia \in Escritas(L)
  BY <1>1, <1>3, Programa DEF PilaInv, Sentencia
<1>5. /\ Sentencia.id \in Letras \cup Digitos /\ Sentencia.de \in Letras \cup Digitos
      /\ Sentencia.etiqueta \in -1 .. L
      /\ Sentencia.op = "variables" => Sentencia.id \in Letras
  BY <1>4 DEF Escritas
<1>6. PICK r : r = Pedida
  OBVIOUS
<1>7. r = [cpu EXCEPT !.pc = pc]
  BY <1>3, <1>6 DEF Pedida
<1>8. /\ EnOrden(r, L) /\ MismaPila(r, cpu) /\ r.pc = pc /\ r.error = cpu.error
      /\ r.exit_code = cpu.exit_code /\ r.desviado = cpu.desviado
  BY <1>2, <1>7, ConPc
<1>9. Sentencia.op = op
  BY DEF PideLinea
<1>10. Empieza(L, op)
  BY <1>1, <1>2, <1>3, <1>5, <1>6, <1>8, <1>9 DEF Empieza
<1> QED
  BY <1>10

LEMMA Corrida ==
    ASSUME PilaInv, donde = "CPU", NEW m, EnOrden(m, Len(programa.lineas)), Queda(m)
    PROVE  PilaInv'
<1>1. EnOrden(cpu', Len(programa.lineas))
  BY QuedaHace DEF Queda
<1>2. cpu' \in Maquina /\ Propias(cpu'.indice_stack, cpu'.fin_stack)
  BY <1>1 DEF EnOrden, Sano
<1>3. EnOrden(cpu, Len(programa.lineas))'
  BY <1>1 DEF Queda
<1> QED
  BY <1>2, <1>3 DEF PilaInv, Queda

(* A line leaves a program in order.                                       *)
LEMMA LineaEnOrden ==
    ASSUME PilaInv,
           \/ variables \/ salto \/ end \/ pedido
           \/ \E b \in Basura : constante(b) \/ copia(b) \/ llamada(b) \/ llamadaConRetorno(b) \/ return(b)
    PROVE  PilaInv'
<1>0. \A b \in Basura : b \in Int
  BY PilaAssumption
<1>1. CASE variables
  <2>1. PICK L : Empieza(L, "variables")
    BY <1>1, Empezar DEF variables
  <2>2. EnOrden(definirVariable(Pedida, Sentencia.id), L)
    BY <2>1, DefinirVariable DEF Empieza, Define
  <2> QED
    BY <1>1, <2>1, <2>2, Corrida DEF variables, Empieza
<1>2. CASE salto
  <2>1. PICK L : Empieza(L, "salto")
    BY <1>2, Empezar DEF salto
  <2>2. EnOrden(irAlLabel(Pedida, Sentencia.etiqueta), L)
    BY <2>1, IrAlLabel DEF Empieza, Salta
  <2> QED
    BY <1>2, <2>1, <2>2, Corrida DEF salto, Empieza
<1>3. CASE end
  <2>1. PICK L : Empieza(L, "end")
    BY <1>3, Empezar DEF end
  <2>2. PICK m : m = finalizar(Pedida)
    OBVIOUS
  <2>3. EnOrden(m, L)
    BY <2>1, <2>2, Finalizar DEF Empieza, Finaliza
  <2>4. PICK P \in BOOLEAN : P = (Len(cpu.indice_stack) = 1 /\ m.pc < Len(programa.lineas))
    OBVIOUS
  <2>5. EnOrden([m EXCEPT !.desviado = @ \/ P], L)
    BY <2>3, Marca DEF EnOrden
  <2>6. Queda([m EXCEPT !.desviado = @ \/ P])
    BY <1>3, <2>2, <2>4 DEF end
  <2> QED
    BY <2>1, <2>5, <2>6, Corrida DEF Empieza
<1>4. CASE pedido
  <2>1. PICK op \in DOMAIN Codigos : \E codigo \in Codigos[op] :
            PideLinea(op) /\ Queda(Contesta(Pedida, codigo))
    BY <1>4 DEF pedido
  <2>2. PICK codigo \in Codigos[op] : PideLinea(op) /\ Queda(Contesta(Pedida, codigo))
    BY <2>1
  <2>3. PICK L : Empieza(L, op)
    BY <2>2, Empezar
  <2>4. EnOrden(Contesta(Pedida, codigo), L)
    BY <2>3, Contestar DEF Empieza
  <2> QED
    BY <2>2, <2>3, <2>4, Corrida DEF Empieza
<1>5. ASSUME NEW b \in Basura, constante(b) PROVE PilaInv'
  <2>1. PICK L : Empieza(L, "constante")
    BY <1>5, Empezar DEF constante
  <2>2. PICK x : x = obtenerPosicionVariable(Pedida, Sentencia.id, b)
    OBVIOUS
  <2>3. EnOrden(asignar(x, x.ret, 2), L)
    BY <1>0, <2>1, <2>2, LineaConstante DEF Empieza, Constante
  <2> QED
    BY <1>5, <2>1, <2>2, <2>3, Corrida DEF constante, Empieza
<1>6. ASSUME NEW b \in Basura, copia(b) PROVE PilaInv'
  <2>1. PICK L : Empieza(L, "copia")
    BY <1>6, Empezar DEF copia
  <2>2. PICK x : x = obtenerPosicionVariable(Pedida, Sentencia.id, b)
    OBVIOUS
  <2>3. PICK y : y = obtenerPosicionVariable(x, Sentencia.de, b)
    OBVIOUS
  <2>4. PICK v : v = dereferenciar(y, y.ret)
    OBVIOUS
  <2>5. EnOrden(asignar(v, x.ret, v.ret), L)
    BY <1>0, <2>1, <2>2, <2>3, <2>4, LineaCopia DEF Empieza, Copio
  <2> QED
    BY <1>6, <2>1, <2>2, <2>3, <2>4, <2>5, Corrida DEF copia, Empieza
<1>7. ASSUME NEW b \in Basura, llamada(b) PROVE PilaInv'
  <2>1. PICK L : Empieza(L, "llamada")
    BY <1>7, Empezar DEF llamada
  <2>2. PICK y : y = obtenerPosicionVariable(Pedida, Sentencia.de, b)
    OBVIOUS
  <2>3. PICK v : v = dereferenciar(y, y.ret)
    OBVIOUS
  <2>4. PICK f : f = definirVariable(llamarSinRetorno(v, Sentencia.etiqueta), "0")
    OBVIOUS
  <2>5. EnOrden(asignar(f, f.ret, v.ret), L)
    BY <1>0, <2>1, <2>2, <2>3, <2>4, LineaLlamada DEF Empieza, Llamo
  <2> QED
    BY <1>7, <2>1, <2>2, <2>3, <2>4, <2>5, Corrida DEF llamada, Empieza
<1>8. ASSUME NEW b \in Basura, llamadaConRetorno(b) PROVE PilaInv'
  <2>1. PICK L : Empieza(L, "llamadaConRetorno")
    BY <1>8, Empezar DEF llamadaConRetorno
  <2>2. PICK x : x = obtenerPosicionVariable(Pedida, Sentencia.id, b)
    OBVIOUS
  <2>3. EnOrden(llamarConRetorno(x, Sentencia.etiqueta, x.ret), L)
    BY <1>0, <2>1, <2>2, LineaLlamadaConRetorno DEF Empieza, LlamoPorValor
  <2> QED
    BY <1>8, <2>1, <2>2, <2>3, Corrida DEF llamadaConRetorno, Empieza
<1>9. ASSUME NEW b \in Basura, return(b) PROVE PilaInv'
  <2>1. PICK L : Empieza(L, "return")
    BY <1>9, Empezar DEF return
  <2>2. PICK x : x = obtenerPosicionVariable(Pedida, Sentencia.id, b)
    OBVIOUS
  <2>3. PICK v : v = dereferenciar(x, x.ret)
    OBVIOUS
  <2>4. PICK m : m = retornar(v, v.ret)
    OBVIOUS
  <2>5. Retorno(Pedida, m, cpu, Sentencia.id, L)
    BY <1>0, <2>1, <2>2, <2>3, <2>4, LineaReturn DEF Empieza, MismaPila
  <2>6. PICK P \in BOOLEAN : P = (m.indice_stack # cpu.indice_stack /\ ~m.error)
    OBVIOUS
  <2>7. EnOrden([m EXCEPT !.desviado = @ \/ P], L)
    BY <2>5, <2>6, Marca DEF Retorno
  <2>8. Queda([m EXCEPT !.desviado = @ \/ P])
    BY <1>9, <2>2, <2>3, <2>4, <2>6 DEF return
  <2> QED
    BY <2>1, <2>7, <2>8, Corrida DEF Empieza
<1> QED
  BY <1>1, <1>2, <1>3, <1>4, <1>5, <1>6, <1>7, <1>8, <1>9

(* A trip keeps the PCB, or takes its error back with a code to go on or   *)
(* to end with.                                                            *)
LEMMA ViajeEnOrden ==
    ASSUME PilaInv, correrPCB \/ retornarPCB
    PROVE  /\ PilaInv' /\ programa' = programa
           /\ \/ cpu' = cpu
              \/ /\ donde = "CPU" /\ MismaPila(cpu', cpu) /\ cpu'.pc = cpu.pc
                 /\ cpu'.exit_code = codigoFinal(cpu)
<1>1. PICK L \in Nat : L = Len(programa.lineas)
  BY Programa DEF PilaInv
<1>2. EnOrden(cpu, L)
  BY <1>1 DEF PilaInv, correrPCB, retornarPCB
<1>3. /\ cpu \in Maquina /\ cpu.pc \in 0 .. L /\ Retornos(cpu.indice_stack, L)
      /\ Propias(cpu.indice_stack, cpu.fin_stack)
  BY <1>2 DEF EnOrden, Sano
<1>4. CASE correrPCB
  <2>1. CASE Legible(cpu)
    <3>1. deserializar_pcb(cpu) = cpu
      BY <1>1, <1>3, <2>1, VuelveIgual DEF Legible
    <3>2. cpu' = cpu /\ donde' = "CPU" /\ programa' = programa
      BY <1>4, <2>1, <3>1 DEF correrPCB
    <3>3. EnOrden(cpu, Len(programa.lineas))'
      BY <1>1, <1>2, <3>2
    <3> QED
      BY <3>2, <3>3 DEF PilaInv
  <2>2. CASE ~Legible(cpu)
    BY <1>4, <2>2 DEF correrPCB, PilaInv
  <2> QED
    BY <2>1, <2>2
<1>5. CASE retornarPCB
  <2>1. PICK v \in BOOLEAN : v = FALSE
    OBVIOUS
  <2>2. PICK code \in CodigosDeFin : code = codigoFinal(cpu)
    BY <1>3, EsMaquina DEF codigoFinal, CodigosDeFin
  <2>3. PICK m : m = [cpu EXCEPT !.exit_code = code, !.error = v, !.bloqueado = v]
    OBVIOUS
  <2>4. /\ m \in Maquina /\ MismaPila(m, cpu) /\ m.pc = cpu.pc /\ m.desviado = cpu.desviado
        /\ m.error = v /\ m.exit_code = code
    BY <1>3, <2>2, <2>3 DEF Maquina, MismaPila
  <2>5. /\ donde = "CPU" /\ programa' = programa
        /\ IF Legible(m)
             THEN /\ cpu' = deserializar_pcb(m)
                  /\ donde' = IF m.exit_code = "corre" THEN "Kernel" ELSE "fin"
             ELSE donde' = "ilegible" /\ cpu' = cpu
    BY <1>5, <2>1, <2>2, <2>3 DEF retornarPCB
  <2>6. CASE ~Legible(m)
    BY <2>5, <2>6 DEF PilaInv
  <2>7. CASE Legible(m)
    <3>1. m.pc \in 0 .. L /\ Retornos(m.indice_stack, L) /\ Propias(m.indice_stack, m.fin_stack)
      BY <1>3, <2>4 DEF MismaPila
    <3>2. deserializar_pcb(m) = m
      BY <1>1, <2>4, <2>7, <3>1, VuelveIgual DEF Legible
    <3>3. cpu' = m /\ donde' = IF code = "corre" THEN "Kernel" ELSE "fin"
      BY <2>4, <2>5, <2>7, <3>2
    <3>4. CASE code = "corre"
      <4>1. EnOrden(m, L)
        BY <1>2, <2>1, <2>4, <3>1, <3>4, EnOrdenIgual DEF EnOrden, Sano
      <4>2. EnOrden(cpu, Len(programa.lineas))'
        BY <1>1, <2>5, <3>3, <4>1
      <4> QED
        BY <2>1, <2>2, <2>4, <2>5, <3>1, <3>3, <3>4, <4>2 DEF PilaInv
    <3>5. CASE code # "corre"
      BY <2>2, <2>4, <2>5, <3>1, <3>3, <3>5 DEF PilaInv
    <3> QED
      BY <3>4, <3>5
  <2> QED
    BY <2>5, <2>6, <2>7
<1> QED
  BY <1>4, <1>5

(* Whatever the program does, its stack stays one its invariant describes. *)
THEOREM PilaInvariant == Spec => []PilaInv
<1>1. Init => PilaInv
  BY PilaInicial
<1>2. PilaInv /\ [Next]_vars => PilaInv'
  <2>1. ASSUME PilaInv, UNCHANGED vars PROVE PilaInv'
    BY <2>1 DEF vars, PilaInv
  <2>2. ASSUME PilaInv, Next PROVE PilaInv'
    BY <2>2, LineaEnOrden, ViajeEnOrden DEF Next
  <2> QED
    BY <2>1, <2>2
<1> QED
  BY <1>1, <1>2, PTL DEF Spec

(* Every variable and argument of the stack has four bytes of its own in   *)
(* its pages, below fin_stack, for every program and sizes of the stack    *)
(* (PrimitivasAnsisop.c:16-85).                                            *)
THEOREM EveryVariableHasItsOwnPlace == Spec => []PosicionesPropias
<1>1. PilaInv => PosicionesPropias
  <2> SUFFICES ASSUME PilaInv PROVE PosicionesPropias
    OBVIOUS
  <2>1. PICK ind : ind = cpu.indice_stack
    OBVIOUS
  <2>2. Propias(ind, cpu.fin_stack)
    BY <2>1 DEF PilaInv
  <2>3. ASSUME NEW i \in DOMAIN ind, NEW k \in DOMAIN ind[i].variables
        PROVE  EsLugar(ind, i, "v", k) /\ PosEn(ind, i, "v", k) = PosVar(i, k)
    BY <2>1, <2>3 DEF EsLugar, PosEn, PosVar
  <2>4. ASSUME NEW i \in DOMAIN ind, NEW k \in DOMAIN ind[i].argumentos
        PROVE  EsLugar(ind, i, "a", k) /\ PosEn(ind, i, "a", k) = PosArg(i, k)
    BY <2>1, <2>4 DEF EsLugar, PosEn, PosArg
  <2>5. ASSUME NEW i \in DOMAIN ind, NEW k \in DOMAIN ind[i].variables
        PROVE  /\ DeLaPila(PosVar(i, k)) /\ Antes(PosVar(i, k), cpu.fin_stack)
    BY <2>2, <2>3 DEF Propias
  <2>6. ASSUME NEW i \in DOMAIN ind, NEW k \in DOMAIN ind[i].argumentos
        PROVE  /\ DeLaPila(PosArg(i, k)) /\ Antes(PosArg(i, k), cpu.fin_stack)
    BY <2>2, <2>4 DEF Propias
  <2>7. ASSUME NEW i \in DOMAIN ind, NEW j \in DOMAIN ind,
               NEW k \in DOMAIN ind[i].variables, NEW l \in DOMAIN ind[j].variables,
               PosVar(i, k) = PosVar(j, l)
        PROVE  i = j /\ k = l
    BY <2>2, <2>3, <2>7 DEF Propias
  <2>8. ASSUME NEW i \in DOMAIN ind, NEW j \in DOMAIN ind,
               NEW k \in DOMAIN ind[i].argumentos, NEW l \in DOMAIN ind[j].argumentos,
               PosArg(i, k) = PosArg(j, l)
        PROVE  i = j /\ k = l
    BY <2>2, <2>4, <2>8 DEF Propias
  <2>9. ASSUME NEW i \in DOMAIN ind, NEW j \in DOMAIN ind,
               NEW k \in DOMAIN ind[i].variables, NEW l \in DOMAIN ind[j].argumentos
        PROVE  PosVar(i, k) # PosArg(j, l)
    <3>1. EsLugar(ind, i, "v", k) /\ EsLugar(ind, j, "a", l) /\ "v" # "a"
      BY <2>3, <2>4
    <3> QED
      BY <2>2, <2>3, <2>4, <3>1 DEF Propias
  <2>10. \A pos : DeLaPila(pos) => /\ PagsCodigo <= pos.pag /\ pos.pag < cant_pags_totales
                                   /\ pos.offset + 4 <= PaginaTam
    BY DEF DeLaPila
  <2> QED
    BY <2>1, <2>5, <2>6, <2>7, <2>8, <2>9, <2>10 DEF PosicionesPropias
<1> QED
  BY <1>1, PilaInvariant, PTL

-----------------------------------------------------------------------------
(* The frames of a stack. *)

Nombres(e) == {e.variables[k].id : k \in DOMAIN e.variables}
VarsDe(e, mem) ==
    [id \in Nombres(e) |-> mem[Logica(e.variables[Max(Definiciones(e, id))].pos)]]
ArgsDe(e, mem) == [k \in DOMAIN e.argumentos |-> mem[Logica(e.argumentos[k])]]

ConRetorno(e, i) == i > 1 /\ e.pos_var_retorno # SinDestino
MarcoCon(vs, ars, vuelve, con) ==
    [vars |-> vs, args |-> ars, vuelve |-> vuelve, conRetorno |-> con]

LEMMA MarcoEs ==
    ASSUME NEW e, NEW mem, NEW i
    PROVE  Marco(e, mem, i) = MarcoCon(VarsDe(e, mem), ArgsDe(e, mem), e.pos_retorno, ConRetorno(e, i))
BY DEF Marco, VarsDe, ArgsDe, Nombres, MarcoCon, ConRetorno

LEMMA EsperaValor ==
    ASSUME NEW e, NEW i \in Nat
    PROVE  /\ i > 1 /\ e.pos_var_retorno # SinDestino => ConRetorno(e, i) = TRUE
           /\ i = 1 \/ e.pos_var_retorno = SinDestino => ConRetorno(e, i) = FALSE
<1>1. ASSUME i > 1, e.pos_var_retorno # SinDestino PROVE ConRetorno(e, i) = TRUE
  BY <1>1 DEF ConRetorno
<1>2. ASSUME i = 1 \/ e.pos_var_retorno = SinDestino PROVE ConRetorno(e, i) = FALSE
  <2>1. ~(i > 1 /\ e.pos_var_retorno # SinDestino)
    BY <1>2
  <2> QED
    BY <2>1 DEF ConRetorno
<1> QED
  BY <1>1, <1>2

LEMMA MarcosEs ==
    ASSUME NEW ind \in Seq(Entrada), NEW mem
    PROVE  LET ms == Marcos(ind, mem) IN
           /\ ms = [i \in 1 .. Len(ind) |-> Marco(ind[i], mem, i)]
           /\ ms \in Seq(Range(ms)) /\ Len(ms) = Len(ind) /\ DOMAIN ms = 1 .. Len(ind)
           /\ \A i \in 1 .. Len(ind) : ms[i] = Marco(ind[i], mem, i)
           /\ ms = <<>> <=> ind = <<>>
<1>1. PICK n \in Nat : n = Len(ind) /\ DOMAIN ind = 1 .. n
  BY Entradas
<1>2. PICK ms : ms = Marcos(ind, mem)
  OBVIOUS
<1>3. ms = [i \in 1 .. n |-> Marco(ind[i], mem, i)]
  BY <1>1, <1>2 DEF Marcos
<1>4. DOMAIN ms = 1 .. n /\ \A i \in 1 .. n : ms[i] = Marco(ind[i], mem, i)
  BY <1>3
<1>5. ms \in [1 .. n -> Range(ms)]
  BY <1>3, <1>4 DEF Range
<1>6. ms \in Seq(Range(ms))
  BY <1>5, SeqDef
<1>7. Len(ms) = n
  BY <1>4, <1>6, LenProperties
<1>8. ms = <<>> <=> n = 0
  BY <1>6, <1>7, EmptySeq
<1>9. ind = <<>> <=> n = 0
  BY <1>1, EmptySeq
<1> QED
  BY <1>1, <1>2, <1>3, <1>4, <1>6, <1>7, <1>8, <1>9

(* The value at a place. *)
ValorEn(ind, mem, i, t, k) == mem[Logica(PosEn(ind, i, t, k))]
MismoValor(ind, mem, nueva, mem2, i, t, k) ==
    EsLugar(ind, i, t, k) => ValorEn(nueva, mem2, i, t, k) = ValorEn(ind, mem, i, t, k)
MismosValores(ind, mem, nueva, mem2, i) == \A t, k : MismoValor(ind, mem, nueva, mem2, i, t, k)

(* The last definition of a name is a place.                               *)
LEMMA Ultima ==
    ASSUME NEW ind \in Seq(Entrada), NEW i \in DOMAIN ind, NEW id \in Nombres(ind[i])
    PROVE  LET k == Max(Definiciones(ind[i], id)) IN
           /\ k \in DOMAIN ind[i].variables /\ ind[i].variables[k].id = id
           /\ EsLugar(ind, i, "v", k)
<1>1. PICK n \in Nat : DOMAIN ind[i].variables = 1 .. n
  BY Entradas
<1>2. Definiciones(ind[i], id) \subseteq 1 .. n /\ Definiciones(ind[i], id) # {}
  BY <1>1 DEF Definiciones, Nombres
<1>3. Max(Definiciones(ind[i], id)) \in Definiciones(ind[i], id)
  BY <1>1, <1>2, MaxDe
<1> QED
  BY <1>3 DEF Definiciones, EsLugar

(* Entries that are the same, with the same values, have the same frame.   *)
LEMMA MismoMarco ==
    ASSUME NEW ind \in Seq(Entrada), NEW nueva, NEW mem, NEW mem2, NEW i \in DOMAIN ind,
           nueva[i] = ind[i], NEW b, MismosValores(ind, mem, nueva, mem2, i)
    PROVE  Marco(nueva[i], mem2, b) = Marco(ind[i], mem, b)
<1>1. PICK e : e = ind[i]
  OBVIOUS
<1>2. ASSUME NEW id \in Nombres(e)
      PROVE  mem2[Logica(e.variables[Max(Definiciones(e, id))].pos)] =
             mem[Logica(e.variables[Max(Definiciones(e, id))].pos)]
  <2>1. PICK k : k = Max(Definiciones(e, id)) /\ EsLugar(ind, i, "v", k)
    BY <1>1, Ultima
  <2>2. MismoValor(ind, mem, nueva, mem2, i, "v", k)
    BY DEF MismosValores
  <2> QED
    BY <1>1, <2>1, <2>2 DEF MismoValor, ValorEn, PosEn
<1>3. ASSUME NEW k \in DOMAIN e.argumentos
      PROVE  mem2[Logica(e.argumentos[k])] = mem[Logica(e.argumentos[k])]
  <2>1. MismoValor(ind, mem, nueva, mem2, i, "a", k) /\ "a" # "v"
    BY DEF MismosValores
  <2> QED
    BY <1>1, <1>3, <2>1 DEF MismoValor, ValorEn, PosEn, EsLugar
<1>4. VarsDe(e, mem2) = VarsDe(e, mem)
  BY <1>2 DEF VarsDe
<1>5. ArgsDe(e, mem2) = ArgsDe(e, mem)
  BY <1>3 DEF ArgsDe
<1> QED
  BY <1>1, <1>4, <1>5, MarcoEs

ConTope(ms, g) == [ms EXCEPT ![Len(ms)] = g]
ConDato(mem, d, v) == [mem EXCEPT ![d] = v]
Tras(marco, id, v) == Abstracta!Guardado(marco, id, v)
ValoresCon(vs, id, v) == [x \in DOMAIN vs \cup {id} |-> IF x = id THEN v ELSE vs[x]]

LEMMA PorLetra ==
    ASSUME NEW vs, NEW id, NEW v, NEW ars, NEW vuelve, NEW con, id \in Letras
    PROVE  Tras(MarcoCon(vs, ars, vuelve, con), id, v) =
             MarcoCon(ValoresCon(vs, id, v), ars, vuelve, con)
BY DEF Tras, Abstracta!Guardado, Abstracta!ConValor, MarcoCon, ValoresCon

ArgumentosCon(ars, id, v) == [ars EXCEPT ![Numero[id] + 1] = v]

LEMMA PorDigito ==
    ASSUME NEW vs, NEW id, NEW v, NEW ars, NEW vuelve, NEW con, id \notin Letras
    PROVE  Tras(MarcoCon(vs, ars, vuelve, con), id, v) =
             MarcoCon(vs, ArgumentosCon(ars, id, v), vuelve, con)
BY DEF Tras, Abstracta!Guardado, MarcoCon, ArgumentosCon

(* Frames that are the same but for the last.                              *)
LEMMA OtroTope ==
    ASSUME NEW ind \in Seq(Entrada), NEW nueva \in Seq(Entrada), ind # <<>>, Len(nueva) = Len(ind),
           NEW mem, NEW mem2, NEW g,
           \A i \in 1 .. Len(ind) :
               i # Len(ind) => Marco(nueva[i], mem2, i) = Marco(ind[i], mem, i),
           Marco(nueva[Len(ind)], mem2, Len(ind)) = g
    PROVE  Marcos(nueva, mem2) = ConTope(Marcos(ind, mem), g)
<1>1. PICK n \in Nat : n = Len(ind) /\ n \in 1 .. n
  BY Entradas
<1>2. PICK ms, ns, x : ms = Marcos(ind, mem) /\ ns = Marcos(nueva, mem2) /\ x = [ms EXCEPT ![n] = g]
  OBVIOUS
<1>3. /\ ms = [i \in 1 .. n |-> Marco(ind[i], mem, i)] /\ Len(ms) = n
      /\ ns = [i \in 1 .. n |-> Marco(nueva[i], mem2, i)]
  BY <1>1, <1>2, MarcosEs
<1>4. x = [i \in 1 .. n |-> IF i = n THEN g ELSE Marco(ind[i], mem, i)]
  BY <1>2, <1>3
<1>5. \A i \in 1 .. n : Marco(nueva[i], mem2, i) = IF i = n THEN g ELSE Marco(ind[i], mem, i)
  BY <1>1
<1>6. ns = x
  BY <1>3, <1>4, <1>5
<1> QED
  BY <1>2, <1>3, <1>6 DEF ConTope

LEMMA MarcosGuardado ==
    ASSUME NEW ind \in Seq(Entrada), NEW mem \in [Direcciones -> Int], NEW fin, Propias(ind, fin),
           NEW id \in Letras \cup Digitos, HayVariable(ind, id), NEW v,
           NEW mem2, mem2 = ConDato(mem, Logica(PosDe(ind, id)), v),
           NEW ms, ms = Marcos(ind, mem),
           NEW g, g = Tras(ms[Len(ms)], id, v)
    PROVE  Marcos(ind, mem2) = ConTope(ms, g)
<1>1. PICK n \in Nat : n = Len(ind) /\ n \in DOMAIN ind /\ DOMAIN ind = 1 .. n /\ ind # <<>>
  BY Entradas DEF HayVariable
<1>2. PICK t0, k0 : t0 = TipoDe(id) /\ k0 = CualDe(ind, id) /\ EsLugar(ind, n, t0, k0)
  BY <1>1, LugarDe
<1>3. PICK d : d = Logica(PosDe(ind, id))
  OBVIOUS
<1>4. mem2 = [mem EXCEPT ![d] = v]
  BY <1>3 DEF ConDato
<1>5. PosDe(ind, id) = PosEn(ind, n, t0, k0) /\ DeLaPila(PosEn(ind, n, t0, k0))
  BY <1>1, <1>2 DEF PosDe, Propias
<1>6. ASSUME NEW i, NEW t, NEW k, EsLugar(ind, i, t, k)
      PROVE  ValorEn(ind, mem2, i, t, k) =
               IF i = n /\ t = t0 /\ k = k0 THEN v ELSE ValorEn(ind, mem, i, t, k)
  <2>1. PICK p : p = PosEn(ind, i, t, k)
    OBVIOUS
  <2>2. DeLaPila(p) /\ Logica(p) \in Direcciones
    BY <1>6, <2>1, Direccion DEF Propias
  <2>3. Logica(p) = d => p = PosEn(ind, n, t0, k0)
    BY <1>3, <1>5, <2>2, UnaDireccionCadaUna
  <2>4. p = PosEn(ind, n, t0, k0) => i = n /\ t = t0 /\ k = k0
    BY <1>2, <1>6, <2>1 DEF Propias
  <2>5. i = n /\ t = t0 /\ k = k0 => Logica(p) = d
    BY <1>3, <1>5, <2>1
  <2>6. mem2[Logica(p)] = IF Logica(p) = d THEN v ELSE mem[Logica(p)]
    BY <1>4, <2>2
  <2> QED
    BY <2>1, <2>3, <2>4, <2>5, <2>6 DEF ValorEn
<1>7. ASSUME NEW i \in 1 .. n, i # n
      PROVE  Marco(ind[i], mem2, i) = Marco(ind[i], mem, i)
  <2>1. MismosValores(ind, mem, ind, mem2, i)
    BY <1>6, <1>7 DEF MismoValor, MismosValores
  <2>2. i \in DOMAIN ind /\ ind \in Seq(Entrada)
    BY <1>1
  <2> QED
    BY <2>1, <2>2, MismoMarco
<1>8. PICK e : e = ind[n]
  OBVIOUS
<1>9. PICK f, h : f = Marco(e, mem, n) /\ h = Marco(e, mem2, n)
  OBVIOUS
<1>10. h = Tras(f, id, v)
  <2>1. CASE id \in Letras
    <3>1. t0 = "v" /\ k0 = Max(Definiciones(e, id)) /\ id \in Nombres(e)
      <4>1. PICK k \in DOMAIN e.variables : e.variables[k].id = id
        BY <1>1, <1>8, <2>1 DEF HayVariable, Definiciones
      <4> QED
        BY <1>1, <1>2, <1>8, <2>1, <4>1 DEF TipoDe, CualDe, Nombres
    <3>2. ASSUME NEW x \in Nombres(e)
          PROVE  mem2[Logica(e.variables[Max(Definiciones(e, x))].pos)] =
                 IF x = id THEN v ELSE mem[Logica(e.variables[Max(Definiciones(e, x))].pos)]
      <4>1. PICK k : k = Max(Definiciones(e, x)) /\ EsLugar(ind, n, "v", k) /\ e.variables[k].id = x
        BY <1>1, <1>8, Ultima
      <4>2. k = k0 <=> x = id
        <5>1. e.variables[k0].id = id
          BY <1>1, <1>8, <3>1, Ultima
        <5> QED
          BY <3>1, <4>1, <5>1
      <4>3. ValorEn(ind, mem2, n, "v", k) = IF k = k0 THEN v ELSE ValorEn(ind, mem, n, "v", k)
        BY <1>6, <3>1, <4>1
      <4> QED
        BY <1>8, <4>1, <4>2, <4>3 DEF ValorEn, PosEn
    <3>3. PICK vs, ns : vs = VarsDe(e, mem) /\ ns = VarsDe(e, mem2)
      OBVIOUS
    <3>4. DOMAIN vs \cup {id} = Nombres(e)
      BY <3>1, <3>3 DEF VarsDe
    <3>5. ns = [x \in Nombres(e) |-> IF x = id THEN v ELSE vs[x]]
      BY <3>2, <3>3 DEF VarsDe
    <3>6. ns = ValoresCon(vs, id, v)
      BY <3>4, <3>5 DEF ValoresCon
    <3>7. ASSUME NEW k \in DOMAIN e.argumentos
          PROVE  mem2[Logica(e.argumentos[k])] = mem[Logica(e.argumentos[k])]
      <4>1. EsLugar(ind, n, "a", k) /\ "a" # "v"
        BY <1>1, <1>8, <3>7 DEF EsLugar
      <4>2. ValorEn(ind, mem2, n, "a", k) = ValorEn(ind, mem, n, "a", k)
        BY <1>6, <3>1, <4>1
      <4> QED
        BY <1>8, <4>1, <4>2 DEF ValorEn, PosEn
    <3>8. ArgsDe(e, mem2) = ArgsDe(e, mem)
      BY <3>7 DEF ArgsDe
    <3>9. PICK ars, vu, con : ars = ArgsDe(e, mem) /\ vu = e.pos_retorno /\ con = ConRetorno(e, n)
      OBVIOUS
    <3>10. f = MarcoCon(vs, ars, vu, con) /\ h = MarcoCon(ns, ars, vu, con)
      BY <1>9, <3>3, <3>8, <3>9, MarcoEs
    <3> QED
      BY <2>1, <3>6, <3>10, PorLetra
  <2>2. CASE id \notin Letras
    <3>1. t0 = "a" /\ k0 = Numero[id] + 1 /\ k0 \in DOMAIN e.argumentos
      BY <1>2, <1>8, <2>2 DEF TipoDe, CualDe, EsLugar
    <3>2. ASSUME NEW x \in Nombres(e)
          PROVE  mem2[Logica(e.variables[Max(Definiciones(e, x))].pos)] =
                 mem[Logica(e.variables[Max(Definiciones(e, x))].pos)]
      <4>1. PICK k : k = Max(Definiciones(e, x)) /\ EsLugar(ind, n, "v", k)
        BY <1>1, <1>8, Ultima
      <4>2. ValorEn(ind, mem2, n, "v", k) = ValorEn(ind, mem, n, "v", k)
        BY <1>6, <3>1, <4>1
      <4> QED
        BY <1>8, <4>1, <4>2 DEF ValorEn, PosEn
    <3>3. VarsDe(e, mem2) = VarsDe(e, mem)
      BY <3>2 DEF VarsDe
    <3>4. ASSUME NEW k \in DOMAIN e.argumentos
          PROVE  mem2[Logica(e.argumentos[k])] =
                 IF k = k0 THEN v ELSE mem[Logica(e.argumentos[k])]
      <4>1. EsLugar(ind, n, "a", k) /\ "a" # "v"
        BY <1>1, <1>8, <3>4 DEF EsLugar
      <4>2. ValorEn(ind, mem2, n, "a", k) = IF k = k0 THEN v ELSE ValorEn(ind, mem, n, "a", k)
        BY <1>6, <3>1, <4>1
      <4> QED
        BY <1>8, <4>1, <4>2 DEF ValorEn, PosEn
    <3>5. PICK ars, ns : ars = ArgsDe(e, mem) /\ ns = ArgsDe(e, mem2)
      OBVIOUS
    <3>6. ns = ArgumentosCon(ars, id, v)
      BY <3>1, <3>4, <3>5 DEF ArgsDe, ArgumentosCon
    <3>7. PICK vs, vu, con : vs = VarsDe(e, mem) /\ vu = e.pos_retorno /\ con = ConRetorno(e, n)
      OBVIOUS
    <3>8. f = MarcoCon(vs, ars, vu, con) /\ h = MarcoCon(vs, ns, vu, con)
      BY <1>9, <3>3, <3>5, <3>7, MarcoEs
    <3> QED
      BY <2>2, <3>6, <3>8, PorDigito
  <2> QED
    BY <2>1, <2>2
<1>12. Len(ms) = n /\ ms[n] = f
  BY <1>1, <1>8, <1>9, MarcosEs
<1>13. Marcos(ind, mem2) = ConTope(ms, h)
  BY <1>1, <1>7, <1>8, <1>9, OtroTope
<1> QED
  BY <1>10, <1>12, <1>13

(* The same, with what it asks for in a name.                              *)
PideGuardado(ind, mem, fin, id, v, mem2, ms, g) ==
    /\ ind \in Seq(Entrada) /\ mem \in [Direcciones -> Int] /\ Propias(ind, fin)
    /\ id \in Letras \cup Digitos /\ HayVariable(ind, id)
    /\ mem2 = ConDato(mem, Logica(PosDe(ind, id)), v)
    /\ ms = Marcos(ind, mem) /\ g = Tras(ms[Len(ms)], id, v)

LEMMA GuardadoPedido ==
    ASSUME NEW ind, NEW mem, NEW fin, NEW id, NEW v, NEW mem2, NEW ms, NEW g,
           PideGuardado(ind, mem, fin, id, v, mem2, ms, g)
    PROVE  Marcos(ind, mem2) = ConTope(ms, g)
BY MarcosGuardado, SMTT(30) DEF PideGuardado

(* A definition: the new variable is 0, as no one wrote above fin_stack.   *)
LEMMA MarcosDefinida ==
    ASSUME NEW ind \in Seq(Entrada), ind # <<>>, NEW mem, NEW fin, DeLaPila(fin), mem[Logica(fin)] = 0,
           NEW id \in Letras, NEW nueva, nueva = EnLaCima(ind, id, fin),
           NEW ms, ms = Marcos(ind, mem),
           NEW h, h = Tras(ms[Len(ms)], id, 0)
    PROVE  Marcos(nueva, mem) = ConTope(ms, h)
<1>1. PICK n \in Nat : n = Len(ind) /\ n \in DOMAIN ind /\ DOMAIN ind = 1 .. n
  BY Entradas
<1>3. ConUnaMas(ind, nueva, id, fin)
  BY EnLaCimaHace DEF DeLaPila
<1>4. nueva \in Seq(Entrada) /\ Len(nueva) = n /\ \A i \in 1 .. n : i # n => nueva[i] = ind[i]
  BY <1>1, <1>3 DEF ConUnaMas
<1>5. PICK e, e2 : e = ind[n] /\ e2 = nueva[n]
  OBVIOUS
<1>6. PICK q \in Nat : q = Len(e.variables) /\ DOMAIN e.variables = 1 .. q
  BY <1>1, <1>5, Entradas
<1>7. /\ e2.pos_retorno = e.pos_retorno /\ e2.pos_var_retorno = e.pos_var_retorno
      /\ e2.argumentos = e.argumentos /\ DOMAIN e2.variables = 1 .. q + 1
      /\ \A k \in 1 .. q : e2.variables[k] = e.variables[k]
      /\ e2.variables[q + 1].id = id /\ e2.variables[q + 1].pos = fin
  BY <1>1, <1>3, <1>5, <1>6 DEF ConUnaMas
<1>8. Nombres(e2) = Nombres(e) \cup {id}
  <2>1. ASSUME NEW x \in Nombres(e2) PROVE x \in Nombres(e) \cup {id}
    <3>1. PICK k \in 1 .. q + 1 : x = e2.variables[k].id
      BY <1>7, <2>1 DEF Nombres
    <3>2. k = q + 1 \/ k \in 1 .. q
      OBVIOUS
    <3> QED
      BY <1>6, <1>7, <3>1, <3>2 DEF Nombres
  <2>2. ASSUME NEW x \in Nombres(e) \cup {id} PROVE x \in Nombres(e2)
    <3>1. CASE x = id
      <4>1. q + 1 \in 1 .. q + 1
        OBVIOUS
      <4> QED
        BY <1>7, <3>1, <4>1 DEF Nombres
    <3>2. CASE x \in Nombres(e)
      <4>1. PICK k \in 1 .. q : x = e.variables[k].id
        BY <1>6, <3>2 DEF Nombres
      <4>2. k \in 1 .. q + 1
        OBVIOUS
      <4> QED
        BY <1>7, <4>1, <4>2 DEF Nombres
    <3> QED
      BY <2>2, <3>1, <3>2
  <2> QED
    BY <2>1, <2>2
<1>9. Max(Definiciones(e2, id)) = q + 1
  <2>1. Definiciones(e2, id) \subseteq 1 .. q + 1 /\ q + 1 \in Definiciones(e2, id)
    BY <1>7 DEF Definiciones
  <2>2. \A y \in Definiciones(e2, id) : y <= q + 1
    BY <2>1
  <2>3. q + 1 \in Nat
    OBVIOUS
  <2> QED
    BY <2>1, <2>2, <2>3, MaxUnico
<1>10. ASSUME NEW x \in Nombres(e), x # id
       PROVE  e2.variables[Max(Definiciones(e2, x))].pos = e.variables[Max(Definiciones(e, x))].pos
  <2>1. Definiciones(e2, x) = Definiciones(e, x)
    <3>1. \A k \in 1 .. q + 1 : k = q + 1 \/ k \in 1 .. q
      OBVIOUS
    <3>2. \A k \in 1 .. q : k \in 1 .. q + 1
      OBVIOUS
    <3> QED
      BY <1>6, <1>7, <1>10, <3>1, <3>2 DEF Definiciones
  <2>2. Max(Definiciones(e, x)) \in 1 .. q
    BY <1>1, <1>5, <1>6, Ultima
  <2> QED
    BY <1>7, <2>1, <2>2
<1>11. PICK vs, ns : vs = VarsDe(e, mem) /\ ns = VarsDe(e2, mem)
  OBVIOUS
<1>12. ns = ValoresCon(vs, id, 0)
  <2>1. DOMAIN vs = Nombres(e) /\ \A x \in Nombres(e) : vs[x] = mem[Logica(e.variables[Max(Definiciones(e, x))].pos)]
    BY <1>11 DEF VarsDe
  <2>2. ns = [x \in Nombres(e) \cup {id} |-> mem[Logica(e2.variables[Max(Definiciones(e2, x))].pos)]]
    BY <1>8, <1>11 DEF VarsDe
  <2>3. ASSUME NEW x \in Nombres(e) \cup {id}
        PROVE  mem[Logica(e2.variables[Max(Definiciones(e2, x))].pos)] = IF x = id THEN 0 ELSE vs[x]
    <3>1. CASE x = id
      BY <1>7, <1>9, <3>1
    <3>2. CASE x # id
      BY <1>10, <2>1, <2>3, <3>2
    <3> QED
      BY <3>1, <3>2
  <2>4. ns = [x \in DOMAIN vs \cup {id} |-> IF x = id THEN 0 ELSE vs[x]]
    BY <2>1, <2>2, <2>3
  <2> QED
    BY <2>4 DEF ValoresCon
<1>13. ArgsDe(e2, mem) = ArgsDe(e, mem)
  BY <1>7 DEF ArgsDe
<1>14. PICK f, g : f = Marco(e, mem, n) /\ g = Marco(e2, mem, n)
  OBVIOUS
<1>15. g = Tras(f, id, 0)
  <2>1. PICK ars, vu, con : ars = ArgsDe(e, mem) /\ vu = e.pos_retorno /\ con = ConRetorno(e, n)
    OBVIOUS
  <2>2. ConRetorno(e2, n) = ConRetorno(e, n)
    BY <1>7 DEF ConRetorno
  <2>3. f = MarcoCon(vs, ars, vu, con)
    BY <1>11, <1>14, <2>1, MarcoEs
  <2>4. g = MarcoCon(ns, ars, vu, con)
    BY <1>7, <1>11, <1>13, <1>14, <2>1, <2>2, MarcoEs
  <2> QED
    BY <1>12, <2>3, <2>4, PorLetra
<1>17. Len(ms) = n /\ ms[n] = f
  BY <1>1, <1>5, <1>14, MarcosEs
<1>18. Marcos(nueva, mem) = ConTope(ms, g)
  BY <1>1, <1>4, <1>5, <1>14, OtroTope
<1> QED
  BY <1>15, <1>17, <1>18

PideDefinida(ind, mem, fin, id, nueva, ms, h) ==
    /\ ind \in Seq(Entrada) /\ ind # <<>> /\ DeLaPila(fin) /\ mem[Logica(fin)] = 0
    /\ id \in Letras /\ nueva = EnLaCima(ind, id, fin)
    /\ ms = Marcos(ind, mem) /\ h = Tras(ms[Len(ms)], id, 0)

LEMMA DefinidaPedida ==
    ASSUME NEW ind, NEW mem, NEW fin, NEW id, NEW nueva, NEW ms, NEW h,
           PideDefinida(ind, mem, fin, id, nueva, ms, h)
    PROVE  Marcos(nueva, mem) = ConTope(ms, h)
BY MarcosDefinida, SMTT(30) DEF PideDefinida

(* One more entry, above all the others.                                   *)
MismosMarcos(ind, mem, nueva, mem2) ==
    \A i \in 1 .. Len(ind) : Marco(nueva[i], mem2, i) = Marco(ind[i], mem, i)

LEMMA UnMarcoMas ==
    ASSUME NEW ind \in Seq(Entrada), NEW nueva \in Seq(Entrada), Len(nueva) = Len(ind) + 1,
           NEW mem, NEW mem2, NEW g,
           MismosMarcos(ind, mem, nueva, mem2),
           Marco(nueva[Len(ind) + 1], mem2, Len(ind) + 1) = g
    PROVE  Marcos(nueva, mem2) = Append(Marcos(ind, mem), g)
<1>1. PICK n \in Nat : n = Len(ind)
  BY Entradas
<1>2. PICK ms, ns : ms = Marcos(ind, mem) /\ ns = Marcos(nueva, mem2)
  OBVIOUS
<1>3. /\ ms \in Seq(Range(ms)) /\ Len(ms) = n
      /\ \A i \in 1 .. n : ms[i] = Marco(ind[i], mem, i)
      /\ ns = [i \in 1 .. n + 1 |-> Marco(nueva[i], mem2, i)]
  BY <1>1, <1>2, MarcosEs
<1>4. PICK S : S = Range(ms) \cup {g}
  OBVIOUS
<1>5. ms \in Seq(S) /\ g \in S
  <2>1. ms \in [1 .. n -> Range(ms)]
    BY <1>3, LenProperties
  <2>2. ms \in [1 .. n -> S]
    BY <1>4, <2>1
  <2> QED
    BY <1>4, <2>2, SeqDef
<1>6. PICK x : x = Append(ms, g)
  OBVIOUS
<1>7. x \in Seq(S) /\ UnoMas(ms, x, g)
  BY <1>5, <1>6, AppendDe
<1>8. /\ DOMAIN x = 1 .. n + 1 /\ (\A i \in 1 .. n : x[i] = ms[i]) /\ x[n + 1] = g
  BY <1>3, <1>7 DEF UnoMas
<1>9. x = [i \in 1 .. n + 1 |-> x[i]]
  <2>1. x \in [1 .. Len(x) -> S]
    BY <1>7, LenProperties
  <2> QED
    BY <1>8, <2>1
<1>10. ASSUME NEW i \in 1 .. n + 1
       PROVE  x[i] = Marco(nueva[i], mem2, i)
  <2>1. CASE i = n + 1
    BY <1>1, <1>8, <2>1
  <2>2. CASE i # n + 1
    <3>1. i \in 1 .. n
      BY <2>2
    <3> QED
      BY <1>1, <1>3, <1>8, <3>1 DEF MismosMarcos
  <2> QED
    BY <2>1, <2>2
<1>11. x = ns
  BY <1>3, <1>9, <1>10
<1> QED
  BY <1>2, <1>6, <1>11

MarcoNuevo(args, vuelve, con) == MarcoCon(<<>>, args, vuelve, con)

LEMMA SinVariables ==
    ASSUME NEW e, NEW mem, DOMAIN e.variables = {}
    PROVE  VarsDe(e, mem) = <<>>
<1>1. Nombres(e) = {}
  BY DEF Nombres
<1>2. VarsDe(e, mem) = [x \in {} |-> 0]
  BY <1>1 DEF VarsDe
<1>3. <<>> = [x \in {} |-> 0]
  OBVIOUS
<1> QED
  BY <1>2, <1>3

LEMMA SinArgumentos ==
    ASSUME NEW e, NEW mem, DOMAIN e.argumentos = {}
    PROVE  ArgsDe(e, mem) = <<>>
<1>1. ArgsDe(e, mem) = [x \in {} |-> 0]
  BY DEF ArgsDe
<1>2. <<>> = [x \in {} |-> 0]
  OBVIOUS
<1> QED
  BY <1>1, <1>2

(* A call with no arguments, for a value.                                  *)
LEMMA MarcosLlamada ==
    ASSUME NEW ind \in Seq(Entrada), ind # <<>>, NEW mem, NEW pc \in Int, NEW d \in Direcciones
    PROVE  Marcos(Append(ind, EntradaNueva(pc, d)), mem) =
             Append(Marcos(ind, mem), MarcoNuevo(<<>>, pc, TRUE))
<1>0. d \in Int /\ d # SinDestino
  <2>1. PICK a \in Nat : a = PagsCodigo * PaginaTam
    BY Tamanios
  <2>2. \A x \in Direcciones : x \in Int /\ x >= a
    BY <2>1, Tamanios DEF Direcciones
  <2> QED
    BY <2>2 DEF SinDestino
<1>1. PICK e \in Entrada : /\ e = EntradaNueva(pc, d)
                           /\ DOMAIN e.variables = {} /\ DOMAIN e.argumentos = {}
                           /\ e.pos_retorno = pc /\ e.pos_var_retorno = d
  BY <1>0, EsEntradaNueva
<1>2. PICK nueva : nueva = Append(ind, e)
  OBVIOUS
<1>3. ConUltima(ind, nueva, e)
  BY <1>2, AppendHace
<1>4. PICK n \in Nat : n = Len(ind) /\ DOMAIN ind = 1 .. n /\ n >= 1
  BY Entradas
<1>5. /\ nueva \in Seq(Entrada) /\ Len(nueva) = n + 1 /\ nueva[n + 1] = e
      /\ \A i \in 1 .. n : nueva[i] = ind[i]
  BY <1>3, <1>4 DEF ConUltima
<1>6. n + 1 \in Nat /\ n + 1 > 1
  BY <1>4
<1>8. ConRetorno(e, n + 1) = TRUE
  BY <1>0, <1>1, <1>6, EsperaValor
<1>9. PICK g : g = Marco(e, mem, n + 1)
  OBVIOUS
<1>10. g = MarcoCon(<<>>, <<>>, pc, ConRetorno(e, n + 1))
  BY <1>1, <1>9, MarcoEs, SinVariables, SinArgumentos
<1>11. g = MarcoNuevo(<<>>, pc, TRUE)
  BY <1>8, <1>10 DEF MarcoNuevo
<1>12. Marcos(nueva, mem) = Append(Marcos(ind, mem), g)
  <2>1. MismosMarcos(ind, mem, nueva, mem)
    BY <1>4, <1>5 DEF MismosMarcos
  <2> QED
    BY <1>4, <1>5, <1>9, <2>1, UnMarcoMas
<1> QED
  BY <1>1, <1>2, <1>11, <1>12

MarcoConUno(v, vuelve) == MarcoNuevo(<<v>>, vuelve, FALSE)
PorUnArgumento(ind, pc, fin) == EnLaCima(Append(ind, EntradaNueva(pc, SinDestino)), "0", fin)

(* A call with its argument, that is written above all the others.         *)
LEMMA MarcosConArgumento ==
    ASSUME NEW ind \in Seq(Entrada), ind # <<>>, NEW mem \in [Direcciones -> Int], NEW pc \in Int,
           NEW fin, DeLaPila(fin), Propias(ind, fin), NEW v,
           NEW nueva, nueva = PorUnArgumento(ind, pc, fin),
           NEW mem2, mem2 = ConDato(mem, Logica(fin), v),
           NEW hm, hm = MarcoConUno(v, pc)
    PROVE  Marcos(nueva, mem2) = Append(Marcos(ind, mem), hm)
<1>0. SinDestino \in Int /\ "0" \notin Letras
  BY PilaAssumption DEF SinDestino
<1>1. PICK e \in Entrada : /\ e = EntradaNueva(pc, SinDestino)
                           /\ DOMAIN e.variables = {} /\ DOMAIN e.argumentos = {}
                           /\ e.pos_retorno = pc /\ e.pos_var_retorno = SinDestino
  BY <1>0, EsEntradaNueva
<1>2. PICK mas : mas = Append(ind, e)
  OBVIOUS
<1>3. ConUltima(ind, mas, e)
  BY <1>2, AppendHace
<1>4. PICK n \in Nat : n = Len(ind) /\ DOMAIN ind = 1 .. n /\ n >= 1
  BY Entradas
<1>5. /\ mas \in Seq(Entrada) /\ Len(mas) = n + 1 /\ mas[n + 1] = e /\ DOMAIN mas = 1 .. n + 1
      /\ \A i \in 1 .. n : mas[i] = ind[i]
  BY <1>3, <1>4 DEF ConUltima
<1>6. nueva = EnLaCima(mas, "0", fin)
  BY <1>1, <1>2 DEF PorUnArgumento
<1>7. mas # <<>>
  BY <1>5, Entradas
<1>8. ConUnaMas(mas, nueva, "0", fin)
  BY <1>5, <1>6, <1>7, EnLaCimaHace DEF DeLaPila
<1>9. PICK e2 : e2 = nueva[n + 1]
  OBVIOUS
<1>10. Len(e.argumentos) = 0
  <2>1. e.argumentos \in Seq(Posicion)
    BY DEF Entrada
  <2>2. PICK s \in Seq(Posicion) : s = e.argumentos
    BY <2>1
  <2>3. PICK q \in Nat : q = Len(s) /\ 1 .. q = {}
    BY <1>1, <2>2, LenProperties
  <2>4. ASSUME q # 0 PROVE FALSE
    <3>1. 1 \in 1 .. q
      BY <2>4
    <3> QED
      BY <2>3, <3>1
  <2> QED
    BY <2>2, <2>3, <2>4
<1>11. /\ nueva \in Seq(Entrada) /\ Len(nueva) = n + 1
       /\ \A i \in 1 .. n : nueva[i] = mas[i]
       /\ e2.pos_retorno = e.pos_retorno /\ e2.pos_var_retorno = e.pos_var_retorno
       /\ e2.variables = e.variables /\ DOMAIN e2.argumentos = 1 .. 1
       /\ e2.argumentos[1] = fin
  <2>1. \A i \in 1 .. n : i \in 1 .. n + 1 /\ i # n + 1
    OBVIOUS
  <2>2. nueva \in Seq(Entrada) /\ Len(nueva) = n + 1 /\ \A i \in 1 .. n : nueva[i] = mas[i]
    BY <1>5, <1>8, <2>1 DEF ConUnaMas
  <2>3. /\ e2.pos_retorno = e.pos_retorno /\ e2.pos_var_retorno = e.pos_var_retorno
        /\ e2.variables = e.variables
    BY <1>0, <1>5, <1>8, <1>9 DEF ConUnaMas
  <2>4. /\ DOMAIN e2.argumentos = 1 .. Len(e.argumentos) + 1
        /\ e2.argumentos[Len(e.argumentos) + 1] = fin
    BY <1>0, <1>5, <1>8, <1>9 DEF ConUnaMas
  <2>5. Len(e.argumentos) + 1 = 1
    BY <1>10
  <2> QED
    BY <2>2, <2>3, <2>4, <2>5
<1>12. PICK d : d = Logica(fin) /\ mem2 = [mem EXCEPT ![d] = v]
  BY DEF ConDato
<1>13. d \in Direcciones /\ d \in Int
  BY <1>12, Direccion
<1>14. ASSUME NEW i \in 1 .. n PROVE Marco(nueva[i], mem2, i) = Marco(ind[i], mem, i)
  <2>1. nueva[i] = ind[i] /\ i \in DOMAIN ind
    BY <1>4, <1>5, <1>11
  <2>2. ASSUME NEW t, NEW k PROVE MismoValor(ind, mem, nueva, mem2, i, t, k)
    <3>1. SUFFICES ASSUME EsLugar(ind, i, t, k)
                   PROVE  ValorEn(nueva, mem2, i, t, k) = ValorEn(ind, mem, i, t, k)
      BY DEF MismoValor
    <3>2. PICK p : p = PosEn(ind, i, t, k) /\ p = PosEn(nueva, i, t, k)
      BY <2>1 DEF PosEn
    <3>7. DeLaPila(PosEn(ind, i, t, k)) /\ Antes(PosEn(ind, i, t, k), fin)
      BY <3>1 DEF Propias
    <3>3. DeLaPila(p) /\ Antes(p, fin)
      BY <3>2, <3>7
    <3>4. Logica(p) + 4 <= d /\ Logica(p) \in Int /\ Logica(p) \in Direcciones
      BY <1>12, <3>3, OrdenDeDirecciones, Direccion DEF Limita
    <3>5. Logica(p) # d
      BY <1>13, <3>4
    <3>6. mem2[Logica(p)] = mem[Logica(p)]
      BY <1>12, <3>4, <3>5
    <3> QED
      BY <3>2, <3>6 DEF ValorEn
  <2>3. MismosValores(ind, mem, nueva, mem2, i)
    BY <2>2 DEF MismosValores
  <2> QED
    BY <2>1, <2>3, MismoMarco
<1>17. ConRetorno(e2, n + 1) = FALSE
  <2>1. e2.pos_var_retorno = SinDestino
    BY <1>1, <1>11
  <2> QED
    BY <2>1 DEF ConRetorno
<1>18. PICK g : g = Marco(e2, mem2, n + 1)
  OBVIOUS
<1>19. ArgsDe(e2, mem2) = <<v>>
  <2>1. mem2[d] = v
    BY <1>12, <1>13
  <2>2. PICK h : h = [k \in 1 .. 1 |-> v]
    OBVIOUS
  <2>3. ArgsDe(e2, mem2) = h
    BY <1>11, <1>12, <2>1, <2>2 DEF ArgsDe
  <2>4. <<v>> = h
    BY <2>2
  <2> QED
    BY <2>3, <2>4
<1>20. VarsDe(e2, mem2) = <<>>
  BY <1>1, <1>11, SinVariables
<1>21. g = MarcoCon(<<>>, <<v>>, pc, ConRetorno(e2, n + 1))
  BY <1>1, <1>11, <1>18, <1>19, <1>20, MarcoEs
<1>22. g = MarcoConUno(v, pc)
  BY <1>17, <1>21 DEF MarcoNuevo, MarcoConUno
<1>24. Len(nueva) = Len(ind) + 1 /\ Marco(nueva[Len(ind) + 1], mem2, Len(ind) + 1) = g
  BY <1>4, <1>9, <1>11, <1>18
<1>25. MismosMarcos(ind, mem, nueva, mem2)
  BY <1>4, <1>14 DEF MismosMarcos
<1>26. nueva \in Seq(Entrada)
  BY <1>11
<1>27. Marcos(nueva, mem2) = Append(Marcos(ind, mem), g)
  BY <1>24, <1>25, <1>26, UnMarcoMas
<1> QED
  BY <1>22, <1>27

PideArgumento(ind, mem, pc, fin, v, nueva, mem2, hm) ==
    /\ ind \in Seq(Entrada) /\ ind # <<>> /\ mem \in [Direcciones -> Int] /\ pc \in Int
    /\ DeLaPila(fin) /\ Propias(ind, fin)
    /\ nueva = PorUnArgumento(ind, pc, fin)
    /\ mem2 = ConDato(mem, Logica(fin), v) /\ hm = MarcoConUno(v, pc)

LEMMA ArgumentoPedido ==
    ASSUME NEW ind, NEW mem, NEW pc, NEW fin, NEW v, NEW nueva, NEW mem2, NEW hm,
           PideArgumento(ind, mem, pc, fin, v, nueva, mem2, hm)
    PROVE  Marcos(nueva, mem2) = Append(Marcos(ind, mem), hm)
BY MarcosConArgumento, SMTT(30) DEF PideArgumento

LEMMA SubDesdeUno ==
    ASSUME NEW S, NEW s \in Seq(S), NEW p \in Nat, p <= Len(s)
    PROVE  SubSeq(s, 1, p) = [i \in 1 .. p |-> s[i]]
<1>1. PICK n \in Nat : n = Len(s) /\ \A i \in 1 .. n : s[i] \in S
  BY LenProperties, ElementOfSeq
<1>2. \A i \in 1 .. p : s[i] \in S
  BY <1>1
<1>3. PICK x : x = SubSeq(s, 1, p)
  OBVIOUS
<1>4. /\ x \in Seq(S) /\ Len(x) = IF 1 <= p THEN p - 1 + 1 ELSE 0
      /\ \A i \in 1 .. p - 1 + 1 : x[i] = s[1 + i - 1]
  BY <1>2, <1>3, SubSeqProperties
<1>5. Len(x) = p /\ \A i \in 1 .. p : x[i] = s[i]
  BY <1>4
<1>6. x \in [1 .. p -> S]
  BY <1>4, <1>5, LenProperties
<1>7. x = [i \in 1 .. p |-> x[i]]
  BY <1>6
<1> QED
  BY <1>3, <1>5, <1>7

(* An entry less.                                                          *)
LEMMA MarcosSinUltima ==
    ASSUME NEW ind \in Seq(Entrada), ind # <<>>, NEW mem
    PROVE  LET ms == Marcos(ind, mem) IN
           Marcos(Front(ind), mem) = SubSeq(ms, 1, Len(ms) - 1)
<1>1. PICK n \in Nat : n = Len(ind) /\ DOMAIN ind = 1 .. n /\ n >= 1
  BY Entradas
<1>2. PICK nueva : nueva = Front(ind)
  OBVIOUS
<1>3. SinUltima(ind, nueva)
  BY <1>2, FrontHace
<1>4. PICK p \in Nat : p = n - 1
  BY <1>1
<1>5. nueva \in Seq(Entrada) /\ Len(nueva) = p /\ \A i \in 1 .. p : nueva[i] = ind[i]
  BY <1>1, <1>3, <1>4 DEF SinUltima
<1>6. PICK ms, ns : ms = Marcos(ind, mem) /\ ns = Marcos(nueva, mem)
  OBVIOUS
<1>7. /\ ms \in Seq(Range(ms)) /\ Len(ms) = n
      /\ \A i \in 1 .. n : ms[i] = Marco(ind[i], mem, i)
  BY <1>1, <1>6, MarcosEs
<1>12. ns = [i \in 1 .. p |-> Marco(nueva[i], mem, i)]
  BY <1>5, <1>6, MarcosEs
<1>8. PICK x : x = SubSeq(ms, 1, p)
  OBVIOUS
<1>9. x = [i \in 1 .. p |-> ms[i]]
  BY <1>4, <1>7, <1>8, SubDesdeUno
<1>10. \A i \in 1 .. p : i \in 1 .. n
  BY <1>4
<1>11. x = ns
  BY <1>5, <1>7, <1>9, <1>10, <1>12
<1> QED
  BY <1>1, <1>2, <1>4, <1>6, <1>7, <1>8, <1>11

-----------------------------------------------------------------------------
(* The lines, as steps of the machine with frames. *)

(* The same machine, seen in the frames, when a line starts.               *)
LEMMA Visible ==
    ASSUME NEW L, NEW op, Empieza(L, op)
    PROVE  /\ cpu.exit_code = "corre" /\ pcVisible = cpu.pc
           /\ marcosVisibles = Marcos(cpu.indice_stack, cpu.memoria)
           /\ Pedida.indice_stack = cpu.indice_stack /\ Pedida.memoria = cpu.memoria
           /\ Pedida.fin_stack = cpu.fin_stack
           /\ Pedida.exit_code = "corre"
           /\ cpu.indice_stack \in Seq(Entrada) /\ cpu.memoria \in [Direcciones -> Int]
           /\ Propias(cpu.indice_stack, cpu.fin_stack)
           /\ Len(programa.lineas) = L /\ cpu.pc < L /\ cpu.pc \in Int /\ L \in Nat
           /\ Abstracta!Primitiva(op) /\ Abstracta!Sentencia = Sentencia
<1>1. cpu.exit_code = "corre" /\ cpu \in Maquina /\ Propias(cpu.indice_stack, cpu.fin_stack)
  BY DEF Empieza, EnOrden, Sano
<1>2. pcVisible = cpu.pc /\ marcosVisibles = Marcos(cpu.indice_stack, cpu.memoria)
  BY <1>1 DEF pcVisible, marcosVisibles, Corre
<1>3. cpu.indice_stack \in Seq(Entrada) /\ cpu.memoria \in [Direcciones -> Int]
  BY <1>1, EsMaquina
<1>4. L \in Nat /\ L = Len(programa.lineas) /\ cpu.pc \in Int /\ cpu.pc < L
  BY DEF Empieza
<1>5. Abstracta!Sentencia = Sentencia
  BY <1>2 DEF Abstracta!Sentencia, Sentencia
<1>6. Abstracta!Primitiva(op)
  BY <1>1, <1>2, <1>4 DEF Abstracta!Primitiva, Sentencia, Empieza
<1> QED
  BY <1>1, <1>2, <1>3, <1>4, <1>5, <1>6 DEF Empieza, MismaPila

LEMMA VisibleDespues ==
    ASSUME NEW m, NEW L, EnOrden(m, L), Queda(m)
    PROVE  /\ programa' = programa /\ cpu'.desviado = m.desviado /\ cpu'.exit_code = m.exit_code
           /\ m.exit_code = "corre" =>
                 pcVisible' = m.pc /\ marcosVisibles' = Marcos(m.indice_stack, m.memoria)
           /\ m.exit_code # "corre" => Abstracta!Para(m.exit_code)
<1>1. Igual(cpu', m) /\ programa' = programa
  BY QuedaHace DEF Queda
<1>2. /\ cpu'.exit_code = m.exit_code /\ cpu'.pc = m.pc /\ cpu'.indice_stack = m.indice_stack
      /\ cpu'.memoria = m.memoria /\ cpu'.desviado = m.desviado
  BY <1>1 DEF Igual, MismaPila
<1>3. ASSUME m.exit_code = "corre"
      PROVE  pcVisible' = m.pc /\ marcosVisibles' = Marcos(m.indice_stack, m.memoria)
  BY <1>2, <1>3 DEF pcVisible, marcosVisibles, Corre
<1>4. ASSUME m.exit_code # "corre" PROVE Abstracta!Para(m.exit_code)
  <2>1. pcVisible' = 0 /\ marcosVisibles' = <<>>
    BY <1>2, <1>4 DEF pcVisible, marcosVisibles, Corre
  <2> QED
    BY <1>2, <2>1 DEF Abstracta!Para
<1> QED
  BY <1>1, <1>2, <1>3, <1>4

(* A variable is defined in the frame, with its value.                     *)
LEMMA DefinidaEs ==
    ASSUME NEW L, NEW op, Empieza(L, op), NEW id \in Letras \cup Digitos
    PROVE  /\ Abstracta!Definida(id) <=> HayVariable(cpu.indice_stack, id)
           /\ HayVariable(cpu.indice_stack, id) =>
                Abstracta!Valor(id) = cpu.memoria[Logica(PosDe(cpu.indice_stack, id))]
<1>1. PICK ind \in Seq(Entrada), mem \in [Direcciones -> Int] : ind = cpu.indice_stack /\ mem = cpu.memoria
  BY Visible
<1>2. PICK ms : ms = Marcos(ind, mem) /\ ms = marcosVisibles
  BY <1>1, Visible
<1>3. CASE ind = <<>>
  BY <1>1, <1>2, <1>3, MarcosEs DEF Abstracta!Definida, HayVariable
<1>4. CASE ind # <<>>
  <2>1. PICK n \in Nat : n = Len(ind) /\ n \in DOMAIN ind /\ n \in 1 .. Len(ind)
    BY <1>4, Entradas
  <2>2. PICK e : e = ind[n]
    OBVIOUS
  <2>0. Len(ms) = n /\ ms[n] = Marco(ind[n], mem, n)
    BY <1>2, <2>1, MarcosEs
  <2>8. ms # <<>>
    BY <1>2, <1>4, MarcosEs
  <2>3. ms # <<>> /\ ms[Len(ms)] = Marco(e, mem, n)
    BY <2>0, <2>2, <2>8
  <2>4. PICK top : top = Abstracta!Tope
    OBVIOUS
  <2>5. top.vars = VarsDe(e, mem) /\ top.args = ArgsDe(e, mem)
    BY <1>2, <2>3, <2>4, MarcoEs DEF Abstracta!Tope, MarcoCon
  <2>6. CASE id \in Letras
    <3>1. DOMAIN top.vars = Nombres(e)
      BY <2>5 DEF VarsDe
    <3>2. id \in Nombres(e) <=> Definiciones(e, id) # {}
      BY DEF Nombres, Definiciones
    <3>3. Abstracta!Definida(id) <=> HayVariable(ind, id)
      BY <1>2, <1>4, <2>1, <2>2, <2>3, <2>4, <2>6, <3>1, <3>2 DEF Abstracta!Definida, HayVariable
    <3>4. ASSUME HayVariable(ind, id)
          PROVE  Abstracta!Valor(id) = mem[Logica(PosDe(ind, id))]
      <4>1. id \in Nombres(e)
        BY <2>1, <2>2, <2>6, <3>2, <3>4 DEF HayVariable
      <4>2. top.vars[id] = mem[Logica(e.variables[Max(Definiciones(e, id))].pos)]
        BY <2>5, <4>1 DEF VarsDe
      <4>3. PosDe(ind, id) = e.variables[Max(Definiciones(e, id))].pos
        BY <2>1, <2>2, <2>6 DEF PosDe, PosEn, TipoDe, CualDe
      <4> QED
        BY <2>4, <2>6, <4>2, <4>3 DEF Abstracta!Valor
    <3> QED
      BY <1>1, <3>3, <3>4
  <2>7. CASE id \notin Letras
    <3>1. PICK q \in Nat : q = Len(e.argumentos) /\ DOMAIN e.argumentos = 1 .. q
      BY <2>1, <2>2, Entradas
    <3>2. Len(top.args) = q
      <4>1. PICK f : f = ArgsDe(e, mem)
        OBVIOUS
      <4>2. DOMAIN f = 1 .. q /\ f \in [1 .. q -> Range(f)]
        BY <3>1, <4>1 DEF ArgsDe, Range
      <4>3. f \in Seq(Range(f))
        BY <4>2, SeqDef
      <4>4. Len(f) = q
        BY <4>2, <4>3, LenProperties
      <4> QED
        BY <2>5, <4>1, <4>4
    <3>3. Abstracta!Definida(id) <=> HayVariable(ind, id)
      BY <1>2, <1>4, <2>1, <2>2, <2>3, <2>4, <2>7, <3>1, <3>2 DEF Abstracta!Definida, HayVariable
    <3>4. ASSUME HayVariable(ind, id)
          PROVE  Abstracta!Valor(id) = mem[Logica(PosDe(ind, id))]
      <4>1. EsLugar(ind, n, "a", Numero[id] + 1) /\ "a" # "v"
        BY <2>1, <2>7, <3>4, LugarDe DEF TipoDe, CualDe
      <4>2. Numero[id] + 1 \in DOMAIN e.argumentos
        BY <2>2, <4>1 DEF EsLugar
      <4>3. top.args[Numero[id] + 1] = mem[Logica(e.argumentos[Numero[id] + 1])]
        BY <2>5, <4>2 DEF ArgsDe
      <4>4. PosDe(ind, id) = e.argumentos[Numero[id] + 1]
        BY <2>1, <2>2, <2>7, <4>1 DEF PosDe, PosEn, TipoDe, CualDe
      <4> QED
        BY <2>4, <2>7, <4>3, <4>4 DEF Abstracta!Valor
    <3> QED
      BY <1>1, <3>3, <3>4
  <2> QED
    BY <2>6, <2>7
<1> QED
  BY <1>3, <1>4

(* What a line may be, in the frames.                                      *)
Simula == programa' = programa /\ (cpu'.desviado \/ Abstracta!Next(Codigos))

LEMMA SimulaGuarda ==
    ASSUME NEW L, NEW op, Empieza(L, op), NEW m, EnOrden(m, L), Queda(m),
           NEW id \in Letras \cup Digitos, NEW v, Guardo(Pedida, m, id, v)
    PROVE  Abstracta!Guarda(id, v)
<1>1. PICK ind \in Seq(Entrada), mem \in [Direcciones -> Int] :
          ind = cpu.indice_stack /\ mem = cpu.memoria
  BY Visible
<1>0. Pedida.indice_stack = ind /\ Pedida.memoria = mem /\ Pedida.exit_code = "corre"
      /\ Pedida.pc = cpu.pc + 1
  BY <1>1, Visible DEF Empieza
<1>2. /\ HayVariable(ind, id) /\ m.exit_code = "corre" /\ m.pc = cpu.pc + 1
      /\ m.indice_stack = ind
      /\ m.memoria = ConDato(mem, Logica(PosDe(ind, id)), v)
  BY <1>0 DEF Guardo, ConDato
<1>3. PICK ms : ms = Marcos(ind, mem) /\ ms = marcosVisibles
  BY <1>1, Visible
<1>4. PICK fin : fin = cpu.fin_stack /\ Propias(ind, fin)
  BY <1>1, Visible
<1>7. PICK mem2 : mem2 = m.memoria /\ mem2 = ConDato(mem, Logica(PosDe(ind, id)), v)
  BY <1>2
<1>8. PICK g : g = Abstracta!Guardado(ms[Len(ms)], id, v) /\ g = Tras(ms[Len(ms)], id, v)
  BY DEF Tras
<1>9. Marcos(ind, mem2) = ConTope(ms, g)
  <2>1. PideGuardado(ind, mem, fin, id, v, mem2, ms, g)
    BY <1>2, <1>3, <1>4, <1>7, <1>8 DEF PideGuardado
  <2> QED
    BY <2>1, GuardadoPedido
<1>5. Marcos(ind, m.memoria) = ConTope(ms, Abstracta!Guardado(ms[Len(ms)], id, v))
  BY <1>7, <1>8, <1>9
<1>6. /\ pcVisible' = pcVisible + 1 /\ cpu'.exit_code = cpu.exit_code
      /\ marcosVisibles' = [ms EXCEPT ![Len(ms)] = Abstracta!Guardado(ms[Len(ms)], id, v)]
  BY <1>2, <1>5, Visible, VisibleDespues DEF ConTope
<1> QED
  BY <1>3, <1>6 DEF Abstracta!Guarda

LEMMA SimulaVariables == ASSUME PilaInv, variables PROVE Simula
<1>1. PICK L : Empieza(L, "variables")
  BY Empezar DEF variables
<1>2. PICK id \in Letras : id = Sentencia.id
  BY <1>1 DEF Empieza
<1>3. PICK m : m = definirVariable(Pedida, id)
  OBVIOUS
<1>4. Define(Pedida, m, id, L) /\ EnOrden(m, L)
  BY <1>1, <1>3, DefinirVariable DEF Empieza, Define
<1>5. Queda(m)
  BY <1>2, <1>3 DEF variables
<1>6. CASE m.desviado
  BY <1>4, <1>5, <1>6, VisibleDespues DEF Simula
<1>7. CASE m.error /\ m.exit_code = "FINALIZAR_STACK_OVERFLOW"
  <2>1. Abstracta!Para("FINALIZAR_STACK_OVERFLOW") /\ programa' = programa
    BY <1>4, <1>5, <1>7, VisibleDespues
  <2>2. Abstracta!Variables
    BY <1>1, <2>1, Visible DEF Abstracta!Variables
  <2> QED
    BY <2>1, <2>2 DEF Simula, Abstracta!Next
<1>8. CASE /\ ~m.error /\ m.exit_code = Pedida.exit_code /\ ~m.desviado
           /\ Pedida.indice_stack # <<>> /\ DeLaPila(Pedida.fin_stack)
           /\ m.indice_stack = EnLaCima(Pedida.indice_stack, id, Pedida.fin_stack)
           /\ m.memoria = Pedida.memoria
  <2>1. PICK ind \in Seq(Entrada), mem \in [Direcciones -> Int], fin \in {cpu.fin_stack} :
            ind = cpu.indice_stack /\ mem = cpu.memoria /\ fin = cpu.fin_stack
    BY <1>1, Visible
  <2>2. PICK ms : ms = Marcos(ind, mem) /\ ms = marcosVisibles
    BY <1>1, <2>1, Visible
  <2>3. /\ ind # <<>> /\ DeLaPila(fin) /\ m.indice_stack = EnLaCima(ind, id, fin)
        /\ m.memoria = mem /\ m.exit_code = "corre"
    BY <1>1, <1>8, <2>1, Visible
  <2>4. mem[Logica(fin)] = 0
    <3>1. ~Pedida.desviado
      BY <1>4, <1>8 DEF Define, SigueMal
    <3>2. EnBlanco(mem, fin)
      BY <1>1, <2>1, <3>1, Visible DEF Empieza, EnOrden
    <3>3. Logica(fin) \in Direcciones /\ Logica(fin) >= Logica(fin)
      BY <2>3, Direccion
    <3> QED
      BY <3>2, <3>3 DEF EnBlanco
  <2>10. PICK nueva : nueva = m.indice_stack /\ nueva = EnLaCima(ind, id, fin)
    BY <2>3
  <2>11. PICK g : g = Abstracta!Guardado(ms[Len(ms)], id, 0) /\ g = Tras(ms[Len(ms)], id, 0)
    BY DEF Tras
  <2>12. Marcos(nueva, mem) = ConTope(ms, g)
    <3>1. PideDefinida(ind, mem, fin, id, nueva, ms, g)
      BY <2>2, <2>3, <2>4, <2>10, <2>11 DEF PideDefinida
    <3> QED
      BY <3>1, DefinidaPedida
  <2>5. Marcos(m.indice_stack, m.memoria) =
            ConTope(ms, Abstracta!Guardado(ms[Len(ms)], id, 0))
    BY <2>3, <2>10, <2>11, <2>12
  <2>6. m.pc = cpu.pc + 1
    BY <1>1, <1>4 DEF Define, Empieza
  <2>7. /\ pcVisible' = pcVisible + 1 /\ cpu'.exit_code = cpu.exit_code /\ programa' = programa
        /\ marcosVisibles' = [ms EXCEPT ![Len(ms)] = Abstracta!Guardado(ms[Len(ms)], id, 0)]
    BY <1>1, <1>4, <1>5, <2>3, <2>5, <2>6, Visible, VisibleDespues DEF ConTope
  <2>8. Abstracta!Guarda(id, 0)
    BY <2>2, <2>7 DEF Abstracta!Guarda
  <2>9. Abstracta!Variables
    BY <1>1, <1>2, <2>8, Visible DEF Abstracta!Variables
  <2> QED
    BY <2>7, <2>9 DEF Simula, Abstracta!Next
<1> QED
  BY <1>1, <1>4, <1>6, <1>7, <1>8 DEF Define, Empieza

LEMMA SimulaConstante == ASSUME PilaInv, NEW b \in Basura, constante(b) PROVE Simula
<1>1. PICK L : Empieza(L, "constante")
  BY Empezar DEF constante
<1>2. PICK id \in Letras \cup Digitos : id = Sentencia.id
  BY <1>1 DEF Empieza
<1>3. PICK x : x = obtenerPosicionVariable(Pedida, id, b)
  OBVIOUS
<1>4. PICK m : m = asignar(x, x.ret, 2)
  OBVIOUS
<1>5. Constante(Pedida, m, id, L)
  <2>1. b \in Int
    BY PilaAssumption
  <2> QED
    BY <1>1, <1>3, <1>4, <2>1, LineaConstante DEF Empieza
<1>6. EnOrden(m, L) /\ Queda(m)
  BY <1>2, <1>3, <1>4, <1>5 DEF constante, Constante
<1>7. programa' = programa
  BY <1>6, VisibleDespues
<1>8. CASE m.desviado
  BY <1>6, <1>8, VisibleDespues DEF Simula
<1>9. CASE NoEsta(Pedida, m, id)
  <2>1. Abstracta!Para("FINALIZAR_EXCEPCION_MEMORIA")
    BY <1>6, <1>9, VisibleDespues DEF NoEsta
  <2>2. ~Abstracta!Definida(id)
    BY <1>1, <1>9, Visible, DefinidaEs DEF NoEsta
  <2>3. Abstracta!Asignacion
    BY <1>1, <1>2, <2>1, <2>2, Visible DEF Abstracta!Asignacion
  <2> QED
    BY <1>7, <2>3 DEF Simula, Abstracta!Next
<1>10. CASE Guardo(Pedida, m, id, 2)
  <2>1. Abstracta!Guarda(id, 2)
    BY <1>1, <1>6, <1>10, SimulaGuarda
  <2>2. Abstracta!Definida(id)
    BY <1>1, <1>10, Visible, DefinidaEs DEF Guardo
  <2>3. Abstracta!Asignacion
    BY <1>1, <1>2, <2>1, <2>2, Visible DEF Abstracta!Asignacion
  <2> QED
    BY <1>7, <2>3 DEF Simula, Abstracta!Next
<1> QED
  BY <1>5, <1>8, <1>9, <1>10 DEF Constante

LEMMA SimulaCopia == ASSUME PilaInv, NEW b \in Basura, copia(b) PROVE Simula
<1>1. PICK L : Empieza(L, "copia")
  BY Empezar DEF copia
<1>2. PICK id \in Letras \cup Digitos, de \in Letras \cup Digitos :
          id = Sentencia.id /\ de = Sentencia.de
  BY <1>1 DEF Empieza
<1>3. PICK x : x = obtenerPosicionVariable(Pedida, id, b)
  OBVIOUS
<1>4. PICK y : y = obtenerPosicionVariable(x, de, b)
  OBVIOUS
<1>5. PICK v : v = dereferenciar(y, y.ret)
  OBVIOUS
<1>6. PICK m : m = asignar(v, x.ret, v.ret)
  OBVIOUS
<1>7. Copio(Pedida, m, id, de, L)
  <2>1. b \in Int
    BY PilaAssumption
  <2> QED
    BY <1>1, <1>3, <1>4, <1>5, <1>6, <2>1, LineaCopia DEF Empieza
<1>8. EnOrden(m, L) /\ Queda(m)
  BY <1>2, <1>3, <1>4, <1>5, <1>6, <1>7 DEF copia, Copio
<1>9. programa' = programa
  BY <1>8, VisibleDespues
<1>10. CASE m.desviado
  BY <1>8, <1>10, VisibleDespues DEF Simula
<1>11. CASE NoEsta(Pedida, m, id) \/ NoEsta(Pedida, m, de)
  <2>1. Abstracta!Para("FINALIZAR_EXCEPCION_MEMORIA")
    BY <1>8, <1>11, VisibleDespues DEF NoEsta
  <2>2. ~(Abstracta!Definida(id) /\ Abstracta!Definida(de))
    BY <1>1, <1>11, Visible, DefinidaEs DEF NoEsta
  <2>3. Abstracta!Asignacion
    BY <1>1, <1>2, <2>1, <2>2, Visible DEF Abstracta!Asignacion
  <2> QED
    BY <1>9, <2>3 DEF Simula, Abstracta!Next
<1>12. CASE /\ HayVariable(Pedida.indice_stack, de)
            /\ Guardo(Pedida, m, id, Pedida.memoria[Logica(PosDe(Pedida.indice_stack, de))])
  <2>1. PICK w : w = Pedida.memoria[Logica(PosDe(Pedida.indice_stack, de))]
    OBVIOUS
  <2>2. Abstracta!Guarda(id, w)
    BY <1>1, <1>8, <1>12, <2>1, SimulaGuarda
  <2>3. Abstracta!Definida(id) /\ Abstracta!Definida(de) /\ Abstracta!Valor(de) = w
    BY <1>1, <1>12, <2>1, Visible, DefinidaEs DEF Guardo
  <2>4. Abstracta!Asignacion
    BY <1>1, <1>2, <2>2, <2>3, Visible DEF Abstracta!Asignacion
  <2> QED
    BY <1>9, <2>4 DEF Simula, Abstracta!Next
<1> QED
  BY <1>7, <1>10, <1>11, <1>12 DEF Copio

LEMMA SimulaLlamada == ASSUME PilaInv, NEW b \in Basura, llamada(b) PROVE Simula
<1>1. PICK L : Empieza(L, "llamada")
  BY Empezar DEF llamada
<1>2. PICK de \in Letras \cup Digitos, e \in -1 .. L : de = Sentencia.de /\ e = Sentencia.etiqueta
  BY <1>1 DEF Empieza
<1>3. PICK y : y = obtenerPosicionVariable(Pedida, de, b)
  OBVIOUS
<1>4. PICK v : v = dereferenciar(y, y.ret)
  OBVIOUS
<1>5. PICK f : f = definirVariable(llamarSinRetorno(v, e), "0")
  OBVIOUS
<1>6. PICK m : m = asignar(f, f.ret, v.ret)
  OBVIOUS
<1>7. Llamo(Pedida, m, e, de, L)
  <2>1. b \in Int /\ L \in Nat
    BY <1>1, PilaAssumption DEF Empieza
  <2> QED
    BY <1>1, <1>3, <1>4, <1>5, <1>6, <2>1, LineaLlamada DEF Empieza
<1>8. EnOrden(m, L) /\ Queda(m)
  BY <1>2, <1>3, <1>4, <1>5, <1>6, <1>7 DEF llamada, Llamo
<1>9. programa' = programa
  BY <1>8, VisibleDespues
<1>10. CASE m.desviado
  BY <1>8, <1>10, VisibleDespues DEF Simula
<1>11. CASE NoEsta(Pedida, m, de)
  <2>1. Abstracta!Para("FINALIZAR_EXCEPCION_MEMORIA") /\ ~Abstracta!Definida(de)
    BY <1>1, <1>8, <1>11, Visible, VisibleDespues, DefinidaEs DEF NoEsta
  <2>2. Abstracta!Llamada
    BY <1>1, <1>2, <2>1, Visible DEF Abstracta!Llamada
  <2> QED
    BY <1>9, <2>2 DEF Simula, Abstracta!Next
<1>12. CASE SinEtiqueta(Pedida, m, e, de)
  <2>1. /\ Abstracta!Para("FINALIZAR_ERROR_SIN_DEFINICION") /\ Abstracta!Definida(de)
        /\ e = -1
    BY <1>1, <1>8, <1>12, Visible, VisibleDespues, DefinidaEs DEF SinEtiqueta
  <2>2. Abstracta!Llamada
    BY <1>1, <1>2, <2>1, Visible DEF Abstracta!Llamada
  <2> QED
    BY <1>9, <2>2 DEF Simula, Abstracta!Next
<1>13. CASE SinLugar(Pedida, m, e, de)
  <2>1. /\ Abstracta!Para("FINALIZAR_STACK_OVERFLOW") /\ Abstracta!Definida(de)
        /\ e # -1
    BY <1>1, <1>8, <1>13, Visible, VisibleDespues, DefinidaEs DEF SinLugar
  <2>2. Abstracta!Llamada
    BY <1>1, <1>2, <2>1, Visible DEF Abstracta!Llamada
  <2> QED
    BY <1>9, <2>2 DEF Simula, Abstracta!Next
<1>14. CASE Invoco(Pedida, m, e, de)
  <2>1. PICK ind \in Seq(Entrada), mem \in [Direcciones -> Int], fin \in {cpu.fin_stack} :
            ind = cpu.indice_stack /\ mem = cpu.memoria /\ fin = cpu.fin_stack
    BY <1>1, Visible
  <2>2. PICK ms : ms = Marcos(ind, mem) /\ ms = marcosVisibles
    BY <1>1, <2>1, Visible
  <2>3. PICK w : w = mem[Logica(PosDe(ind, de))]
    OBVIOUS
  <2>4. PICK pc \in Int : pc = cpu.pc + 1 /\ Pedida.pc = pc
    BY <1>1, Visible DEF Empieza
  <2>0. Pedida.indice_stack = ind /\ Pedida.memoria = mem /\ Pedida.fin_stack = fin
        /\ Pedida.exit_code = "corre"
    BY <1>1, <2>1, Visible
  <2>5. /\ HayVariable(ind, de) /\ e # -1 /\ DeLaPila(fin)
        /\ m.exit_code = "corre" /\ m.pc = e
        /\ m.indice_stack = EnLaCima(Append(ind, EntradaNueva(pc, SinDestino)), "0", fin)
        /\ m.memoria = ConDato(mem, Logica(fin), w)
    BY <1>14, <2>0, <2>3, <2>4 DEF Invoco, ConDato
  <2>6. ind # <<>>
    BY <2>5 DEF HayVariable
  <2>7. Propias(ind, fin)
    BY <1>1, <2>1, Visible
  <2>13. PICK nueva, mem2 : /\ nueva = m.indice_stack /\ mem2 = m.memoria
                            /\ nueva = EnLaCima(Append(ind, EntradaNueva(pc, SinDestino)), "0", fin)
                            /\ mem2 = ConDato(mem, Logica(fin), w)
    BY <2>5
  <2>14. PICK h : h = MarcoNuevo(<<w>>, pc, FALSE)
    OBVIOUS
  <2>15. Marcos(nueva, mem2) = Append(Marcos(ind, mem), h)
    <3>1. PideArgumento(ind, mem, pc, fin, w, nueva, mem2, h)
      BY <2>5, <2>6, <2>7, <2>13, <2>14 DEF PideArgumento, PorUnArgumento, MarcoConUno
    <3> QED
      BY <3>1, ArgumentoPedido
  <2>8. Marcos(m.indice_stack, m.memoria) = Append(ms, MarcoNuevo(<<w>>, pc, FALSE))
    BY <2>2, <2>13, <2>14, <2>15
  <2>9. /\ marcosVisibles' = Append(marcosVisibles, MarcoNuevo(<<w>>, pcVisible + 1, FALSE))
        /\ pcVisible' = Abstracta!Sentencia.etiqueta /\ cpu'.exit_code = cpu.exit_code
    BY <1>1, <1>2, <1>8, <2>2, <2>4, <2>5, <2>8, Visible, VisibleDespues
  <2>10. Abstracta!Llama(<<w>>, FALSE)
    BY <2>9 DEF Abstracta!Llama, MarcoNuevo, MarcoCon
  <2>11. Abstracta!Definida(de) /\ Abstracta!Valor(de) = w
    BY <1>1, <2>1, <2>3, <2>5, DefinidaEs
  <2>12. Abstracta!Llamada
    BY <1>1, <1>2, <2>5, <2>10, <2>11, Visible DEF Abstracta!Llamada
  <2> QED
    BY <1>9, <2>12 DEF Simula, Abstracta!Next
<1> QED
  BY <1>7, <1>10, <1>11, <1>12, <1>13, <1>14 DEF Llamo

LEMMA SimulaLlamadaConRetorno ==
    ASSUME PilaInv, NEW b \in Basura, llamadaConRetorno(b) PROVE Simula
<1>1. PICK L : Empieza(L, "llamadaConRetorno")
  BY Empezar DEF llamadaConRetorno
<1>2. PICK id \in Letras \cup Digitos, e \in -1 .. L : id = Sentencia.id /\ e = Sentencia.etiqueta
  BY <1>1 DEF Empieza
<1>3. PICK x : x = obtenerPosicionVariable(Pedida, id, b)
  OBVIOUS
<1>4. PICK m : m = llamarConRetorno(x, e, x.ret)
  OBVIOUS
<1>5. LlamoPorValor(Pedida, m, e, id, L)
  <2>1. b \in Int /\ L \in Nat
    BY <1>1, PilaAssumption DEF Empieza
  <2> QED
    BY <1>1, <1>3, <1>4, <2>1, LineaLlamadaConRetorno DEF Empieza
<1>6. EnOrden(m, L) /\ Queda(m)
  BY <1>2, <1>3, <1>4, <1>5 DEF llamadaConRetorno, LlamoPorValor
<1>7. programa' = programa
  BY <1>6, VisibleDespues
<1>8. CASE m.desviado
  BY <1>6, <1>8, VisibleDespues DEF Simula
<1>9. CASE NoEsta(Pedida, m, id)
  <2>1. Abstracta!Para("FINALIZAR_EXCEPCION_MEMORIA") /\ ~Abstracta!Definida(id)
    BY <1>1, <1>6, <1>9, Visible, VisibleDespues, DefinidaEs DEF NoEsta
  <2>2. Abstracta!LlamadaConRetorno
    BY <1>1, <1>2, <2>1, Visible DEF Abstracta!LlamadaConRetorno
  <2> QED
    BY <1>7, <2>2 DEF Simula, Abstracta!Next
<1>10. CASE SinEtiqueta(Pedida, m, e, id)
  <2>1. /\ Abstracta!Para("FINALIZAR_ERROR_SIN_DEFINICION") /\ Abstracta!Definida(id)
        /\ e = -1
    BY <1>1, <1>6, <1>10, Visible, VisibleDespues, DefinidaEs DEF SinEtiqueta
  <2>2. Abstracta!LlamadaConRetorno
    BY <1>1, <1>2, <2>1, Visible DEF Abstracta!LlamadaConRetorno
  <2> QED
    BY <1>7, <2>2 DEF Simula, Abstracta!Next
<1>11. CASE /\ HayVariable(Pedida.indice_stack, id) /\ e # -1
            /\ ~m.error /\ m.exit_code = Pedida.exit_code /\ m.pc = e
            /\ m.memoria = Pedida.memoria
            /\ m.indice_stack =
                 Append(Pedida.indice_stack,
                        EntradaNueva(Pedida.pc, Logica(PosDe(Pedida.indice_stack, id))))
  <2>1. PICK ind \in Seq(Entrada), mem \in [Direcciones -> Int] : ind = cpu.indice_stack /\ mem = cpu.memoria
    BY <1>1, Visible
  <2>2. PICK ms : ms = Marcos(ind, mem) /\ ms = marcosVisibles
    BY <1>1, <2>1, Visible
  <2>3. PICK pc \in Int : pc = cpu.pc + 1 /\ Pedida.pc = pc
    BY <1>1, Visible DEF Empieza
  <2>4. PICK d : d = Logica(PosDe(ind, id))
    OBVIOUS
  <2>5. d \in Direcciones
    BY <1>1, <1>11, <2>1, <2>4, Visible, DireccionDe DEF Empieza
  <2>6. /\ HayVariable(ind, id) /\ m.exit_code = "corre" /\ m.memoria = mem
        /\ m.indice_stack = Append(ind, EntradaNueva(pc, d))
    BY <1>1, <1>11, <2>1, <2>3, <2>4, Visible
  <2>7. ind # <<>>
    BY <2>6 DEF HayVariable
  <2>8. Marcos(m.indice_stack, m.memoria) = Append(ms, MarcoNuevo(<<>>, pc, TRUE))
    BY <2>2, <2>5, <2>6, <2>7, MarcosLlamada
  <2>9. /\ marcosVisibles' = Append(marcosVisibles, MarcoNuevo(<<>>, pcVisible + 1, TRUE))
        /\ pcVisible' = Abstracta!Sentencia.etiqueta /\ cpu'.exit_code = cpu.exit_code
    BY <1>1, <1>2, <1>6, <1>11, <2>2, <2>3, <2>6, <2>8, Visible, VisibleDespues
  <2>10. Abstracta!Llama(<<>>, TRUE)
    BY <2>9 DEF Abstracta!Llama, MarcoNuevo, MarcoCon
  <2>11. Abstracta!Definida(id)
    BY <1>1, <2>1, <2>6, DefinidaEs
  <2>12. Abstracta!LlamadaConRetorno
    BY <1>1, <1>2, <1>11, <2>10, <2>11, Visible DEF Abstracta!LlamadaConRetorno
  <2> QED
    BY <1>7, <2>12 DEF Simula, Abstracta!Next
<1> QED
  BY <1>5, <1>8, <1>9, <1>10, <1>11 DEF LlamoPorValor

LEMMA SimulaSalto == ASSUME PilaInv, salto PROVE Simula
<1>1. PICK L : Empieza(L, "salto")
  BY Empezar DEF salto
<1>2. PICK e \in -1 .. L : e = Sentencia.etiqueta
  BY <1>1 DEF Empieza
<1>3. PICK m : m = irAlLabel(Pedida, e)
  OBVIOUS
<1>4. Salta(Pedida, m, e, L)
  BY <1>1, <1>3, IrAlLabel DEF Empieza
<1>5. EnOrden(m, L) /\ Queda(m) /\ MismaPila(m, Pedida)
  BY <1>2, <1>3, <1>4 DEF salto, Salta
<1>6. programa' = programa
  BY <1>5, VisibleDespues
<1>7. CASE e = -1 /\ m.error /\ m.exit_code = "FINALIZAR_ERROR_SIN_DEFINICION"
  <2>1. Abstracta!Para("FINALIZAR_ERROR_SIN_DEFINICION")
    BY <1>5, <1>7, VisibleDespues
  <2>2. Abstracta!Salto
    BY <1>1, <1>2, <1>7, <2>1, Visible DEF Abstracta!Salto
  <2> QED
    BY <1>6, <2>2 DEF Simula, Abstracta!Next
<1>8. CASE e # -1 /\ m.exit_code = Pedida.exit_code /\ m.pc = e
  <2>1. /\ pcVisible' = e /\ marcosVisibles' = marcosVisibles /\ cpu'.exit_code = cpu.exit_code
    BY <1>1, <1>5, <1>8, Visible, VisibleDespues DEF MismaPila
  <2>2. Abstracta!Salto
    BY <1>1, <1>2, <1>8, <2>1, Visible DEF Abstracta!Salto
  <2> QED
    BY <1>6, <2>2 DEF Simula, Abstracta!Next
<1> QED
  BY <1>1, <1>4, <1>7, <1>8 DEF Salta, Empieza

LEMMA SimulaEnd == ASSUME PilaInv, end PROVE Simula
<1>1. PICK L : Empieza(L, "end")
  BY Empezar DEF end
<1>2. PICK n : n = finalizar(Pedida)
  OBVIOUS
<1>3. Finaliza(Pedida, n, L) /\ EnOrden(n, L)
  BY <1>1, <1>2, Finalizar DEF Empieza, Finaliza
<1>4. PICK P \in BOOLEAN : P = (Len(cpu.indice_stack) = 1 /\ n.pc < Len(programa.lineas))
  OBVIOUS
<1>5. PICK m : m = [n EXCEPT !.desviado = @ \/ P]
  OBVIOUS
<1>6. /\ EnOrden(m, L) /\ MismaPila(m, n) /\ m.pc = n.pc /\ m.error = n.error
      /\ m.exit_code = n.exit_code /\ (m.desviado <=> n.desviado \/ P)
  BY <1>3, <1>5, Marca DEF EnOrden
<1>7. Queda(m)
  BY <1>2, <1>4, <1>5 DEF end
<1>8. programa' = programa
  BY <1>6, <1>7, VisibleDespues
<1>9. CASE m.desviado
  BY <1>6, <1>7, <1>9, VisibleDespues DEF Simula
<1>10. CASE ~m.desviado
  <2>1. PICK ind \in Seq(Entrada), mem \in [Direcciones -> Int] : ind = cpu.indice_stack /\ mem = cpu.memoria
    BY <1>1, Visible
  <2>2. PICK ms : ms = Marcos(ind, mem) /\ ms = marcosVisibles
    BY <1>1, <2>1, Visible
  <2>3. ~n.desviado /\ ~P
    BY <1>6, <1>10
  <2>4. /\ ind # <<>> /\ n.exit_code = "corre" /\ n.memoria = mem
        /\ n.indice_stack = Front(ind)
        /\ n.pc = IF Len(ind) = 1 THEN Pedida.pc ELSE Cima(Pedida).pos_retorno
    BY <1>1, <1>3, <2>1, <2>3, Visible DEF Finaliza, Empieza
  <2>5. PICK q \in Nat : q = Len(ind) /\ q \in 1 .. Len(ind) /\ q >= 1
    BY <2>4, Entradas
  <2>6. Len(ms) = q /\ ms[q] = Marco(ind[q], mem, q)
    BY <2>2, <2>5, MarcosEs
  <2>7. Marcos(Front(ind), mem) = SubSeq(ms, 1, Len(ms) - 1)
    BY <2>2, <2>4, MarcosSinUltima
  <2>8. /\ pcVisible' = n.pc /\ cpu'.exit_code = cpu.exit_code
        /\ marcosVisibles' = SubSeq(marcosVisibles, 1, Len(marcosVisibles) - 1)
    BY <1>1, <1>6, <1>7, <2>2, <2>4, <2>7, Visible, VisibleDespues DEF MismaPila
  <2>9. CASE q = 1
    <3>1. n.pc = cpu.pc + 1 /\ ~(n.pc < L) /\ n.pc \in 0 .. L
      BY <1>1, <1>3, <1>4, <2>1, <2>3, <2>4, <2>5, <2>9, Visible DEF Empieza, EnOrden, Sano
    <3>2. n.pc = L
      BY <1>1, <3>1, Visible
    <3>4. /\ Len(marcosVisibles) = 1 /\ ~(Len(marcosVisibles) > 1)
          /\ pcVisible + 1 = Len(programa.lineas) /\ pcVisible' = pcVisible + 1
          /\ Abstracta!Primitiva("end")
      BY <1>1, <2>2, <2>6, <2>8, <2>9, <3>1, <3>2, Visible
    <3>3. Abstracta!End
      BY <2>8, <3>4 DEF Abstracta!End
    <3> QED
      BY <1>8, <3>3 DEF Simula, Abstracta!Next
  <2>10. CASE q # 1
    <3>1. q > 1
      BY <2>5, <2>10
    <3>2. n.pc = ind[q].pos_retorno
      BY <1>1, <2>1, <2>4, <2>5, <2>10, Visible DEF Cima
    <3>3. ms[q].vuelve = ind[q].pos_retorno
      BY <2>6, MarcoEs DEF MarcoCon
    <3>4. n.pc = Abstracta!Tope.vuelve
      BY <2>2, <2>6, <3>2, <3>3 DEF Abstracta!Tope
    <3>5. Abstracta!End
      BY <1>1, <2>2, <2>6, <2>8, <3>1, <3>4, Visible DEF Abstracta!End
    <3> QED
      BY <1>8, <3>5 DEF Simula, Abstracta!Next
  <2> QED
    BY <2>9, <2>10
<1> QED
  BY <1>9, <1>10

LEMMA SimulaReturn == ASSUME PilaInv, NEW b \in Basura, return(b) PROVE Simula
<1>1. PICK L : Empieza(L, "return")
  BY Empezar DEF return
<1>2. PICK id \in Letras \cup Digitos : id = Sentencia.id
  BY <1>1 DEF Empieza
<1>3. PICK x : x = obtenerPosicionVariable(Pedida, id, b)
  OBVIOUS
<1>4. PICK v : v = dereferenciar(x, x.ret)
  OBVIOUS
<1>5. PICK n : n = retornar(v, v.ret)
  OBVIOUS
<1>6. Retorno(Pedida, n, cpu, id, L)
  <2>1. b \in Int
    BY PilaAssumption
  <2> QED
    BY <1>1, <1>3, <1>4, <1>5, <2>1, LineaReturn DEF Empieza, MismaPila
<1>7. PICK P \in BOOLEAN : P = (n.indice_stack # cpu.indice_stack /\ ~n.error)
  OBVIOUS
<1>8. PICK m : m = [n EXCEPT !.desviado = @ \/ P]
  OBVIOUS
<1>15. Sano(n, L) /\ (~(n.desviado \/ P) => EnOrden(n, L))
  BY <1>6, <1>7 DEF Retorno
<1>9. /\ EnOrden(m, L) /\ MismaPila(m, n) /\ m.pc = n.pc /\ m.error = n.error
      /\ m.exit_code = n.exit_code /\ (m.desviado <=> n.desviado \/ P)
  BY <1>8, <1>15, Marca
<1>10. Queda(m)
  BY <1>2, <1>3, <1>4, <1>5, <1>7, <1>8 DEF return
<1>11. programa' = programa
  BY <1>9, <1>10, VisibleDespues
<1>12. CASE m.desviado
  BY <1>9, <1>10, <1>12, VisibleDespues DEF Simula
<1>13. CASE ~m.desviado /\ NoEsta(Pedida, n, id)
  <2>1. Abstracta!Para("FINALIZAR_EXCEPCION_MEMORIA")
    BY <1>9, <1>10, <1>13, VisibleDespues DEF NoEsta
  <2>2. ~Abstracta!Definida(id)
    BY <1>1, <1>13, Visible, DefinidaEs DEF NoEsta
  <2>3. Abstracta!Return
    BY <1>1, <1>2, <2>1, <2>2, Visible DEF Abstracta!Return
  <2> QED
    BY <1>11, <2>3 DEF Simula, Abstracta!Next
<1>14. CASE /\ HayVariable(Pedida.indice_stack, id)
            /\ Cima(Pedida).pos_var_retorno = SinDestino \/ Len(Pedida.indice_stack) = 1
            /\ Igual(n, Pedida)
  <2>1. PICK ind \in Seq(Entrada), mem \in [Direcciones -> Int] : ind = cpu.indice_stack /\ mem = cpu.memoria
    BY <1>1, Visible
  <2>2. PICK ms : ms = Marcos(ind, mem) /\ ms = marcosVisibles
    BY <1>1, <2>1, Visible
  <2>3. HayVariable(ind, id) /\ ind # <<>>
    BY <1>1, <1>14, <2>1, Visible DEF HayVariable
  <2>4. PICK q \in Nat : q = Len(ind) /\ q \in 1 .. Len(ind)
    BY <2>3, Entradas
  <2>5. Len(ms) = q /\ ms[q] = Marco(ind[q], mem, q)
    BY <2>2, <2>4, MarcosEs
  <2>6. ind[q].pos_var_retorno = SinDestino \/ q = 1
    BY <1>1, <1>14, <2>1, <2>4, Visible DEF Cima
  <2>7. ~ms[q].conRetorno
    <3>1. ms[q].conRetorno = ConRetorno(ind[q], q)
      BY <2>5, MarcoEs DEF MarcoCon
    <3> QED
      BY <2>4, <2>6, <3>1, EsperaValor
  <2>8. ~Abstracta!Tope.conRetorno
    BY <2>2, <2>5, <2>7 DEF Abstracta!Tope
  <2>9. /\ m.exit_code = "corre" /\ m.pc = cpu.pc + 1 /\ m.indice_stack = ind /\ m.memoria = mem
    BY <1>1, <1>9, <1>14, <2>1, Visible DEF Igual, MismaPila, Empieza
  <2>10. pcVisible' = pcVisible + 1 /\ marcosVisibles' = marcosVisibles /\ cpu'.exit_code = cpu.exit_code
    BY <1>1, <1>9, <1>10, <2>2, <2>9, Visible, VisibleDespues
  <2>11. Abstracta!Definida(id)
    BY <1>1, <2>1, <2>3, DefinidaEs
  <2>12. Abstracta!Return
    BY <1>1, <1>2, <2>8, <2>10, <2>11, Visible DEF Abstracta!Return
  <2> QED
    BY <1>11, <2>12 DEF Simula, Abstracta!Next
<1> QED
  BY <1>6, <1>7, <1>9, <1>12, <1>13, <1>14 DEF Retorno

LEMMA SimulaPedido == ASSUME PilaInv, pedido PROVE Simula
<1>1. PICK op \in DOMAIN Codigos : \E codigo \in Codigos[op] :
          PideLinea(op) /\ Queda(Contesta(Pedida, codigo))
  BY DEF pedido
<1>2. PICK codigo \in Codigos[op] : PideLinea(op) /\ Queda(Contesta(Pedida, codigo))
  BY <1>1
<1>3. PICK L : Empieza(L, op)
  BY <1>2, Empezar
<1>4. PICK m : m = Contesta(Pedida, codigo)
  OBVIOUS
<1>5. /\ EnOrden(m, L) /\ MismaPila(m, Pedida) /\ m.pc = Pedida.pc
      /\ IF codigo \in {"ok", "bloqueado"} THEN ~m.error /\ m.exit_code = Pedida.exit_code
         ELSE m.error /\ m.exit_code = codigo
  BY <1>3, <1>4, Contestar DEF Empieza
<1>6. Queda(m)
  BY <1>2, <1>4
<1>7. programa' = programa
  BY <1>5, <1>6, VisibleDespues
<1>8. IF codigo \in {"ok", "bloqueado"}
        THEN pcVisible' = pcVisible + 1 /\ marcosVisibles' = marcosVisibles
             /\ cpu'.exit_code = cpu.exit_code
        ELSE Abstracta!Para(codigo)
  <2>1. CASE codigo \in {"ok", "bloqueado"}
    <3>1. m.exit_code = "corre" /\ m.pc = cpu.pc + 1 /\ m.indice_stack = cpu.indice_stack
          /\ m.memoria = cpu.memoria
      BY <1>3, <1>5, <2>1, Visible DEF MismaPila, Empieza
    <3> QED
      BY <1>3, <1>5, <1>6, <2>1, <3>1, Visible, VisibleDespues
  <2>2. CASE codigo \notin {"ok", "bloqueado"}
    <3>1. m.exit_code = codigo /\ m.exit_code # "corre"
      BY <1>5, <2>2 DEF EnOrden, Sano
    <3> QED
      BY <1>5, <1>6, <2>2, <3>1, VisibleDespues
  <2> QED
    BY <2>1, <2>2
<1>9. Abstracta!Primitiva(op)
  BY <1>3, Visible
<1>10. Abstracta!Pedido(Codigos)
  BY <1>8, <1>9 DEF Abstracta!Pedido
<1> QED
  BY <1>7, <1>10 DEF Simula, Abstracta!Next

LEMMA SimulaViaje ==
    ASSUME PilaInv, correrPCB \/ retornarPCB
    PROVE  Simula \/ UNCHANGED Abstracta!vars
<1>1. programa' = programa
  BY ViajeEnOrden
<1>2. CASE cpu' = cpu
  <2>1. pcVisible' = pcVisible /\ marcosVisibles' = marcosVisibles /\ cpu'.exit_code = cpu.exit_code
    BY <1>2 DEF pcVisible, marcosVisibles, Corre
  <2> QED
    BY <1>1, <2>1 DEF Abstracta!vars
<1>3. CASE /\ donde = "CPU" /\ MismaPila(cpu', cpu) /\ cpu'.pc = cpu.pc
           /\ cpu'.exit_code = codigoFinal(cpu)
  <2>1. cpu.error <=> cpu.exit_code # "corre"
    BY <1>3 DEF PilaInv, EnOrden, Sano
  <2>2. CASE codigoFinal(cpu) = cpu.exit_code
    <3>1. cpu'.indice_stack = cpu.indice_stack /\ cpu'.memoria = cpu.memoria
          /\ cpu'.exit_code = cpu.exit_code
      BY <1>3, <2>2 DEF MismaPila
    <3>2. pcVisible' = pcVisible /\ marcosVisibles' = marcosVisibles
      BY <1>3, <3>1 DEF pcVisible, marcosVisibles, Corre
    <3> QED
      BY <1>1, <3>1, <3>2 DEF Abstracta!vars
  <2>3. CASE codigoFinal(cpu) # cpu.exit_code
    <3>1. ~cpu.error /\ cpu.pc = Len(programa.lineas) /\ codigoFinal(cpu) = "FINALIZAR_OK"
      BY <2>3 DEF codigoFinal
    <3>2. cpu.exit_code = "corre" /\ pcVisible = cpu.pc
      BY <2>1, <3>1 DEF pcVisible, Corre
    <3>3. cpu'.exit_code = "FINALIZAR_OK" /\ pcVisible' = 0 /\ marcosVisibles' = <<>>
      BY <1>3, <3>1 DEF pcVisible, marcosVisibles, Corre
    <3>4. Abstracta!Termina
      BY <3>1, <3>2, <3>3 DEF Abstracta!Termina, Abstracta!Para
    <3> QED
      BY <1>1, <3>4 DEF Simula, Abstracta!Next
  <2> QED
    BY <2>2, <2>3
<1> QED
  BY <1>2, <1>3, ViajeEnOrden

(* The primitives, the loop and the trips of the PCB are the machine with  *)
(* frames and values, for every program, sizes of stack and page and width *)
(* of a char (PrimitivasAnsisop.c:16-419, CPU.c:42-120,                    *)
(* serializacion.c:55-169).                                                *)
THEOREM CpuImplementsFrames == Spec => ImplementaContextos
<1>1. Init => Abstracta!Init({programa})
  <2> SUFFICES ASSUME Init PROVE Abstracta!Init({programa})
    OBVIOUS
  <2>1. PICK e \in Entrada : /\ e = EntradaNueva(0, 0)
                             /\ DOMAIN e.variables = {} /\ DOMAIN e.argumentos = {}
                             /\ e.pos_retorno = 0 /\ e.pos_var_retorno = 0
    BY EsEntradaNueva
  <2>2. PICK ind, mem : ind = <<e>> /\ mem = [d \in Direcciones |-> 0]
    OBVIOUS
  <2>3. cpu.pc = programa.inicio /\ cpu.exit_code = "corre" /\ cpu.indice_stack = ind /\ cpu.memoria = mem
    BY <2>1, <2>2 DEF Init, EntradaNueva
  <2>4. pcVisible = programa.inicio /\ marcosVisibles = Marcos(ind, mem)
    BY <2>3 DEF pcVisible, marcosVisibles, Corre
  <2>5. ind \in Seq(Entrada) /\ Len(ind) = 1 /\ ind[1] = e
    BY <2>2
  <2>7. ConRetorno(e, 1) = FALSE
    BY EsperaValor
  <2>8. Marco(e, mem, 1) = [vars |-> <<>>, args |-> <<>>, vuelve |-> 0, conRetorno |-> FALSE]
    BY <2>1, <2>7, MarcoEs, SinVariables, SinArgumentos DEF MarcoCon
  <2>9. PICK f : f = [vars |-> <<>>, args |-> <<>>, vuelve |-> 0, conRetorno |-> FALSE]
    OBVIOUS
  <2>10. Marcos(ind, mem) = [i \in 1 .. 1 |-> Marco(ind[i], mem, i)]
    BY <2>5, MarcosEs
  <2>11. \A i \in 1 .. 1 : Marco(ind[i], mem, i) = f
    BY <2>5, <2>8, <2>9
  <2>12. Marcos(ind, mem) = [i \in 1 .. 1 |-> f]
    BY <2>10, <2>11
  <2>13. <<f>> = [i \in 1 .. 1 |-> f]
    OBVIOUS
  <2> QED
    BY <2>3, <2>4, <2>9, <2>12, <2>13 DEF Abstracta!Init
<1>2. PilaInv /\ [Next]_vars => [cpu'.desviado \/ Abstracta!Next(Codigos)]_(Abstracta!vars)
  <2>1. ASSUME UNCHANGED vars PROVE UNCHANGED Abstracta!vars
    <3>1. pcVisible' = pcVisible /\ marcosVisibles' = marcosVisibles /\ programa' = programa /\ cpu' = cpu
      BY <2>1 DEF vars, pcVisible, marcosVisibles, Corre
    <3> QED
      BY <3>1 DEF Abstracta!vars
  <2>2. ASSUME PilaInv, Next PROVE Simula \/ UNCHANGED Abstracta!vars
    BY <2>2, SimulaVariables, SimulaConstante, SimulaCopia, SimulaLlamada, SimulaLlamadaConRetorno,
       SimulaSalto, SimulaEnd, SimulaReturn, SimulaPedido, SimulaViaje DEF Next
  <2> QED
    BY <2>1, <2>2 DEF Simula
<1> QED
  BY <1>1, <1>2, PilaInvariant, PTL DEF Spec, ImplementaContextos

=============================================================================
