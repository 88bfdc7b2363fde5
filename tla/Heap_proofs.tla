---------------------------- MODULE Heap_proofs ----------------------------
(***************************************************************************)
(* Proofs about the dynamic memory of the programs, for any programs, any  *)
(* requests, any size of a page and any number of frames: pages stay well  *)
(* formed, the numbers the Kernel and Memoria give them agree, and what    *)
(* the CPUs see is an allocator.                                           *)
(*                                                                         *)
(* First what tryAllocate (Partir), compressPageHeap (Comprimir) and       *)
(* liberar (LiberarBloque) do to one page and to its free bytes; then what *)
(* each operation does to one program (Bien) and to the blocks it holds    *)
(* (UsadosDe); last the steps.  IInv, the inductive invariant, says Bien   *)
(* of every program: over the properties, it has that the pages of code    *)
(* and stack are assigned while the program lives, and that until the      *)
(* Kernel numbers its first page there is no other; without it the first   *)
(* page of the heap could fall on one that exists; and that the last block *)
(* of a page is free (UltimoLibre), which is why no pointer to a block     *)
(* falls on the page after its own, and a pointer names one block at most. *)
(* A step after which the heap is "indefinido" leaves every page as it     *)
(* was and is the last one: IInv needs no exception for it.                *)
(***************************************************************************)
EXTENDS Heap, FiniteSetTheorems, SequenceTheorems, WellFoundedInduction, TLAPS

-----------------------------------------------------------------------------
(* A set of naturals that is not empty has a least element. *)
LEMMA MenorDe ==
    ASSUME NEW S, S \subseteq Nat, S # {}
    PROVE  \E x \in S : \A y \in S : x <= y
<1> DEFINE R == {ss \in Nat \X Nat : ss[1] < ss[2]}
<1>1. IsWellFoundedOn(R, Nat)
  BY NatLessThanWellFounded DEF OpToRel
<1> HIDE DEF R
<1>2. \E x \in S : \A y \in S : ~ (<<y, x>> \in R)
  BY <1>1, WFMin
<1>3. ASSUME NEW x \in Nat, NEW y \in Nat, ~ (<<y, x>> \in R) PROVE x <= y
  BY <1>3 DEF R
<1> QED
  BY <1>2, <1>3

LEMMA MayorDe ==
    ASSUME NEW N \in Nat, NEW S, S \subseteq 0 .. N, S # {}
    PROVE  \E x \in S : \A y \in S : y <= x
<1> DEFINE D == {N - x : x \in S}
<1>1. D \subseteq Nat /\ D # {}
  <2>1. \A x \in S : N - x \in Nat
    OBVIOUS
  <2> QED
    BY <2>1
<1>2. PICK m \in D : \A y \in D : m <= y
  BY <1>1, MenorDe
<1>3. PICK x \in S : m = N - x
  BY <1>2
<1>4. ASSUME NEW y \in S PROVE y <= x
  BY <1>2, <1>3
<1> QED
  BY <1>4

(* The size of a page and of the metadata of a block.                      *)
LEMMA Medidas ==
    /\ tamanio_pag_memoria \in Nat /\ sizeof_metadata = 5 /\ tamanio_pag_memoria > 10
    /\ Offsets = 0 .. tamanio_pag_memoria - 1
    /\ \A x : x \in Offsets <=> x \in Int /\ 0 <= x /\ x < tamanio_pag_memoria
BY HeapAssumption DEF Offsets, sizeof_metadata

-----------------------------------------------------------------------------
(* The blocks of a page follow each other from its first byte to its last. *)
Encadenada(pag) ==
    /\ 0 \in DOMAIN pag /\ DOMAIN pag \subseteq Offsets
    /\ \A o \in DOMAIN pag :
          /\ pag[o] \in [isFree : BOOLEAN, size : Offsets]
          /\ Fin(pag, o) \in DOMAIN pag \cup {tamanio_pag_memoria}
          /\ \A x \in DOMAIN pag : x > o => x >= Fin(pag, o)
SinVecinos(pag) == \A o \in DOMAIN pag : ~Absorbido(pag, o)
Quedan(pag) == {o \in DOMAIN pag : ~Absorbido(pag, o)}

LEMMA Bloque ==
    ASSUME NEW pag, Encadenada(pag), NEW o \in DOMAIN pag
    PROVE  /\ o \in Int /\ 0 <= o /\ o < tamanio_pag_memoria
           /\ pag[o].isFree \in BOOLEAN /\ pag[o].size \in Nat
           /\ Fin(pag, o) = o + 5 + pag[o].size
           /\ Fin(pag, o) \in Int /\ o + 5 <= Fin(pag, o) /\ Fin(pag, o) <= tamanio_pag_memoria
           /\ Fin(pag, o) \in DOMAIN pag \/ Fin(pag, o) = tamanio_pag_memoria
           /\ \A x \in DOMAIN pag : x > o => x >= Fin(pag, o)
<1>1. o \in Offsets /\ pag[o] \in [isFree : BOOLEAN, size : Offsets]
  BY DEF Encadenada
<1>2. Fin(pag, o) = o + 5 + pag[o].size
  BY Medidas DEF Fin
<1>3. Fin(pag, o) \in DOMAIN pag \/ Fin(pag, o) = tamanio_pag_memoria
  BY DEF Encadenada
<1>4. Fin(pag, o) <= tamanio_pag_memoria
  BY <1>3, Medidas DEF Encadenada
<1> QED
  BY <1>1, <1>2, <1>3, <1>4, Medidas DEF Encadenada

(* What follows a block is the end of the one before it.                   *)
LEMMA Anterior ==
    ASSUME NEW pag, Encadenada(pag), NEW a \in DOMAIN pag \cup {tamanio_pag_memoria}, a > 0
    PROVE  \E c \in DOMAIN pag : c < a /\ Fin(pag, c) = a
<1>1. a \in Int
  BY Bloque, Medidas
<1> DEFINE S == {c \in DOMAIN pag : c < a}
<1>2. S \subseteq 0 .. tamanio_pag_memoria /\ 0 \in S
  BY Bloque, Medidas DEF Encadenada
<1>3. PICK c \in S : \A y \in S : y <= c
  BY <1>2, MayorDe, Medidas
<1>4. c \in DOMAIN pag /\ c < a
  BY <1>3
<1>5. Fin(pag, c) <= a
  BY <1>1, <1>4, Bloque
<1>6. ~(Fin(pag, c) < a)
  <2> SUFFICES ASSUME Fin(pag, c) < a PROVE FALSE
    OBVIOUS
  <2>1. Fin(pag, c) \in DOMAIN pag
    <3>1. a <= tamanio_pag_memoria
      <4>1. a \in DOMAIN pag => a < tamanio_pag_memoria
        BY Bloque
      <4> QED
        BY <1>1, <4>1, Medidas
    <3> QED
      BY <1>1, <1>4, <3>1, Bloque, Medidas
  <2>2. Fin(pag, c) \in S
    BY <2>1
  <2> QED
    BY <1>3, <1>4, <2>2, Bloque
<1> QED
  BY <1>1, <1>4, <1>5, <1>6, Bloque

(* Two blocks do not overlap.                                              *)
LEMMA Disjuntos ==
    ASSUME NEW pag, Encadenada(pag), NEW a \in DOMAIN pag, NEW b \in DOMAIN pag, a # b
    PROVE  Fin(pag, a) <= b \/ Fin(pag, b) <= a
<1>1. a < b \/ b < a
  BY Bloque
<1> QED
  BY <1>1, Bloque

(* tryAllocate: the block is cut in two, the one given away and what is    *)
(* left of it.                                                             *)
LEMMA Partir ==
    ASSUME NEW pag, Encadenada(pag), SinVecinos(pag), NEW o \in DOMAIN pag, NEW n \in Nat,
           Alcanza(pag[o], n)
    PROVE  LET q == partir(pag, o, n) IN
           /\ Encadenada(q) /\ SinVecinos(q) /\ ~UnSoloBloque(q)
           /\ o + 5 + n < tamanio_pag_memoria
           /\ o \in DOMAIN q /\ ~q[o].isFree /\ q[o].size = n
           /\ \A x \in DOMAIN pag : x # o => x \in DOMAIN q /\ q[x] = pag[x]
           /\ \A x \in DOMAIN q : ~q[x].isFree => x \in DOMAIN pag
           /\ \A x \in Offsets : \A a \in DOMAIN pag :
                 pag[a].isFree /\ a + 5 <= x /\ x < Fin(pag, a) =>
                    \/ o + 5 <= x /\ x < o + 5 + (n + 5)
                    \/ \E b \in DOMAIN q : q[b].isFree /\ b + 5 <= x /\ x < Fin(q, b)
<1> DEFINE q == partir(pag, o, n)
           r == o + 5 + n
<1>1. /\ o \in Int /\ 0 <= o /\ pag[o].isFree /\ pag[o].size \in Nat /\ pag[o].size >= n + 5
      /\ Fin(pag, o) = o + 5 + pag[o].size /\ Fin(pag, o) <= tamanio_pag_memoria
      /\ tamanio_pag_memoria \in Int
  BY Bloque, Medidas DEF Alcanza
<1>2. /\ DOMAIN q = DOMAIN pag \cup {r}
      /\ q[o] = [isFree |-> FALSE, size |-> n]
      /\ r \notin DOMAIN pag
      /\ q[r] = [isFree |-> TRUE, size |-> pag[o].size - n - 5]
      /\ \A x \in DOMAIN pag : x # o => q[x] = pag[x]
  <2>1. r \notin DOMAIN pag
    BY <1>1, Bloque
  <2> QED
    BY <1>1, <2>1, Medidas DEF partir
<1>3. r \in Int /\ r > o /\ r >= 5 /\ r + 5 <= Fin(pag, o) /\ r < tamanio_pag_memoria
  BY <1>1
<1> HIDE DEF q, r
<1>4. /\ Fin(q, o) = r /\ Fin(q, r) = Fin(pag, o)
      /\ \A x \in DOMAIN pag : x # o => Fin(q, x) = Fin(pag, x)
  <2>1. Fin(q, o) = r
    BY <1>2, Medidas DEF Fin, r
  <2>2. Fin(q, r) = Fin(pag, o)
    BY <1>1, <1>2, Medidas DEF Fin, r
  <2> QED
    BY <1>2, <2>1, <2>2 DEF Fin
<1>5. \A x \in DOMAIN pag : x > o <=> x > r
  BY <1>1, <1>3, Bloque
<1>6. Encadenada(q)
  <2>1. 0 \in DOMAIN q /\ DOMAIN q \subseteq Offsets
    BY <1>2, <1>3, Medidas DEF Encadenada
  <2>2. \A x \in DOMAIN q : q[x] \in [isFree : BOOLEAN, size : Offsets]
    <3>1. n \in Offsets /\ pag[o].size - n - 5 \in Offsets
      BY <1>1, Medidas
    <3>2. q[o] \in [isFree : BOOLEAN, size : Offsets] /\ q[r] \in [isFree : BOOLEAN, size : Offsets]
      BY <1>2, <3>1
    <3>3. \A x \in DOMAIN pag : pag[x] \in [isFree : BOOLEAN, size : Offsets]
      BY DEF Encadenada
    <3> QED
      BY <1>2, <3>2, <3>3
  <2>3. \A x \in DOMAIN q : Fin(q, x) \in DOMAIN q \cup {tamanio_pag_memoria}
    BY <1>2, <1>4 DEF Encadenada
  <2>4. \A x \in DOMAIN q : \A y \in DOMAIN q : y > x => y >= Fin(q, x)
    <3> SUFFICES ASSUME NEW x \in DOMAIN q, NEW y \in DOMAIN q, y > x PROVE y >= Fin(q, x)
      OBVIOUS
    <3>1. CASE x = o
      BY <1>1, <1>2, <1>3, <1>4, <1>5, <3>1, Bloque
    <3>2. CASE x = r
      <4>1. y \in DOMAIN pag /\ y > o
        BY <1>1, <1>2, <1>3, <1>5, <3>2, Bloque
      <4> QED
        BY <1>4, <3>2, <4>1, Bloque
    <3>3. CASE x # o /\ x # r /\ y = r
      <4>1. x \in DOMAIN pag /\ x < o
        BY <1>1, <1>2, <1>3, <1>5, <3>3, Bloque
      <4>2. o >= Fin(pag, x) /\ Fin(pag, x) \in Int
        BY <1>1, <4>1, Bloque
      <4> QED
        BY <1>1, <1>3, <1>4, <3>3, <4>1, <4>2
    <3>4. CASE x # o /\ x # r /\ y # r
      BY <1>2, <1>4, <3>4, Bloque
    <3> QED
      BY <3>1, <3>2, <3>3, <3>4
  <2> QED
    BY <2>1, <2>2, <2>3, <2>4 DEF Encadenada
<1>7. SinVecinos(q)
  <2> SUFFICES ASSUME NEW a \in DOMAIN q, NEW b \in DOMAIN q, q[a].isFree, q[b].isFree, Fin(q, b) = a
               PROVE  FALSE
    BY DEF SinVecinos, Absorbido
  <2>1. \A x \in DOMAIN pag : \A y \in DOMAIN pag : pag[x].isFree /\ pag[y].isFree => Fin(pag, y) # x
    BY DEF SinVecinos, Absorbido
  <2>2. a # o /\ b # o
    BY <1>2
  <2>3. CASE a = r
    <3>1. b \in DOMAIN pag
      <4>1. Fin(q, r) # r
        BY <1>3, <1>4, <1>1
      <4> QED
        BY <1>2, <2>3, <4>1
    <3>2. Fin(pag, b) = r
      BY <1>4, <2>2, <2>3, <3>1
    <3> QED
      BY <1>2, <1>3, <3>1, <3>2, Bloque
  <2>4. CASE a # r /\ b = r
    BY <1>1, <1>2, <1>4, <2>1, <2>2, <2>4
  <2>5. CASE a # r /\ b # r
    BY <1>2, <1>4, <2>1, <2>2, <2>5
  <2> QED
    BY <2>3, <2>4, <2>5
<1>8. ~UnSoloBloque(q)
  <2>1. 0 \in DOMAIN q /\ r \in DOMAIN q /\ Fin(q, 0) <= r
    BY <1>2, <1>3, <1>6, Bloque DEF Encadenada
  <2>2. Fin(q, 0) = 5 + q[0].size /\ q[0].size \in Nat
    BY <1>6, <2>1, Bloque
  <2> QED
    BY <1>1, <1>3, <2>1, <2>2, Medidas DEF UnSoloBloque
<1>9. \A x \in DOMAIN q : ~q[x].isFree => x \in DOMAIN pag
  BY <1>2
<1>10. ASSUME NEW x \in Offsets, NEW a \in DOMAIN pag, pag[a].isFree, a + 5 <= x, x < Fin(pag, a),
              ~(o + 5 <= x /\ x < o + 5 + (n + 5))
       PROVE  \E b \in DOMAIN q : q[b].isFree /\ b + 5 <= x /\ x < Fin(q, b)
  <2>1. CASE a = o
    <3>1. r + 5 <= x
      BY <1>1, <1>10, <2>1, Medidas DEF r
    <3> QED
      BY <1>2, <1>4, <1>10, <2>1, <3>1
  <2>2. CASE a # o
    BY <1>2, <1>4, <1>10, <2>2
  <2> QED
    BY <2>1, <2>2
<1> QED
  BY <1>2, <1>3, <1>6, <1>7, <1>8, <1>9, <1>10 DEF q, r

(* A page that was just asked for.                                         *)
LEMMA Nueva ==
    /\ Encadenada(paginaNueva) /\ SinVecinos(paginaNueva) /\ DOMAIN paginaNueva = {0}
    /\ paginaNueva[0] = [isFree |-> TRUE, size |-> tamanio_pag_memoria - 5]
    /\ Fin(paginaNueva, 0) = tamanio_pag_memoria
<1>1. /\ DOMAIN paginaNueva = {0}
      /\ paginaNueva[0] = [isFree |-> TRUE, size |-> tamanio_pag_memoria - 5]
  BY Medidas DEF paginaNueva
<1>2. Fin(paginaNueva, 0) = tamanio_pag_memoria
  BY <1>1, Medidas DEF Fin
<1>3. Encadenada(paginaNueva)
  <2>1. tamanio_pag_memoria - 5 \in Offsets /\ 0 \in Offsets
    BY Medidas
  <2>2. paginaNueva[0] \in [isFree : BOOLEAN, size : Offsets]
    BY <1>1, <2>1
  <2>3. \A x \in DOMAIN paginaNueva : x = 0
    BY <1>1
  <2> QED
    <3>1. \A x \in DOMAIN paginaNueva : paginaNueva[x] \in [isFree : BOOLEAN, size : Offsets]
      BY <2>2, <2>3
    <3>2. \A x \in DOMAIN paginaNueva : Fin(paginaNueva, x) = tamanio_pag_memoria
      BY <1>2, <2>3
    <3>3. \A x, y \in DOMAIN paginaNueva : ~(y > x)
      BY <2>3
    <3>4. 0 \in DOMAIN paginaNueva /\ DOMAIN paginaNueva \subseteq Offsets
      BY <1>1, <2>1
    <3> QED
      BY <3>1, <3>2, <3>3, <3>4 DEF Encadenada
<1>4. SinVecinos(paginaNueva)
  BY <1>1, <1>2, Medidas DEF SinVecinos, Absorbido
<1> QED
  BY <1>1, <1>2, <1>3, <1>4

Siguiente(pag, o) ==
    CHOOSE x \in Quedan(pag) \cup {tamanio_pag_memoria} : x > o /\ \A y \in Quedan(pag) : y > o => x <= y

(* The next block that stays, or the end of the page.                      *)
LEMMA SiguienteDe ==
    ASSUME NEW pag, Encadenada(pag), NEW o \in DOMAIN pag
    PROVE  /\ Siguiente(pag, o) \in Quedan(pag) \cup {tamanio_pag_memoria}
           /\ Siguiente(pag, o) \in Int /\ Siguiente(pag, o) > o
           /\ Siguiente(pag, o) <= tamanio_pag_memoria
           /\ \A y \in Quedan(pag) : y > o => Siguiente(pag, o) <= y
           /\ Siguiente(pag, o) >= Fin(pag, o)
<1> DEFINE S == {x \in Quedan(pag) \cup {tamanio_pag_memoria} : x > o}
<1>1. \A x \in Quedan(pag) : x \in DOMAIN pag /\ x \in Int /\ 0 <= x /\ x < tamanio_pag_memoria
  BY Bloque DEF Quedan
<1>2. S \subseteq Nat /\ S # {}
  <2>1. tamanio_pag_memoria \in S
    BY Bloque
  <2> QED
    BY <1>1, <2>1, Medidas
<1>3. PICK m \in S : \A y \in S : m <= y
  BY <1>2, MenorDe
<1>4. \E x \in Quedan(pag) \cup {tamanio_pag_memoria} :
          x > o /\ \A y \in Quedan(pag) : y > o => x <= y
  BY <1>3
<1>5. /\ Siguiente(pag, o) \in Quedan(pag) \cup {tamanio_pag_memoria}
      /\ Siguiente(pag, o) > o /\ \A y \in Quedan(pag) : y > o => Siguiente(pag, o) <= y
  BY <1>4 DEF Siguiente
<1>6. CASE Siguiente(pag, o) = tamanio_pag_memoria
  BY <1>5, <1>6, Bloque, Medidas
<1>7. CASE Siguiente(pag, o) \in Quedan(pag)
  BY <1>1, <1>5, <1>7, Bloque, Medidas
<1> QED
  BY <1>5, <1>6, <1>7

LEMMA ComprimirEs ==
    ASSUME NEW pag
    PROVE  /\ DOMAIN comprimir(pag) = Quedan(pag)
           /\ \A o \in Quedan(pag) :
                 comprimir(pag)[o] =
                    IF pag[o].isFree THEN [isFree |-> TRUE, size |-> Siguiente(pag, o) - o - 5] ELSE pag[o]
BY Medidas DEF comprimir, Quedan, Siguiente

(* Blocks in use stay, with the blocks that follow them.                   *)
LEMMA UsadosQuedan ==
    ASSUME NEW pag, Encadenada(pag)
    PROVE  /\ 0 \in Quedan(pag)
           /\ \A o \in DOMAIN pag : ~pag[o].isFree => o \in Quedan(pag)
           /\ \A o \in DOMAIN pag : ~pag[o].isFree /\ Fin(pag, o) \in DOMAIN pag => Fin(pag, o) \in Quedan(pag)
           /\ \A o \in DOMAIN pag : o > 0 =>
                 (o \in Quedan(pag) /\ pag[o].isFree =>
                    \E c \in DOMAIN pag : c < o /\ Fin(pag, c) = o /\ ~pag[c].isFree)
<1>1. 0 \in Quedan(pag)
  <2>1. \A a \in DOMAIN pag : Fin(pag, a) # 0
    BY Bloque
  <2> QED
    BY <2>1 DEF Quedan, Absorbido, Encadenada
<1>2. \A o \in DOMAIN pag : ~pag[o].isFree => o \in Quedan(pag)
  BY DEF Quedan, Absorbido
<1>3. ASSUME NEW o \in DOMAIN pag, ~pag[o].isFree, Fin(pag, o) \in DOMAIN pag
      PROVE  Fin(pag, o) \in Quedan(pag)
  <2> SUFFICES ASSUME NEW a \in DOMAIN pag, pag[a].isFree, Fin(pag, a) = Fin(pag, o) PROVE FALSE
    BY <1>3 DEF Quedan, Absorbido
  <2>1. a # o
    BY <1>3
  <2> QED
    BY <2>1, Disjuntos, Bloque
<1>4. ASSUME NEW o \in DOMAIN pag, o > 0, o \in Quedan(pag), pag[o].isFree
      PROVE  \E c \in DOMAIN pag : c < o /\ Fin(pag, c) = o /\ ~pag[c].isFree
  <2>1. PICK c \in DOMAIN pag : c < o /\ Fin(pag, c) = o
    BY <1>4, Anterior
  <2>2. ~pag[c].isFree
    BY <1>4, <2>1, Bloque DEF Quedan, Absorbido
  <2> QED
    BY <2>1, <2>2
<1> QED
  BY <1>1, <1>2, <1>3, <1>4

(* compressPageHeap: the blocks in use are what they were, no two free     *)
(* ones are neighbours, and every byte that was free is free.              *)
LEMMA Comprimir ==
    ASSUME NEW pag, Encadenada(pag)
    PROVE  LET q == comprimir(pag) IN
           /\ Encadenada(q) /\ SinVecinos(q)
           /\ \A o \in DOMAIN pag : ~pag[o].isFree => o \in DOMAIN q /\ q[o] = pag[o]
           /\ \A o \in DOMAIN q : o \in DOMAIN pag /\ q[o].isFree = pag[o].isFree
           /\ \A x \in Offsets : \A a \in DOMAIN pag :
                 pag[a].isFree /\ a + 5 <= x /\ x < Fin(pag, a) =>
                    \E b \in DOMAIN q : q[b].isFree /\ b + 5 <= x /\ x < Fin(q, b)
<1> DEFINE q == comprimir(pag)
<1>1. /\ DOMAIN q = Quedan(pag)
      /\ \A o \in Quedan(pag) : pag[o].isFree => q[o] = [isFree |-> TRUE, size |-> Siguiente(pag, o) - o - 5]
      /\ \A o \in Quedan(pag) : ~pag[o].isFree => q[o] = pag[o]
  BY ComprimirEs
<1> HIDE DEF q
<1>2. \A o \in Quedan(pag) : o \in DOMAIN pag /\ o \in Int
  BY Bloque DEF Quedan
<1>3. \A o \in Quedan(pag) : pag[o].isFree => Fin(q, o) = Siguiente(pag, o)
  BY <1>1, <1>2, SiguienteDe, Medidas DEF Fin
<1>4. \A o \in Quedan(pag) : ~pag[o].isFree => Fin(q, o) = Fin(pag, o)
  BY <1>1 DEF Fin
<1>5. \A o \in Quedan(pag) : q[o].isFree <=> pag[o].isFree
  <2>1. \A o \in Quedan(pag) : pag[o].isFree \in BOOLEAN
    BY <1>2, Bloque
  <2> QED
    BY <1>1, <2>1
<1>6. Encadenada(q)
  <2>1. 0 \in DOMAIN q /\ DOMAIN q \subseteq Offsets
    BY <1>1, <1>2, UsadosQuedan DEF Encadenada
  <2>2. ASSUME NEW o \in DOMAIN q PROVE q[o] \in [isFree : BOOLEAN, size : Offsets]
    <3>1. o \in Quedan(pag) /\ o \in DOMAIN pag
      BY <1>1, <1>2, <2>2
    <3>2. Siguiente(pag, o) - o - 5 \in Offsets
      BY <3>1, SiguienteDe, Bloque, Medidas
    <3>3. pag[o] \in [isFree : BOOLEAN, size : Offsets]
      BY <3>1 DEF Encadenada
    <3>4. CASE pag[o].isFree
      <4>1. q[o] = [isFree |-> TRUE, size |-> Siguiente(pag, o) - o - 5]
        BY <1>1, <3>1, <3>4
      <4>2. [isFree |-> TRUE, size |-> Siguiente(pag, o) - o - 5] \in [isFree : BOOLEAN, size : Offsets]
        BY <3>2
      <4> QED
        BY <4>1, <4>2
    <3>5. CASE ~pag[o].isFree
      BY <1>1, <3>1, <3>3, <3>5
    <3> QED
      BY <3>4, <3>5
  <2>3. ASSUME NEW o \in DOMAIN q PROVE Fin(q, o) \in DOMAIN q \cup {tamanio_pag_memoria}
    BY <1>1, <1>2, <1>3, <1>4, <2>3, SiguienteDe, UsadosQuedan, Bloque
  <2>4. ASSUME NEW o \in DOMAIN q, NEW x \in DOMAIN q, x > o PROVE x >= Fin(q, o)
    <3>1. CASE pag[o].isFree
      BY <1>1, <1>2, <1>3, <2>4, <3>1, SiguienteDe
    <3>2. CASE ~pag[o].isFree
      BY <1>1, <1>2, <1>4, <2>4, <3>2, Bloque
    <3> QED
      BY <3>1, <3>2
  <2> QED
    BY <2>1, <2>2, <2>3, <2>4 DEF Encadenada
<1>7. SinVecinos(q)
  <2> SUFFICES ASSUME NEW a \in DOMAIN q, NEW b \in DOMAIN q, q[a].isFree, q[b].isFree, Fin(q, b) = a
               PROVE  FALSE
    BY DEF SinVecinos, Absorbido
  <2>1. /\ a \in Quedan(pag) /\ b \in Quedan(pag) /\ pag[a].isFree /\ pag[b].isFree
        /\ a \in DOMAIN pag /\ b \in DOMAIN pag /\ Siguiente(pag, b) = a
    BY <1>1, <1>2, <1>3, <1>5
  <2>2. a > b /\ a > 0
    BY <2>1, SiguienteDe, Bloque
  <2>3. PICK c \in DOMAIN pag : c < a /\ Fin(pag, c) = a /\ ~pag[c].isFree
    BY <2>1, <2>2, UsadosQuedan
  <2>4. c \in Quedan(pag) /\ c # b
    BY <2>1, <2>3, UsadosQuedan
  <2>5. c > b
    <3>1. ~(c < b)
      BY <2>1, <2>2, <2>3, Bloque
    <3> QED
      BY <2>1, <2>3, <2>4, <3>1, Bloque
  <2>6. a <= c
    BY <2>1, <2>4, <2>5, SiguienteDe
  <2> QED
    BY <2>1, <2>3, <2>6, Bloque
<1>8. ASSUME NEW x \in Offsets, NEW a \in DOMAIN pag, pag[a].isFree, a + 5 <= x, x < Fin(pag, a)
      PROVE  \E b \in DOMAIN q : q[b].isFree /\ b + 5 <= x /\ x < Fin(q, b)
  <2> DEFINE S == {b \in Quedan(pag) : b <= a}
  <2>1. S \subseteq 0 .. tamanio_pag_memoria /\ 0 \in S
    BY <1>2, UsadosQuedan, Bloque, Medidas
  <2>2. PICK h \in S : \A y \in S : y <= h
    BY <2>1, MayorDe, Medidas
  <2>3. h \in Quedan(pag) /\ h <= a /\ h \in DOMAIN pag
    BY <1>2, <2>2
  <2>4. pag[h].isFree
    <3>1. CASE h = a
      BY <1>8, <3>1
    <3>2. CASE h # a
      <4>1. h < a /\ Fin(pag, h) <= a /\ Fin(pag, h) > h
        BY <2>3, <3>2, Bloque
      <4>2. Fin(pag, h) \in DOMAIN pag
        <5>1. a < tamanio_pag_memoria /\ a \in Int /\ Fin(pag, h) \in Int /\ tamanio_pag_memoria \in Int
          BY <2>3, Bloque, Medidas
        <5>2. Fin(pag, h) # tamanio_pag_memoria
          BY <4>1, <5>1
        <5> QED
          BY <2>3, <5>2, Bloque
      <4>3. Fin(pag, h) \notin Quedan(pag)
        <5>1. Fin(pag, h) \in Quedan(pag) => Fin(pag, h) <= h
          BY <2>2, <4>1
        <5>2. Fin(pag, h) \in Int /\ h \in Int
          BY <2>3, Bloque
        <5> QED
          BY <4>1, <5>1, <5>2
      <4> QED
        BY <2>3, <4>2, <4>3, UsadosQuedan, Bloque
    <3> QED
      BY <3>1, <3>2
  <2>5. Siguiente(pag, h) > a
    <3>1. CASE Siguiente(pag, h) = tamanio_pag_memoria
      BY <3>1, Bloque
    <3>2. CASE Siguiente(pag, h) \in Quedan(pag)
      <4>1. Siguiente(pag, h) > h /\ Siguiente(pag, h) \in Int
        BY <2>3, SiguienteDe
      <4>2. Siguiente(pag, h) <= a => Siguiente(pag, h) <= h
        BY <2>2, <3>2
      <4>3. a \in Int /\ h \in Int
        BY <2>3, Bloque
      <4> QED
        BY <4>1, <4>2, <4>3
    <3> QED
      BY <2>3, <3>1, <3>2, SiguienteDe
  <2>6. Siguiente(pag, h) >= Fin(pag, a)
    <3>1. Siguiente(pag, h) \in DOMAIN pag \/ Siguiente(pag, h) = tamanio_pag_memoria
      BY <1>2, <2>3, SiguienteDe
    <3> QED
      BY <2>5, <3>1, Bloque, Medidas
  <2>7. Fin(q, h) = Siguiente(pag, h) /\ q[h].isFree /\ h \in DOMAIN q
    BY <1>1, <1>3, <1>5, <2>3, <2>4
  <2>8. h + 5 <= x /\ x < Fin(q, h)
    BY <1>8, <2>3, <2>6, <2>7, Bloque, Medidas, SiguienteDe
  <2> QED
    BY <2>7, <2>8
<1>9. ASSUME NEW o \in DOMAIN q PROVE o \in DOMAIN pag /\ q[o].isFree = pag[o].isFree
  <2>1. o \in Quedan(pag) /\ o \in DOMAIN pag
    BY <1>1, <1>2, <1>9
  <2>2. CASE pag[o].isFree
    <3>1. q[o].isFree = TRUE
      BY <1>1, <2>1, <2>2
    <3>2. pag[o].isFree \in BOOLEAN
      BY <2>1, Bloque
    <3> QED
      BY <2>1, <2>2, <3>1, <3>2
  <2>3. CASE ~pag[o].isFree
    BY <1>1, <2>1, <2>3
  <2> QED
    BY <2>2, <2>3
<1>10. \A o \in DOMAIN pag : ~pag[o].isFree => o \in DOMAIN q /\ q[o] = pag[o]
  BY <1>1, UsadosQuedan
<1> QED
  BY <1>6, <1>7, <1>8, <1>9, <1>10 DEF q

Libres(pag) ==
    {x \in Offsets : \E o \in DOMAIN pag : pag[o].isFree /\ o + 5 <= x /\ x < Fin(pag, o)}

(* The free bytes of a page are none of the metadata of its first block.   *)
LEMMA BytesDe ==
    ASSUME NEW pag, Encadenada(pag)
    PROVE  /\ BytesLibres(pag) = Cardinality(Libres(pag)) /\ IsFiniteSet(Libres(pag))
           /\ BytesLibres(pag) \in Nat /\ BytesLibres(pag) <= tamanio_pag_memoria - 5
<1>1. BytesLibres(pag) = Cardinality(Libres(pag))
  BY Medidas DEF BytesLibres, Libres
<1>2. Libres(pag) \subseteq 5 .. tamanio_pag_memoria - 1
  <2>1. \A o \in DOMAIN pag : o \in Int /\ 0 <= o
    BY Bloque
  <2> QED
    BY <2>1, Medidas DEF Libres
<1>3. /\ IsFiniteSet(5 .. tamanio_pag_memoria - 1)
      /\ Cardinality(5 .. tamanio_pag_memoria - 1) = tamanio_pag_memoria - 5
  BY FS_Interval, Medidas
<1>4. /\ IsFiniteSet(Libres(pag))
      /\ Cardinality(Libres(pag)) <= Cardinality(5 .. tamanio_pag_memoria - 1)
  BY <1>2, <1>3, FS_Subset
<1>5. Cardinality(Libres(pag)) \in Nat
  BY <1>4, FS_CardinalityType
<1> QED
  BY <1>1, <1>3, <1>4, <1>5

LEMMA BytesNueva == BytesLibres(paginaNueva) = tamanio_pag_memoria - 5
<1>1. Libres(paginaNueva) = 5 .. tamanio_pag_memoria - 1
  <2>1. Libres(paginaNueva) = {x \in Offsets : 5 <= x /\ x < tamanio_pag_memoria}
    BY Nueva DEF Libres
  <2> QED
    BY <2>1, Medidas
<1>2. Cardinality(5 .. tamanio_pag_memoria - 1) = tamanio_pag_memoria - 5
  BY FS_Interval, Medidas
<1> QED
  BY <1>1, <1>2, BytesDe, Nueva

(* Giving away n bytes takes no more than them and their metadata from     *)
(* what is free.                                                           *)
LEMMA BytesPartir ==
    ASSUME NEW pag, Encadenada(pag), SinVecinos(pag), NEW o \in DOMAIN pag, NEW n \in Nat,
           Alcanza(pag[o], n)
    PROVE  BytesLibres(pag) - (n + 5) <= BytesLibres(partir(pag, o, n))
<1> DEFINE q == partir(pag, o, n)
           I == o + 5 .. o + 5 + n + 4
<1>1. /\ Encadenada(q)
      /\ \A x \in Offsets : \A a \in DOMAIN pag :
            pag[a].isFree /\ a + 5 <= x /\ x < Fin(pag, a) =>
               \/ o + 5 <= x /\ x < o + 5 + (n + 5)
               \/ \E b \in DOMAIN q : q[b].isFree /\ b + 5 <= x /\ x < Fin(q, b)
  BY Partir
<1> HIDE DEF q
<1>2. o \in Int
  BY Bloque
<1>3. Libres(pag) \subseteq Libres(q) \cup I
  <2> SUFFICES ASSUME NEW x \in Libres(pag), x \notin Libres(q) PROVE x \in I
    OBVIOUS
  <2>1. x \in Offsets /\ x \in Int
    BY Medidas DEF Libres
  <2>2. o + 5 <= x /\ x < o + 5 + (n + 5)
    BY <1>1, <2>1 DEF Libres
  <2> QED
    BY <1>2, <2>1, <2>2
<1>4. IsFiniteSet(I) /\ Cardinality(I) = n + 5
  <2>1. PICK a \in Int, s \in Nat : a = o + 5 /\ s = n + 5
    BY <1>2
  <2>2. IsFiniteSet(a .. a + s - 1) /\ Cardinality(a .. a + s - 1) = s
    BY FS_Interval
  <2>3. I = a .. a + s - 1
    BY <1>2, <2>1
  <2> QED
    BY <2>1, <2>2, <2>3
<1> HIDE DEF I
<1>5. /\ IsFiniteSet(Libres(pag)) /\ IsFiniteSet(Libres(q))
      /\ BytesLibres(pag) = Cardinality(Libres(pag)) /\ BytesLibres(q) = Cardinality(Libres(q))
      /\ BytesLibres(pag) \in Nat /\ BytesLibres(q) \in Nat
  BY <1>1, BytesDe
<1>6. /\ IsFiniteSet(Libres(q) \cup I)
      /\ Cardinality(Libres(q) \cup I) = Cardinality(Libres(q)) + Cardinality(I) - Cardinality(Libres(q) \cap I)
  BY <1>4, <1>5, FS_Union
<1>7. Cardinality(Libres(q) \cap I) \in Nat
  BY <1>4, <1>5, FS_Intersection, FS_CardinalityType
<1>8. Cardinality(Libres(pag)) <= Cardinality(Libres(q) \cup I)
  BY <1>3, <1>6, FS_Subset
<1>9. BytesLibres(pag) <= BytesLibres(q) + (n + 5)
  BY <1>4, <1>5, <1>6, <1>7, <1>8
<1> QED
  BY <1>5, <1>9 DEF q

-----------------------------------------------------------------------------
(* liberar and compressPageHeap: the other blocks in use stay as they are, *)
(* the bytes of the block are free again, and a page that becomes one      *)
(* block had no other block in use.                                        *)
LEMMA LiberarBloque ==
    ASSUME NEW pag, Encadenada(pag), SinVecinos(pag), ~UnSoloBloque(pag),
           NEW o \in DOMAIN pag, ~pag[o].isFree
    PROVE  LET q == Liberado(pag, o) IN
           /\ Encadenada(q) /\ SinVecinos(q)
           /\ BytesLibres(pag) + pag[o].size <= BytesLibres(q)
           /\ \A x \in DOMAIN q : ~q[x].isFree => x \in DOMAIN pag /\ x # o /\ q[x] = pag[x]
           /\ \A x \in DOMAIN pag : ~pag[x].isFree /\ x # o => x \in DOMAIN q /\ q[x] = pag[x]
           /\ UnSoloBloque(q) => \A x \in DOMAIN pag : ~pag[x].isFree => x = o
<1> DEFINE f == [pag EXCEPT ![o].isFree = TRUE]
           q == comprimir(f)
<1>1. pag[o] \in [isFree : BOOLEAN, size : Offsets]
  BY DEF Encadenada
<1>2. /\ DOMAIN f = DOMAIN pag
      /\ f[o].isFree = TRUE /\ f[o].size = pag[o].size /\ f[o] \in [isFree : BOOLEAN, size : Offsets]
      /\ \A x \in DOMAIN pag : x # o => f[x] = pag[x]
  BY <1>1
<1> HIDE DEF f
<1>3. \A x \in DOMAIN pag : Fin(f, x) = Fin(pag, x)
  BY <1>2 DEF Fin
<1>4. Encadenada(f)
  <2>1. \A x \in DOMAIN pag : pag[x] \in [isFree : BOOLEAN, size : Offsets]
    BY DEF Encadenada
  <2>2. \A x \in DOMAIN f : f[x] \in [isFree : BOOLEAN, size : Offsets]
    BY <1>2, <2>1
  <2>3. \A x \in DOMAIN f : /\ Fin(f, x) \in DOMAIN f \cup {tamanio_pag_memoria}
                            /\ \A y \in DOMAIN f : y > x => y >= Fin(f, x)
    BY <1>2, <1>3 DEF Encadenada
  <2>4. 0 \in DOMAIN f /\ DOMAIN f \subseteq Offsets
    BY <1>2 DEF Encadenada
  <2> QED
    BY <2>2, <2>3, <2>4 DEF Encadenada
<1>5. /\ Encadenada(q) /\ SinVecinos(q)
      /\ \A x \in DOMAIN f : ~f[x].isFree => x \in DOMAIN q /\ q[x] = f[x]
      /\ \A x \in DOMAIN q : x \in DOMAIN f /\ q[x].isFree = f[x].isFree
      /\ \A x \in Offsets : \A a \in DOMAIN f :
            f[a].isFree /\ a + 5 <= x /\ x < Fin(f, a) =>
               \E b \in DOMAIN q : q[b].isFree /\ b + 5 <= x /\ x < Fin(q, b)
  BY <1>4, Comprimir
<1>6. Liberado(pag, o) = q
  BY DEF Liberado, f, q
<1> HIDE DEF q
<1>7. \A x \in DOMAIN q : ~q[x].isFree => x \in DOMAIN pag /\ x # o /\ q[x] = pag[x]
  <2> SUFFICES ASSUME NEW x \in DOMAIN q, ~q[x].isFree PROVE x \in DOMAIN pag /\ x # o /\ q[x] = pag[x]
    OBVIOUS
  <2>1. x \in DOMAIN f /\ ~f[x].isFree
    BY <1>5
  <2> QED
    BY <1>2, <1>5, <2>1
<1>8. \A x \in DOMAIN pag : ~pag[x].isFree /\ x # o => x \in DOMAIN q /\ q[x] = pag[x]
  BY <1>2, <1>5
<1>9. BytesLibres(pag) + pag[o].size <= BytesLibres(q)
  <2> DEFINE I == o + 5 .. o + 5 + pag[o].size - 1
  <2>1. o \in Int /\ pag[o].size \in Nat /\ Fin(pag, o) = o + 5 + pag[o].size /\ Fin(pag, o) <= tamanio_pag_memoria /\ 0 <= o
    BY Bloque
  <2>2. Cardinality(I) = pag[o].size /\ IsFiniteSet(I)
    <3>1. PICK a \in Int, s \in Nat : a = o + 5 /\ s = pag[o].size
      BY <2>1
    <3>2. IsFiniteSet(a .. a + s - 1) /\ Cardinality(a .. a + s - 1) = s
      BY FS_Interval
    <3> QED
      BY <3>1, <3>2
  <2>3. I \subseteq Libres(q)
    <3> SUFFICES ASSUME NEW x \in I PROVE x \in Libres(q)
      OBVIOUS
    <3>1. x \in Int /\ o + 5 <= x /\ x < Fin(pag, o)
      BY <2>1
    <3>2. x \in Offsets
      BY <2>1, <3>1, Medidas
    <3> QED
      BY <1>2, <1>3, <1>5, <3>1, <3>2 DEF Libres
  <2>4. Libres(pag) \subseteq Libres(q)
    <3> SUFFICES ASSUME NEW x \in Libres(pag) PROVE x \in Libres(q)
      OBVIOUS
    <3>1. PICK a \in DOMAIN pag : pag[a].isFree /\ a + 5 <= x /\ x < Fin(pag, a)
      BY DEF Libres
    <3>2. x \in Offsets /\ a # o
      BY <3>1 DEF Libres
    <3> QED
      BY <1>2, <1>3, <1>5, <3>1, <3>2 DEF Libres
  <2>5. Libres(pag) \cap I = {}
    <3> SUFFICES ASSUME NEW x \in Libres(pag), x \in I PROVE FALSE
      OBVIOUS
    <3>1. PICK a \in DOMAIN pag : pag[a].isFree /\ a + 5 <= x /\ x < Fin(pag, a)
      BY DEF Libres
    <3>2. a # o /\ x \in Int /\ o + 5 <= x /\ x < Fin(pag, o)
      BY <2>1, <3>1
    <3>3. Fin(pag, a) <= o \/ Fin(pag, o) <= a
      BY <3>2, Disjuntos
    <3> QED
      BY <2>1, <3>1, <3>2, <3>3, Bloque
  <2> HIDE DEF I
  <2>6. /\ IsFiniteSet(Libres(pag)) /\ IsFiniteSet(Libres(q))
        /\ BytesLibres(pag) = Cardinality(Libres(pag)) /\ BytesLibres(q) = Cardinality(Libres(q))
        /\ BytesLibres(pag) \in Nat /\ BytesLibres(q) \in Nat
    BY <1>5, BytesDe
  <2>7. Cardinality(Libres(pag) \cup I) = Cardinality(Libres(pag)) + Cardinality(I) - Cardinality(Libres(pag) \cap I)
    BY <2>2, <2>6, FS_Union
  <2>8. Cardinality(Libres(pag) \cap I) = 0
    BY <2>5, FS_EmptySet
  <2>9. Cardinality(Libres(pag) \cup I) <= Cardinality(Libres(q))
    BY <2>3, <2>4, <2>6, FS_Subset
  <2> QED
    BY <2>1, <2>2, <2>6, <2>7, <2>8, <2>9
<1>10. ASSUME UnSoloBloque(q), NEW x \in DOMAIN pag, ~pag[x].isFree PROVE x = o
  <2> SUFFICES ASSUME x # o PROVE FALSE
    OBVIOUS
  <2>1. x \in DOMAIN q /\ ~q[x].isFree /\ q[x] = pag[x]
    BY <1>8, <1>10
  <2>2. 0 \in DOMAIN q /\ Fin(q, 0) = tamanio_pag_memoria
    BY <1>5, <1>10, Medidas DEF Encadenada, UnSoloBloque, Fin
  <2>3. x = 0
    <3>1. x \in Int /\ 0 <= x /\ x < tamanio_pag_memoria /\ tamanio_pag_memoria \in Int
      BY Bloque, Medidas
    <3>2. x > 0 => x >= Fin(q, 0)
      BY <1>5, <2>1, <2>2, Bloque
    <3> QED
      BY <2>2, <3>1, <3>2
  <2> QED
    BY <1>10, <2>1, <2>3 DEF UnSoloBloque
<1> QED
  BY <1>5, <1>6, <1>7, <1>8, <1>9, <1>10

(* What partir leaves after a block is another one, which stays after it   *)
(* while the block is in use.                                              *)
UltimoLibre(pag) == \A x \in DOMAIN pag : ~pag[x].isFree => Fin(pag, x) < tamanio_pag_memoria

LEMMA PartirUltimo ==
    ASSUME NEW pag, Encadenada(pag), SinVecinos(pag), UltimoLibre(pag), NEW o \in DOMAIN pag,
           NEW n \in Nat, Alcanza(pag[o], n)
    PROVE  UltimoLibre(partir(pag, o, n))
<1> DEFINE q == partir(pag, o, n)
<1>1. /\ o + 5 + n < tamanio_pag_memoria /\ q[o].size = n
      /\ \A x \in DOMAIN pag : x # o => q[x] = pag[x]
      /\ \A x \in DOMAIN q : ~q[x].isFree => x \in DOMAIN pag
  BY Partir
<1> HIDE DEF q
<1>2. ASSUME NEW x \in DOMAIN q, ~q[x].isFree PROVE Fin(q, x) < tamanio_pag_memoria
  <2>1. CASE x = o
    BY <1>1, <2>1, Medidas DEF Fin
  <2>2. CASE x # o
    BY <1>1, <1>2, <2>2 DEF UltimoLibre, Fin
  <2> QED
    BY <2>1, <2>2
<1> QED
  BY <1>2 DEF UltimoLibre, q

LEMMA LiberarUltimo ==
    ASSUME NEW pag, Encadenada(pag), SinVecinos(pag), ~UnSoloBloque(pag), UltimoLibre(pag),
           NEW o \in DOMAIN pag, ~pag[o].isFree
    PROVE  UltimoLibre(Liberado(pag, o))
<1> DEFINE q == Liberado(pag, o)
<1>1. \A x \in DOMAIN q : ~q[x].isFree => x \in DOMAIN pag /\ q[x] = pag[x]
  BY LiberarBloque
<1> HIDE DEF q
<1>2. UltimoLibre(q)
  BY <1>1 DEF UltimoLibre, Fin
<1> QED
  BY <1>2 DEF q

Cabeceras == [nroPagina : Paginas, espacioDisponible : Offsets]

(* What is true of a program: m are the pages Memoria assigned it, bl its  *)
(* pages of heap, pg the Kernel's list of them, mp the last number the     *)
(* Kernel gave.  Page s may be in one piece.                               *)
BienSalvo(m, bl, pg, mp, es, s) ==
    /\ m \subseteq Paginas /\ mp \in Int /\ es \in {"nuevo", "vivo", "error", "fin"}
    /\ DOMAIN bl \subseteq m \ (0 .. paginasTotales - 1)
    /\ \A nro \in DOMAIN bl : /\ Encadenada(bl[nro]) /\ SinVecinos(bl[nro]) /\ UltimoLibre(bl[nro])
                              /\ nro # s => ~UnSoloBloque(bl[nro])
    /\ pg \in Seq(Cabeceras)
    /\ \A i \in DOMAIN pg : /\ pg[i].nroPagina \in DOMAIN bl
                            /\ pg[i].espacioDisponible <= BytesLibres(bl[pg[i].nroPagina])
    /\ \A i \in DOMAIN pg : \A j \in DOMAIN pg : pg[i].nroPagina = pg[j].nroPagina => i = j
    /\ \A nro \in DOMAIN bl : \E i \in DOMAIN pg : pg[i].nroPagina = nro
    /\ es = "vivo" => /\ 0 .. paginasTotales - 1 \subseteq m
                      /\ mp = NULL => m = 0 .. paginasTotales - 1
                      /\ mp # NULL => \A x \in m : x <= mp
    /\ es = "nuevo" => mp = NULL /\ DOMAIN bl = {}
Bien(m, bl, pg, mp, es) == BienSalvo(m, bl, pg, mp, es, NULL)

(* The inductive invariant. *)
IInv ==
    /\ enMemoria \in [Pids -> SUBSET Paginas] /\ maxPaginas \in [Pids -> Int]
    /\ estado \in [Pids -> {"nuevo", "vivo", "error", "fin"}]
    /\ DOMAIN bloques = Pids /\ DOMAIN paginas = Pids
    /\ \A p \in Pids :
          Bien(enMemoria[p], bloques[p], paginas[p], maxPaginas[p], estado[p])

LEMMA MaxDe ==
    ASSUME NEW S, S \subseteq Nat, NEW N \in Nat, \A x \in S : x <= N, S # {}
    PROVE  Max(S) \in S /\ \A y \in S : y <= Max(S)
<1>1. S \subseteq 0 .. N
  OBVIOUS
<1>2. \E x \in S : \A y \in S : y <= x
  BY <1>1, MayorDe
<1>3. \E x \in S : \A y \in S : x >= y
  BY <1>2
<1> QED
  BY <1>3 DEF Max

LEMMA MaxUnico ==
    ASSUME NEW S, S \subseteq Nat, NEW x \in S, \A y \in S : y <= x
    PROVE  Max(S) = x
<1>1. \E z \in S : \A y \in S : z >= y
  OBVIOUS
<1>2. Max(S) \in S /\ \A y \in S : Max(S) >= y
  BY <1>1 DEF Max
<1>3. Max(S) >= x /\ Max(S) <= x /\ Max(S) \in Nat /\ x \in Nat
  BY <1>2
<1> QED
  BY <1>3

LEMMA Constantes ==
    /\ paginasTotales \in Nat /\ paginasTotales >= 1 /\ MaxPagina \in Nat
    /\ Paginas = 0 .. MaxPagina /\ paginasTotales <= MaxPagina + 1 /\ NULL = -1
    /\ Pedidos \subseteq Int
BY HeapAssumption DEF Paginas, NULL

-----------------------------------------------------------------------------
(* The block at o of page i's is given away. *)
LEMMA AsignarBien ==
    ASSUME NEW m, NEW cont, NEW pg, NEW mp, NEW es, NEW i \in DOMAIN pg,
           BienSalvo(m, cont, pg, mp, es, pg[i].nroPagina), es # "nuevo",
           NEW o \in DOMAIN cont[pg[i].nroPagina], NEW n \in Nat,
           Alcanza(cont[pg[i].nroPagina][o], n), pg[i].espacioDisponible >= n + 5
    PROVE  /\ Bien(m, [cont EXCEPT ![pg[i].nroPagina] = partir(cont[pg[i].nroPagina], o, n)],
                   [pg EXCEPT ![i].espacioDisponible = @ - (n + 5)], mp, es)
<1> DEFINE nro == pg[i].nroPagina
           q == partir(cont[nro], o, n)
           b == [cont EXCEPT ![nro] = q]
           g == [pg EXCEPT ![i].espacioDisponible = @ - (n + 5)]
<1>1. /\ nro \in DOMAIN cont /\ nro \in Paginas /\ pg[i].espacioDisponible \in Offsets
      /\ pg[i] \in Cabeceras
  <2>1. pg[i] \in Cabeceras
    <3>1. pg \in Seq(Cabeceras)
      BY DEF BienSalvo
    <3>2. i \in 1 .. Len(pg)
      BY <3>1, LenProperties
    <3> QED
      BY <3>1, <3>2, ElementOfSeq
  <2> QED
    BY <2>1 DEF BienSalvo, Cabeceras
<1>2. Encadenada(cont[nro]) /\ SinVecinos(cont[nro]) /\ UltimoLibre(cont[nro])
  BY <1>1 DEF BienSalvo
<1>3. /\ Encadenada(q) /\ SinVecinos(q) /\ ~UnSoloBloque(q) /\ o + 5 + n < tamanio_pag_memoria
      /\ BytesLibres(cont[nro]) - (n + 5) <= BytesLibres(q)
      /\ o \in Int /\ 0 <= o /\ UltimoLibre(q)
  BY <1>2, Partir, PartirUltimo, BytesPartir, Bloque
<1>4. /\ DOMAIN b = DOMAIN cont /\ b[nro] = q
      /\ \A k \in DOMAIN cont : k # nro => b[k] = cont[k]
  BY <1>1
<1>5. pg \in Seq(Cabeceras) /\ DOMAIN pg = 1 .. Len(pg)
  BY DEF BienSalvo
<1>6. /\ DOMAIN g = DOMAIN pg /\ \A j \in DOMAIN pg : g[j].nroPagina = pg[j].nroPagina
      /\ g[i].espacioDisponible = pg[i].espacioDisponible - (n + 5)
      /\ \A j \in DOMAIN pg : j # i => g[j] = pg[j]
      /\ g[i] \in Cabeceras
  <2>1. pg[i].espacioDisponible - (n + 5) \in Offsets
    BY <1>1, Medidas
  <2>2. DOMAIN g = DOMAIN pg /\ \A j \in DOMAIN pg : j # i => g[j] = pg[j]
    OBVIOUS
  <2>3. g[i] = [pg[i] EXCEPT !.espacioDisponible = pg[i].espacioDisponible - (n + 5)]
    OBVIOUS
  <2>4. /\ g[i].nroPagina = pg[i].nroPagina
        /\ g[i].espacioDisponible = pg[i].espacioDisponible - (n + 5)
        /\ g[i] \in Cabeceras
    BY <1>1, <2>1, <2>3 DEF Cabeceras
  <2> QED
    BY <2>2, <2>4
<1>7. g \in Seq(Cabeceras)
  <2>1. g = [pg EXCEPT ![i] = g[i]]
    BY <1>5, <1>6
  <2>2. i \in 1 .. Len(pg)
    BY <1>5
  <2> QED
    BY <1>5, <1>6, <2>1, <2>2, ExceptSeq
<1> HIDE DEF g, b, q, nro
<1>8. \A k \in DOMAIN b : /\ Encadenada(b[k]) /\ SinVecinos(b[k]) /\ UltimoLibre(b[k])
                          /\ ~UnSoloBloque(b[k])
  BY <1>3, <1>4 DEF BienSalvo, nro
<1>9. \A j \in DOMAIN g : /\ g[j].nroPagina \in DOMAIN b
                          /\ g[j].espacioDisponible <= BytesLibres(b[g[j].nroPagina])
  <2> SUFFICES ASSUME NEW j \in DOMAIN g
               PROVE  /\ g[j].nroPagina \in DOMAIN b
                      /\ g[j].espacioDisponible <= BytesLibres(b[g[j].nroPagina])
    OBVIOUS
  <2>1. CASE j = i
    <3>1. pg[i].espacioDisponible <= BytesLibres(cont[nro])
      BY DEF BienSalvo, nro
    <3>2. g[j].nroPagina = nro
      BY <1>6, <2>1 DEF nro
    <3>3. BytesLibres(cont[nro]) \in Nat /\ BytesLibres(q) \in Nat /\ pg[i].espacioDisponible \in Int
      BY <1>1, <1>2, <1>3, BytesDe, Medidas
    <3> QED
      BY <1>1, <1>3, <1>4, <1>6, <2>1, <3>1, <3>2, <3>3
  <2>2. CASE j # i
    <3>1. pg[j].nroPagina # nro
      BY <1>6, <2>2 DEF BienSalvo, nro
    <3>2. pg[j].nroPagina \in DOMAIN cont /\ pg[j].espacioDisponible <= BytesLibres(cont[pg[j].nroPagina])
      BY <1>6 DEF BienSalvo
    <3> QED
      BY <1>4, <1>6, <2>2, <3>1, <3>2
  <2> QED
    BY <2>1, <2>2
<1>11. /\ \A x \in DOMAIN g : \A y \in DOMAIN g : g[x].nroPagina = g[y].nroPagina => x = y
       /\ \A k \in DOMAIN b : \E x \in DOMAIN g : g[x].nroPagina = k
  BY <1>4, <1>6 DEF BienSalvo
<1>12. Bien(m, b, g, mp, es)
  BY <1>4, <1>7, <1>8, <1>9, <1>11 DEF Bien, BienSalvo
<1> QED
  BY <1>12 DEF nro, b, g, q

(* A page that Memoria just assigned. *)
UltimoNumero(mp) == IF mp = NULL THEN paginasTotales - 1 ELSE mp
Cabecera(nro) == [nroPagina |-> nro, espacioDisponible |-> tamanio_pag_memoria - sizeof_metadata]

LEMMA ConPaginaEs ==
    ASSUME NEW bl, NEW nro, nro \notin DOMAIN bl
    PROVE  /\ DOMAIN ConPagina(bl, nro) = DOMAIN bl \cup {nro}
           /\ ConPagina(bl, nro)[nro] = paginaNueva
           /\ \A k \in DOMAIN bl : ConPagina(bl, nro)[k] = bl[k]
BY DEF ConPagina

(* The two numberings, when the program takes a page. *)
LEMMA Numerar ==
    ASSUME NEW m, NEW bl, NEW pg, NEW mp, Bien(m, bl, pg, mp, "vivo")
    PROVE  /\ 0 \in m /\ Max(m \cup {0}) \in m /\ Max(m \cup {0}) = Max(m) /\ Max(m) \in Nat
           /\ \A x \in m : x \in Nat /\ x <= Max(m)
           /\ UltimoNumero(mp) \in Nat /\ UltimoNumero(mp) >= Max(m)
           /\ mp = NULL => UltimoNumero(mp) = Max(m)
           /\ mp # NULL => mp >= Max(m)
<1>1. /\ m \subseteq Paginas /\ 0 .. paginasTotales - 1 \subseteq m /\ mp \in Int
      /\ mp = NULL => m = 0 .. paginasTotales - 1
      /\ mp # NULL => \A x \in m : x <= mp
  BY DEF Bien, BienSalvo
<1>2. 0 \in m
  BY <1>1, Constantes
<1>3. m \cup {0} = m
  BY <1>2
<1>4. m \subseteq Nat /\ \A x \in m : x <= MaxPagina
  BY <1>1, Constantes
<1>5. Max(m) \in m /\ \A y \in m : y <= Max(m)
  BY <1>2, <1>4, Constantes, MaxDe
<1>6. CASE mp = NULL
  <2>1. paginasTotales - 1 \in m /\ \A y \in m : y <= paginasTotales - 1
    BY <1>1, <1>6, Constantes
  <2>2. Max(m) = paginasTotales - 1
    BY <1>4, <2>1, MaxUnico
  <2> QED
    BY <1>2, <1>3, <1>4, <1>5, <1>6, <2>2, Constantes DEF UltimoNumero
<1>7. CASE mp # NULL
  <2>1. mp >= Max(m)
    BY <1>1, <1>4, <1>5, <1>7
  <2>2. mp \in Nat
    BY <1>1, <1>2, <1>7
  <2> QED
    BY <1>2, <1>3, <1>4, <1>5, <1>7, <2>1, <2>2 DEF UltimoNumero
<1> QED
  BY <1>6, <1>7

Pedida(m, bl, pg, mp, mx, nx) ==
    /\ Bien(m, bl, pg, mx - 1, "error")
    /\ nx <= MaxPagina => Bien(m \cup {nx}, bl, pg, mx, "error")
    /\ nx <= MaxPagina /\ mx \in m \cup {nx} =>
         /\ mx = nx /\ mx \notin m /\ mx \notin DOMAIN bl /\ mx = Max(m \cup {nx})
         /\ BienSalvo(m \cup {nx}, ConPagina(bl, mx), Append(pg, Cabecera(mx)), mx, "vivo", mx)
         /\ Len(pg) + 1 \in DOMAIN Append(pg, Cabecera(mx))
         /\ Append(pg, Cabecera(mx))[Len(pg) + 1] = Cabecera(mx)
    /\ mx \notin m \cup {nx} => mp # NULL /\ mp # Max(m)

LEMMA PedirBien ==
    ASSUME NEW m, NEW bl, NEW pg, NEW mp, Bien(m, bl, pg, mp, "vivo"),
           NEW mx, mx = UltimoNumero(mp) + 1, NEW nx, nx = Max(m \cup {0}) + 1
    PROVE  Pedida(m, bl, pg, mp, mx, nx)
<1>1. /\ 0 \in m /\ nx = Max(m) + 1 /\ Max(m) \in m /\ Max(m) \in Nat
      /\ \A x \in m : x \in Nat /\ x <= Max(m)
      /\ mx \in Nat /\ mx >= Max(m) + 1 /\ UltimoNumero(mp) = mx - 1
      /\ mp = NULL => mx = Max(m) + 1
      /\ nx \in Nat /\ nx = Max(m) + 1
  <2>1. /\ 0 \in m /\ Max(m \cup {0}) \in m /\ Max(m \cup {0}) = Max(m) /\ Max(m) \in Nat
        /\ \A x \in m : x \in Nat /\ x <= Max(m)
        /\ UltimoNumero(mp) \in Nat /\ UltimoNumero(mp) >= Max(m)
        /\ mp = NULL => UltimoNumero(mp) = Max(m)
    BY Numerar
  <2> DEFINE M == Max(m)
             u == UltimoNumero(mp)
  <2>2. M \in Nat /\ u \in Nat /\ u >= M /\ mx = u + 1 /\ nx = M + 1
    BY <2>1
  <2> HIDE DEF M, u
  <2>3. mx \in Nat /\ mx >= M + 1 /\ u = mx - 1 /\ nx \in Nat
    BY <2>2
  <2> QED
    BY <2>1, <2>2, <2>3 DEF M, u
<1>2. Bien(m, bl, pg, mx - 1, "error")
  BY <1>1 DEF Bien, BienSalvo
<1>3. ASSUME nx <= MaxPagina PROVE m \cup {nx} \subseteq Paginas /\ nx \in Paginas
  <2>1. m \subseteq Paginas
    BY DEF Bien, BienSalvo
  <2>2. nx \in Paginas
    BY <1>1, <1>3, Constantes
  <2> QED
    BY <2>1, <2>2
<1>4. ASSUME nx <= MaxPagina PROVE Bien(m \cup {nx}, bl, pg, mx, "error")
  <2>1. mx \in Int /\ DOMAIN bl \subseteq (m \cup {nx}) \ (0 .. paginasTotales - 1) /\ m \cup {nx} \subseteq Paginas
    <3>1. DOMAIN bl \subseteq m \ (0 .. paginasTotales - 1)
      BY DEF Bien, BienSalvo
    <3>2. mx \in Int
      BY <1>1
    <3>3. m \cup {nx} \subseteq Paginas
      BY <1>3, <1>4
    <3> QED
      BY <3>1, <3>2, <3>3
  <2> QED
    BY <2>1 DEF Bien, BienSalvo
<1>5. mx \notin m
  BY <1>1
<1>6. ASSUME mx \notin m \cup {nx} PROVE mp # NULL /\ mp # Max(m)
  BY <1>1, <1>6 DEF UltimoNumero
<1>7. ASSUME nx <= MaxPagina, mx \in m \cup {nx}
      PROVE  /\ mx = nx /\ mx \notin m /\ mx \notin DOMAIN bl /\ mx = Max(m \cup {nx})
             /\ BienSalvo(m \cup {nx}, ConPagina(bl, mx), Append(pg, Cabecera(mx)), mx, "vivo", mx)
             /\ Len(pg) + 1 \in DOMAIN Append(pg, Cabecera(mx))
             /\ Append(pg, Cabecera(mx))[Len(pg) + 1] = Cabecera(mx)
  <2>1. mx = nx /\ mx \notin DOMAIN bl /\ mx \in Paginas /\ mx \notin 0 .. paginasTotales - 1
    <3>1. 0 .. paginasTotales - 1 \subseteq m /\ DOMAIN bl \subseteq m
      BY DEF Bien, BienSalvo
    <3> QED
      BY <1>3, <1>5, <1>7, <3>1
  <2>2. Max(m \cup {nx}) = mx
    <3>1. m \cup {nx} \subseteq Nat /\ nx \in m \cup {nx} /\ \A y \in m \cup {nx} : y <= nx
      <4>1. \A y \in m : y \in Nat /\ y <= nx
        BY <1>1
      <4>2. nx \in Nat
        BY <1>1
      <4> QED
        BY <4>1, <4>2
    <3> QED
      BY <2>1, <3>1, MaxUnico
  <2> DEFINE b == ConPagina(bl, mx)
             g == Append(pg, Cabecera(mx))
  <2>3. DOMAIN b = DOMAIN bl \cup {mx} /\ b[mx] = paginaNueva /\ \A k \in DOMAIN bl : b[k] = bl[k]
    BY <2>1, ConPaginaEs
  <2>4. /\ Cabecera(mx) \in Cabeceras /\ Cabecera(mx).nroPagina = mx
        /\ Cabecera(mx).espacioDisponible = BytesLibres(paginaNueva)
    <3>1. tamanio_pag_memoria - 5 \in Offsets
      BY Medidas
    <3> QED
      BY <2>1, <3>1, BytesNueva, Medidas DEF Cabecera, Cabeceras
  <2>5. pg \in Seq(Cabeceras) /\ DOMAIN pg = 1 .. Len(pg) /\ Len(pg) \in Nat
    BY LenProperties DEF Bien, BienSalvo
  <2>6. /\ g \in Seq(Cabeceras) /\ DOMAIN g = 1 .. Len(pg) + 1 /\ g[Len(pg) + 1] = Cabecera(mx)
        /\ \A i \in DOMAIN pg : g[i] = pg[i]
    <3>1. g \in Seq(Cabeceras) /\ Len(g) = Len(pg) + 1
      BY <2>4, <2>5, AppendProperties
    <3> QED
      BY <2>4, <2>5, <3>1, AppendProperties, LenProperties
  <2> HIDE DEF b, g
  <2>7. \A k \in DOMAIN b : /\ Encadenada(b[k]) /\ SinVecinos(b[k]) /\ UltimoLibre(b[k])
                            /\ (k # mx => ~UnSoloBloque(b[k]))
    <3>1. \A k \in DOMAIN bl : k \in Nat /\ k # NULL
      BY <1>1, Constantes DEF Bien, BienSalvo
    <3>2. UltimoLibre(paginaNueva)
      BY Nueva DEF UltimoLibre
    <3> QED
      BY <2>3, <3>1, <3>2, Nueva DEF Bien, BienSalvo
  <2>8. \A i \in DOMAIN g : i \in DOMAIN pg \/ i = Len(pg) + 1
    BY <2>5, <2>6
  <2>9. /\ \A i \in DOMAIN pg : /\ pg[i].nroPagina \in DOMAIN bl
                                /\ pg[i].espacioDisponible <= BytesLibres(bl[pg[i].nroPagina])
        /\ \A i \in DOMAIN pg : \A j \in DOMAIN pg : pg[i].nroPagina = pg[j].nroPagina => i = j
        /\ \A nro \in DOMAIN bl : \E i \in DOMAIN pg : pg[i].nroPagina = nro
    BY DEF Bien, BienSalvo
  <2>10. \A i \in DOMAIN g : /\ g[i].nroPagina \in DOMAIN b
                             /\ g[i].espacioDisponible <= BytesLibres(b[g[i].nroPagina])
    <3>1. \A i \in DOMAIN pg : /\ g[i].nroPagina \in DOMAIN b
                               /\ g[i].espacioDisponible <= BytesLibres(b[g[i].nroPagina])
      BY <2>3, <2>6, <2>9
    <3>2. BytesLibres(paginaNueva) \in Int
      BY BytesDe, Nueva
    <3>3. /\ g[Len(pg) + 1].nroPagina \in DOMAIN b
          /\ g[Len(pg) + 1].espacioDisponible <= BytesLibres(b[g[Len(pg) + 1].nroPagina])
      BY <2>3, <2>4, <2>6, <3>2
    <3> QED
      BY <2>8, <3>1, <3>3
  <2>11. \A i \in DOMAIN g : \A j \in DOMAIN g : g[i].nroPagina = g[j].nroPagina => i = j
    <3>1. \A i \in DOMAIN pg : g[i].nroPagina # mx
      BY <2>1, <2>6, <2>9
    <3>2. g[Len(pg) + 1].nroPagina = mx
      BY <2>4, <2>6
    <3> QED
      BY <2>6, <2>8, <2>9, <3>1, <3>2
  <2>12. \A nro \in DOMAIN b : \E i \in DOMAIN g : g[i].nroPagina = nro
    <3>1. \A i \in DOMAIN pg : i \in DOMAIN g
      BY <2>5, <2>6
    <3>2. g[Len(pg) + 1].nroPagina = mx /\ Len(pg) + 1 \in DOMAIN g
      BY <2>4, <2>5, <2>6
    <3> QED
      BY <2>3, <2>6, <2>9, <3>1, <3>2
  <2>13. DOMAIN b \subseteq (m \cup {nx}) \ (0 .. paginasTotales - 1)
    BY <2>1, <2>3 DEF Bien, BienSalvo
  <2>14. BienSalvo(m \cup {nx}, b, g, mx, "vivo", mx)
    <3>1. /\ 0 .. paginasTotales - 1 \subseteq m \cup {nx}
          /\ mx # NULL /\ mx \in Int /\ \A x \in m \cup {nx} : x <= mx
      <4>1. 0 .. paginasTotales - 1 \subseteq m \cup {nx}
        BY DEF Bien, BienSalvo
      <4>2. \A x \in m : x <= mx
        BY <1>1
      <4>3. mx # NULL /\ mx \in Int /\ mx <= mx
        BY <1>1, Constantes
      <4> QED
        BY <2>1, <4>1, <4>2, <4>3
    <3> QED
      BY <1>3, <1>7, <2>6, <2>7, <2>10, <2>11, <2>12, <2>13, <3>1 DEF BienSalvo
  <2>15. Len(pg) + 1 \in DOMAIN g
    BY <2>5, <2>6
  <2> QED
    BY <1>5, <2>1, <2>2, <2>6, <2>14, <2>15 DEF b, g
<1> QED
  BY <1>2, <1>4, <1>6, <1>7 DEF Pedida

LEMMA MinDe ==
    ASSUME NEW x \in Nat
    PROVE  Min({x}) = x
BY DEF Min

(* removePaginaHeap takes the page out of the list. *)
SinCabecera(pg, nro) == RemoveFirstMatch(pg, LAMBDA x : x.nroPagina = nro)

SinRepetidas(pg) ==
    \A i \in DOMAIN pg : \A j \in DOMAIN pg : pg[i].nroPagina = pg[j].nroPagina => i = j

(* List r is list pg without its k-th element. *)
SinUno(pg, k, r) ==
    /\ r \in Seq(Cabeceras) /\ SinRepetidas(r)
    /\ \A i \in DOMAIN r : \E j \in DOMAIN pg : j # k /\ r[i] = pg[j]
    /\ \A j \in DOMAIN pg : j # k => \E i \in DOMAIN r : r[i] = pg[j]

LEMMA SinCabeceraEs ==
    ASSUME NEW pg \in Seq(Cabeceras), SinRepetidas(pg), NEW k \in DOMAIN pg,
           NEW nro, nro = pg[k].nroPagina
    PROVE  SinUno(pg, k, SinCabecera(pg, nro))
<1> DEFINE L == Len(pg)
           r == SinCabecera(pg, nro)
<1>1. DOMAIN pg = 1 .. L /\ L \in Nat /\ k \in 1 .. L
  BY LenProperties
<1>2. {i \in 1 .. Len(pg) : pg[i].nroPagina = nro} = {k}
  BY <1>1 DEF SinRepetidas
<1>3. SelectInSeq(pg, LAMBDA x : x.nroPagina = nro) = k
  BY <1>1, <1>2, MinDe DEF SelectInSeq
<1>4. \E i \in 1 .. Len(pg) : pg[i].nroPagina = nro
  BY <1>1
<1>5. r = RemoveAt(pg, k)
  BY <1>3, <1>4 DEF SinCabecera, RemoveFirstMatch
<1>6. r = SubSeq(pg, 1, k - 1) \o SubSeq(pg, k + 1, L)
  BY <1>5 DEF RemoveAt
<1> DEFINE a == SubSeq(pg, 1, k - 1)
           b == SubSeq(pg, k + 1, L)
<1>7. a \in Seq(Cabeceras) /\ Len(a) = k - 1 /\ \A i \in 1 .. k - 1 : a[i] = pg[i]
  BY <1>1
<1>8. b \in Seq(Cabeceras) /\ Len(b) = L - k /\ \A i \in 1 .. L - k : b[i] = pg[i + k]
  BY <1>1
<1> HIDE DEF a, b, r
<1>9. /\ r \in Seq(Cabeceras) /\ DOMAIN r = 1 .. L - 1
      /\ \A i \in 1 .. L - 1 : r[i] = IF i <= k - 1 THEN a[i] ELSE b[i - (k - 1)]
  <2>1. r = a \o b
    BY <1>6 DEF a, b
  <2>2. /\ a \o b \in Seq(Cabeceras) /\ Len(a \o b) = Len(a) + Len(b)
        /\ \A i \in 1 .. Len(a) + Len(b) : (a \o b)[i] = IF i <= Len(a) THEN a[i] ELSE b[i - Len(a)]
    <3>1. a \in Seq(Cabeceras) /\ b \in Seq(Cabeceras)
      BY <1>7, <1>8
    <3>2. a \o b \in Seq(Cabeceras) /\ Len(a \o b) = Len(a) + Len(b)
      BY <3>1, ConcatProperties
    <3>3. \A i \in 1 .. Len(a) + Len(b) : (a \o b)[i] = IF i <= Len(a) THEN a[i] ELSE b[i - Len(a)]
      BY <3>1
    <3> QED
      BY <3>2, <3>3
  <2>3. Len(a) + Len(b) = L - 1
    BY <1>1, <1>7, <1>8
  <2> QED
    BY <1>7, <2>1, <2>2, <2>3, LenProperties
<1>10. /\ \A i \in 1 .. L - 1 : i < k => r[i] = pg[i]
       /\ \A i \in 1 .. L - 1 : ~(i < k) => r[i] = pg[i + 1]
  <2>1. ASSUME NEW i \in 1 .. L - 1, i < k PROVE r[i] = pg[i]
    <3>1. i <= k - 1 /\ i \in 1 .. k - 1
      BY <1>1, <2>1
    <3> QED
      BY <1>7, <1>9, <3>1
  <2>2. ASSUME NEW i \in 1 .. L - 1, ~(i < k) PROVE r[i] = pg[i + 1]
    <3>1. ~(i <= k - 1) /\ i - (k - 1) \in 1 .. L - k /\ i - (k - 1) + k = i + 1
      BY <1>1, <2>2
    <3> QED
      BY <1>8, <1>9, <3>1
  <2> QED
    BY <2>1, <2>2
<1>11. \A i \in DOMAIN r : \E j \in DOMAIN pg : j # k /\ r[i] = pg[j]
  <2> SUFFICES ASSUME NEW i \in 1 .. L - 1 PROVE \E j \in 1 .. L : j # k /\ r[i] = pg[j]
    BY <1>1, <1>9
  <2>1. CASE i < k
    BY <1>1, <1>10, <2>1
  <2>2. CASE ~(i < k)
    <3>1. i + 1 \in 1 .. L /\ i + 1 # k
      BY <1>1, <2>2
    <3> QED
      BY <1>10, <2>2, <3>1
  <2> QED
    BY <2>1, <2>2
<1>12. \A j \in DOMAIN pg : j # k => \E i \in DOMAIN r : r[i] = pg[j]
  <2> SUFFICES ASSUME NEW j \in 1 .. L, j # k PROVE \E i \in 1 .. L - 1 : r[i] = pg[j]
    BY <1>1, <1>9
  <2>1. CASE j < k
    <3>1. j \in 1 .. L - 1
      BY <1>1, <2>1
    <3> QED
      BY <1>10, <2>1, <3>1
  <2>2. CASE j > k
    <3>1. j - 1 \in 1 .. L - 1 /\ ~(j - 1 < k) /\ j - 1 + 1 = j
      BY <1>1, <2>2
    <3> QED
      BY <1>10, <3>1
  <2> QED
    BY <1>1, <2>1, <2>2
<1>13. ASSUME NEW i \in DOMAIN r, NEW j \in DOMAIN r, r[i].nroPagina = r[j].nroPagina PROVE i = j
  <2>1. i \in 1 .. L - 1 /\ j \in 1 .. L - 1
    BY <1>9
  <2> DEFINE lugar(x) == IF x < k THEN x ELSE x + 1
  <2>2. \A x \in 1 .. L - 1 : lugar(x) \in DOMAIN pg /\ r[x] = pg[lugar(x)]
    BY <1>1, <1>10
  <2>3. lugar(i) = lugar(j)
    BY <1>13, <2>1, <2>2 DEF SinRepetidas
  <2> QED
    BY <1>1, <2>1, <2>3
<1> QED
  BY <1>9, <1>11, <1>12, <1>13 DEF r, SinUno, SinRepetidas

-----------------------------------------------------------------------------
(* compressPageHeap and removePaginaHeap give back a page. *)
LEMMA DevolverBien ==
    ASSUME NEW m, NEW bl, NEW pg, NEW mp, Bien(m, bl, pg, mp, "vivo"),
           NEW nro \in DOMAIN bl
    PROVE  LET mp2 == IF nro = mp THEN mp - 1 ELSE mp IN
           /\ mp # NULL
           /\ Bien(m \ {nro}, SinPagina(bl, nro), SinCabecera(pg, nro), mp2, "vivo")
           /\ mp = Max(m) /\ mp2 # Max(m \ {nro}) =>
                 Max(m) - 1 \notin m /\ Max(m) \notin m \ {nro}
<1> DEFINE mp2 == IF nro = mp THEN mp - 1 ELSE mp
           b == SinPagina(bl, nro)
           g == SinCabecera(pg, nro)
<1>1. /\ m \subseteq Paginas /\ 0 .. paginasTotales - 1 \subseteq m /\ mp \in Int
      /\ mp = NULL => m = 0 .. paginasTotales - 1
      /\ mp # NULL => \A x \in m : x <= mp
      /\ DOMAIN bl \subseteq m \ (0 .. paginasTotales - 1)
  BY DEF Bien, BienSalvo
<1>2. mp # NULL /\ nro \in m /\ nro \notin 0 .. paginasTotales - 1 /\ nro \in Nat /\ 0 \in m /\ nro # 0
  <2>1. nro \in m /\ nro \notin 0 .. paginasTotales - 1 /\ nro \in Paginas
    BY <1>1
  <2>2. 0 \in 0 .. paginasTotales - 1
    BY Constantes
  <2>3. mp # NULL /\ 0 \in m /\ nro # 0
    BY <1>1, <2>1, <2>2
  <2> QED
    BY <2>1, <2>3, Constantes
<1>3. m \subseteq Nat /\ \A x \in m : x <= mp /\ x <= MaxPagina
  BY <1>1, <1>2, Constantes
<1>4. mp \in Nat
  BY <1>1, <1>2, <1>3
<1>5. mp2 \in Nat /\ \A x \in m \ {nro} : x <= mp2
  <2>1. CASE nro = mp
    <3>1. mp2 = mp - 1 /\ mp - 1 \in Nat
      BY <1>2, <1>4, <2>1
    <3>2. \A x \in m \ {nro} : x <= mp - 1
      BY <1>3, <1>4, <2>1
    <3> QED
      BY <3>1, <3>2
  <2>2. CASE nro # mp
    BY <1>3, <1>4, <2>2
  <2> QED
    BY <2>1, <2>2
<1>6. DOMAIN b = DOMAIN bl \ {nro} /\ \A k \in DOMAIN b : b[k] = bl[k]
  BY DEF SinPagina
<1>7. /\ pg \in Seq(Cabeceras)
      /\ \A i \in DOMAIN pg : /\ pg[i].nroPagina \in DOMAIN bl
                              /\ pg[i].espacioDisponible <= BytesLibres(bl[pg[i].nroPagina])
      /\ \A i \in DOMAIN pg : \A j \in DOMAIN pg : pg[i].nroPagina = pg[j].nroPagina => i = j
      /\ \A k \in DOMAIN bl : \E i \in DOMAIN pg : pg[i].nroPagina = k
  BY DEF Bien, BienSalvo
<1>8. PICK k \in DOMAIN pg : pg[k].nroPagina = nro
  BY <1>7
<1>9. /\ g \in Seq(Cabeceras)
      /\ \A i \in DOMAIN g : \E j \in DOMAIN pg : j # k /\ g[i] = pg[j]
      /\ \A i \in DOMAIN g : \A j \in DOMAIN g : g[i].nroPagina = g[j].nroPagina => i = j
      /\ \A j \in DOMAIN pg : j # k => \E i \in DOMAIN g : g[i] = pg[j]
  <2>1. nro = pg[k].nroPagina
    BY <1>8
  <2>2. pg \in Seq(Cabeceras) /\ SinRepetidas(pg)
    BY <1>7 DEF SinRepetidas
  <2>3. SinUno(pg, k, SinCabecera(pg, nro))
    BY <2>1, <2>2, SinCabeceraEs
  <2> QED
    BY <2>3 DEF SinUno, SinRepetidas
<1>10. 0 .. paginasTotales - 1 \subseteq m \ {nro} /\ DOMAIN b \subseteq (m \ {nro}) \ (0 .. paginasTotales - 1)
  BY <1>1, <1>2, <1>6
<1> HIDE DEF b, g
<1>11. \A i \in DOMAIN g : /\ g[i].nroPagina \in DOMAIN b
                           /\ g[i].espacioDisponible <= BytesLibres(b[g[i].nroPagina])
  <2> SUFFICES ASSUME NEW i \in DOMAIN g
               PROVE  /\ g[i].nroPagina \in DOMAIN b
                      /\ g[i].espacioDisponible <= BytesLibres(b[g[i].nroPagina])
    OBVIOUS
  <2>1. PICK j \in DOMAIN pg : j # k /\ g[i] = pg[j]
    BY <1>9
  <2>2. pg[j].nroPagina # nro
    BY <1>7, <1>8, <2>1
  <2> QED
    BY <1>6, <1>7, <2>1, <2>2
<1>12. \A x \in DOMAIN b : \E i \in DOMAIN g : g[i].nroPagina = x
  <2> SUFFICES ASSUME NEW x \in DOMAIN b PROVE \E i \in DOMAIN g : g[i].nroPagina = x
    OBVIOUS
  <2>1. PICK j \in DOMAIN pg : pg[j].nroPagina = x
    BY <1>6, <1>7
  <2>2. j # k
    BY <1>6, <1>8, <2>1
  <2> QED
    BY <1>9, <2>1, <2>2
<1>13. Bien(m \ {nro}, b, g, mp2, "vivo")
  <2>1. \A x \in DOMAIN b : /\ Encadenada(b[x]) /\ SinVecinos(b[x]) /\ UltimoLibre(b[x])
                            /\ (x # NULL => ~UnSoloBloque(b[x]))
    BY <1>6 DEF Bien, BienSalvo
  <2>2. mp2 # NULL /\ mp2 \in Int /\ m \ {nro} \subseteq Paginas
    <3>1. mp2 \in Nat
      BY <1>5
    <3> HIDE DEF mp2
    <3>2. mp2 # NULL /\ mp2 \in Int
      BY <3>1, Constantes
    <3>3. m \ {nro} \subseteq Paginas
      BY <1>1 DEF Bien, BienSalvo
    <3> QED
      BY <3>2, <3>3
  <2> HIDE DEF mp2
  <2> QED
    BY <1>5, <1>9, <1>10, <1>11, <1>12, <2>1, <2>2 DEF Bien, BienSalvo
<1>14. ASSUME mp = Max(m), mp2 # Max(m \ {nro})
       PROVE  Max(m) - 1 \notin m /\ Max(m) \notin m \ {nro}
  <2> DEFINE d == m \ {nro}
  <2>1. mp \in m
    BY <1>2, <1>3, <1>14, Constantes, MaxDe
  <2>2. d \subseteq Nat /\ 0 \in d
    BY <1>2, <1>3
  <2>3. mp2 \notin d
    BY <1>5, <1>14, <2>2, MaxUnico
  <2>4. nro = mp
    BY <2>1, <2>3
  <2>5. mp - 1 # nro
    BY <1>4, <2>4
  <2> QED
    BY <1>14, <2>3, <2>4, <2>5
<1> QED
  BY <1>2, <1>13, <1>14 DEF b, g

(* liberar keeps a page that still has blocks in use. *)
LEMMA ConservarBien ==
    ASSUME NEW m, NEW bl, NEW pg, NEW mp, NEW es, Bien(m, bl, pg, mp, es),
           NEW nro \in DOMAIN bl, NEW o \in DOMAIN bl[nro], ~bl[nro][o].isFree,
           ~UnSoloBloque(Liberado(bl[nro], o))
    PROVE  Bien(m, [bl EXCEPT ![nro] = Liberado(bl[nro], o)],
                ConRecuperado(pg, nro, bl[nro][o].size), mp, es)
<1> DEFINE q == Liberado(bl[nro], o)
           s == bl[nro][o].size
           b == [bl EXCEPT ![nro] = q]
           g == ConRecuperado(pg, nro, s)
<1>1. Encadenada(bl[nro]) /\ SinVecinos(bl[nro]) /\ ~UnSoloBloque(bl[nro]) /\ UltimoLibre(bl[nro])
  <2>1. nro \in Paginas
    BY DEF Bien, BienSalvo
  <2> QED
    BY <2>1, Constantes DEF Bien, BienSalvo
<1>2. /\ Encadenada(q) /\ SinVecinos(q) /\ ~UnSoloBloque(q)
      /\ BytesLibres(bl[nro]) + s <= BytesLibres(q) /\ s \in Nat
      /\ BytesLibres(q) \in Nat /\ BytesLibres(q) <= tamanio_pag_memoria - 5
      /\ BytesLibres(bl[nro]) \in Nat /\ UltimoLibre(q)
  BY <1>1, LiberarBloque, LiberarUltimo, BytesDe, Bloque
<1> HIDE DEF q, s
<1>3. DOMAIN b = DOMAIN bl /\ b[nro] = q /\ \A k \in DOMAIN bl : k # nro => b[k] = bl[k]
  OBVIOUS
<1>4. /\ pg \in Seq(Cabeceras)
      /\ \A i \in DOMAIN pg : /\ pg[i].nroPagina \in DOMAIN bl
                              /\ pg[i].espacioDisponible <= BytesLibres(bl[pg[i].nroPagina])
      /\ \A i \in DOMAIN pg : \A j \in DOMAIN pg : pg[i].nroPagina = pg[j].nroPagina => i = j
      /\ \A k \in DOMAIN bl : \E i \in DOMAIN pg : pg[i].nroPagina = k
  BY DEF Bien, BienSalvo
<1>5. DOMAIN pg = 1 .. Len(pg) /\ Len(pg) \in Nat /\ \A i \in DOMAIN pg : pg[i] \in Cabeceras
  BY <1>4, LenProperties, ElementOfSeq
<1>6. /\ DOMAIN g = DOMAIN pg
      /\ \A i \in DOMAIN pg : pg[i].nroPagina # nro => g[i] = pg[i]
      /\ \A i \in DOMAIN pg : pg[i].nroPagina = nro =>
            g[i] = [pg[i] EXCEPT !.espacioDisponible = pg[i].espacioDisponible + s]
  BY DEF ConRecuperado, recuperado
<1> HIDE DEF g, b
<1>7. ASSUME NEW i \in DOMAIN pg
      PROVE  /\ g[i] \in Cabeceras /\ g[i].nroPagina = pg[i].nroPagina
             /\ g[i].espacioDisponible <= BytesLibres(b[g[i].nroPagina])
  <2>1. CASE pg[i].nroPagina = nro
    <3>1. /\ pg[i].nroPagina \in Paginas /\ pg[i].espacioDisponible \in Offsets
          /\ pg[i].espacioDisponible \in Int /\ 0 <= pg[i].espacioDisponible
      BY <1>5, Medidas DEF Cabeceras
    <3>2. pg[i].espacioDisponible <= BytesLibres(bl[nro])
      BY <1>4, <2>1
    <3>3. /\ pg[i].espacioDisponible + s <= BytesLibres(q)
          /\ pg[i].espacioDisponible + s \in Int /\ 0 <= pg[i].espacioDisponible + s
      BY <1>2, <3>1, <3>2
    <3>4. pg[i].espacioDisponible + s \in Offsets
      BY <1>2, <3>3, Medidas
    <3>5. /\ g[i].nroPagina = pg[i].nroPagina
          /\ g[i].espacioDisponible = pg[i].espacioDisponible + s
          /\ g[i] \in Cabeceras
      BY <1>5, <1>6, <2>1, <3>4 DEF Cabeceras
    <3> QED
      BY <1>3, <2>1, <3>3, <3>5
  <2>2. CASE pg[i].nroPagina # nro
    <3>1. g[i] = pg[i] /\ b[pg[i].nroPagina] = bl[pg[i].nroPagina]
      BY <1>3, <1>4, <1>6, <2>2
    <3> QED
      BY <1>4, <1>5, <3>1
  <2> QED
    BY <2>1, <2>2
<1>8. g \in Seq(Cabeceras)
  <2>1. g = [i \in 1 .. Len(pg) |-> g[i]]
    BY <1>5, <1>6 DEF g, ConRecuperado
  <2>2. g \in [1 .. Len(pg) -> Cabeceras]
    BY <1>5, <1>7, <2>1
  <2> QED
    BY <1>5, <2>2, SeqDef
<1>9. \A k \in DOMAIN b : /\ Encadenada(b[k]) /\ SinVecinos(b[k]) /\ UltimoLibre(b[k])
                          /\ (k # NULL => ~UnSoloBloque(b[k]))
  BY <1>2, <1>3 DEF Bien, BienSalvo
<1>10. /\ \A i \in DOMAIN g : /\ g[i].nroPagina \in DOMAIN b
                              /\ g[i].espacioDisponible <= BytesLibres(b[g[i].nroPagina])
       /\ \A i \in DOMAIN g : \A j \in DOMAIN g : g[i].nroPagina = g[j].nroPagina => i = j
       /\ \A k \in DOMAIN b : \E i \in DOMAIN g : g[i].nroPagina = k
  <2>1. \A i \in DOMAIN pg : g[i].nroPagina = pg[i].nroPagina
    BY <1>7
  <2>2. \A i \in DOMAIN g : g[i].nroPagina \in DOMAIN b
    BY <1>3, <1>4, <1>6, <2>1
  <2>3. \A i \in DOMAIN g : g[i].espacioDisponible <= BytesLibres(b[g[i].nroPagina])
    BY <1>6, <1>7
  <2>4. \A i \in DOMAIN g : \A j \in DOMAIN g : g[i].nroPagina = g[j].nroPagina => i = j
    BY <1>4, <1>6, <2>1
  <2>5. \A k \in DOMAIN b : \E i \in DOMAIN g : g[i].nroPagina = k
    BY <1>3, <1>4, <1>6, <2>1
  <2> QED
    BY <2>2, <2>3, <2>4, <2>5
<1>11. Bien(m, b, g, mp, es)
  BY <1>3, <1>8, <1>9, <1>10 DEF Bien, BienSalvo
<1> QED
  BY <1>11 DEF b, g, q, s

-----------------------------------------------------------------------------
(* The program starts, stops and ends. *)
LEMMA IniciarBien ==
    ASSUME NEW m, NEW bl, NEW pg, NEW mp, Bien(m, bl, pg, mp, "nuevo")
    PROVE  Bien(0 .. paginasTotales - 1, bl, pg, mp, "vivo")
<1>1. DOMAIN bl = {} /\ mp = NULL
  BY DEF Bien, BienSalvo
<1>2. 0 .. paginasTotales - 1 \subseteq Paginas
  BY Constantes
<1> QED
  BY <1>1, <1>2 DEF Bien, BienSalvo

LEMMA ErrorBien ==
    ASSUME NEW m, NEW bl, NEW pg, NEW mp, NEW es, Bien(m, bl, pg, mp, es)
    PROVE  Bien(m, bl, pg, mp, "error")
BY DEF Bien, BienSalvo

LEMMA FinBien ==
    ASSUME NEW m, NEW bl, NEW pg, NEW mp, NEW es, Bien(m, bl, pg, mp, es)
    PROVE  Bien({}, <<>>, <<>>, mp, "fin")
<1>1. DOMAIN <<>> = {} /\ <<>> \in Seq(Cabeceras)
  BY EmptySeq
<1> QED
  BY <1>1 DEF Bien, BienSalvo

(* Products with a positive number keep the order. *)
LEMMA Crece ==
    ASSUME NEW x \in Int, NEW y \in Int, NEW t \in Nat \ {0}
    PROVE  /\ x * t \in Int /\ y * t \in Int
           /\ x < y => x * t + t <= y * t
           /\ (x + 1) * t = x * t + t
<1>1. x * t \in Int /\ y * t \in Int
  OBVIOUS
<1>2. (x + 1) * t = x * t + t
  OBVIOUS
<1>3. x < y => (x + 1) * t <= y * t
  OBVIOUS
<1> QED
  BY <1>1, <1>2, <1>3

LEMMA CocienteUnico ==
    ASSUME NEW x \in Int, NEW q \in Int, NEW t \in Nat \ {0}, q * t <= x, x < (q + 1) * t
    PROVE  q = x \div t
OBVIOUS

(* Two blocks have different pointers. *)
LEMMA PunteroUnico ==
    ASSUME NEW a \in Int, NEW b \in Int, NEW x \in Int, NEW y \in Int,
           x - y < tamanio_pag_memoria, y - x < tamanio_pag_memoria,
           Puntero(a, x) = Puntero(b, y)
    PROVE  a = b /\ x = y
<1>1. PICK t \in Nat \ {0} : t = tamanio_pag_memoria
  BY Medidas
<1>2. /\ a * t \in Int /\ b * t \in Int
      /\ a < b => a * t + t <= b * t
      /\ b < a => b * t + t <= a * t
  BY Crece
<1>3. a * t + x = b * t + y
  BY <1>1 DEF Puntero
<1>4. x - y < t /\ y - x < t
  BY <1>1
<1> DEFINE u == a * t
           v == b * t
<1>5. u \in Int /\ v \in Int /\ (a < b => u + t <= v) /\ (b < a => v + t <= u) /\ u + x = v + y
  BY <1>2, <1>3
<1>6. a = b => u = v
  OBVIOUS
<1> HIDE DEF u, v
<1> QED
  BY <1>4, <1>5, <1>6

-----------------------------------------------------------------------------
(* The blocks a program holds, as it sees them. *)
Ficha(pag, nro, o) == [puntero |-> Puntero(nro, o + 5), bytes |-> pag[o].size]
EnUso(bl, b) == \E nro \in DOMAIN bl : \E o \in DOMAIN bl[nro] : ~bl[nro][o].isFree /\ b = Ficha(bl[nro], nro, o)
UsadosDe(bl) ==
    UNION {{[puntero |-> Puntero(nro, o + sizeof_metadata), bytes |-> bl[nro][o].size] :
              o \in {x \in DOMAIN bl[nro] : ~bl[nro][x].isFree}} :
            nro \in DOMAIN bl}
Paginada(bl) == DOMAIN bl \subseteq Paginas /\ \A nro \in DOMAIN bl : Encadenada(bl[nro]) /\ SinVecinos(bl[nro])

LEMMA UsadosEn ==
    ASSUME NEW bl, NEW b
    PROVE  b \in UsadosDe(bl) <=> EnUso(bl, b)
BY Medidas DEF UsadosDe, EnUso, Ficha

LEMMA UsadosIguales ==
    ASSUME NEW bl, NEW S, \A b : b \in S <=> EnUso(bl, b)
    PROVE  UsadosDe(bl) = S
BY UsadosEn

LEMMA UsadosNueva ==
    ASSUME NEW bl, NEW mx, mx \notin DOMAIN bl
    PROVE  UsadosDe(ConPagina(bl, mx)) = UsadosDe(bl)
<1> DEFINE c == ConPagina(bl, mx)
<1>1. DOMAIN c = DOMAIN bl \cup {mx} /\ c[mx] = paginaNueva /\ \A k \in DOMAIN bl : c[k] = bl[k]
  BY ConPaginaEs
<1>2. \A o \in DOMAIN paginaNueva : paginaNueva[o].isFree
  BY Nueva
<1> HIDE DEF c
<1>3. ASSUME NEW b PROVE EnUso(c, b) <=> EnUso(bl, b)
  BY <1>1, <1>2 DEF EnUso
<1>4. \A b : b \in UsadosDe(bl) <=> EnUso(c, b)
  BY <1>3, UsadosEn
<1> QED
  BY <1>4, UsadosIguales DEF c

LEMMA UsadosAsignar ==
    ASSUME NEW bl, Paginada(bl), NEW nro \in DOMAIN bl, NEW o \in DOMAIN bl[nro], NEW n \in Nat,
           Alcanza(bl[nro][o], n),
           NEW c, DOMAIN c = DOMAIN bl, c[nro] = partir(bl[nro], o, n),
           \A k \in DOMAIN bl : k # nro => c[k] = bl[k]
    PROVE  UsadosDe(c) =
              UsadosDe(bl) \cup {[puntero |-> Puntero(nro, o + 5), bytes |-> n]}
<1> DEFINE q == partir(bl[nro], o, n)
           f == [puntero |-> Puntero(nro, o + 5), bytes |-> n]
<1>1. /\ o \in DOMAIN q /\ ~q[o].isFree /\ q[o].size = n
      /\ \A x \in DOMAIN bl[nro] : x # o => x \in DOMAIN q /\ q[x] = bl[nro][x]
      /\ \A x \in DOMAIN q : ~q[x].isFree => x \in DOMAIN bl[nro]
      /\ bl[nro][o].isFree
  BY Partir DEF Paginada, Alcanza
<1>2. DOMAIN c = DOMAIN bl /\ c[nro] = q /\ \A k \in DOMAIN bl : k # nro => c[k] = bl[k]
  OBVIOUS
<1>3. Ficha(q, nro, o) = f
  BY <1>1 DEF Ficha
<1>4. \A x \in DOMAIN bl[nro] : x # o => Ficha(q, nro, x) = Ficha(bl[nro], nro, x)
  BY <1>1 DEF Ficha
<1> HIDE DEF q, f
<1>5. ASSUME NEW b PROVE b \in UsadosDe(bl) \cup {f} <=> EnUso(c, b)
  <2>1. ASSUME EnUso(c, b) PROVE EnUso(bl, b) \/ b = f
    <3>1. PICK k \in DOMAIN c : \E x \in DOMAIN c[k] : ~c[k][x].isFree /\ b = Ficha(c[k], k, x)
      BY <2>1 DEF EnUso
    <3>2. PICK x \in DOMAIN c[k] : ~c[k][x].isFree /\ b = Ficha(c[k], k, x)
      BY <3>1
    <3>3. CASE k # nro
      BY <1>2, <3>2, <3>3 DEF EnUso
    <3>4. CASE k = nro /\ x = o
      BY <1>2, <1>3, <3>2, <3>4
    <3>5. CASE k = nro /\ x # o
      BY <1>1, <1>2, <1>4, <3>2, <3>5 DEF EnUso
    <3> QED
      BY <3>3, <3>4, <3>5
  <2>2. b = f => EnUso(c, b)
    BY <1>1, <1>2, <1>3 DEF EnUso
  <2>3. ASSUME EnUso(bl, b) PROVE EnUso(c, b)
    <3>1. PICK k \in DOMAIN bl : \E x \in DOMAIN bl[k] : ~bl[k][x].isFree /\ b = Ficha(bl[k], k, x)
      BY <2>3 DEF EnUso
    <3>2. PICK x \in DOMAIN bl[k] : ~bl[k][x].isFree /\ b = Ficha(bl[k], k, x)
      BY <3>1
    <3>3. CASE k # nro
      BY <1>2, <3>2, <3>3 DEF EnUso
    <3>4. CASE k = nro
      <4>1. x # o
        BY <1>1, <3>2, <3>4
      <4> QED
        BY <1>1, <1>2, <1>4, <3>2, <3>4, <4>1 DEF EnUso
    <3> QED
      BY <3>3, <3>4
  <2> QED
    BY <2>1, <2>2, <2>3, UsadosEn
<1>6. UsadosDe(c) = UsadosDe(bl) \cup {f}
  BY <1>5, UsadosIguales
<1> QED
  BY <1>6 DEF q, f

(* The pages that stay hold every other block. *)
LEMMA UsadosQuitar ==
    ASSUME NEW bl, Paginada(bl), NEW nro \in DOMAIN bl, NEW o \in DOMAIN bl[nro], ~bl[nro][o].isFree,
           NEW c,
           \A k \in DOMAIN c : \A x \in DOMAIN c[k] : ~c[k][x].isFree =>
               /\ k \in DOMAIN bl /\ x \in DOMAIN bl[k] /\ c[k][x] = bl[k][x]
               /\ ~(k = nro /\ x = o),
           \A k \in DOMAIN bl : \A x \in DOMAIN bl[k] : ~bl[k][x].isFree /\ ~(k = nro /\ x = o) =>
               k \in DOMAIN c /\ x \in DOMAIN c[k] /\ c[k][x] = bl[k][x]
    PROVE  UsadosDe(c) = UsadosDe(bl) \ {Ficha(bl[nro], nro, o)}
<1> DEFINE f == Ficha(bl[nro], nro, o)
<1>1. \A k \in DOMAIN bl : k \in Int /\ DOMAIN bl[k] \subseteq Offsets
  BY Constantes DEF Paginada, Encadenada
<1>2. ASSUME NEW k \in DOMAIN bl, NEW x \in DOMAIN bl[k], ~(k = nro /\ x = o)
      PROVE  Ficha(bl[k], k, x) # f
  <2>1. PICK y, z : y = x + 5 /\ z = o + 5
    OBVIOUS
  <2>2. /\ k \in Int /\ nro \in Int /\ y \in Int /\ z \in Int /\ x \in Int /\ o \in Int
        /\ y - z < tamanio_pag_memoria /\ z - y < tamanio_pag_memoria
    BY <1>1, <2>1, Medidas
  <2>3. Puntero(k, y) # Puntero(nro, z)
    BY <1>2, <2>1, <2>2, PunteroUnico
  <2> QED
    BY <2>1, <2>3 DEF Ficha
<1>3. ASSUME NEW k, NEW x, c[k][x] = bl[k][x] PROVE Ficha(c[k], k, x) = Ficha(bl[k], k, x)
  BY <1>3 DEF Ficha
<1>4. ASSUME NEW b PROVE b \in UsadosDe(bl) \ {f} <=> EnUso(c, b)
  <2>1. ASSUME EnUso(c, b) PROVE EnUso(bl, b) /\ b # f
    <3>1. PICK k \in DOMAIN c : \E x \in DOMAIN c[k] : ~c[k][x].isFree /\ b = Ficha(c[k], k, x)
      BY <2>1 DEF EnUso
    <3>2. PICK x \in DOMAIN c[k] : ~c[k][x].isFree /\ b = Ficha(c[k], k, x)
      BY <3>1
    <3>3. /\ k \in DOMAIN bl /\ x \in DOMAIN bl[k] /\ c[k][x] = bl[k][x] /\ ~(k = nro /\ x = o)
      BY <3>2
    <3>4. b = Ficha(bl[k], k, x) /\ b # f
      BY <1>2, <1>3, <3>2, <3>3
    <3> QED
      BY <3>2, <3>3, <3>4 DEF EnUso
  <2>2. ASSUME EnUso(bl, b), b # f PROVE EnUso(c, b)
    <3>1. PICK k \in DOMAIN bl : \E x \in DOMAIN bl[k] : ~bl[k][x].isFree /\ b = Ficha(bl[k], k, x)
      BY <2>2 DEF EnUso
    <3>2. PICK x \in DOMAIN bl[k] : ~bl[k][x].isFree /\ b = Ficha(bl[k], k, x)
      BY <3>1
    <3>3. ~(k = nro /\ x = o)
      BY <2>2, <3>2
    <3>4. k \in DOMAIN c /\ x \in DOMAIN c[k] /\ c[k][x] = bl[k][x]
      BY <3>2, <3>3
    <3> QED
      BY <1>3, <3>2, <3>4 DEF EnUso
  <2> QED
    BY <2>1, <2>2, UsadosEn
<1> QED
  BY <1>4, UsadosIguales

LEMMA UsadosConservar ==
    ASSUME NEW bl, Paginada(bl), NEW nro \in DOMAIN bl, NEW o \in DOMAIN bl[nro], ~bl[nro][o].isFree,
           ~UnSoloBloque(bl[nro]),
           NEW c, DOMAIN c = DOMAIN bl, c[nro] = Liberado(bl[nro], o),
           \A k \in DOMAIN bl : k # nro => c[k] = bl[k]
    PROVE  UsadosDe(c) = UsadosDe(bl) \ {Ficha(bl[nro], nro, o)}
<1> DEFINE q == Liberado(bl[nro], o)
<1>1. /\ \A x \in DOMAIN q : ~q[x].isFree => x \in DOMAIN bl[nro] /\ x # o /\ q[x] = bl[nro][x]
      /\ \A x \in DOMAIN bl[nro] : ~bl[nro][x].isFree /\ x # o => x \in DOMAIN q /\ q[x] = bl[nro][x]
  BY LiberarBloque DEF Paginada
<1>2. DOMAIN c = DOMAIN bl /\ c[nro] = q /\ \A k \in DOMAIN bl : k # nro => c[k] = bl[k]
  OBVIOUS
<1> HIDE DEF q
<1>3. \A k \in DOMAIN c : \A x \in DOMAIN c[k] : ~c[k][x].isFree =>
         k \in DOMAIN bl /\ x \in DOMAIN bl[k] /\ c[k][x] = bl[k][x] /\ ~(k = nro /\ x = o)
  BY <1>1, <1>2
<1>4. \A k \in DOMAIN bl : \A x \in DOMAIN bl[k] : ~bl[k][x].isFree /\ ~(k = nro /\ x = o) =>
         k \in DOMAIN c /\ x \in DOMAIN c[k] /\ c[k][x] = bl[k][x]
  BY <1>1, <1>2
<1>5. UsadosDe(c) = UsadosDe(bl) \ {Ficha(bl[nro], nro, o)}
  BY <1>3, <1>4, UsadosQuitar
<1> QED
  BY <1>5 DEF q

LEMMA UsadosDevolver ==
    ASSUME NEW bl, Paginada(bl), NEW nro \in DOMAIN bl, NEW o \in DOMAIN bl[nro], ~bl[nro][o].isFree,
           ~UnSoloBloque(bl[nro]), UnSoloBloque(Liberado(bl[nro], o))
    PROVE  UsadosDe(SinPagina(bl, nro)) = UsadosDe(bl) \ {Ficha(bl[nro], nro, o)}
<1> DEFINE c == SinPagina(bl, nro)
<1>1. \A x \in DOMAIN bl[nro] : ~bl[nro][x].isFree => x = o
  BY LiberarBloque DEF Paginada
<1>2. DOMAIN c = DOMAIN bl \ {nro} /\ \A k \in DOMAIN c : c[k] = bl[k]
  BY DEF SinPagina
<1> HIDE DEF c
<1>3. \A k \in DOMAIN c : \A x \in DOMAIN c[k] : ~c[k][x].isFree =>
         k \in DOMAIN bl /\ x \in DOMAIN bl[k] /\ c[k][x] = bl[k][x] /\ ~(k = nro /\ x = o)
  BY <1>2
<1>4. \A k \in DOMAIN bl : \A x \in DOMAIN bl[k] : ~bl[k][x].isFree /\ ~(k = nro /\ x = o) =>
         k \in DOMAIN c /\ x \in DOMAIN c[k] /\ c[k][x] = bl[k][x]
  BY <1>1, <1>2
<1>5. UsadosDe(c) = UsadosDe(bl) \ {Ficha(bl[nro], nro, o)}
  BY <1>3, <1>4, UsadosQuitar
<1> QED
  BY <1>5 DEF c

(* A block that is given away overlaps no block in use. *)
LEMMA NuevoSeparado ==
    ASSUME NEW bl, Paginada(bl), NEW nro \in DOMAIN bl, NEW o \in DOMAIN bl[nro], NEW n \in Nat,
           Alcanza(bl[nro][o], n), NEW b \in UsadosDe(bl)
    PROVE  Asignador!Separados(Asignador!Bloque(Puntero(nro, o + 5), n), b)
<1>1. PICK k \in DOMAIN bl : \E x \in DOMAIN bl[k] : ~bl[k][x].isFree /\ b = Ficha(bl[k], k, x)
  BY UsadosEn DEF EnUso
<1>2. PICK x \in DOMAIN bl[k] : ~bl[k][x].isFree /\ b = Ficha(bl[k], k, x)
  BY <1>1
<1>3. PICK t \in Nat \ {0} : t = tamanio_pag_memoria
  BY Medidas
<1>4. nro \in Int /\ k \in Int
  BY Constantes DEF Paginada
<1>5. /\ nro * t \in Int /\ k * t \in Int
      /\ nro < k => nro * t + t <= k * t
      /\ k < nro => k * t + t <= nro * t
  BY <1>4, Crece
<1>6. /\ o \in Int /\ 0 <= o /\ o + 5 + n \in Int /\ o + 5 + n <= Fin(bl[nro], o)
      /\ Fin(bl[nro], o) \in Int /\ Fin(bl[nro], o) <= t
  <2>1. Encadenada(bl[nro])
    BY DEF Paginada
  <2>2. bl[nro][o].size >= n + 5
    BY Medidas DEF Alcanza
  <2>3. /\ o \in Int /\ 0 <= o /\ bl[nro][o].size \in Nat
        /\ Fin(bl[nro], o) = o + 5 + bl[nro][o].size
        /\ Fin(bl[nro], o) \in Int /\ Fin(bl[nro], o) <= tamanio_pag_memoria
    BY <2>1, Bloque
  <2> QED
    BY <1>3, <2>2, <2>3
<1>7. /\ x \in Int /\ 0 <= x /\ bl[k][x].size \in Nat /\ x + 5 + bl[k][x].size = Fin(bl[k], x)
      /\ Fin(bl[k], x) \in Int /\ Fin(bl[k], x) <= t
  BY <1>3, Bloque DEF Paginada
<1> DEFINE u == nro * t
           v == k * t
           s == bl[k][x].size
           fo == Fin(bl[nro], o)
           fx == Fin(bl[k], x)
<1>8. nro = k => o # x /\ u = v /\ (fo <= x \/ fx <= o)
  <2> SUFFICES ASSUME nro = k PROVE o # x /\ (fo <= x \/ fx <= o)
    OBVIOUS
  <2>1. o # x
    BY <1>2 DEF Alcanza
  <2> QED
    BY <2>1, Disjuntos DEF Paginada
<1>9. Puntero(nro, o + 5) = u + (o + 5) /\ Puntero(k, x + 5) = v + (x + 5)
  BY <1>3 DEF Puntero
<1>10. /\ u \in Int /\ v \in Int /\ (nro < k => u + t <= v) /\ (k < nro => v + t <= u)
       /\ s \in Nat /\ x + 5 + s = fx /\ fx <= t /\ fo <= t /\ o + 5 + n <= fo /\ fx \in Int /\ fo \in Int
  BY <1>5, <1>6, <1>7
<1> HIDE DEF u, v, s, fo, fx
<1>11. u + (o + 5) + n < v + (x + 5) \/ v + (x + 5) + s < u + (o + 5)
  <2>1. CASE nro < k
    BY <1>6, <1>7, <1>10, <2>1
  <2>2. CASE k < nro
    BY <1>6, <1>7, <1>10, <2>2
  <2>3. CASE nro = k
    BY <1>6, <1>7, <1>8, <1>10, <2>3
  <2> QED
    BY <1>4, <2>1, <2>2, <2>3
<1>12. b.puntero = v + (x + 5) /\ b.bytes = s
  BY <1>2, <1>9 DEF Ficha, s
<1>13. LET a == Asignador!Bloque(Puntero(nro, o + 5), n) IN a.puntero = u + (o + 5) /\ a.bytes = n
  BY <1>9 DEF Asignador!Bloque
<1> QED
  BY <1>11, <1>12, <1>13 DEF Asignador!Separados

(* It lies inside one page of the program. *)
LEMMA NuevoEnPagina ==
    ASSUME NEW nro \in Paginas, NEW o \in Int, 0 <= o, NEW n \in Nat, o + 5 + n < tamanio_pag_memoria
    PROVE  /\ Puntero(nro, o + 5) \in Asignador!Direcciones
           /\ Asignador!EnUnaPagina(Asignador!Bloque(Puntero(nro, o + 5), n))
<1>1. PICK t \in Nat \ {0} : t = tamanio_pag_memoria
  BY Medidas
<1>2. nro \in Int /\ 0 <= nro /\ nro <= MaxPagina /\ MaxPagina \in Nat
  BY Constantes
<1>3. /\ nro * t \in Int /\ (MaxPagina + 1) * t \in Int /\ 0 <= nro * t
      /\ nro * t + t <= (MaxPagina + 1) * t
      /\ (nro + 1) * t = nro * t + t
  <2>1. nro < MaxPagina + 1 /\ MaxPagina + 1 \in Int
    BY <1>2
  <2>2. 0 <= nro * t
    <3>1. nro \in Nat
      BY <1>2
    <3> QED
      BY <3>1
  <2> QED
    BY <1>2, <2>1, <2>2, Crece
<1> DEFINE u == nro * t
           w == (MaxPagina + 1) * t
           x == u + (o + 5)
<1>4. Puntero(nro, o + 5) = x
  BY <1>1 DEF Puntero
<1>5. u \in Int /\ w \in Int /\ 0 <= u /\ u + t <= w /\ (nro + 1) * t = u + t
  BY <1>3
<1>6. nro * t = u
  OBVIOUS
<1> HIDE DEF u, w
<1>7. x \in Int /\ 0 <= x /\ x <= w - 1 /\ u <= x /\ x + n < u + t /\ x + n \in Int /\ u <= x + n
  BY <1>1, <1>5
<1> HIDE DEF x
<1>8. nro = x \div t
  BY <1>2, <1>5, <1>6, <1>7, CocienteUnico
<1>9. nro = (x + n) \div t
  BY <1>2, <1>5, <1>6, <1>7, CocienteUnico
<1>10. x \in Asignador!Direcciones
  BY <1>1, <1>7 DEF Asignador!Direcciones, w
<1>11. Asignador!EnUnaPagina(Asignador!Bloque(x, n))
  BY <1>1, <1>8, <1>9 DEF Asignador!EnUnaPagina, Asignador!Bloque
<1> QED
  BY <1>4, <1>10, <1>11

(* A step of program p alone. *)
Cambia(p, m, bl, pg, mp, es) ==
    /\ enMemoria' = [enMemoria EXCEPT ![p] = m]
    /\ maxPaginas' = [maxPaginas EXCEPT ![p] = mp]
    /\ estado' = [estado EXCEPT ![p] = es]
    /\ DOMAIN bloques' = Pids /\ DOMAIN paginas' = Pids
    /\ bloques'[p] = bl /\ paginas'[p] = pg
    /\ \A q \in Pids : q # p => /\ bloques'[q] = bloques[q] /\ paginas'[q] = paginas[q]

Numera == \A p \in Pids : SinLugarPor(p) /\ SeAdelanta(p)

Asignados == [p \in Pids |-> Usados(p)]

LEMMA UsadosEs ==
    ASSUME NEW p
    PROVE  Usados(p) = UsadosDe(bloques[p]) /\ Usados(p)' = UsadosDe(bloques'[p])
BY DEF Usados, UsadosDe, Puntero

LEMMA Cambio ==
    ASSUME IInv, NEW p \in Pids, NEW m, NEW bl, NEW pg, NEW mp, NEW es,
           Cambia(p, m, bl, pg, mp, es), Bien(m, bl, pg, mp, es),
           estado[p] = "vivo" /\ es = "error" /\ respuesta'.codigo = "RESERVAR_SIN_ESPACIO"
              => ~hayEspacio(1) \/ Adelantado(p),
           es = "vivo" /\ mp # NULL /\ mp # Max(m) /\ ~Adelantado(p)
              => Max(enMemoria[p]) - 1 \notin enMemoria[p] /\ Max(enMemoria[p]) \notin m
    PROVE  /\ IInv' /\ Numera
           /\ Asignados[p] = UsadosDe(bloques[p])
           /\ Asignados' = [Asignados EXCEPT ![p] = UsadosDe(bl)]
<1>1. /\ enMemoria' \in [Pids -> SUBSET Paginas] /\ maxPaginas' \in [Pids -> Int]
      /\ estado' \in [Pids -> {"nuevo", "vivo", "error", "fin"}]
      /\ enMemoria'[p] = m /\ maxPaginas'[p] = mp /\ estado'[p] = es
      /\ \A q \in Pids : q # p => /\ enMemoria'[q] = enMemoria[q] /\ maxPaginas'[q] = maxPaginas[q]
                                  /\ estado'[q] = estado[q]
  <2>1. m \subseteq Paginas /\ mp \in Int /\ es \in {"nuevo", "vivo", "error", "fin"}
    BY DEF Bien, BienSalvo
  <2> QED
    BY <2>1 DEF IInv, Cambia
<1>2. ASSUME NEW q \in Pids
      PROVE  Bien(enMemoria'[q], bloques'[q], paginas'[q], maxPaginas'[q], estado'[q])
  <2>1. CASE q = p
    BY <1>1, <2>1 DEF Cambia
  <2>2. CASE q # p
    <3>1. /\ enMemoria'[q] = enMemoria[q] /\ bloques'[q] = bloques[q] /\ paginas'[q] = paginas[q]
          /\ maxPaginas'[q] = maxPaginas[q] /\ estado'[q] = estado[q]
      BY <1>1, <2>2 DEF Cambia
    <3> QED
      BY <3>1 DEF IInv
  <2> QED
    BY <2>1, <2>2
<1>3. IInv'
  BY <1>1, <1>2 DEF IInv, Cambia
<1>4. ASSUME NEW q \in Pids PROVE SinLugarPor(q) /\ SeAdelanta(q)
  <2>1. Adelantado(q)' <=> maxPaginas'[q] # NULL /\ maxPaginas'[q] # Max(enMemoria'[q])
    BY DEF Adelantado, NULL
  <2>2. CASE q = p
    BY <1>1, <2>1, <2>2 DEF SinLugarPor, SeAdelanta
  <2>3. CASE q # p
    <3>1. Adelantado(q)' <=> Adelantado(q)
      BY <1>1, <2>1, <2>3 DEF Adelantado
    <3>2. estado'[q] = estado[q]
      BY <1>1, <2>3
    <3> QED
      BY <3>1, <3>2 DEF SinLugarPor, SeAdelanta
  <2> QED
    BY <2>2, <2>3
<1>5. Asignados[p] = UsadosDe(bloques[p])
  BY UsadosEs DEF Asignados
<1>6. Asignados' = [Asignados EXCEPT ![p] = UsadosDe(bl)]
  <2>1. Asignados' = [q \in Pids |-> Usados(q)']
    BY DEF Asignados
  <2>2. ASSUME NEW q \in Pids PROVE Usados(q)' = IF q = p THEN UsadosDe(bl) ELSE Usados(q)
    BY UsadosEs DEF Cambia
  <2>3. [Asignados EXCEPT ![p] = UsadosDe(bl)] = [q \in Pids |-> IF q = p THEN UsadosDe(bl) ELSE Usados(q)]
    BY DEF Asignados
  <2> QED
    BY <2>1, <2>2, <2>3
<1> QED
  BY <1>3, <1>4, <1>5, <1>6 DEF Numera

(* The heap is, and stays, what its metadata say. *)
Corre == kernel = "corre" /\ kernel' = kernel

(* A step that takes and gives back no block. *)
Responde(c) == respuesta' = [codigo |-> c, puntero |-> -1]
LEMMA SinEfectoDe ==
    ASSUME Asignados' = Asignados, Corre,
           NEW c \in {"RESERVAR_OVERFLOW", "RESERVAR_SIN_ESPACIO", "LIBERAR_OK", "LIBERAR_ERROR"},
           Responde(c)
    PROVE  Asignador!Next
<1>1. CASE c \in {"RESERVAR_OVERFLOW", "RESERVAR_SIN_ESPACIO"}
  <2>1. respuesta' \in [codigo : {"RESERVAR_OVERFLOW", "RESERVAR_SIN_ESPACIO"}, puntero : {-1}]
    BY <1>1 DEF Responde
  <2>2. Asignador!Rechazar
    BY <2>1 DEF Asignador!Rechazar, Asignados, Corre
  <2> QED
    BY <2>2 DEF Asignador!Next, Corre
<1>2. CASE c \in {"LIBERAR_OK", "LIBERAR_ERROR"}
  <2>1. respuesta' \in [codigo : {"LIBERAR_OK", "LIBERAR_ERROR"}, puntero : {-1}]
    BY <1>2 DEF Responde
  <2>2. Asignador!LiberarAjeno
    BY <2>1 DEF Asignador!LiberarAjeno, Asignados, Corre
  <2> QED
    BY <2>2 DEF Asignador!Next, Corre
<1> QED
  BY <1>1, <1>2

-----------------------------------------------------------------------------
(* The steps. *)

LEMMA BienDe ==
    ASSUME IInv, NEW p \in Pids
    PROVE  /\ Bien(enMemoria[p], bloques[p], paginas[p], maxPaginas[p], estado[p])
           /\ Paginada(bloques[p]) /\ enMemoria[p] \subseteq Paginas /\ maxPaginas[p] \in Int
           /\ DOMAIN bloques = Pids /\ DOMAIN paginas = Pids
           /\ enMemoria \in [Pids -> SUBSET Paginas] /\ maxPaginas \in [Pids -> Int]
           /\ estado \in [Pids -> {"nuevo", "vivo", "error", "fin"}]
           /\ \A nro \in DOMAIN bloques[p] : nro \in Paginas /\ nro \in Nat /\ nro # NULL
<1>1. Bien(enMemoria[p], bloques[p], paginas[p], maxPaginas[p], estado[p])
  BY DEF IInv
<1>2. DOMAIN bloques[p] \subseteq Paginas
  BY <1>1 DEF Bien, BienSalvo
<1>3. Paginada(bloques[p])
  BY <1>1, <1>2 DEF Bien, BienSalvo, Paginada
<1> QED
  BY <1>1, <1>2, <1>3, Constantes DEF IInv

(* The block and the page that Asignar needs, and what it leaves.          *)
LEMMA AsignarPaso ==
    ASSUME IInv, Corre, NEW p \in Pids, estado[p] = "vivo", NEW n \in Pedidos, ~Excede(n),
           NEW m, NEW mp, NEW g, NEW c, NEW i \in DOMAIN g, NEW o \in DOMAIN c[g[i].nroPagina],
           BienSalvo(m, c, g, mp, "vivo", g[i].nroPagina),
           Alcanza(c[g[i].nroPagina][o], n), g[i].espacioDisponible >= n + 5,
           UsadosDe(c) = UsadosDe(bloques[p]), Asignar(p, i, o, n, g, c),
           enMemoria' = [enMemoria EXCEPT ![p] = m], maxPaginas' = [maxPaginas EXCEPT ![p] = mp],
           mp = Max(m) \/ (mp = maxPaginas[p] /\ m = enMemoria[p])
    PROVE  IInv' /\ Numera /\ Asignador!Next
<1> DEFINE nro == g[i].nroPagina
           q == partir(c[nro], o, n)
           f == Asignador!Bloque(Puntero(nro, o + 5), n)
<1>2. PICK b2 : b2 = [c EXCEPT ![nro] = q]
  OBVIOUS
<1>3. PICK g2 : g2 = [g EXCEPT ![i].espacioDisponible = @ - (n + 5)]
  OBVIOUS
<1>5. n \in Nat
  BY Constantes DEF Excede
<1>6. Bien(m, b2, g2, mp, "vivo")
  BY <1>2, <1>3, <1>5, AsignarBien
<1>7. /\ Paginada(c) /\ nro \in DOMAIN c /\ nro \in Paginas
  <2>1. nro \in DOMAIN c
    BY DEF BienSalvo
  <2>2. DOMAIN c \subseteq Paginas
    BY DEF BienSalvo
  <2> QED
    BY <2>1, <2>2 DEF BienSalvo, Paginada
<1>8. /\ bloques' = [bloques EXCEPT ![p] = b2] /\ paginas' = [paginas EXCEPT ![p] = g2]
      /\ UNCHANGED estado
      /\ respuesta' = [codigo |-> "RESERVAR_OK", puntero |-> Puntero(nro, o + 5)]
  BY <1>2, <1>3, Medidas DEF Asignar, Responder
<1>9. Cambia(p, m, b2, g2, mp, "vivo")
  BY <1>8, BienDe DEF Cambia
<1>10. respuesta'.codigo # "RESERVAR_SIN_ESPACIO"
  BY <1>8
<1>11. mp # NULL /\ mp # Max(m) => (Adelantado(p) <=> TRUE)
  BY DEF Adelantado
<1>12. /\ IInv' /\ Numera /\ Asignados[p] = UsadosDe(bloques[p])
       /\ Asignados' = [Asignados EXCEPT ![p] = UsadosDe(b2)]
  BY <1>6, <1>9, <1>10, <1>11, Cambio
<1>13. UsadosDe(b2) = Asignados[p] \cup {f}
  <2>1. UsadosDe(b2) = UsadosDe(c) \cup {[puntero |-> Puntero(nro, o + 5), bytes |-> n]}
    <3>1. /\ o \in DOMAIN c[nro] /\ Alcanza(c[nro][o], n)
          /\ DOMAIN b2 = DOMAIN c /\ b2[nro] = partir(c[nro], o, n)
          /\ \A k \in DOMAIN c : k # nro => b2[k] = c[k]
      BY <1>2, <1>7
    <3> HIDE DEF nro
    <3> QED
      BY <1>5, <1>7, <3>1, UsadosAsignar
  <2> QED
    BY <1>12, <2>1 DEF Asignador!Bloque
<1>14. \A b \in Asignados[p] : Asignador!Separados(f, b)
  BY <1>5, <1>7, <1>12, NuevoSeparado
<1>15. Puntero(nro, o + 5) \in Asignador!Direcciones /\ Asignador!EnUnaPagina(f)
  <2>1. Encadenada(c[nro]) /\ SinVecinos(c[nro])
    BY <1>7 DEF Paginada
  <2>2. o \in Int /\ 0 <= o /\ o + 5 + n < tamanio_pag_memoria
    BY <1>5, <2>1, Partir, Bloque
  <2> QED
    BY <1>5, <1>7, <2>2, NuevoEnPagina
<1> HIDE DEF f
<1>16. Asignador!Reservar(p, Puntero(nro, o + 5), n)
  <2>1. Asignados' = [Asignados EXCEPT ![p] = @ \cup {f}]
    BY <1>12, <1>13
  <2> QED
    BY <1>8, <1>14, <1>15, <2>1 DEF Asignador!Reservar, Asignados, f, Corre
<1>17. Asignador!Next
  BY <1>15, <1>16 DEF Asignador!Next, Corre
<1> QED
  BY <1>12, <1>17

(* The first page that says it has room. *)
LEMMA ReservarEnPaso ==
    ASSUME IInv, Corre, NEW p \in Pids, estado[p] = "vivo", NEW n \in Pedidos, ~Excede(n), reservar_en(p, n)
    PROVE  IInv' /\ Numera /\ Asignador!Next
<1>1. PICK i \in ConLugar(p, n) :
         \E o \in {x \in DOMAIN bloques[p][paginas[p][i].nroPagina] :
                      Alcanza(bloques[p][paginas[p][i].nroPagina][x], n)} :
            Asignar(p, i, o, n, paginas[p], bloques[p]) /\ UNCHANGED <<enMemoria, maxPaginas>>
  BY DEF reservar_en
<1>2. PICK o \in DOMAIN bloques[p][paginas[p][i].nroPagina] :
         /\ Alcanza(bloques[p][paginas[p][i].nroPagina][o], n)
         /\ Asignar(p, i, o, n, paginas[p], bloques[p]) /\ UNCHANGED <<enMemoria, maxPaginas>>
  BY <1>1
<1>3. i \in DOMAIN paginas[p] /\ paginas[p][i].espacioDisponible >= n + 5
  BY Medidas DEF ConLugar
<1>4. PICK m, mp, g, c : m = enMemoria[p] /\ mp = maxPaginas[p] /\ g = paginas[p] /\ c = bloques[p]
  OBVIOUS
<1>5. BienSalvo(m, c, g, mp, "vivo", g[i].nroPagina)
  <2>1. Bien(m, c, g, mp, "vivo")
    BY <1>4, BienDe
  <2>2. \A nro \in DOMAIN c : ~UnSoloBloque(c[nro])
    BY <1>4, <2>1, BienDe DEF Bien, BienSalvo
  <2> QED
    BY <2>1, <2>2 DEF Bien, BienSalvo
<1>6. enMemoria' = [enMemoria EXCEPT ![p] = m] /\ maxPaginas' = [maxPaginas EXCEPT ![p] = mp]
  BY <1>2, <1>4, BienDe
<1>7. /\ i \in DOMAIN g /\ o \in DOMAIN c[g[i].nroPagina] /\ Alcanza(c[g[i].nroPagina][o], n)
      /\ g[i].espacioDisponible >= n + 5 /\ Asignar(p, i, o, n, g, c)
      /\ UsadosDe(c) = UsadosDe(bloques[p])
  BY <1>2, <1>3, <1>4
<1>8. mp = Max(m) \/ (mp = maxPaginas[p] /\ m = enMemoria[p])
  BY <1>4
<1> QED
  BY <1>5, <1>6, <1>7, <1>8, AsignarPaso

(* A request that cannot be served. *)
LEMMA FallarPaso ==
    ASSUME IInv, Corre, NEW p \in Pids, NEW m, NEW mp,
           Bien(m, bloques[p], paginas[p], mp, "error"),
           enMemoria' = [enMemoria EXCEPT ![p] = m], maxPaginas' = [maxPaginas EXCEPT ![p] = mp],
           UNCHANGED <<bloques, paginas>>, Falla(p),
           NEW c \in {"RESERVAR_OVERFLOW", "RESERVAR_SIN_ESPACIO", "LIBERAR_ERROR"}, Responde(c),
           c = "RESERVAR_SIN_ESPACIO" => ~hayEspacio(1) \/ Adelantado(p)
    PROVE  IInv' /\ Numera /\ Asignador!Next
<1>1. PICK bl, pg : bl = bloques[p] /\ pg = paginas[p]
  OBVIOUS
<1>2. Cambia(p, m, bl, pg, mp, "error")
  BY <1>1, BienDe DEF Cambia, Falla
<1>3. Bien(m, bl, pg, mp, "error")
  BY <1>1
<1>4. respuesta'.codigo = c
  BY DEF Responde
<1>5. /\ IInv' /\ Numera /\ Asignados[p] = UsadosDe(bloques[p])
      /\ Asignados' = [Asignados EXCEPT ![p] = UsadosDe(bl)]
  BY <1>2, <1>3, <1>4, Cambio
<1>6. Asignados' = Asignados
  BY <1>1, <1>5 DEF Asignados
<1> QED
  BY <1>5, <1>6, SinEfectoDe

(* A page more, or a request that fails. *)
LEMMA PedirPaso ==
    ASSUME IInv, Corre, NEW p \in Pids, estado[p] = "vivo", NEW n \in Pedidos, ~Excede(n), pedirPaginaHeap(p, n)
    PROVE  IInv' /\ Numera /\ Asignador!Next
<1>1. PICK m, mp, g, c : /\ m = enMemoria[p] /\ mp = maxPaginas[p] /\ g = paginas[p]
                             /\ c = bloques[p]
  OBVIOUS
<1>2. Bien(m, c, g, mp, "vivo")
  BY <1>1, BienDe
<1>3. PICK mx : mx = UltimoNumero(mp) + 1
  OBVIOUS
<1>4. PICK nx : nx = Max(m \cup {0}) + 1
  OBVIOUS
<1>5. /\ Bien(m, c, g, mx - 1, "error")
      /\ nx <= MaxPagina => Bien(m \cup {nx}, c, g, mx, "error")
      /\ nx <= MaxPagina /\ mx \in m \cup {nx} =>
           /\ mx = nx /\ mx \notin m /\ mx \notin DOMAIN c /\ mx = Max(m \cup {nx})
           /\ BienSalvo(m \cup {nx}, ConPagina(c, mx), Append(g, Cabecera(mx)), mx, "vivo", mx)
           /\ Len(g) + 1 \in DOMAIN Append(g, Cabecera(mx))
           /\ Append(g, Cabecera(mx))[Len(g) + 1] = Cabecera(mx)
      /\ mx \notin m \cup {nx} => mp # NULL /\ mp # Max(m)
  <2>1. Pedida(m, c, g, mp, mx, nx)
    BY <1>2, <1>3, <1>4, PedirBien
  <2> QED
    BY <2>1 DEF Pedida
<1>6. (IF maxPaginas[p] = NULL THEN paginasTotales - 1 ELSE maxPaginas[p]) + 1 = mx
  BY <1>1, <1>3 DEF UltimoNumero
<1>7. getNextPaginasPID(p) = nx
  BY <1>1, <1>4 DEF getNextPaginasPID
<1>8. \/ /\ ~hayEspacio(1) /\ maxPaginas' = [maxPaginas EXCEPT ![p] = mx - 1] /\ SinEspacio(p)
         /\ UNCHANGED <<enMemoria, bloques, paginas>>
      \/ /\ nx <= MaxPagina /\ enMemoria' = [enMemoria EXCEPT ![p] = @ \cup {nx}]
         /\ maxPaginas' = [maxPaginas EXCEPT ![p] = mx]
         /\ \/ /\ mx \in enMemoria'[p]
               /\ Asignar(p, Len(paginas[p]) + 1, 0, n, Append(paginas[p], Cabecera(mx)),
                          ConPagina(bloques[p], mx))
            \/ mx \notin enMemoria'[p] /\ SinEspacio(p) /\ UNCHANGED <<bloques, paginas>>
  BY <1>6, <1>7 DEF pedirPaginaHeap, Cabecera
<1>9. CASE /\ ~hayEspacio(1) /\ maxPaginas' = [maxPaginas EXCEPT ![p] = mx - 1] /\ SinEspacio(p)
           /\ UNCHANGED <<enMemoria, bloques, paginas>>
  <2>1. enMemoria' = [enMemoria EXCEPT ![p] = m]
    BY <1>1, <1>9, BienDe
  <2>2. Responde("RESERVAR_SIN_ESPACIO") /\ Falla(p)
    BY <1>9 DEF SinEspacio, Responder, Responde
  <2> QED
    BY <1>1, <1>5, <1>9, <2>1, <2>2, FallarPaso
<1>10. ASSUME nx <= MaxPagina, enMemoria' = [enMemoria EXCEPT ![p] = @ \cup {nx}],
              maxPaginas' = [maxPaginas EXCEPT ![p] = mx],
              mx \in enMemoria'[p],
              Asignar(p, Len(paginas[p]) + 1, 0, n, Append(paginas[p], Cabecera(mx)), ConPagina(bloques[p], mx))
       PROVE  IInv' /\ Numera /\ Asignador!Next
  <2>1. PICK m2, g2, c2, i : /\ m2 = m \cup {nx} /\ g2 = Append(g, Cabecera(mx))
                             /\ c2 = ConPagina(c, mx) /\ i = Len(g) + 1
    OBVIOUS
  <2>2. enMemoria' = [enMemoria EXCEPT ![p] = m2] /\ enMemoria'[p] = m2
    BY <1>1, <1>10, <2>1, BienDe
  <2>3. /\ mx \notin DOMAIN c /\ mx = Max(m2) /\ BienSalvo(m2, c2, g2, mx, "vivo", mx)
        /\ i \in DOMAIN g2 /\ g2[i] = Cabecera(mx)
    BY <1>5, <1>10, <2>1, <2>2
  <2>4. g2[i].nroPagina = mx /\ g2[i].espacioDisponible = tamanio_pag_memoria - 5
    BY <2>3, Medidas DEF Cabecera
  <2>5. /\ c2[mx] = paginaNueva /\ 0 \in DOMAIN c2[mx] /\ UsadosDe(c2) = UsadosDe(bloques[p])
    <3>1. c2[mx] = paginaNueva
      BY <2>1, <2>3, ConPaginaEs
    <3>2. 0 \in DOMAIN paginaNueva
      BY Nueva
    <3>3. UsadosDe(c2) = UsadosDe(c)
      BY <2>1, <2>3, UsadosNueva
    <3> QED
      BY <1>1, <3>1, <3>2, <3>3
  <2>6. n + 5 <= tamanio_pag_memoria - 5 /\ n \in Nat
    BY Medidas, Constantes DEF Excede
  <2>7. Alcanza(c2[mx][0], n) /\ g2[i].espacioDisponible >= n + 5
    BY <2>4, <2>5, <2>6, Nueva, Medidas DEF Alcanza
  <2>8. Asignar(p, i, 0, n, g2, c2)
    BY <1>1, <1>10, <2>1
  <2>9. /\ 0 \in DOMAIN c2[g2[i].nroPagina] /\ Alcanza(c2[g2[i].nroPagina][0], n)
        /\ BienSalvo(m2, c2, g2, mx, "vivo", g2[i].nroPagina)
    BY <1>1, <2>3, <2>4, <2>5, <2>7
  <2> QED
    BY <1>10, <2>2, <2>3, <2>5, <2>7, <2>8, <2>9, AsignarPaso
<1>11. ASSUME nx <= MaxPagina, enMemoria' = [enMemoria EXCEPT ![p] = @ \cup {nx}],
              maxPaginas' = [maxPaginas EXCEPT ![p] = mx],
              mx \notin enMemoria'[p], SinEspacio(p), UNCHANGED <<bloques, paginas>>
       PROVE  IInv' /\ Numera /\ Asignador!Next
  <2>1. PICK m2 : m2 = m \cup {nx}
    OBVIOUS
  <2>2. enMemoria' = [enMemoria EXCEPT ![p] = m2] /\ enMemoria'[p] = m2
    BY <1>1, <1>11, <2>1, BienDe
  <2>3. Adelantado(p)
    BY <1>1, <1>5, <1>11, <2>1, <2>2 DEF Adelantado
  <2>4. Responde("RESERVAR_SIN_ESPACIO") /\ Falla(p)
    BY <1>11 DEF SinEspacio, Responder, Responde
  <2>5. Bien(m2, bloques[p], paginas[p], mx, "error")
    BY <1>1, <1>5, <1>11, <2>1
  <2> QED
    BY <1>11, <2>2, <2>3, <2>4, <2>5, FallarPaso
<1> QED
  BY <1>8, <1>9, <1>10, <1>11

LEMMA ReservarPaso ==
    ASSUME IInv, Corre, NEW p \in Pids, NEW n \in Pedidos, reservar(p, n)
    PROVE  IInv' /\ Numera /\ Asignador!Next
<1>1. estado[p] = "vivo"
  BY DEF reservar
<1>2. CASE /\ Excede(n) /\ Responder("RESERVAR_OVERFLOW", -1) /\ Falla(p)
           /\ UNCHANGED heap
  <2>1. PICK m, mp : m = enMemoria[p] /\ mp = maxPaginas[p]
    OBVIOUS
  <2>2. Bien(m, bloques[p], paginas[p], mp, "error")
    BY <2>1, BienDe, ErrorBien
  <2>3. /\ enMemoria' = [enMemoria EXCEPT ![p] = m] /\ maxPaginas' = [maxPaginas EXCEPT ![p] = mp]
        /\ UNCHANGED <<bloques, paginas>>
    BY <1>2, <2>1, BienDe DEF heap
  <2>4. Responde("RESERVAR_OVERFLOW")
    BY <1>2 DEF Responder, Responde
  <2> QED
    BY <1>2, <2>2, <2>3, <2>4, FallarPaso
<1>3. CASE ~Excede(n) /\ reservar_en(p, n)
  BY <1>1, <1>3, ReservarEnPaso
<1>4. CASE ~Excede(n) /\ pedirPaginaHeap(p, n)
  BY <1>1, <1>4, PedirPaso
<1> QED
  BY <1>2, <1>3, <1>4 DEF reservar

(* The pointer of a free names the block in use that begins there, if any. *)
LEMMA DelBloqueEs ==
    ASSUME NEW p, NEW nro, NEW o, NEW b, b \in UsadosDe(bloques[p]), b.puntero = Puntero(nro, o + 5)
    PROVE  DelBloque(p, nro, o) = b.puntero
BY UsadosEs, Medidas DEF DelBloque

LEMMA DelBloqueNo ==
    ASSUME IInv, NEW p \in Pids, NEW nro \in Paginas, NEW offset \in Offsets,
           ~EsUsado(p, nro, offset - 5)
    PROVE  DelBloque(p, nro, offset - 5) = -1
<1> SUFFICES ASSUME NEW b \in UsadosDe(bloques[p]), b.puntero = Puntero(nro, offset - 5 + 5)
             PROVE  FALSE
  BY UsadosEs, Medidas DEF DelBloque
<1>1. PICK k \in DOMAIN bloques[p] :
         \E x \in DOMAIN bloques[p][k] : ~bloques[p][k][x].isFree /\ b = Ficha(bloques[p][k], k, x)
  BY UsadosEn DEF EnUso
<1>2. PICK x \in DOMAIN bloques[p][k] : ~bloques[p][k][x].isFree /\ b = Ficha(bloques[p][k], k, x)
  BY <1>1
<1>3. k \in Int /\ nro \in Int
  BY BienDe, Constantes
<1>4. Encadenada(bloques[p][k]) /\ UltimoLibre(bloques[p][k])
  <2>1. Bien(enMemoria[p], bloques[p], paginas[p], maxPaginas[p], estado[p])
    BY BienDe
  <2> QED
    BY <2>1 DEF Bien, BienSalvo
<1>5. x \in Int /\ 0 <= x /\ Fin(bloques[p][k], x) < tamanio_pag_memoria
      /\ Fin(bloques[p][k], x) = x + 5 + bloques[p][k][x].size /\ bloques[p][k][x].size \in Nat
  BY <1>2, <1>4, Bloque DEF UltimoLibre
<1>6. PICK y : y = x + 5
  OBVIOUS
<1>7. y \in Offsets /\ y \in Int /\ x = y - 5
  BY <1>5, <1>6, Medidas
<1>8. offset \in Int /\ offset - 5 + 5 = offset
  BY Medidas
<1>9. Puntero(k, y) = Puntero(nro, offset)
  BY <1>2, <1>6, <1>8 DEF Ficha
<1>10. k = nro /\ y = offset
  <2>1. y - offset < tamanio_pag_memoria /\ offset - y < tamanio_pag_memoria
    BY <1>7, <1>8, Medidas
  <2> QED
    BY <1>3, <1>7, <1>8, <1>9, <2>1, PunteroUnico
<1>11. EsUsado(p, nro, offset - 5)
  BY <1>2, <1>7, <1>10 DEF EsUsado, EsBloque
<1> QED
  BY <1>11

(* A block in use is given back. *)
LEMMA DevolverPaso ==
    ASSUME IInv, Corre, NEW p \in Pids, estado[p] = "vivo", NEW nro \in DOMAIN bloques[p],
           NEW o \in DOMAIN bloques[p][nro], ~bloques[p][nro][o].isFree,
           UnSoloBloque(Liberado(bloques[p][nro], o)), devolver(p, nro), UNCHANGED estado,
           respuesta' = [codigo |-> "LIBERAR_OK", puntero |-> DelBloque(p, nro, o)]
    PROVE  IInv' /\ Numera /\ Asignador!Next
<1>1. PICK m, mp, g, c : /\ m = enMemoria[p] /\ mp = maxPaginas[p] /\ g = paginas[p]
                             /\ c = bloques[p]
  OBVIOUS
<1>2. Bien(m, c, g, mp, "vivo")
  BY <1>1, BienDe
<1>3. PICK m2, c2, g2, mp2 : /\ m2 = m \ {nro} /\ c2 = SinPagina(c, nro) /\ g2 = SinCabecera(g, nro)
                             /\ mp2 = IF nro = mp THEN mp - 1 ELSE mp
  OBVIOUS
<1>4. /\ mp # NULL /\ Bien(m2, c2, g2, mp2, "vivo")
      /\ mp = Max(m) /\ mp2 # Max(m2) => Max(m) - 1 \notin m /\ Max(m) \notin m2
  BY <1>1, <1>2, <1>3, DevolverBien
<1>5. /\ enMemoria' = [enMemoria EXCEPT ![p] = m2] /\ maxPaginas' = [maxPaginas EXCEPT ![p] = mp2]
      /\ bloques' = [bloques EXCEPT ![p] = c2] /\ paginas' = [paginas EXCEPT ![p] = g2]
  <2>1. enMemoria' = [enMemoria EXCEPT ![p] = m2] /\ bloques' = [bloques EXCEPT ![p] = c2]
    BY <1>1, <1>3 DEF devolver
  <2>2. maxPaginas' = [maxPaginas EXCEPT ![p] = mp2]
    BY <1>1, <1>3 DEF devolver, disminuir
  <2>3. paginas' = [paginas EXCEPT ![p] = g2]
    BY <1>1, <1>3 DEF devolver, SinCabecera
  <2> QED
    BY <2>1, <2>2, <2>3
<1>6. Cambia(p, m2, c2, g2, mp2, "vivo")
  BY <1>1, <1>5, BienDe DEF Cambia
<1>7. mp2 # NULL /\ mp2 # Max(m2) /\ ~Adelantado(p)
         => Max(enMemoria[p]) - 1 \notin enMemoria[p] /\ Max(enMemoria[p]) \notin m2
  BY <1>1, <1>4 DEF Adelantado
<1>8. /\ IInv' /\ Numera /\ Asignados[p] = UsadosDe(bloques[p])
      /\ Asignados' = [Asignados EXCEPT ![p] = UsadosDe(c2)]
  BY <1>4, <1>6, <1>7, Cambio
<1>9. PICK b : b = Ficha(c[nro], nro, o)
  OBVIOUS
<1>10. ~UnSoloBloque(c[nro]) /\ Paginada(c)
  BY <1>1, <1>2, BienDe DEF Bien, BienSalvo
<1>11. UsadosDe(c2) = Asignados[p] \ {b}
  BY <1>1, <1>3, <1>8, <1>9, <1>10, UsadosDevolver
<1>12. b \in Asignados[p]
  BY <1>1, <1>8, <1>9, UsadosEn DEF EnUso
<1>13. Asignador!Liberar(p, b)
  <2>1. Asignados' = [Asignados EXCEPT ![p] = @ \ {b}]
    BY <1>8, <1>11
  <2>2. DelBloque(p, nro, o) = b.puntero
    BY <1>1, <1>8, <1>9, <1>12, DelBloqueEs DEF Ficha
  <2> QED
    BY <1>12, <2>1, <2>2 DEF Asignador!Liberar, Asignados, Corre
<1> QED
  BY <1>8, <1>12, <1>13 DEF Asignador!Next, Asignados, Corre

LEMMA ConservarPaso ==
    ASSUME IInv, Corre, NEW p \in Pids, estado[p] = "vivo", NEW nro \in DOMAIN bloques[p],
           NEW o \in DOMAIN bloques[p][nro], ~bloques[p][nro][o].isFree,
           ~UnSoloBloque(Liberado(bloques[p][nro], o)),
           conservar(p, nro, Liberado(bloques[p][nro], o), bloques[p][nro][o].size),
           UNCHANGED estado, respuesta' = [codigo |-> "LIBERAR_OK", puntero |-> DelBloque(p, nro, o)]
    PROVE  IInv' /\ Numera /\ Asignador!Next
<1>1. PICK m, mp, g, c : /\ m = enMemoria[p] /\ mp = maxPaginas[p] /\ g = paginas[p]
                             /\ c = bloques[p]
  OBVIOUS
<1>2. Bien(m, c, g, mp, "vivo")
  BY <1>1, BienDe
<1>3. PICK c2 : c2 = [c EXCEPT ![nro] = Liberado(c[nro], o)]
  OBVIOUS
<1>4. PICK g2 : g2 = ConRecuperado(g, nro, c[nro][o].size)
  OBVIOUS
<1>5. Bien(m, c2, g2, mp, "vivo")
  BY <1>1, <1>2, <1>3, <1>4, ConservarBien
<1>6. /\ bloques' = [bloques EXCEPT ![p] = c2] /\ paginas' = [paginas EXCEPT ![p] = g2]
      /\ UNCHANGED <<enMemoria, maxPaginas>>
  <2>1. bloques' = [bloques EXCEPT ![p] = c2]
    BY <1>1, <1>3 DEF conservar
  <2>2. paginas' = [paginas EXCEPT ![p] = g2]
    BY <1>1, <1>4 DEF conservar
  <2> QED
    BY <2>1, <2>2 DEF conservar
<1>7. Cambia(p, m, c2, g2, mp, "vivo")
  BY <1>1, <1>6, BienDe DEF Cambia
<1>8. mp # NULL /\ mp # Max(m) => Adelantado(p)
  BY <1>1 DEF Adelantado
<1>9. /\ IInv' /\ Numera /\ Asignados[p] = UsadosDe(bloques[p])
      /\ Asignados' = [Asignados EXCEPT ![p] = UsadosDe(c2)]
  BY <1>5, <1>7, <1>8, Cambio
<1>10. PICK b : b = Ficha(c[nro], nro, o)
  OBVIOUS
<1>11. ~UnSoloBloque(c[nro]) /\ Paginada(c)
  BY <1>1, <1>2, BienDe DEF Bien, BienSalvo
<1>12. /\ DOMAIN c2 = DOMAIN c /\ c2[nro] = Liberado(c[nro], o)
       /\ \A k \in DOMAIN c : k # nro => c2[k] = c[k]
  BY <1>1, <1>3
<1>13. UsadosDe(c2) = Asignados[p] \ {b}
  BY <1>1, <1>9, <1>10, <1>11, <1>12, UsadosConservar
<1>14. b \in Asignados[p]
  BY <1>1, <1>9, <1>10, UsadosEn DEF EnUso
<1>15. Asignador!Liberar(p, b)
  <2>1. Asignados' = [Asignados EXCEPT ![p] = @ \ {b}]
    BY <1>9, <1>13
  <2>2. DelBloque(p, nro, o) = b.puntero
    BY <1>1, <1>9, <1>10, <1>14, DelBloqueEs DEF Ficha
  <2> QED
    BY <1>14, <2>1, <2>2 DEF Asignador!Liberar, Asignados, Corre
<1> QED
  BY <1>9, <1>14, <1>15 DEF Asignador!Next, Asignados, Corre

(* Freeing what is not there is refused, or ignored, or the end of what    *)
(* the heap promises.                                                      *)
LEMMA ErrorPaso ==
    ASSUME IInv, Corre, NEW p \in Pids, UNCHANGED heap, Falla(p), Responde("LIBERAR_ERROR")
    PROVE  IInv' /\ Numera /\ Asignador!Next
<1>1. PICK m, mp : m = enMemoria[p] /\ mp = maxPaginas[p]
  OBVIOUS
<1>2. /\ enMemoria' = [enMemoria EXCEPT ![p] = m] /\ maxPaginas' = [maxPaginas EXCEPT ![p] = mp]
      /\ UNCHANGED <<bloques, paginas>>
  BY <1>1, BienDe DEF heap
<1>3. Bien(m, bloques[p], paginas[p], mp, "error")
  BY <1>1, BienDe, ErrorBien
<1> QED
  BY <1>2, <1>3, FallarPaso

LEMMA NadaPaso ==
    ASSUME IInv, kernel = "corre", NEW p \in Pids, UNCHANGED <<heap, estado>>,
           kernel' \in {"corre", "indefinido"}, Responde("LIBERAR_OK")
    PROVE  IInv' /\ Numera /\ Asignador!Next
<1>1. PICK m, mp, g, c, es : /\ m = enMemoria[p] /\ mp = maxPaginas[p] /\ g = paginas[p]
                             /\ c = bloques[p] /\ es = estado[p]
  OBVIOUS
<1>2. Bien(m, c, g, mp, es)
  BY <1>1, BienDe
<1>3. /\ enMemoria' = [enMemoria EXCEPT ![p] = m] /\ maxPaginas' = [maxPaginas EXCEPT ![p] = mp]
      /\ estado' = [estado EXCEPT ![p] = es] /\ UNCHANGED <<bloques, paginas>>
  BY <1>1, BienDe DEF heap
<1>4. Cambia(p, m, c, g, mp, es)
  BY <1>1, <1>3, BienDe DEF Cambia
<1>5. mp # NULL /\ mp # Max(m) => Adelantado(p)
  BY <1>1 DEF Adelantado
<1>6. respuesta'.codigo # "RESERVAR_SIN_ESPACIO"
  BY DEF Responde
<1>7. /\ IInv' /\ Numera /\ Asignados[p] = UsadosDe(bloques[p])
      /\ Asignados' = [Asignados EXCEPT ![p] = UsadosDe(c)]
  BY <1>2, <1>4, <1>5, <1>6, Cambio
<1>8. Asignados' = Asignados
  BY <1>1, <1>7 DEF Asignados
<1>9. respuesta' \in [codigo : {"LIBERAR_OK", "LIBERAR_ERROR"}, puntero : {-1}]
  BY DEF Responde
<1>10. Asignador!LiberarAjeno
  BY <1>8, <1>9 DEF Asignador!LiberarAjeno, Asignados
<1> QED
  BY <1>7, <1>10 DEF Asignador!Next

LEMMA LiberarPaso ==
    ASSUME IInv, kernel = "corre", NEW p \in Pids, NEW nro \in Paginas, NEW offset \in Offsets,
           liberar(p, nro, offset)
    PROVE  IInv' /\ Numera /\ Asignador!Next
<1> DEFINE o == offset - 5
<1>1. /\ estado[p] = "vivo"
      /\ \/ EsUsado(p, nro, o) /\ liberarUsado(p, nro, o)
         \/ ~EsUsado(p, nro, o) /\ liberarAjeno(p, nro, o)
  BY Medidas DEF liberar
<1>2. CASE EsUsado(p, nro, o) /\ liberarUsado(p, nro, o)
  <2> HIDE DEF o
  <2>1. nro \in DOMAIN bloques[p] /\ o \in DOMAIN bloques[p][nro] /\ ~bloques[p][nro][o].isFree
    BY <1>2 DEF EsUsado, EsBloque
  <2>2. /\ Corre /\ UNCHANGED estado
        /\ respuesta' = [codigo |-> "LIBERAR_OK", puntero |-> DelBloque(p, nro, o)]
    BY <1>2 DEF liberarUsado, Responder, Corre
  <2>3. CASE UnSoloBloque(Liberado(bloques[p][nro], o)) /\ devolver(p, nro)
    BY <1>1, <2>1, <2>2, <2>3, DevolverPaso
  <2>4. CASE /\ ~UnSoloBloque(Liberado(bloques[p][nro], o))
             /\ conservar(p, nro, Liberado(bloques[p][nro], o), bloques[p][nro][o].size)
    BY <1>1, <2>1, <2>2, <2>4, ConservarPaso
  <2> QED
    BY <1>2, <2>3, <2>4 DEF liberarUsado
<1>3. CASE ~EsUsado(p, nro, o) /\ liberarAjeno(p, nro, o)
  <2>1. DelBloque(p, nro, o) = -1
    BY <1>3, DelBloqueNo
  <2> HIDE DEF o
  <2>2. CASE Responde("LIBERAR_ERROR") /\ Falla(p) /\ UNCHANGED <<heap, kernel>>
    <3>1. Corre
      BY <2>2 DEF Corre
    <3> QED
      BY <2>2, <3>1, ErrorPaso
  <2>3. CASE /\ Responde("LIBERAR_OK") /\ UNCHANGED <<heap, estado>>
             /\ (kernel' = kernel \/ kernel' = "indefinido")
    <3>1. kernel' \in {"corre", "indefinido"}
      BY <2>3
    <3> QED
      BY <2>3, <3>1, NadaPaso
  <2> QED
    BY <1>3, <2>1, <2>2, <2>3 DEF liberarAjeno, Responder, Responde
<1> QED
  BY <1>1, <1>2, <1>3

LEMMA IniciarPaso ==
    ASSUME IInv, Corre, NEW p \in Pids, iniciar(p)
    PROVE  IInv' /\ Numera /\ UNCHANGED <<Asignados, kernel, respuesta>>
<1>1. PICK m, mp, g, c : /\ m = 0 .. paginasTotales - 1 /\ mp = maxPaginas[p] /\ g = paginas[p]
                             /\ c = bloques[p]
  OBVIOUS
<1>2. /\ estado[p] = "nuevo" /\ enMemoria' = [enMemoria EXCEPT ![p] = m]
      /\ estado' = [estado EXCEPT ![p] = "vivo"]
      /\ UNCHANGED <<bloques, paginas, maxPaginas, respuesta>>
  BY <1>1 DEF iniciar
<1>3. Bien(enMemoria[p], c, g, mp, "nuevo")
  BY <1>1, <1>2, BienDe
<1>4. mp = NULL
  BY <1>3 DEF Bien, BienSalvo
<1>5. PICK m0 : m0 = enMemoria[p]
  OBVIOUS
<1>6. Bien(m, c, g, mp, "vivo")
  BY <1>1, <1>3, <1>5, IniciarBien
<1>7. Cambia(p, m, c, g, mp, "vivo")
  BY <1>1, <1>2, BienDe DEF Cambia
<1>8. /\ IInv' /\ Numera /\ Asignados[p] = UsadosDe(bloques[p])
      /\ Asignados' = [Asignados EXCEPT ![p] = UsadosDe(c)]
  BY <1>4, <1>6, <1>7, Cambio
<1>9. Asignados' = Asignados
  BY <1>1, <1>8 DEF Asignados
<1> QED
  BY <1>2, <1>8, <1>9 DEF Corre

LEMMA FinalizarPaso ==
    ASSUME IInv, Corre, NEW p \in Pids, finishProcess(p)
    PROVE  IInv' /\ Numera /\ Asignador!Next
<1>1. PICK mp, es, m, g, c : /\ mp = maxPaginas[p] /\ es = estado[p]
                                 /\ m = enMemoria[p] /\ g = paginas[p] /\ c = bloques[p]
  OBVIOUS
<1>2. /\ enMemoria' = [enMemoria EXCEPT ![p] = {}] /\ estado' = [estado EXCEPT ![p] = "fin"]
      /\ bloques' = [bloques EXCEPT ![p] = <<>>] /\ paginas' = [paginas EXCEPT ![p] = <<>>]
      /\ UNCHANGED <<maxPaginas, respuesta>>
  BY DEF finishProcess
<1>3. Bien({}, <<>>, <<>>, mp, "fin")
  <2>1. Bien(m, c, g, mp, es)
    BY <1>1, BienDe
  <2> QED
    BY <2>1, FinBien
<1>4. Cambia(p, {}, <<>>, <<>>, mp, "fin")
  BY <1>1, <1>2, BienDe DEF Cambia
<1>5. /\ IInv' /\ Numera /\ Asignados[p] = UsadosDe(bloques[p])
      /\ Asignados' = [Asignados EXCEPT ![p] = UsadosDe(<<>>)]
  BY <1>3, <1>4, Cambio
<1>6. UsadosDe(<<>>) = {}
  <2>1. \A b : ~EnUso(<<>>, b)
    BY EmptySeq DEF EnUso
  <2> QED
    BY <2>1, UsadosEn
<1>7. Asignador!Finalizar(p)
  BY <1>2, <1>5, <1>6 DEF Asignador!Finalizar, Asignados, Corre
<1> QED
  BY <1>5, <1>7 DEF Asignador!Next, Corre

LEMMA AlEmpezar == Init => IInv /\ Asignador!Init
<1> SUFFICES ASSUME Init PROVE IInv /\ Asignador!Init
  OBVIOUS
<1>1. DOMAIN <<>> = {} /\ <<>> \in Seq(Cabeceras)
  BY EmptySeq
<1>2. PICK e : e = <<>>
  OBVIOUS
<1>3. Bien({}, e, e, NULL, "nuevo")
  BY <1>1, <1>2, Constantes DEF Bien, BienSalvo
<1>4. IInv
  <2>1. \A p \in Pids : /\ enMemoria[p] = {} /\ bloques[p] = e /\ paginas[p] = e /\ maxPaginas[p] = NULL
                        /\ estado[p] = "nuevo"
    BY <1>2 DEF Init
  <2>2. /\ enMemoria \in [Pids -> SUBSET Paginas] /\ maxPaginas \in [Pids -> Int]
        /\ estado \in [Pids -> {"nuevo", "vivo", "error", "fin"}]
        /\ DOMAIN bloques = Pids /\ DOMAIN paginas = Pids
    BY Constantes DEF Init
  <2> QED
    BY <1>3, <2>1, <2>2 DEF IInv
<1>5. Asignador!Init
  <2>1. ASSUME NEW p \in Pids PROVE Usados(p) = {}
    <3>1. bloques[p] = e
      BY <1>2 DEF Init
    <3>2. \A b : ~EnUso(e, b)
      BY <1>1, <1>2 DEF EnUso
    <3>3. UsadosDe(e) = {}
      BY <3>2, UsadosEn
    <3> QED
      BY <3>1, <3>3, UsadosEs
  <2> QED
    BY <2>1 DEF Asignador!Init, Init
<1> QED
  BY <1>4, <1>5

(* Every step keeps the invariant, and is a step of the allocator or none. *)
LEMMA CadaPaso ==
    ASSUME IInv, [Next]_vars
    PROVE  IInv' /\ [Numera]_vars /\ [Asignador!Next]_(Asignador!vars)
<1>1. CASE UNCHANGED vars
  <2>1. IInv'
    BY <1>1 DEF IInv, vars
  <2>2. UNCHANGED Asignador!vars
    BY <1>1 DEF Asignador!vars, Usados, vars
  <2> QED
    BY <1>1, <2>1, <2>2
<1>2. ASSUME NEW p \in Pids, iniciar(p), Corre
      PROVE  IInv' /\ Numera /\ [Asignador!Next]_(Asignador!vars)
  BY <1>2, IniciarPaso DEF Asignador!vars, Asignados
<1>3. ASSUME NEW p \in Pids, NEW n \in Pedidos, reservar(p, n), Corre
      PROVE  IInv' /\ Numera /\ [Asignador!Next]_(Asignador!vars)
  BY <1>3, ReservarPaso
<1>4. ASSUME kernel = "corre", NEW p \in Pids, NEW nro \in Paginas, NEW offset \in Offsets,
             liberar(p, nro, offset)
      PROVE  IInv' /\ Numera /\ [Asignador!Next]_(Asignador!vars)
  BY <1>4, LiberarPaso
<1>5. ASSUME NEW p \in Pids, finishProcess(p), Corre
      PROVE  IInv' /\ Numera /\ [Asignador!Next]_(Asignador!vars)
  BY <1>5, FinalizarPaso
<1> QED
  BY <1>1, <1>2, <1>3, <1>4, <1>5 DEF Next, Corre

LEMMA SeMantiene == Spec => []IInv
<1>1. Init => IInv
  BY AlEmpezar
<1>2. IInv /\ [Next]_vars => IInv'
  BY CadaPaso
<1> QED
  BY <1>1, <1>2, PTL DEF Spec

DeKernel == kernel \in {"corre", "indefinido"}

(* TypeOK for every value of the constants: while the heap is what its     *)
(* metadata say, no size or free space ever leaves its page.               *)
THEOREM HeapTypes == Spec => []TypeOK
<1>1. ASSUME IInv, DeKernel PROVE TypeOK
  <2>1. ASSUME NEW p \in Pids
        PROVE  /\ DOMAIN bloques[p] \subseteq Paginas
               /\ \A nro \in DOMAIN bloques[p] :
                     /\ DOMAIN bloques[p][nro] \subseteq Offsets
                     /\ \A o \in DOMAIN bloques[p][nro] :
                           bloques[p][nro][o] \in [isFree : BOOLEAN, size : Offsets]
               /\ paginas[p] \in Seq([nroPagina : Paginas, espacioDisponible : Offsets])
    <3>1. Bien(enMemoria[p], bloques[p], paginas[p], maxPaginas[p], estado[p])
      BY <1>1, BienDe
    <3>2. \A nro \in DOMAIN bloques[p] : Encadenada(bloques[p][nro])
      BY <1>1, BienDe DEF Paginada
    <3>3. DOMAIN bloques[p] \subseteq Paginas
      BY <1>1, BienDe DEF Paginada
    <3>4. paginas[p] \in Seq(Cabeceras)
      BY <3>1 DEF Bien, BienSalvo
    <3> QED
      BY <3>2, <3>3, <3>4 DEF Encadenada, Cabeceras
  <2> QED
    BY <1>1, <2>1 DEF IInv, TypeOK, DeKernel
<1>3. Spec => []DeKernel
  <2>1. Init => DeKernel
    BY DEF Init, DeKernel
  <2>2. DeKernel /\ [Next]_vars => DeKernel'
    <3> SUFFICES ASSUME DeKernel, Next PROVE DeKernel'
      BY DEF vars, DeKernel
    <3>1. CASE UNCHANGED kernel
      BY <3>1 DEF DeKernel
    <3>2. ASSUME NEW p \in Pids, NEW nro \in Paginas, NEW offset \in Offsets,
                 liberar(p, nro, offset)
          PROVE  DeKernel'
      BY <3>2 DEF liberar, liberarUsado, liberarAjeno, DeKernel
    <3> QED
      BY <3>1, <3>2 DEF Next
  <2> QED
    BY <2>1, <2>2, PTL DEF Spec
<1>4. IInv /\ DeKernel => TypeOK
  BY <1>1
<1> QED
  BY <1>4, <1>3, SeMantiene, PTL

(* PaginaBienFormada for every value of the constants: whatever programs   *)
(* reserve and whichever of their blocks they free, tryAllocate and        *)
(* compressPageHeap keep the blocks of a page one after the other, no two  *)
(* free ones together, and espacioDisponible within what is free; and so   *)
(* does freeing what is no block, if the bytes there read as free, or as   *)
(* in use and of no size.                                                  *)
THEOREM PagesAreWellFormed == Spec => []PaginaBienFormada
<1>1. IInv => PaginaBienFormada
  <2> SUFFICES ASSUME IInv, NEW p \in Pids
               PROVE  /\ \A nro \in DOMAIN bloques[p] : BienFormada(bloques[p][nro])
                      /\ \A i \in DOMAIN paginas[p] :
                            paginas[p][i].espacioDisponible <=
                               BytesLibres(bloques[p][paginas[p][i].nroPagina])
    BY DEF PaginaBienFormada
  <2>1. Bien(enMemoria[p], bloques[p], paginas[p], maxPaginas[p], estado[p])
    BY BienDe
  <2>2. ASSUME NEW nro \in DOMAIN bloques[p] PROVE BienFormada(bloques[p][nro])
    <3>1. Encadenada(bloques[p][nro]) /\ SinVecinos(bloques[p][nro]) /\ ~UnSoloBloque(bloques[p][nro])
      BY <2>1, BienDe DEF Bien, BienSalvo
    <3> QED
      BY <3>1 DEF BienFormada, Encadenada, SinVecinos
  <2> QED
    BY <2>1, <2>2 DEF Bien, BienSalvo
<1> QED
  BY <1>1, SeMantiene, PTL

LEMMA ListasConcuerdan == IInv => PaginasConcuerdan
<1> SUFFICES ASSUME IInv, NEW p \in Pids
             PROVE  /\ \A i, j \in DOMAIN paginas[p] :
                          paginas[p][i].nroPagina = paginas[p][j].nroPagina => i = j
                    /\ {paginas[p][i].nroPagina : i \in DOMAIN paginas[p]} = DOMAIN bloques[p]
                    /\ DOMAIN bloques[p] \subseteq enMemoria[p] \ (0 .. paginasTotales - 1)
                    /\ estado[p] = "vivo" /\ maxPaginas[p] # NULL =>
                          maxPaginas[p] >= Max(enMemoria[p])
  BY DEF PaginasConcuerdan
<1>1. Bien(enMemoria[p], bloques[p], paginas[p], maxPaginas[p], estado[p])
  BY BienDe
<1>2. PICK m, bl, pg, mp : /\ m = enMemoria[p] /\ bl = bloques[p] /\ pg = paginas[p]
                               /\ mp = maxPaginas[p]
  OBVIOUS
<1>3. estado[p] = "vivo" /\ mp # NULL => mp >= Max(m)
  <2> SUFFICES ASSUME estado[p] = "vivo", mp # NULL PROVE mp >= Max(m)
    OBVIOUS
  <2>1. Bien(m, bl, pg, mp, "vivo")
    BY <1>1, <1>2
  <2> QED
    BY <2>1, Numerar
<1> QED
  BY <1>1, <1>2, <1>3 DEF Bien, BienSalvo

(* NumeracionConcuerda for every value of the constants: what the Kernel   *)
(* lists is what Memoria assigned, though each numbers the pages on its    *)
(* own, and removePaginaHeap is the only way for the numbers to part.      *)
THEOREM NumberingsAgree == Spec => NumeracionConcuerda
<1>1. IInv /\ [Next]_vars => IInv' /\ [Numera]_vars
  BY CadaPaso
<1>2. (IInv => PaginasConcuerdan)'
  BY ListasConcuerdan, PTL
<1>3. IInv /\ [Next]_vars => [PaginasConcuerdan' /\ Numera]_vars
  BY <1>1, <1>2
<1>4. IInv /\ [Next]_vars
         => [kernel' = "corre" => PaginasConcuerdan' /\ \A p \in Pids : SinLugarPor(p) /\ SeAdelanta(p)]_vars
  BY <1>3 DEF Numera
<1>5. Spec => [][kernel' = "corre" => PaginasConcuerdan' /\ \A p \in Pids : SinLugarPor(p) /\ SeAdelanta(p)]_vars
  BY <1>4, SeMantiene, PTL DEF Spec
<1> QED
  BY <1>5 DEF NumeracionConcuerda

(* ImplementaAsignador for every value of the constants: alocar and        *)
(* liberar give and take blocks as an allocator does, for any number of    *)
(* programs and requests and any size of a page.                           *)
THEOREM HeapImplementsAllocator == Spec => ImplementaAsignador
<1>1. Init => Asignador!Init
  BY AlEmpezar
<1>2. IInv /\ [Next]_vars => [Asignador!Next]_(Asignador!vars)
  BY CadaPaso
<1>3. Spec => Asignador!Spec
  BY <1>1, <1>2, SeMantiene, PTL DEF Spec, Asignador!Spec
<1> QED
  BY <1>3 DEF ImplementaAsignador
=============================================================================
