-------------------------------- MODULE Heap --------------------------------
(***************************************************************************)
(* The dynamic memory of the programs (CapaMemoria.c:164-648): the pages   *)
(* the Kernel asks Memoria for, the blocks inside them, and the two        *)
(* numberings of the pages, the Kernel's and Memoria's, that must agree.   *)
(*                                                                         *)
(* The requests of the CPUs are served one after the other by one thread,  *)
(* and a program is finished by other threads only while it does not run,  *)
(* so a handler is one step.  A page is a function from the offsets of its *)
(* metadata to [isFree, size]; what programs write is not modelled: they   *)
(* write inside their blocks.  A program may free any pointer, and liberar *)
(* takes the five bytes in front of it for metadata.  Where those are not  *)
(* the metadata of a block it may write over the metadata of others: the   *)
(* heap then is "indefinido" and nothing is modelled after.                *)
(***************************************************************************)
EXTENDS Integers, Sequences, FiniteSets, SequencesExt, FiniteSetsExt, TLC

CONSTANTS
    Pids,            \* programs
    Pedidos,         \* numbers of bytes asked for
    tamanio_pag_memoria,
    paginasTotales,  \* pages of code and stack of a program
    Marcos,          \* frames Memoria has for pages
    MaxPagina        \* bound: greatest page number

sizeof_metadata == 5    \* packed: an int32_t and a bool

ASSUME HeapAssumption ==
    /\ Pedidos \subseteq Int
    /\ tamanio_pag_memoria \in Nat /\ tamanio_pag_memoria > 2 * sizeof_metadata
    /\ {paginasTotales, Marcos, MaxPagina} \subseteq Nat \ {0}
    /\ paginasTotales <= MaxPagina + 1
    /\ IsFiniteSet(Pids)

VARIABLES
    enMemoria,   \* pages Memoria has assigned to each program
    bloques,     \* contents of the heap pages: page -> offset -> [isFree, size]
    paginas,     \* paginas_proceso->paginas: [nroPagina, espacioDisponible]
    maxPaginas,  \* paginas_proceso->maxPaginas, NULL while there is no paginas_proceso
    estado,      \* "nuevo", "vivo", "error" (being finished) or "fin"
    kernel,      \* "corre" or "indefinido"
    respuesta    \* last answer, and the pointer of the block it is about, -1 if
                 \* none; in the answers to LIBERAR that pointer is history

vars == <<enMemoria, bloques, paginas, maxPaginas, estado, kernel, respuesta>>
heap == <<enMemoria, bloques, paginas, maxPaginas>>

NULL == -1
Paginas == 0 .. MaxPagina
Offsets == 0 .. tamanio_pag_memoria - 1

-----------------------------------------------------------------------------
(* Memoria, as the Kernel uses it (Memoria.c:332-342, 372-420).            *)

Ocupados == {x \in Pids \X Paginas : x[2] \in enMemoria[x[1]]}
hayEspacio(n) == Cardinality(Ocupados) + n <= Marcos
getNextPaginasPID(p) == Max(enMemoria[p] \cup {0}) + 1

-----------------------------------------------------------------------------
(* The blocks of a page. *)

paginaNueva == [o \in {0} |-> [isFree |-> TRUE, size |-> tamanio_pag_memoria - sizeof_metadata]]
ConPagina(cont, nro) ==
    [k \in DOMAIN cont \cup {nro} |-> IF k = nro THEN paginaNueva ELSE cont[k]]
Fin(pag, o) == o + sizeof_metadata + pag[o].size

(* tryAllocate takes the first block that is free and big enough, and      *)
(* splits it; what remains may be a block of no bytes.                     *)
Alcanza_sin_metadata(b, n) == b.isFree /\ b.size >= n
Alcanza(b, n) == b.isFree /\ b.size >= n + sizeof_metadata
partir(pag, o, n) ==
    LET resto == o + sizeof_metadata + n IN
    [x \in DOMAIN pag \cup {resto} |->
        IF x = o THEN [isFree |-> FALSE, size |-> n]
        ELSE IF x = resto THEN [isFree |-> TRUE, size |-> pag[o].size - n - sizeof_metadata]
        ELSE pag[x]]

(* compressPageHeap: a free block that follows a free one joins it. *)
Absorbido_usado(pag, o) == \E a \in DOMAIN pag : pag[a].isFree /\ Fin(pag, a) = o
Absorbido(pag, o) == pag[o].isFree /\ \E a \in DOMAIN pag : pag[a].isFree /\ Fin(pag, a) = o
sin_comprimir(pag) == pag
comprimir(pag) ==
    LET quedan == {o \in DOMAIN pag : ~Absorbido(pag, o)}
        siguiente(o) == CHOOSE x \in quedan \cup {tamanio_pag_memoria} :
                            x > o /\ \A y \in quedan : y > o => x <= y IN
    [o \in quedan |->
        IF pag[o].isFree THEN [isFree |-> TRUE, size |-> siguiente(o) - o - sizeof_metadata]
                         ELSE pag[o]]

-----------------------------------------------------------------------------
Responder(codigo, puntero) == respuesta' = [codigo |-> codigo, puntero |-> puntero]
Puntero(n, offset) == n * tamanio_pag_memoria + offset
Falla(p) == estado' = [estado EXCEPT ![p] = "error"]
SinEspacio(p) == Responder("RESERVAR_SIN_ESPACIO", -1) /\ Falla(p)

(* The program takes its pages of code and stack (inicializar_programa).   *)
iniciar(p) ==
    /\ estado[p] = "nuevo" /\ hayEspacio(paginasTotales)
    /\ enMemoria' = [enMemoria EXCEPT ![p] = 0 .. paginasTotales - 1]
    /\ estado' = [estado EXCEPT ![p] = "vivo"]
    /\ UNCHANGED <<bloques, paginas, maxPaginas, respuesta>>

(* A comparison of an int32_t with a size_t: negative numbers are great.   *)
Excede(n) == n < 0 \/ n > tamanio_pag_memoria - 2 * sizeof_metadata

(* The block at offset o of the i-th page of the program is given away.    *)
Asignar(p, i, o, n, pags, cont) ==
    LET nro == pags[i].nroPagina IN
    /\ bloques' = [bloques EXCEPT ![p] = [cont EXCEPT ![nro] = partir(cont[nro], o, n)]]
    /\ paginas' = [paginas EXCEPT ![p] =
                      [pags EXCEPT ![i].espacioDisponible = @ - (n + sizeof_metadata)]]
    /\ Responder("RESERVAR_OK", Puntero(nro, o + sizeof_metadata))
    /\ UNCHANGED estado

ConLugar(p, n) ==
    {i \in DOMAIN paginas[p] :
        /\ paginas[p][i].espacioDisponible >= n + sizeof_metadata
        /\ \E o \in DOMAIN bloques[p][paginas[p][i].nroPagina] :
              Alcanza(bloques[p][paginas[p][i].nroPagina][o], n)}

(* The first page that says it has room and has a block for it. *)
reservar_en(p, n) ==
    \E i \in ConLugar(p, n) :
        LET nro == paginas[p][i].nroPagina
            pag == bloques[p][nro]
            sirven == {o \in DOMAIN pag : Alcanza(pag[o], n)} IN
        /\ \A j \in ConLugar(p, n) : i <= j
        /\ \E o \in sirven : /\ \A x \in sirven : o <= x
                             /\ Asignar(p, i, o, n, paginas[p], bloques[p])
        /\ UNCHANGED <<enMemoria, maxPaginas>>

(* No page has a block for the request: Memoria is asked for a page, and   *)
(* the Kernel writes the page IT numbers next, which Memoria may not have  *)
(* assigned; what Memoria did assign then stays so.                        *)
pedirPaginaHeap(p, n) ==
    LET max == (IF maxPaginas[p] = NULL THEN paginasTotales - 1 ELSE maxPaginas[p]) + 1
        cont == ConPagina(bloques[p], max) IN
    \/ /\ ~hayEspacio(1)
       /\ maxPaginas' = [maxPaginas EXCEPT ![p] = max - 1]
       /\ SinEspacio(p)
       /\ UNCHANGED <<enMemoria, bloques, paginas>>
    \/ /\ hayEspacio(1) /\ getNextPaginasPID(p) <= MaxPagina
       /\ enMemoria' = [enMemoria EXCEPT ![p] = @ \cup {getNextPaginasPID(p)}]
       /\ maxPaginas' = [maxPaginas EXCEPT ![p] = max]
       /\ \/ /\ max \in enMemoria'[p]      \* OK_ALMACENAR
             /\ Asignar(p, Len(paginas[p]) + 1, 0, n,
                        Append(paginas[p], [nroPagina |-> max,
                            espacioDisponible |-> tamanio_pag_memoria - sizeof_metadata]), cont)
          \/ /\ max \notin enMemoria'[p]
             /\ SinEspacio(p)
             /\ UNCHANGED <<bloques, paginas>>

reservar(p, n) ==
    /\ estado[p] = "vivo"
    /\ \/ /\ Excede(n)
          /\ Responder("RESERVAR_OVERFLOW", -1) /\ Falla(p)
          /\ UNCHANGED heap
       \/ ~Excede(n) /\ reservar_en(p, n)
       \/ ~Excede(n) /\ ConLugar(p, n) = {} /\ pedirPaginaHeap(p, n)

-----------------------------------------------------------------------------
(* removePaginaHeap *)
disminuir_siempre(p, nro) == maxPaginas' = [maxPaginas EXCEPT ![p] = @ - 1]
disminuir(p, nro) ==
    maxPaginas' = [maxPaginas EXCEPT ![p] = IF nro = @ THEN @ - 1 ELSE @]

(* compressPageHeap gives back a page that is one block.                   *)
UnSoloBloque(pag) == pag[0].size = tamanio_pag_memoria - sizeof_metadata
SinPagina(cont, nro) == [k \in DOMAIN cont \ {nro} |-> cont[k]]
devolver(p, nro) ==
    /\ enMemoria' = [enMemoria EXCEPT ![p] = @ \ {nro}]
    /\ bloques' = [bloques EXCEPT ![p] = SinPagina(@, nro)]
    /\ paginas' = [paginas EXCEPT ![p] = RemoveFirstMatch(@, LAMBDA x : x.nroPagina = nro)]
    /\ disminuir(p, nro)

(* liberar adds the bytes of the block, not those of its metadata nor      *)
(* those of the metadata that compressing the page recovers.               *)
recuperado(bytes) == bytes
ConRecuperado(lista, nro, bytes) ==
    [i \in DOMAIN lista |-> IF lista[i].nroPagina = nro
                            THEN [lista[i] EXCEPT !.espacioDisponible = @ + recuperado(bytes)]
                            ELSE lista[i]]
conservar(p, nro, pag, bytes) ==
    /\ bloques' = [bloques EXCEPT ![p][nro] = pag]
    /\ paginas' = [paginas EXCEPT ![p] = ConRecuperado(@, nro, bytes)]
    /\ UNCHANGED <<enMemoria, maxPaginas>>

Liberado(pag, o) == comprimir([pag EXCEPT ![o].isFree = TRUE])
(* The blocks in use are the blocks the programs hold.                     *)
Usados(p) ==
    UNION {{[puntero |-> Puntero(nro, o + sizeof_metadata), bytes |-> bloques[p][nro][o].size] :
              o \in {x \in DOMAIN bloques[p][nro] : ~bloques[p][nro][x].isFree}} :
            nro \in DOMAIN bloques[p]}
DelBloque(p, nro, o) ==
    LET x == Puntero(nro, o + sizeof_metadata) IN
    IF \E b \in Usados(p) : b.puntero = x THEN x ELSE -1

EsBloque(p, nro, o) == nro \in DOMAIN bloques[p] /\ o \in DOMAIN bloques[p][nro]
EsUsado(p, nro, o) == EsBloque(p, nro, o) /\ ~bloques[p][nro][o].isFree
EnMetadata(p, nro, o) ==
    nro \in DOMAIN bloques[p] /\ \E b \in DOMAIN bloques[p][nro] : o \in b .. b + sizeof_metadata - 1

liberarUsado(p, nro, o) ==
    LET pag == bloques[p][nro] IN
    /\ \/ UnSoloBloque(Liberado(pag, o)) /\ devolver(p, nro)
       \/ /\ ~UnSoloBloque(Liberado(pag, o))
          /\ conservar(p, nro, Liberado(pag, o), pag[o].size)
    /\ Responder("LIBERAR_OK", DelBloque(p, nro, o))
    /\ UNCHANGED <<estado, kernel>>

(* No block in use begins there.  The answer is LIBERAR_ERROR for a page   *)
(* that Memoria does not give the program and for a free block.  Any other *)
(* five bytes (inside a block, over somebody's metadata, before the page,  *)
(* on a page of code) hold whatever they hold.  Read as free, they are an  *)
(* error.  Read as in use, a 1 is written on the first, and as many bytes  *)
(* as the others say are cleared and added to espacioDisponible: at best   *)
(* none, and the 1 falls on data; else metadata may be written over, of    *)
(* this page or of the Kernel, or paginas_proceso be NULL (l. 536-561).    *)
liberarAjeno(p, nro, o) ==
    \/ /\ Responder("LIBERAR_ERROR", DelBloque(p, nro, o)) /\ Falla(p)
       /\ UNCHANGED <<heap, kernel>>
    \/ /\ nro \in enMemoria[p] /\ ~EsBloque(p, nro, o)
       /\ o \in Offsets /\ ~EnMetadata(p, nro, o) /\ maxPaginas[p] # NULL
       /\ Responder("LIBERAR_OK", DelBloque(p, nro, o))
       /\ UNCHANGED <<heap, estado, kernel>>
    \/ /\ nro \in enMemoria[p] /\ ~EsBloque(p, nro, o)
       /\ kernel' = "indefinido"
       /\ Responder("LIBERAR_OK", DelBloque(p, nro, o))
       /\ UNCHANGED <<heap, estado>>

(* The CPU divides the pointer, which is unsigned, by the size of a page.  *)
liberar(p, nro, offset) ==
    LET o == offset - sizeof_metadata IN
    /\ estado[p] = "vivo"
    /\ \/ EsUsado(p, nro, o) /\ liberarUsado(p, nro, o)
       \/ ~EsUsado(p, nro, o) /\ liberarAjeno(p, nro, o)

(* finishProcess: Memoria frees every page, cleanMemoriaHeap the list.     *)
finishProcess(p) ==
    /\ estado[p] \in {"vivo", "error"}
    /\ estado' = [estado EXCEPT ![p] = "fin"]
    /\ enMemoria' = [enMemoria EXCEPT ![p] = {}]
    /\ bloques' = [bloques EXCEPT ![p] = <<>>]
    /\ paginas' = [paginas EXCEPT ![p] = <<>>]
    /\ UNCHANGED <<maxPaginas, respuesta>>

-----------------------------------------------------------------------------
Init ==
    /\ enMemoria = [p \in Pids |-> {}]
    /\ bloques = [p \in Pids |-> <<>>]
    /\ paginas = [p \in Pids |-> <<>>]
    /\ maxPaginas = [p \in Pids |-> NULL]
    /\ estado = [p \in Pids |-> "nuevo"]
    /\ kernel = "corre"
    /\ respuesta = [codigo |-> "nada", puntero |-> 0]

Next ==
    /\ kernel = "corre"
    /\ \E p \in Pids :
          \/ iniciar(p) /\ UNCHANGED kernel
          \/ \E n \in Pedidos : reservar(p, n) /\ UNCHANGED kernel
          \/ \E nro \in Paginas, offset \in Offsets : liberar(p, nro, offset)
          \/ finishProcess(p) /\ UNCHANGED kernel

Spec == Init /\ [][Next]_vars

-----------------------------------------------------------------------------
(* Every list, page and block has its type. *)
TypeOK ==
    /\ kernel \in {"corre", "indefinido"}
    /\ estado \in [Pids -> {"nuevo", "vivo", "error", "fin"}]
    /\ kernel = "corre" =>
          /\ enMemoria \in [Pids -> SUBSET Paginas]
          /\ \A p \in Pids :
                /\ DOMAIN bloques[p] \subseteq Paginas
                /\ \A nro \in DOMAIN bloques[p] :
                      /\ DOMAIN bloques[p][nro] \subseteq Offsets
                      /\ \A o \in DOMAIN bloques[p][nro] :
                            bloques[p][nro][o] \in [isFree : BOOLEAN, size : Offsets]
                /\ paginas[p] \in Seq([nroPagina : Paginas, espacioDisponible : Offsets])
          /\ maxPaginas \in [Pids -> Int]

BienFormada(pag) ==
    /\ 0 \in DOMAIN pag
    /\ \A o \in DOMAIN pag :
          /\ Fin(pag, o) \in DOMAIN pag \cup {tamanio_pag_memoria}
          /\ \A x \in DOMAIN pag : x > o => x >= Fin(pag, o)
          /\ ~Absorbido(pag, o)
    /\ ~UnSoloBloque(pag)

BytesLibres(pag) ==
    Cardinality({x \in Offsets : \E o \in DOMAIN pag : /\ pag[o].isFree
                                                      /\ o + sizeof_metadata <= x /\ x < Fin(pag, o)})

(* The blocks of every page of the heap follow each other from its first   *)
(* byte to its last, no two free ones are neighbours, and no page is kept  *)
(* with nothing allocated in it (tryAllocate, compressPageHeap).  A page   *)
(* never claims more room than its free blocks have: the Kernel looks for  *)
(* room only in the pages that claim it.  It may claim less, since the     *)
(* metadata that freeing recovers is never added to espacioDisponible.     *)
(* So it is until a program frees what is no block of its own and the      *)
(* bytes there read as one in use: see liberarAjeno.                       *)
PaginaBienFormada ==
    kernel = "corre" => \A p \in Pids :
        /\ \A nro \in DOMAIN bloques[p] : BienFormada(bloques[p][nro])
        /\ \A i \in DOMAIN paginas[p] :
              paginas[p][i].espacioDisponible <= BytesLibres(bloques[p][paginas[p][i].nroPagina])

PaginasConcuerdan ==
    \A p \in Pids :
        /\ \A i, j \in DOMAIN paginas[p] :
              paginas[p][i].nroPagina = paginas[p][j].nroPagina => i = j
        /\ {paginas[p][i].nroPagina : i \in DOMAIN paginas[p]} = DOMAIN bloques[p]
        /\ DOMAIN bloques[p] \subseteq enMemoria[p] \ (0 .. paginasTotales - 1)
        /\ estado[p] = "vivo" /\ maxPaginas[p] # NULL =>
              maxPaginas[p] >= Max(enMemoria[p])

Adelantado(p) == maxPaginas[p] # NULL /\ maxPaginas[p] # Max(enMemoria[p])

SinLugarPor(p) ==
    estado[p] = "vivo" /\ estado'[p] = "error" /\ respuesta'.codigo = "RESERVAR_SIN_ESPACIO"
        => ~hayEspacio(1) \/ Adelantado(p)
SeAdelanta(p) ==
    estado'[p] = "vivo" /\ Adelantado(p)' /\ ~Adelantado(p)
        => Max(enMemoria[p]) - 1 \notin enMemoria[p] /\ Max(enMemoria[p]) \notin enMemoria'[p]

(* The two numberings agree on every page of the heap: what the Kernel     *)
(* lists is what it wrote, each page once, in a page that Memoria still    *)
(* assigns to the program, that is none of its code or its stack; and the  *)
(* Kernel never writes a new page over one that exists.  A request is      *)
(* answered RESERVAR_SIN_ESPACIO only if Memoria has no frame or the       *)
(* Kernel's numbering runs ahead of Memoria's; and it starts to run ahead  *)
(* only when the program gives back its last page after the one before it  *)
(* (removePaginaHeap goes back one number and no further).                 *)
NumeracionConcuerda ==
    [][kernel' = "corre" =>
          PaginasConcuerdan' /\ \A p \in Pids : SinLugarPor(p) /\ SeAdelanta(p)]_vars

Asignador == INSTANCE AsignadorHeap WITH asignados <- [p \in Pids |-> Usados(p)]

(* The heap of pages is an allocator: a new block overlaps none that is    *)
(* held and stays inside one page, a block that is held keeps its place    *)
(* and size until it is freed, freeing it always succeeds, and a request   *)
(* that fails takes or frees nothing.  Only freeing something that is not  *)
(* held can end that: programs that free what they hold, once, in any      *)
(* order, never lose their heap.                                           *)
ImplementaAsignador == Asignador!Spec
=============================================================================
