------------------------------ MODULE Memoria ------------------------------
(***************************************************************************)
(* The Memoria process (Memoria.c): the inverted page table with its hash, *)
(* the frames, and the cache with its separate list of administrative      *)
(* entries.  One thread serves each connection.  A request that needs the  *)
(* cache and the frames sleeps between the two (retardoMemoria), in some   *)
(* handlers with mutexCache held and in others without; every other        *)
(* critical section is one step.  mutexMemoriaPrincipal is always the last *)
(* mutex taken, so it is never held across steps.                          *)
(***************************************************************************)
EXTENDS Integers, Sequences, FiniteSets, FiniteSetsExt

CONSTANTS
    Conexiones, Kernel, Pids, PagsPrograma, MaxPagina, MarcoSize,
    Datos, Cero, Escrituras, Lecturas, \* as in EspacioDirecciones
    Marcos,            \* MARCOS of the configuration
    PaginasAdms,       \* frames the page table itself takes (cantPaginasAdms)
    EntradasCache,     \* ENTRADAS_CACHE
    CacheXProc,        \* CACHE_X_PROC
    MaxReloj,          \* bound: seconds that go by
    Nadie              \* owner of a free mutex

Frames == 0 .. Marcos - 1
Bytes == PaginasAdms * MarcoSize .. Marcos * MarcoSize - 1
Entradas == 1 .. EntradasCache
Paginas == 0 .. MaxPagina
EnMarco == 0 .. MarcoSize - 1
Libre == -1       \* pid of a free frame or cache entry
Administrativa == -2

ASSUME MemoriaAssumption ==
    /\ Kernel \in Conexiones /\ Nadie \notin Conexiones
    /\ Pids \subseteq Nat
    /\ {PagsPrograma, MarcoSize, Marcos} \subseteq Nat \ {0}
    /\ {MaxPagina, EntradasCache, CacheXProc, MaxReloj} \subseteq Nat
    /\ PaginasAdms \in 1 .. Marcos /\ PagsPrograma <= MaxPagina + 1
    /\ Cero \in Datos
    /\ Escrituras \subseteq EnMarco \X Seq(Datos) /\ Lecturas \subseteq Nat \X Nat

VARIABLES
    tabla,       \* bloqueMemoria: the page table, [pid, numeroPag] of each frame
    memoria,     \* bloqueMemoria: the bytes of the other frames
    cacheEntradas, \* administrative entries: [pid, nroPagina, tiempoEntrada]
    bloqueCache, \* cached pages: [pid, nroPagina, contenido]
    reloj,       \* time(0)
    mutexCache,
    paso,        \* what the thread of a connection does next
    pedido, respuesta, iniciado, \* as in EspacioDirecciones
    corridas     \* history: pages cached from the middle of their frame

vars == <<tabla, memoria, cacheEntradas, bloqueCache, reloj, mutexCache, paso,
          pedido, respuesta, iniciado, corridas>>
cache == <<cacheEntradas, bloqueCache, corridas>>

-----------------------------------------------------------------------------
(* The page table (Memoria.c:25-41, 293-448). *)

hash(pid, nroPag) ==
    IF nroPag # 0 THEN pid * nroPag + pid \div nroPag
    ELSE IF pid < PaginasAdms THEN pid + PaginasAdms ELSE pid

getHash(pid, nroPag) ==
    LET h == hash(pid, nroPag) IN IF h > Marcos - 1 THEN h % (Marcos - 1) ELSE h

(* From h up to the last frame, then from h down to the first one. *)
Sondeo(h, S) == IF \E i \in S : i >= h THEN Min({i \in S : i >= h}) ELSE Max(S)

paginasLibres(t) == {i \in Frames : t[i].pid = Libre}
MarcosDe(t, p) == {i \in Frames : t[i].pid = p}

getNextPaginasPID(p) == Max({0} \cup {tabla[i].numeroPag : i \in MarcosDe(tabla, p)}) + 1

(* The table once n pages were placed from number desde on. *)
Ubicar(p, desde, n) ==
    LET t[k \in 0 .. n] ==
            IF k = 0 THEN tabla
            ELSE LET nro == desde + k - 1 IN
                 [t[k - 1] EXCEPT ![Sondeo(getHash(p, nro), paginasLibres(t[k - 1]))] =
                                    [pid |-> p, numeroPag |-> nro]]
    IN t[n]

hayEspacio(n) == Cardinality(paginasLibres(tabla)) >= n
asignarPaginasPID_desde_cero(p, n, isNew) ==
    IF hayEspacio(n) THEN tabla' = Ubicar(p, 0, n) ELSE UNCHANGED tabla
asignarPaginasPID(p, n, isNew) ==
    IF hayEspacio(n) THEN tabla' = Ubicar(p, IF isNew THEN 0 ELSE getNextPaginasPID(p), n)
                     ELSE UNCHANGED tabla

(* The frame of a page, as a set: empty when encontrarPagina returns NULL. *)
encontrarPagina(p, n) ==
    LET F == {i \in Frames : tabla[i].pid = p /\ tabla[i].numeroPag = n} IN
    IF F = {} THEN {} ELSE {Sondeo(getHash(p, n), F)}

Base(marco) == marco * MarcoSize
memset_no(F) == UNCHANGED memoria
memset(F) == memoria' = [k \in Bytes |-> IF k \div MarcoSize \in F THEN Cero ELSE memoria[k]]

(* Frames that are given back are zeroed; their entries become (-1, 0). *)
Borrar_marcos_menos_uno(F) ==
    /\ tabla' = [i \in Frames |-> IF i \in F THEN [pid |-> Libre, numeroPag |-> -1] ELSE tabla[i]]
    /\ memset(F)
Borrar_marcos(F) ==
    /\ tabla' = [i \in Frames |-> IF i \in F THEN [pid |-> Libre, numeroPag |-> 0] ELSE tabla[i]]
    /\ memset(F)

-----------------------------------------------------------------------------
(* The cache (Memoria.c:45-289).  The list of entries is kept sorted only  *)
(* to pick a victim, so it is a function; time(0) counts seconds, and      *)
(* entries of the same second are victims in no order.                     *)

getCacheAdmin(p, n) == {e \in Entradas : cacheEntradas[e].pid = p /\ cacheEntradas[e].nroPagina = n}
findInCache(p, n) == {b \in Entradas : bloqueCache[b].pid = p /\ bloqueCache[b].nroPagina = n}
Entrada(p, n) == [pid |-> p, nroPagina |-> n, tiempoEntrada |-> reloj]

(* The entry of a page that was hit gets the current time. *)
addEntradaCache(p, n) ==
    cacheEntradas' = [e \in Entradas |-> IF e \in getCacheAdmin(p, n) THEN Entrada(p, n)
                                                                      ELSE cacheEntradas[e]]

getCacheMinorEntradas(E) ==
    {e \in E : \A f \in E : cacheEntradas[e].tiempoEntrada <= cacheEntradas[f].tiempoEntrada}
findMinorEntradas ==
    LET libres == {e \in Entradas : cacheEntradas[e].pid = Libre} IN
    IF libres # {} THEN libres ELSE getCacheMinorEntradas(Entradas)

DelProceso(p) == {e \in Entradas : cacheEntradas[e].pid = p}
ReemplazoGlobal_demas(p) == Cardinality(DelProceso(p)) <= CacheXProc
ReemplazoGlobal(p) == Cardinality(DelProceso(p)) < CacheXProc
Victimas(p) == IF ReemplazoGlobal(p) THEN findMinorEntradas
                                     ELSE getCacheMinorEntradas(DelProceso(p))

(* findAndReplaceInCache: the first block of the victim; a free entry      *)
(* with page number -1 stands for any free block.                          *)
BloqueVictima(v) ==
    {b \in Entradas : /\ bloqueCache[b].pid = v.pid
                      /\ v.nroPagina \in {bloqueCache[b].nroPagina, -1}}

(* A page enters the cache with the MarcoSize bytes of mem that begin at   *)
(* desde; beyond the last frame they are whatever the process finds there. *)
cacheMiss(p, n, desde, mem) ==
    LET leidos == {f \in [EnMarco -> Datos] :
                      \A i \in EnMarco : desde + i \in Bytes => f[i] = mem[desde + i]} IN
    \/ Victimas(p) = {} /\ UNCHANGED cache
    \/ \E e \in Victimas(p), f \in leidos :
          LET B == BloqueVictima(cacheEntradas[e])
              entra == [pid |-> p, nroPagina |-> n, contenido |-> f]
              nuevo == [b \in Entradas |-> IF b \in B /\ \A a \in B : b <= a THEN entra
                                                                          ELSE bloqueCache[b]]
              quedan == {<<nuevo[b].pid, nuevo[b].nroPagina>> : b \in Entradas} IN
          /\ cacheEntradas' = [cacheEntradas EXCEPT ![e] = Entrada(p, n)]
          /\ bloqueCache' = nuevo
          /\ corridas' = (corridas \cap quedan)
                           \cup (IF desde % MarcoSize = 0 THEN {} ELSE {<<p, n>>})

VacioB == [pid |-> Libre, nroPagina |-> 0, contenido |-> [i \in EnMarco |-> Cero]]

(* clearEntradasCache and findAndReplaceInCache without a content: pages N *)
(* of p leave the cache.                                                   *)
clearEntradasCache(p, N, nroPaginaReplace) ==
    cacheEntradas' = [e \in Entradas |->
        IF cacheEntradas[e].pid = p /\ cacheEntradas[e].nroPagina \in N
          THEN Entrada(Libre, nroPaginaReplace) ELSE cacheEntradas[e]]
limpiarBloques_no(p, N) == UNCHANGED <<bloqueCache, corridas>>
limpiarBloques(p, N) ==
    /\ bloqueCache' = [b \in Entradas |->
          IF bloqueCache[b].pid = p /\ bloqueCache[b].nroPagina \in N THEN VacioB ELSE bloqueCache[b]]
    /\ corridas' = corridas \ ({p} \X N)

-----------------------------------------------------------------------------
(* What the requests amount to for a client. *)

PaginaDe(i) == <<tabla[i].pid, tabla[i].numeroPag>>
Ocupados == {i \in Frames : tabla[i].pid >= 0}
espacio ==
    [x \in {PaginaDe(i) : i \in Ocupados} |->
        LET m == CHOOSE i \in Ocupados : PaginaDe(i) = x IN [i \in EnMarco |-> memoria[Base(m) + i]]]

CapacidadPaginas == Marcos - PaginasAdms
Espacio == INSTANCE EspacioDirecciones

-----------------------------------------------------------------------------
(* The handlers (Memoria.c:694-983). *)

Termina(c, r) ==
    /\ Espacio!Responder(c, r)
    /\ paso' = [paso EXCEPT ![c] = "espera"]
Cod(s) == Espacio!Codigo(s)

Pedir(c, r) ==
    /\ Espacio!SePuedePedir(c, r)
    /\ pedido' = [pedido EXCEPT ![c] = r]
    /\ respuesta' = Espacio!Ninguno
    /\ iniciado' = IF r.op = "INIT_PROGM" THEN iniciado \cup {r.pid} ELSE iniciado
    /\ paso' = [paso EXCEPT ![c] = r.op]
    /\ UNCHANGED <<tabla, memoria, cache, reloj, mutexCache>>

(* iniciarPrograma, asignarPaginas: they do not touch the cache. *)
asignar(c) ==
    LET p == pedido[c].pid
        isNew == paso[c] = "INIT_PROGM"
        pagRequeridas == IF isNew THEN PagsPrograma ELSE 1 IN
    /\ paso[c] \in {"INIT_PROGM", "ASIG_PAGES"}
    /\ asignarPaginasPID(p, pagRequeridas, isNew)
    /\ Termina(c, Cod(IF hayEspacio(pagRequeridas) THEN "OK" ELSE "SIN_ESPACIO"))
    /\ UNCHANGED <<memoria, cache, reloj, mutexCache>>

Leidos(f, b) == [codigo |-> "OK", datos |-> [i \in 1 .. b[2] |-> f[b[1] + i - 1]]]
Desborda(b, largo) == MarcoSize - (b[1] + largo) < 0

(* A page that is not in the table is reported, not waited for. *)
NoEncontrada_reintenta(c) ==
    /\ paso' = [paso EXCEPT ![c] = pedido[c].op]
    /\ UNCHANGED <<pedido, respuesta, iniciado>>
NoEncontrada(c) == Termina(c, Cod("NOT_FOUND"))

(* solicitarBytes: a page in the cache is answered from it; on a miss      *)
(* mutexCache stays taken over the sleep.                                  *)
solicitarBytes(c) ==
    LET p == pedido[c].pid
        n == pedido[c].pagina
        b == pedido[c].bytes IN
    /\ paso[c] = "SOLC_BYTES" /\ mutexCache = Nadie
    /\ \/ /\ findInCache(p, n) = {}
          /\ mutexCache' = c
          /\ paso' = [paso EXCEPT ![c] = "solicitarBytes"]
          /\ UNCHANGED <<cacheEntradas, pedido, respuesta, iniciado>>
       \/ /\ findInCache(p, n) # {}
          /\ addEntradaCache(p, n)
          /\ Termina(c, IF Desborda(b, b[2]) THEN Cod("OVERFLOW")
                        ELSE Leidos(bloqueCache[Min(findInCache(p, n))].contenido, b))
          /\ UNCHANGED mutexCache
    /\ UNCHANGED <<tabla, memoria, bloqueCache, corridas, reloj>>

solicitarBytes_marco(c) ==
    LET p == pedido[c].pid
        n == pedido[c].pagina
        b == pedido[c].bytes
        pag == encontrarPagina(p, n) IN
    /\ paso[c] = "solicitarBytes"
    /\ mutexCache' = Nadie
    /\ \/ pag = {} /\ NoEncontrada(c) /\ UNCHANGED cache
       \/ pag # {} /\ Desborda(b, b[2]) /\ Termina(c, Cod("OVERFLOW")) /\ UNCHANGED cache
       \/ /\ pag # {} /\ ~Desborda(b, b[2])
          /\ \E m \in pag :
                /\ Termina(c, Leidos([i \in EnMarco |-> memoria[Base(m) + i]], b))
                /\ cacheMiss(p, n, Base(m), memoria)
    /\ UNCHANGED <<tabla, memoria, reloj>>

almacenarBytes(c) ==
    /\ paso[c] = "ALMC_BYTES" /\ mutexCache = Nadie
    /\ mutexCache' = c
    /\ paso' = [paso EXCEPT ![c] = "almacenarBytes"]
    /\ UNCHANGED <<tabla, memoria, cache, reloj, pedido, respuesta, iniciado>>

memcpy(desde, s) == [k \in Bytes |-> IF k - desde + 1 \in DOMAIN s THEN s[k - desde + 1] ELSE memoria[k]]

(* The frame is written, and the cached page too.  A page that was not in  *)
(* the cache enters it from the offset that was written (l. 847).          *)
escribirEnCache_no(p, n, b) == UNCHANGED bloqueCache
escribirEnCache(p, n, b) ==
    bloqueCache' = [bloqueCache EXCEPT ![Min(findInCache(p, n))].contenido =
        [i \in EnMarco |-> IF i - b[1] + 1 \in DOMAIN b[2] THEN b[2][i - b[1] + 1] ELSE @[i]]]

almacenarBytes_marco(c) ==
    LET p == pedido[c].pid
        n == pedido[c].pagina
        b == pedido[c].bytes
        pag == encontrarPagina(p, n)
        desborda == Desborda(b, Len(b[2])) IN
    /\ paso[c] = "almacenarBytes"
    /\ mutexCache' = Nadie
    /\ \/ pag = {} /\ NoEncontrada(c) /\ UNCHANGED <<memoria, cache>>
       \/ pag # {} /\ desborda /\ Termina(c, Cod("OVERFLOW")) /\ UNCHANGED <<memoria, cache>>
       \/ /\ pag # {} /\ ~desborda
          /\ Termina(c, Cod("OK"))
          /\ \E m \in pag :
                /\ memoria' = memcpy(Base(m) + b[1], b[2])
                /\ \/ /\ findInCache(p, n) # {}
                      /\ addEntradaCache(p, n)
                      /\ escribirEnCache(p, n, b)
                      /\ UNCHANGED corridas
                   \/ /\ findInCache(p, n) = {}
                      /\ cacheMiss(p, n, Base(m) + b[1], memoria')
    /\ UNCHANGED <<tabla, reloj>>

(* finalizarPrograma and liberarPagina give mutexCache back before the     *)
(* sleep, and the frames are given back after it.                          *)
finalizarPrograma(c) ==
    LET p == pedido[c].pid IN
    /\ paso[c] = "FINZ_PROGM" /\ mutexCache = Nadie
    /\ clearEntradasCache(p, Paginas, 0)
    /\ limpiarBloques(p, Paginas)
    /\ paso' = [paso EXCEPT ![c] = "finalizarPrograma"]
    /\ UNCHANGED <<tabla, memoria, reloj, mutexCache, pedido, respuesta, iniciado>>

finalizarPrograma_marcos(c) ==
    /\ paso[c] = "finalizarPrograma"
    /\ Borrar_marcos(MarcosDe(tabla, pedido[c].pid))
    /\ Termina(c, Cod("OK"))
    /\ UNCHANGED <<cache, reloj, mutexCache>>

liberarPagina(c) ==
    LET p == pedido[c].pid
        n == pedido[c].pagina IN
    /\ paso[c] = "LIBERAR_PAG" /\ mutexCache = Nadie
    /\ clearEntradasCache(p, {n}, -1)
    /\ limpiarBloques(p, {n})
    /\ paso' = [paso EXCEPT ![c] = "liberarPagina"]
    /\ UNCHANGED <<tabla, memoria, reloj, mutexCache, pedido, respuesta, iniciado>>

liberarPagina_marco(c) ==
    LET pag == encontrarPagina(pedido[c].pid, pedido[c].pagina) IN
    /\ paso[c] = "liberarPagina"
    /\ Borrar_marcos(pag)
    /\ Termina(c, Cod(IF pag = {} THEN "NOT_FOUND" ELSE "OK"))
    /\ UNCHANGED <<cache, reloj, mutexCache>>

(* The flush command of Memoria's own console empties the cache. *)
flush ==
    /\ mutexCache = Nadie
    /\ bloqueCache' = [b \in Entradas |-> VacioB]
    /\ cacheEntradas' = [e \in Entradas |-> Entrada(Libre, 0)]
    /\ corridas' = {}
    /\ UNCHANGED <<tabla, memoria, reloj, mutexCache, paso, pedido, respuesta, iniciado>>

Tic ==
    /\ reloj < MaxReloj
    /\ reloj' = reloj + 1
    /\ UNCHANGED <<tabla, memoria, cache, mutexCache, paso, pedido, respuesta, iniciado>>

-----------------------------------------------------------------------------
Init ==
    /\ tabla = [i \in Frames |-> [pid |-> IF i < PaginasAdms THEN Administrativa ELSE Libre,
                                  numeroPag |-> 0]]
    /\ memoria = [k \in Bytes |-> Cero]
    /\ reloj = 0
    /\ cacheEntradas = [e \in Entradas |-> Entrada(Libre, 0)]
    /\ bloqueCache = [b \in Entradas |-> VacioB]
    /\ corridas = {}
    /\ mutexCache = Nadie
    /\ paso = [c \in Conexiones |-> "espera"]
    /\ pedido = [c \in Conexiones |-> Espacio!Ninguno]
    /\ respuesta = Espacio!Ninguno
    /\ iniciado = {}

Atender(c) ==
    \/ asignar(c)
    \/ solicitarBytes(c) \/ solicitarBytes_marco(c)
    \/ almacenarBytes(c) \/ almacenarBytes_marco(c)
    \/ finalizarPrograma(c) \/ finalizarPrograma_marcos(c)
    \/ liberarPagina(c) \/ liberarPagina_marco(c)

Next ==
    \/ \E c \in Conexiones : (\E r \in Espacio!Pedidos : Pedir(c, r)) \/ Atender(c)
    \/ flush
    \/ Tic

Spec == Init /\ [][Next]_vars

(* A thread that waits for mutexCache gets it if it is released again and  *)
(* again; a thread that sleeps goes on.                                    *)
SpecJusta == Spec /\ \A c \in Conexiones : SF_vars(Atender(c))

-----------------------------------------------------------------------------
(* Properties. *)

(* The types of the variables. *)
TypeOK ==
    /\ tabla \in [Frames -> [pid : Pids \cup {Libre, Administrativa}, numeroPag : Paginas]]
    /\ memoria \in [Bytes -> Datos]
    /\ cacheEntradas \in [Entradas -> [pid : Pids \cup {Libre}, nroPagina : Paginas \cup {-1},
                                       tiempoEntrada : 0 .. MaxReloj]]
    /\ bloqueCache \in [Entradas -> [pid : Pids \cup {Libre}, nroPagina : Paginas,
                                     contenido : [EnMarco -> Datos]]]
    /\ reloj \in 0 .. MaxReloj
    /\ mutexCache \in Conexiones \cup {Nadie}
    /\ paso \in [Conexiones -> {"espera", "INIT_PROGM", "ASIG_PAGES", "SOLC_BYTES", "ALMC_BYTES",
                                "FINZ_PROGM", "LIBERAR_PAG", "solicitarBytes", "almacenarBytes",
                                "finalizarPrograma", "liberarPagina"}]
    /\ pedido \in [Conexiones -> Espacio!Pedidos \cup {Espacio!Ninguno}]
    /\ iniciado \subseteq Pids
    /\ corridas \subseteq Pids \X Paginas

(* No two frames hold the same page of a program, whatever pages it was    *)
(* given and freed before (getNextPaginasPID, Memoria.c:332-342), and no   *)
(* frame of the administrative structures is ever given away.              *)
PaginasUnicas ==
    /\ \A i, j \in Ocupados : PaginaDe(i) = PaginaDe(j) => i = j
    /\ \A i \in Frames : tabla[i].pid = Administrativa <=> i < PaginasAdms

(* The list of administrative entries and the block of cached pages, which *)
(* are updated by separate loops, always speak of the same pages, each of  *)
(* them once (Memoria.c:111-188).                                          *)
EnCache(f) == {e \in Entradas : f[e].pid # Libre}
CacheConcuerda ==
    LET paginas(f) == {<<f[e].pid, f[e].nroPagina>> : e \in EnCache(f)} IN
    /\ paginas(cacheEntradas) = paginas(bloqueCache)
    /\ Cardinality(paginas(cacheEntradas)) = Cardinality(EnCache(cacheEntradas))
    /\ Cardinality(paginas(bloqueCache)) = Cardinality(EnCache(bloqueCache))

(* No program takes more entries than CACHE_X_PROC, although entries are   *)
(* freed one by one, all at once and by flush (Memoria.c:202-214).         *)
CuotaRespetada == \A p \in Pids : Cardinality(DelProceso(p)) <= CacheXProc

(* A cached page is assigned to its program and reads as its frame does,   *)
(* although finalizarPrograma and liberarPagina update the cache and the   *)
(* frames under separate locks; a page cached from the middle of its frame *)
(* (Memoria.c:847) is the exception.                                       *)
CacheCoherente ==
    \A b \in EnCache(bloqueCache) :
        LET x == <<bloqueCache[b].pid, bloqueCache[b].nroPagina>> IN
        x \in DOMAIN espacio /\ (x \notin corridas => bloqueCache[b].contenido = espacio[x])

(* "Pagina encontrada en cache PID:%d PAG:%d" (Memoria.c:735): what is     *)
(* found in the cache is that page.                                        *)
PaginaEncontradaEnCache ==
    \A b \in EnCache(bloqueCache) :
        bloqueCache[b].contenido = espacio[<<bloqueCache[b].pid, bloqueCache[b].nroPagina>>]

(* The frames, the hash and the cache implement one page space for each    *)
(* program: each request takes effect at once and its reply is the one the *)
(* page space gives, whatever the other connections do meanwhile.  One     *)
(* reply may differ, in its bytes alone: that to a read of a page that is  *)
(* in the cache since a write past its first byte (Memoria.c:847).         *)
LaPaginaDe(c) == <<pedido[c].pid, pedido[c].pagina>>
EscribirCorrida(c) ==
    /\ Espacio!Escribir(c) /\ pedido[c].bytes[1] # 0
    /\ corridas' \subseteq corridas \cup {LaPaginaDe(c)}
LeerCorrida(c) ==
    /\ pedido[c].op = "SOLC_BYTES" /\ LaPaginaDe(c) \in corridas
    /\ ~Desborda(pedido[c].bytes, pedido[c].bytes[2])
    /\ \E f \in [EnMarco -> Datos] : Espacio!Responder(c, Leidos(f, pedido[c].bytes))
    /\ UNCHANGED <<espacio, corridas>>
PasoDelEspacio ==
    \/ corridas' \subseteq corridas /\ UNCHANGED <<espacio, iniciado, pedido, respuesta>>
    \/ Espacio!Next /\ corridas' \subseteq corridas
    \/ \E c \in Conexiones : EscribirCorrida(c) \/ LeerCorrida(c)
ImplementaEspacio ==
    /\ Espacio!Init /\ corridas = {}
    /\ [][PasoDelEspacio]_<<espacio, iniciado, pedido, respuesta, corridas>>

(* Every request is answered, also the ones for pages that do not exist:   *)
(* every path of every handler releases mutexCache and sends a reply.      *)
SeResponde == \A c \in Conexiones : pedido[c] # Espacio!Ninguno ~> pedido[c] = Espacio!Ninguno
=============================================================================
