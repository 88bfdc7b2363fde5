------------------------------- MODULE CapaFS -------------------------------
(***************************************************************************)
(* The Kernel's file layer (CapaFS.c): the open files of every process,    *)
(* the table of the files that are open in the system with their counts,   *)
(* and the requests to the FileSystem process they give rise to.           *)
(*                                                                         *)
(* A handler holds capaFSMutex from its first access to a table to its     *)
(* last one, the dialogue with FileSystem included, so it is one step.     *)
(* tablaArchivosGlobales is a list of pointers; an entry is named by its   *)
(* globalFD, which is never used twice.  A handler that reads a destroyed  *)
(* entry or frees a pointer nobody set has no defined behaviour, and one   *)
(* that follows a NULL pointer ends the Kernel; nothing is modelled after  *)
(* any of them.                                                            *)
(***************************************************************************)
EXTENDS Integers, Sequences, FiniteSets, SequencesExt, FiniteSetsExt

CONSTANTS
    Pids,            \* programs
    Archivos,        \* paths
    EnDisco,         \* files FileSystem has from the beginning
    MaxGlobalFD,     \* bound: entries created in tablaArchivosGlobales
    MaxTabla,        \* bound: pointers in tablaArchivosGlobales
    MaxAbiertos,     \* bound: files a process has open at a time
    Permisos,        \* bound: the flags files are opened with
    Posiciones       \* cursor positions programs ask for

FD_START == 3
Banderas == {"r", "w", "rw"}
GlobalFD == 0 .. MaxGlobalFD - 1
FDs == FD_START .. FD_START + MaxAbiertos - 1

ASSUME CapaFSAssumption ==
    /\ EnDisco \subseteq Archivos /\ Archivos # {}
    /\ Permisos \subseteq Banderas
    /\ {MaxGlobalFD, MaxTabla, MaxAbiertos} \subseteq Nat
    /\ 0 \in Posiciones

VARIABLES
    tablaArchivosPorProceso, \* the list of open files of each process
    conLista,                \* processes with a list (dictionary_has_key)
    tablaArchivosGlobales,   \* the list of pointers to the entries
    vivas,                   \* entries that were not destroyed
    file, open,              \* the members of an entry
    ultimoGlobalFD,
    archivosFS,              \* files of the FileSystem process
    estado,                  \* "vivo", "error" (being finished) or "fin"
    capaFSMutexTomado,       \* showTablaProceso left it taken
    borradas,                \* history: entries that borrarArchivo removed
    compartidas,             \* history: entries that were opened a second time
    desordenados,            \* history: processes that closed a file before a later one
    kernel,                  \* "corre", "NULL", "indefinido" or "basura"
    causa                    \* history: the call that ended in "basura"

vars == <<tablaArchivosPorProceso, conLista, tablaArchivosGlobales, vivas, file, open,
          ultimoGlobalFD, archivosFS, estado, capaFSMutexTomado, borradas, compartidas,
          desordenados, kernel, causa>>
globales == <<tablaArchivosGlobales, vivas, file, open, ultimoGlobalFD, borradas, compartidas>>

-----------------------------------------------------------------------------
(* Lists.  list_find and list_remove_by_condition look at the elements up  *)
(* to the first that matches, destroyed ones too.                          *)

Primera(I) == IF I = {} THEN 0 ELSE Min(I)

(* The entry with that descriptor, 0 for NULL: matchFileProceso. *)
matchFileProceso(p, fd) ==
    LET lista == tablaArchivosPorProceso[p] IN Primera({i \in DOMAIN lista : lista[i].fd = fd})

(* matchFile, matchFileGlobal: the position of the first entry of S, 0 for *)
(* NULL, or -1 when a destroyed entry is read on the way.                  *)
Hallar(tabla, V, S) ==
    LET i == Primera({j \in DOMAIN tabla : tabla[j] \notin V \/ tabla[j] \in S}) IN
    IF i > 0 /\ tabla[i] \notin V THEN -1 ELSE i
HallarArchivo(f) == Hallar(tablaArchivosGlobales, vivas, {g \in GlobalFD : file[g] = f})
HallarGlobal(entrada) == Hallar(tablaArchivosGlobales, vivas, {entrada.globalFD})

Servible(p) == kernel = "corre" /\ ~capaFSMutexTomado /\ estado[p] = "vivo"
(* A program whose system call failed is finished. *)
Falla(p) == estado' = [estado EXCEPT ![p] = "error"]
Cae(como) ==
    /\ kernel' = como
    /\ UNCHANGED <<tablaArchivosPorProceso, globales, archivosFS, estado>>

(* leerArchivo, escribirArchivo and borrarArchivo answer and then free     *)
(* pointers that only the branch which asks FileSystem gives a value       *)
(* (l. 347, 485, 575).  In the others they hold anything: free ignores it  *)
(* (NULL), or takes it for a block it never was.                           *)
FallaYLibera(p) ==
    /\ Falla(p)
    /\ kernel' \in {"corre", "basura"}
    /\ UNCHANGED <<tablaArchivosPorProceso, globales, archivosFS>>
Anotar(p, fd, permiso) ==
    causa' = IF kernel' = "basura" THEN {[pid |-> p, fd |-> fd, permiso |-> permiso]} ELSE causa

-----------------------------------------------------------------------------
(* abrirArchivo (CapaFS.c:22-212). *)

abrirCompartido_sin_contar(g) == UNCHANGED open
abrirCompartido(g) == open' = [open EXCEPT ![g] = @ + 1]

(* The process gets the descriptor that follows the number of files it has *)
(* open (l. 35, 83).  archivo is history: the path it asked for.           *)
siguienteFD_base_uno(lista) == Len(lista) + 1 + FD_START
siguienteFD_atrasado(lista) == FD_START + IF lista = <<>> THEN 0 ELSE Len(lista) - 1
siguienteFD(lista) == Len(lista) + FD_START

AgregarAlProceso(p, g, f, banderas) ==
    tablaArchivosPorProceso' = [tablaArchivosPorProceso EXCEPT ![p] =
        Append(@, [fd |-> siguienteFD(@), flags |-> banderas, globalFD |-> g, cursor |-> 0,
                   archivo |-> f])]

globalFD_por_tamanio == Cardinality(vivas)
globalFD == ultimoGlobalFD

AgregarGlobal(f) ==
    /\ ultimoGlobalFD < MaxGlobalFD
    /\ ultimoGlobalFD' = ultimoGlobalFD + 1
    /\ vivas' = vivas \cup {globalFD}
    /\ file' = [file EXCEPT ![globalFD] = f]
    /\ open' = [open EXCEPT ![globalFD] = 1]
    /\ tablaArchivosGlobales' = Append(tablaArchivosGlobales, globalFD)
    /\ UNCHANGED <<borradas, compartidas>>

(* VALIDAR_ARCH was answered that the file exists; an entry that is found  *)
(* enters the list a second time (l. 93).                                  *)
abrirExistente(p, f, banderas) ==
    LET i == HallarArchivo(f) IN
    \/ i = -1 /\ Cae("indefinido")
    \/ /\ i > 0
       /\ abrirCompartido(tablaArchivosGlobales[i])
       /\ tablaArchivosGlobales' = Append(tablaArchivosGlobales, tablaArchivosGlobales[i])
       /\ AgregarAlProceso(p, tablaArchivosGlobales[i], f, banderas)
       /\ compartidas' = compartidas \cup {tablaArchivosGlobales[i]}
       /\ UNCHANGED <<vivas, file, ultimoGlobalFD, borradas, archivosFS, estado, kernel>>
    \/ /\ i = 0
       /\ AgregarGlobal(f)
       /\ AgregarAlProceso(p, globalFD, f, banderas)
       /\ UNCHANGED <<archivosFS, estado, kernel>>

(* CREAR_ARCH is answered CREAR_OK, CREAR_ERROR or NO_HAY_BLOQUES. *)
abrirNuevo(p, f, banderas) ==
    \/ /\ archivosFS' = archivosFS \cup {f}
       /\ AgregarGlobal(f)
       /\ AgregarAlProceso(p, globalFD, f, banderas)
       /\ UNCHANGED <<estado, kernel>>
    \/ Falla(p) /\ UNCHANGED <<tablaArchivosPorProceso, globales, archivosFS, kernel>>

abrirArchivo(p, f, banderas, creacion) ==
    /\ Servible(p)
    /\ Len(tablaArchivosPorProceso[p]) < MaxAbiertos /\ Len(tablaArchivosGlobales) < MaxTabla
    /\ conLista' = conLista \cup {p}
    /\ \/ f \in archivosFS /\ abrirExistente(p, f, banderas)
       \/ f \notin archivosFS /\ creacion /\ abrirNuevo(p, f, banderas)
       \/ /\ f \notin archivosFS /\ ~creacion
          /\ Falla(p)
          /\ UNCHANGED <<tablaArchivosPorProceso, globales, archivosFS, kernel>>
    /\ UNCHANGED <<capaFSMutexTomado, desordenados, causa>>

-----------------------------------------------------------------------------
(* cerrarArchivo and cleanFilesOpen give an entry back; the pointer that   *)
(* is removed from the list is the first one.                              *)

Soltar_sin_descontar(st, i) ==
    LET g == st.tabla[i] IN
    IF st.open[g] > 1 THEN st
    ELSE [st EXCEPT !.open[g] = @ - 1, !.vivas = @ \ {g}, !.tabla = RemoveAt(@, i)]
Soltar(st, i) ==
    LET g == st.tabla[i] IN
    IF st.open[g] > 1 THEN [st EXCEPT !.open[g] = @ - 1]
    ELSE [st EXCEPT !.open[g] = @ - 1, !.vivas = @ \ {g}, !.tabla = RemoveAt(@, i)]

Global == [tabla |-> tablaArchivosGlobales, vivas |-> vivas, open |-> open, kernel |-> kernel]
Dejar(st) ==
    /\ tablaArchivosGlobales' = st.tabla
    /\ vivas' = st.vivas
    /\ open' = st.open
    /\ UNCHANGED <<file, ultimoGlobalFD, borradas, compartidas, kernel>>

quitarDelProceso(p, e) ==
    tablaArchivosPorProceso' = [tablaArchivosPorProceso EXCEPT ![p] = RemoveAt(@, e)]

cerrarArchivo(p, fd) ==
    LET e == matchFileProceso(p, fd)
        i == IF e = 0 THEN 0
             ELSE HallarGlobal(tablaArchivosPorProceso[p][e]) IN
    /\ Servible(p)
    /\ \/ /\ e = 0
          /\ Falla(p)
          /\ UNCHANGED <<tablaArchivosPorProceso, globales, kernel>>
       \/ /\ e > 0 /\ i = -1
          /\ Cae("indefinido")
       \/ /\ e > 0 /\ i >= 0
          /\ Dejar(IF i = 0 THEN Global ELSE Soltar(Global, i))
          /\ quitarDelProceso(p, e)
          /\ UNCHANGED estado
    /\ desordenados' = desordenados \cup
          {q \in {p} : e \in 1 .. Len(tablaArchivosPorProceso[p]) - 1}
    /\ UNCHANGED <<conLista, archivosFS, capaFSMutexTomado, causa>>

(* The entries of the process are given back one after the other; one that *)
(* was deleted is not found and NULL is followed (l. 616).                 *)
fileDestroy(st, entrada) ==
    LET i == Hallar(st.tabla, st.vivas, {entrada.globalFD}) IN
    IF st.kernel # "corre" THEN st
    ELSE IF i = -1 THEN [st EXCEPT !.kernel = "indefinido"]
    ELSE IF i = 0 THEN [st EXCEPT !.kernel = "NULL"]
    ELSE Soltar(st, i)

Soltadas(p) ==    \* the tables after the n-th entry
    LET lista == tablaArchivosPorProceso[p]
        tras[n \in 0 .. Len(lista)] ==
            IF n = 0 THEN Global ELSE fileDestroy(tras[n - 1], lista[n]) IN
    tras

(* finishProcess, in the thread that finishes the program. *)
cleanFilesOpen(p) ==
    LET st == Soltadas(p)[Len(tablaArchivosPorProceso[p])] IN
    /\ kernel = "corre" /\ ~capaFSMutexTomado /\ estado[p] \in {"vivo", "error"}
    /\ \/ st.kernel # "corre" /\ Cae(st.kernel) /\ UNCHANGED conLista
       \/ /\ st.kernel = "corre"
          /\ Dejar(st)
          /\ tablaArchivosPorProceso' = [tablaArchivosPorProceso EXCEPT ![p] = <<>>]
          /\ conLista' = conLista \ {p}
          /\ estado' = [estado EXCEPT ![p] = "fin"]
    /\ UNCHANGED <<archivosFS, capaFSMutexTomado, desordenados, causa>>

-----------------------------------------------------------------------------
(* borrarArchivo (CapaFS.c:271-350).  The process keeps its own entry; no  *)
(* flag is asked for.                                                      *)

abiertoUnaVez_no_mira(g) == TRUE
abiertoUnaVez(g) == open[g] = 1

quitarGlobal(i) ==
    /\ tablaArchivosGlobales' = RemoveAt(tablaArchivosGlobales, i)
    /\ vivas' = vivas \ {tablaArchivosGlobales[i]}

borrarArchivo(p, fd) ==
    LET e == matchFileProceso(p, fd)
        i == IF e = 0 THEN 0
             ELSE HallarGlobal(tablaArchivosPorProceso[p][e])
        g == tablaArchivosGlobales[i] IN
    /\ Servible(p)
    /\ \/ e > 0 /\ i = -1 /\ Cae("indefinido")
       \/ e > 0 /\ i = 0 /\ Cae("NULL")
       \/ /\ e > 0 /\ i > 0 /\ abiertoUnaVez(g)     \* BORRAR_ARCH answered BORRAR_OK
          /\ archivosFS' = archivosFS \ {file[g]}
          /\ quitarGlobal(i)
          /\ borradas' = borradas \cup {g}
          /\ UNCHANGED <<tablaArchivosPorProceso, file, open, ultimoGlobalFD, compartidas, estado,
                         kernel>>
       \/ /\ e = 0 \/ (i > 0 /\ ~abiertoUnaVez(g)) \* BORRADO_ERROR, BORRADO_BLOCKED
          /\ FallaYLibera(p)
    /\ Anotar(p, fd, {})
    /\ UNCHANGED <<conLista, capaFSMutexTomado, desordenados>>

-----------------------------------------------------------------------------
(* moverCursor, leerArchivo, escribirArchivo (CapaFS.c:352-580).           *)

moverCursor(p, fd, posicion) ==
    LET e == matchFileProceso(p, fd) IN
    /\ Servible(p)
    /\ \/ /\ e = 0
          /\ Falla(p)
          /\ UNCHANGED tablaArchivosPorProceso
       \/ /\ e > 0
          /\ tablaArchivosPorProceso' = [tablaArchivosPorProceso EXCEPT ![p][e].cursor = posicion]
          /\ UNCHANGED estado
    /\ UNCHANGED <<conLista, globales, archivosFS, capaFSMutexTomado, desordenados, kernel, causa>>

(* Either direction: LEER_ARCH or ESCRIBIR_ARCH goes to FileSystem when    *)
(* the flags allow it, and may be answered with an error (no blocks left). *)
usarArchivo(p, fd, permiso) ==
    LET e == matchFileProceso(p, fd)
        entrada == tablaArchivosPorProceso[p][e]
        i == IF e = 0 THEN 0 ELSE HallarGlobal(entrada) IN
    /\ Servible(p)
    /\ \/ e > 0 /\ i = -1 /\ Cae("indefinido")
       \/ e > 0 /\ i = 0 /\ Cae("NULL")
       \/ /\ e > 0 /\ i > 0 /\ entrada.flags \in permiso
          /\ estado' = estado \/ Falla(p)
          /\ UNCHANGED <<tablaArchivosPorProceso, globales, archivosFS, kernel>>
       \/ /\ e = 0 \/ (i > 0 /\ entrada.flags \notin permiso)
          /\ FallaYLibera(p)
    /\ Anotar(p, fd, permiso)
    /\ UNCHANGED <<conLista, capaFSMutexTomado, desordenados>>
leerArchivo(p, fd) == usarArchivo(p, fd, {"r", "rw"})
escribirArchivo(p, fd) == usarArchivo(p, fd, {"w", "rw"})

(* The tablaProceso command returns with the mutex taken when the process  *)
(* has no list (Kernel.c:358-364).                                         *)
showTablaProceso(p) ==
    /\ kernel = "corre" /\ ~capaFSMutexTomado
    /\ capaFSMutexTomado' = (p \notin conLista)
    /\ UNCHANGED <<tablaArchivosPorProceso, conLista, globales, archivosFS, desordenados, estado,
                   kernel, causa>>

-----------------------------------------------------------------------------
Init ==
    /\ tablaArchivosPorProceso = [p \in Pids |-> <<>>] /\ conLista = {}
    /\ tablaArchivosGlobales = <<>> /\ vivas = {}
    /\ file \in [GlobalFD -> {CHOOSE f \in Archivos : TRUE}]
    /\ open = [g \in GlobalFD |-> 0] /\ ultimoGlobalFD = 0
    /\ archivosFS = EnDisco
    /\ estado = [p \in Pids |-> "vivo"]
    /\ capaFSMutexTomado = FALSE
    /\ borradas = {} /\ compartidas = {} /\ desordenados = {}
    /\ kernel = "corre" /\ causa = {}

Syscall(p) ==
    \/ \E f \in Archivos, b \in Permisos, creacion \in BOOLEAN : abrirArchivo(p, f, b, creacion)
    \/ \E fd \in FDs :
          \/ cerrarArchivo(p, fd) \/ borrarArchivo(p, fd)
          \/ leerArchivo(p, fd) \/ escribirArchivo(p, fd)
          \/ \E n \in Posiciones : moverCursor(p, fd, n)

Next == \E p \in Pids : Syscall(p) \/ cleanFilesOpen(p) \/ showTablaProceso(p)

Spec == Init /\ [][Next]_vars

-----------------------------------------------------------------------------
(* Properties. *)

Entradas ==
    {x \in Pids \X (1 .. MaxAbiertos) : x[2] \in DOMAIN tablaArchivosPorProceso[x[1]]}
Entrada(x) == tablaArchivosPorProceso[x[1]][x[2]]
Referencias(g) == {x \in Entradas : Entrada(x).globalFD = g}

(* The types of the variables. *)
TypeOK ==
    /\ \A x \in Entradas :
          Entrada(x) \in [fd : FDs, flags : Banderas, globalFD : GlobalFD, cursor : Posiciones,
                         archivo : Archivos]
    /\ conLista \subseteq Pids
    /\ tablaArchivosGlobales \in Seq(GlobalFD)
    /\ vivas \subseteq 0 .. ultimoGlobalFD - 1
    /\ file \in [GlobalFD -> Archivos]
    /\ open \in [GlobalFD -> Nat]
    /\ archivosFS \subseteq Archivos
    /\ estado \in [Pids -> {"vivo", "error", "fin"}]
    /\ capaFSMutexTomado \in BOOLEAN /\ borradas \cup compartidas \subseteq GlobalFD
    /\ desordenados \subseteq Pids
    /\ kernel \in {"corre", "NULL", "indefinido", "basura"}
    /\ causa \subseteq [pid : Pids, fd : FDs, permiso : SUBSET Banderas]

(* open counts the descriptors of all processes that refer to the entry,   *)
(* whether they were closed one by one or by the end of their process, and *)
(* an entry with none does not stay (CapaFS.c:81, 246, 616); a file has    *)
(* one entry, and FileSystem still has the file (l. 78-112, 319).          *)
TablaConsistente ==
    kernel = "corre" => \A g \in vivas :
        /\ open[g] > 0 /\ open[g] = Cardinality(Referencias(g))
        /\ file[g] \in archivosFS
        /\ \A h \in vivas : file[g] = file[h] => g = h

(* A descriptor refers to the file it was opened for or, once that file    *)
(* was deleted, to nothing: never to a file that was opened later.         *)
DescriptorFiel ==
    \A x \in Entradas : Entrada(x).globalFD \in vivas =>
        file[Entrada(x).globalFD] = Entrada(x).archivo

(* The descriptors of a process are different as long as it closes its     *)
(* files from the last to the first: the number is taken from how many are *)
(* open (CapaFS.c:35, 83), and after any other close two files may have    *)
(* the same one.                                                           *)
DescriptoresDistintos ==
    \A x, y \in Entradas :
        x[1] = y[1] /\ x[1] \notin desordenados /\ Entrada(x).fd = Entrada(y).fd => x = y

(* A file is deleted only when one descriptor in the whole system refers   *)
(* to it ("se encuentra abierto por mas de un proceso", CapaFS.c:329).     *)
BorradoExclusivo ==
    [][\A f \in archivosFS \ archivosFS' :
          \E g \in vivas : file[g] = f /\ Cardinality(Referencias(g)) = 1]_vars

(* The file it has open under that descriptor refuses the call: it was not *)
(* opened to read, or to write, or others have it open and it is not       *)
(* deleted.                                                                *)
Rechaza(x, c) ==
    IF c.permiso = {} THEN Cardinality(Referencias(Entrada(x).globalFD)) > 1
                      ELSE Entrada(x).flags \notin c.permiso

(* The Kernel follows NULL only when a process still has the descriptor of *)
(* a file it deleted (CapaFS.c:319 leaves it), and reads an entry that was *)
(* destroyed only if one was opened a second time, which puts its pointer  *)
(* into the list again (l. 93).  It frees a pointer without a value only   *)
(* in a call a program had no right to: of a descriptor none of its files  *)
(* has, or whose file it did not open to read or write, or of a file to be *)
(* deleted that others have open; and, if the program closed files out of  *)
(* turn, of a descriptor two of its files have.  So programs that open     *)
(* files of their own, use them as they opened them, close them from the   *)
(* last to the first and end, never bring it down (l. 301, 426, 612).      *)
CaidaJustificada ==
    /\ kernel = "NULL" => \E x \in Entradas : Entrada(x).globalFD \in borradas
    /\ kernel = "indefinido" => compartidas # {}
    /\ kernel = "basura" =>
          \E c \in causa : \/ c.pid \in desordenados
                          \/ \A x \in Entradas : x[1] = c.pid /\ Entrada(x).fd = c.fd => Rechaza(x, c)
=============================================================================
