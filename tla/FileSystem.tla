----------------------------- MODULE FileSystem -----------------------------
(***************************************************************************)
(* The FileSystem process (FileSystem.c): the map of blocks, the metadata  *)
(* of the files and the files that hold the blocks.  All of it is on disk, *)
(* the map too (it is mapped and flushed), so nothing is lost when the     *)
(* process falls but what a write had not saved yet.  (A fall between the  *)
(* two writes to disk of crearArchivo or of borrarArchivo is left out.)    *)
(*                                                                         *)
(* One thread serves one request after the other, so a handler is a step.  *)
(* A process that falls is started again over the same disk.               *)
(***************************************************************************)
EXTENDS Integers, Sequences, FiniteSets, FiniteSetsExt

CONSTANTS
    Archivos,          \* paths
    Datos,             \* bytes written
    Cero, Basura,      \* a byte never written, an uninitialised one
    tamanioBloque,     \* TAMANIO_BLOQUES
    cantidadBloques,   \* CANTIDAD_BLOQUES
    Offsets,           \* bound: where a request starts
    Tamanios           \* bound: bytes of a request

ASSUME FileSystemAssumption ==
    /\ {tamanioBloque, cantidadBloques} \subseteq Nat \ {0}
    /\ Offsets \subseteq Nat /\ Tamanios \subseteq Nat
    /\ Cero \notin Datos /\ Basura \notin Datos \cup {Cero}

VARIABLES
    bitmap,      \* blocks marked as taken
    archivos,    \* metadata: path -> [tamanio, bloques]
    contenido,   \* <block>.bin
    perdidos,    \* history: blocks taken by writes that were not saved
    respuesta    \* last request that was served, and its answer

vars == <<bitmap, archivos, contenido, perdidos, respuesta>>

Bloques == 0 .. cantidadBloques - 1
Ninguno == -1    \* the answer of obtenerBloqueVacio; its name is a block too

-----------------------------------------------------------------------------
(* The map. *)

(* The i-th block found, each one being marked before the next is looked   *)
(* for: obtenerBloqueVacio answers the first that is free, or -1.          *)
obtenerBloqueVacio_sin_marcar(mapa, i) ==
    IF Bloques \subseteq mapa THEN Ninguno ELSE Min(Bloques \ mapa)
obtenerBloqueVacio(mapa, i) ==
    LET libres == Bloques \ mapa IN
    IF i > Cardinality(libres) THEN Ninguno
    ELSE CHOOSE b \in libres : Cardinality({x \in libres : x < b}) = i - 1

(* Setting the bit -1 shifts the mask out of the byte: no bit changes.     *)
marcarBloqueOcupado_todos(mapa, bs) == mapa \cup bs
marcarBloqueOcupado(mapa, bs) == mapa \cup (bs \ {Ninguno})

(* The loop adds one before it looks at a bit: it never looks at block 0,  *)
(* and looks at one bit after the last, which is never set.                *)
hayXBloquesLibres_sin_el_ultimo(mapa, n) == Cardinality((1 .. cantidadBloques - 1) \ mapa) >= n
hayXBloquesLibres(mapa, n) == Cardinality((1 .. cantidadBloques) \ mapa) >= n

divAndRoundUp(x) == IF x = 0 THEN 1 ELSE ((x - 1) \div tamanioBloque) + 1

-----------------------------------------------------------------------------
(* A request of n bytes from an offset, block by block: the first block is *)
(* read or written from the middle, the next ones from their start.        *)

startBlock(offset) == offset \div tamanioBloque
offsetBloque_siempre(offset, k) == offset % tamanioBloque
offsetBloque(offset, k) == IF k = startBlock(offset) THEN offset % tamanioBloque ELSE 0

Recorridos(offset, k) ==    \* bytes done before block k
    IF k = startBlock(offset) THEN 0 ELSE k * tamanioBloque - offset
Largo(offset, n, k) ==
    Min({tamanioBloque - offsetBloque(offset, k), n - Recorridos(offset, k)})

(* The blocks the loop goes through before its break. *)
Tocados(offset, n, cant) ==
    {k \in startBlock(offset) .. cant - 1 : k = startBlock(offset) \/ Recorridos(offset, k) < n}

(* leerBloque: what the file of the block does not have is uninitialised.  *)
leerBloque(b, j) == IF j <= Len(contenido[b]) THEN contenido[b][j] ELSE Basura

(* escribirBloque opens the file with "wb", which empties it first.        *)
escribirBloque(largo, desde, d) ==
    IF largo = 0 THEN << >> ELSE [i \in 1 .. desde + largo |-> IF i <= desde THEN Cero ELSE d]

-----------------------------------------------------------------------------
Respuesta(codigo, f, offset, datos) ==
    [codigo |-> codigo, archivo |-> f, offset |-> offset, datos |-> datos]
Responder(codigo, f) == respuesta' = Respuesta(codigo, f, 0, << >>)

crearArchivo(f) ==
    LET b == obtenerBloqueVacio(bitmap, 1) IN
    /\ \/ b = Ninguno /\ Responder("NO_HAY_BLOQUES", f) /\ UNCHANGED <<bitmap, archivos, contenido>>
       \/ /\ b # Ninguno /\ f \in DOMAIN archivos
          /\ Responder("CREAR_ERROR", f) /\ UNCHANGED <<bitmap, archivos, contenido>>
       \/ /\ b # Ninguno /\ f \notin DOMAIN archivos
          /\ archivos' = [x \in DOMAIN archivos \cup {f} |->
                             IF x = f THEN [tamanio |-> 0, bloques |-> <<b>>] ELSE archivos[x]]
          /\ bitmap' = marcarBloqueOcupado(bitmap, {b})
          /\ contenido' = [contenido EXCEPT ![b] = << >>]
          /\ Responder("CREAR_OK", f)
    /\ UNCHANGED perdidos

De(f) == {archivos[f].bloques[i] : i \in DOMAIN archivos[f].bloques}

desocupar(f) == bitmap \ De(f)
borrarArchivo(f) ==
    /\ \/ /\ f \in DOMAIN archivos
          /\ bitmap' = desocupar(f)
          /\ archivos' = [x \in DOMAIN archivos \ {f} |-> archivos[x]]
          /\ Responder("BORRAR_OK", f)
       \/ /\ f \notin DOMAIN archivos
          /\ Responder("BORRAR_ERROR", f) /\ UNCHANGED <<bitmap, archivos>>
    /\ UNCHANGED <<contenido, perdidos>>

(* What the loop copies to the buffer: byte i comes from the block the     *)
(* loop is at when it has copied i - 1 bytes.                              *)
Leido(f, offset, n) ==
    LET bloques == archivos[f].bloques
        en(i) == Max({k \in Tocados(offset, n, Len(bloques)) : Recorridos(offset, k) < i}) IN
    [i \in 1 .. n |-> leerBloque(bloques[en(i) + 1],
                                 offsetBloque(offset, en(i)) + i - Recorridos(offset, en(i)))]

leerDatosArchivo(f, offset, n) ==
    /\ \/ /\ f \in DOMAIN archivos
          /\ offset < archivos[f].tamanio /\ offset + n <= archivos[f].tamanio
          /\ respuesta' = Respuesta("LECTURA_OK", f, offset, Leido(f, offset, n))
       \/ /\ f \in DOMAIN archivos =>
                offset >= archivos[f].tamanio \/ offset + n > archivos[f].tamanio
          /\ Responder("LECTURA_ERROR", f)
    /\ UNCHANGED <<bitmap, archivos, contenido, perdidos>>

-----------------------------------------------------------------------------
(* escribirDatosArchivo.                                                   *)

totalBloques(f, offset, n) ==
    Max({divAndRoundUp(offset + n), Len(archivos[f].bloques)})
cantNuevosBloques(f, offset, n) == totalBloques(f, offset, n) - Len(archivos[f].bloques)

(* The array of blocks once the loop has come to block k (not included).   *)
(* Blocks are added from the first one written: when the write starts      *)
(* beyond the end of the file, those in between are left uninitialised.    *)
ConHueco(f, offset) == startBlock(offset) > Len(archivos[f].bloques)
bloquesHasta(f, offset, k) ==
    LET viejos == archivos[f].bloques
        primero == Max({Len(viejos), startBlock(offset)}) IN
    [j \in 1 .. Max({k, Len(viejos)}) |->
        IF j <= Len(viejos) THEN viejos[j]
        ELSE IF j <= primero THEN Ninguno
        ELSE obtenerBloqueVacio(bitmap, j - primero)]
Nuevos(f, offset, k) ==
    {bloquesHasta(f, offset, k)[j] :
        j \in Max({Len(archivos[f].bloques), startBlock(offset)}) + 1 .. k}

(* The bytes on disk once the loop has come to block k. *)
escritoHasta(f, offset, n, d, k) ==
    LET bloques == bloquesHasta(f, offset, k)
        hechos == {j \in Tocados(offset, n, totalBloques(f, offset, n)) : j < k}
        de(b) == {j \in hechos : bloques[j + 1] = b} IN
    [b \in DOMAIN contenido |->
        IF de(b) = {} THEN contenido[b]
        ELSE escribirBloque(Largo(offset, n, Max(de(b))), offsetBloque(offset, Max(de(b))), d)]

(* The process falls in the middle of a write, or at its end when there is *)
(* an address in the array that was never written: the metadata is not     *)
(* saved, and the blocks that were taken stay so.                          *)
caer(f, offset, n, d, k) ==
    /\ contenido' = escritoHasta(f, offset, n, d, k)
    /\ bitmap' = marcarBloqueOcupado(bitmap, Nuevos(f, offset, k))
    /\ perdidos' = perdidos \cup (Nuevos(f, offset, k) \ {Ninguno})
    /\ respuesta' = Respuesta("cae", f, offset, [i \in 1 .. n |-> d])
    /\ UNCHANGED archivos

tamanioGuardar(f, offset, n) == Max({offset + n, archivos[f].tamanio})
escribirDatosArchivo(f, offset, n, d) ==
    \/ /\ f \notin DOMAIN archivos
       /\ Responder("ESCRIBIR_ERROR", f)
       /\ UNCHANGED <<bitmap, archivos, contenido, perdidos>>
    \/ /\ f \in DOMAIN archivos
       /\ ~hayXBloquesLibres(bitmap, cantNuevosBloques(f, offset, n))
       /\ respuesta' = Respuesta("NO_HAY_ESPACIO", f, offset, [i \in 1 .. n |-> d])
       /\ UNCHANGED <<bitmap, archivos, contenido, perdidos>>
    \/ /\ f \in DOMAIN archivos
       /\ hayXBloquesLibres(bitmap, cantNuevosBloques(f, offset, n))
       /\ LET total == totalBloques(f, offset, n) IN
          \/ \E k \in startBlock(offset) .. total : caer(f, offset, n, d, k)
          \/ /\ ~ConHueco(f, offset)
             /\ contenido' = escritoHasta(f, offset, n, d, total)
             /\ bitmap' = marcarBloqueOcupado(bitmap, Nuevos(f, offset, total))
             /\ archivos' = [archivos EXCEPT ![f] = [tamanio |-> tamanioGuardar(f, offset, n),
                                                     bloques |-> bloquesHasta(f, offset, total)]]
             /\ respuesta' = Respuesta("ESCRIBIR_OK", f, offset, [i \in 1 .. n |-> d])
             /\ UNCHANGED perdidos

-----------------------------------------------------------------------------
Init ==
    /\ bitmap = {}
    /\ archivos = << >>
    /\ contenido = [b \in Bloques \cup {Ninguno} |-> << >>]
    /\ perdidos = {}
    /\ respuesta = Respuesta("nada", "", 0, << >>)

Next ==
    \E f \in Archivos :
        \/ crearArchivo(f)
        \/ borrarArchivo(f)
        \/ \E offset \in Offsets, n \in Tamanios :
              \/ leerDatosArchivo(f, offset, n)
              \/ \E d \in Datos : escribirDatosArchivo(f, offset, n, d)

Spec == Init /\ [][Next]_vars

-----------------------------------------------------------------------------
(* The map, the metadata and the blocks have their types.                  *)
TypeOK ==
    /\ bitmap \subseteq Bloques /\ perdidos \subseteq Bloques
    /\ DOMAIN archivos \subseteq Archivos
    /\ \A f \in DOMAIN archivos :
          archivos[f] \in [tamanio : Nat,
                           bloques : Seq(Bloques \cup {Ninguno})]
    /\ \A b \in Bloques \cup {Ninguno} :
          contenido[b] \in Seq(Datos \cup {Cero}) /\ Len(contenido[b]) <= tamanioBloque

(* A block of the disk is at one place of one file at most, the map marks  *)
(* the blocks of the files and, besides them, only those that a write took *)
(* and could not save (escribirDatosArchivo marks first and saves last).   *)
(* A file has as many blocks as its size takes, one if it is empty, after  *)
(* any sequence of writes: what leerDatosArchivo lets through is there.    *)
BloquesPropios ==
    /\ \A f, g \in DOMAIN archivos :
          \A i \in DOMAIN archivos[f].bloques, j \in DOMAIN archivos[g].bloques :
              /\ archivos[f].bloques[i] = archivos[g].bloques[j]
              /\ archivos[f].bloques[i] # Ninguno
              => f = g /\ i = j
    /\ LET suyos == (UNION {De(f) : f \in DOMAIN archivos}) \ {Ninguno} IN
       bitmap = suyos \cup perdidos /\ suyos \cap perdidos = {}
    /\ \A f \in DOMAIN archivos :
          LET cant == Len(archivos[f].bloques) IN
          /\ archivos[f].tamanio <= cant * tamanioBloque
          /\ cant > 1 => archivos[f].tamanio > (cant - 1) * tamanioBloque

(* Counting the blocks from 1 and up to one that does not exist gives one  *)
(* too many at most: a write is refused only if the free blocks do not     *)
(* suffice, and one that is let through is short of one block at most, and *)
(* only when it takes the last one that is free (hayXBloquesLibres).       *)
Libres(mapa) == Cardinality(Bloques \ mapa)
EspacioJusto ==
    [][LET r == respuesta'
           faltan == cantNuevosBloques(r.archivo, r.offset, Len(r.datos)) - Libres(bitmap) IN
       /\ r.codigo = "NO_HAY_ESPACIO" => faltan > 0
       /\ r.codigo = "ESCRIBIR_OK" /\ faltan > 0 => faltan = 1 /\ Libres(bitmap') = 0]_vars

(* Byte i of a file, counting from 1. *)
BloqueDe(f, i) == archivos[f].bloques[((i - 1) \div tamanioBloque) + 1]
Byte(f, i) == leerBloque(BloqueDe(f, i), ((i - 1) % tamanioBloque) + 1)

(* What a read answers are the bytes of the file, one by one, however many *)
(* blocks it goes through and wherever it starts (leerDatosArchivo).       *)
LecturaFiel ==
    [][LET r == respuesta' IN
       r.codigo = "LECTURA_OK" =>
          \A i \in DOMAIN r.datos : r.datos[i] = Byte(r.archivo, r.offset + i)]_vars

(* A write that is answered ESCRIBIR_OK leaves in the file the bytes it    *)
(* was given, and changes no byte of another file nor one of the file in   *)
(* a block it does not go through; the rest of the blocks it does go       *)
(* through may be lost, since opening them with "wb" empties them.  Bytes  *)
(* in the block "-1", that files share on a full disk, are excepted.       *)
Escritos == {[i \in 1 .. n |-> d] : n \in Tamanios, d \in Datos}
Conservado(f, i) == BloqueDe(f, i) # Ninguno => Byte(f, i)' = Byte(f, i)
EscrituraFiel ==
    [][\A f \in DOMAIN archivos, offset \in Offsets, datos \in Escritos :
          respuesta' = Respuesta("ESCRIBIR_OK", f, offset, datos) =>
          /\ \A i \in DOMAIN datos :
                BloqueDe(f, offset + i)' # Ninguno => Byte(f, offset + i)' = datos[i]
          /\ \A i \in 1 .. archivos[f].tamanio :
                startBlock(i - 1) \notin
                    startBlock(offset) .. startBlock(Max({offset, offset + Len(datos) - 1}))
                => Conservado(f, i)
          /\ \A g \in DOMAIN archivos \ {f} :
                \A i \in 1 .. archivos[g].tamanio : Conservado(g, i)]_vars
=============================================================================
