------------------------- MODULE FileSystem_proofs -------------------------
(***************************************************************************)
(* Proofs about the FileSystem process, for any size and number of blocks, *)
(* any set of paths and any requests: no two files share a block and the   *)
(* map marks their blocks, the free blocks are counted right, and reads    *)
(* and writes go to the bytes they are asked for.                          *)
(*                                                                         *)
(* The invariant is DiscoInv: the types, BloquesPropios by parts, and that *)
(* every block has a file.  The three properties of steps follow from it   *)
(* and from where a byte is (Turno, Vuelta) and which blocks a write takes *)
(* (Encontrado, Hasta).                                                    *)
(***************************************************************************)
EXTENDS FileSystem, FiniteSetTheorems, WellFoundedInduction, TLAPS

-----------------------------------------------------------------------------
(* Minima and maxima; divisions. *)

(* A set of naturals that is not empty has a least element. *)
LEMMA MenorDe ==
    ASSUME NEW T, T \subseteq Nat, T # {}
    PROVE  \E x \in T : \A y \in T : x <= y
<1> DEFINE R == {ss \in Nat \X Nat : ss[1] < ss[2]}
<1>1. IsWellFoundedOn(R, Nat)
  BY NatLessThanWellFounded DEF OpToRel
<1> HIDE DEF R
<1>2. \E x \in T : \A y \in T : ~ (<<y, x>> \in R)
  BY <1>1, WFMin
<1>3. ASSUME NEW x \in Nat, NEW y \in Nat, ~ (<<y, x>> \in R) PROVE x <= y
  BY <1>3 DEF R
<1> QED BY <1>2, <1>3

(* One that is bounded has a greatest one, which Max chooses. *)
LEMMA MayorDe ==
    ASSUME NEW T, T \subseteq Nat, T # {}, NEW n \in Nat, \A x \in T : x <= n
    PROVE  Max(T) \in T /\ \A y \in T : Max(T) >= y
<1> DEFINE U == {n - x : x \in T}
<1>1. U \subseteq Nat /\ U # {}
  <2>1. ASSUME NEW x \in T PROVE n - x \in Nat
    <3>1. x \in Nat /\ x <= n
      OBVIOUS
    <3> QED BY <3>1
  <2> QED BY <2>1
<1>2. PICK u \in U : \A y \in U : u <= y
  BY <1>1, MenorDe
<1>3. PICK x \in T : u = n - x
  BY <1>2
<1>4. ASSUME NEW y \in T PROVE x >= y
  <2>1. n - y \in U
    OBVIOUS
  <2>2. u <= n - y
    BY <2>1, <1>2
  <2> QED BY <2>2, <1>3
<1> QED BY <1>4 DEF Max

LEMMA MayorDeDos ==
    ASSUME NEW a \in Int, NEW b \in Int
    PROVE  Max({a, b}) = IF a >= b THEN a ELSE b
<1>1. \E x \in {a, b} : \A y \in {a, b} : x >= y
  OBVIOUS
<1>2. Max({a, b}) \in {a, b} /\ \A y \in {a, b} : Max({a, b}) >= y
  BY <1>1 DEF Max
<1> QED BY <1>2

LEMMA MenorDeDos ==
    ASSUME NEW a \in Int, NEW b \in Int
    PROVE  Min({a, b}) = IF a <= b THEN a ELSE b
<1>1. \E x \in {a, b} : \A y \in {a, b} : x =< y
  OBVIOUS
<1>2. Min({a, b}) \in {a, b} /\ \A y \in {a, b} : Min({a, b}) =< y
  BY <1>1 DEF Min
<1> QED BY <1>2

(* The block a byte is in and its place there. *)
LEMMA Cociente ==
    ASSUME NEW x \in Nat, NEW t \in Nat \ {0}
    PROVE  /\ x \div t \in Nat /\ x % t \in 0 .. t - 1
           /\ (x \div t) * t <= x /\ x < ((x \div t) + 1) * t
           /\ x % t = x - (x \div t) * t
<1>1. x \div t \in Int /\ x % t \in 0 .. t - 1
  OBVIOUS
<1>2. x \div t >= 0
  OBVIOUS
<1>3. (x \div t) * t <= x
  OBVIOUS
<1>4. x < ((x \div t) + 1) * t
  OBVIOUS
<1>5. x % t = x - (x \div t) * t
  OBVIOUS
<1> QED BY <1>1, <1>2, <1>3, <1>4, <1>5

LEMMA CocienteUnico ==
    ASSUME NEW x \in Int, NEW q \in Int, NEW t \in Nat \ {0}, q * t <= x, x < (q + 1) * t
    PROVE  q = x \div t
  OBVIOUS

LEMMA Crece ==
    ASSUME NEW x \in Int, NEW y \in Int, NEW t \in Nat \ {0}
    PROVE  /\ x * t \in Int /\ y * t \in Int
           /\ x <= y => x * t <= y * t
           /\ x < y => (x + 1) * t <= y * t
           /\ (x + 1) * t = x * t + t
           /\ x * t < y * t => x < y
<1>1. x * t \in Int /\ y * t \in Int
  OBVIOUS
<1>2. x <= y => x * t <= y * t
  OBVIOUS
<1>3. x < y => (x + 1) * t <= y * t
  OBVIOUS
<1>4. (x + 1) * t = x * t + t
  OBVIOUS
<1>5. x * t < y * t => x < y
  OBVIOUS
<1> QED BY <1>1, <1>2, <1>3, <1>4, <1>5

(* divAndRoundUp(x) blocks hold x bytes, and one less does not. *)
LEMMA Redondeo ==
    ASSUME NEW x \in Nat
    PROVE  /\ divAndRoundUp(x) \in Nat \ {0}
           /\ x <= divAndRoundUp(x) * tamanioBloque
           /\ divAndRoundUp(x) > 1 => x > (divAndRoundUp(x) - 1) * tamanioBloque
<1> DEFINE t == tamanioBloque
<1> t \in Nat \ {0}
  BY FileSystemAssumption
<1> HIDE DEF t
<1>1. CASE x = 0
  <2>1. divAndRoundUp(x) = 1
    BY <1>1 DEF divAndRoundUp
  <2> QED BY <2>1, <1>1, FileSystemAssumption
<1>2. CASE x # 0
  <2>1. PICK q \in Nat : q = (x - 1) \div t /\ q * t <= x - 1 /\ x - 1 < (q + 1) * t
    BY <1>2, x - 1 \in Nat, Cociente
  <2>2. divAndRoundUp(x) = q + 1
    BY <2>1, <1>2 DEF divAndRoundUp, t
  <2>3. q * t \in Int /\ (q + 1) * t \in Int
    BY Crece
  <2>4. x <= (q + 1) * t /\ x > q * t
    BY <2>1, <2>3
  <2>5. (q + 1) - 1 = q
    OBVIOUS
  <2> QED BY <2>2, <2>4, <2>5 DEF t
<1> QED BY <1>1, <1>2

-----------------------------------------------------------------------------
(* The search of free blocks. *)

LEMMA SonBloques ==
    /\ Bloques \subseteq Nat /\ IsFiniteSet(Bloques) /\ Ninguno \notin Bloques
    /\ \A x \in Bloques : x \in Nat /\ x < cantidadBloques
<1>1. IsFiniteSet(Bloques)
  BY FS_Interval, FileSystemAssumption DEF Bloques
<1> QED BY <1>1, FileSystemAssumption DEF Bloques, Ninguno

Antes(S, b) == {x \in S : x < b}

(* The elements of a finite set of numbers are numbered from 0, each by    *)
(* how many come before it.                                                *)
LEMMA Numerados ==
    ASSUME NEW S, S \subseteq Nat, IsFiniteSet(S)
    PROVE  /\ Cardinality(S) \in Nat
           /\ \A b \in S : Cardinality(Antes(S, b)) \in 0 .. Cardinality(S) - 1
           /\ \A b, c \in S : b # c => Cardinality(Antes(S, b)) # Cardinality(Antes(S, c))
           /\ \A r \in 0 .. Cardinality(S) - 1 : \E b \in S : Cardinality(Antes(S, b)) = r
<1> DEFINE N == Cardinality(S)
           rango == [b \in S |-> Cardinality(Antes(S, b))]
<1>1. N \in Nat
  BY FS_CardinalityType
<1>2. ASSUME NEW b \in S
      PROVE  IsFiniteSet(Antes(S, b)) /\ Cardinality(Antes(S, b)) \in Nat
  <2>1. Antes(S, b) \in SUBSET S
    BY DEF Antes
  <2> QED BY <2>1, FS_Subset, FS_CardinalityType
<1>3. ASSUME NEW b \in S, NEW T \in SUBSET S, Antes(S, b) \subseteq T, b \in T
      PROVE  Cardinality(Antes(S, b)) < Cardinality(T)
  <2>1. IsFiniteSet(T) /\ Cardinality(T) \in Nat
    BY FS_Subset, FS_CardinalityType
  <2>2. Antes(S, b) # T
    BY <1>3 DEF Antes
  <2>3. Cardinality(Antes(S, b)) <= Cardinality(T) /\ Cardinality(Antes(S, b)) # Cardinality(T)
    BY <2>1, <2>2, <1>3, FS_Subset
  <2> QED BY <2>1, <2>3, <1>2
<1>4. ASSUME NEW b \in S, NEW c \in S, b < c
      PROVE  Cardinality(Antes(S, b)) < Cardinality(Antes(S, c))
  <2>1. ASSUME NEW x \in Antes(S, b) PROVE x \in Antes(S, c)
    <3>1. x \in Nat /\ b \in Nat /\ c \in Nat /\ x \in S /\ x < b
      BY DEF Antes
    <3> QED BY <3>1, <1>4 DEF Antes
  <2>2. b \in Antes(S, c) /\ Antes(S, c) \in SUBSET S
    BY <1>4 DEF Antes
  <2> QED BY <2>1, <2>2, <1>3
<1>5. ASSUME NEW b \in S PROVE Cardinality(Antes(S, b)) \in 0 .. N - 1
  <2>1. Antes(S, b) \subseteq S
    BY DEF Antes
  <2>2. Cardinality(Antes(S, b)) < N
    BY <2>1, <1>3
  <2> QED BY <2>2, <1>1, <1>2
<1>6. ASSUME NEW b \in S, NEW c \in S, b # c
      PROVE  Cardinality(Antes(S, b)) # Cardinality(Antes(S, c))
  <2>1. b < c \/ c < b
    BY <1>6
  <2> QED BY <2>1, <1>4, <1>2
<1>7. rango \in Injection(S, 0 .. N - 1)
  BY <1>5, <1>6 DEF Injection, IsInjective
<1>8. IsFiniteSet(0 .. N - 1) /\ Cardinality(0 .. N - 1) = N
  <2>1. N - 1 \in Int /\ 0 \in Int
    BY <1>1
  <2>2. /\ IsFiniteSet(0 .. N - 1)
        /\ Cardinality(0 .. N - 1) = IF 0 > N - 1 THEN 0 ELSE N - 1 - 0 + 1
    BY <2>1, FS_Interval
  <2> QED BY <2>2, <1>1
<1>9. rango \in Surjection(S, 0 .. N - 1)
  BY <1>7, <1>8, FS_Injection
<1>10. ASSUME NEW r \in 0 .. N - 1 PROVE \E b \in S : Cardinality(Antes(S, b)) = r
  BY <1>9 DEF Surjection
<1> QED BY <1>1, <1>5, <1>6, <1>10

(* The i-th block found is free, and is not the j-th one. *)
LEMMA Encontrado ==
    ASSUME NEW mapa, mapa \subseteq Bloques, NEW i \in Nat \ {0}
    PROVE  LET b == obtenerBloqueVacio(mapa, i)
               libres == Bloques \ mapa IN
           /\ Cardinality(libres) \in Nat
           /\ i > Cardinality(libres) <=> b = Ninguno
           /\ b # Ninguno => /\ b \in libres
                             /\ Cardinality(Antes(libres, b)) = i - 1
<1> DEFINE libres == Bloques \ mapa
<1>1. libres \subseteq Nat /\ IsFiniteSet(libres) /\ libres \subseteq Bloques
  BY SonBloques, FS_Difference
<1>2. Cardinality(libres) \in Nat
  BY <1>1, Numerados
<1>3. CASE i > Cardinality(libres)
  BY <1>3, <1>2 DEF obtenerBloqueVacio
<1>4. CASE ~(i > Cardinality(libres))
  <2>1. i - 1 \in 0 .. Cardinality(libres) - 1
    BY <1>4, <1>2
  <2>2. \E b \in libres : Cardinality(Antes(libres, b)) = i - 1
    BY <2>1, <1>1, Numerados
  <2>3. obtenerBloqueVacio(mapa, i) = CHOOSE b \in libres : Cardinality(Antes(libres, b)) = i - 1
    BY <1>4 DEF obtenerBloqueVacio, Antes
  <2>4. /\ obtenerBloqueVacio(mapa, i) \in libres
        /\ Cardinality(Antes(libres, obtenerBloqueVacio(mapa, i))) = i - 1
    BY <2>2, <2>3
  <2> QED BY <2>4, <1>1, <1>2, <1>4, SonBloques
<1> QED BY <1>3, <1>4

LEMMA EncontradosDistintos ==
    ASSUME NEW mapa, mapa \subseteq Bloques, NEW i \in Nat \ {0}, NEW j \in Nat \ {0}, i # j,
           obtenerBloqueVacio(mapa, i) # Ninguno
    PROVE  obtenerBloqueVacio(mapa, i) # obtenerBloqueVacio(mapa, j)
<1>1. /\ Cardinality(Antes(Bloques \ mapa, obtenerBloqueVacio(mapa, i))) = i - 1
      /\ obtenerBloqueVacio(mapa, j) # Ninguno =>
            Cardinality(Antes(Bloques \ mapa, obtenerBloqueVacio(mapa, j))) = j - 1
  BY Encontrado
<1> QED BY <1>1

-----------------------------------------------------------------------------
(* The parts of BloquesPropios, and the domain of contenido. *)

SinCompartir ==
    \A f, g \in DOMAIN archivos :
        \A i \in DOMAIN archivos[f].bloques, j \in DOMAIN archivos[g].bloques :
            /\ archivos[f].bloques[i] = archivos[g].bloques[j]
            /\ archivos[f].bloques[i] # Ninguno
            => f = g /\ i = j

Suyos == (UNION {De(f) : f \in DOMAIN archivos}) \ {Ninguno}
MapaFiel == bitmap = Suyos \cup perdidos /\ Suyos \cap perdidos = {}

Medida(a) ==
    /\ a.tamanio <= Len(a.bloques) * tamanioBloque
    /\ Len(a.bloques) > 1 => a.tamanio > (Len(a.bloques) - 1) * tamanioBloque
MedidaFiel == \A f \in DOMAIN archivos : Medida(archivos[f])

DiscoEntero == DOMAIN contenido = Bloques \cup {Ninguno}

DiscoInv == TypeOK /\ DiscoEntero /\ SinCompartir /\ MapaFiel /\ MedidaFiel

LEMMA PartesDeBloquesPropios == BloquesPropios <=> SinCompartir /\ MapaFiel /\ MedidaFiel
  BY DEF BloquesPropios, SinCompartir, MapaFiel, Suyos, MedidaFiel, Medida

(* What TypeOK says of one file. *)
LEMMA UnArchivo ==
    ASSUME DiscoInv, NEW f \in DOMAIN archivos
    PROVE  /\ f \in Archivos
           /\ archivos[f] = [tamanio |-> archivos[f].tamanio, bloques |-> archivos[f].bloques]
           /\ archivos[f].tamanio \in Nat
           /\ archivos[f].bloques \in Seq(Bloques \cup {Ninguno})
           /\ Len(archivos[f].bloques) \in Nat
           /\ DOMAIN archivos[f].bloques = 1 .. Len(archivos[f].bloques)
           /\ Medida(archivos[f])
<1>1. archivos[f] \in [tamanio : Nat, bloques : Seq(Bloques \cup {Ninguno})]
  BY DEF DiscoInv, TypeOK
<1>2. f \in Archivos
  BY DEF DiscoInv, TypeOK
<1>3. archivos[f].bloques \in Seq(Bloques \cup {Ninguno})
  BY <1>1
<1>4. /\ Len(archivos[f].bloques) \in Nat
      /\ DOMAIN archivos[f].bloques = 1 .. Len(archivos[f].bloques)
  BY <1>3
<1> QED BY <1>1, <1>2, <1>3, <1>4 DEF DiscoInv, MedidaFiel

(* A block of a file is marked, and was not lost. *)
LEMMA SuyosMarcados ==
    ASSUME DiscoInv, NEW f \in DOMAIN archivos, NEW i \in DOMAIN archivos[f].bloques,
           archivos[f].bloques[i] # Ninguno
    PROVE  /\ archivos[f].bloques[i] \in Suyos
           /\ archivos[f].bloques[i] \in bitmap
           /\ archivos[f].bloques[i] \notin perdidos
<1>1. archivos[f].bloques[i] \in De(f)
  BY DEF De
<1>2. De(f) \in {De(g) : g \in DOMAIN archivos}
  OBVIOUS
<1>3. archivos[f].bloques[i] \in UNION {De(g) : g \in DOMAIN archivos}
  BY <1>1, <1>2
<1>4. archivos[f].bloques[i] \in Suyos
  BY <1>3 DEF Suyos
<1> QED BY <1>4 DEF DiscoInv, MapaFiel

-----------------------------------------------------------------------------
(* A request, and the array of blocks while a write goes on. *)

LEMMA Pedido ==
    ASSUME NEW offset \in Offsets, NEW n \in Tamanios
    PROVE  /\ offset \in Nat /\ n \in Nat /\ tamanioBloque \in Nat \ {0}
           /\ startBlock(offset) \in Nat
           /\ offset % tamanioBloque \in 0 .. tamanioBloque - 1
           /\ startBlock(offset) * tamanioBloque <= offset
           /\ offset < (startBlock(offset) + 1) * tamanioBloque
           /\ offset % tamanioBloque = offset - startBlock(offset) * tamanioBloque
  BY FileSystemAssumption, Cociente DEF startBlock

Primero(f, offset) == Max({Len(archivos[f].bloques), startBlock(offset)})

LEMMA Totales ==
    ASSUME DiscoInv, NEW f \in DOMAIN archivos, NEW offset \in Offsets, NEW n \in Tamanios
    PROVE  /\ totalBloques(f, offset, n) \in Nat \ {0}
           /\ totalBloques(f, offset, n) >= Len(archivos[f].bloques)
           /\ totalBloques(f, offset, n) =
                 IF divAndRoundUp(offset + n) >= Len(archivos[f].bloques)
                 THEN divAndRoundUp(offset + n) ELSE Len(archivos[f].bloques)
           /\ totalBloques(f, offset, n) >= startBlock(offset)
           /\ Primero(f, offset) \in Nat
           /\ Primero(f, offset) >= Len(archivos[f].bloques)
           /\ ~ConHueco(f, offset) => Primero(f, offset) = Len(archivos[f].bloques)
<1> DEFINE L == Len(archivos[f].bloques)
           D == divAndRoundUp(offset + n)
<1>1. L \in Nat /\ offset \in Nat /\ n \in Nat /\ offset + n \in Nat /\ startBlock(offset) \in Nat
  BY UnArchivo, Pedido
<1>2. D \in Nat \ {0} /\ offset + n <= D * tamanioBloque
  BY <1>1, Redondeo
<1>3. totalBloques(f, offset, n) = IF D >= L THEN D ELSE L
  BY <1>1, <1>2, MayorDeDos DEF totalBloques
<1>4. Primero(f, offset) = IF L >= startBlock(offset) THEN L ELSE startBlock(offset)
  BY <1>1, MayorDeDos DEF Primero
<1>5. D >= startBlock(offset)
  <2>1. startBlock(offset) * tamanioBloque <= offset /\ tamanioBloque \in Nat \ {0}
    BY Pedido
  <2>2. PICK a \in Int : a = startBlock(offset) * tamanioBloque
    BY <2>1, <1>1, Crece
  <2>3. PICK b \in Int : b = D * tamanioBloque
    BY <2>1, <1>2, Crece
  <2>4. a <= b
    BY <2>1, <2>2, <2>3, <1>1, <1>2
  <2>5. CASE D < startBlock(offset)
    <3>1. (D + 1) * tamanioBloque <= startBlock(offset) * tamanioBloque
          /\ (D + 1) * tamanioBloque = D * tamanioBloque + tamanioBloque
      BY <2>5, <2>1, <1>1, <1>2, Crece, SMTT(30)
    <3>2. b + tamanioBloque <= a
      BY <3>1, <2>2, <2>3
    <3> QED BY <3>2, <2>1, <2>4
  <2> QED BY <2>5, <1>1, <1>2
<1> QED BY <1>1, <1>2, <1>3, <1>4, <1>5 DEF ConHueco

LEMMA Hasta ==
    ASSUME DiscoInv, NEW f \in DOMAIN archivos, NEW offset \in Offsets, NEW n \in Tamanios,
           NEW k \in Nat
    PROVE  LET bs == bloquesHasta(f, offset, k)
               viejos == archivos[f].bloques
               m == Primero(f, offset) IN
           /\ bs \in Seq(Bloques \cup {Ninguno})
           /\ Len(bs) = (IF k >= Len(viejos) THEN k ELSE Len(viejos))
           /\ DOMAIN bs = 1 .. Len(bs)
           /\ \A j \in 1 .. Len(bs) :
                 bs[j] = IF j <= Len(viejos) THEN viejos[j]
                         ELSE IF j <= m THEN Ninguno ELSE obtenerBloqueVacio(bitmap, j - m)
           /\ \A j \in 1 .. Len(bs) :
                 bs[j] # Ninguno /\ j > Len(viejos) => j > m /\ bs[j] \in Bloques \ bitmap
<1> DEFINE viejos == archivos[f].bloques
           L == Len(viejos)
           m == Primero(f, offset)
           N == IF k >= L THEN k ELSE L
           bs == bloquesHasta(f, offset, k)
<1>1. L \in Nat /\ viejos \in Seq(Bloques \cup {Ninguno}) /\ m \in Nat /\ m >= L
  BY UnArchivo, Totales
<1>2. N \in Nat /\ Max({k, L}) = N
  BY <1>1, MayorDeDos
<1>3. bs = [j \in 1 .. N |-> IF j <= L THEN viejos[j]
                             ELSE IF j <= m THEN Ninguno ELSE obtenerBloqueVacio(bitmap, j - m)]
  BY <1>2 DEF bloquesHasta, Primero
<1>4. bitmap \subseteq Bloques
  BY DEF DiscoInv, TypeOK
<1>5. ASSUME NEW j \in 1 .. N, j > m
      PROVE  /\ obtenerBloqueVacio(bitmap, j - m) \in Bloques \cup {Ninguno}
             /\ obtenerBloqueVacio(bitmap, j - m) # Ninguno =>
                   obtenerBloqueVacio(bitmap, j - m) \in Bloques \ bitmap
  <2>1. j - m \in Nat \ {0}
    BY <1>5, <1>1, <1>2
  <2> QED BY <2>1, <1>4, Encontrado
<1>6. ASSUME NEW j \in 1 .. N PROVE bs[j] \in Bloques \cup {Ninguno}
  <2>1. CASE j <= L
    <3>1. viejos[j] \in Bloques \cup {Ninguno}
      BY <2>1, <1>1, <1>2
    <3> QED BY <3>1, <2>1, <1>3
  <2>2. CASE ~(j <= L) /\ j <= m
    BY <2>2, <1>3
  <2>3. CASE ~(j <= L) /\ ~(j <= m)
    <3>1. j > m
      BY <2>3, <1>1, <1>2
    <3> QED BY <3>1, <2>3, <1>3, <1>5
  <2> QED BY <2>1, <2>2, <2>3
<1>7. bs \in Seq(Bloques \cup {Ninguno}) /\ Len(bs) = N /\ DOMAIN bs = 1 .. N
  <2>1. bs \in [1 .. N -> Bloques \cup {Ninguno}]
    BY <1>3, <1>6
  <2> QED BY <2>1, <1>2
<1>8. ASSUME NEW j \in 1 .. N, bs[j] # Ninguno, j > L
      PROVE  j > m /\ bs[j] \in Bloques \ bitmap
  <2>1. ~(j <= L)
    BY <1>8, <1>1, <1>2
  <2>2. bs[j] = IF j <= m THEN Ninguno ELSE obtenerBloqueVacio(bitmap, j - m)
    BY <2>1, <1>3
  <2>3. ~(j <= m)
    BY <2>2, <1>8
  <2>4. j > m
    BY <2>3, <1>1, <1>2
  <2> QED BY <2>2, <2>3, <2>4, <1>5, <1>8
<1> HIDE DEF bs, N
<1>9. \A j \in 1 .. N : bs[j] = IF j <= L THEN viejos[j]
                         ELSE IF j <= m THEN Ninguno ELSE obtenerBloqueVacio(bitmap, j - m)
  BY <1>3
<1> QED BY <1>7, <1>8, <1>9 DEF N, bs

(* No two of them are the same. *)
LEMMA HastaDistintos ==
    ASSUME DiscoInv, NEW f \in DOMAIN archivos, NEW offset \in Offsets, NEW n \in Tamanios,
           NEW k \in Nat,
           NEW i \in 1 .. Len(bloquesHasta(f, offset, k)),
           NEW j \in 1 .. Len(bloquesHasta(f, offset, k)),
           bloquesHasta(f, offset, k)[i] # Ninguno,
           bloquesHasta(f, offset, k)[i] = bloquesHasta(f, offset, k)[j]
    PROVE  i = j
<1> DEFINE viejos == archivos[f].bloques
           L == Len(viejos)
           m == Primero(f, offset)
           bs == bloquesHasta(f, offset, k)
<1>1. /\ L \in Nat /\ m \in Nat /\ m >= L /\ DOMAIN viejos = 1 .. L /\ Len(bs) \in Nat
      /\ bitmap \subseteq Bloques
  BY UnArchivo, Totales, Hasta DEF DiscoInv, TypeOK
<1>2. ASSUME NEW x \in 1 .. Len(bs), bs[x] # Ninguno
      PROVE  /\ x <= L => x \in DOMAIN viejos /\ bs[x] = viejos[x] /\ bs[x] \in bitmap
             /\ x > L => /\ x - m \in Nat \ {0} /\ bs[x] = obtenerBloqueVacio(bitmap, x - m)
                         /\ bs[x] \notin bitmap
  <2>1. CASE x <= L
    <3>1. x \in DOMAIN viejos /\ bs[x] = viejos[x]
      BY <2>1, <1>1, Hasta
    <3>2. bs[x] \in bitmap
      BY <3>1, <1>2, SuyosMarcados
    <3>3. ~(x > L)
      BY <2>1, <1>1
    <3> QED BY <3>1, <3>2, <3>3
  <2>2. CASE x > L
    <3>1. x > m /\ bs[x] \in Bloques \ bitmap
      BY <2>2, <1>2, Hasta
    <3>2. ~(x <= L) /\ ~(x <= m) /\ x - m \in Nat \ {0}
      BY <2>2, <3>1, <1>1
    <3>3. bs[x] = obtenerBloqueVacio(bitmap, x - m)
      BY <3>2, Hasta
    <3> QED BY <3>1, <3>2, <3>3
  <2> QED BY <2>1, <2>2, <1>1
<1>3. CASE i <= L
  <2>1. i \in DOMAIN viejos /\ bs[i] = viejos[i] /\ bs[i] \in bitmap
    BY <1>3, <1>2
  <2>2. ~(j > L)
    BY <2>1, <1>2
  <2>3. j <= L
    BY <2>2, <1>1
  <2>4. j \in DOMAIN viejos /\ bs[j] = viejos[j]
    BY <2>3, <1>2
  <2>5. i \in DOMAIN viejos /\ viejos[i] = viejos[j] /\ viejos[i] # Ninguno
    BY <2>1, <2>4
  <2> HIDE DEF bs
  <2>6. SinCompartir
    BY DEF DiscoInv
  <2> QED BY <2>4, <2>5, <2>6 DEF SinCompartir
<1>4. CASE i > L
  <2>1. i - m \in Nat \ {0} /\ bs[i] = obtenerBloqueVacio(bitmap, i - m) /\ bs[i] \notin bitmap
    BY <1>4, <1>2
  <2>2. ~(j <= L)
    BY <2>1, <1>2
  <2>3. j > L
    BY <2>2, <1>1
  <2>4. j - m \in Nat \ {0} /\ bs[j] = obtenerBloqueVacio(bitmap, j - m)
    BY <2>3, <1>2
  <2>5. i - m = j - m
    BY <2>1, <2>4, <1>1, EncontradosDistintos
  <2> QED BY <2>5, <1>1
<1> QED BY <1>3, <1>4, <1>1

(* The blocks that are taken are free ones. *)
LEMMA SonNuevos ==
    ASSUME DiscoInv, NEW f \in DOMAIN archivos, NEW offset \in Offsets, NEW n \in Tamanios,
           NEW k \in Nat
    PROVE  /\ Nuevos(f, offset, k) \subseteq (Bloques \ bitmap) \cup {Ninguno}
           /\ \A j \in 1 .. Len(bloquesHasta(f, offset, k)) :
                 j > Len(archivos[f].bloques) =>
                    bloquesHasta(f, offset, k)[j] \in Nuevos(f, offset, k) \cup {Ninguno}
           /\ \A b \in Nuevos(f, offset, k) :
                 \E j \in 1 .. Len(bloquesHasta(f, offset, k)) :
                     b = bloquesHasta(f, offset, k)[j]
<1> DEFINE L == Len(archivos[f].bloques)
           m == Primero(f, offset)
           bs == bloquesHasta(f, offset, k)
<1>1. /\ L \in Nat /\ m \in Nat /\ m >= L
      /\ Len(bs) = IF k >= L THEN k ELSE L
  BY UnArchivo, Totales, Hasta
<1>2. Nuevos(f, offset, k) = {bs[j] : j \in m + 1 .. k}
  BY DEF Nuevos, Primero
<1>3. \A j \in m + 1 .. k : j \in 1 .. Len(bs) /\ j > L
  BY <1>1
<1>4. \A j \in m + 1 .. k : bs[j] \in (Bloques \ bitmap) \cup {Ninguno}
  BY <1>3, Hasta
<1>5. ASSUME NEW j \in 1 .. Len(bs), j > L PROVE bs[j] \in Nuevos(f, offset, k) \cup {Ninguno}
  <2>1. CASE bs[j] = Ninguno
    BY <2>1
  <2>2. CASE bs[j] # Ninguno
    <3>1. j > m
      BY <2>2, <1>5, Hasta
    <3>2. j \in m + 1 .. k
      BY <3>1, <1>5, <1>1
    <3> QED BY <3>2, <1>2
  <2> QED BY <2>1, <2>2
<1> QED BY <1>2, <1>3, <1>4, <1>5

-----------------------------------------------------------------------------
(* What a write leaves in the blocks. *)

Hechos(f, offset, n, k) == {j \in Tocados(offset, n, totalBloques(f, offset, n)) : j < k}

(* One turn of the loop stays within its block. *)
LEMMA Vuelta ==
    ASSUME DiscoInv, NEW f \in DOMAIN archivos, NEW offset \in Offsets, NEW n \in Tamanios,
           NEW k \in Nat, NEW j \in Hechos(f, offset, n, k)
    PROVE  /\ j \in Nat /\ j >= startBlock(offset) /\ j < k
           /\ j < totalBloques(f, offset, n)
           /\ j + 1 \in 1 .. Len(bloquesHasta(f, offset, k))
           /\ Recorridos(offset, j) \in Nat /\ Recorridos(offset, j) <= n
           /\ offsetBloque(offset, j) \in 0 .. tamanioBloque - 1
           /\ Largo(offset, n, j) = IF tamanioBloque - offsetBloque(offset, j) <= n - Recorridos(offset, j)
                                    THEN tamanioBloque - offsetBloque(offset, j)
                                    ELSE n - Recorridos(offset, j)
           /\ Largo(offset, n, j) \in Nat
           /\ offsetBloque(offset, j) + Largo(offset, n, j) <= tamanioBloque
<1> DEFINE t == tamanioBloque
           s == startBlock(offset)
           total == totalBloques(f, offset, n)
           L == Len(archivos[f].bloques)
           R == Recorridos(offset, j)
           O == offsetBloque(offset, j)
<1>1. /\ offset \in Nat /\ n \in Nat /\ t \in Nat \ {0} /\ s \in Nat /\ offset % t \in 0 .. t - 1
      /\ s * t <= offset /\ offset < (s + 1) * t
  BY Pedido
<1>2. total \in Nat \ {0} /\ L \in Nat /\ total >= L
  BY Totales, UnArchivo
<1>3. j \in Tocados(offset, n, total) /\ j < k
  BY DEF Hechos
<1>4. j \in s .. total - 1 /\ (j = s \/ R < n)
  BY <1>3 DEF Tocados
<1>5. j \in Nat /\ j >= s /\ j < total /\ j + 1 <= k
  BY <1>1, <1>2, <1>3, <1>4
<1>6. Len(bloquesHasta(f, offset, k)) = IF k >= L THEN k ELSE L
  BY Hasta
<1>7. j + 1 \in 1 .. Len(bloquesHasta(f, offset, k))
  BY <1>2, <1>5, <1>6
<1>8. O \in 0 .. t - 1
  BY <1>1 DEF offsetBloque
<1>9. R \in Nat /\ R <= n
  <2>1. CASE j = s
    BY <2>1, <1>1 DEF Recorridos
  <2>2. CASE j # s
    <3>1. R = j * t - offset /\ R < n
      BY <2>2, <1>4 DEF Recorridos
    <3>2. s < j
      BY <2>2, <1>5, <1>1
    <3>3. (s + 1) * t <= j * t /\ j * t \in Int /\ (s + 1) * t \in Int
      BY <3>2, <1>1, <1>5, Crece
    <3> QED BY <3>1, <3>3, <1>1
  <2> QED BY <2>1, <2>2
<1>10. Largo(offset, n, j) = IF t - O <= n - R THEN t - O ELSE n - R
  BY <1>1, <1>8, <1>9, t - O \in Int, n - R \in Int, MenorDeDos DEF Largo
<1> HIDE DEF t, s, R, O, total
<1>11. Largo(offset, n, j) \in Nat /\ O + Largo(offset, n, j) <= t
  BY <1>1, <1>8, <1>9, <1>10
<1> QED BY <1>1, <1>5, <1>3, <1>7, <1>8, <1>9, <1>10, <1>11 DEF t, s, R, O, total

(* A block is as it was, or as the last turn that wrote in it left it. *)
LEMMA Escrito ==
    ASSUME DiscoInv, NEW f \in DOMAIN archivos, NEW offset \in Offsets, NEW n \in Tamanios,
           NEW d \in Datos, NEW k \in Nat
    PROVE  LET e == escritoHasta(f, offset, n, d, k) IN
           /\ DOMAIN e = DOMAIN contenido
           /\ \A b \in DOMAIN contenido :
                 \/ /\ e[b] = contenido[b]
                    /\ \A j \in Hechos(f, offset, n, k) : bloquesHasta(f, offset, k)[j + 1] # b
                 \/ \E j \in Hechos(f, offset, n, k) :
                       /\ bloquesHasta(f, offset, k)[j + 1] = b
                       /\ e[b] = escribirBloque(Largo(offset, n, j), offsetBloque(offset, j), d)
<1> DEFINE e == escritoHasta(f, offset, n, d, k)
           H == Hechos(f, offset, n, k)
           bs == bloquesHasta(f, offset, k)
           de(b) == {j \in H : bs[j + 1] = b}
<1>1. e = [b \in DOMAIN contenido |->
             IF de(b) = {} THEN contenido[b]
             ELSE escribirBloque(Largo(offset, n, Max(de(b))), offsetBloque(offset, Max(de(b))), d)]
  BY DEF escritoHasta, Hechos
<1>2. DOMAIN e = DOMAIN contenido
  BY <1>1
<1>3. ASSUME NEW b \in DOMAIN contenido
      PROVE  \/ e[b] = contenido[b] /\ \A j \in H : bs[j + 1] # b
             \/ \E j \in H :
                   /\ bs[j + 1] = b
                   /\ e[b] = escribirBloque(Largo(offset, n, j), offsetBloque(offset, j), d)
  <2>1. CASE de(b) = {}
    <3>1. e[b] = contenido[b]
      BY <2>1, <1>1
    <3>2. \A j \in H : bs[j + 1] # b
      BY <2>1
    <3> QED BY <3>1, <3>2
  <2>2. CASE de(b) # {}
    <3>1. de(b) \subseteq Nat /\ \A x \in de(b) : x <= k
      <4>1. ASSUME NEW x \in de(b) PROVE x \in Nat /\ x <= k
        <5>1. x \in H
          OBVIOUS
        <5> QED BY <5>1, Vuelta
      <4> QED BY <4>1
    <3>2. Max(de(b)) \in de(b)
      BY <3>1, <2>2, MayorDe
    <3>3. e[b] = escribirBloque(Largo(offset, n, Max(de(b))), offsetBloque(offset, Max(de(b))), d)
      BY <2>2, <1>1
    <3> QED BY <3>2, <3>3
  <2> QED BY <2>1, <2>2
<1> HIDE DEF e
<1> QED BY <1>2, <1>3 DEF e

(* What escribirBloque leaves fits in a block. *)
LEMMA Cabe ==
    ASSUME NEW largo \in Nat, NEW desde \in Nat, desde + largo <= tamanioBloque, NEW d \in Datos
    PROVE  /\ escribirBloque(largo, desde, d) \in Seq(Datos \cup {Cero})
           /\ Len(escribirBloque(largo, desde, d)) = IF largo = 0 THEN 0 ELSE desde + largo
           /\ \A i \in desde + 1 .. desde + largo : escribirBloque(largo, desde, d)[i] = d
           /\ largo > 0 => DOMAIN escribirBloque(largo, desde, d) = 1 .. desde + largo
<1>1. CASE largo = 0
  <2>1. escribirBloque(largo, desde, d) = << >>
    BY <1>1 DEF escribirBloque
  <2> QED BY <2>1, <1>1
<1>2. CASE largo # 0
  <2> DEFINE s == [i \in 1 .. desde + largo |-> IF i <= desde THEN Cero ELSE d]
  <2>1. escribirBloque(largo, desde, d) = s
    BY <1>2 DEF escribirBloque
  <2>2. s \in [1 .. desde + largo -> Datos \cup {Cero}] /\ desde + largo \in Nat
    OBVIOUS
  <2>3. s \in Seq(Datos \cup {Cero}) /\ Len(s) = desde + largo
    BY <2>2
  <2>4. \A i \in desde + 1 .. desde + largo : s[i] = d
    OBVIOUS
  <2> QED BY <2>1, <2>2, <2>3, <2>4, <1>2
<1> QED BY <1>1, <1>2

LEMMA BloquesEnteros ==
    ASSUME DiscoInv, NEW f \in DOMAIN archivos, NEW offset \in Offsets, NEW n \in Tamanios,
           NEW d \in Datos, NEW k \in Nat, NEW b \in Bloques \cup {Ninguno}
    PROVE  /\ escritoHasta(f, offset, n, d, k)[b] \in Seq(Datos \cup {Cero})
           /\ Len(escritoHasta(f, offset, n, d, k)[b]) <= tamanioBloque
<1> DEFINE e == escritoHasta(f, offset, n, d, k)
<1>1. b \in DOMAIN contenido
  BY DEF DiscoInv, DiscoEntero
<1>2. CASE e[b] = contenido[b]
  BY <1>2 DEF DiscoInv, TypeOK
<1>3. CASE e[b] # contenido[b]
  <2>1. PICK j \in Hechos(f, offset, n, k) :
           e[b] = escribirBloque(Largo(offset, n, j), offsetBloque(offset, j), d)
    BY <1>3, <1>1, Escrito
  <2>2. /\ Largo(offset, n, j) \in Nat /\ offsetBloque(offset, j) \in Nat
        /\ offsetBloque(offset, j) + Largo(offset, n, j) <= tamanioBloque
        /\ tamanioBloque \in Nat
    BY Vuelta, FileSystemAssumption
  <2>3. PICK l \in Nat, o \in Nat : l = Largo(offset, n, j) /\ o = offsetBloque(offset, j)
    BY <2>2
  <2>4. o + l <= tamanioBloque
    BY <2>2, <2>3
  <2>5. /\ escribirBloque(l, o, d) \in Seq(Datos \cup {Cero})
        /\ Len(escribirBloque(l, o, d)) = IF l = 0 THEN 0 ELSE o + l
    BY <2>4, Cabe
  <2>6. Len(escribirBloque(l, o, d)) <= tamanioBloque
    BY <2>2, <2>4, <2>5
  <2> QED BY <2>1, <2>3, <2>5, <2>6
<1> QED BY <1>2, <1>3

-----------------------------------------------------------------------------
(* DiscoInv is inductive. *)

LEMMA EnNada == DOMAIN << >> = {} /\ Len(<< >>) = 0 /\ << >> \in Seq(Datos \cup {Cero})
<1>1. DOMAIN << >> = 1 .. 0
  OBVIOUS
<1>2. << >> \in Seq(Datos \cup {Cero}) /\ Len(<< >>) = 0
  OBVIOUS
<1> QED BY <1>1, <1>2

LEMMA Quieto == DiscoInv /\ UNCHANGED <<bitmap, archivos, contenido, perdidos>> => DiscoInv'
  BY DEF DiscoInv, TypeOK, DiscoEntero, SinCompartir, MapaFiel, Suyos, De, MedidaFiel, Medida

LEMMA EnSuyos == \A x : x \in Suyos <=> x # Ninguno /\ \E g \in DOMAIN archivos : x \in De(g)
<1> SUFFICES ASSUME NEW x
             PROVE  x \in Suyos <=> x # Ninguno /\ \E g \in DOMAIN archivos : x \in De(g)
  OBVIOUS
<1>1. ASSUME x \in Suyos PROVE x # Ninguno /\ \E g \in DOMAIN archivos : x \in De(g)
  BY <1>1 DEF Suyos
<1>2. ASSUME x # Ninguno, NEW g \in DOMAIN archivos, x \in De(g) PROVE x \in Suyos
  <2>1. De(g) \in {De(h) : h \in DOMAIN archivos}
    OBVIOUS
  <2>2. x \in UNION {De(h) : h \in DOMAIN archivos}
    BY <2>1, <1>2
  <2> QED BY <2>2, <1>2 DEF Suyos
<1> QED BY <1>1, <1>2

LEMMA EnSuyosDespues ==
    \A x : x \in Suyos' <=> x # Ninguno /\ \E g \in DOMAIN archivos' : x \in De(g)'
<1>1. (\A x : x \in Suyos <=> x # Ninguno /\ \E g \in DOMAIN archivos : x \in De(g))'
  BY EnSuyos, PTL
<1> QED BY <1>1 DEF Ninguno

LEMMA AlEmpezar == Init => DiscoInv
<1> SUFFICES ASSUME Init PROVE DiscoInv
  OBVIOUS
<1>0. DOMAIN << >> = {} /\ << >> \in Seq(Datos \cup {Cero}) /\ Len(<< >>) = 0
  BY EnNada
<1>1. bitmap = {} /\ perdidos = {} /\ archivos = << >> /\ DOMAIN archivos = {}
  BY <1>0 DEF Init
<1>2. \A b \in Bloques \cup {Ninguno} : contenido[b] = << >>
  BY DEF Init
<1>3. DiscoEntero
  BY DEF Init, DiscoEntero
<1>4. TypeOK
  <2>1. tamanioBloque \in Nat
    BY FileSystemAssumption
  <2>2. \A b \in Bloques \cup {Ninguno} :
           contenido[b] \in Seq(Datos \cup {Cero}) /\ Len(contenido[b]) <= tamanioBloque
    <3>1. ASSUME NEW b \in Bloques \cup {Ninguno}
          PROVE  contenido[b] \in Seq(Datos \cup {Cero}) /\ Len(contenido[b]) <= tamanioBloque
      <4>1. contenido[b] = << >>
        BY <1>2
      <4>2. Len(contenido[b]) = 0
        BY <4>1
      <4>3. contenido[b] \in Seq(Datos \cup {Cero})
        BY <4>1
      <4> QED BY <4>2, <4>3, <2>1
    <3> QED BY <3>1
  <2>3. /\ bitmap \subseteq Bloques /\ perdidos \subseteq Bloques
        /\ DOMAIN archivos \subseteq Archivos
        /\ \A f \in DOMAIN archivos :
              archivos[f] \in [tamanio : Nat, bloques : Seq(Bloques \cup {Ninguno})]
    BY <1>1
  <2> QED BY <2>2, <2>3 DEF TypeOK
<1>5. SinCompartir /\ MedidaFiel
  BY <1>1 DEF SinCompartir, MedidaFiel
<1>6. MapaFiel
  BY <1>1 DEF MapaFiel, Suyos
<1> QED BY <1>3, <1>4, <1>5, <1>6 DEF DiscoInv

LEMMA AlCrear ==
    ASSUME DiscoInv, NEW f \in Archivos, crearArchivo(f)
    PROVE  DiscoInv'
<1> DEFINE b == obtenerBloqueVacio(bitmap, 1)
<1>1. CASE UNCHANGED <<bitmap, archivos, contenido>>
  BY <1>1, Quieto DEF crearArchivo
<1>2. CASE /\ b # Ninguno /\ f \notin DOMAIN archivos
           /\ archivos' = [x \in DOMAIN archivos \cup {f} |->
                             IF x = f THEN [tamanio |-> 0, bloques |-> <<b>>] ELSE archivos[x]]
           /\ bitmap' = marcarBloqueOcupado(bitmap, {b})
           /\ contenido' = [contenido EXCEPT ![b] = << >>]
           /\ perdidos' = perdidos
  <2> HIDE DEF b
  <2>1. bitmap \subseteq Bloques /\ perdidos \subseteq Bloques
    BY DEF DiscoInv, TypeOK
  <2>2. b \in Bloques /\ b \notin bitmap
    <3>1. 1 \in Nat \ {0}
      OBVIOUS
    <3>2. obtenerBloqueVacio(bitmap, 1) # Ninguno => obtenerBloqueVacio(bitmap, 1) \in Bloques \ bitmap
      BY <2>1, <3>1, Encontrado
    <3> QED BY <3>2, <1>2 DEF b
  <2>3. bitmap' = bitmap \cup {b}
    BY <1>2 DEF marcarBloqueOcupado
  <2>4. /\ DOMAIN archivos' = DOMAIN archivos \cup {f}
        /\ archivos'[f] = [tamanio |-> 0, bloques |-> <<b>>]
        /\ \A g \in DOMAIN archivos : g # f /\ archivos'[g] = archivos[g]
    BY <1>2
  <2>5. /\ archivos'[f].tamanio = 0 /\ archivos'[f].bloques = <<b>>
        /\ <<b>> \in Seq(Bloques \cup {Ninguno}) /\ Len(<<b>>) = 1 /\ DOMAIN <<b>> = {1} /\ <<b>>[1] = b
    BY <2>2, <2>4
  <2>6. /\ DOMAIN contenido' = Bloques \cup {Ninguno}
        /\ \A x \in Bloques \cup {Ninguno} : contenido'[x] = IF x = b THEN << >> ELSE contenido[x]
    BY <1>2 DEF DiscoInv, DiscoEntero
  <2>7. TypeOK'
    <3>1. \A g \in DOMAIN archivos' :
             archivos'[g] \in [tamanio : Nat, bloques : Seq(Bloques \cup {Ninguno})]
      <4>1. archivos'[f] \in [tamanio : Nat, bloques : Seq(Bloques \cup {Ninguno})]
        BY <2>4, <2>5
      <4>2. \A g \in DOMAIN archivos :
               archivos'[g] \in [tamanio : Nat, bloques : Seq(Bloques \cup {Ninguno})]
        BY <2>4 DEF DiscoInv, TypeOK
      <4> QED BY <4>1, <4>2, <2>4
    <3>2. \A x \in Bloques \cup {Ninguno} :
             contenido'[x] \in Seq(Datos \cup {Cero}) /\ Len(contenido'[x]) <= tamanioBloque
      <4>1. ASSUME NEW x \in Bloques \cup {Ninguno}
            PROVE  contenido'[x] \in Seq(Datos \cup {Cero}) /\ Len(contenido'[x]) <= tamanioBloque
        <5>1. CASE x = b
          <6>1. contenido'[x] = << >> /\ tamanioBloque \in Nat
            BY <5>1, <2>6, FileSystemAssumption
          <6> QED BY <6>1, EnNada
        <5>2. CASE x # b
          BY <5>2, <2>6 DEF DiscoInv, TypeOK
        <5> QED BY <5>1, <5>2
      <4> QED BY <4>1
    <3>3. DOMAIN archivos' \subseteq Archivos /\ bitmap' \subseteq Bloques /\ perdidos' \subseteq Bloques
      BY <2>1, <2>2, <2>3, <2>4, <1>2 DEF DiscoInv, TypeOK
    <3> QED BY <3>1, <3>2, <3>3 DEF TypeOK
  <2>8. DiscoEntero'
    BY <2>6 DEF DiscoEntero
  <2>9. SinCompartir'
    <3> SUFFICES ASSUME NEW g \in DOMAIN archivos', NEW h \in DOMAIN archivos',
                        NEW i \in DOMAIN archivos'[g].bloques, NEW j \in DOMAIN archivos'[h].bloques,
                        archivos'[g].bloques[i] = archivos'[h].bloques[j],
                        archivos'[g].bloques[i] # Ninguno
                 PROVE  g = h /\ i = j
      BY DEF SinCompartir
    <3>1. CASE g = f /\ h = f
      BY <3>1, <2>5
    <3>2. CASE g = f /\ h # f
      <4>1. h \in DOMAIN archivos /\ j \in DOMAIN archivos[h].bloques /\ archivos[h].bloques[j] = b
            /\ b # Ninguno
        BY <3>2, <2>4, <2>5
      <4> QED BY <4>1, <2>2, SuyosMarcados
    <3>3. CASE g # f /\ h = f
      <4>1. g \in DOMAIN archivos /\ i \in DOMAIN archivos[g].bloques /\ archivos[g].bloques[i] = b
            /\ b # Ninguno
        BY <3>3, <2>4, <2>5
      <4> QED BY <4>1, <2>2, SuyosMarcados
    <3>4. CASE g # f /\ h # f
      <4>1. /\ g \in DOMAIN archivos /\ h \in DOMAIN archivos
            /\ archivos'[g] = archivos[g] /\ archivos'[h] = archivos[h]
        BY <3>4, <2>4
      <4> QED BY <4>1 DEF DiscoInv, SinCompartir
    <3> QED BY <3>1, <3>2, <3>3, <3>4
  <2>10. MapaFiel'
    <3>1. De(f)' = {b}
      BY <2>5 DEF De
    <3>2. \A g \in DOMAIN archivos : De(g)' = De(g)
      BY <2>4 DEF De
    <3>3. ASSUME NEW x, x # Ninguno
          PROVE  (\E g \in DOMAIN archivos' : x \in De(g)') <=> (\E g \in DOMAIN archivos : x \in De(g)) \/ x = b
      BY <2>4, <3>1, <3>2
    <3>4. Suyos' = Suyos \cup {b}
      BY <3>3, <1>2, EnSuyos, EnSuyosDespues
    <3> QED BY <3>4, <2>2, <2>3, <1>2 DEF DiscoInv, MapaFiel
  <2>11. MedidaFiel'
    <3>1. Medida(archivos'[f])
      BY <2>5, FileSystemAssumption DEF Medida
    <3>2. \A g \in DOMAIN archivos : Medida(archivos'[g])
      BY <2>4 DEF DiscoInv, MedidaFiel
    <3>3. \A g \in DOMAIN archivos' : Medida(archivos'[g])
      BY <3>1, <3>2, <2>4
    <3> QED BY <3>3 DEF MedidaFiel, Medida
  <2> QED BY <2>7, <2>8, <2>9, <2>10, <2>11 DEF DiscoInv
<1> QED BY <1>1, <1>2 DEF crearArchivo

LEMMA AlBorrar ==
    ASSUME DiscoInv, NEW f \in Archivos, borrarArchivo(f)
    PROVE  DiscoInv'
<1>1. CASE UNCHANGED <<bitmap, archivos>>
  BY <1>1, Quieto DEF borrarArchivo
<1>2. CASE /\ f \in DOMAIN archivos
           /\ bitmap' = desocupar(f)
           /\ archivos' = [x \in DOMAIN archivos \ {f} |-> archivos[x]]
           /\ UNCHANGED <<contenido, perdidos>>
  <2>1. /\ DOMAIN archivos' = DOMAIN archivos \ {f}
        /\ \A g \in DOMAIN archivos' : g \in DOMAIN archivos /\ archivos'[g] = archivos[g]
    BY <1>2
  <2>2. bitmap' = bitmap \ De(f)
    BY <1>2 DEF desocupar
  <2>3. TypeOK'
    BY <2>1, <2>2, <1>2 DEF DiscoInv, TypeOK
  <2>4. DiscoEntero'
    BY <1>2 DEF DiscoInv, DiscoEntero
  <2>5. SinCompartir'
    <3> SUFFICES ASSUME NEW g \in DOMAIN archivos', NEW h \in DOMAIN archivos',
                        NEW i \in DOMAIN archivos'[g].bloques, NEW j \in DOMAIN archivos'[h].bloques,
                        archivos'[g].bloques[i] = archivos'[h].bloques[j],
                        archivos'[g].bloques[i] # Ninguno
                 PROVE  g = h /\ i = j
      BY DEF SinCompartir
    <3>1. /\ g \in DOMAIN archivos /\ h \in DOMAIN archivos
          /\ archivos'[g] = archivos[g] /\ archivos'[h] = archivos[h]
      BY <2>1
    <3> QED BY <3>1 DEF DiscoInv, SinCompartir
  <2>6. MapaFiel'
    <3>1. \A g \in DOMAIN archivos' : De(g)' = De(g)
      BY <2>1 DEF De
    <3>2. ASSUME NEW b, b \in Suyos' PROVE b \in Suyos /\ b \notin De(f)
      <4>1. PICK g \in DOMAIN archivos' : b \in De(g) /\ b # Ninguno
        BY <3>2, <3>1, EnSuyosDespues
      <4>2. g \in DOMAIN archivos /\ g # f
        BY <2>1
      <4>3. PICK i \in DOMAIN archivos[g].bloques : b = archivos[g].bloques[i]
        BY <4>1 DEF De
      <4>4. b \in Suyos
        BY <4>1, <4>2, <4>3, SuyosMarcados
      <4>5. ASSUME b \in De(f) PROVE FALSE
        <5>1. PICK j \in DOMAIN archivos[f].bloques : b = archivos[f].bloques[j]
          BY <4>5 DEF De
        <5> QED BY <5>1, <4>1, <4>2, <4>3, <1>2, ZenonT(60) DEF DiscoInv, SinCompartir
      <4> QED BY <4>4, <4>5
    <3>3. ASSUME NEW b, b \in Suyos, b \notin De(f) PROVE b \in Suyos'
      <4>1. PICK g \in DOMAIN archivos : b \in De(g) /\ b # Ninguno
        BY <3>3, EnSuyos
      <4>2. g \in DOMAIN archivos'
        BY <4>1, <3>3, <2>1
      <4>3. b \in De(g)'
        BY <4>1, <4>2, <3>1
      <4> QED BY <4>1, <4>2, <4>3, EnSuyosDespues
    <3>4. De(f) \cap perdidos = {}
      <4> SUFFICES ASSUME NEW b \in De(f), b \in perdidos PROVE FALSE
        OBVIOUS
      <4>1. PICK j \in DOMAIN archivos[f].bloques : b = archivos[f].bloques[j]
        BY DEF De
      <4>2. b # Ninguno
        BY SonBloques DEF DiscoInv, TypeOK
      <4> QED BY <4>1, <4>2, <1>2, SuyosMarcados
    <3>5. Suyos' = Suyos \ De(f)
      BY <3>2, <3>3
    <3> QED BY <3>4, <3>5, <2>2, <1>2 DEF DiscoInv, MapaFiel
  <2>7. MedidaFiel'
    <3>1. \A g \in DOMAIN archivos' : Medida(archivos'[g])
      BY <2>1 DEF DiscoInv, MedidaFiel
    <3> QED BY <3>1 DEF MedidaFiel, Medida
  <2> QED BY <2>3, <2>4, <2>5, <2>6, <2>7 DEF DiscoInv
<1> QED BY <1>1, <1>2 DEF borrarArchivo

LEMMA AlCaer ==
    ASSUME DiscoInv, NEW f \in DOMAIN archivos, NEW offset \in Offsets, NEW n \in Tamanios,
           NEW d \in Datos, NEW k \in Nat, caer(f, offset, n, d, k)
    PROVE  DiscoInv'
<1> DEFINE N == Nuevos(f, offset, k)
<1>1. N \subseteq (Bloques \ bitmap) \cup {Ninguno}
  BY SonNuevos
<1>2. archivos' = archivos /\ bitmap' = bitmap \cup (N \ {Ninguno})
      /\ perdidos' = perdidos \cup (N \ {Ninguno})
      /\ contenido' = escritoHasta(f, offset, n, d, k)
  BY DEF caer, marcarBloqueOcupado
<1> HIDE DEF N
<1>3. DiscoEntero'
  BY <1>2, Escrito DEF DiscoEntero, DiscoInv
<1>4. TypeOK'
  <2>1. \A b \in Bloques \cup {Ninguno} :
            contenido'[b] \in Seq(Datos \cup {Cero}) /\ Len(contenido'[b]) <= tamanioBloque
    BY <1>2, BloquesEnteros
  <2> QED BY <2>1, <1>1, <1>2 DEF DiscoInv, TypeOK
<1>5. SinCompartir' /\ MedidaFiel'
  BY <1>2 DEF DiscoInv, SinCompartir, MedidaFiel, Medida
<1>6. Suyos' = Suyos
  BY <1>2 DEF Suyos, De
<1>7. Suyos \subseteq bitmap
  BY DEF DiscoInv, MapaFiel
<1>8. MapaFiel'
  BY <1>1, <1>2, <1>6, <1>7 DEF DiscoInv, MapaFiel
<1> QED BY <1>3, <1>4, <1>5, <1>8 DEF DiscoInv

(* The step that saves what was written, the last one of escribirDatosArchivo. *)
guardar(f, offset, n, d) ==
    LET total == totalBloques(f, offset, n) IN
    /\ ~ConHueco(f, offset)
    /\ contenido' = escritoHasta(f, offset, n, d, total)
    /\ bitmap' = marcarBloqueOcupado(bitmap, Nuevos(f, offset, total))
    /\ archivos' = [archivos EXCEPT ![f] = [tamanio |-> tamanioGuardar(f, offset, n),
                                            bloques |-> bloquesHasta(f, offset, total)]]
    /\ respuesta' = Respuesta("ESCRIBIR_OK", f, offset, [i \in 1 .. n |-> d])
    /\ UNCHANGED perdidos

LEMMA AlEscribir ==
    ASSUME DiscoInv, NEW f \in Archivos, NEW offset \in Offsets, NEW n \in Tamanios, NEW d \in Datos,
           escribirDatosArchivo(f, offset, n, d)
    PROVE  \/ /\ UNCHANGED <<bitmap, archivos, contenido, perdidos>>
              /\ respuesta'.codigo \in {"ESCRIBIR_ERROR", "NO_HAY_ESPACIO"}
           \/ /\ f \in DOMAIN archivos /\ respuesta'.codigo = "cae"
              /\ \E k \in Nat : caer(f, offset, n, d, k)
           \/ /\ f \in DOMAIN archivos
              /\ hayXBloquesLibres(bitmap, cantNuevosBloques(f, offset, n))
              /\ guardar(f, offset, n, d)
<1>1. CASE f \notin DOMAIN archivos
  BY <1>1 DEF escribirDatosArchivo, Responder, Respuesta
<1>2. CASE f \in DOMAIN archivos /\ ~hayXBloquesLibres(bitmap, cantNuevosBloques(f, offset, n))
  BY <1>2 DEF escribirDatosArchivo, Responder, Respuesta
<1>3. CASE f \in DOMAIN archivos /\ hayXBloquesLibres(bitmap, cantNuevosBloques(f, offset, n))
  <2>1. \/ \E k \in startBlock(offset) .. totalBloques(f, offset, n) : caer(f, offset, n, d, k)
        \/ guardar(f, offset, n, d)
    BY <1>3 DEF escribirDatosArchivo, guardar
  <2>2. startBlock(offset) .. totalBloques(f, offset, n) \subseteq Nat
    BY <1>3, Totales, Pedido
  <2>3. ASSUME NEW k, caer(f, offset, n, d, k) PROVE respuesta'.codigo = "cae"
    BY <2>3 DEF caer, Respuesta
  <2> QED BY <2>1, <2>2, <2>3, <1>3
<1> QED BY <1>1, <1>2, <1>3

(* The names the rest of the proofs use for what guardar does. *)
LEMMA Guardado ==
    ASSUME DiscoInv, NEW f \in DOMAIN archivos, NEW offset \in Offsets, NEW n \in Tamanios,
           NEW d \in Datos, guardar(f, offset, n, d)
    PROVE  LET bs == bloquesHasta(f, offset, totalBloques(f, offset, n))
               L == Len(archivos[f].bloques) IN
           /\ DOMAIN archivos' = DOMAIN archivos
           /\ \A g \in DOMAIN archivos : g # f => archivos'[g] = archivos[g]
           /\ archivos'[f].bloques = bs
           /\ archivos'[f].tamanio = (IF offset + n >= archivos[f].tamanio THEN offset + n
                                      ELSE archivos[f].tamanio)
           /\ archivos'[f] = [tamanio |-> archivos'[f].tamanio, bloques |-> bs]
           /\ bs \in Seq(Bloques \cup {Ninguno}) /\ DOMAIN bs = 1 .. Len(bs)
           /\ Len(bs) = totalBloques(f, offset, n)
           /\ \A i \in 1 .. Len(bs) :
                 /\ i <= L => bs[i] = archivos[f].bloques[i]
                 /\ i > L => bs[i] = obtenerBloqueVacio(bitmap, i - L)
                 /\ i > L /\ bs[i] # Ninguno => bs[i] \in Bloques \ bitmap
<1> DEFINE total == totalBloques(f, offset, n)
           bs == bloquesHasta(f, offset, total)
           L == Len(archivos[f].bloques)
<1>1. /\ total \in Nat /\ L \in Nat /\ total >= L /\ Primero(f, offset) = L
      /\ archivos[f].tamanio \in Nat /\ offset + n \in Nat
  BY Totales, UnArchivo, Pedido, SMTT(30) DEF guardar
<1>2. archivos' = [archivos EXCEPT ![f] = [tamanio |-> tamanioGuardar(f, offset, n), bloques |-> bs]]
  BY DEF guardar
<1>3. tamanioGuardar(f, offset, n) = IF offset + n >= archivos[f].tamanio THEN offset + n
                                      ELSE archivos[f].tamanio
  BY <1>1, MayorDeDos DEF tamanioGuardar
<1>4. Len(bs) = total /\ bs \in Seq(Bloques \cup {Ninguno}) /\ DOMAIN bs = 1 .. Len(bs)
  BY <1>1, Hasta
<1>5. ASSUME NEW i \in 1 .. Len(bs)
      PROVE  /\ i <= L => bs[i] = archivos[f].bloques[i]
             /\ i > L => bs[i] = obtenerBloqueVacio(bitmap, i - L)
             /\ i > L /\ bs[i] # Ninguno => bs[i] \in Bloques \ bitmap
  <2>1. bs[i] = IF i <= L THEN archivos[f].bloques[i]
                ELSE IF i <= L THEN Ninguno ELSE obtenerBloqueVacio(bitmap, i - L)
    BY <1>1, Hasta, SMTT(30)
  <2>2. bs[i] # Ninguno /\ i > L => bs[i] \in Bloques \ bitmap
    BY <1>1, Hasta
  <2>3. i > L => ~(i <= L)
    BY <1>1, <1>4
  <2> QED BY <2>1, <2>2, <2>3
<1> HIDE DEF bs
<1>6. /\ DOMAIN archivos' = DOMAIN archivos
      /\ \A g \in DOMAIN archivos : g # f => archivos'[g] = archivos[g]
      /\ archivos'[f] = [tamanio |-> tamanioGuardar(f, offset, n), bloques |-> bs]
  BY <1>2
<1>7. archivos'[f].tamanio = tamanioGuardar(f, offset, n) /\ archivos'[f].bloques = bs
  BY <1>6
<1> QED BY <1>3, <1>4, <1>5, <1>6, <1>7 DEF bs

LEMMA GuardaBloques ==
    ASSUME DiscoInv, NEW f \in DOMAIN archivos, NEW offset \in Offsets, NEW n \in Tamanios,
           NEW d \in Datos, guardar(f, offset, n, d)
    PROVE  archivos'[f].bloques = bloquesHasta(f, offset, totalBloques(f, offset, n))
BY Guardado, ZenonT(60)

LEMMA GuardaLargo ==
    ASSUME DiscoInv, NEW f \in DOMAIN archivos, NEW offset \in Offsets, NEW n \in Tamanios,
           NEW d \in Datos, guardar(f, offset, n, d)
    PROVE  LET bs == bloquesHasta(f, offset, totalBloques(f, offset, n)) IN DOMAIN bs = 1 .. Len(bs)
BY Guardado, ZenonT(60)

LEMMA GuardaOtros ==
    ASSUME DiscoInv, NEW f \in DOMAIN archivos, NEW offset \in Offsets, NEW n \in Tamanios,
           NEW d \in Datos, guardar(f, offset, n, d)
    PROVE  /\ DOMAIN archivos' = DOMAIN archivos
           /\ \A g \in DOMAIN archivos : g # f => archivos'[g] = archivos[g]
BY Guardado, ZenonT(60)

LEMMA AlGuardar ==
    ASSUME DiscoInv, NEW f \in DOMAIN archivos, NEW offset \in Offsets, NEW n \in Tamanios,
           NEW d \in Datos, guardar(f, offset, n, d)
    PROVE  DiscoInv'
<1> DEFINE total == totalBloques(f, offset, n)
           bs == bloquesHasta(f, offset, total)
           L == Len(archivos[f].bloques)
           N == Nuevos(f, offset, total)
<1>1. /\ total \in Nat \ {0} /\ L \in Nat /\ total >= L
      /\ f \in Archivos
      /\ total = IF divAndRoundUp(offset + n) >= L THEN divAndRoundUp(offset + n) ELSE L
  BY Totales, UnArchivo
<1>2. N \subseteq (Bloques \ bitmap) \cup {Ninguno}
  BY <1>1, SonNuevos
<1>3. bitmap' = bitmap \cup (N \ {Ninguno}) /\ perdidos' = perdidos
      /\ contenido' = escritoHasta(f, offset, n, d, total)
  BY DEF guardar, marcarBloqueOcupado
<1>4. /\ DOMAIN archivos' = DOMAIN archivos
      /\ \A g \in DOMAIN archivos : g # f => archivos'[g] = archivos[g]
      /\ archivos'[f].bloques = bs
      /\ archivos'[f].tamanio = (IF offset + n >= archivos[f].tamanio THEN offset + n
                                 ELSE archivos[f].tamanio)
      /\ archivos'[f] = [tamanio |-> archivos'[f].tamanio, bloques |-> bs]
  <2>1. archivos'[f].tamanio = (IF offset + n >= archivos[f].tamanio THEN offset + n
                                ELSE archivos[f].tamanio)
    BY Guardado, ZenonT(60)
  <2>2. archivos'[f] = [tamanio |-> archivos'[f].tamanio, bloques |-> bs]
    BY Guardado, ZenonT(60)
  <2>3. DOMAIN archivos' = DOMAIN archivos /\ \A g \in DOMAIN archivos : g # f => archivos'[g] = archivos[g]
    BY GuardaOtros
  <2>4. archivos'[f].bloques = bs
    BY GuardaBloques
  <2> QED BY <2>1, <2>2, <2>3, <2>4
<1>5. bs \in Seq(Bloques \cup {Ninguno}) /\ DOMAIN bs = 1 .. Len(bs) /\ Len(bs) = total
  BY <1>1, Hasta
<1>6. \A i \in 1 .. Len(bs) :
         /\ i <= L => bs[i] = archivos[f].bloques[i]
         /\ i > L => bs[i] = obtenerBloqueVacio(bitmap, i - L)
         /\ i > L /\ bs[i] # Ninguno => bs[i] \in Bloques \ bitmap
  BY Guardado
<1>7. /\ \A i \in 1 .. Len(bs) : i > L => bs[i] \in N \cup {Ninguno}
      /\ \A b \in N : \E j \in 1 .. Len(bs) : b = bs[j]
  BY <1>1, SonNuevos
<1>8. \A i, j \in 1 .. Len(bs) : bs[i] # Ninguno /\ bs[i] = bs[j] => i = j
  BY <1>1, HastaDistintos
<1> HIDE DEF bs, N, total
<1>9. DiscoEntero'
  <2>1. total \in Nat
    BY <1>1
  <2>2. DOMAIN escritoHasta(f, offset, n, d, total) = DOMAIN contenido
    BY <2>1, Escrito
  <2> QED BY <2>2, <1>3 DEF DiscoEntero, DiscoInv
<1>10. TypeOK'
  <2>1. \A b \in Bloques \cup {Ninguno} :
            contenido'[b] \in Seq(Datos \cup {Cero}) /\ Len(contenido'[b]) <= tamanioBloque
    BY <1>1, <1>3, BloquesEnteros
  <2>2. bitmap' \subseteq Bloques /\ perdidos' \subseteq Bloques /\ DOMAIN archivos' \subseteq Archivos
    BY <1>2, <1>3, <1>4 DEF DiscoInv, TypeOK
  <2>3. archivos'[f] \in [tamanio : Nat, bloques : Seq(Bloques \cup {Ninguno})]
    <3>1. archivos'[f].tamanio \in Nat
      BY <1>4, UnArchivo, Pedido
    <3> QED BY <3>1, <1>4, <1>5
  <2>4. \A g \in DOMAIN archivos' :
           archivos'[g] \in [tamanio : Nat, bloques : Seq(Bloques \cup {Ninguno})]
    BY <2>3, <1>4 DEF DiscoInv, TypeOK
  <2> QED BY <2>1, <2>2, <2>4 DEF TypeOK
<1>11. ASSUME NEW g \in DOMAIN archivos, g # f, NEW i \in 1 .. Len(bs), bs[i] # Ninguno,
              NEW j \in DOMAIN archivos[g].bloques, bs[i] = archivos[g].bloques[j]
       PROVE  FALSE
  <2>1. bs[i] \in bitmap
    BY <1>11, SuyosMarcados
  <2>2. ~(i > L)
    BY <2>1, <1>6, <1>11
  <2>3. i <= L /\ i \in DOMAIN archivos[f].bloques
    BY <2>2, <1>1, <1>5, UnArchivo
  <2>4. bs[i] = archivos[f].bloques[i]
    BY <2>3, <1>6
  <2> QED BY <2>3, <2>4, <1>11 DEF DiscoInv, SinCompartir
<1>12. SinCompartir'
  <2> SUFFICES ASSUME NEW g \in DOMAIN archivos', NEW h \in DOMAIN archivos',
                      NEW i \in DOMAIN archivos'[g].bloques, NEW j \in DOMAIN archivos'[h].bloques,
                      archivos'[g].bloques[i] = archivos'[h].bloques[j],
                      archivos'[g].bloques[i] # Ninguno
               PROVE  g = h /\ i = j
    BY DEF SinCompartir
  <2>1. CASE g = f /\ h = f
    BY <2>1, <1>4, <1>5, <1>8
  <2>2. CASE g = f /\ h # f
    BY <2>2, <1>4, <1>5, <1>11
  <2>3. CASE g # f /\ h = f
    BY <2>3, <1>4, <1>5, <1>11
  <2>4. CASE g # f /\ h # f
    BY <2>4, <1>4 DEF DiscoInv, SinCompartir
  <2> QED BY <2>1, <2>2, <2>3, <2>4
<1>13. Suyos' = Suyos \cup (N \ {Ninguno})
  <2>1. \A g \in DOMAIN archivos : g # f => De(g)' = De(g)
    BY <1>4 DEF De
  <2>2. ASSUME NEW b, b # Ninguno PROVE b \in De(f)' <=> b \in De(f) \/ b \in N
    <3>1. ASSUME b \in De(f)' PROVE b \in De(f) \/ b \in N
      <4>1. PICK i \in 1 .. Len(bs) : b = bs[i]
        BY <3>1, <1>4, <1>5 DEF De
      <4>2. CASE i <= L
        <5>1. i \in DOMAIN archivos[f].bloques /\ b = archivos[f].bloques[i]
          BY <4>1, <4>2, <1>1, <1>5, <1>6, UnArchivo
        <5> QED BY <5>1 DEF De
      <4>3. CASE i > L
        BY <4>1, <4>3, <1>7, <2>2
      <4> QED BY <4>2, <4>3, <1>1, <1>5
    <3>2. ASSUME b \in De(f) PROVE b \in De(f)'
      <4>1. PICK i \in DOMAIN archivos[f].bloques : b = archivos[f].bloques[i]
        BY <3>2 DEF De
      <4>2. i \in 1 .. Len(bs) /\ i <= L
        BY <1>1, <1>5, UnArchivo
      <4>3. b = bs[i]
        BY <4>1, <4>2, <1>6
      <4> QED BY <4>2, <4>3, <1>4, <1>5 DEF De
    <3>3. ASSUME b \in N PROVE b \in De(f)'
      <4>1. PICK i \in 1 .. Len(bs) : b = bs[i]
        BY <3>3, <1>7
      <4> QED BY <4>1, <1>4, <1>5 DEF De
    <3> QED BY <3>1, <3>2, <3>3
  <2>3. ASSUME NEW b PROVE b \in Suyos' <=> b \in Suyos \cup (N \ {Ninguno})
    <3>1. b \in Suyos' <=> b # Ninguno /\ \E g \in DOMAIN archivos : b \in De(g)'
      BY EnSuyosDespues, <1>4
    <3>2. b \in Suyos <=> b # Ninguno /\ \E g \in DOMAIN archivos : b \in De(g)
      BY EnSuyos
    <3> QED BY <3>1, <3>2, <2>1, <2>2
  <2> QED BY <2>3
<1>14. MapaFiel'
  <2>1. perdidos \subseteq bitmap
    BY DEF DiscoInv, MapaFiel
  <2> QED BY <2>1, <1>2, <1>3, <1>13 DEF DiscoInv, MapaFiel
<1>15. Medida(archivos'[f])
  <2> DEFINE T == archivos[f].tamanio
             D == divAndRoundUp(offset + n)
             t == tamanioBloque
  <2>1. /\ T \in Nat /\ offset + n \in Nat /\ t \in Nat \ {0}
        /\ T <= L * t /\ (L > 1 => T > (L - 1) * t)
    BY UnArchivo, Pedido, SMTT(30) DEF Medida
  <2>2. D \in Nat \ {0} /\ offset + n <= D * t /\ (D > 1 => offset + n > (D - 1) * t)
    BY <2>1, Redondeo
  <2>3. archivos'[f].tamanio = (IF offset + n >= T THEN offset + n ELSE T)
        /\ Len(archivos'[f].bloques) = total
    BY <1>4, <1>5
  <2>4. CASE D >= L
    <3>1. total = D
      BY <2>4, <1>1
    <3>0. L \in Int /\ D \in Int /\ D - 1 \in Int /\ L <= D /\ t \in Nat \ {0}
      BY <2>1, <2>2, <2>4, <1>1
    <3> HIDE DEF D, L, t
    <3>2. L * t <= D * t /\ L * t \in Int /\ D * t \in Int /\ (D - 1) * t \in Int
      BY <3>0, Crece
    <3>3. T <= D * t
      BY <2>1, <3>2
    <3>4. (IF offset + n >= T THEN offset + n ELSE T) <= D * t
      BY <2>2, <3>3
    <3>5. D > 1 => (IF offset + n >= T THEN offset + n ELSE T) > (D - 1) * t
      BY <2>1, <2>2, <3>2
    <3> QED BY <3>1, <3>4, <3>5, <2>3 DEF Medida, D, L, t
  <2>5. CASE D < L
    <3>1. total = L
      BY <2>5, <2>2, <1>1
    <3>0. L \in Int /\ D \in Int /\ L - 1 \in Int /\ D <= L /\ t \in Nat \ {0}
      BY <2>1, <2>2, <2>5, <1>1
    <3> HIDE DEF D, L, t
    <3>2. D * t <= L * t /\ L * t \in Int /\ D * t \in Int /\ (L - 1) * t \in Int
      BY <3>0, Crece
    <3>3. offset + n <= L * t
      BY <2>1, <2>2, <3>2
    <3>4. (IF offset + n >= T THEN offset + n ELSE T) <= L * t
      BY <2>1, <3>3
    <3>5. L > 1 => (IF offset + n >= T THEN offset + n ELSE T) > (L - 1) * t
      BY <2>1, <3>2
    <3> QED BY <3>1, <3>4, <3>5, <2>3 DEF Medida, D, L, t
  <2> QED BY <2>4, <2>5, <2>2, <1>1
<1>16. MedidaFiel'
  <2>1. \A g \in DOMAIN archivos' : Medida(archivos'[g])
    BY <1>4, <1>15 DEF DiscoInv, MedidaFiel
  <2> QED BY <2>1 DEF MedidaFiel, Medida
<1> QED BY <1>9, <1>10, <1>12, <1>14, <1>16 DEF DiscoInv

LEMMA DiscoInductiva == DiscoInv /\ [Next]_vars => DiscoInv'
<1> SUFFICES ASSUME DiscoInv, [Next]_vars PROVE DiscoInv'
  OBVIOUS
<1>1. CASE UNCHANGED vars
  BY <1>1, Quieto DEF vars
<1>2. ASSUME NEW f \in Archivos, crearArchivo(f) PROVE DiscoInv'
  BY <1>2, AlCrear
<1>3. ASSUME NEW f \in Archivos, borrarArchivo(f) PROVE DiscoInv'
  BY <1>3, AlBorrar
<1>4. ASSUME NEW f \in Archivos, NEW offset \in Offsets, NEW n \in Tamanios,
             leerDatosArchivo(f, offset, n)
      PROVE  DiscoInv'
  BY <1>4, Quieto DEF leerDatosArchivo
<1>5. ASSUME NEW f \in Archivos, NEW offset \in Offsets, NEW n \in Tamanios, NEW d \in Datos,
             escribirDatosArchivo(f, offset, n, d)
      PROVE  DiscoInv'
  BY <1>5, AlEscribir, Quieto, AlCaer, AlGuardar
<1> QED BY <1>1, <1>2, <1>3, <1>4, <1>5 DEF Next

(* TypeOK for every value of the constants: whatever the requests and      *)
(* wherever the process falls, the map names blocks, an array of blocks    *)
(* holds blocks or -1, and no block's file is longer than a block          *)
(* (escribirBloque).                                                       *)
THEOREM DiskTypes == Spec => []TypeOK
<1>1. DiscoInv => TypeOK
  BY DEF DiscoInv
<1> QED BY <1>1, AlEmpezar, DiscoInductiva, PTL DEF Spec

(* BloquesPropios for every value of the constants: no two files share a   *)
(* block, the map marks the blocks of the files and those a write lost,    *)
(* and a file has the blocks its size takes (crearArchivo,                 *)
(* escribirDatosArchivo, borrarArchivo).                                   *)
THEOREM BlocksOfTheirOwn == Spec => []BloquesPropios
<1>1. DiscoInv => BloquesPropios
  BY PartesDeBloquesPropios DEF DiscoInv
<1> QED BY <1>1, AlEmpezar, DiscoInductiva, PTL DEF Spec

-----------------------------------------------------------------------------
(* Counting the free blocks. *)

LEMMA Cuenta ==
    ASSUME NEW mapa, mapa \subseteq Bloques
    PROVE  /\ Libres(mapa) \in Nat
           /\ Cardinality((1 .. cantidadBloques) \ mapa) \in Nat
           /\ Libres(mapa) <= Cardinality((1 .. cantidadBloques) \ mapa)
           /\ Cardinality((1 .. cantidadBloques) \ mapa) <= Libres(mapa) + 1
<1> DEFINE C == cantidadBloques
           A == (1 .. C - 1) \ mapa
<1>1. C \in Nat \ {0} /\ C - 1 \in Nat
  BY FileSystemAssumption
<1>2. IsFiniteSet(A) /\ Cardinality(A) \in Nat
  <2>1. 1 \in Int /\ C - 1 \in Int
    BY <1>1
  <2>2. IsFiniteSet(1 .. C - 1)
    BY <2>1, FS_Interval
  <2>3. IsFiniteSet(A)
    BY <2>2, FS_Difference
  <2> QED BY <2>3, FS_CardinalityType
<1>3. (1 .. C) \ mapa = A \cup {C} /\ C \notin A
  BY <1>1, SonBloques
<1>4. Cardinality((1 .. C) \ mapa) = Cardinality(A) + 1
  BY <1>2, <1>3, FS_AddElement
<1>5. Bloques \ mapa = IF 0 \in mapa THEN A ELSE A \cup {0}
  BY <1>1 DEF Bloques
<1>6. 0 \notin A
  BY <1>1
<1>7. Libres(mapa) = IF 0 \in mapa THEN Cardinality(A) ELSE Cardinality(A) + 1
  BY <1>2, <1>5, <1>6, FS_AddElement DEF Libres
<1> QED BY <1>2, <1>4, <1>7

(* A write that takes more blocks than there are takes all of them. *)
LEMMA TomaTodos ==
    ASSUME DiscoInv, NEW f \in DOMAIN archivos, NEW offset \in Offsets, NEW n \in Tamanios,
           NEW d \in Datos, guardar(f, offset, n, d),
           cantNuevosBloques(f, offset, n) > Libres(bitmap)
    PROVE  Libres(bitmap') = 0
<1> DEFINE total == totalBloques(f, offset, n)
           bs == bloquesHasta(f, offset, total)
           L == Len(archivos[f].bloques)
           libres == Bloques \ bitmap
<1>1. bitmap \subseteq Bloques /\ libres \subseteq Nat /\ IsFiniteSet(libres)
  BY SonBloques, FS_Difference DEF DiscoInv, TypeOK
<1>2. Libres(bitmap) = Cardinality(libres) /\ Cardinality(libres) \in Nat
  BY <1>1, Numerados DEF Libres
<1>3. total \in Nat /\ L \in Nat /\ total - L > Cardinality(libres)
  BY <1>2, Totales, UnArchivo DEF cantNuevosBloques
<1>4. bitmap' = bitmap \cup (Nuevos(f, offset, total) \ {Ninguno})
  BY DEF guardar, marcarBloqueOcupado
<1>5. ASSUME NEW b \in libres PROVE b \in bitmap'
  <2>1. PICK r \in 0 .. Cardinality(libres) - 1 : r = Cardinality(Antes(libres, b))
    BY <1>1, Numerados
  <2>2. r + 1 \in Nat \ {0} /\ ~(r + 1 > Cardinality(libres))
    BY <2>1, <1>2
  <2>3. /\ obtenerBloqueVacio(bitmap, r + 1) # Ninguno
        /\ obtenerBloqueVacio(bitmap, r + 1) \in libres
        /\ Cardinality(Antes(libres, obtenerBloqueVacio(bitmap, r + 1))) = r + 1 - 1
    BY <2>2, <1>1, Encontrado
  <2>4. obtenerBloqueVacio(bitmap, r + 1) = b
    BY <2>1, <2>3, <1>1, Numerados
  <2>5. PICK i \in 1 .. total : i = L + (r + 1) /\ i > L /\ i - L = r + 1
    <3>1. L + (r + 1) \in 1 .. total /\ L + (r + 1) > L /\ L + (r + 1) - L = r + 1
      BY <2>1, <1>2, <1>3
    <3> DEFINE x == L + (r + 1)
    <3>2. x \in 1 .. total /\ x = L + (r + 1) /\ x > L /\ x - L = r + 1
      BY <3>1, <2>1, <1>2, <1>3
    <3> HIDE DEF x
    <3> QED BY <3>2
  <2>6. /\ Len(bs) = total
        /\ \A j \in 1 .. Len(bs) : j > L => bs[j] = obtenerBloqueVacio(bitmap, j - L)
    <3>1. Len(bs) = total
      BY Guardado
    <3>2. \A j \in 1 .. Len(bs) :
             /\ j <= L => bs[j] = archivos[f].bloques[j]
             /\ j > L => bs[j] = obtenerBloqueVacio(bitmap, j - L)
             /\ j > L /\ bs[j] # Ninguno => bs[j] \in Bloques \ bitmap
      BY Guardado
    <3> QED BY <3>1, <3>2
  <2>7. bs[i] = b
    <3>1. bs[i] = obtenerBloqueVacio(bitmap, i - L)
      BY <2>5, <2>6
    <3> QED BY <3>1, <2>4, <2>5
  <2>8. b # Ninguno
    BY <2>3, <2>4
  <2>9. b \in Nuevos(f, offset, total)
    <3>1. \A j \in 1 .. Len(bs) : j > L => bs[j] \in Nuevos(f, offset, total) \cup {Ninguno}
      BY <1>3, SonNuevos
    <3> QED BY <3>1, <2>5, <2>6, <2>7, <2>8
  <2> QED BY <2>8, <2>9, <1>4
<1>6. Bloques \ bitmap' = {}
  BY <1>4, <1>5
<1> QED BY <1>6, FS_EmptySet DEF Libres

ElEspacio ==
    LET r == respuesta'
        faltan == cantNuevosBloques(r.archivo, r.offset, Len(r.datos)) - Libres(bitmap) IN
    /\ r.codigo = "NO_HAY_ESPACIO" => faltan > 0
    /\ r.codigo = "ESCRIBIR_OK" /\ faltan > 0 => faltan = 1 /\ Libres(bitmap') = 0

(* What is answered, by request. *)
LEMMA Codigos ==
    ASSUME NEW f \in Archivos
    PROVE  /\ crearArchivo(f) =>
                 respuesta'.codigo \in {"NO_HAY_BLOQUES", "CREAR_ERROR", "CREAR_OK"}
           /\ borrarArchivo(f) => respuesta'.codigo \in {"BORRAR_OK", "BORRAR_ERROR"}
           /\ \A offset \in Offsets, n \in Tamanios :
                 leerDatosArchivo(f, offset, n) =>
                    respuesta'.codigo \in {"LECTURA_OK", "LECTURA_ERROR"}
<1>1. crearArchivo(f) => respuesta'.codigo \in {"NO_HAY_BLOQUES", "CREAR_ERROR", "CREAR_OK"}
  BY DEF crearArchivo, Responder, Respuesta
<1>2. borrarArchivo(f) => respuesta'.codigo \in {"BORRAR_OK", "BORRAR_ERROR"}
  BY DEF borrarArchivo, Responder, Respuesta
<1>3. ASSUME NEW offset \in Offsets, NEW n \in Tamanios, leerDatosArchivo(f, offset, n)
      PROVE  respuesta'.codigo \in {"LECTURA_OK", "LECTURA_ERROR"}
  BY <1>3 DEF leerDatosArchivo, Responder, Respuesta
<1> QED BY <1>1, <1>2, <1>3

(* The request a write answers. *)
LEMMA Contestada ==
    ASSUME DiscoInv, NEW f \in Archivos, NEW offset \in Offsets, NEW n \in Tamanios, NEW d \in Datos,
           escribirDatosArchivo(f, offset, n, d),
           respuesta'.codigo \in {"NO_HAY_ESPACIO", "ESCRIBIR_OK"}
    PROVE  /\ respuesta' = Respuesta(respuesta'.codigo, f, offset, [i \in 1 .. n |-> d])
           /\ f \in DOMAIN archivos
           /\ respuesta'.codigo = "NO_HAY_ESPACIO" =>
                 ~hayXBloquesLibres(bitmap, cantNuevosBloques(f, offset, n))
           /\ respuesta'.codigo = "ESCRIBIR_OK" =>
                 /\ hayXBloquesLibres(bitmap, cantNuevosBloques(f, offset, n))
                 /\ guardar(f, offset, n, d)
<1>1. CASE f \notin DOMAIN archivos
  <2>1. respuesta'.codigo = "ESCRIBIR_ERROR"
    BY <1>1 DEF escribirDatosArchivo, Responder, Respuesta
  <2> QED BY <2>1
<1>2. CASE f \in DOMAIN archivos /\ ~hayXBloquesLibres(bitmap, cantNuevosBloques(f, offset, n))
  <2>1. respuesta' = Respuesta("NO_HAY_ESPACIO", f, offset, [i \in 1 .. n |-> d])
    BY <1>2 DEF escribirDatosArchivo
  <2>2. respuesta'.codigo = "NO_HAY_ESPACIO"
    BY <2>1 DEF Respuesta
  <2> QED BY <2>1, <2>2, <1>2
<1>3. CASE f \in DOMAIN archivos /\ hayXBloquesLibres(bitmap, cantNuevosBloques(f, offset, n))
  <2>1. \/ \E k \in startBlock(offset) .. totalBloques(f, offset, n) : caer(f, offset, n, d, k)
        \/ guardar(f, offset, n, d)
    BY <1>3 DEF escribirDatosArchivo, guardar
  <2>2. ASSUME NEW k, caer(f, offset, n, d, k) PROVE FALSE
    <3>1. respuesta'.codigo = "cae"
      BY <2>2 DEF caer, Respuesta
    <3> QED BY <3>1
  <2>3. guardar(f, offset, n, d)
    BY <2>1, <2>2
  <2>4. respuesta' = Respuesta("ESCRIBIR_OK", f, offset, [i \in 1 .. n |-> d])
    BY <2>3 DEF guardar
  <2>5. respuesta'.codigo = "ESCRIBIR_OK"
    BY <2>4 DEF Respuesta
  <2> QED BY <2>3, <2>4, <2>5, <1>3
<1> QED BY <1>1, <1>2, <1>3

LEMMA AlContar == DiscoInv /\ [Next]_vars => [ElEspacio]_vars
<1> SUFFICES ASSUME DiscoInv, Next PROVE ElEspacio
  OBVIOUS
<1>1. ASSUME respuesta'.codigo \notin {"NO_HAY_ESPACIO", "ESCRIBIR_OK"} PROVE ElEspacio
  BY <1>1 DEF ElEspacio
<1>2. ASSUME NEW f \in Archivos, NEW offset \in Offsets, NEW n \in Tamanios, NEW d \in Datos,
             escribirDatosArchivo(f, offset, n, d),
             respuesta'.codigo \in {"NO_HAY_ESPACIO", "ESCRIBIR_OK"}
      PROVE  ElEspacio
  <2> DEFINE r == respuesta'
             x == cantNuevosBloques(f, offset, n)
             M == Cardinality((1 .. cantidadBloques) \ bitmap)
  <2>1. r = Respuesta(r.codigo, f, offset, [i \in 1 .. n |-> d]) /\ f \in DOMAIN archivos
    BY <1>2, Contestada
  <2>2. r.archivo = f /\ r.offset = offset /\ Len(r.datos) = n
    <3>1. r.archivo = f /\ r.offset = offset /\ r.datos = [i \in 1 .. n |-> d]
      BY <2>1 DEF Respuesta
    <3>2. n \in Nat
      BY Pedido
    <3> QED BY <3>1, <3>2
  <2>3. bitmap \subseteq Bloques
    BY DEF DiscoInv, TypeOK
  <2>4. /\ Libres(bitmap) \in Nat /\ M \in Nat
        /\ Libres(bitmap) <= M /\ M <= Libres(bitmap) + 1
    BY <2>3, Cuenta
  <2>5. x \in Nat
    BY <2>1, Totales, UnArchivo DEF cantNuevosBloques
  <2>6. /\ r.codigo = "NO_HAY_ESPACIO" => ~(M >= x)
        /\ r.codigo = "ESCRIBIR_OK" => M >= x /\ guardar(f, offset, n, d)
    BY <1>2, Contestada DEF hayXBloquesLibres
  <2>7. r.codigo = "NO_HAY_ESPACIO" => x - Libres(bitmap) > 0
    BY <2>4, <2>5, <2>6
  <2>8. ASSUME r.codigo = "ESCRIBIR_OK", x - Libres(bitmap) > 0
        PROVE  x - Libres(bitmap) = 1 /\ Libres(bitmap') = 0
    <3>1. x - Libres(bitmap) = 1 /\ x > Libres(bitmap)
      BY <2>4, <2>5, <2>6, <2>8
    <3>2. Libres(bitmap') = 0
      BY <3>1, <2>1, <2>6, <2>8, TomaTodos
    <3> QED BY <3>1, <3>2
  <2> HIDE DEF x
  <2>9. cantNuevosBloques(r.archivo, r.offset, Len(r.datos)) = x
    BY <2>2 DEF x
  <2> QED BY <2>7, <2>8, <2>9 DEF ElEspacio
<1>3. CASE respuesta'.codigo \in {"NO_HAY_ESPACIO", "ESCRIBIR_OK"}
  <2>1. ASSUME NEW f \in Archivos PROVE ~crearArchivo(f) /\ ~borrarArchivo(f)
    BY <1>3, Codigos
  <2>2. ASSUME NEW f \in Archivos, NEW offset \in Offsets, NEW n \in Tamanios
        PROVE  ~leerDatosArchivo(f, offset, n)
    BY <1>3, Codigos
  <2> QED BY <2>1, <2>2, <1>2, <1>3 DEF Next
<1> QED BY <1>1, <1>3

(* EspacioJusto for every value of the constants: hayXBloquesLibres is     *)
(* wrong by one block at most, always to the side of letting a write       *)
(* through, and the write it lets through takes the last free block.       *)
THEOREM SpaceIsCounted == Spec => EspacioJusto
<1>1. Spec => [][ElEspacio]_vars
  BY AlEmpezar, DiscoInductiva, AlContar, PTL DEF Spec
<1> QED BY <1>1 DEF EspacioJusto, ElEspacio

-----------------------------------------------------------------------------
(* Where a byte is. *)

(* Byte i of a request is in the block at whose turn it is handled, and at *)
(* the place of the buffer the turn handles.                               *)
LEMMA Turno ==
    ASSUME NEW offset \in Offsets, NEW n \in Tamanios, NEW cant \in Nat,
           offset + n <= cant * tamanioBloque, NEW i \in 1 .. n
    PROVE  LET q == (offset + i - 1) \div tamanioBloque IN
           /\ q \in Nat /\ q < cant /\ q \in Tocados(offset, n, cant)
           /\ Recorridos(offset, q) \in Nat /\ Recorridos(offset, q) < i
           /\ offsetBloque(offset, q) + i - Recorridos(offset, q) =
                 ((offset + i - 1) % tamanioBloque) + 1
           /\ (offset + i - 1) % tamanioBloque \in 0 .. tamanioBloque - 1
           /\ \A k \in Tocados(offset, n, cant) : Recorridos(offset, k) < i => k <= q
<1> DEFINE t == tamanioBloque
           s == startBlock(offset)
           z == offset + i - 1
           q == z \div t
<1>1. /\ offset \in Nat /\ n \in Nat /\ t \in Nat \ {0} /\ s \in Nat
      /\ s * t <= offset /\ offset < (s + 1) * t
      /\ offset % t = offset - s * t /\ i \in Nat /\ 1 <= i /\ i <= n /\ z \in Nat
  BY Pedido
<1>2. /\ q \in Nat /\ z % t \in 0 .. t - 1 /\ q * t <= z /\ z < (q + 1) * t /\ z % t = z - q * t
  BY <1>1, Cociente
<1> HIDE DEF t, s, q
<1>3. s * t \in Int /\ q * t \in Int /\ (q + 1) * t \in Int /\ cant * t \in Int /\ (s + 1) * t \in Int
  BY <1>1, <1>2, Crece
<1>4. q < cant
  <2>1. q * t < cant * t
    BY <1>1, <1>2, <1>3 DEF t
  <2> QED BY <2>1, <1>1, <1>2, Crece
<1>5. s <= q
  <2>1. s * t < (q + 1) * t
    BY <1>1, <1>2, <1>3
  <2>2. s < q + 1
    BY <2>1, <1>1, <1>2, Crece
  <2> QED BY <2>2, <1>1, <1>2
<1>6. /\ Recorridos(offset, q) \in Nat /\ Recorridos(offset, q) < i
      /\ offsetBloque(offset, q) + i - Recorridos(offset, q) = (z % t) + 1
  <2>1. CASE q = s
    <3>1. Recorridos(offset, q) = 0 /\ offsetBloque(offset, q) = offset % t
      BY <2>1 DEF Recorridos, offsetBloque, s, t
    <3>2. q * t = s * t
      BY <2>1
    <3> QED BY <3>1, <3>2, <1>1, <1>2, <1>3
  <2>2. CASE q # s
    <3>1. Recorridos(offset, q) = q * t - offset /\ offsetBloque(offset, q) = 0
      BY <2>2 DEF Recorridos, offsetBloque, s, t
    <3>2. (s + 1) * t <= q * t
      BY <2>2, <1>1, <1>2, <1>5, Crece
    <3> QED BY <3>1, <3>2, <1>1, <1>2, <1>3
  <2> QED BY <2>1, <2>2
<1>7. q \in Tocados(offset, n, cant)
  <2>1. q \in s .. cant - 1
    BY <1>1, <1>2, <1>4, <1>5
  <2>2. Recorridos(offset, q) < n
    BY <1>1, <1>6
  <2> QED BY <2>1, <2>2 DEF Tocados, s
<1>8. ASSUME NEW k \in Tocados(offset, n, cant), Recorridos(offset, k) < i PROVE k <= q
  <2>1. k \in s .. cant - 1 /\ k \in Int
    BY <1>1 DEF Tocados, s
  <2>2. CASE k = s
    BY <2>2, <1>5
  <2>3. CASE k # s
    <3>1. k * t - offset < i
      BY <2>3, <1>8 DEF Recorridos, s, t
    <3>2. k * t \in Int
      BY <2>1, <1>1, Crece
    <3>3. k * t < (q + 1) * t
      BY <3>1, <3>2, <1>1, <1>2, <1>3
    <3>4. k < q + 1
      BY <3>3, <2>1, <1>1, <1>2, Crece
    <3> QED BY <3>4, <2>1, <1>2
  <2> QED BY <2>2, <2>3
<1> QED BY <1>2, <1>4, <1>6, <1>7, <1>8 DEF q, t

LaLectura ==
    LET r == respuesta' IN
    r.codigo = "LECTURA_OK" =>
       \A i \in DOMAIN r.datos : r.datos[i] = Byte(r.archivo, r.offset + i)

LEMMA AlLeer == DiscoInv /\ [Next]_vars => [LaLectura]_vars
<1> SUFFICES ASSUME DiscoInv, Next PROVE LaLectura
  OBVIOUS
<1>1. CASE respuesta'.codigo # "LECTURA_OK"
  BY <1>1 DEF LaLectura
<1>2. ASSUME respuesta'.codigo = "LECTURA_OK",
             NEW f \in Archivos, NEW offset \in Offsets, NEW n \in Tamanios,
             leerDatosArchivo(f, offset, n)
      PROVE  LaLectura
  <2> DEFINE r == respuesta'
             bloques == archivos[f].bloques
             cant == Len(bloques)
             T == Tocados(offset, n, cant)
             en(i) == Max({k \in T : Recorridos(offset, k) < i})
  <2>1. /\ f \in DOMAIN archivos /\ offset + n <= archivos[f].tamanio
        /\ r = Respuesta("LECTURA_OK", f, offset, Leido(f, offset, n))
    BY <1>2 DEF leerDatosArchivo, Responder, Respuesta
  <2>2. r.archivo = f /\ r.offset = offset /\ r.datos = Leido(f, offset, n)
    BY <2>1 DEF Respuesta
  <2>3. cant \in Nat /\ offset \in Nat /\ n \in Nat /\ offset + n <= cant * tamanioBloque
    <3>1. /\ cant \in Nat /\ archivos[f].tamanio \in Nat /\ archivos[f].tamanio <= cant * tamanioBloque
      BY <2>1, UnArchivo DEF Medida
    <3>2. offset \in Nat /\ n \in Nat /\ tamanioBloque \in Nat \ {0}
      BY Pedido
    <3>3. cant * tamanioBloque \in Int
      BY <3>1, <3>2, Crece
    <3> QED BY <3>1, <3>2, <3>3, <2>1
  <2>4. Leido(f, offset, n) =
           [i \in 1 .. n |-> leerBloque(bloques[en(i) + 1],
                                        offsetBloque(offset, en(i)) + i - Recorridos(offset, en(i)))]
    BY DEF Leido
  <2>5. ASSUME NEW i \in 1 .. n PROVE Leido(f, offset, n)[i] = Byte(f, offset + i)
    <3> DEFINE q == (offset + i - 1) \div tamanioBloque
               U == {k \in T : Recorridos(offset, k) < i}
    <3>1. /\ q \in T /\ Recorridos(offset, q) < i
          /\ offsetBloque(offset, q) + i - Recorridos(offset, q) = ((offset + i - 1) % tamanioBloque) + 1
          /\ \A k \in T : Recorridos(offset, k) < i => k <= q
      BY <2>3, Turno
    <3>2. U \subseteq Nat /\ \A k \in U : k <= cant
      <4>1. startBlock(offset) \in Nat
        BY Pedido
      <4> QED BY <4>1, <2>3 DEF Tocados
    <3>3. q \in U /\ \A k \in U : k <= q
      BY <3>1
    <3> HIDE DEF q, U, T
    <3>4. Max(U) \in U /\ \A k \in U : Max(U) >= k
      BY <3>2, <3>3, <2>3, MayorDe
    <3>5. Max(U) = q
      <4>1. Max(U) \in Nat /\ q \in Nat /\ Max(U) <= q /\ Max(U) >= q
        BY <3>2, <3>3, <3>4
      <4> QED BY <4>1
    <3>6. Leido(f, offset, n)[i] =
             leerBloque(bloques[q + 1], offsetBloque(offset, q) + i - Recorridos(offset, q))
      BY <2>4, <3>5 DEF U
    <3>7. Byte(f, offset + i) = leerBloque(bloques[q + 1], ((offset + i - 1) % tamanioBloque) + 1)
      <4>1. BloqueDe(f, offset + i) = bloques[q + 1]
        BY <2>3 DEF BloqueDe, q
      <4> QED BY <4>1, <2>3 DEF Byte
    <3> QED BY <3>1, <3>6, <3>7
  <2>6. DOMAIN Leido(f, offset, n) = 1 .. n
    BY <2>4
  <2> QED BY <2>2, <2>5, <2>6 DEF LaLectura
<1>3. CASE respuesta'.codigo = "LECTURA_OK"
  <2>1. ASSUME NEW f \in Archivos PROVE ~crearArchivo(f) /\ ~borrarArchivo(f)
    BY <1>3, Codigos
  <2>2. ASSUME NEW f \in Archivos, NEW offset \in Offsets, NEW n \in Tamanios, NEW d \in Datos,
               escribirDatosArchivo(f, offset, n, d)
        PROVE  FALSE
    <3>1. respuesta'.codigo \in {"ESCRIBIR_ERROR", "NO_HAY_ESPACIO", "cae", "ESCRIBIR_OK"}
      BY <2>2, AlEscribir DEF guardar, Respuesta
    <3> QED BY <3>1, <1>3
  <2> QED BY <2>1, <2>2, <1>2, <1>3 DEF Next
<1> QED BY <1>1, <1>3

(* LecturaFiel for every value of the constants: leerDatosArchivo answers  *)
(* the bytes of the file, from any offset and over any number of blocks.   *)
THEOREM ReadsAreFaithful == Spec => LecturaFiel
<1>1. Spec => [][LaLectura]_vars
  BY AlEmpezar, DiscoInductiva, AlLeer, PTL DEF Spec
<1> QED BY <1>1 DEF LecturaFiel, LaLectura

LaEscritura(f, offset, datos) ==
    respuesta' = Respuesta("ESCRIBIR_OK", f, offset, datos) =>
       /\ \A i \in DOMAIN datos :
             BloqueDe(f, offset + i)' # Ninguno => Byte(f, offset + i)' = datos[i]
       /\ \A i \in 1 .. archivos[f].tamanio :
             startBlock(i - 1) \notin
                 startBlock(offset) .. startBlock(Max({offset, offset + Len(datos) - 1}))
             => Conservado(f, i)
       /\ \A g \in DOMAIN archivos \ {f} :
             \A i \in 1 .. archivos[g].tamanio : Conservado(g, i)

(* Where a byte of a file is before a step and after it. *)
LEMMA ByteAntes ==
    ASSUME NEW f, NEW i
    PROVE  LET b == archivos[f].bloques[((i - 1) \div tamanioBloque) + 1]
               j == ((i - 1) % tamanioBloque) + 1 IN
           /\ BloqueDe(f, i) = b
           /\ Byte(f, i) = IF j <= Len(contenido[b]) THEN contenido[b][j] ELSE Basura
  BY DEF BloqueDe, Byte, leerBloque

LEMMA ByteDespues ==
    ASSUME NEW f, NEW i
    PROVE  LET b == archivos'[f].bloques[((i - 1) \div tamanioBloque) + 1]
               j == ((i - 1) % tamanioBloque) + 1 IN
           /\ BloqueDe(f, i)' = b
           /\ Byte(f, i)' = IF j <= Len(contenido'[b]) THEN contenido'[b][j] ELSE Basura
  BY DEF BloqueDe, Byte, leerBloque

(* Byte i of a file is in one of its blocks. *)
LEMMA EnUnBloque ==
    ASSUME DiscoInv, NEW g \in DOMAIN archivos, NEW i \in 1 .. archivos[g].tamanio
    PROVE  /\ (i - 1) \div tamanioBloque \in Nat
           /\ ((i - 1) \div tamanioBloque) + 1 \in DOMAIN archivos[g].bloques
           /\ ((i - 1) \div tamanioBloque) * tamanioBloque <= i - 1
           /\ i - 1 < (((i - 1) \div tamanioBloque) + 1) * tamanioBloque
<1> DEFINE t == tamanioBloque
           q == (i - 1) \div t
           L == Len(archivos[g].bloques)
<1>1. /\ L \in Nat /\ DOMAIN archivos[g].bloques = 1 .. L /\ archivos[g].tamanio \in Nat
      /\ archivos[g].tamanio <= L * t
  BY UnArchivo DEF Medida
<1>2. t \in Nat \ {0} /\ i - 1 \in Nat /\ i <= archivos[g].tamanio
  BY <1>1, FileSystemAssumption
<1>3. q \in Nat /\ q * t <= i - 1 /\ i - 1 < (q + 1) * t
  BY <1>2, Cociente
<1> HIDE DEF q, t
<1>4. q * t \in Int /\ L * t \in Int
  BY <1>1, <1>2, <1>3, Crece
<1>5. q * t < L * t
  BY <1>1, <1>2, <1>3, <1>4
<1>6. q < L
  BY <1>5, <1>1, <1>2, <1>3, Crece
<1>7. q + 1 \in 1 .. L
  BY <1>6, <1>1, <1>3
<1> QED BY <1>1, <1>3, <1>7 DEF q, t

(* A block no turn of the loop wrote in is as it was. *)
LEMMA NoTocado ==
    ASSUME DiscoInv, NEW f \in DOMAIN archivos, NEW offset \in Offsets, NEW n \in Tamanios,
           NEW d \in Datos, guardar(f, offset, n, d),
           NEW b \in Bloques \cup {Ninguno},
           \A j \in Hechos(f, offset, n, totalBloques(f, offset, n)) : archivos'[f].bloques[j + 1] # b
    PROVE  contenido'[b] = contenido[b]
<1> DEFINE total == totalBloques(f, offset, n)
           bs == bloquesHasta(f, offset, total)
<1>1. total \in Nat /\ contenido' = escritoHasta(f, offset, n, d, total)
  BY Totales DEF guardar
<1>2. archivos'[f].bloques = bs
  BY GuardaBloques
<1>3. b \in DOMAIN contenido
  BY DEF DiscoInv, DiscoEntero
<1> QED BY <1>1, <1>2, <1>3, Escrito

(* The bytes that were given. *)
LEMMA LosDados ==
    ASSUME DiscoInv, NEW f \in DOMAIN archivos, NEW offset \in Offsets, NEW n \in Tamanios,
           NEW d \in Datos, guardar(f, offset, n, d), NEW i \in 1 .. n,
           BloqueDe(f, offset + i)' # Ninguno
    PROVE  Byte(f, offset + i)' = d
<1> DEFINE total == totalBloques(f, offset, n)
           bs == bloquesHasta(f, offset, total)
           t == tamanioBloque
           q == (offset + i - 1) \div t
           O == offsetBloque(offset, q)
           R == Recorridos(offset, q)
           l == Largo(offset, n, q)
           H == Hechos(f, offset, n, total)
           b == bs[q + 1]
           x == ((offset + i - 1) % t) + 1
<1>1. /\ offset \in Nat /\ n \in Nat /\ t \in Nat \ {0} /\ total \in Nat /\ Len(bs) = total
      /\ archivos'[f].bloques = bs /\ bs \in Seq(Bloques \cup {Ninguno})
      /\ contenido' = escritoHasta(f, offset, n, d, total)
  <2>1. offset \in Nat /\ n \in Nat /\ t \in Nat \ {0} /\ total \in Nat
    BY Pedido, Totales
  <2>2. Len(bs) = total /\ archivos'[f].bloques = bs /\ bs \in Seq(Bloques \cup {Ninguno})
    BY Guardado
  <2> QED BY <2>1, <2>2 DEF guardar
<1>2. offset + n <= total * t
  <2> DEFINE D == divAndRoundUp(offset + n)
  <2>1. D \in Nat /\ offset + n <= D * t
    BY <1>1, offset + n \in Nat, Redondeo
  <2>2. D <= total
    BY <2>1, Totales, UnArchivo
  <2> HIDE DEF D, total, t
  <2>3. D * t <= total * t /\ D * t \in Int /\ total * t \in Int
    BY <2>1, <2>2, <1>1, Crece
  <2> QED BY <2>1, <2>3, <1>1
<1>3. /\ q \in Nat /\ q < total /\ q \in Tocados(offset, n, total)
      /\ R \in Nat /\ R < i /\ O + i - R = x /\ (offset + i - 1) % t \in 0 .. t - 1
  BY <1>1, <1>2, Turno
<1>4. q \in H
  BY <1>3 DEF Hechos
<1>5. /\ q + 1 \in 1 .. Len(bs) /\ O \in 0 .. t - 1 /\ l \in Nat /\ O + l <= t
      /\ l = IF t - O <= n - R THEN t - O ELSE n - R
  BY <1>1, <1>4, Vuelta, SMTT(30)
<1>6. /\ BloqueDe(f, offset + i)' = b
      /\ Byte(f, offset + i)' = IF x <= Len(contenido'[b]) THEN contenido'[b][x] ELSE Basura
  <2> HIDE DEF bs
  <2>1. offset + i - 1 = (offset + i) - 1
    BY <1>1
  <2> QED BY <2>1, <1>1, ByteDespues
<1>7. b # Ninguno /\ b \in DOMAIN contenido
  <2>1. b \in Bloques \cup {Ninguno}
    BY <1>1, <1>5
  <2> QED BY <2>1, <1>6 DEF DiscoInv, DiscoEntero
<1>8. contenido'[b] = escribirBloque(l, O, d)
  <2>1. PICK j \in H : /\ bs[j + 1] = b
                       /\ contenido'[b] = escribirBloque(Largo(offset, n, j), offsetBloque(offset, j), d)
    BY <1>1, <1>4, <1>7, Escrito
  <2>2. j + 1 \in 1 .. Len(bs) /\ j \in Nat
    BY <1>1, Vuelta
  <2>3. j + 1 = q + 1
    <3>1. /\ total \in Nat /\ j + 1 \in 1 .. Len(bs) /\ q + 1 \in 1 .. Len(bs)
          /\ bs[j + 1] # Ninguno /\ bs[j + 1] = bs[q + 1]
      BY <2>1, <2>2, <1>1, <1>5, <1>7
    <3> QED BY <3>1, HastaDistintos
  <2>4. j = q
    BY <2>2, <2>3, <1>3
  <2> QED BY <2>1, <2>4
<1> HIDE DEF x, O, R, l, q, b, t, total, bs, H
<1>9. l > 0 /\ x \in O + 1 .. O + l
  <2>1. i \in Nat /\ i <= n /\ i >= 1 /\ O \in Nat /\ x \in Nat /\ x <= t
    BY <1>1, <1>3, <1>5 DEF x, t
  <2>2. CASE t - O <= n - R
    <3>1. l = t - O
      BY <2>2, <1>5
    <3> QED BY <3>1, <2>1, <1>1, <1>3, <1>5, SMTT(30)
  <2>3. CASE ~(t - O <= n - R)
    <3>1. l = n - R /\ O + i - R = x
      BY <2>3, <1>3, <1>5
    <3>2. i - R >= 1 /\ i - R <= n - R /\ i - R \in Int /\ n - R \in Int
      BY <2>1, <1>1, <1>3, SMTT(30)
    <3>3. l > 0 /\ x >= O + 1 /\ x <= O + l
      BY <3>1, <3>2, <2>1
    <3> QED BY <3>3, <2>1, <1>5
  <2> QED BY <2>2, <2>3
<1>10. /\ Len(escribirBloque(l, O, d)) = O + l
       /\ escribirBloque(l, O, d)[x] = d
  <2>1. O \in Nat /\ O + l <= tamanioBloque
    BY <1>1, <1>5 DEF t
  <2>2. /\ Len(escribirBloque(l, O, d)) = IF l = 0 THEN 0 ELSE O + l
        /\ \A y \in O + 1 .. O + l : escribirBloque(l, O, d)[y] = d
    BY <2>1, <1>5, Cabe, SMTT(30)
  <2> QED BY <2>2, <1>9, <1>5
<1>11. x <= O + l
  BY <1>9, <1>5, <1>1
<1> QED BY <1>6, <1>8, <1>10, <1>11

(* The bytes of the file in the blocks the write does not go through. *)
LEMMA LosDelArchivo ==
    ASSUME DiscoInv, NEW f \in DOMAIN archivos, NEW offset \in Offsets, NEW n \in Tamanios,
           NEW d \in Datos, guardar(f, offset, n, d), NEW i \in 1 .. archivos[f].tamanio,
           startBlock(i - 1) \notin startBlock(offset) .. startBlock(Max({offset, offset + n - 1}))
    PROVE  Conservado(f, i)
<1> DEFINE total == totalBloques(f, offset, n)
           bs == bloquesHasta(f, offset, total)
           t == tamanioBloque
           q == (i - 1) \div t
           b == archivos[f].bloques[q + 1]
           m == Max({offset, offset + n - 1})
           L == Len(archivos[f].bloques)
<1> SUFFICES ASSUME BloqueDe(f, i) # Ninguno PROVE Byte(f, i)' = Byte(f, i)
  BY DEF Conservado
<1>1. /\ offset \in Nat /\ n \in Nat /\ t \in Nat \ {0} /\ total \in Nat /\ total >= L
      /\ L \in Nat /\ DOMAIN archivos[f].bloques = 1 .. L
  BY Pedido, Totales, UnArchivo
<1>2. /\ Len(bs) = total /\ archivos'[f].bloques = bs
      /\ \A k \in 1 .. Len(bs) :
            /\ k <= L => bs[k] = archivos[f].bloques[k]
            /\ k > L => bs[k] = obtenerBloqueVacio(bitmap, k - L)
            /\ k > L /\ bs[k] # Ninguno => bs[k] \in Bloques \ bitmap
  BY Guardado, ZenonT(60)
<1>3. q \in Nat /\ q + 1 \in DOMAIN archivos[f].bloques /\ q * t <= i - 1 /\ i - 1 < (q + 1) * t
  BY EnUnBloque
<1>4. q + 1 \in 1 .. Len(bs) /\ bs[q + 1] = b
  <2>1. q + 1 \in 1 .. Len(bs) /\ q + 1 <= L
    BY <1>1, <1>2, <1>3
  <2> QED BY <2>1, <1>2
<1>5. b # Ninguno /\ b \in Bloques \cup {Ninguno}
  <2>1. BloqueDe(f, i) = b
    BY ByteAntes
  <2> QED BY <2>1, <1>3, UnArchivo
<1>6. ASSUME NEW j \in Hechos(f, offset, n, total), bs[j + 1] = b PROVE FALSE
  <2>1. j + 1 \in 1 .. Len(bs) /\ j \in Nat /\ j >= startBlock(offset)
    BY <1>1, Vuelta
  <2>2. j + 1 = q + 1
    <3>1. /\ total \in Nat /\ j + 1 \in 1 .. Len(bs) /\ q + 1 \in 1 .. Len(bs)
          /\ bs[j + 1] # Ninguno /\ bs[j + 1] = bs[q + 1]
      BY <2>1, <1>1, <1>4, <1>5, <1>6
    <3> QED BY <3>1, HastaDistintos
  <2>3. j = q
    BY <2>1, <2>2, <1>3
  <2>4. m = IF offset >= offset + n - 1 THEN offset ELSE offset + n - 1
    BY <1>1, MayorDeDos
  <2>5. m \in Nat /\ m >= offset
    BY <2>4, <1>1
  <2>6. startBlock(m) \in Nat /\ m < (startBlock(m) + 1) * t
    BY <2>5, <1>1, Cociente DEF startBlock
  <2>7. j \in Tocados(offset, n, total)
    BY DEF Hechos
  <2>8. j * t <= m
    <3>1. CASE j = startBlock(offset)
      <4>1. startBlock(offset) * t <= offset /\ startBlock(offset) \in Nat
        BY Pedido
      <4>2. PICK y \in Int : y = startBlock(offset) * t
        BY <4>1, <1>1, Crece
      <4>3. y <= m
        BY <4>1, <4>2, <2>5, <1>1
      <4> QED BY <3>1, <4>2, <4>3
    <3>2. CASE j # startBlock(offset)
      <4>1. j * t - offset < n
        BY <3>2, <2>7 DEF Tocados, Recorridos
      <4>2. PICK y \in Int : y = j * t
        BY <2>1, <1>1, Crece
      <4>3. y <= offset + n - 1
        BY <4>1, <4>2, <1>1
      <4>4. y <= m
        BY <4>3, <2>4, <1>1
      <4> QED BY <4>2, <4>4
    <3> QED BY <3>1, <3>2
  <2>9. j <= startBlock(m)
    <3> HIDE DEF m, t
    <3>1. PICK y \in Int, z \in Int : y = j * t /\ z = (startBlock(m) + 1) * t
      BY <2>1, <2>6, <1>1, startBlock(m) + 1 \in Nat, Crece
    <3>2. j * t < (startBlock(m) + 1) * t
      BY <3>1, <2>5, <2>6, <2>8
    <3>3. j < startBlock(m) + 1
      BY <3>2, <2>1, <2>6, <1>1, startBlock(m) + 1 \in Int, Crece
    <3> QED BY <3>3, <2>1, <2>6
  <2>10. startBlock(i - 1) = j
    BY <2>3 DEF startBlock
  <2>11. startBlock(offset) \in Nat
    BY Pedido
  <2>12. j \in startBlock(offset) .. startBlock(m)
    BY <2>1, <2>6, <2>9, <2>11
  <2> QED BY <2>10, <2>12
<1>7. contenido'[b] = contenido[b]
  BY <1>2, <1>5, <1>6, NoTocado
<1>8. archivos'[f].bloques[q + 1] = b
  BY <1>2, <1>4
<1>9. Byte(f, i) = IF ((i - 1) % t) + 1 <= Len(contenido[b])
                   THEN contenido[b][((i - 1) % t) + 1] ELSE Basura
  BY ByteAntes
<1>10. Byte(f, i)' = IF ((i - 1) % t) + 1 <= Len(contenido'[b])
                     THEN contenido'[b][((i - 1) % t) + 1] ELSE Basura
  BY <1>8, ByteDespues
<1> QED BY <1>7, <1>9, <1>10

(* The bytes of the other files. *)
LEMMA LosDeOtros ==
    ASSUME DiscoInv, NEW f \in DOMAIN archivos, NEW offset \in Offsets, NEW n \in Tamanios,
           NEW d \in Datos, guardar(f, offset, n, d),
           NEW g \in DOMAIN archivos, g # f, NEW i \in 1 .. archivos[g].tamanio
    PROVE  Conservado(g, i)
<1> DEFINE total == totalBloques(f, offset, n)
           t == tamanioBloque
           q == (i - 1) \div t
           b == archivos[g].bloques[q + 1]
<1> SUFFICES ASSUME BloqueDe(g, i) # Ninguno PROVE Byte(g, i)' = Byte(g, i)
  BY DEF Conservado
<1>1. /\ DOMAIN archivos' = DOMAIN archivos /\ archivos'[g] = archivos[g]
      /\ archivos'[f].bloques = bloquesHasta(f, offset, total)
      /\ DOMAIN bloquesHasta(f, offset, total) = 1 .. Len(bloquesHasta(f, offset, total))
  <2>1. DOMAIN archivos' = DOMAIN archivos /\ \A h \in DOMAIN archivos : h # f => archivos'[h] = archivos[h]
    BY GuardaOtros
  <2>2. archivos'[f].bloques = bloquesHasta(f, offset, total)
    BY GuardaBloques
  <2>3. DOMAIN bloquesHasta(f, offset, total) = 1 .. Len(bloquesHasta(f, offset, total))
    BY GuardaLargo
  <2> QED BY <2>1, <2>2, <2>3
<1>2. q + 1 \in DOMAIN archivos[g].bloques
  BY EnUnBloque
<1>3. b # Ninguno /\ b \in Bloques \cup {Ninguno}
  <2>1. BloqueDe(g, i) = b
    BY ByteAntes
  <2> QED BY <2>1, <1>2, UnArchivo
<1>4. SinCompartir'
  BY AlGuardar DEF DiscoInv
<1>5. ASSUME NEW j \in Hechos(f, offset, n, total), archivos'[f].bloques[j + 1] = b PROVE FALSE
  <2>1. total \in Nat
    BY Totales
  <2>2. j + 1 \in DOMAIN archivos'[f].bloques
    BY <2>1, <1>1, Vuelta
  <2> QED BY <2>2, <1>1, <1>2, <1>3, <1>4, <1>5 DEF SinCompartir
<1>6. contenido'[b] = contenido[b]
  BY <1>3, <1>5, NoTocado
<1>7. archivos'[g].bloques[q + 1] = b
  BY <1>1
<1>8. Byte(g, i) = IF ((i - 1) % t) + 1 <= Len(contenido[b])
                   THEN contenido[b][((i - 1) % t) + 1] ELSE Basura
  BY ByteAntes
<1>9. Byte(g, i)' = IF ((i - 1) % t) + 1 <= Len(contenido'[b])
                    THEN contenido'[b][((i - 1) % t) + 1] ELSE Basura
  BY <1>7, ByteDespues
<1> QED BY <1>6, <1>8, <1>9

LasEscrituras ==
    \A f \in DOMAIN archivos, offset \in Offsets, datos \in Escritos : LaEscritura(f, offset, datos)

LEMMA AlResponder == DiscoInv /\ [Next]_vars => [LasEscrituras]_vars
<1> SUFFICES ASSUME DiscoInv, Next,
                    NEW f \in DOMAIN archivos, NEW offset \in Offsets, NEW datos \in Escritos,
                    respuesta' = Respuesta("ESCRIBIR_OK", f, offset, datos)
             PROVE  LaEscritura(f, offset, datos)
  BY DEF LasEscrituras, LaEscritura
<1>1. respuesta'.codigo = "ESCRIBIR_OK"
  BY DEF Respuesta
<1>2. ASSUME NEW g \in Archivos, NEW o \in Offsets, NEW n \in Tamanios, NEW d \in Datos,
             escribirDatosArchivo(g, o, n, d)
      PROVE  LaEscritura(f, offset, datos)
  <2>1. respuesta' = Respuesta("ESCRIBIR_OK", g, o, [i \in 1 .. n |-> d]) /\ guardar(g, o, n, d)
    <3>1. respuesta'.codigo \in {"NO_HAY_ESPACIO", "ESCRIBIR_OK"}
      BY <1>1
    <3>2. respuesta' = Respuesta(respuesta'.codigo, g, o, [i \in 1 .. n |-> d])
      BY <1>2, <3>1, Contestada
    <3>3. guardar(g, o, n, d)
      BY <1>1, <1>2, <3>1, Contestada
    <3> QED BY <3>2, <3>3, <1>1
  <2>2. g = f /\ o = offset /\ datos = [i \in 1 .. n |-> d]
    BY <2>1 DEF Respuesta
  <2>3. n \in Nat /\ DOMAIN datos = 1 .. n /\ Len(datos) = n /\ \A i \in 1 .. n : datos[i] = d
    <3>1. n \in Nat
      BY Pedido
    <3> QED BY <3>1, <2>2
  <2>4. guardar(f, offset, n, d)
    BY <2>1, <2>2
  <2>5. \A i \in DOMAIN datos : BloqueDe(f, offset + i)' # Ninguno => Byte(f, offset + i)' = datos[i]
    BY <2>3, <2>4, LosDados
  <2>6. ASSUME NEW i \in 1 .. archivos[f].tamanio,
               startBlock(i - 1) \notin
                   startBlock(offset) .. startBlock(Max({offset, offset + Len(datos) - 1}))
        PROVE  Conservado(f, i)
    BY <2>3, <2>4, <2>6, LosDelArchivo
  <2>7. ASSUME NEW h \in DOMAIN archivos \ {f}, NEW i \in 1 .. archivos[h].tamanio
        PROVE  Conservado(h, i)
    BY <2>4, LosDeOtros
  <2> QED BY <2>5, <2>6, <2>7 DEF LaEscritura
<1>3. ASSUME NEW g \in Archivos PROVE ~crearArchivo(g) /\ ~borrarArchivo(g)
  BY <1>1, Codigos
<1>4. ASSUME NEW g \in Archivos, NEW o \in Offsets, NEW n \in Tamanios
      PROVE  ~leerDatosArchivo(g, o, n)
  BY <1>1, Codigos
<1> QED BY <1>2, <1>3, <1>4 DEF Next

(* EscrituraFiel for every value of the constants: escribirDatosArchivo    *)
(* leaves the bytes it was given, and no byte of another file, nor one of  *)
(* the file in a block it does not go through, changes.                    *)
THEOREM WritesAreFaithful == Spec => EscrituraFiel
<1>1. Spec => [][LasEscrituras]_vars
  BY AlEmpezar, DiscoInductiva, AlResponder, PTL DEF Spec
<1> QED BY <1>1 DEF EscrituraFiel, LasEscrituras, LaEscritura
=============================================================================
