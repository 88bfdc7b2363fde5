--------------------------- MODULE Memoria_proofs ---------------------------
(***************************************************************************)
(* The Memoria process keeps its tables whole and implements the page      *)
(* spaces, for any number of connections, programs, frames and cache       *)
(* entries.                                                                *)
(*                                                                         *)
(* MemoriaInv says, beside the types, what the threads are in the middle   *)
(* of (Hilos, Pendientes, Fuera), that a frame holds one page and a free   *)
(* one is blank (Repartida), that the two lists of the cache speak of the  *)
(* same pages (Concuerdan), how many a program has (EnCuota), and that a   *)
(* cached page has a frame and its bytes (Reflejan).                       *)
(***************************************************************************)
EXTENDS Memoria, FiniteSetTheorems, WellFoundedInduction, TLAPS

-----------------------------------------------------------------------------
(* Numbers. *)

LEMMA Cociente ==
    ASSUME NEW x \in Nat, NEW t \in Nat \ {0}
    PROVE  /\ x \div t \in Nat
           /\ (x \div t) * t <= x /\ x < ((x \div t) + 1) * t
           /\ x % t = x - (x \div t) * t
<1>1. x \div t \in Int
  OBVIOUS
<1>2. x \div t >= 0
  OBVIOUS
<1>3. (x \div t) * t <= x
  OBVIOUS
<1>4. x < ((x \div t) + 1) * t
  OBVIOUS
<1>5. x % t = x - (x \div t) * t
  OBVIOUS
<1> QED BY <1>1, <1>2, <1>3, <1>4, <1>5

(* The quotient is the only number between those bounds. *)
LEMMA CocienteUnico ==
    ASSUME NEW x \in Int, NEW q \in Int, NEW t \in Nat \ {0}, q * t <= x, x < (q + 1) * t
    PROVE  q = x \div t
  OBVIOUS

(* Products with a positive number keep the order. *)
LEMMA Crece ==
    ASSUME NEW x \in Int, NEW y \in Int, NEW t \in Nat \ {0}
    PROVE  /\ x * t \in Int /\ y * t \in Int
           /\ x <= y => x * t <= y * t
           /\ x < y => (x + 1) * t <= y * t
           /\ (x + 1) * t = x * t + t
           /\ x * t < y * t => x < y
<1>1. x * t \in Int /\ y * t \in Int
  OBVIOUS
<1>2. x <= y => x * t <= y * t
  OBVIOUS
<1>3. x < y => (x + 1) * t <= y * t
  OBVIOUS
<1>4. (x + 1) * t = x * t + t
  OBVIOUS
<1>5. x * t < y * t => x < y
  OBVIOUS
<1> QED BY <1>1, <1>2, <1>3, <1>4, <1>5

(* A set of naturals that is not empty has a least element, which Min      *)
(* chooses, and one with a bound has a greatest, which Max chooses.        *)
LEMMA MenorDe ==
    ASSUME NEW T, T \subseteq Nat, T # {}
    PROVE  Min(T) \in T /\ \A y \in T : Min(T) <= y
<1> DEFINE R == {ss \in Nat \X Nat : ss[1] < ss[2]}
<1>1. IsWellFoundedOn(R, Nat)
  BY NatLessThanWellFounded DEF OpToRel
<1> HIDE DEF R
<1>2. \E x \in T : \A y \in T : ~ (<<y, x>> \in R)
  BY <1>1, WFMin
<1>3. ASSUME NEW x \in Nat, NEW y \in Nat, ~ (<<y, x>> \in R) PROVE x <= y
  BY <1>3 DEF R
<1>4. \E x \in T : \A y \in T : x <= y
  BY <1>2, <1>3
<1> QED BY <1>4 DEF Min

LEMMA MayorDe ==
    ASSUME NEW N \in Nat, NEW T, T \subseteq 0 .. N, T # {}
    PROVE  Max(T) \in T /\ \A y \in T : Max(T) >= y
<1> DEFINE D == {N - x : x \in T}
<1>1. D \subseteq Nat /\ D # {}
  OBVIOUS
<1>2. PICK m \in D : \A y \in D : m <= y
  BY <1>1, MenorDe
<1>3. PICK x \in T : m = N - x
  BY <1>2
<1>4. ASSUME NEW y \in T PROVE x >= y
  <2>1. N - y \in D
    OBVIOUS
  <2>2. N - x <= N - y
    BY <2>1, <1>2, <1>3
  <2>3. x \in Int /\ y \in Int
    OBVIOUS
  <2> QED BY <2>2, <2>3
<1>5. \E z \in T : \A y \in T : z >= y
  BY <1>3, <1>4
<1> QED BY <1>5 DEF Max

(* What is used of the constants. *)
LEMMA Constantes ==
    /\ Kernel \in Conexiones /\ Nadie \notin Conexiones
    /\ Pids \subseteq Nat /\ Libre \notin Pids /\ Administrativa \notin Pids
    /\ Libre # Administrativa
    /\ PagsPrograma \in Nat \ {0} /\ MarcoSize \in Nat \ {0} /\ Marcos \in Nat \ {0}
    /\ MaxPagina \in Nat /\ EntradasCache \in Nat /\ CacheXProc \in Nat /\ MaxReloj \in Nat
    /\ PaginasAdms \in Nat /\ PaginasAdms <= Marcos /\ PagsPrograma <= MaxPagina + 1
    /\ Cero \in Datos
    /\ Frames \subseteq Nat /\ IsFiniteSet(Frames) /\ Cardinality(Frames) = Marcos
    /\ Entradas \subseteq Nat /\ IsFiniteSet(Entradas) /\ Cardinality(Entradas) = EntradasCache
<1>1. /\ Kernel \in Conexiones /\ Nadie \notin Conexiones /\ Pids \subseteq Nat
      /\ PagsPrograma \in Nat \ {0} /\ MarcoSize \in Nat \ {0} /\ Marcos \in Nat \ {0}
      /\ MaxPagina \in Nat /\ EntradasCache \in Nat /\ CacheXProc \in Nat /\ MaxReloj \in Nat
      /\ PaginasAdms \in 1 .. Marcos /\ PagsPrograma <= MaxPagina + 1
      /\ Cero \in Datos
  BY MemoriaAssumption
<1>2. PaginasAdms \in Nat /\ PaginasAdms <= Marcos
  BY <1>1
<1>3. Libre \notin Pids /\ Administrativa \notin Pids /\ Libre # Administrativa
  BY <1>1 DEF Libre, Administrativa
<1>4. Frames \subseteq Nat /\ Entradas \subseteq Nat
  BY <1>1 DEF Frames, Entradas
<1>5. IsFiniteSet(Frames) /\ Cardinality(Frames) = Marcos
  <2>1. Marcos - 1 \in Int /\ 0 \in Int /\ ~(0 > Marcos - 1) /\ (Marcos - 1) - 0 + 1 = Marcos
    BY <1>1
  <2>2. /\ IsFiniteSet(0 .. Marcos - 1)
        /\ Cardinality(0 .. Marcos - 1) =
              IF 0 > Marcos - 1 THEN 0 ELSE (Marcos - 1) - 0 + 1
    BY <2>1, FS_Interval
  <2> QED BY <2>1, <2>2 DEF Frames
<1>6. IsFiniteSet(Entradas) /\ Cardinality(Entradas) = EntradasCache
  <2>1. /\ IsFiniteSet(1 .. EntradasCache)
        /\ Cardinality(1 .. EntradasCache) =
              IF 1 > EntradasCache THEN 0 ELSE EntradasCache - 1 + 1
    BY <1>1, FS_Interval
  <2> QED BY <2>1, <1>1 DEF Entradas
<1> QED BY <1>1, <1>2, <1>3, <1>4, <1>5, <1>6

(* Which frame a byte is in. *)
LEMMA ByteDeMarco ==
    ASSUME NEW i \in Frames, i >= PaginasAdms, NEW j \in EnMarco
    PROVE  /\ Base(i) + j \in Bytes
           /\ (Base(i) + j) \div MarcoSize = i
           /\ Base(i) + j \in Int /\ Base(i) \in Int
<1>1. /\ MarcoSize \in Nat \ {0} /\ PaginasAdms \in Int /\ i \in Int /\ i >= 0 /\ Marcos \in Int
      /\ i <= Marcos - 1 /\ i < Marcos
      /\ j \in Int /\ 0 <= j /\ j < MarcoSize
  BY Constantes DEF Frames, EnMarco
<1>2. Base(i) = i * MarcoSize
  BY DEF Base
<1>3. /\ i * MarcoSize \in Int /\ (i + 1) * MarcoSize = i * MarcoSize + MarcoSize
      /\ PaginasAdms * MarcoSize \in Int /\ PaginasAdms * MarcoSize <= i * MarcoSize
      /\ Marcos * MarcoSize \in Int /\ (i + 1) * MarcoSize <= Marcos * MarcoSize
  BY <1>1, Crece
<1>4. PICK b \in Int : b = i * MarcoSize
  BY <1>3
<1>5. b + j \in Int /\ i * MarcoSize <= b + j /\ b + j < (i + 1) * MarcoSize
  BY <1>1, <1>3, <1>4
<1>6. i = (b + j) \div MarcoSize
  BY <1>1, <1>5, CocienteUnico
<1>7. PaginasAdms * MarcoSize <= b + j /\ b + j <= Marcos * MarcoSize - 1
  <2>1. PICK pa \in Int : pa = PaginasAdms * MarcoSize
    BY <1>3
  <2>2. PICK ma \in Int : ma = Marcos * MarcoSize
    BY <1>3
  <2>3. b + MarcoSize \in Int /\ b + j < b + MarcoSize
    BY <1>1, <1>4
  <2>4. pa <= b /\ b + MarcoSize <= ma
    BY <2>1, <2>2, <1>3, <1>4
  <2>5. pa <= b + j /\ b + j <= ma - 1
    BY <2>1, <2>2, <2>3, <2>4, <1>1, <1>4
  <2> QED BY <2>1, <2>2, <2>5
<1>8. b + j \in PaginasAdms * MarcoSize .. Marcos * MarcoSize - 1
  BY <1>3, <1>5, <1>7
<1> QED BY <1>2, <1>4, <1>5, <1>6, <1>8 DEF Bytes

-----------------------------------------------------------------------------
(* The page table. *)

(* Whatever the hash, the search ends at one of the frames it looks for.   *)
LEMMA Sondea ==
    ASSUME NEW h, NEW S, S \subseteq Frames, S # {}
    PROVE  Sondeo(h, S) \in S
<1>1. S \subseteq Nat /\ S \subseteq 0 .. Marcos - 1 /\ Marcos - 1 \in Nat
  BY Constantes DEF Frames
<1>2. CASE \E i \in S : i >= h
  <2> DEFINE U == {i \in S : i >= h}
  <2>1. U \subseteq Nat /\ U # {}
    BY <1>1, <1>2
  <2>2. Min(U) \in U
    BY <2>1, MenorDe
  <2> QED BY <2>2, <1>2 DEF Sondeo
<1>3. CASE ~ \E i \in S : i >= h
  <2>1. Max(S) \in S
    BY <1>1, MayorDe
  <2> QED BY <2>1, <1>3 DEF Sondeo
<1> QED BY <1>2, <1>3

Ranuras == [Frames -> [pid : Pids \cup {Libre, Administrativa}, numeroPag : Paginas]]

(* The free frames can be counted. *)
LEMMA LibresFinitas ==
    ASSUME NEW t
    PROVE  /\ paginasLibres(t) \subseteq Frames /\ IsFiniteSet(paginasLibres(t))
           /\ Cardinality(paginasLibres(t)) \in Nat
<1>1. paginasLibres(t) \subseteq Frames
  BY DEF paginasLibres
<1>2. IsFiniteSet(paginasLibres(t))
  BY <1>1, Constantes, FS_Subset
<1> QED BY <1>1, <1>2, FS_CardinalityType

(* Table t once k pages of p, from number desde on, were placed in t0.     *)
Ubicadas(t0, t, p, desde, k) ==
    /\ t \in Ranuras
    /\ \A i \in Frames : t[i] = t0[i] \/ (/\ t0[i].pid = Libre /\ t[i].pid = p
                                          /\ t[i].numeroPag \in desde .. desde + k - 1)
    /\ \A x \in desde .. desde + k - 1 : \E i \in Frames :
          t0[i].pid = Libre /\ t[i].pid = p /\ t[i].numeroPag = x
    /\ \A i, j \in Frames :
          t0[i].pid = Libre /\ t0[j].pid = Libre /\ t[i].pid = p /\ t[j].pid = p
             /\ t[i].numeroPag = t[j].numeroPag => i = j
    /\ Cardinality(paginasLibres(t)) = Cardinality(paginasLibres(t0)) - k

Coloca(t, p, nro) ==
    [t EXCEPT ![Sondeo(getHash(p, nro), paginasLibres(t))] = [pid |-> p, numeroPag |-> nro]]

(* One more page is placed in a free frame. *)
LEMMA UbicaUna ==
    ASSUME NEW t0 \in Ranuras, NEW t, NEW p \in Pids, NEW desde \in Nat, NEW k \in Nat,
           Ubicadas(t0, t, p, desde, k), k < Cardinality(paginasLibres(t0)),
           desde + k <= MaxPagina
    PROVE  Ubicadas(t0, Coloca(t, p, desde + k), p, desde, k + 1)
<1> DEFINE nro == desde + k
<1>1. /\ t \in Ranuras
      /\ \A i \in Frames : t[i] = t0[i] \/ (/\ t0[i].pid = Libre /\ t[i].pid = p
                                            /\ t[i].numeroPag \in desde .. desde + k - 1)
      /\ \A x \in desde .. desde + k - 1 : \E i \in Frames :
            t0[i].pid = Libre /\ t[i].pid = p /\ t[i].numeroPag = x
      /\ \A i, j \in Frames :
            t0[i].pid = Libre /\ t0[j].pid = Libre /\ t[i].pid = p /\ t[j].pid = p
               /\ t[i].numeroPag = t[j].numeroPag => i = j
      /\ Cardinality(paginasLibres(t)) = Cardinality(paginasLibres(t0)) - k
  BY DEF Ubicadas
<1>2. paginasLibres(t) # {}
  <2>1. Cardinality(paginasLibres(t)) > 0 /\ IsFiniteSet(paginasLibres(t))
    BY <1>1, LibresFinitas
  <2> QED BY <2>1, FS_EmptySet
<1>3. PICK s \in paginasLibres(t) : s = Sondeo(getHash(p, nro), paginasLibres(t))
  BY <1>2, LibresFinitas, Sondea
<1>4. s \in Frames /\ t[s].pid = Libre /\ p # Libre
  BY Constantes DEF paginasLibres
<1>5. PICK u : u = [t EXCEPT ![s] = [pid |-> p, numeroPag |-> nro]]
  OBVIOUS
<1>6. Coloca(t, p, nro) = u
  BY <1>3, <1>5 DEF Coloca
<1>7. nro \in Paginas /\ nro \in Nat
  BY Constantes DEF Paginas
<1>8. u \in Ranuras
  BY <1>1, <1>4, <1>5, <1>7 DEF Ranuras
<1>9. /\ u[s].pid = p /\ u[s].numeroPag = nro
      /\ \A i \in Frames : i # s => u[i] = t[i]
  BY <1>1, <1>4, <1>5 DEF Ranuras
<1>10. t0[s].pid = Libre
  BY <1>1, <1>4
<1>11. /\ nro \in desde .. desde + (k + 1) - 1
       /\ \A x \in desde .. desde + k - 1 : x \in desde .. desde + (k + 1) - 1 /\ x # nro
       /\ \A x \in desde .. desde + (k + 1) - 1 : x \in desde .. desde + k - 1 \/ x = nro
  OBVIOUS
<1> HIDE DEF nro
<1>12. ASSUME NEW i \in Frames
       PROVE  u[i] = t0[i] \/ (/\ t0[i].pid = Libre /\ u[i].pid = p
                               /\ u[i].numeroPag \in desde .. desde + (k + 1) - 1)
  <2>1. CASE i = s
    BY <2>1, <1>9, <1>10, <1>11
  <2>2. CASE i # s
    BY <2>2, <1>1, <1>9, <1>11
  <2> QED BY <2>1, <2>2
<1>13. ASSUME NEW x \in desde .. desde + (k + 1) - 1
       PROVE  \E i \in Frames : t0[i].pid = Libre /\ u[i].pid = p /\ u[i].numeroPag = x
  <2>1. CASE x = nro
    BY <2>1, <1>4, <1>9, <1>10
  <2>2. CASE x \in desde .. desde + k - 1
    <3>1. PICK i \in Frames : t0[i].pid = Libre /\ t[i].pid = p /\ t[i].numeroPag = x
      BY <2>2, <1>1
    <3>2. i # s
      BY <3>1, <1>4
    <3> QED BY <3>1, <3>2, <1>9
  <2> QED BY <2>1, <2>2, <1>11
<1>14. ASSUME NEW i \in Frames, i # s, t0[i].pid = Libre, u[i].pid = p
       PROVE  u[i] = t[i] /\ u[i].numeroPag # nro
  <2>1. u[i] = t[i]
    BY <1>9, <1>14
  <2>2. t[i].numeroPag \in desde .. desde + k - 1
    BY <2>1, <1>1, <1>4, <1>14
  <2> QED BY <2>1, <2>2, <1>11
<1>15. ASSUME NEW i \in Frames, NEW j \in Frames, t0[i].pid = Libre, t0[j].pid = Libre,
              u[i].pid = p, u[j].pid = p, u[i].numeroPag = u[j].numeroPag
       PROVE  i = j
  <2>1. CASE i = s
    BY <2>1, <1>9, <1>14, <1>15
  <2>2. CASE j = s
    BY <2>2, <1>9, <1>14, <1>15
  <2>3. CASE i # s /\ j # s
    BY <2>3, <1>1, <1>14, <1>15
  <2> QED BY <2>1, <2>2, <2>3
<1>16. Cardinality(paginasLibres(u)) = Cardinality(paginasLibres(t0)) - (k + 1)
  <2>1. paginasLibres(u) = paginasLibres(t) \ {s}
    <3>1. paginasLibres(u) \subseteq paginasLibres(t) \ {s}
      BY <1>4, <1>9 DEF paginasLibres
    <3>2. paginasLibres(t) \ {s} \subseteq paginasLibres(u)
      BY <1>9 DEF paginasLibres
    <3> QED BY <3>1, <3>2
  <2>2. Cardinality(paginasLibres(t) \ {s}) = Cardinality(paginasLibres(t)) - 1
    BY LibresFinitas, FS_RemoveElement
  <2>3. Cardinality(paginasLibres(t)) \in Nat /\ Cardinality(paginasLibres(t0)) \in Nat
    BY LibresFinitas
  <2> QED BY <2>1, <2>2, <2>3, <1>1
<1> QED BY <1>6, <1>8, <1>12, <1>13, <1>15, <1>16 DEF Ubicadas, nro

(* The tables of Ubicar: one more page in each.                            *)
Sucesivas(F, L, t0, p, desde) ==
    F = [k \in 0 .. L |-> IF k = 0 THEN t0 ELSE Coloca(F[k - 1], p, desde + k - 1)]

(* The tables of Ubicar exist, for any number of pages. *)
LEMMA HaySucesivas ==
    ASSUME NEW t0, NEW p, NEW desde, NEW L \in Nat
    PROVE  \E F : Sucesivas(F, L, t0, p, desde)
<1> DEFINE T == {m \in Nat : ~ \E F : Sucesivas(F, m, t0, p, desde)}
<1> SUFFICES ASSUME T # {} PROVE FALSE
  OBVIOUS
<1>1. PICK m \in T : \A k \in T : m <= k
  <2>1. T \subseteq Nat
    OBVIOUS
  <2> QED BY <2>1, MenorDe
<1>2. m \in Nat /\ ~ \E F : Sucesivas(F, m, t0, p, desde)
  BY <1>1
<1>3. CASE m = 0
  <2> DEFINE F == [n \in 0 .. 0 |-> t0]
  <2>1. [n \in 0 .. 0 |-> IF n = 0 THEN t0 ELSE Coloca(F[n - 1], p, desde + n - 1)] = F
    <3>1. \A n \in 0 .. 0 : n = 0
      OBVIOUS
    <3> QED BY <3>1
  <2>2. Sucesivas(F, 0, t0, p, desde)
    BY <2>1 DEF Sucesivas
  <2> HIDE DEF F
  <2> QED BY <2>2, <1>2, <1>3
<1>4. CASE m # 0
  <2>1. m - 1 \in Nat /\ ~(m <= m - 1)
    BY <1>2, <1>4
  <2>2. m - 1 \notin T
    BY <2>1, <1>1
  <2>3. PICK F : Sucesivas(F, m - 1, t0, p, desde)
    BY <2>1, <2>2
  <2> DEFINE H == [n \in 0 .. m |-> IF n = m THEN Coloca(F[m - 1], p, desde + m - 1) ELSE F[n]]
  <2>4. \A n \in 0 .. m - 1 : F[n] = IF n = 0 THEN t0 ELSE Coloca(F[n - 1], p, desde + n - 1)
    BY <2>3 DEF Sucesivas
  <2>5. ASSUME NEW n \in 0 .. m
        PROVE  H[n] = IF n = 0 THEN t0 ELSE Coloca(H[n - 1], p, desde + n - 1)
    <3>1. CASE n = m
      <4>1. m - 1 \in 0 .. m /\ m - 1 # m
        BY <2>1
      <4>2. H[m - 1] = F[m - 1]
        BY <4>1
      <4>3. H[m] = Coloca(F[m - 1], p, desde + m - 1)
        BY <1>2
      <4> HIDE DEF H
      <4> QED BY <4>2, <4>3, <3>1, <1>4
    <3>2. CASE n # m /\ n = 0
      <4>1. H[n] = F[n] /\ n \in 0 .. m - 1
        BY <3>2, <1>2
      <4> HIDE DEF H
      <4> QED BY <4>1, <3>2, <2>4
    <3>3. CASE n # m /\ n # 0
      <4>1. H[n] = F[n] /\ n \in 0 .. m - 1
        BY <3>3, <1>2
      <4>2. n - 1 \in 0 .. m /\ n - 1 # m
        BY <3>3, <1>2
      <4>3. H[n - 1] = F[n - 1]
        BY <4>2
      <4> HIDE DEF H
      <4> QED BY <4>1, <4>3, <3>3, <2>4
    <3> QED BY <3>1, <3>2, <3>3
  <2>6. H = [n \in 0 .. m |-> H[n]]
    OBVIOUS
  <2> HIDE DEF H
  <2>7. Sucesivas(H, m, t0, p, desde)
    BY <2>5, <2>6 DEF Sucesivas
  <2> QED BY <2>7, <1>2
<1> QED BY <1>3, <1>4

(* Ubicar gives the last of them. *)
LEMMA UbicarEs ==
    ASSUME NEW p, NEW desde, NEW n \in Nat
    PROVE  \E F : Sucesivas(F, n, tabla, p, desde) /\ Ubicar(p, desde, n) = F[n]
<1> DEFINE P(F) == Sucesivas(F, n, tabla, p, desde)
<1>1. \E F : P(F)
  BY HaySucesivas
<1>2. P(CHOOSE F : P(F))
  BY <1>1
<1>3. Ubicar(p, desde, n) = (CHOOSE F : P(F))[n]
  BY DEF Ubicar, Sucesivas, Coloca
<1> QED BY <1>2, <1>3

(* The table once n pages of p were placed, when there is room for them.   *)
LEMMA Ubica ==
    ASSUME tabla \in Ranuras, NEW p \in Pids, NEW desde \in Nat, NEW n \in Nat,
           n <= Cardinality(paginasLibres(tabla)), desde + n <= MaxPagina + 1
    PROVE  Ubicadas(tabla, Ubicar(p, desde, n), p, desde, n)
<1>1. PICK t0 : t0 = tabla
  OBVIOUS
<1>2. PICK F : Sucesivas(F, n, t0, p, desde) /\ Ubicar(p, desde, n) = F[n]
  BY <1>1, UbicarEs
<1>3. \A k \in 0 .. n : F[k] = IF k = 0 THEN t0 ELSE Coloca(F[k - 1], p, desde + k - 1)
  BY <1>2 DEF Sucesivas
<1>4. t0 \in Ranuras /\ n <= Cardinality(paginasLibres(t0)) /\ Cardinality(paginasLibres(t0)) \in Nat
  BY <1>1, LibresFinitas
<1> DEFINE T == {k \in 0 .. n : ~ Ubicadas(t0, F[k], p, desde, k)}
<1>5. T = {}
  <2> SUFFICES ASSUME T # {} PROVE FALSE
    OBVIOUS
  <2>1. PICK k \in T : \A x \in T : k <= x
    <3>1. T \subseteq Nat
      OBVIOUS
    <3> QED BY <3>1, MenorDe
  <2>2. k \in 0 .. n /\ ~ Ubicadas(t0, F[k], p, desde, k)
    BY <2>1
  <2>3. CASE k = 0
    <3>1. F[0] = t0
      BY <1>3, <2>2, <2>3
    <3>2. \A x : x \notin desde .. desde + 0 - 1
      OBVIOUS
    <3>3. ASSUME NEW i \in Frames, t0[i].pid = Libre PROVE t0[i].pid # p
      BY <3>3, Constantes
    <3>4. Cardinality(paginasLibres(t0)) = Cardinality(paginasLibres(t0)) - 0
      BY <1>4
    <3>5. Ubicadas(t0, t0, p, desde, 0)
      BY <1>4, <3>2, <3>3, <3>4 DEF Ubicadas
    <3> QED BY <3>1, <3>5, <2>2, <2>3
  <2>4. CASE k # 0
    <3>1. k - 1 \in 0 .. n /\ k - 1 \in Nat /\ ~(k <= k - 1) /\ k - 1 < n /\ (k - 1) + 1 = k
          /\ desde + (k - 1) = desde + k - 1 /\ desde + (k - 1) <= MaxPagina
      BY <2>2, <2>4, Constantes
    <3>2. Ubicadas(t0, F[k - 1], p, desde, k - 1)
      BY <3>1, <2>1
    <3>3. k - 1 < Cardinality(paginasLibres(t0))
      BY <3>1, <1>4
    <3>4. Ubicadas(t0, Coloca(F[k - 1], p, desde + (k - 1)), p, desde, (k - 1) + 1)
      BY <3>1, <3>2, <3>3, <1>4, UbicaUna
    <3>5. F[k] = Coloca(F[k - 1], p, desde + k - 1)
      BY <1>3, <2>2, <2>4
    <3> QED BY <3>1, <3>4, <3>5, <2>2
  <2> QED BY <2>3, <2>4
<1>6. Ubicadas(t0, F[n], p, desde, n)
  BY <1>5
<1> QED BY <1>1, <1>2, <1>6

-----------------------------------------------------------------------------
(* The cache. *)

Admins == [Entradas -> [pid : Pids \cup {Libre}, nroPagina : Paginas \cup {-1},
                        tiempoEntrada : 0 .. MaxReloj]]
Bloques == [Entradas -> [pid : Pids \cup {Libre}, nroPagina : Paginas,
                         contenido : [EnMarco -> Datos]]]

(* The page of an administrative entry or of a block. *)
Misma(r, s) == r.pid = s.pid /\ r.nroPagina = s.nroPagina
Es(r, p, n) == r.pid = p /\ r.nroPagina = n

(* The two lists speak of the same pages, each of them once.  A free entry *)
(* has no page that findAndReplaceInCache could not find.                  *)
Concuerdan(ce, bc) ==
    /\ ce \in Admins /\ bc \in Bloques
    /\ \A e, f \in Entradas : ce[e].pid # Libre /\ Misma(ce[e], ce[f]) => e = f
    /\ \A b, a \in Entradas : bc[b].pid # Libre /\ Misma(bc[b], bc[a]) => a = b
    /\ \A e \in Entradas : ce[e].pid # Libre => \E b \in Entradas : Misma(ce[e], bc[b])
    /\ \A b \in Entradas : bc[b].pid # Libre => \E e \in Entradas : Misma(ce[e], bc[b])
    /\ \A e \in Entradas : IF ce[e].pid = Libre THEN ce[e].nroPagina \in {0, -1}
                                                ELSE ce[e].nroPagina # -1
    /\ \A b \in Entradas : bc[b].pid = Libre => bc[b].nroPagina = 0

Del(ce, p) == {e \in Entradas : ce[e].pid = p}
EnCuota(ce) == \A p \in Pids : Cardinality(Del(ce, p)) <= CacheXProc

(* The entries of a program can be counted. *)
LEMMA DelFinito ==
    ASSUME NEW ce, NEW p
    PROVE  IsFiniteSet(Del(ce, p)) /\ Cardinality(Del(ce, p)) \in Nat
<1>1. Del(ce, p) \subseteq Entradas
  BY DEF Del
<1>2. IsFiniteSet(Del(ce, p))
  BY <1>1, Constantes, FS_Subset
<1> QED BY <1>2, FS_CardinalityType

(* There is a block for every entry: a free entry leaves fewer pages than  *)
(* blocks, so some block is free too.                                      *)
LEMMA HayBloque ==
    ASSUME NEW ce, NEW bc, Concuerdan(ce, bc), NEW e \in Entradas
    PROVE  \E b \in Entradas : IF ce[e].pid = Libre THEN bc[b].pid = Libre ELSE Misma(ce[e], bc[b])
<1>1. CASE ce[e].pid # Libre
  BY <1>1 DEF Concuerdan
<1>2. CASE ce[e].pid = Libre
  <2> SUFFICES ASSUME \A b \in Entradas : bc[b].pid # Libre PROVE FALSE
    BY <1>2
  <2>1. \A b \in Entradas : \E f \in Entradas : Misma(ce[f], bc[b])
    BY DEF Concuerdan
  <2> DEFINE g == [b \in Entradas |-> CHOOSE f \in Entradas : Misma(ce[f], bc[b])]
  <2>2. \A b \in Entradas : g[b] \in Entradas /\ Misma(ce[g[b]], bc[b])
    BY <2>1
  <2>3. \A b \in Entradas : g[b] \in Entradas \ {e}
    BY <2>2, <1>2 DEF Misma
  <2>4. g \in [Entradas -> Entradas \ {e}]
    BY <2>3
  <2>5. ASSUME NEW a \in Entradas, NEW b \in Entradas, g[a] = g[b] PROVE a = b
    <3>1. Misma(bc[b], bc[a])
      BY <2>2, <2>5 DEF Misma
    <3> QED BY <3>1 DEF Concuerdan
  <2>6. g \in Injection(Entradas, Entradas \ {e})
    BY <2>4, <2>5 DEF Injection, IsInjective
  <2>7. IsFiniteSet(Entradas \ {e}) /\ Cardinality(Entradas \ {e}) = EntradasCache - 1
    BY Constantes, FS_RemoveElement
  <2>8. Cardinality(Entradas) <= Cardinality(Entradas \ {e})
    BY <2>6, <2>7, FS_Injection
  <2> QED BY <2>7, <2>8, Constantes
<1> QED BY <1>1, <1>2

(* A page takes the place of the one of entry e. *)
Reemplaza(ce, bc, e, b, p, n, f, ce2, bc2) ==
    /\ e \in Entradas /\ b \in Entradas
    /\ IF ce[e].pid = Libre THEN bc[b].pid = Libre ELSE Misma(ce[e], bc[b])
    /\ \E s \in 0 .. MaxReloj :
          ce2 = [ce EXCEPT ![e] = [pid |-> p, nroPagina |-> n, tiempoEntrada |-> s]]
    /\ bc2 = [bc EXCEPT ![b] = [pid |-> p, nroPagina |-> n, contenido |-> f]]

(* The page that enters takes the place of the victim in both lists. *)
LEMMA Reemplazo ==
    ASSUME NEW ce, NEW bc, Concuerdan(ce, bc), NEW e, NEW b, NEW ce2, NEW bc2,
           NEW p \in Pids, NEW n \in Paginas, NEW f \in [EnMarco -> Datos],
           \A a \in Entradas : ~ Es(bc[a], p, n),
           Reemplaza(ce, bc, e, b, p, n, f, ce2, bc2)
    PROVE  Concuerdan(ce2, bc2)
<1>1. /\ ce \in Admins /\ bc \in Bloques
      /\ \A x, y \in Entradas : ce[x].pid # Libre /\ Misma(ce[x], ce[y]) => x = y
      /\ \A x, a \in Entradas : bc[x].pid # Libre /\ Misma(bc[x], bc[a]) => a = x
      /\ \A x \in Entradas : ce[x].pid # Libre => \E a \in Entradas : Misma(ce[x], bc[a])
      /\ \A a \in Entradas : bc[a].pid # Libre => \E x \in Entradas : Misma(ce[x], bc[a])
      /\ \A x \in Entradas : IF ce[x].pid = Libre THEN ce[x].nroPagina \in {0, -1}
                                                  ELSE ce[x].nroPagina # -1
      /\ \A a \in Entradas : bc[a].pid = Libre => bc[a].nroPagina = 0
  BY DEF Concuerdan
<1>2. /\ e \in Entradas /\ b \in Entradas
      /\ IF ce[e].pid = Libre THEN bc[b].pid = Libre ELSE Misma(ce[e], bc[b])
  BY DEF Reemplaza
<1>3. PICK s \in 0 .. MaxReloj :
          ce2 = [ce EXCEPT ![e] = [pid |-> p, nroPagina |-> n, tiempoEntrada |-> s]]
  BY DEF Reemplaza
<1>4. bc2 = [bc EXCEPT ![b] = [pid |-> p, nroPagina |-> n, contenido |-> f]]
  BY DEF Reemplaza
<1>5. p # Libre /\ n # -1 /\ n \in Paginas \cup {-1}
  BY Constantes DEF Paginas
<1>6. ce2 \in Admins /\ bc2 \in Bloques
  BY <1>1, <1>2, <1>3, <1>4, <1>5 DEF Admins, Bloques
<1>7. /\ Es(ce2[e], p, n) /\ Es(bc2[b], p, n)
      /\ \A x \in Entradas : x # e => ce2[x] = ce[x]
      /\ \A a \in Entradas : a # b => bc2[a] = bc[a]
  BY <1>1, <1>2, <1>3, <1>4 DEF Admins, Bloques, Es
<1>8. ASSUME NEW x \in Entradas PROVE ~ Es(ce[x], p, n)
  <2> SUFFICES ASSUME Es(ce[x], p, n) PROVE FALSE
    OBVIOUS
  <2>1. ce[x].pid # Libre
    BY <1>5 DEF Es
  <2>2. PICK a \in Entradas : Misma(ce[x], bc[a])
    BY <2>1, <1>1
  <2> QED BY <2>2 DEF Misma, Es
<1>9. \A x \in Entradas : x # e => ~ Misma(ce2[x], ce2[e])
  BY <1>7, <1>8 DEF Misma, Es
<1>10. \A a \in Entradas : a # b => ~ Misma(bc2[a], bc2[b])
  BY <1>7 DEF Misma, Es
<1>11. ASSUME NEW x \in Entradas, NEW y \in Entradas, ce2[x].pid # Libre, Misma(ce2[x], ce2[y])
       PROVE  x = y
  <2>1. Misma(ce2[y], ce2[x])
    BY <1>11 DEF Misma
  <2> QED BY <2>1, <1>1, <1>7, <1>9, <1>11
<1>12. ASSUME NEW x \in Entradas, NEW a \in Entradas, bc2[x].pid # Libre, Misma(bc2[x], bc2[a])
       PROVE  a = x
  <2>1. Misma(bc2[a], bc2[x])
    BY <1>12 DEF Misma
  <2> QED BY <2>1, <1>1, <1>7, <1>10, <1>12
<1>13. ASSUME NEW x \in Entradas, ce2[x].pid # Libre
       PROVE  \E a \in Entradas : Misma(ce2[x], bc2[a])
  <2>1. CASE x = e
    BY <2>1, <1>2, <1>7 DEF Misma, Es
  <2>2. CASE x # e
    <3>1. ce2[x] = ce[x]
      BY <2>2, <1>7
    <3>2. PICK a \in Entradas : Misma(ce[x], bc[a])
      BY <3>1, <1>1, <1>13
    <3>3. a # b
      <4> SUFFICES ASSUME a = b PROVE FALSE
        OBVIOUS
      <4>1. ce[e].pid # Libre /\ Misma(ce[e], bc[b])
        BY <3>1, <3>2, <1>2, <1>13 DEF Misma
      <4>2. Misma(ce[e], ce[x])
        BY <4>1, <3>2 DEF Misma
      <4> QED BY <4>1, <4>2, <2>2, <1>1, <1>2
    <3> QED BY <3>1, <3>2, <3>3, <1>7
  <2> QED BY <2>1, <2>2
<1>14. ASSUME NEW a \in Entradas, bc2[a].pid # Libre
       PROVE  \E x \in Entradas : Misma(ce2[x], bc2[a])
  <2>1. CASE a = b
    BY <2>1, <1>2, <1>7 DEF Misma, Es
  <2>2. CASE a # b
    <3>1. bc2[a] = bc[a]
      BY <2>2, <1>7
    <3>2. PICK x \in Entradas : Misma(ce[x], bc[a])
      BY <3>1, <1>1, <1>14
    <3>3. x # e
      <4> SUFFICES ASSUME x = e PROVE FALSE
        OBVIOUS
      <4>1. bc[b].pid # Libre /\ Misma(ce[e], bc[b])
        BY <3>1, <3>2, <1>2, <1>14 DEF Misma
      <4>2. Misma(bc[b], bc[a])
        BY <4>1, <3>2 DEF Misma
      <4> QED BY <4>1, <4>2, <2>2, <1>1, <1>2
    <3> QED BY <3>1, <3>2, <3>3, <1>7
  <2> QED BY <2>1, <2>2
<1>15. ASSUME NEW x \in Entradas
       PROVE  IF ce2[x].pid = Libre THEN ce2[x].nroPagina \in {0, -1} ELSE ce2[x].nroPagina # -1
  <2>1. CASE x = e
    BY <2>1, <1>5, <1>7 DEF Es
  <2>2. CASE x # e
    BY <2>2, <1>1, <1>7
  <2> QED BY <2>1, <2>2
<1>16. ASSUME NEW a \in Entradas, bc2[a].pid = Libre PROVE bc2[a].nroPagina = 0
  <2>1. a # b
    BY <1>5, <1>7, <1>16 DEF Es
  <2> QED BY <2>1, <1>1, <1>7, <1>16
<1> QED BY <1>6, <1>11, <1>12, <1>13, <1>14, <1>15, <1>16 DEF Concuerdan

(* An entry that is replaced is free, or of the same program, or its       *)
(* program may still take one more.                                        *)
LEMMA ReemplazoEnCuota ==
    ASSUME NEW ce \in Admins, EnCuota(ce), NEW e \in Entradas, NEW p \in Pids, NEW r, r.pid = p,
           ce[e].pid = p \/ Cardinality(Del(ce, p)) < CacheXProc
    PROVE  EnCuota([ce EXCEPT ![e] = r])
<1> DEFINE ce2 == [ce EXCEPT ![e] = r]
<1>1. ce2[e].pid = p /\ \A x \in Entradas : x # e => ce2[x] = ce[x]
  BY DEF Admins
<1> HIDE DEF ce2
<1> SUFFICES ASSUME NEW q \in Pids PROVE Cardinality(Del(ce2, q)) <= CacheXProc
  BY DEF EnCuota, ce2
<1>2. /\ IsFiniteSet(Del(ce, q)) /\ Cardinality(Del(ce, q)) \in Nat
      /\ IsFiniteSet(Del(ce2, q)) /\ Cardinality(Del(ce2, q)) \in Nat
      /\ CacheXProc \in Nat /\ Cardinality(Del(ce, q)) <= CacheXProc
  BY DelFinito, Constantes DEF EnCuota
<1>3. CASE q # p \/ ce[e].pid = p
  <2>1. Del(ce2, q) \subseteq Del(ce, q)
    BY <1>1, <1>3 DEF Del
  <2>2. Cardinality(Del(ce2, q)) <= Cardinality(Del(ce, q))
    BY <2>1, <1>2, FS_Subset
  <2> QED BY <2>2, <1>2
<1>4. CASE q = p /\ ce[e].pid # p
  <2>1. Del(ce2, q) \subseteq Del(ce, q) \cup {e}
    BY <1>1 DEF Del
  <2>2. /\ IsFiniteSet(Del(ce, q) \cup {e})
        /\ Cardinality(Del(ce, q) \cup {e}) <= Cardinality(Del(ce, q)) + 1
        /\ Cardinality(Del(ce, q) \cup {e}) \in Nat
    <3>1. /\ IsFiniteSet(Del(ce, q) \cup {e})
          /\ Cardinality(Del(ce, q) \cup {e}) =
                IF e \in Del(ce, q) THEN Cardinality(Del(ce, q)) ELSE Cardinality(Del(ce, q)) + 1
      BY <1>2, FS_AddElement
    <3> QED BY <3>1, <1>2
  <2>3. Cardinality(Del(ce2, q)) <= Cardinality(Del(ce, q) \cup {e})
    BY <2>1, <2>2, FS_Subset
  <2> QED BY <2>2, <2>3, <1>2, <1>4
<1> QED BY <1>3, <1>4

(* Page n of p is in a block, with what mem has from desde on. *)
Paginas_de(bc) == {<<bc[b].pid, bc[b].nroPagina>> : b \in Entradas}
Entra(bc, cor, bc2, cor2, p, n, desde, mem) ==
    /\ \E b \in Entradas : \E f \in [EnMarco -> Datos] :
          /\ bc2 = [bc EXCEPT ![b] = [pid |-> p, nroPagina |-> n, contenido |-> f]]
          /\ \A j \in EnMarco : desde + j \in Bytes => f[j] = mem[desde + j]
    /\ cor2 = (cor \cap Paginas_de(bc2)) \cup (IF desde % MarcoSize = 0 THEN {} ELSE {<<p, n>>})

(* A victim is an entry, and one of the program when it is at its quota. *)
LEMMA LasVictimas ==
    ASSUME NEW p, NEW e \in Victimas(p)
    PROVE  /\ e \in Entradas
           /\ cacheEntradas[e].pid = p \/ Cardinality(Del(cacheEntradas, p)) < CacheXProc
<1>1. DelProceso(p) = Del(cacheEntradas, p) /\ DelProceso(p) \subseteq Entradas
  BY DEF DelProceso, Del
<1>2. findMinorEntradas \subseteq Entradas
  BY DEF findMinorEntradas, getCacheMinorEntradas
<1>3. getCacheMinorEntradas(DelProceso(p)) \subseteq DelProceso(p)
  BY DEF getCacheMinorEntradas
<1>4. CASE ReemplazoGlobal(p)
  BY <1>1, <1>2, <1>4 DEF Victimas, ReemplazoGlobal
<1>5. CASE ~ ReemplazoGlobal(p)
  BY <1>1, <1>3, <1>5 DEF Victimas, Del
<1> QED BY <1>4, <1>5

(* The victim has a block, the first of which is taken. *)
LEMMA LosBloques ==
    ASSUME Concuerdan(cacheEntradas, bloqueCache), NEW e \in Entradas
    PROVE  LET B == BloqueVictima(cacheEntradas[e]) IN
           /\ B # {} /\ B \subseteq Entradas
           /\ \A b \in B : IF cacheEntradas[e].pid = Libre THEN bloqueCache[b].pid = Libre
                                                           ELSE Misma(cacheEntradas[e], bloqueCache[b])
<1> DEFINE v == cacheEntradas[e]
           B == BloqueVictima(v)
<1>1. B = {b \in Entradas : bloqueCache[b].pid = v.pid /\ v.nroPagina \in {bloqueCache[b].nroPagina, -1}}
  BY DEF BloqueVictima
<1>2. /\ IF v.pid = Libre THEN v.nroPagina \in {0, -1} ELSE v.nroPagina # -1
      /\ \A b \in Entradas : bloqueCache[b].pid = Libre => bloqueCache[b].nroPagina = 0
  BY DEF Concuerdan
<1>3. PICK b \in Entradas : IF v.pid = Libre THEN bloqueCache[b].pid = Libre ELSE Misma(v, bloqueCache[b])
  BY HayBloque
<1>4. b \in B
  BY <1>1, <1>2, <1>3 DEF Misma
<1>5. ASSUME NEW a \in B
      PROVE  IF v.pid = Libre THEN bloqueCache[a].pid = Libre ELSE Misma(v, bloqueCache[a])
  BY <1>1, <1>2 DEF Misma
<1> QED BY <1>1, <1>4, <1>5

(* A page that was not in the cache enters both lists, or neither.         *)
LEMMA Falla ==
    ASSUME Concuerdan(cacheEntradas, bloqueCache), EnCuota(cacheEntradas), reloj \in 0 .. MaxReloj,
           NEW p \in Pids, NEW n \in Paginas, NEW desde, NEW mem,
           \A a \in Entradas : ~ Es(bloqueCache[a], p, n),
           cacheMiss(p, n, desde, mem)
    PROVE  /\ Concuerdan(cacheEntradas', bloqueCache') /\ EnCuota(cacheEntradas')
           /\ \/ bloqueCache' = bloqueCache /\ corridas' = corridas
              \/ Entra(bloqueCache, corridas, bloqueCache', corridas', p, n, desde, mem)
<1> DEFINE leidos == {f \in [EnMarco -> Datos] :
                         \A i \in EnMarco : desde + i \in Bytes => f[i] = mem[desde + i]}
<1>1. CASE UNCHANGED cache
  BY <1>1 DEF cache
<1>2. CASE ~ UNCHANGED cache
  <2>1. PICK e \in Victimas(p) : \E f \in leidos :
           LET B == BloqueVictima(cacheEntradas[e])
               entra == [pid |-> p, nroPagina |-> n, contenido |-> f]
               nuevo == [b \in Entradas |-> IF b \in B /\ \A a \in B : b <= a THEN entra
                                                                           ELSE bloqueCache[b]]
               quedan == {<<nuevo[b].pid, nuevo[b].nroPagina>> : b \in Entradas} IN
           /\ cacheEntradas' = [cacheEntradas EXCEPT ![e] = Entrada(p, n)]
           /\ bloqueCache' = nuevo
           /\ corridas' = (corridas \cap quedan)
                            \cup (IF desde % MarcoSize = 0 THEN {} ELSE {<<p, n>>})
    BY <1>2 DEF cacheMiss
  <2> DEFINE B == BloqueVictima(cacheEntradas[e])
  <2>2. PICK f \in leidos :
           /\ cacheEntradas' = [cacheEntradas EXCEPT ![e] = Entrada(p, n)]
           /\ bloqueCache' = [b \in Entradas |-> IF b \in B /\ \A a \in B : b <= a
                                                   THEN [pid |-> p, nroPagina |-> n, contenido |-> f]
                                                   ELSE bloqueCache[b]]
           /\ corridas' = (corridas \cap Paginas_de(bloqueCache'))
                            \cup (IF desde % MarcoSize = 0 THEN {} ELSE {<<p, n>>})
    BY <2>1 DEF Paginas_de
  <2>3. e \in Entradas /\ (cacheEntradas[e].pid = p \/ Cardinality(Del(cacheEntradas, p)) < CacheXProc)
    BY LasVictimas
  <2>4. /\ B # {} /\ B \subseteq Entradas
        /\ \A b \in B : IF cacheEntradas[e].pid = Libre THEN bloqueCache[b].pid = Libre
                                                        ELSE Misma(cacheEntradas[e], bloqueCache[b])
    BY <2>3, LosBloques
  <2> HIDE DEF B
  <2>5. PICK b0 \in B : \A a \in B : b0 <= a
    <3>1. B \subseteq Nat
      BY <2>4, Constantes
    <3> QED BY <3>1, <2>4, MenorDe
  <2>6. \A b \in B : (\A a \in B : b <= a) <=> b = b0
    <3>1. B \subseteq Nat
      BY <2>4, Constantes
    <3> QED BY <3>1, <2>5
  <2>7. bloqueCache \in Bloques /\ cacheEntradas \in Admins
    BY DEF Concuerdan
  <2>8. bloqueCache' = [bloqueCache EXCEPT ![b0] = [pid |-> p, nroPagina |-> n, contenido |-> f]]
    BY <2>2, <2>4, <2>5, <2>6, <2>7 DEF Bloques
  <2>9. Entrada(p, n) = [pid |-> p, nroPagina |-> n, tiempoEntrada |-> reloj]
    BY DEF Entrada
  <2>10. f \in [EnMarco -> Datos] /\ \A j \in EnMarco : desde + j \in Bytes => f[j] = mem[desde + j]
    OBVIOUS
  <2>11. Reemplaza(cacheEntradas, bloqueCache, e, b0, p, n, f, cacheEntradas', bloqueCache')
    BY <2>2, <2>3, <2>4, <2>5, <2>8, <2>9 DEF Reemplaza
  <2>12. Concuerdan(cacheEntradas', bloqueCache')
    BY <2>10, <2>11, Reemplazo
  <2>13. EnCuota([cacheEntradas EXCEPT ![e] = Entrada(p, n)])
    BY <2>3, <2>7, <2>9, ReemplazoEnCuota
  <2>14. Entra(bloqueCache, corridas, bloqueCache', corridas', p, n, desde, mem)
    <3>1. /\ b0 \in Entradas
          /\ bloqueCache' = [bloqueCache EXCEPT ![b0] = [pid |-> p, nroPagina |-> n, contenido |-> f]]
          /\ \A j \in EnMarco : desde + j \in Bytes => f[j] = mem[desde + j]
      BY <2>4, <2>5, <2>8, <2>10
    <3>2. corridas' = (corridas \cap Paginas_de(bloqueCache'))
                         \cup (IF desde % MarcoSize = 0 THEN {} ELSE {<<p, n>>})
      BY <2>2
    <3>3. f \in [EnMarco -> Datos]
      BY <2>10
    <3>4. \E b \in Entradas : \E g \in [EnMarco -> Datos] :
             /\ bloqueCache' = [bloqueCache EXCEPT ![b] = [pid |-> p, nroPagina |-> n, contenido |-> g]]
             /\ \A j \in EnMarco : desde + j \in Bytes => g[j] = mem[desde + j]
      BY <3>1, <3>3
    <3> QED BY <3>2, <3>4 DEF Entra
  <2> QED BY <2>2, <2>12, <2>13, <2>14
<1> QED BY <1>1, <1>2

(* What only touches the times and the contents. *)
LEMMA MismasPaginas ==
    ASSUME NEW ce, NEW bc, NEW ce2 \in Admins, NEW bc2 \in Bloques, Concuerdan(ce, bc), EnCuota(ce),
           \A x \in Entradas : Misma(ce2[x], ce[x]) /\ Misma(bc2[x], bc[x])
    PROVE  Concuerdan(ce2, bc2) /\ EnCuota(ce2)
<1>1. /\ \A x, y \in Entradas : ce[x].pid # Libre /\ Misma(ce[x], ce[y]) => x = y
      /\ \A x, a \in Entradas : bc[x].pid # Libre /\ Misma(bc[x], bc[a]) => a = x
      /\ \A x \in Entradas : ce[x].pid # Libre => \E a \in Entradas : Misma(ce[x], bc[a])
      /\ \A a \in Entradas : bc[a].pid # Libre => \E x \in Entradas : Misma(ce[x], bc[a])
      /\ \A x \in Entradas : IF ce[x].pid = Libre THEN ce[x].nroPagina \in {0, -1}
                                                  ELSE ce[x].nroPagina # -1
      /\ \A a \in Entradas : bc[a].pid = Libre => bc[a].nroPagina = 0
  BY DEF Concuerdan
<1>2. \A x, y \in Entradas : ce2[x].pid # Libre /\ Misma(ce2[x], ce2[y]) => x = y
  BY <1>1 DEF Misma
<1>3. \A x, a \in Entradas : bc2[x].pid # Libre /\ Misma(bc2[x], bc2[a]) => a = x
  BY <1>1 DEF Misma
<1>4. \A x \in Entradas : ce2[x].pid # Libre => \E a \in Entradas : Misma(ce2[x], bc2[a])
  BY <1>1 DEF Misma
<1>5. \A a \in Entradas : bc2[a].pid # Libre => \E x \in Entradas : Misma(ce2[x], bc2[a])
  BY <1>1 DEF Misma
<1>6. \A x \in Entradas : IF ce2[x].pid = Libre THEN ce2[x].nroPagina \in {0, -1}
                                                ELSE ce2[x].nroPagina # -1
  BY <1>1 DEF Misma
<1>7. \A a \in Entradas : bc2[a].pid = Libre => bc2[a].nroPagina = 0
  BY <1>1 DEF Misma
<1>8. \A p : Del(ce2, p) = Del(ce, p)
  BY DEF Misma, Del
<1> QED BY <1>2, <1>3, <1>4, <1>5, <1>6, <1>7, <1>8 DEF Concuerdan, EnCuota

(* Pages N of p leave both lists. *)
Sin(r, r2, p, N, k) ==
    IF r.pid = p /\ r.nroPagina \in N THEN r2.pid = Libre /\ r2.nroPagina = k ELSE Misma(r2, r)

(* Pages of a program leave both lists. *)
LEMMA Limpieza ==
    ASSUME NEW ce, NEW bc, NEW ce2 \in Admins, NEW bc2 \in Bloques, Concuerdan(ce, bc), EnCuota(ce),
           NEW p \in Pids, NEW N, NEW k \in {0, -1},
           \A x \in Entradas : Sin(ce[x], ce2[x], p, N, k) /\ Sin(bc[x], bc2[x], p, N, 0)
    PROVE  Concuerdan(ce2, bc2) /\ EnCuota(ce2)
<1>1. /\ \A x, y \in Entradas : ce[x].pid # Libre /\ Misma(ce[x], ce[y]) => x = y
      /\ \A x, a \in Entradas : bc[x].pid # Libre /\ Misma(bc[x], bc[a]) => a = x
      /\ \A x \in Entradas : ce[x].pid # Libre => \E a \in Entradas : Misma(ce[x], bc[a])
      /\ \A a \in Entradas : bc[a].pid # Libre => \E x \in Entradas : Misma(ce[x], bc[a])
      /\ \A x \in Entradas : IF ce[x].pid = Libre THEN ce[x].nroPagina \in {0, -1}
                                                  ELSE ce[x].nroPagina # -1
      /\ \A a \in Entradas : bc[a].pid = Libre => bc[a].nroPagina = 0
  BY DEF Concuerdan
<1>2. \A x \in Entradas : ce2[x].pid # Libre => Misma(ce2[x], ce[x]) /\ ~(ce[x].pid = p /\ ce[x].nroPagina \in N)
  BY DEF Sin
<1>3. \A x \in Entradas : bc2[x].pid # Libre => Misma(bc2[x], bc[x]) /\ ~(bc[x].pid = p /\ bc[x].nroPagina \in N)
  BY DEF Sin
<1>4. \A x, y \in Entradas : ce2[x].pid # Libre /\ Misma(ce2[x], ce2[y]) => x = y
  BY <1>1, <1>2 DEF Misma
<1>5. \A x, a \in Entradas : bc2[x].pid # Libre /\ Misma(bc2[x], bc2[a]) => a = x
  BY <1>1, <1>3 DEF Misma
<1>6. ASSUME NEW x \in Entradas, ce2[x].pid # Libre
      PROVE  \E a \in Entradas : Misma(ce2[x], bc2[a])
  <2>1. PICK a \in Entradas : Misma(ce[x], bc[a])
    BY <1>1, <1>2, <1>6 DEF Misma
  <2>2. Misma(bc2[a], bc[a])
    BY <2>1, <1>2, <1>6 DEF Misma, Sin
  <2> QED BY <2>1, <2>2, <1>2, <1>6 DEF Misma
<1>7. ASSUME NEW a \in Entradas, bc2[a].pid # Libre
      PROVE  \E x \in Entradas : Misma(ce2[x], bc2[a])
  <2>1. PICK x \in Entradas : Misma(ce[x], bc[a])
    BY <1>1, <1>3, <1>7 DEF Misma
  <2>2. Misma(ce2[x], ce[x])
    BY <2>1, <1>3, <1>7 DEF Misma, Sin
  <2> QED BY <2>1, <2>2, <1>3, <1>7 DEF Misma
<1>8. \A x \in Entradas : IF ce2[x].pid = Libre THEN ce2[x].nroPagina \in {0, -1}
                                                ELSE ce2[x].nroPagina # -1
  BY <1>1 DEF Sin, Misma
<1>9. \A a \in Entradas : bc2[a].pid = Libre => bc2[a].nroPagina = 0
  BY <1>1 DEF Sin, Misma
<1>10. ASSUME NEW q \in Pids PROVE Cardinality(Del(ce2, q)) <= CacheXProc
  <2>1. Del(ce2, q) \subseteq Del(ce, q)
    BY Constantes DEF Del, Sin, Misma
  <2>2. Cardinality(Del(ce2, q)) <= Cardinality(Del(ce, q))
    BY <2>1, DelFinito, FS_Subset
  <2>3. /\ Cardinality(Del(ce2, q)) \in Nat /\ Cardinality(Del(ce, q)) \in Nat /\ CacheXProc \in Nat
        /\ Cardinality(Del(ce, q)) <= CacheXProc
    BY DelFinito, Constantes DEF EnCuota
  <2> QED BY <2>2, <2>3
<1> QED BY <1>4, <1>5, <1>6, <1>7, <1>8, <1>9, <1>10 DEF Concuerdan, EnCuota

(* Empty lists speak of the same pages. *)
LEMMA Vacias ==
    ASSUME NEW ce \in Admins, NEW bc \in Bloques,
           \A x \in Entradas : Es(ce[x], Libre, 0) /\ Es(bc[x], Libre, 0)
    PROVE  Concuerdan(ce, bc) /\ EnCuota(ce)
<1>1. Concuerdan(ce, bc)
  BY DEF Concuerdan, Es
<1>2. ASSUME NEW q \in Pids PROVE Cardinality(Del(ce, q)) <= CacheXProc
  <2>1. Del(ce, q) = {}
    BY Constantes DEF Del, Es
  <2> QED BY <2>1, FS_EmptySet, Constantes
<1> QED BY <1>1, <1>2 DEF EnCuota

-----------------------------------------------------------------------------
(* The invariant. *)

(* The frames are given out one page each; free ones are blank. *)
Repartida(t, mem, ini) ==
    /\ t \in Ranuras /\ mem \in [Bytes -> Datos]
    /\ \A i \in Frames : t[i].pid = Administrativa <=> i < PaginasAdms
    /\ \A i, j \in Frames :
          t[i].pid \in Pids /\ t[i].pid = t[j].pid /\ t[i].numeroPag = t[j].numeroPag => i = j
    /\ \A i \in Frames : t[i].pid \in Pids => t[i].pid \in ini
    /\ \A i \in Frames : \A j \in EnMarco : t[i].pid = Libre => mem[Base(i) + j] = Cero

(* A cached page has a frame, and its bytes unless it was cached from the  *)
(* middle of it.                                                           *)
Reflejan(bc, t, mem, cor) ==
    \A b \in Entradas : bc[b].pid # Libre => \E i \in Frames :
        /\ t[i].pid = bc[b].pid /\ t[i].numeroPag = bc[b].nroPagina
        /\ <<bc[b].pid, bc[b].nroPagina>> \notin cor =>
              \A j \in EnMarco : bc[b].contenido[j] = mem[Base(i) + j]

(* What the step of a thread says of the request it serves. *)
Pasos == {"espera", "INIT_PROGM", "ASIG_PAGES", "SOLC_BYTES", "ALMC_BYTES", "FINZ_PROGM",
          "LIBERAR_PAG", "solicitarBytes", "almacenarBytes", "finalizarPrograma", "liberarPagina"}
ConMutex == {"solicitarBytes", "almacenarBytes"}
Atiende(s, r) ==
    IF s = "espera" THEN r = Espacio!Ninguno
    ELSE /\ r \in Espacio!Pedidos
         /\ r.op = (IF s = "solicitarBytes" THEN "SOLC_BYTES"
                    ELSE IF s = "almacenarBytes" THEN "ALMC_BYTES"
                    ELSE IF s = "finalizarPrograma" THEN "FINZ_PROGM"
                    ELSE IF s = "liberarPagina" THEN "LIBERAR_PAG" ELSE s)

(* No two threads work for one program (the Kernel and the CPUs see to it).*)
Hilos ==
    /\ \A c \in Conexiones : mutexCache = c <=> paso[c] \in ConMutex
    /\ \A c \in Conexiones : Atiende(paso[c], pedido[c])
    /\ \A c, d \in Conexiones :
          c # d /\ paso[c] # "espera" /\ paso[d] # "espera" => pedido[c].pid # pedido[d].pid

(* A program that asks for its first pages has none, and one that asks for *)
(* a page has no page with the last number.                                *)
Cabe(s, r, t) ==
    /\ s = "INIT_PROGM" => \A i \in Frames : t[i].pid # r.pid
    /\ s = "ASIG_PAGES" => /\ MaxPagina > 0
                           /\ \A i \in Frames : t[i].pid = r.pid => t[i].numeroPag < MaxPagina
Pendientes ==
    /\ \A c \in Conexiones : Cabe(paso[c], pedido[c], tabla)
    /\ \A c \in Conexiones : paso[c] \in {"INIT_PROGM", "ASIG_PAGES"} => pedido[c].pid \in iniciado

(* Between the two critical sections of a request, the page that is read   *)
(* and the ones that are freed are not in the cache.                       *)
NoEsta(s, r, bc) ==
    \A b \in Entradas :
        /\ s \in {"solicitarBytes", "liberarPagina"} => ~ Es(bc[b], r.pid, r.pagina)
        /\ s = "finalizarPrograma" => bc[b].pid # r.pid
Fuera == \A c \in Conexiones : NoEsta(paso[c], pedido[c], bloqueCache)

MemoriaInv ==
    /\ TypeOK /\ Hilos /\ Pendientes /\ Fuera
    /\ Repartida(tabla, memoria, iniciado)
    /\ Concuerdan(cacheEntradas, bloqueCache) /\ EnCuota(cacheEntradas)
    /\ Reflejan(bloqueCache, tabla, memoria, corridas)

(* TypeOK, with the names that are used below. *)
LEMMA SonTipos ==
    TypeOK <=> /\ tabla \in Ranuras /\ memoria \in [Bytes -> Datos]
               /\ cacheEntradas \in Admins /\ bloqueCache \in Bloques
               /\ reloj \in 0 .. MaxReloj /\ mutexCache \in Conexiones \cup {Nadie}
               /\ paso \in [Conexiones -> Pasos]
               /\ pedido \in [Conexiones -> Espacio!Pedidos \cup {Espacio!Ninguno}]
               /\ iniciado \subseteq Pids /\ corridas \subseteq Pids \X Paginas
  BY DEF TypeOK, Ranuras, Admins, Bloques, Pasos

(* What the requests carry. *)
LEMMA LosPedidos ==
    ASSUME NEW r \in Espacio!Pedidos
    PROVE  /\ r.pid \in Pids /\ r # Espacio!Ninguno
           /\ r.op \in {"INIT_PROGM", "ASIG_PAGES", "FINZ_PROGM", "LIBERAR_PAG", "SOLC_BYTES", "ALMC_BYTES"}
           /\ r.op \in {"LIBERAR_PAG", "SOLC_BYTES", "ALMC_BYTES"} => r.pagina \in Paginas
           /\ r.op = "LIBERAR_PAG" => r.pagina >= PagsPrograma
           /\ r.op = "SOLC_BYTES" => r.bytes \in Lecturas
           /\ r.op = "ALMC_BYTES" => r.bytes \in Escrituras
<1>1. PagsPrograma \in Nat /\ MaxPagina \in Nat
  BY Constantes
<1>2. CASE r \in [op : {"INIT_PROGM", "ASIG_PAGES", "FINZ_PROGM"}, pid : Pids]
  <2>1. r.pid \in Pids /\ r.op \in {"INIT_PROGM", "ASIG_PAGES", "FINZ_PROGM"}
    BY <1>2
  <2> QED BY <2>1 DEF Espacio!Ninguno
<1>3. CASE r \in [op : {"LIBERAR_PAG"}, pid : Pids, pagina : PagsPrograma .. MaxPagina]
  <2>1. r.pid \in Pids /\ r.op = "LIBERAR_PAG" /\ r.pagina \in PagsPrograma .. MaxPagina
    BY <1>3
  <2> QED BY <2>1, <1>1 DEF Espacio!Ninguno, Paginas
<1>4. CASE r \in [op : {"SOLC_BYTES"}, pid : Pids, pagina : 0 .. MaxPagina, bytes : Lecturas]
  <2>1. r.pid \in Pids /\ r.op = "SOLC_BYTES" /\ r.pagina \in 0 .. MaxPagina /\ r.bytes \in Lecturas
    BY <1>4
  <2> QED BY <2>1 DEF Espacio!Ninguno, Paginas
<1>5. CASE r \in [op : {"ALMC_BYTES"}, pid : Pids, pagina : 0 .. MaxPagina, bytes : Escrituras]
  <2>1. r.pid \in Pids /\ r.op = "ALMC_BYTES" /\ r.pagina \in 0 .. MaxPagina /\ r.bytes \in Escrituras
    BY <1>5
  <2> QED BY <2>1 DEF Espacio!Ninguno, Paginas
<1> QED BY <1>2, <1>3, <1>4, <1>5 DEF Espacio!Pedidos

(* The request a thread is in the middle of. *)
LEMMA ElPedido ==
    ASSUME Hilos, NEW c \in Conexiones, paso[c] # "espera"
    PROVE  /\ pedido[c] \in Espacio!Pedidos /\ pedido[c].pid \in Pids
           /\ pedido[c] # Espacio!Ninguno
           /\ paso[c] \in {"SOLC_BYTES", "solicitarBytes"} =>
                 pedido[c].op = "SOLC_BYTES" /\ pedido[c].pagina \in Paginas /\ pedido[c].bytes \in Lecturas
           /\ paso[c] \in {"ALMC_BYTES", "almacenarBytes"} =>
                 pedido[c].op = "ALMC_BYTES" /\ pedido[c].pagina \in Paginas /\ pedido[c].bytes \in Escrituras
           /\ paso[c] \in {"LIBERAR_PAG", "liberarPagina"} =>
                 pedido[c].op = "LIBERAR_PAG" /\ pedido[c].pagina \in Paginas
           /\ paso[c] \in {"FINZ_PROGM", "finalizarPrograma"} => pedido[c].op = "FINZ_PROGM"
           /\ paso[c] \in {"INIT_PROGM", "ASIG_PAGES"} => pedido[c].op = paso[c]
<1>1. Atiende(paso[c], pedido[c])
  BY DEF Hilos
<1>2. pedido[c] \in Espacio!Pedidos
  BY <1>1 DEF Atiende
<1>3. /\ paso[c] \in {"SOLC_BYTES", "solicitarBytes"} => pedido[c].op = "SOLC_BYTES"
      /\ paso[c] \in {"ALMC_BYTES", "almacenarBytes"} => pedido[c].op = "ALMC_BYTES"
      /\ paso[c] \in {"LIBERAR_PAG", "liberarPagina"} => pedido[c].op = "LIBERAR_PAG"
      /\ paso[c] \in {"FINZ_PROGM", "finalizarPrograma"} => pedido[c].op = "FINZ_PROGM"
      /\ paso[c] \in {"INIT_PROGM", "ASIG_PAGES"} => pedido[c].op = paso[c]
  BY <1>1 DEF Atiende
<1> QED BY <1>2, <1>3, LosPedidos

(* The thread of c answers: it gives mutexCache back if it had it.         *)
LEMMA Contesta ==
    ASSUME TypeOK, Hilos, NEW c \in Conexiones, paso[c] # "espera", NEW r, Termina(c, r),
           mutexCache' = IF paso[c] \in ConMutex THEN Nadie ELSE mutexCache
    PROVE  /\ Hilos' /\ paso' \in [Conexiones -> Pasos] /\ mutexCache' \in Conexiones \cup {Nadie}
           /\ pedido' \in [Conexiones -> Espacio!Pedidos \cup {Espacio!Ninguno}]
           /\ \A d \in Conexiones : d # c => paso'[d] = paso[d] /\ pedido'[d] = pedido[d]
           /\ paso'[c] = "espera" /\ iniciado' = iniciado
<1>1. /\ paso \in [Conexiones -> Pasos] /\ mutexCache \in Conexiones \cup {Nadie}
      /\ pedido \in [Conexiones -> Espacio!Pedidos \cup {Espacio!Ninguno}] /\ Nadie \notin Conexiones
  BY SonTipos, Constantes
<1>2. /\ pedido' = [pedido EXCEPT ![c] = Espacio!Ninguno] /\ iniciado' = iniciado
      /\ paso' = [paso EXCEPT ![c] = "espera"]
  BY DEF Termina, Espacio!Responder
<1>3. /\ paso' \in [Conexiones -> Pasos] /\ mutexCache' \in Conexiones \cup {Nadie}
      /\ pedido' \in [Conexiones -> Espacio!Pedidos \cup {Espacio!Ninguno}]
  BY <1>1, <1>2 DEF Pasos
<1>4. /\ \A d \in Conexiones : d # c => paso'[d] = paso[d] /\ pedido'[d] = pedido[d]
      /\ paso'[c] = "espera" /\ pedido'[c] = Espacio!Ninguno
  BY <1>1, <1>2
<1>5. /\ \A d \in Conexiones : mutexCache = d <=> paso[d] \in ConMutex
      /\ \A d \in Conexiones : Atiende(paso[d], pedido[d])
      /\ \A d, e \in Conexiones :
            d # e /\ paso[d] # "espera" /\ paso[e] # "espera" => pedido[d].pid # pedido[e].pid
  BY DEF Hilos
<1>6. \A d \in Conexiones : mutexCache' = d <=> paso'[d] \in ConMutex
  <2> SUFFICES ASSUME NEW d \in Conexiones PROVE mutexCache' = d <=> paso'[d] \in ConMutex
    OBVIOUS
  <2>1. "espera" \notin ConMutex
    BY DEF ConMutex
  <2>2. CASE d = c
    BY <2>1, <2>2, <1>1, <1>4, <1>5
  <2>3. CASE d # c
    BY <2>3, <1>1, <1>4, <1>5
  <2> QED BY <2>2, <2>3
<1>7. \A d \in Conexiones : Atiende(paso'[d], pedido'[d])
  BY <1>4, <1>5 DEF Atiende
<1>8. \A d, e \in Conexiones :
         d # e /\ paso'[d] # "espera" /\ paso'[e] # "espera" => pedido'[d].pid # pedido'[e].pid
  BY <1>4, <1>5
<1>9. Hilos'
  BY <1>6, <1>7, <1>8 DEF Hilos
<1> QED BY <1>2, <1>3, <1>4, <1>9

(* The thread of c goes on to the second part of its handler. *)
LEMMA Avanza ==
    ASSUME TypeOK, Hilos, NEW c \in Conexiones,
           paso[c] \in {"SOLC_BYTES", "ALMC_BYTES", "FINZ_PROGM", "LIBERAR_PAG"}, mutexCache = Nadie,
           NEW s, s = (IF paso[c] = "SOLC_BYTES" THEN "solicitarBytes"
                       ELSE IF paso[c] = "ALMC_BYTES" THEN "almacenarBytes"
                       ELSE IF paso[c] = "FINZ_PROGM" THEN "finalizarPrograma" ELSE "liberarPagina"),
           paso' = [paso EXCEPT ![c] = s], pedido' = pedido,
           mutexCache' = IF s \in ConMutex THEN c ELSE mutexCache
    PROVE  /\ Hilos' /\ paso' \in [Conexiones -> Pasos] /\ mutexCache' \in Conexiones \cup {Nadie}
           /\ \A d \in Conexiones : d # c => paso'[d] = paso[d]
           /\ paso'[c] = s
<1>1. /\ paso \in [Conexiones -> Pasos] /\ Nadie \notin Conexiones
  BY SonTipos, Constantes
<1>2. /\ \A d \in Conexiones : mutexCache = d <=> paso[d] \in ConMutex
      /\ \A d \in Conexiones : Atiende(paso[d], pedido[d])
      /\ \A d, e \in Conexiones :
            d # e /\ paso[d] # "espera" /\ paso[e] # "espera" => pedido[d].pid # pedido[e].pid
  BY DEF Hilos
<1>3. s \in Pasos /\ s # "espera" /\ paso[c] # "espera"
  BY DEF Pasos
<1>4. paso' \in [Conexiones -> Pasos] /\ mutexCache' \in Conexiones \cup {Nadie}
  BY <1>1, <1>3
<1>5. paso'[c] = s /\ \A d \in Conexiones : d # c => paso'[d] = paso[d]
  BY <1>1
<1>6. \A d \in Conexiones : d # c => paso[d] \notin ConMutex
  BY <1>1, <1>2
<1>7. \A d \in Conexiones : mutexCache' = d <=> paso'[d] \in ConMutex
  BY <1>1, <1>5, <1>6
<1>8. Atiende(s, pedido[c])
  BY <1>2 DEF Atiende
<1>9. \A d \in Conexiones : Atiende(paso'[d], pedido'[d])
  BY <1>2, <1>5, <1>8
<1>10. \A d, e \in Conexiones :
         d # e /\ paso'[d] # "espera" /\ paso'[e] # "espera" => pedido'[d].pid # pedido'[e].pid
  BY <1>2, <1>3, <1>5
<1>11. Hilos'
  BY <1>7, <1>9, <1>10 DEF Hilos
<1> QED BY <1>4, <1>5, <1>11

(* The other threads work for other programs: what a handler does with the *)
(* frames and the pages of its own leaves what they count on.              *)
LEMMA LosDemas ==
    ASSUME Hilos, Pendientes, Fuera, NEW c \in Conexiones, paso[c] # "espera",
           \A d \in Conexiones : d # c => paso'[d] = paso[d] /\ pedido'[d] = pedido[d],
           iniciado' = iniciado,
           \A i \in Frames : \/ tabla'[i] = tabla[i]
                             \/ tabla'[i].pid \in {pedido[c].pid, Libre},
           \A b \in Entradas : \/ Misma(bloqueCache'[b], bloqueCache[b])
                               \/ bloqueCache'[b].pid \in {pedido[c].pid, Libre},
           paso'[c] \notin {"INIT_PROGM", "ASIG_PAGES"},
           NoEsta(paso'[c], pedido'[c], bloqueCache')
    PROVE  Pendientes' /\ Fuera'
<1>1. ASSUME NEW d \in Conexiones, d # c, paso'[d] # "espera"
      PROVE  /\ paso'[d] = paso[d] /\ pedido'[d] = pedido[d]
             /\ pedido[d].pid # pedido[c].pid /\ pedido[d].pid # Libre
  <2>1. paso'[d] = paso[d] /\ pedido'[d] = pedido[d]
    BY <1>1
  <2>2. pedido[d].pid \in Pids
    BY <2>1, <1>1, ElPedido
  <2> QED BY <2>1, <2>2, <1>1, Constantes DEF Hilos
<1>2. ASSUME NEW d \in Conexiones PROVE Cabe(paso'[d], pedido'[d], tabla')
  <2>1. CASE d = c
    BY <2>1 DEF Cabe
  <2>2. CASE paso'[d] = "espera"
    BY <2>2 DEF Cabe
  <2>3. CASE d # c /\ paso'[d] # "espera"
    <3>1. Cabe(paso[d], pedido[d], tabla)
      BY DEF Pendientes
    <3> QED BY <3>1, <2>3, <1>1 DEF Cabe
  <2> QED BY <2>1, <2>2, <2>3
<1>3. ASSUME NEW d \in Conexiones, paso'[d] \in {"INIT_PROGM", "ASIG_PAGES"}
      PROVE  pedido'[d].pid \in iniciado'
  BY <1>1, <1>3 DEF Pendientes
<1>4. Pendientes'
  BY <1>2, <1>3 DEF Pendientes
<1>5. ASSUME NEW d \in Conexiones PROVE NoEsta(paso'[d], pedido'[d], bloqueCache')
  <2>1. CASE d = c
    BY <2>1
  <2>2. CASE paso'[d] = "espera"
    BY <2>2 DEF NoEsta
  <2>3. CASE d # c /\ paso'[d] # "espera"
    <3>1. NoEsta(paso[d], pedido[d], bloqueCache)
      BY DEF Fuera
    <3> QED BY <3>1, <2>3, <1>1 DEF NoEsta, Es, Misma
  <2> QED BY <2>1, <2>2, <2>3
<1>6. Fuera'
  BY <1>5 DEF Fuera
<1> QED BY <1>4, <1>6

-----------------------------------------------------------------------------
(* The frames. *)

LEMMA Ocupado ==
    ASSUME tabla \in Ranuras
    PROVE  /\ Ocupados = {i \in Frames : tabla[i].pid \in Pids}
           /\ \A i \in Frames : tabla[i].pid \in Pids => tabla[i].numeroPag \in Paginas
<1>1. ASSUME NEW i \in Frames PROVE tabla[i].pid >= 0 <=> tabla[i].pid \in Pids
  <2>1. tabla[i].pid \in Pids \cup {Libre, Administrativa}
    BY DEF Ranuras
  <2>2. CASE tabla[i].pid \in Pids
    <3>1. tabla[i].pid \in Nat
      BY <2>2, Constantes
    <3> QED BY <2>2, <3>1
  <2>3. CASE tabla[i].pid = Libre
    <3>1. ~ (-1 >= 0)
      OBVIOUS
    <3> QED BY <2>3, <3>1, Constantes DEF Libre
  <2>4. CASE tabla[i].pid = Administrativa
    <3>1. ~ (-2 >= 0)
      OBVIOUS
    <3> QED BY <2>4, <3>1, Constantes DEF Administrativa
  <2> QED BY <2>1, <2>2, <2>3, <2>4
<1>2. Ocupados \subseteq {i \in Frames : tabla[i].pid \in Pids}
  BY <1>1 DEF Ocupados
<1>3. {i \in Frames : tabla[i].pid \in Pids} \subseteq Ocupados
  BY <1>1 DEF Ocupados
<1>4. \A i \in Frames : tabla[i].numeroPag \in Paginas
  BY DEF Ranuras
<1> QED BY <1>2, <1>3, <1>4

(* A page is in one frame at most, and encontrarPagina finds it. *)
LEMMA Encontrada ==
    ASSUME Repartida(tabla, memoria, iniciado), NEW p \in Pids, NEW n
    PROVE  /\ encontrarPagina(p, n) = {i \in Frames : tabla[i].pid = p /\ tabla[i].numeroPag = n}
           /\ \A i \in encontrarPagina(p, n) :
                 /\ i \in Frames /\ tabla[i].pid = p /\ tabla[i].numeroPag = n /\ i >= PaginasAdms
                 /\ encontrarPagina(p, n) = {i}
<1> DEFINE F == {i \in Frames : tabla[i].pid = p /\ tabla[i].numeroPag = n}
<1>1. \A i, j \in F : i = j
  BY DEF Repartida
<1>2. \A i \in F : i \in Frames /\ tabla[i].pid = p /\ tabla[i].numeroPag = n /\ i >= PaginasAdms
  <2>1. ASSUME NEW i \in F PROVE i >= PaginasAdms
    <3>1. tabla[i].pid # Administrativa
      BY Constantes
    <3>2. ~(i < PaginasAdms)
      BY <3>1 DEF Repartida
    <3> QED BY <3>2, Constantes
  <2> QED BY <2>1
<1>3. F \subseteq Frames
  OBVIOUS
<1>4. encontrarPagina(p, n) = IF F = {} THEN {} ELSE {Sondeo(getHash(p, n), F)}
  BY DEF encontrarPagina
<1> HIDE DEF F
<1>5. encontrarPagina(p, n) = F
  <2>1. CASE F = {}
    BY <2>1, <1>4
  <2>2. CASE F # {}
    <3>1. Sondeo(getHash(p, n), F) \in F
      BY <1>3, <2>2, Sondea
    <3> QED BY <3>1, <2>2, <1>1, <1>4
  <2> QED BY <2>1, <2>2
<1>6. \A i \in F : F = {i}
  BY <1>1
<1> QED BY <1>2, <1>5, <1>6 DEF F

(* Frames that are given back. *)
LEMMA Borrados ==
    ASSUME Repartida(tabla, memoria, iniciado), NEW F, F \subseteq Frames,
           \A i \in F : tabla[i].pid \in Pids, Borrar_marcos(F)
    PROVE  /\ Repartida(tabla', memoria', iniciado)
           /\ \A i \in Frames : tabla'[i] = IF i \in F THEN [pid |-> Libre, numeroPag |-> 0] ELSE tabla[i]
           /\ \A i \in Frames : i >= PaginasAdms =>
                 \A j \in EnMarco : memoria'[Base(i) + j] = IF i \in F THEN Cero ELSE memoria[Base(i) + j]
<1>1. /\ tabla \in Ranuras /\ memoria \in [Bytes -> Datos]
      /\ \A i \in Frames : tabla[i].pid = Administrativa <=> i < PaginasAdms
      /\ \A i, j \in Frames : tabla[i].pid \in Pids /\ tabla[i].pid = tabla[j].pid
                                 /\ tabla[i].numeroPag = tabla[j].numeroPag => i = j
      /\ \A i \in Frames : tabla[i].pid \in Pids => tabla[i].pid \in iniciado
      /\ \A i \in Frames : \A j \in EnMarco : tabla[i].pid = Libre => memoria[Base(i) + j] = Cero
  BY DEF Repartida
<1>2. \A i \in Frames : tabla'[i] = IF i \in F THEN [pid |-> Libre, numeroPag |-> 0] ELSE tabla[i]
  BY DEF Borrar_marcos
<1>3. memoria' = [k \in Bytes |-> IF k \div MarcoSize \in F THEN Cero ELSE memoria[k]]
  BY DEF Borrar_marcos, memset
<1>4. 0 \in Paginas /\ Cero \in Datos /\ Libre # Administrativa /\ Libre \notin Pids /\ Administrativa \notin Pids
  BY Constantes DEF Paginas
<1>5. tabla' \in Ranuras
  <2>1. tabla' = [i \in Frames |-> IF i \in F THEN [pid |-> Libre, numeroPag |-> 0] ELSE tabla[i]]
    BY DEF Borrar_marcos
  <2> QED BY <2>1, <1>1, <1>4 DEF Ranuras
<1>6. memoria' \in [Bytes -> Datos]
  BY <1>1, <1>3, <1>4
<1>7. ASSUME NEW i \in Frames, i >= PaginasAdms, NEW j \in EnMarco
      PROVE  memoria'[Base(i) + j] = IF i \in F THEN Cero ELSE memoria[Base(i) + j]
  <2>1. Base(i) + j \in Bytes /\ (Base(i) + j) \div MarcoSize = i
    BY <1>7, ByteDeMarco
  <2> QED BY <2>1, <1>3
<1>8. \A i \in Frames : tabla'[i].pid = Administrativa <=> i < PaginasAdms
  BY <1>1, <1>2, <1>4
<1>9. \A i, j \in Frames : tabla'[i].pid \in Pids /\ tabla'[i].pid = tabla'[j].pid
                              /\ tabla'[i].numeroPag = tabla'[j].numeroPag => i = j
  BY <1>1, <1>2, <1>4
<1>10. \A i \in Frames : tabla'[i].pid \in Pids => tabla'[i].pid \in iniciado
  BY <1>1, <1>2, <1>4
<1>11. ASSUME NEW i \in Frames, NEW j \in EnMarco, tabla'[i].pid = Libre
       PROVE  memoria'[Base(i) + j] = Cero
  <2>1. i >= PaginasAdms
    <3>1. ~(i < PaginasAdms)
      BY <1>4, <1>8, <1>11
    <3> QED BY <3>1, Constantes
  <2> QED BY <2>1, <1>1, <1>2, <1>7, <1>11
<1> QED BY <1>2, <1>5, <1>6, <1>7, <1>8, <1>9, <1>10, <1>11 DEF Repartida

(* Pages of p that are placed after the ones it has. *)
LEMMA Repartidas ==
    ASSUME NEW t0, NEW t, NEW mem, NEW ini, Repartida(t0, mem, ini), NEW p \in Pids, p \in ini,
           NEW desde \in Nat, NEW n \in Nat, Ubicadas(t0, t, p, desde, n),
           \A i \in Frames : t0[i].pid = p => t0[i].numeroPag < desde
    PROVE  Repartida(t, mem, ini)
<1>1. /\ t0 \in Ranuras /\ mem \in [Bytes -> Datos]
      /\ \A i \in Frames : t0[i].pid = Administrativa <=> i < PaginasAdms
      /\ \A i, j \in Frames : t0[i].pid \in Pids /\ t0[i].pid = t0[j].pid
                                 /\ t0[i].numeroPag = t0[j].numeroPag => i = j
      /\ \A i \in Frames : t0[i].pid \in Pids => t0[i].pid \in ini
      /\ \A i \in Frames : \A j \in EnMarco : t0[i].pid = Libre => mem[Base(i) + j] = Cero
  BY DEF Repartida
<1>2. /\ t \in Ranuras
      /\ \A i \in Frames : t[i] = t0[i] \/ (/\ t0[i].pid = Libre /\ t[i].pid = p
                                            /\ t[i].numeroPag \in desde .. desde + n - 1)
      /\ \A i, j \in Frames :
            t0[i].pid = Libre /\ t0[j].pid = Libre /\ t[i].pid = p /\ t[j].pid = p
               /\ t[i].numeroPag = t[j].numeroPag => i = j
  BY DEF Ubicadas
<1>3. Libre \notin Pids /\ Libre # Administrativa /\ Administrativa \notin Pids
  BY Constantes
<1>4. \A i \in Frames : t[i].pid = Administrativa <=> i < PaginasAdms
  BY <1>1, <1>2, <1>3
<1>5. ASSUME NEW i \in Frames, NEW j \in Frames, t[i] = t0[i], t[j] # t0[j], t[i].pid = t[j].pid
      PROVE  t[i].numeroPag # t[j].numeroPag
  <2>1. t[j].pid = p /\ t[j].numeroPag \in desde .. desde + n - 1
    BY <1>2, <1>5
  <2>2. t[i].numeroPag < desde /\ t[i].numeroPag \in Nat
    BY <2>1, <1>1, <1>5, Constantes DEF Ranuras, Paginas
  <2> QED BY <2>1, <2>2
<1>6. ASSUME NEW i \in Frames, NEW j \in Frames, t[i].pid \in Pids, t[i].pid = t[j].pid,
             t[i].numeroPag = t[j].numeroPag
      PROVE  i = j
  <2>1. CASE t[i] = t0[i] /\ t[j] = t0[j]
    BY <2>1, <1>1, <1>6
  <2>2. CASE t[i] = t0[i] /\ t[j] # t0[j]
    BY <2>2, <1>5, <1>6
  <2>3. CASE t[i] # t0[i] /\ t[j] = t0[j]
    BY <2>3, <1>5, <1>6
  <2>4. CASE t[i] # t0[i] /\ t[j] # t0[j]
    BY <2>4, <1>2, <1>6
  <2> QED BY <2>1, <2>2, <2>3, <2>4
<1>7. \A i \in Frames : t[i].pid \in Pids => t[i].pid \in ini
  BY <1>1, <1>2
<1>8. \A i \in Frames : \A j \in EnMarco : t[i].pid = Libre => mem[Base(i) + j] = Cero
  BY <1>1, <1>2, <1>3
<1> QED BY <1>1, <1>2, <1>4, <1>6, <1>7, <1>8 DEF Repartida

(* Bytes that are written inside one frame. *)
LEMMA Escritos ==
    ASSUME memoria \in [Bytes -> Datos], NEW m \in Frames, m >= PaginasAdms,
           NEW o \in EnMarco, NEW s \in Seq(Datos), o + Len(s) <= MarcoSize,
           memoria' = memcpy(Base(m) + o, s)
    PROVE  /\ memoria' \in [Bytes -> Datos]
           /\ \A i \in Frames : i >= PaginasAdms => \A j \in EnMarco :
                 memoria'[Base(i) + j] = IF i = m /\ j - o + 1 \in DOMAIN s THEN s[j - o + 1]
                                                                           ELSE memoria[Base(i) + j]
<1>1. memoria' = [k \in Bytes |-> IF k - (Base(m) + o) + 1 \in DOMAIN s THEN s[k - (Base(m) + o) + 1]
                                                                        ELSE memoria[k]]
  BY DEF memcpy
<1>2. DOMAIN s = 1 .. Len(s) /\ Len(s) \in Nat /\ \A x \in DOMAIN s : s[x] \in Datos
  OBVIOUS
<1>3. memoria' \in [Bytes -> Datos]
  BY <1>1, <1>2
<1>4. Base(m) \in Int /\ o \in Int /\ 0 <= o /\ o < MarcoSize /\ MarcoSize \in Nat /\ 0 \in EnMarco
      /\ EnMarco \subseteq Int
  BY ByteDeMarco, Constantes DEF EnMarco
<1>5. PICK b \in Int : b = Base(m)
  BY <1>4
<1>6. \A k \in Bytes : memoria'[k] = IF k - (b + o) + 1 \in DOMAIN s THEN s[k - (b + o) + 1] ELSE memoria[k]
  BY <1>1, <1>5
<1>7. ASSUME NEW i \in Frames, i >= PaginasAdms, NEW j \in EnMarco
      PROVE  memoria'[Base(i) + j] = IF i = m /\ j - o + 1 \in DOMAIN s THEN s[j - o + 1]
                                                                        ELSE memoria[Base(i) + j]
  <2>1. Base(i) + j \in Bytes /\ (Base(i) + j) \div MarcoSize = i /\ Base(i) \in Int /\ j \in Int
    BY <1>4, <1>7, ByteDeMarco
  <2>2. PICK a \in Int : a = Base(i)
    BY <2>1
  <2>3. a + j \in Bytes /\ a + j \in Int
    BY <2>1, <2>2
  <2>6. PICK k \in Bytes : k = a + j
    BY <2>3
  <2>7. memoria'[k] = IF k - (b + o) + 1 \in DOMAIN s THEN s[k - (b + o) + 1] ELSE memoria[k]
    BY <1>6
  <2>4. CASE i = m
    <3>1. a + j - (b + o) + 1 = j - o + 1
      BY <1>4, <1>5, <2>1, <2>2, <2>4, SMTT(30)
    <3>2. k - (b + o) + 1 = j - o + 1
      BY <3>1, <1>4, <2>1, <2>3, <2>6
    <3>3. memoria'[k] = IF j - o + 1 \in DOMAIN s THEN s[j - o + 1] ELSE memoria[k]
      BY <3>2, <2>7
    <3> QED BY <3>3, <2>2, <2>4, <2>6
  <2>5. CASE i # m
    <3>1. a + j - (b + o) + 1 \notin DOMAIN s
      <4> SUFFICES ASSUME a + j - (b + o) + 1 \in DOMAIN s PROVE FALSE
        OBVIOUS
      <4>1. a + j - (b + o) + 1 \in 1 .. Len(s)
        BY <1>2
      <4>2. a + j - b \in 0 .. MarcoSize - 1 /\ b + (a + j - b) = a + j
        BY <4>1, <1>2, <1>4, <2>1
      <4>3. (Base(m) + (a + j - b)) \div MarcoSize = m
        BY <4>2, ByteDeMarco DEF EnMarco
      <4>4. (a + j) \div MarcoSize = m
        BY <4>2, <4>3, <1>5
      <4>5. (a + j) \div MarcoSize = i
        BY <2>1, <2>2
      <4> QED BY <4>4, <4>5, <2>5
    <3>2. k - (b + o) + 1 \notin DOMAIN s
      BY <3>1, <1>4, <2>1, <2>3, <2>6
    <3>3. memoria'[k] = memoria[k]
      BY <3>2, <2>7
    <3> QED BY <3>3, <2>2, <2>5, <2>6
  <2> QED BY <2>4, <2>5
<1> QED BY <1>3, <1>7

(* The offset of a byte in its frame. *)
LEMMA Desplazamiento ==
    ASSUME NEW m \in Frames, m >= PaginasAdms, NEW o \in EnMarco
    PROVE  (Base(m) + o) % MarcoSize = o
<1>1. Base(m) + o \in Bytes /\ (Base(m) + o) \div MarcoSize = m /\ Base(m) \in Int /\ o \in Int /\ o >= 0
  BY ByteDeMarco, Constantes DEF EnMarco
<1>2. MarcoSize \in Nat \ {0} /\ m \in Nat
  BY Constantes
<1>3. Base(m) = m * MarcoSize /\ m * MarcoSize \in Nat
  BY <1>2 DEF Base
<1>4. PICK b \in Nat : b = m * MarcoSize
  BY <1>3
<1>5. b + o \in Nat /\ (b + o) \div MarcoSize = m
  BY <1>1, <1>3, <1>4
<1>6. (b + o) % MarcoSize = o
  <2>1. PICK x \in Nat : x = b + o
    BY <1>5
  <2>2. x % MarcoSize = x - (x \div MarcoSize) * MarcoSize
    BY <1>2, Cociente
  <2>3. x \div MarcoSize = m
    BY <2>1, <1>5
  <2>4. (x \div MarcoSize) * MarcoSize = b
    BY <2>3, <1>4
  <2>5. x % MarcoSize = x - b
    BY <2>2, <2>4
  <2> QED BY <2>1, <2>5, <1>1
<1> QED BY <1>3, <1>4, <1>6

(* TypeOK of the next state. *)
LEMMA TiposDespues ==
    ASSUME tabla' \in Ranuras, memoria' \in [Bytes -> Datos],
           cacheEntradas' \in Admins, bloqueCache' \in Bloques,
           reloj' \in 0 .. MaxReloj, mutexCache' \in Conexiones \cup {Nadie},
           paso' \in [Conexiones -> Pasos],
           pedido' \in [Conexiones -> Espacio!Pedidos \cup {Espacio!Ninguno}],
           iniciado' \subseteq Pids, corridas' \subseteq Pids \X Paginas
    PROVE  TypeOK'
  BY DEF TypeOK, Ranuras, Admins, Bloques, Pasos

(* The last page of a program. *)
LEMMA LaUltima ==
    ASSUME Repartida(tabla, memoria, iniciado), NEW p \in Pids
    PROVE  /\ DOMAIN espacio = {PaginaDe(i) : i \in Ocupados}
           /\ Espacio!Ultima(espacio, p) \in Paginas
           /\ getNextPaginasPID(p) = Espacio!Ultima(espacio, p) + 1
           /\ \A i \in Frames : tabla[i].pid = p => tabla[i].numeroPag <= Espacio!Ultima(espacio, p)
           /\ Espacio!De(espacio, p) # {} <=> \E i \in Frames : tabla[i].pid = p
<1> DEFINE D == Espacio!De(espacio, p)
           N == {0} \cup {tabla[i].numeroPag : i \in MarcosDe(tabla, p)}
<1>1. Ocupados = {i \in Frames : tabla[i].pid \in Pids} /\ \A i \in Frames : tabla[i].pid \in Pids => tabla[i].numeroPag \in Paginas
  BY Ocupado DEF Repartida
<1>2. DOMAIN espacio = {PaginaDe(i) : i \in Ocupados}
  BY DEF espacio
<1>3. D = {x \in DOMAIN espacio : x[1] = p}
  BY DEF Espacio!De
<1>4. ASSUME NEW i \in Frames, tabla[i].pid = p PROVE <<p, tabla[i].numeroPag>> \in D
  <2>1. i \in Ocupados /\ PaginaDe(i) = <<p, tabla[i].numeroPag>>
    BY <1>1, <1>4 DEF PaginaDe
  <2> QED BY <2>1, <1>2, <1>3
<1>5. ASSUME NEW x \in D PROVE \E i \in Frames : tabla[i].pid = p /\ x = <<p, tabla[i].numeroPag>>
  <2>1. PICK i \in Ocupados : x = PaginaDe(i)
    BY <1>2, <1>3
  <2>2. x[1] = p
    BY <1>3
  <2>3. i \in Frames /\ x = <<tabla[i].pid, tabla[i].numeroPag>>
    BY <1>1, <2>1 DEF PaginaDe
  <2> QED BY <2>2, <2>3
<1>6. D # {} <=> \E i \in Frames : tabla[i].pid = p
  BY <1>4, <1>5
<1>7. {0} \cup {x[2] : x \in D} = N
  <2>1. \A x \in D : x[2] \in N
    BY <1>5 DEF MarcosDe
  <2>2. \A i \in MarcosDe(tabla, p) : \E x \in D : tabla[i].numeroPag = x[2]
    BY <1>4 DEF MarcosDe
  <2> QED BY <2>1, <2>2
<1>8. Espacio!Ultima(espacio, p) = Max(N)
  BY <1>7 DEF Espacio!Ultima, Espacio!Max, Max
<1>9. N \subseteq 0 .. MaxPagina /\ N # {} /\ MaxPagina \in Nat
  BY <1>1, Constantes DEF Paginas, MarcosDe
<1>10. Max(N) \in N /\ \A y \in N : Max(N) >= y
  BY <1>9, MayorDe
<1>11. getNextPaginasPID(p) = Max(N) + 1
  BY DEF getNextPaginasPID
<1>12. ASSUME NEW i \in Frames, tabla[i].pid = p PROVE tabla[i].numeroPag <= Max(N)
  <2>1. tabla[i].numeroPag \in N
    BY <1>12 DEF MarcosDe
  <2>2. Max(N) >= tabla[i].numeroPag
    BY <2>1, <1>10
  <2>3. Max(N) \in Int /\ tabla[i].numeroPag \in Int
    BY <2>1, <1>9, <1>10
  <2> QED BY <2>2, <2>3
<1>13. Max(N) \in Paginas
  BY <1>9, <1>10 DEF Paginas
<1> QED BY <1>2, <1>6, <1>8, <1>11, <1>12, <1>13

(* What leaves the cached pages and their frames as they are. *)
LEMMA SigueReflejada ==
    ASSUME NEW bc, NEW t, NEW mem, NEW cor, Reflejan(bc, t, mem, cor),
           NEW bc2, NEW t2, NEW mem2, NEW cor2,
           \A b \in Entradas : bc2[b].pid # Libre =>
               /\ Misma(bc2[b], bc[b]) /\ bc2[b].contenido = bc[b].contenido
               /\ <<bc2[b].pid, bc2[b].nroPagina>> \in cor => <<bc2[b].pid, bc2[b].nroPagina>> \in cor2
               /\ \A i \in Frames : t[i].pid = bc2[b].pid /\ t[i].numeroPag = bc2[b].nroPagina =>
                     t2[i] = t[i] /\ \A j \in EnMarco : mem2[Base(i) + j] = mem[Base(i) + j]
    PROVE  Reflejan(bc2, t2, mem2, cor2)
<1> SUFFICES ASSUME NEW b \in Entradas, bc2[b].pid # Libre
             PROVE  \E i \in Frames :
                /\ t2[i].pid = bc2[b].pid /\ t2[i].numeroPag = bc2[b].nroPagina
                /\ <<bc2[b].pid, bc2[b].nroPagina>> \notin cor2 =>
                      \A j \in EnMarco : bc2[b].contenido[j] = mem2[Base(i) + j]
  BY DEF Reflejan
<1>1. bc[b].pid = bc2[b].pid /\ bc[b].nroPagina = bc2[b].nroPagina /\ bc2[b].contenido = bc[b].contenido
  BY DEF Misma
<1>2. PICK i \in Frames :
         /\ t[i].pid = bc2[b].pid /\ t[i].numeroPag = bc2[b].nroPagina
         /\ <<bc2[b].pid, bc2[b].nroPagina>> \notin cor =>
               \A j \in EnMarco : bc2[b].contenido[j] = mem[Base(i) + j]
  BY <1>1 DEF Reflejan
<1>3. t2[i] = t[i] /\ \A j \in EnMarco : mem2[Base(i) + j] = mem[Base(i) + j]
  BY <1>2
<1> QED BY <1>2, <1>3

(* The frames after the administrative ones are for the programs. *)
LEMMA ConMarco ==
    ASSUME NEW t, NEW mem, NEW ini, Repartida(t, mem, ini)
    PROVE  \A i \in Frames : t[i].pid \in Pids \/ t[i].pid = Libre => i >= PaginasAdms
<1> SUFFICES ASSUME NEW i \in Frames, t[i].pid \in Pids \/ t[i].pid = Libre PROVE i >= PaginasAdms
  OBVIOUS
<1>1. t[i].pid # Administrativa
  BY Constantes
<1>2. ~(i < PaginasAdms)
  BY <1>1 DEF Repartida
<1> QED BY <1>2, Constantes

(* A page of frame m that enters the cache from byte o of it, in a memory  *)
(* that differs from the former one in frame m only.                       *)
SoloCambia(m, mem, mem2) ==
    \A i \in Frames : i # m /\ i >= PaginasAdms =>
        \A j \in EnMarco : mem2[Base(i) + j] = mem[Base(i) + j]
Ausente(bc, p, n) == \A a \in Entradas : ~ Es(bc[a], p, n)

EntraDesde(bc, cor, bc2, cor2, t, mem, mem2, p, n, m, o, desde) ==
    /\ bc \in Bloques /\ Reflejan(bc, t, mem, cor)
    /\ \A i \in Frames : t[i].pid \in Pids => i >= PaginasAdms
    /\ p \in Pids /\ m \in Frames /\ m >= PaginasAdms
    /\ t[m].pid = p /\ t[m].numeroPag = n /\ o \in EnMarco /\ desde = Base(m) + o
    /\ Ausente(bc, p, n) /\ SoloCambia(m, mem, mem2)
    /\ Entra(bc, cor, bc2, cor2, p, n, desde, mem2)

(* Such a page has the frame's bytes, unless it was cached from its middle. *)
LEMMA EntraReflejada ==
    ASSUME NEW bc, NEW cor, NEW bc2, NEW cor2, NEW t, NEW mem, NEW mem2,
           NEW p, NEW n, NEW m, NEW o, NEW desde,
           EntraDesde(bc, cor, bc2, cor2, t, mem, mem2, p, n, m, o, desde)
    PROVE  /\ Reflejan(bc2, t, mem2, cor2)
           /\ cor2 \subseteq cor \cup {<<p, n>>}
           /\ o = 0 => cor2 \subseteq cor
           /\ \A a \in Entradas : bc2[a] = bc[a] \/ bc2[a].pid = p
<1>1. /\ bc \in Bloques /\ Reflejan(bc, t, mem, cor)
      /\ \A i \in Frames : t[i].pid \in Pids => i >= PaginasAdms
      /\ p \in Pids /\ m \in Frames /\ m >= PaginasAdms
      /\ t[m].pid = p /\ t[m].numeroPag = n /\ o \in EnMarco /\ desde = Base(m) + o
      /\ Ausente(bc, p, n) /\ SoloCambia(m, mem, mem2)
      /\ Entra(bc, cor, bc2, cor2, p, n, desde, mem2)
  BY DEF EntraDesde
<1>2. PICK b \in Entradas : \E f \in [EnMarco -> Datos] :
          /\ bc2 = [bc EXCEPT ![b] = [pid |-> p, nroPagina |-> n, contenido |-> f]]
          /\ \A j \in EnMarco : Base(m) + o + j \in Bytes => f[j] = mem2[Base(m) + o + j]
  BY <1>1 DEF Entra
<1>3. PICK f \in [EnMarco -> Datos] :
          /\ bc2 = [bc EXCEPT ![b] = [pid |-> p, nroPagina |-> n, contenido |-> f]]
          /\ \A j \in EnMarco : Base(m) + o + j \in Bytes => f[j] = mem2[Base(m) + o + j]
  BY <1>2
<1>4. cor2 = (cor \cap Paginas_de(bc2)) \cup (IF o = 0 THEN {} ELSE {<<p, n>>})
  BY <1>1, Desplazamiento DEF Entra
<1>5. /\ bc2[b] = [pid |-> p, nroPagina |-> n, contenido |-> f]
      /\ \A a \in Entradas : a # b => bc2[a] = bc[a]
  BY <1>1, <1>3 DEF Bloques
<1>6. p # Libre
  BY <1>1, Constantes
<1>7. o = 0 => \A j \in EnMarco : f[j] = mem2[Base(m) + j]
  <2> SUFFICES ASSUME o = 0, NEW j \in EnMarco PROVE f[j] = mem2[Base(m) + j]
    OBVIOUS
  <2>1. Base(m) + j \in Bytes /\ Base(m) \in Int /\ j \in Int
    BY <1>1, ByteDeMarco, Constantes DEF EnMarco
  <2>2. Base(m) + o + j = Base(m) + j
    BY <2>1
  <2> QED BY <2>1, <2>2, <1>3
<1>8. ASSUME NEW a \in Entradas, bc2[a].pid # Libre
      PROVE  \E i \in Frames :
                /\ t[i].pid = bc2[a].pid /\ t[i].numeroPag = bc2[a].nroPagina
                /\ <<bc2[a].pid, bc2[a].nroPagina>> \notin cor2 =>
                      \A j \in EnMarco : bc2[a].contenido[j] = mem2[Base(i) + j]
  <2>1. CASE a = b
    <3>1. o # 0 => <<p, n>> \in cor2
      BY <1>4
    <3>2. bc2[a].pid = p /\ bc2[a].nroPagina = n /\ bc2[a].contenido = f
      BY <2>1, <1>5
    <3>3. m \in Frames /\ t[m].pid = bc2[a].pid /\ t[m].numeroPag = bc2[a].nroPagina
      BY <3>2, <1>1
    <3>4. <<p, n>> \notin cor2 => \A j \in EnMarco : bc2[a].contenido[j] = mem2[Base(m) + j]
      BY <3>1, <3>2, <1>7
    <3> QED BY <3>2, <3>3, <3>4
  <2>2. CASE a # b
    <3>1. bc2[a] = bc[a]
      BY <2>2, <1>5
    <3>2. PICK i \in Frames :
             /\ t[i].pid = bc2[a].pid /\ t[i].numeroPag = bc2[a].nroPagina
             /\ <<bc2[a].pid, bc2[a].nroPagina>> \notin cor =>
                   \A j \in EnMarco : bc2[a].contenido[j] = mem[Base(i) + j]
      BY <3>1, <1>1, <1>8 DEF Reflejan
    <3>3. i # m
      BY <3>1, <3>2, <1>1 DEF Es, Ausente
    <3>4. i >= PaginasAdms
      <4>1. bc2[a].pid \in Pids
        BY <3>1, <1>1, <1>6, <1>8 DEF Bloques
      <4> QED BY <4>1, <3>2, <1>1
    <3>5. <<bc2[a].pid, bc2[a].nroPagina>> \in cor => <<bc2[a].pid, bc2[a].nroPagina>> \in cor2
      BY <1>4 DEF Paginas_de
    <3> QED BY <3>2, <3>3, <3>4, <3>5, <1>1 DEF SoloCambia
  <2> QED BY <2>1, <2>2
<1>9. Reflejan(bc2, t, mem2, cor2)
  BY <1>8 DEF Reflejan
<1>10. cor2 \subseteq cor \cup {<<p, n>>} /\ (o = 0 => cor2 \subseteq cor)
  BY <1>4
<1>11. \A a \in Entradas : bc2[a] = bc[a] \/ bc2[a].pid = p
  BY <1>5
<1> QED BY <1>9, <1>10, <1>11

-----------------------------------------------------------------------------
(* Every step keeps the invariant. *)

LEMMA StepPedir ==
    ASSUME MemoriaInv, NEW c \in Conexiones, NEW r \in Espacio!Pedidos, Pedir(c, r)
    PROVE  MemoriaInv'
<1>1. /\ TypeOK /\ Hilos /\ Pendientes /\ Fuera /\ Repartida(tabla, memoria, iniciado)
  BY DEF MemoriaInv
<1>2. /\ pedido' = [pedido EXCEPT ![c] = r] /\ paso' = [paso EXCEPT ![c] = r.op]
      /\ iniciado' = IF r.op = "INIT_PROGM" THEN iniciado \cup {r.pid} ELSE iniciado
      /\ tabla' = tabla /\ memoria' = memoria /\ cacheEntradas' = cacheEntradas
      /\ bloqueCache' = bloqueCache /\ corridas' = corridas /\ reloj' = reloj /\ mutexCache' = mutexCache
  BY DEF Pedir, cache
<1>3. /\ pedido[c] = Espacio!Ninguno
      /\ \A d \in Conexiones : pedido[d] # Espacio!Ninguno => pedido[d].pid # r.pid
      /\ IF r.op = "INIT_PROGM" THEN r.pid \notin iniciado ELSE Espacio!De(espacio, r.pid) # {}
      /\ r.op = "ASIG_PAGES" => Espacio!Ultima(espacio, r.pid) < MaxPagina
  BY DEF Pedir, Espacio!SePuedePedir
<1>4. /\ r.pid \in Pids
      /\ r.op \in {"INIT_PROGM", "ASIG_PAGES", "FINZ_PROGM", "LIBERAR_PAG", "SOLC_BYTES", "ALMC_BYTES"}
  BY LosPedidos
<1>5. r.op \in Pasos /\ r.op \notin ConMutex /\ "espera" \notin ConMutex /\ r.op # "espera"
  BY <1>4 DEF Pasos, ConMutex
<1>6. paso[c] = "espera"
  BY <1>1, <1>3, ElPedido
<1>7. /\ paso \in [Conexiones -> Pasos] /\ iniciado \subseteq Pids
      /\ pedido \in [Conexiones -> Espacio!Pedidos \cup {Espacio!Ninguno}]
  BY <1>1, SonTipos
<1>8. /\ paso'[c] = r.op /\ pedido'[c] = r
      /\ \A d \in Conexiones : d # c => paso'[d] = paso[d] /\ pedido'[d] = pedido[d]
  BY <1>2, <1>7
<1>9. TypeOK'
  <2>1. /\ paso' \in [Conexiones -> Pasos] /\ iniciado' \subseteq Pids
        /\ pedido' \in [Conexiones -> Espacio!Pedidos \cup {Espacio!Ninguno}]
    BY <1>2, <1>4, <1>5, <1>7
  <2> QED BY <2>1, <1>1, <1>2, SonTipos, TiposDespues
<1>10. Hilos'
  <2>1. \A d \in Conexiones : mutexCache' = d <=> paso'[d] \in ConMutex
    BY <1>1, <1>2, <1>5, <1>6, <1>8 DEF Hilos
  <2>2. Atiende(r.op, r)
    BY <1>4 DEF Atiende
  <2>3. \A d \in Conexiones : Atiende(paso'[d], pedido'[d])
    BY <1>1, <1>8, <2>2 DEF Hilos
  <2>4. ASSUME NEW d \in Conexiones, d # c, paso'[d] # "espera" PROVE pedido'[d].pid # r.pid
    BY <2>4, <1>1, <1>3, <1>8, ElPedido
  <2>5. ASSUME NEW d \in Conexiones, NEW e \in Conexiones, d # e, paso'[d] # "espera", paso'[e] # "espera"
        PROVE  pedido'[d].pid # pedido'[e].pid
    <3>1. CASE d = c \/ e = c
      BY <3>1, <2>4, <2>5, <1>8
    <3>2. CASE d # c /\ e # c
      BY <3>2, <2>5, <1>1, <1>8 DEF Hilos
    <3> QED BY <3>1, <3>2
  <2> QED BY <2>1, <2>3, <2>5 DEF Hilos
<1>11. Pendientes'
  <2>1. Cabe(r.op, r, tabla)
    <3>1. r.op = "INIT_PROGM" => \A i \in Frames : tabla[i].pid # r.pid
      BY <1>1, <1>3, <1>4 DEF Repartida
    <3>2. ASSUME r.op = "ASIG_PAGES"
          PROVE  MaxPagina > 0 /\ \A i \in Frames : tabla[i].pid = r.pid => tabla[i].numeroPag < MaxPagina
      <4>1. PICK u \in Paginas : u = Espacio!Ultima(espacio, r.pid)
        BY <1>1, <1>4, LaUltima
      <4>2. u \in Nat /\ u < MaxPagina /\ MaxPagina \in Nat
        BY <4>1, <3>2, <1>3, Constantes DEF Paginas
      <4>3. ASSUME NEW i \in Frames, tabla[i].pid = r.pid PROVE tabla[i].numeroPag < MaxPagina
        <5>1. tabla[i].numeroPag <= u
          BY <4>1, <4>3, <1>1, <1>4, LaUltima
        <5>2. tabla[i].numeroPag \in Nat
          BY <1>1, Constantes DEF Repartida, Ranuras, Paginas
        <5> QED BY <5>1, <5>2, <4>2
      <4> QED BY <4>2, <4>3
    <3> QED BY <3>1, <3>2 DEF Cabe
  <2>2. \A d \in Conexiones : Cabe(paso'[d], pedido'[d], tabla')
    BY <2>1, <1>1, <1>2, <1>8 DEF Pendientes
  <2>3. r.op \in {"INIT_PROGM", "ASIG_PAGES"} => r.pid \in iniciado'
    <3>1. ASSUME r.op = "ASIG_PAGES" PROVE r.pid \in iniciado
      <4>1. \E i \in Frames : tabla[i].pid = r.pid
        BY <3>1, <1>1, <1>3, <1>4, LaUltima
      <4> QED BY <4>1, <1>1, <1>4 DEF Repartida
    <3> QED BY <3>1, <1>2
  <2>4. \A d \in Conexiones : paso'[d] \in {"INIT_PROGM", "ASIG_PAGES"} => pedido'[d].pid \in iniciado'
    BY <2>3, <1>1, <1>2, <1>8 DEF Pendientes
  <2> QED BY <2>2, <2>4 DEF Pendientes
<1>12. Fuera'
  <2>1. NoEsta(r.op, r, bloqueCache)
    BY <1>4 DEF NoEsta
  <2> QED BY <2>1, <1>1, <1>2, <1>8 DEF Fuera
<1>13. Repartida(tabla', memoria', iniciado')
  <2>1. iniciado \subseteq iniciado'
    BY <1>2
  <2> QED BY <2>1, <1>1, <1>2 DEF Repartida
<1>14. /\ Concuerdan(cacheEntradas', bloqueCache') /\ EnCuota(cacheEntradas')
       /\ Reflejan(bloqueCache', tabla', memoria', corridas')
  BY <1>2 DEF MemoriaInv
<1> QED BY <1>9, <1>10, <1>11, <1>12, <1>13, <1>14 DEF MemoriaInv

(* What asignar does to the table. *)
LEMMA Asignadas ==
    ASSUME MemoriaInv, NEW c \in Conexiones, asignar(c)
    PROVE  LET p == pedido[c].pid
               n == IF paso[c] = "INIT_PROGM" THEN PagsPrograma ELSE 1
               desde == IF paso[c] = "INIT_PROGM" THEN 0 ELSE getNextPaginasPID(p) IN
           /\ p \in Pids /\ p \in iniciado /\ n \in Nat /\ desde \in Nat
           /\ IF hayEspacio(n) THEN Ubicadas(tabla, tabla', p, desde, n) ELSE tabla' = tabla
           /\ \A i \in Frames : tabla[i].pid = p => tabla[i].numeroPag < desde
<1> DEFINE p == pedido[c].pid
           n == IF paso[c] = "INIT_PROGM" THEN PagsPrograma ELSE 1
           desde == IF paso[c] = "INIT_PROGM" THEN 0 ELSE getNextPaginasPID(p)
<1>1. /\ TypeOK /\ Hilos /\ Pendientes /\ Repartida(tabla, memoria, iniciado)
  BY DEF MemoriaInv
<1>2. paso[c] \in {"INIT_PROGM", "ASIG_PAGES"} /\ asignarPaginasPID(p, n, paso[c] = "INIT_PROGM")
  BY DEF asignar
<1>3. p \in Pids /\ p \in iniciado /\ Cabe(paso[c], pedido[c], tabla)
  BY <1>1, <1>2, ElPedido DEF Pendientes
<1>4. n \in Nat /\ PagsPrograma \in Nat /\ MaxPagina \in Nat /\ PagsPrograma <= MaxPagina + 1
  BY Constantes
<1>5. PICK u \in Paginas : u = Espacio!Ultima(espacio, p)
  BY <1>1, <1>3, LaUltima
<1>6. getNextPaginasPID(p) = u + 1 /\ u \in Nat
  <2>1. getNextPaginasPID(p) = Espacio!Ultima(espacio, p) + 1
    BY <1>1, <1>3, LaUltima
  <2>2. u \in Nat
    BY <1>4 DEF Paginas
  <2> QED BY <2>1, <2>2, <1>5
<1>7. desde \in Nat
  BY <1>6
<1>8. ASSUME NEW i \in Frames, tabla[i].pid = p PROVE tabla[i].numeroPag < desde
  <2>1. paso[c] # "INIT_PROGM"
    BY <1>3, <1>8 DEF Cabe
  <2>2. tabla[i].numeroPag <= Espacio!Ultima(espacio, p)
    BY <1>1, <1>3, <1>8, LaUltima
  <2>3. tabla[i].numeroPag \in Nat
    BY <1>1, <1>4 DEF Repartida, Ranuras, Paginas
  <2> QED BY <2>1, <2>2, <2>3, <1>5, <1>6
<1>9. desde + n <= MaxPagina + 1
  <2>1. CASE paso[c] = "INIT_PROGM"
    BY <2>1, <1>4
  <2>2. CASE paso[c] = "ASIG_PAGES"
    <3>1. u < MaxPagina
      <4>1. CASE u = 0
        BY <4>1, <2>2, <1>3, <1>4 DEF Cabe
      <4>2. CASE u # 0
        <5>1. PICK i \in Frames : tabla[i].pid = p /\ tabla[i].numeroPag = u
          <6> DEFINE N == {0} \cup {tabla[i].numeroPag : i \in MarcosDe(tabla, p)}
          <6>1. N \subseteq 0 .. MaxPagina /\ N # {}
            <7>1. \A i \in Frames : tabla[i].numeroPag \in Paginas
              BY <1>1 DEF Repartida, Ranuras
            <7> QED BY <7>1, <1>4 DEF Paginas, MarcosDe
          <6>2. Max(N) \in N
            BY <6>1, <1>4, MayorDe
          <6>3. getNextPaginasPID(p) = Max(N) + 1
            BY DEF getNextPaginasPID
          <6> HIDE DEF N
          <6>4. Max(N) = u
            <7>1. PICK x \in Nat : x = Max(N)
              <8>1. Max(N) \in 0 .. MaxPagina
                BY <6>1, <6>2
              <8> QED BY <8>1, <1>4
            <7>2. x + 1 = u + 1
              BY <7>1, <6>3, <1>6
            <7> QED BY <7>1, <7>2, <1>6
          <6> QED BY <6>2, <6>4, <4>2 DEF MarcosDe, N
        <5> QED BY <5>1, <2>2, <1>3 DEF Cabe
      <4> QED BY <4>1, <4>2
    <3>2. desde = u + 1 /\ n = 1
      BY <2>2, <1>6
    <3> QED BY <3>1, <3>2, <1>4, <1>6
  <2> QED BY <2>1, <2>2, <1>2
<1>10. IF hayEspacio(n) THEN Ubicadas(tabla, tabla', p, desde, n) ELSE tabla' = tabla
  <2>1. CASE hayEspacio(n)
    <3>1. tabla' = Ubicar(p, desde, n)
      BY <2>1, <1>2 DEF asignarPaginasPID
    <3>2. n <= Cardinality(paginasLibres(tabla))
      BY <2>1, <1>4, LibresFinitas DEF hayEspacio
    <3>3. tabla \in Ranuras
      BY <1>1 DEF Repartida
    <3>4. Ubicadas(tabla, Ubicar(p, desde, n), p, desde, n)
      BY <3>2, <3>3, <1>3, <1>4, <1>7, <1>9, Ubica
    <3> QED BY <3>1, <3>4, <2>1
  <2>2. CASE ~ hayEspacio(n)
    BY <2>2, <1>2 DEF asignarPaginasPID
  <2> QED BY <2>1, <2>2
<1> QED BY <1>3, <1>4, <1>7, <1>8, <1>10

LEMMA StepAsignar ==
    ASSUME MemoriaInv, NEW c \in Conexiones, asignar(c)
    PROVE  MemoriaInv'
<1> DEFINE p == pedido[c].pid
           n == IF paso[c] = "INIT_PROGM" THEN PagsPrograma ELSE 1
           desde == IF paso[c] = "INIT_PROGM" THEN 0 ELSE getNextPaginasPID(p)
           cod == Cod(IF hayEspacio(n) THEN "OK" ELSE "SIN_ESPACIO")
<1>1. /\ TypeOK /\ Hilos /\ Pendientes /\ Fuera /\ Repartida(tabla, memoria, iniciado)
      /\ Reflejan(bloqueCache, tabla, memoria, corridas)
  BY DEF MemoriaInv
<1>2. /\ paso[c] \in {"INIT_PROGM", "ASIG_PAGES"} /\ Termina(c, cod)
      /\ memoria' = memoria /\ cacheEntradas' = cacheEntradas
      /\ bloqueCache' = bloqueCache /\ corridas' = corridas /\ reloj' = reloj /\ mutexCache' = mutexCache
  BY DEF asignar, cache
<1>3. /\ p \in Pids /\ p \in iniciado /\ n \in Nat /\ desde \in Nat
      /\ IF hayEspacio(n) THEN Ubicadas(tabla, tabla', p, desde, n) ELSE tabla' = tabla
      /\ \A i \in Frames : tabla[i].pid = p => tabla[i].numeroPag < desde
  BY Asignadas
<1>4. paso[c] # "espera" /\ paso[c] \notin ConMutex
  BY <1>2 DEF ConMutex
<1>5. PICK r : r = cod
  OBVIOUS
<1>6. Termina(c, r)
  BY <1>2, <1>5
<1>7. /\ Hilos' /\ paso' \in [Conexiones -> Pasos] /\ mutexCache' \in Conexiones \cup {Nadie}
      /\ pedido' \in [Conexiones -> Espacio!Pedidos \cup {Espacio!Ninguno}]
      /\ \A d \in Conexiones : d # c => paso'[d] = paso[d] /\ pedido'[d] = pedido[d]
      /\ paso'[c] = "espera" /\ iniciado' = iniciado
  BY <1>1, <1>2, <1>4, <1>6, Contesta
<1>8. PICK q \in Pids : q = p
  BY <1>3
<1>9. PICK x \in Nat : x = desde
  BY <1>3
<1>10. PICK y \in Nat : y = n
  BY <1>3
<1>11. Repartida(tabla', memoria', iniciado')
  <2>1. CASE hayEspacio(n)
    <3>1. Ubicadas(tabla, tabla', q, x, y)
      BY <2>1, <1>3, <1>8, <1>9, <1>10
    <3>2. q \in iniciado /\ \A i \in Frames : tabla[i].pid = q => tabla[i].numeroPag < x
      BY <1>3, <1>8, <1>9
    <3>3. Repartida(tabla', memoria, iniciado)
      BY <3>1, <3>2, <1>1, Repartidas
    <3> QED BY <3>3, <1>2, <1>7
  <2>2. CASE ~ hayEspacio(n)
    BY <2>2, <1>1, <1>2, <1>3, <1>7
  <2> QED BY <2>1, <2>2
<1>12. \A i \in Frames : tabla'[i] = tabla[i] \/ (tabla[i].pid = Libre /\ tabla'[i].pid = pedido[c].pid)
  <2>1. CASE hayEspacio(n)
    <3>1. Ubicadas(tabla, tabla', q, x, y)
      BY <2>1, <1>3, <1>8, <1>9, <1>10
    <3> QED BY <3>1, <1>8 DEF Ubicadas
  <2>2. CASE ~ hayEspacio(n)
    BY <2>2, <1>3
  <2> QED BY <2>1, <2>2
<1>13. Pendientes' /\ Fuera'
  <2>1. NoEsta(paso'[c], pedido'[c], bloqueCache')
    BY <1>7 DEF NoEsta
  <2>2. \A b \in Entradas : Misma(bloqueCache'[b], bloqueCache[b])
    BY <1>2 DEF Misma
  <2> QED BY <2>1, <2>2, <1>1, <1>4, <1>7, <1>12, LosDemas
<1>14. Reflejan(bloqueCache', tabla', memoria', corridas')
  <2>1. \A b \in Entradas : bloqueCache'[b].pid # Libre =>
           /\ Misma(bloqueCache'[b], bloqueCache[b]) /\ bloqueCache'[b].contenido = bloqueCache[b].contenido
           /\ \A i \in Frames : tabla[i].pid = bloqueCache'[b].pid /\ tabla[i].numeroPag = bloqueCache'[b].nroPagina =>
                 tabla'[i] = tabla[i] /\ \A j \in EnMarco : memoria'[Base(i) + j] = memoria[Base(i) + j]
    BY <1>2, <1>12 DEF Misma
  <2> QED BY <2>1, <1>1, <1>2, SigueReflejada
<1>15. TypeOK'
  <2>1. tabla' \in Ranuras /\ memoria' \in [Bytes -> Datos]
    BY <1>11 DEF Repartida
  <2> QED BY <2>1, <1>1, <1>2, <1>7, SonTipos, TiposDespues
<1>16. Concuerdan(cacheEntradas', bloqueCache') /\ EnCuota(cacheEntradas')
  BY <1>2 DEF MemoriaInv
<1> QED BY <1>7, <1>11, <1>13, <1>14, <1>15, <1>16 DEF MemoriaInv

(* A hit: only the time of the entry changes. *)
LEMMA Tocada ==
    ASSUME cacheEntradas \in Admins, reloj \in 0 .. MaxReloj,
           NEW p \in Pids, NEW n \in Paginas, addEntradaCache(p, n)
    PROVE  cacheEntradas' \in Admins /\ \A x \in Entradas : Misma(cacheEntradas'[x], cacheEntradas[x])
<1>1. cacheEntradas' = [e \in Entradas |-> IF e \in getCacheAdmin(p, n)
                           THEN [pid |-> p, nroPagina |-> n, tiempoEntrada |-> reloj] ELSE cacheEntradas[e]]
  BY DEF addEntradaCache, Entrada
<1>2. \A e \in getCacheAdmin(p, n) : cacheEntradas[e].pid = p /\ cacheEntradas[e].nroPagina = n
  BY DEF getCacheAdmin
<1>3. cacheEntradas' \in Admins
  BY <1>1 DEF Admins
<1>4. \A x \in Entradas : Misma(cacheEntradas'[x], cacheEntradas[x])
  BY <1>1, <1>2 DEF Misma
<1> QED BY <1>3, <1>4

LEMMA StepSolicitarBytes ==
    ASSUME MemoriaInv, NEW c \in Conexiones, solicitarBytes(c)
    PROVE  MemoriaInv'
<1> DEFINE p == pedido[c].pid
           n == pedido[c].pagina
           b == pedido[c].bytes
<1>1. /\ TypeOK /\ Hilos /\ Pendientes /\ Fuera /\ Repartida(tabla, memoria, iniciado)
      /\ Concuerdan(cacheEntradas, bloqueCache) /\ EnCuota(cacheEntradas)
      /\ Reflejan(bloqueCache, tabla, memoria, corridas)
  BY DEF MemoriaInv
<1>2. /\ paso[c] = "SOLC_BYTES" /\ mutexCache = Nadie
      /\ tabla' = tabla /\ memoria' = memoria
      /\ bloqueCache' = bloqueCache /\ corridas' = corridas /\ reloj' = reloj
  BY DEF solicitarBytes
<1>3. p \in Pids /\ n \in Paginas /\ paso[c] # "espera" /\ paso[c] \notin ConMutex
  BY <1>1, <1>2, ElPedido DEF ConMutex
<1>4. \A i \in Frames : tabla'[i] = tabla[i]
  BY <1>2
<1>5. \A a \in Entradas : Misma(bloqueCache'[a], bloqueCache[a])
  BY <1>2 DEF Misma
<1>6. CASE /\ findInCache(p, n) = {}
           /\ mutexCache' = c
           /\ paso' = [paso EXCEPT ![c] = "solicitarBytes"]
           /\ UNCHANGED <<cacheEntradas, pedido, respuesta, iniciado>>
  <2>1. PICK s : s = "solicitarBytes"
    OBVIOUS
  <2>2. /\ Hilos' /\ paso' \in [Conexiones -> Pasos] /\ mutexCache' \in Conexiones \cup {Nadie}
        /\ \A d \in Conexiones : d # c => paso'[d] = paso[d]
        /\ paso'[c] = s
    BY <2>1, <1>1, <1>2, <1>6, Avanza DEF ConMutex
  <2>3. NoEsta(paso'[c], pedido'[c], bloqueCache')
    BY <2>1, <2>2, <1>2, <1>6 DEF NoEsta, findInCache, Es
  <2>4. Pendientes' /\ Fuera'
    BY <2>1, <2>2, <2>3, <1>1, <1>3, <1>4, <1>5, <1>6, LosDemas
  <2>5. TypeOK'
    BY <2>2, <1>1, <1>2, <1>6, SonTipos, TiposDespues
  <2>6. Repartida(tabla', memoria', iniciado') /\ Concuerdan(cacheEntradas', bloqueCache')
        /\ EnCuota(cacheEntradas') /\ Reflejan(bloqueCache', tabla', memoria', corridas')
    BY <1>1, <1>2, <1>6
  <2> QED BY <2>2, <2>4, <2>5, <2>6 DEF MemoriaInv
<1>7. CASE /\ addEntradaCache(p, n)
           /\ \E r : Termina(c, r)
           /\ mutexCache' = mutexCache
  <2>1. PICK r : Termina(c, r)
    BY <1>7
  <2>2. /\ Hilos' /\ paso' \in [Conexiones -> Pasos] /\ mutexCache' \in Conexiones \cup {Nadie}
        /\ pedido' \in [Conexiones -> Espacio!Pedidos \cup {Espacio!Ninguno}]
        /\ \A d \in Conexiones : d # c => paso'[d] = paso[d] /\ pedido'[d] = pedido[d]
        /\ paso'[c] = "espera" /\ iniciado' = iniciado
    BY <2>1, <1>1, <1>3, <1>7, Contesta
  <2>3. NoEsta(paso'[c], pedido'[c], bloqueCache')
    BY <2>2 DEF NoEsta
  <2>4. Pendientes' /\ Fuera'
    BY <2>2, <2>3, <1>1, <1>3, <1>4, <1>5, LosDemas
  <2>5. cacheEntradas' \in Admins /\ \A x \in Entradas : Misma(cacheEntradas'[x], cacheEntradas[x])
    BY <1>1, <1>3, <1>7, SonTipos, Tocada
  <2>6. bloqueCache' \in Bloques
    BY <1>1, <1>2, SonTipos
  <2>7. Concuerdan(cacheEntradas', bloqueCache') /\ EnCuota(cacheEntradas')
    BY <2>5, <2>6, <1>1, <1>5, MismasPaginas
  <2>8. TypeOK'
    BY <2>2, <2>5, <1>1, <1>2, SonTipos, TiposDespues
  <2>9. Repartida(tabla', memoria', iniciado') /\ Reflejan(bloqueCache', tabla', memoria', corridas')
    BY <2>2, <1>1, <1>2
  <2> QED BY <2>2, <2>4, <2>7, <2>8, <2>9 DEF MemoriaInv
<1> QED BY <1>6, <1>7 DEF solicitarBytes

(* A page that was not in the cache enters it. *)
LEMMA NuevaPagina ==
    ASSUME MemoriaInv, NEW p \in Pids, NEW n \in Paginas,
           NEW m \in Frames, tabla[m].pid = p, tabla[m].numeroPag = n, NEW o \in EnMarco,
           \A a \in Entradas : ~ Es(bloqueCache[a], p, n),
           NEW mem2,
           \A i \in Frames : i # m /\ i >= PaginasAdms =>
               \A j \in EnMarco : mem2[Base(i) + j] = memoria[Base(i) + j],
           cacheMiss(p, n, Base(m) + o, mem2)
    PROVE  /\ Concuerdan(cacheEntradas', bloqueCache') /\ EnCuota(cacheEntradas')
           /\ Reflejan(bloqueCache', tabla, mem2, corridas')
           /\ corridas' \subseteq Pids \X Paginas
           /\ cacheEntradas' \in Admins /\ bloqueCache' \in Bloques
           /\ \A a \in Entradas : Misma(bloqueCache'[a], bloqueCache[a]) \/ bloqueCache'[a].pid = p
<1>1. /\ TypeOK /\ Repartida(tabla, memoria, iniciado)
      /\ Concuerdan(cacheEntradas, bloqueCache) /\ EnCuota(cacheEntradas)
      /\ Reflejan(bloqueCache, tabla, memoria, corridas)
  BY DEF MemoriaInv
<1>2. reloj \in 0 .. MaxReloj /\ bloqueCache \in Bloques /\ corridas \subseteq Pids \X Paginas
  BY <1>1, SonTipos
<1>3. /\ Concuerdan(cacheEntradas', bloqueCache') /\ EnCuota(cacheEntradas')
      /\ \/ bloqueCache' = bloqueCache /\ corridas' = corridas
         \/ Entra(bloqueCache, corridas, bloqueCache', corridas', p, n, Base(m) + o, mem2)
  <2>1. PICK desde : desde = Base(m) + o
    OBVIOUS
  <2> QED BY <2>1, <1>1, <1>2, Falla
<1>4. \A i \in Frames : tabla[i].pid \in Pids \/ tabla[i].pid = Libre => i >= PaginasAdms
  BY <1>1, ConMarco
<1>5. m >= PaginasAdms
  BY <1>4
<1>6. cacheEntradas' \in Admins /\ bloqueCache' \in Bloques
  BY <1>3 DEF Concuerdan
<1>7. CASE bloqueCache' = bloqueCache /\ corridas' = corridas
  <2>1. ASSUME NEW b \in Entradas, bloqueCache[b].pid # Libre, NEW i \in Frames,
               tabla[i].pid = bloqueCache[b].pid, tabla[i].numeroPag = bloqueCache[b].nroPagina,
               NEW j \in EnMarco
        PROVE  mem2[Base(i) + j] = memoria[Base(i) + j]
    <3>1. i # m
      BY <2>1 DEF Es
    <3>2. i >= PaginasAdms
      BY <2>1, <1>2, <1>4 DEF Bloques
    <3> QED BY <3>1, <3>2
  <2>2. \A b \in Entradas : bloqueCache[b].pid # Libre =>
               /\ Misma(bloqueCache[b], bloqueCache[b]) /\ bloqueCache[b].contenido = bloqueCache[b].contenido
               /\ \A i \in Frames : tabla[i].pid = bloqueCache[b].pid /\ tabla[i].numeroPag = bloqueCache[b].nroPagina =>
                     tabla[i] = tabla[i] /\ \A j \in EnMarco : mem2[Base(i) + j] = memoria[Base(i) + j]
    BY <2>1 DEF Misma
  <2>3. Reflejan(bloqueCache, tabla, mem2, corridas)
    BY <2>2, <1>1, SigueReflejada
  <2>4. \A a \in Entradas : Misma(bloqueCache'[a], bloqueCache[a])
    BY <1>7 DEF Misma
  <2> QED BY <2>3, <2>4, <1>2, <1>3, <1>6, <1>7
<1>8. CASE Entra(bloqueCache, corridas, bloqueCache', corridas', p, n, Base(m) + o, mem2)
  <2>1. /\ Reflejan(bloqueCache', tabla, mem2, corridas')
        /\ corridas' \subseteq corridas \cup {<<p, n>>}
        /\ o = 0 => corridas' \subseteq corridas
        /\ \A a \in Entradas : bloqueCache'[a] = bloqueCache[a] \/ bloqueCache'[a].pid = p
    <3>1. Ausente(bloqueCache, p, n) /\ SoloCambia(m, memoria, mem2)
      BY DEF Ausente, SoloCambia
    <3>2. PICK desde : desde = Base(m) + o
      OBVIOUS
    <3>3. Entra(bloqueCache, corridas, bloqueCache', corridas', p, n, desde, mem2)
      BY <3>2, <1>8
    <3>4. PICK bc, bc2, cor, cor2, t, mem :
             /\ bc = bloqueCache /\ bc2 = bloqueCache' /\ cor = corridas /\ cor2 = corridas'
             /\ t = tabla /\ mem = memoria
      OBVIOUS
    <3>5. EntraDesde(bc, cor, bc2, cor2, t, mem, mem2, p, n, m, o, desde)
      BY <3>1, <3>2, <3>3, <3>4, <1>1, <1>2, <1>4, <1>5 DEF EntraDesde
    <3>6. /\ Reflejan(bc2, t, mem2, cor2)
          /\ cor2 \subseteq cor \cup {<<p, n>>}
          /\ o = 0 => cor2 \subseteq cor
          /\ \A a \in Entradas : bc2[a] = bc[a] \/ bc2[a].pid = p
      BY <3>5, EntraReflejada
    <3> QED BY <3>4, <3>6
  <2>2. corridas' \subseteq Pids \X Paginas
    BY <2>1, <1>2
  <2>3. \A a \in Entradas : Misma(bloqueCache'[a], bloqueCache[a]) \/ bloqueCache'[a].pid = p
    BY <2>1 DEF Misma
  <2> QED BY <2>1, <2>2, <2>3, <1>3, <1>6
<1> QED BY <1>3, <1>7, <1>8

LEMMA StepSolicitarBytesMarco ==
    ASSUME MemoriaInv, NEW c \in Conexiones, solicitarBytes_marco(c)
    PROVE  MemoriaInv'
<1> DEFINE p == pedido[c].pid
           n == pedido[c].pagina
<1>1. /\ TypeOK /\ Hilos /\ Pendientes /\ Fuera /\ Repartida(tabla, memoria, iniciado)
      /\ Concuerdan(cacheEntradas, bloqueCache) /\ EnCuota(cacheEntradas)
      /\ Reflejan(bloqueCache, tabla, memoria, corridas)
  BY DEF MemoriaInv
<1>2. /\ paso[c] = "solicitarBytes" /\ mutexCache' = Nadie
      /\ tabla' = tabla /\ memoria' = memoria /\ reloj' = reloj
  BY DEF solicitarBytes_marco
<1>3. p \in Pids /\ n \in Paginas /\ paso[c] # "espera" /\ paso[c] \in ConMutex
  BY <1>1, <1>2, ElPedido DEF ConMutex
<1>4. /\ \E r : Termina(c, r)
      /\ \/ UNCHANGED cache
         \/ \E m \in encontrarPagina(p, n) : cacheMiss(p, n, Base(m), memoria)
  BY DEF solicitarBytes_marco, NoEncontrada
<1>5. PICK r : Termina(c, r)
  BY <1>4
<1>6. /\ Hilos' /\ paso' \in [Conexiones -> Pasos] /\ mutexCache' \in Conexiones \cup {Nadie}
      /\ pedido' \in [Conexiones -> Espacio!Pedidos \cup {Espacio!Ninguno}]
      /\ \A d \in Conexiones : d # c => paso'[d] = paso[d] /\ pedido'[d] = pedido[d]
      /\ paso'[c] = "espera" /\ iniciado' = iniciado
  BY <1>1, <1>2, <1>3, <1>5, Contesta
<1>7. /\ Concuerdan(cacheEntradas', bloqueCache') /\ EnCuota(cacheEntradas')
      /\ Reflejan(bloqueCache', tabla, memoria, corridas')
      /\ corridas' \subseteq Pids \X Paginas
      /\ cacheEntradas' \in Admins /\ bloqueCache' \in Bloques
      /\ \A a \in Entradas : Misma(bloqueCache'[a], bloqueCache[a]) \/ bloqueCache'[a].pid = p
  <2>1. CASE UNCHANGED cache
    <3>1. cacheEntradas' = cacheEntradas /\ bloqueCache' = bloqueCache /\ corridas' = corridas
      BY <2>1 DEF cache
    <3> QED BY <3>1, <1>1, SonTipos DEF Misma
  <2>2. CASE \E m \in encontrarPagina(p, n) : cacheMiss(p, n, Base(m), memoria)
    <3>1. PICK m \in encontrarPagina(p, n) : cacheMiss(p, n, Base(m), memoria)
      BY <2>2
    <3>2. m \in Frames /\ tabla[m].pid = p /\ tabla[m].numeroPag = n /\ m >= PaginasAdms
      BY <1>1, <1>3, Encontrada
    <3>3. \A a \in Entradas : ~ Es(bloqueCache[a], p, n)
      BY <1>1, <1>2 DEF Fuera, NoEsta
    <3>4. 0 \in EnMarco /\ Base(m) + 0 = Base(m)
      <4>1. 0 \in EnMarco
        BY Constantes DEF EnMarco
      <4>2. Base(m) \in Int
        BY <4>1, <3>2, ByteDeMarco
      <4> QED BY <4>1, <4>2
    <3>5. cacheMiss(p, n, Base(m) + 0, memoria)
      BY <3>1, <3>4
    <3>6. PICK q \in Pids, k \in Paginas, o \in EnMarco : q = p /\ k = n /\ o = 0
      BY <1>3, <3>4
    <3>7. cacheMiss(q, k, Base(m) + o, memoria)
      BY <3>5, <3>6
    <3> QED BY <3>2, <3>3, <3>6, <3>7, NuevaPagina
  <2> QED BY <2>1, <2>2, <1>4
<1>8. Pendientes' /\ Fuera'
  <2>1. NoEsta(paso'[c], pedido'[c], bloqueCache')
    BY <1>6 DEF NoEsta
  <2>2. \A i \in Frames : tabla'[i] = tabla[i]
    BY <1>2
  <2> QED BY <2>1, <2>2, <1>1, <1>3, <1>6, <1>7, LosDemas
<1>9. TypeOK'
  BY <1>1, <1>2, <1>6, <1>7, SonTipos, TiposDespues
<1>10. Repartida(tabla', memoria', iniciado') /\ Reflejan(bloqueCache', tabla', memoria', corridas')
  BY <1>1, <1>2, <1>6, <1>7
<1> QED BY <1>6, <1>7, <1>8, <1>9, <1>10 DEF MemoriaInv

LEMMA StepAlmacenarBytes ==
    ASSUME MemoriaInv, NEW c \in Conexiones, almacenarBytes(c)
    PROVE  MemoriaInv'
<1>1. /\ TypeOK /\ Hilos /\ Pendientes /\ Fuera
  BY DEF MemoriaInv
<1>2. /\ paso[c] = "ALMC_BYTES" /\ mutexCache = Nadie /\ mutexCache' = c
      /\ paso' = [paso EXCEPT ![c] = "almacenarBytes"]
      /\ tabla' = tabla /\ memoria' = memoria /\ cacheEntradas' = cacheEntradas
      /\ bloqueCache' = bloqueCache /\ corridas' = corridas /\ reloj' = reloj
      /\ pedido' = pedido /\ iniciado' = iniciado
  BY DEF almacenarBytes, cache
<1>3. PICK s : s = "almacenarBytes"
  OBVIOUS
<1>4. /\ Hilos' /\ paso' \in [Conexiones -> Pasos] /\ mutexCache' \in Conexiones \cup {Nadie}
      /\ \A d \in Conexiones : d # c => paso'[d] = paso[d]
      /\ paso'[c] = s
  BY <1>1, <1>2, <1>3, Avanza DEF ConMutex
<1>5. Pendientes' /\ Fuera'
  <2>1. NoEsta(paso'[c], pedido'[c], bloqueCache')
    BY <1>3, <1>4 DEF NoEsta
  <2>2. /\ \A i \in Frames : tabla'[i] = tabla[i]
        /\ \A a \in Entradas : Misma(bloqueCache'[a], bloqueCache[a])
    BY <1>2 DEF Misma
  <2> QED BY <2>1, <2>2, <1>1, <1>2, <1>3, <1>4, LosDemas
<1>6. TypeOK'
  BY <1>1, <1>2, <1>4, SonTipos, TiposDespues
<1>7. /\ Repartida(tabla', memoria', iniciado')
      /\ Concuerdan(cacheEntradas', bloqueCache') /\ EnCuota(cacheEntradas')
      /\ Reflejan(bloqueCache', tabla', memoria', corridas')
  BY <1>2 DEF MemoriaInv
<1> QED BY <1>4, <1>5, <1>6, <1>7 DEF MemoriaInv

(* A page that is written while it is in the cache: the block and the      *)
(* frame get the same bytes.                                               *)
LEMMA EscritaEnCache ==
    ASSUME MemoriaInv, NEW p \in Pids, NEW n \in Paginas,
           NEW m \in Frames, tabla[m].pid = p, tabla[m].numeroPag = n,
           NEW w \in Escrituras, w[1] + Len(w[2]) <= MarcoSize,
           memoria' = memcpy(Base(m) + w[1], w[2]),
           findInCache(p, n) # {}, addEntradaCache(p, n), escribirEnCache(p, n, w),
           corridas' = corridas
    PROVE  /\ Concuerdan(cacheEntradas', bloqueCache') /\ EnCuota(cacheEntradas')
           /\ Reflejan(bloqueCache', tabla, memoria', corridas')
           /\ cacheEntradas' \in Admins /\ bloqueCache' \in Bloques
           /\ \A a \in Entradas : Misma(bloqueCache'[a], bloqueCache[a])
<1>1. /\ TypeOK /\ Repartida(tabla, memoria, iniciado)
      /\ Concuerdan(cacheEntradas, bloqueCache) /\ EnCuota(cacheEntradas)
      /\ Reflejan(bloqueCache, tabla, memoria, corridas)
  BY DEF MemoriaInv
<1>2. /\ reloj \in 0 .. MaxReloj /\ bloqueCache \in Bloques /\ cacheEntradas \in Admins
      /\ memoria \in [Bytes -> Datos]
  BY <1>1, SonTipos
<1>3. w[1] \in EnMarco /\ w[2] \in Seq(Datos)
  BY MemoriaAssumption
<1>4. PICK o \in EnMarco : o = w[1]
  BY <1>3
<1>5. PICK s \in Seq(Datos) : s = w[2]
  BY <1>3
<1>6. PICK k \in findInCache(p, n) : k = Min(findInCache(p, n))
  <2>1. findInCache(p, n) \subseteq Nat
    BY Constantes DEF findInCache
  <2>2. Min(findInCache(p, n)) \in findInCache(p, n)
    BY <2>1, MenorDe
  <2> QED BY <2>2
<1>7. k \in Entradas /\ bloqueCache[k].pid = p /\ bloqueCache[k].nroPagina = n /\ p # Libre
  BY Constantes DEF findInCache
<1> DEFINE nuevo == [i \in EnMarco |-> IF i - o + 1 \in DOMAIN s THEN s[i - o + 1]
                                                              ELSE bloqueCache[k].contenido[i]]
<1>8. bloqueCache' = [bloqueCache EXCEPT ![k].contenido = nuevo]
  BY <1>4, <1>5, <1>6, <1>7, <1>2 DEF escribirEnCache, Bloques
<1>9. nuevo \in [EnMarco -> Datos]
  <2>1. \A x \in DOMAIN s : s[x] \in Datos
    OBVIOUS
  <2>2. \A i \in EnMarco : bloqueCache[k].contenido[i] \in Datos
    BY <1>2, <1>7 DEF Bloques
  <2> QED BY <2>1, <2>2
<1>10. \A i \in EnMarco : nuevo[i] = IF i - o + 1 \in DOMAIN s THEN s[i - o + 1]
                                                              ELSE bloqueCache[k].contenido[i]
  OBVIOUS
<1> HIDE DEF nuevo
<1>11. /\ bloqueCache' \in Bloques
       /\ Misma(bloqueCache'[k], bloqueCache[k]) /\ bloqueCache'[k].contenido = nuevo
       /\ \A a \in Entradas : a # k => bloqueCache'[a] = bloqueCache[a]
  BY <1>2, <1>7, <1>8, <1>9 DEF Bloques, Misma
<1>12. \A a \in Entradas : Misma(bloqueCache'[a], bloqueCache[a])
  BY <1>11 DEF Misma
<1>13. cacheEntradas' \in Admins /\ \A x \in Entradas : Misma(cacheEntradas'[x], cacheEntradas[x])
  BY <1>2, Tocada
<1>14. Concuerdan(cacheEntradas', bloqueCache') /\ EnCuota(cacheEntradas')
  BY <1>1, <1>11, <1>12, <1>13, MismasPaginas
<1>15. \A i \in Frames : tabla[i].pid \in Pids \/ tabla[i].pid = Libre => i >= PaginasAdms
  BY <1>1, ConMarco
<1>16. \A i \in Frames : i >= PaginasAdms => \A j \in EnMarco :
          memoria'[Base(i) + j] = IF i = m /\ j - o + 1 \in DOMAIN s THEN s[j - o + 1]
                                                                    ELSE memoria[Base(i) + j]
  <2>1. o + Len(s) <= MarcoSize /\ memoria' = memcpy(Base(m) + o, s) /\ m >= PaginasAdms
    BY <1>4, <1>5, <1>15
  <2> QED BY <2>1, <1>2, Escritos
<1>17. ASSUME NEW b \in Entradas, bloqueCache'[b].pid # Libre
       PROVE  \E i \in Frames :
                 /\ tabla[i].pid = bloqueCache'[b].pid /\ tabla[i].numeroPag = bloqueCache'[b].nroPagina
                 /\ <<bloqueCache'[b].pid, bloqueCache'[b].nroPagina>> \notin corridas' =>
                       \A j \in EnMarco : bloqueCache'[b].contenido[j] = memoria'[Base(i) + j]
  <2>1. bloqueCache'[b].pid = bloqueCache[b].pid /\ bloqueCache'[b].nroPagina = bloqueCache[b].nroPagina
    BY <1>12 DEF Misma
  <2>2. PICK i \in Frames :
           /\ tabla[i].pid = bloqueCache[b].pid /\ tabla[i].numeroPag = bloqueCache[b].nroPagina
           /\ <<bloqueCache[b].pid, bloqueCache[b].nroPagina>> \notin corridas =>
                 \A j \in EnMarco : bloqueCache[b].contenido[j] = memoria[Base(i) + j]
    BY <2>1, <1>1, <1>17 DEF Reflejan
  <2>3. i >= PaginasAdms
    BY <2>1, <2>2, <1>2, <1>15, <1>17 DEF Bloques
  <2>4. CASE b = k
    <3>1. i = m
      BY <2>2, <2>4, <1>1, <1>7 DEF Repartida
    <3>2. ASSUME <<bloqueCache[b].pid, bloqueCache[b].nroPagina>> \notin corridas, NEW j \in EnMarco
          PROVE  bloqueCache'[b].contenido[j] = memoria'[Base(i) + j]
      BY <3>1, <3>2, <2>2, <2>3, <2>4, <1>10, <1>11, <1>16
    <3> QED BY <3>2, <2>1, <2>2
  <2>5. CASE b # k
    <3>1. i # m
      <4> SUFFICES ASSUME i = m PROVE FALSE
        OBVIOUS
      <4>1. bloqueCache[k].pid # Libre /\ Misma(bloqueCache[k], bloqueCache[b])
        BY <2>2, <1>7 DEF Misma
      <4> QED BY <4>1, <2>5, <1>1, <1>7 DEF Concuerdan
    <3>2. bloqueCache'[b] = bloqueCache[b]
      BY <2>5, <1>11
    <3> QED BY <3>1, <3>2, <2>2, <2>3, <1>16
  <2> QED BY <2>4, <2>5
<1>18. Reflejan(bloqueCache', tabla, memoria', corridas')
  BY <1>17 DEF Reflejan
<1> QED BY <1>11, <1>12, <1>13, <1>14, <1>18

LEMMA StepAlmacenarBytesMarco ==
    ASSUME MemoriaInv, NEW c \in Conexiones, almacenarBytes_marco(c)
    PROVE  MemoriaInv'
<1> DEFINE p == pedido[c].pid
           n == pedido[c].pagina
           w == pedido[c].bytes
<1>1. /\ TypeOK /\ Hilos /\ Pendientes /\ Fuera /\ Repartida(tabla, memoria, iniciado)
      /\ Concuerdan(cacheEntradas, bloqueCache) /\ EnCuota(cacheEntradas)
      /\ Reflejan(bloqueCache, tabla, memoria, corridas)
  BY DEF MemoriaInv
<1>2. /\ paso[c] = "almacenarBytes" /\ mutexCache' = Nadie /\ tabla' = tabla /\ reloj' = reloj
  BY DEF almacenarBytes_marco
<1>3. p \in Pids /\ n \in Paginas /\ w \in Escrituras /\ paso[c] # "espera" /\ paso[c] \in ConMutex
  BY <1>1, <1>2, ElPedido DEF ConMutex
<1>4. /\ \E r : Termina(c, r)
      /\ \/ UNCHANGED <<memoria, cache>>
         \/ /\ ~ Desborda(w, Len(w[2]))
            /\ \E m \in encontrarPagina(p, n) :
                  /\ memoria' = memcpy(Base(m) + w[1], w[2])
                  /\ \/ /\ findInCache(p, n) # {}
                        /\ addEntradaCache(p, n)
                        /\ escribirEnCache(p, n, w)
                        /\ UNCHANGED corridas
                     \/ /\ findInCache(p, n) = {}
                        /\ cacheMiss(p, n, Base(m) + w[1], memoria')
  BY DEF almacenarBytes_marco, NoEncontrada
<1>5. PICK r : Termina(c, r)
  BY <1>4
<1>6. /\ Hilos' /\ paso' \in [Conexiones -> Pasos] /\ mutexCache' \in Conexiones \cup {Nadie}
      /\ pedido' \in [Conexiones -> Espacio!Pedidos \cup {Espacio!Ninguno}]
      /\ \A d \in Conexiones : d # c => paso'[d] = paso[d] /\ pedido'[d] = pedido[d]
      /\ paso'[c] = "espera" /\ iniciado' = iniciado
  BY <1>1, <1>2, <1>3, <1>5, Contesta
<1>7. /\ Concuerdan(cacheEntradas', bloqueCache') /\ EnCuota(cacheEntradas')
      /\ Reflejan(bloqueCache', tabla, memoria', corridas')
      /\ corridas' \subseteq Pids \X Paginas
      /\ cacheEntradas' \in Admins /\ bloqueCache' \in Bloques
      /\ \A a \in Entradas : Misma(bloqueCache'[a], bloqueCache[a]) \/ bloqueCache'[a].pid = p
      /\ Repartida(tabla, memoria', iniciado)
  <2>1. CASE UNCHANGED <<memoria, cache>>
    <3>1. cacheEntradas' = cacheEntradas /\ bloqueCache' = bloqueCache /\ corridas' = corridas /\ memoria' = memoria
      BY <2>1 DEF cache
    <3> QED BY <3>1, <1>1, SonTipos DEF Misma
  <2>2. CASE ~ UNCHANGED <<memoria, cache>>
    <3>1. PICK m \in encontrarPagina(p, n) :
             /\ memoria' = memcpy(Base(m) + w[1], w[2])
             /\ \/ /\ findInCache(p, n) # {}
                   /\ addEntradaCache(p, n)
                   /\ escribirEnCache(p, n, w)
                   /\ UNCHANGED corridas
                \/ /\ findInCache(p, n) = {}
                   /\ cacheMiss(p, n, Base(m) + w[1], memoria')
      BY <2>2, <1>4
    <3>2. m \in Frames /\ tabla[m].pid = p /\ tabla[m].numeroPag = n /\ m >= PaginasAdms
      BY <1>1, <1>3, Encontrada
    <3>3. PICK q \in Pids, k \in Paginas, v \in Escrituras : q = p /\ k = n /\ v = w
      BY <1>3
    <3>4. v[1] \in EnMarco /\ v[2] \in Seq(Datos)
      BY MemoriaAssumption
    <3>5. v[1] + Len(v[2]) <= MarcoSize
      <4>1. ~ (MarcoSize - (v[1] + Len(v[2])) < 0)
        BY <2>2, <1>4, <3>3 DEF Desborda
      <4>2. Len(v[2]) \in Nat /\ v[1] \in Int /\ MarcoSize \in Nat
        BY <3>4, Constantes DEF EnMarco
      <4> QED BY <4>1, <4>2
    <3>6. memoria' = memcpy(Base(m) + v[1], v[2])
      BY <3>1, <3>3
    <3>7. /\ memoria' \in [Bytes -> Datos]
          /\ \A i \in Frames : i # m /\ i >= PaginasAdms =>
                \A j \in EnMarco : memoria'[Base(i) + j] = memoria[Base(i) + j]
      <4>1. PICK o \in EnMarco, s \in Seq(Datos) : o = v[1] /\ s = v[2]
        BY <3>4
      <4>2. memoria \in [Bytes -> Datos]
        BY <1>1, SonTipos
      <4>3. o + Len(s) <= MarcoSize /\ memoria' = memcpy(Base(m) + o, s)
        BY <4>1, <3>5, <3>6
      <4>4. /\ memoria' \in [Bytes -> Datos]
            /\ \A i \in Frames : i >= PaginasAdms => \A j \in EnMarco :
                  memoria'[Base(i) + j] = IF i = m /\ j - o + 1 \in DOMAIN s THEN s[j - o + 1]
                                                                            ELSE memoria[Base(i) + j]
        BY <4>2, <4>3, <3>2, Escritos
      <4> QED BY <4>4
    <3>8. Repartida(tabla, memoria', iniciado)
      <4>1. ASSUME NEW i \in Frames, NEW j \in EnMarco, tabla[i].pid = Libre
            PROVE  memoria'[Base(i) + j] = Cero
        <5>1. i # m
          BY <4>1, <3>2, <1>3, Constantes
        <5>2. i >= PaginasAdms
          BY <4>1, <1>1, ConMarco
        <5> QED BY <5>1, <5>2, <4>1, <3>7, <1>1 DEF Repartida
      <4> QED BY <4>1, <3>7, <1>1 DEF Repartida
    <3>9. CASE /\ findInCache(p, n) # {}
               /\ addEntradaCache(p, n)
               /\ escribirEnCache(p, n, w)
               /\ UNCHANGED corridas
      <4>1. /\ findInCache(q, k) # {} /\ addEntradaCache(q, k) /\ escribirEnCache(q, k, v)
            /\ corridas' = corridas
        BY <3>3, <3>9
      <4>2. /\ Concuerdan(cacheEntradas', bloqueCache') /\ EnCuota(cacheEntradas')
            /\ Reflejan(bloqueCache', tabla, memoria', corridas')
            /\ cacheEntradas' \in Admins /\ bloqueCache' \in Bloques
            /\ \A a \in Entradas : Misma(bloqueCache'[a], bloqueCache[a])
        BY <4>1, <3>2, <3>3, <3>5, <3>6, EscritaEnCache
      <4>3. corridas' \subseteq Pids \X Paginas
        BY <4>1, <1>1, SonTipos
      <4> QED BY <4>2, <4>3, <3>8
    <3>10. CASE /\ findInCache(p, n) = {}
                /\ cacheMiss(p, n, Base(m) + w[1], memoria')
      <4>1. PICK o \in EnMarco : o = v[1]
        BY <3>4
      <4>2. \A a \in Entradas : ~ Es(bloqueCache[a], q, k)
        BY <3>3, <3>10 DEF findInCache, Es
      <4>3. PICK mem2 : mem2 = memoria'
        OBVIOUS
      <4>4. cacheMiss(q, k, Base(m) + o, mem2)
        BY <4>1, <4>3, <3>3, <3>10
      <4>5. \A i \in Frames : i # m /\ i >= PaginasAdms =>
                \A j \in EnMarco : mem2[Base(i) + j] = memoria[Base(i) + j]
        BY <4>3, <3>7
      <4>6. /\ Concuerdan(cacheEntradas', bloqueCache') /\ EnCuota(cacheEntradas')
            /\ Reflejan(bloqueCache', tabla, mem2, corridas')
            /\ corridas' \subseteq Pids \X Paginas
            /\ cacheEntradas' \in Admins /\ bloqueCache' \in Bloques
            /\ \A a \in Entradas : Misma(bloqueCache'[a], bloqueCache[a]) \/ bloqueCache'[a].pid = q
        BY <4>2, <4>4, <4>5, <3>2, <3>3, NuevaPagina
      <4> QED BY <4>3, <4>6, <3>3, <3>8
    <3> QED BY <3>1, <3>9, <3>10
  <2> QED BY <2>1, <2>2
<1>8. Pendientes' /\ Fuera'
  <2>1. NoEsta(paso'[c], pedido'[c], bloqueCache')
    BY <1>6 DEF NoEsta
  <2>2. \A i \in Frames : tabla'[i] = tabla[i]
    BY <1>2
  <2> QED BY <2>1, <2>2, <1>1, <1>3, <1>6, <1>7, LosDemas
<1>9. memoria' \in [Bytes -> Datos]
  BY <1>7 DEF Repartida
<1>10. TypeOK'
  BY <1>1, <1>2, <1>6, <1>7, <1>9, SonTipos, TiposDespues
<1>11. Repartida(tabla', memoria', iniciado') /\ Reflejan(bloqueCache', tabla', memoria', corridas')
  BY <1>2, <1>6, <1>7
<1> QED BY <1>6, <1>7, <1>8, <1>10, <1>11 DEF MemoriaInv

(* Pages N of p leave the cache. *)
LEMMA SinPaginas ==
    ASSUME MemoriaInv, NEW p \in Pids, NEW N, NEW k \in {0, -1},
           clearEntradasCache(p, N, k), limpiarBloques(p, N)
    PROVE  /\ Concuerdan(cacheEntradas', bloqueCache') /\ EnCuota(cacheEntradas')
           /\ Reflejan(bloqueCache', tabla, memoria, corridas')
           /\ corridas' \subseteq Pids \X Paginas
           /\ cacheEntradas' \in Admins /\ bloqueCache' \in Bloques
           /\ \A a \in Entradas : Misma(bloqueCache'[a], bloqueCache[a]) \/ bloqueCache'[a].pid = Libre
           /\ \A a \in Entradas : ~ (bloqueCache'[a].pid = p /\ bloqueCache'[a].nroPagina \in N)
<1>1. /\ TypeOK /\ Concuerdan(cacheEntradas, bloqueCache) /\ EnCuota(cacheEntradas)
      /\ Reflejan(bloqueCache, tabla, memoria, corridas)
  BY DEF MemoriaInv
<1>2. /\ reloj \in 0 .. MaxReloj /\ bloqueCache \in Bloques /\ cacheEntradas \in Admins
      /\ corridas \subseteq Pids \X Paginas
  BY <1>1, SonTipos
<1>3. cacheEntradas' = [e \in Entradas |->
          IF cacheEntradas[e].pid = p /\ cacheEntradas[e].nroPagina \in N
            THEN [pid |-> Libre, nroPagina |-> k, tiempoEntrada |-> reloj] ELSE cacheEntradas[e]]
  BY DEF clearEntradasCache, Entrada
<1>4. /\ bloqueCache' = [b \in Entradas |->
            IF bloqueCache[b].pid = p /\ bloqueCache[b].nroPagina \in N THEN VacioB ELSE bloqueCache[b]]
      /\ corridas' = corridas \ ({p} \X N)
  BY DEF limpiarBloques
<1>5. VacioB \in [pid : Pids \cup {Libre}, nroPagina : Paginas, contenido : [EnMarco -> Datos]]
      /\ VacioB.pid = Libre /\ VacioB.nroPagina = 0
  <2>1. 0 \in Paginas /\ Cero \in Datos
    BY Constantes DEF Paginas
  <2> QED BY <2>1 DEF VacioB
<1>6. k \in Paginas \cup {-1} /\ Libre # p
  BY Constantes DEF Paginas
<1>7. cacheEntradas' \in Admins
  BY <1>2, <1>3, <1>6 DEF Admins
<1>8. bloqueCache' \in Bloques
  BY <1>2, <1>4, <1>5 DEF Bloques
<1>9. \A x \in Entradas : Sin(cacheEntradas[x], cacheEntradas'[x], p, N, k)
  BY <1>3 DEF Sin, Misma
<1>10. \A x \in Entradas : Sin(bloqueCache[x], bloqueCache'[x], p, N, 0)
  BY <1>4, <1>5 DEF Sin, Misma
<1>11. Concuerdan(cacheEntradas', bloqueCache') /\ EnCuota(cacheEntradas')
  <2>1. PICK ce2, bc2 : ce2 = cacheEntradas' /\ bc2 = bloqueCache'
    OBVIOUS
  <2>2. /\ ce2 \in Admins /\ bc2 \in Bloques
        /\ \A x \in Entradas : Sin(cacheEntradas[x], ce2[x], p, N, k) /\ Sin(bloqueCache[x], bc2[x], p, N, 0)
    BY <2>1, <1>7, <1>8, <1>9, <1>10
  <2>3. Concuerdan(ce2, bc2) /\ EnCuota(ce2)
    BY <2>2, <1>1, Limpieza
  <2> QED BY <2>1, <2>3
<1>12. \A a \in Entradas :
          \/ /\ bloqueCache'[a] = bloqueCache[a]
             /\ ~ (bloqueCache[a].pid = p /\ bloqueCache[a].nroPagina \in N)
          \/ bloqueCache'[a].pid = Libre
  BY <1>4, <1>5
<1>13. \A a \in Entradas : Misma(bloqueCache'[a], bloqueCache[a]) \/ bloqueCache'[a].pid = Libre
  BY <1>12 DEF Misma
<1>14. \A a \in Entradas : ~ (bloqueCache'[a].pid = p /\ bloqueCache'[a].nroPagina \in N)
  BY <1>6, <1>12
<1>15. Reflejan(bloqueCache', tabla, memoria, corridas')
  <2>1. \A b \in Entradas : bloqueCache'[b].pid # Libre =>
           /\ Misma(bloqueCache'[b], bloqueCache[b]) /\ bloqueCache'[b].contenido = bloqueCache[b].contenido
           /\ <<bloqueCache'[b].pid, bloqueCache'[b].nroPagina>> \in corridas =>
                 <<bloqueCache'[b].pid, bloqueCache'[b].nroPagina>> \in corridas'
    BY <1>4, <1>12 DEF Misma
  <2> QED BY <2>1, <1>1, SigueReflejada
<1>16. corridas' \subseteq Pids \X Paginas
  BY <1>1, <1>2, <1>4
<1> QED BY <1>7, <1>8, <1>11, <1>13, <1>14, <1>15, <1>16

LEMMA StepFinalizarPrograma ==
    ASSUME MemoriaInv, NEW c \in Conexiones, finalizarPrograma(c)
    PROVE  MemoriaInv'
<1>1. /\ TypeOK /\ Hilos /\ Pendientes /\ Fuera /\ Repartida(tabla, memoria, iniciado)
  BY DEF MemoriaInv
<1>2. /\ paso[c] = "FINZ_PROGM" /\ mutexCache = Nadie /\ mutexCache' = mutexCache
      /\ clearEntradasCache(pedido[c].pid, Paginas, 0) /\ limpiarBloques(pedido[c].pid, Paginas)
      /\ paso' = [paso EXCEPT ![c] = "finalizarPrograma"]
      /\ tabla' = tabla /\ memoria' = memoria /\ reloj' = reloj /\ pedido' = pedido /\ iniciado' = iniciado
  BY DEF finalizarPrograma
<1>3. pedido[c].pid \in Pids /\ paso[c] # "espera"
  BY <1>1, <1>2, ElPedido
<1>4. PICK s : s = "finalizarPrograma"
  OBVIOUS
<1>5. /\ Hilos' /\ paso' \in [Conexiones -> Pasos] /\ mutexCache' \in Conexiones \cup {Nadie}
      /\ \A d \in Conexiones : d # c => paso'[d] = paso[d]
      /\ paso'[c] = s
  BY <1>1, <1>2, <1>4, Avanza DEF ConMutex
<1>6. PICK p \in Pids, k \in {0, -1} : p = pedido[c].pid /\ k = 0
  BY <1>3
<1>12. PICK N : N = Paginas
  OBVIOUS
<1>7. /\ Concuerdan(cacheEntradas', bloqueCache') /\ EnCuota(cacheEntradas')
      /\ Reflejan(bloqueCache', tabla, memoria, corridas')
      /\ corridas' \subseteq Pids \X Paginas
      /\ cacheEntradas' \in Admins /\ bloqueCache' \in Bloques
      /\ \A a \in Entradas : Misma(bloqueCache'[a], bloqueCache[a]) \/ bloqueCache'[a].pid = Libre
      /\ \A a \in Entradas : ~ (bloqueCache'[a].pid = p /\ bloqueCache'[a].nroPagina \in N)
  <2>1. clearEntradasCache(p, N, k) /\ limpiarBloques(p, N)
    BY <1>2, <1>6, <1>12
  <2> QED BY <2>1, SinPaginas
<1>8. NoEsta(paso'[c], pedido'[c], bloqueCache')
  <2>1. \A a \in Entradas : bloqueCache'[a].nroPagina \in Paginas
    BY <1>7 DEF Bloques
  <2> QED BY <2>1, <1>2, <1>4, <1>5, <1>6, <1>7, <1>12 DEF NoEsta
<1>9. Pendientes' /\ Fuera'
  <2>1. \A i \in Frames : tabla'[i] = tabla[i]
    BY <1>2
  <2> QED BY <2>1, <1>1, <1>2, <1>3, <1>4, <1>5, <1>7, <1>8, LosDemas
<1>10. TypeOK'
  BY <1>1, <1>2, <1>5, <1>7, SonTipos, TiposDespues
<1>11. Repartida(tabla', memoria', iniciado') /\ Reflejan(bloqueCache', tabla', memoria', corridas')
  BY <1>1, <1>2, <1>7
<1> QED BY <1>5, <1>7, <1>9, <1>10, <1>11 DEF MemoriaInv

LEMMA StepLiberarPagina ==
    ASSUME MemoriaInv, NEW c \in Conexiones, liberarPagina(c)
    PROVE  MemoriaInv'
<1>1. /\ TypeOK /\ Hilos /\ Pendientes /\ Fuera /\ Repartida(tabla, memoria, iniciado)
  BY DEF MemoriaInv
<1>2. /\ paso[c] = "LIBERAR_PAG" /\ mutexCache = Nadie /\ mutexCache' = mutexCache
      /\ clearEntradasCache(pedido[c].pid, {pedido[c].pagina}, -1)
      /\ limpiarBloques(pedido[c].pid, {pedido[c].pagina})
      /\ paso' = [paso EXCEPT ![c] = "liberarPagina"]
      /\ tabla' = tabla /\ memoria' = memoria /\ reloj' = reloj /\ pedido' = pedido /\ iniciado' = iniciado
  BY DEF liberarPagina
<1>3. pedido[c].pid \in Pids /\ paso[c] # "espera"
  BY <1>1, <1>2, ElPedido
<1>4. PICK s : s = "liberarPagina"
  OBVIOUS
<1>5. /\ Hilos' /\ paso' \in [Conexiones -> Pasos] /\ mutexCache' \in Conexiones \cup {Nadie}
      /\ \A d \in Conexiones : d # c => paso'[d] = paso[d]
      /\ paso'[c] = s
  BY <1>1, <1>2, <1>4, Avanza DEF ConMutex
<1>6. PICK p \in Pids, k \in {0, -1} : p = pedido[c].pid /\ k = -1
  BY <1>3
<1>12. PICK N : N = {pedido[c].pagina}
  OBVIOUS
<1>7. /\ Concuerdan(cacheEntradas', bloqueCache') /\ EnCuota(cacheEntradas')
      /\ Reflejan(bloqueCache', tabla, memoria, corridas')
      /\ corridas' \subseteq Pids \X Paginas
      /\ cacheEntradas' \in Admins /\ bloqueCache' \in Bloques
      /\ \A a \in Entradas : Misma(bloqueCache'[a], bloqueCache[a]) \/ bloqueCache'[a].pid = Libre
      /\ \A a \in Entradas : ~ (bloqueCache'[a].pid = p /\ bloqueCache'[a].nroPagina \in N)
  <2>1. clearEntradasCache(p, N, k) /\ limpiarBloques(p, N)
    BY <1>2, <1>6, <1>12
  <2> QED BY <2>1, SinPaginas
<1>8. NoEsta(paso'[c], pedido'[c], bloqueCache')
  BY <1>2, <1>4, <1>5, <1>6, <1>7, <1>12 DEF NoEsta, Es
<1>9. Pendientes' /\ Fuera'
  <2>1. \A i \in Frames : tabla'[i] = tabla[i]
    BY <1>2
  <2> QED BY <2>1, <1>1, <1>2, <1>3, <1>4, <1>5, <1>7, <1>8, LosDemas
<1>10. TypeOK'
  BY <1>1, <1>2, <1>5, <1>7, SonTipos, TiposDespues
<1>11. Repartida(tabla', memoria', iniciado') /\ Reflejan(bloqueCache', tabla', memoria', corridas')
  BY <1>1, <1>2, <1>7
<1> QED BY <1>5, <1>7, <1>9, <1>10, <1>11 DEF MemoriaInv

(* Frames of the program of c whose pages are not in the cache are given   *)
(* back.                                                                   *)
LEMMA StepBorrar ==
    ASSUME MemoriaInv, NEW c \in Conexiones, paso[c] \in {"finalizarPrograma", "liberarPagina"},
           NEW F, F \subseteq Frames, \A i \in F : tabla[i].pid = pedido[c].pid, Borrar_marcos(F),
           \A i \in F : \A b \in Entradas : ~ Es(bloqueCache[b], tabla[i].pid, tabla[i].numeroPag),
           NEW r, Termina(c, r), UNCHANGED <<cache, reloj, mutexCache>>
    PROVE  MemoriaInv'
<1>1. /\ TypeOK /\ Hilos /\ Pendientes /\ Fuera /\ Repartida(tabla, memoria, iniciado)
      /\ Reflejan(bloqueCache, tabla, memoria, corridas)
  BY DEF MemoriaInv
<1>2. /\ cacheEntradas' = cacheEntradas /\ bloqueCache' = bloqueCache /\ corridas' = corridas
      /\ reloj' = reloj /\ mutexCache' = mutexCache
  BY DEF cache
<1>3. pedido[c].pid \in Pids /\ paso[c] # "espera" /\ paso[c] \notin ConMutex
  BY <1>1, ElPedido DEF ConMutex
<1>4. /\ Hilos' /\ paso' \in [Conexiones -> Pasos] /\ mutexCache' \in Conexiones \cup {Nadie}
      /\ pedido' \in [Conexiones -> Espacio!Pedidos \cup {Espacio!Ninguno}]
      /\ \A d \in Conexiones : d # c => paso'[d] = paso[d] /\ pedido'[d] = pedido[d]
      /\ paso'[c] = "espera" /\ iniciado' = iniciado
  BY <1>1, <1>2, <1>3, Contesta
<1>5. \A i \in F : tabla[i].pid \in Pids
  BY <1>3
<1>6. /\ Repartida(tabla', memoria', iniciado)
      /\ \A i \in Frames : tabla'[i] = IF i \in F THEN [pid |-> Libre, numeroPag |-> 0] ELSE tabla[i]
      /\ \A i \in Frames : i >= PaginasAdms =>
            \A j \in EnMarco : memoria'[Base(i) + j] = IF i \in F THEN Cero ELSE memoria[Base(i) + j]
  BY <1>1, <1>5, Borrados
<1>7. \A i \in Frames : tabla'[i] = tabla[i] \/ tabla'[i].pid \in {pedido[c].pid, Libre}
  BY <1>6
<1>8. Pendientes' /\ Fuera'
  <2>1. NoEsta(paso'[c], pedido'[c], bloqueCache')
    BY <1>4 DEF NoEsta
  <2>2. \A a \in Entradas : Misma(bloqueCache'[a], bloqueCache[a])
    BY <1>2 DEF Misma
  <2> QED BY <2>1, <2>2, <1>1, <1>3, <1>4, <1>7, LosDemas
<1>9. ASSUME NEW b \in Entradas, bloqueCache'[b].pid # Libre, NEW i \in Frames,
             tabla[i].pid = bloqueCache'[b].pid, tabla[i].numeroPag = bloqueCache'[b].nroPagina
      PROVE  tabla'[i] = tabla[i] /\ \A j \in EnMarco : memoria'[Base(i) + j] = memoria[Base(i) + j]
  <2>1. i \notin F
    BY <1>2, <1>9 DEF Es
  <2>2. tabla[i].pid \in Pids
    BY <1>1, <1>2, <1>9, SonTipos DEF Bloques
  <2>3. i >= PaginasAdms
    BY <2>2, <1>1, ConMarco
  <2> QED BY <2>1, <2>3, <1>6
<1>10. \A b \in Entradas : bloqueCache'[b].pid # Libre =>
           /\ Misma(bloqueCache'[b], bloqueCache[b]) /\ bloqueCache'[b].contenido = bloqueCache[b].contenido
           /\ \A i \in Frames : tabla[i].pid = bloqueCache'[b].pid /\ tabla[i].numeroPag = bloqueCache'[b].nroPagina =>
                 tabla'[i] = tabla[i] /\ \A j \in EnMarco : memoria'[Base(i) + j] = memoria[Base(i) + j]
  BY <1>2, <1>9 DEF Misma
<1>11. Reflejan(bloqueCache', tabla', memoria', corridas')
  BY <1>1, <1>2, <1>10, SigueReflejada
<1>12. TypeOK'
  <2>1. tabla' \in Ranuras /\ memoria' \in [Bytes -> Datos]
    BY <1>6 DEF Repartida
  <2> QED BY <2>1, <1>1, <1>2, <1>4, SonTipos, TiposDespues
<1>13. Concuerdan(cacheEntradas', bloqueCache') /\ EnCuota(cacheEntradas')
  BY <1>2 DEF MemoriaInv
<1>14. Repartida(tabla', memoria', iniciado')
  BY <1>4, <1>6
<1> QED BY <1>4, <1>8, <1>11, <1>12, <1>13, <1>14 DEF MemoriaInv

LEMMA StepFinalizarProgramaMarcos ==
    ASSUME MemoriaInv, NEW c \in Conexiones, finalizarPrograma_marcos(c)
    PROVE  MemoriaInv'
<1> DEFINE F == MarcosDe(tabla, pedido[c].pid)
<1>1. /\ paso[c] = "finalizarPrograma" /\ Borrar_marcos(F) /\ Termina(c, Cod("OK"))
      /\ UNCHANGED <<cache, reloj, mutexCache>>
  BY DEF finalizarPrograma_marcos
<1>2. F \subseteq Frames /\ \A i \in F : tabla[i].pid = pedido[c].pid
  BY DEF MarcosDe
<1>3. \A b \in Entradas : bloqueCache[b].pid # pedido[c].pid
  BY <1>1 DEF MemoriaInv, Fuera, NoEsta
<1>4. \A i \in F : \A b \in Entradas : ~ Es(bloqueCache[b], tabla[i].pid, tabla[i].numeroPag)
  BY <1>2, <1>3 DEF Es
<1>5. PICK r : r = Cod("OK")
  OBVIOUS
<1>6. Termina(c, r)
  BY <1>1, <1>5
<1> HIDE DEF F
<1> QED BY <1>1, <1>2, <1>4, <1>6, StepBorrar

LEMMA StepLiberarPaginaMarco ==
    ASSUME MemoriaInv, NEW c \in Conexiones, liberarPagina_marco(c)
    PROVE  MemoriaInv'
<1> DEFINE F == encontrarPagina(pedido[c].pid, pedido[c].pagina)
<1>1. /\ paso[c] = "liberarPagina" /\ Borrar_marcos(F)
      /\ Termina(c, Cod(IF F = {} THEN "NOT_FOUND" ELSE "OK"))
      /\ UNCHANGED <<cache, reloj, mutexCache>>
  BY DEF liberarPagina_marco
<1>2. /\ Hilos /\ Repartida(tabla, memoria, iniciado)
      /\ \A b \in Entradas : ~ Es(bloqueCache[b], pedido[c].pid, pedido[c].pagina)
  BY <1>1 DEF MemoriaInv, Fuera, NoEsta
<1>3. pedido[c].pid \in Pids
  BY <1>1, <1>2, ElPedido
<1>4. \A i \in F : i \in Frames /\ tabla[i].pid = pedido[c].pid /\ tabla[i].numeroPag = pedido[c].pagina
  BY <1>2, <1>3, Encontrada
<1>5. \A i \in F : \A b \in Entradas : ~ Es(bloqueCache[b], tabla[i].pid, tabla[i].numeroPag)
  BY <1>2, <1>4
<1>6. PICK r : r = Cod(IF F = {} THEN "NOT_FOUND" ELSE "OK")
  OBVIOUS
<1>7. Termina(c, r)
  BY <1>1, <1>6
<1> HIDE DEF F
<1>8. F \subseteq Frames /\ \A i \in F : tabla[i].pid = pedido[c].pid
  BY <1>4
<1> QED BY <1>1, <1>5, <1>7, <1>8, StepBorrar

(* The empty cache. *)
LEMMA CacheVacia ==
    ASSUME NEW ce, NEW bc, NEW t, NEW mem, NEW cor, NEW s \in 0 .. MaxReloj,
           ce = [e \in Entradas |-> [pid |-> Libre, nroPagina |-> 0, tiempoEntrada |-> s]],
           bc = [b \in Entradas |-> VacioB]
    PROVE  /\ Concuerdan(ce, bc) /\ EnCuota(ce) /\ Reflejan(bc, t, mem, cor)
           /\ ce \in Admins /\ bc \in Bloques
           /\ \A b \in Entradas : bc[b].pid = Libre
<1>1. VacioB \in [pid : Pids \cup {Libre}, nroPagina : Paginas, contenido : [EnMarco -> Datos]]
      /\ Es(VacioB, Libre, 0)
  <2>1. 0 \in Paginas /\ Cero \in Datos
    BY Constantes DEF Paginas
  <2> QED BY <2>1 DEF VacioB, Es
<1>2. bc \in Bloques /\ \A b \in Entradas : Es(bc[b], Libre, 0)
  BY <1>1 DEF Bloques
<1>3. ce \in Admins /\ \A e \in Entradas : Es(ce[e], Libre, 0)
  <2>1. 0 \in Paginas
    BY Constantes DEF Paginas
  <2> QED BY <2>1 DEF Admins, Es
<1>4. Concuerdan(ce, bc) /\ EnCuota(ce)
  BY <1>2, <1>3, Vacias
<1>5. \A b \in Entradas : bc[b].pid = Libre
  BY <1>2 DEF Es
<1> QED BY <1>2, <1>3, <1>4, <1>5 DEF Reflejan

LEMMA StepFlush ==
    ASSUME MemoriaInv, flush
    PROVE  MemoriaInv'
<1>1. /\ TypeOK /\ Hilos /\ Pendientes /\ Fuera /\ Repartida(tabla, memoria, iniciado)
  BY DEF MemoriaInv
<1>2. /\ bloqueCache' = [b \in Entradas |-> VacioB]
      /\ cacheEntradas' = [e \in Entradas |-> [pid |-> Libre, nroPagina |-> 0, tiempoEntrada |-> reloj]]
      /\ corridas' = {}
      /\ tabla' = tabla /\ memoria' = memoria /\ reloj' = reloj /\ mutexCache' = mutexCache
      /\ paso' = paso /\ pedido' = pedido /\ iniciado' = iniciado
  BY DEF flush, Entrada
<1>3. /\ Concuerdan(cacheEntradas', bloqueCache') /\ EnCuota(cacheEntradas')
      /\ Reflejan(bloqueCache', tabla', memoria', corridas')
      /\ cacheEntradas' \in Admins /\ bloqueCache' \in Bloques
      /\ \A b \in Entradas : bloqueCache'[b].pid = Libre
  <2>1. reloj \in 0 .. MaxReloj
    BY <1>1, SonTipos
  <2>2. PICK ce : ce = cacheEntradas'
    OBVIOUS
  <2>3. PICK bc : bc = bloqueCache'
    OBVIOUS
  <2>4. PICK s \in 0 .. MaxReloj : s = reloj
    BY <2>1
  <2>5. /\ ce = [e \in Entradas |-> [pid |-> Libre, nroPagina |-> 0, tiempoEntrada |-> s]]
        /\ bc = [b \in Entradas |-> VacioB]
    BY <2>2, <2>3, <2>4, <1>2
  <2>6. \A t, mem, cor : Reflejan(bc, t, mem, cor)
    BY <2>5, CacheVacia
  <2>7. Concuerdan(ce, bc) /\ EnCuota(ce) /\ ce \in Admins /\ bc \in Bloques
        /\ \A b \in Entradas : bc[b].pid = Libre
    BY <2>5, CacheVacia
  <2> QED BY <2>2, <2>3, <2>6, <2>7
<1>4. TypeOK'
  <2>1. corridas' \subseteq Pids \X Paginas
    BY <1>2
  <2> QED BY <2>1, <1>1, <1>2, <1>3, SonTipos, TiposDespues
<1>5. Fuera'
  <2>1. ASSUME NEW d \in Conexiones PROVE NoEsta(paso'[d], pedido'[d], bloqueCache')
    <3>1. CASE paso[d] = "espera"
      BY <3>1, <1>2 DEF NoEsta
    <3>2. CASE paso[d] # "espera"
      <4>1. pedido[d].pid \in Pids
        BY <3>2, <1>1, ElPedido
      <4> QED BY <4>1, <1>2, <1>3, Constantes DEF NoEsta, Es
    <3> QED BY <3>1, <3>2
  <2> QED BY <2>1 DEF Fuera
<1>6. Hilos' /\ Pendientes' /\ Repartida(tabla', memoria', iniciado')
  BY <1>1, <1>2 DEF Hilos, Pendientes
<1> QED BY <1>3, <1>4, <1>5, <1>6 DEF MemoriaInv

LEMMA StepTic ==
    ASSUME MemoriaInv, Tic
    PROVE  MemoriaInv'
<1>1. /\ reloj' = reloj + 1 /\ reloj < MaxReloj
      /\ tabla' = tabla /\ memoria' = memoria /\ mutexCache' = mutexCache
      /\ cacheEntradas' = cacheEntradas /\ bloqueCache' = bloqueCache /\ corridas' = corridas
      /\ paso' = paso /\ pedido' = pedido /\ iniciado' = iniciado
  BY DEF Tic, cache
<1>2. TypeOK'
  <2>1. TypeOK
    BY DEF MemoriaInv
  <2>2. reloj' \in 0 .. MaxReloj
    BY <2>1, <1>1, SonTipos, Constantes
  <2> QED BY <2>1, <2>2, <1>1, SonTipos, TiposDespues
<1> QED BY <1>1, <1>2 DEF MemoriaInv, Hilos, Pendientes, Fuera

LEMMA InicioInv == Init => MemoriaInv
<1> SUFFICES ASSUME Init PROVE MemoriaInv
  OBVIOUS
<1>1. /\ tabla = [i \in Frames |-> [pid |-> IF i < PaginasAdms THEN Administrativa ELSE Libre,
                                    numeroPag |-> 0]]
      /\ memoria = [k \in Bytes |-> Cero] /\ reloj = 0
      /\ cacheEntradas = [e \in Entradas |-> [pid |-> Libre, nroPagina |-> 0, tiempoEntrada |-> reloj]]
      /\ bloqueCache = [b \in Entradas |-> VacioB]
      /\ corridas = {} /\ mutexCache = Nadie
      /\ paso = [c \in Conexiones |-> "espera"]
      /\ pedido = [c \in Conexiones |-> Espacio!Ninguno]
      /\ iniciado = {}
  BY DEF Init, Entrada
<1>2. reloj \in 0 .. MaxReloj
  BY <1>1, Constantes
<1>3. /\ Concuerdan(cacheEntradas, bloqueCache) /\ EnCuota(cacheEntradas)
      /\ Reflejan(bloqueCache, tabla, memoria, corridas)
      /\ cacheEntradas \in Admins /\ bloqueCache \in Bloques
  <2>1. PICK s \in 0 .. MaxReloj : s = reloj
    BY <1>2
  <2>2. PICK ce : ce = cacheEntradas
    OBVIOUS
  <2>3. PICK bc : bc = bloqueCache
    OBVIOUS
  <2>4. /\ ce = [e \in Entradas |-> [pid |-> Libre, nroPagina |-> 0, tiempoEntrada |-> s]]
        /\ bc = [b \in Entradas |-> VacioB]
    BY <2>1, <2>2, <2>3, <1>1
  <2>5. \A t, mem, cor : Reflejan(bc, t, mem, cor)
    BY <2>4, CacheVacia
  <2>6. Concuerdan(ce, bc) /\ EnCuota(ce) /\ ce \in Admins /\ bc \in Bloques
    BY <2>4, CacheVacia
  <2> QED BY <2>2, <2>3, <2>5, <2>6
<1>4. tabla \in Ranuras
  <2>1. 0 \in Paginas
    BY Constantes DEF Paginas
  <2> QED BY <2>1, <1>1 DEF Ranuras
<1>5. memoria \in [Bytes -> Datos]
  BY <1>1, Constantes
<1>6. TypeOK
  <2>1. paso \in [Conexiones -> Pasos]
    BY <1>1 DEF Pasos
  <2> QED BY <2>1, <1>1, <1>2, <1>3, <1>4, <1>5, SonTipos
<1>7. \A i \in Frames : /\ i < PaginasAdms => tabla[i].pid = Administrativa
                        /\ ~(i < PaginasAdms) => tabla[i].pid = Libre
  BY <1>1
<1>8. \A i \in Frames : tabla[i].pid \notin Pids /\ (tabla[i].pid = Administrativa <=> i < PaginasAdms)
  BY <1>7, Constantes
<1>9. Repartida(tabla, memoria, iniciado)
  <2>1. ASSUME NEW i \in Frames, NEW j \in EnMarco, tabla[i].pid = Libre PROVE memoria[Base(i) + j] = Cero
    <3>1. ~(i < PaginasAdms)
      BY <2>1, <1>8, Constantes
    <3>2. i >= PaginasAdms
      BY <3>1, Constantes
    <3>3. Base(i) + j \in Bytes
      BY <3>2, ByteDeMarco
    <3> QED BY <3>3, <1>1
  <2> QED BY <2>1, <1>4, <1>5, <1>8 DEF Repartida
<1>10. Hilos
  <2>1. \A d \in Conexiones : paso[d] = "espera" /\ pedido[d] = Espacio!Ninguno
    BY <1>1
  <2>2. Nadie \notin Conexiones /\ "espera" \notin ConMutex
    BY Constantes DEF ConMutex
  <2> QED BY <2>1, <2>2, <1>1 DEF Hilos, Atiende
<1>11. Pendientes /\ Fuera
  BY <1>1 DEF Pendientes, Cabe, Fuera, NoEsta
<1> QED BY <1>3, <1>6, <1>9, <1>10, <1>11 DEF MemoriaInv

LEMMA PasoInv == MemoriaInv /\ [Next]_vars => MemoriaInv'
<1> SUFFICES ASSUME MemoriaInv, [Next]_vars PROVE MemoriaInv'
  OBVIOUS
<1>1. ASSUME NEW c \in Conexiones, NEW r \in Espacio!Pedidos, Pedir(c, r) PROVE MemoriaInv'
  BY <1>1, StepPedir
<1>2. ASSUME NEW c \in Conexiones, Atender(c) PROVE MemoriaInv'
  BY <1>2, StepAsignar, StepSolicitarBytes, StepSolicitarBytesMarco, StepAlmacenarBytes,
     StepAlmacenarBytesMarco, StepFinalizarPrograma, StepFinalizarProgramaMarcos,
     StepLiberarPagina, StepLiberarPaginaMarco DEF Atender
<1>3. CASE flush
  BY <1>3, StepFlush
<1>4. CASE Tic
  BY <1>4, StepTic
<1>5. CASE UNCHANGED vars
  BY <1>5 DEF vars, cache, MemoriaInv, TypeOK, Hilos, Pendientes, Fuera
<1> QED BY <1>1, <1>2, <1>3, <1>4, <1>5 DEF Next

(* The invariant holds in every state of Memoria (Memoria.c:694-983). *)
THEOREM MemoriaInvariante == Spec => []MemoriaInv
  BY InicioInv, PasoInv, PTL DEF Spec

(* In every reachable state the variables have their types: in particular  *)
(* no page gets a number beyond the ones a program may ask for, and every  *)
(* table keeps its size (Memoria.c:25-48, 293-448).                        *)
THEOREM MemoryTypes == Spec => []TypeOK
<1>1. MemoriaInv => TypeOK
  BY DEF MemoriaInv
<1> QED BY <1>1, MemoriaInvariante, PTL

(* No page of a program is ever in two frames, and the frames of the page  *)
(* table itself are never given away, whatever pages were assigned and     *)
(* freed before in any order (Memoria.c:332-448).                          *)
THEOREM OneFramePerPage == Spec => []PaginasUnicas
<1>1. MemoriaInv => PaginasUnicas
  <2> SUFFICES ASSUME MemoriaInv PROVE PaginasUnicas
    OBVIOUS
  <2>1. Repartida(tabla, memoria, iniciado)
    BY DEF MemoriaInv
  <2>2. Ocupados = {i \in Frames : tabla[i].pid \in Pids}
    BY <2>1, Ocupado DEF Repartida
  <2>3. ASSUME NEW i \in Ocupados, NEW j \in Ocupados, PaginaDe(i) = PaginaDe(j) PROVE i = j
    BY <2>1, <2>2, <2>3 DEF PaginaDe, Repartida
  <2>4. \A i \in Frames : tabla[i].pid = Administrativa <=> i < PaginasAdms
    BY <2>1 DEF Repartida
  <2> QED BY <2>3, <2>4 DEF PaginasUnicas
<1> QED BY <1>1, MemoriaInvariante, PTL

(* Pages that are cached once are as many as their entries. *)
LEMMA UnaCadaUna ==
    ASSUME NEW f, \A e, d \in Entradas : f[e].pid # Libre /\ Misma(f[e], f[d]) => e = d
    PROVE  Cardinality({<<f[e].pid, f[e].nroPagina>> : e \in EnCache(f)}) = Cardinality(EnCache(f))
<1> DEFINE D == EnCache(f)
           P == {<<f[e].pid, f[e].nroPagina>> : e \in D}
           g == [e \in D |-> <<f[e].pid, f[e].nroPagina>>]
<1>1. D \subseteq Entradas /\ \A e \in D : f[e].pid # Libre
  BY DEF EnCache
<1>2. IsFiniteSet(D)
  BY <1>1, Constantes, FS_Subset
<1>3. g \in [D -> P] /\ \A x \in P : \E e \in D : g[e] = x
  OBVIOUS
<1>4. ASSUME NEW e \in D, NEW d \in D, g[e] = g[d] PROVE e = d
  <2>1. f[e].pid = f[d].pid /\ f[e].nroPagina = f[d].nroPagina
    BY <1>4
  <2> QED BY <2>1, <1>1 DEF Misma
<1> HIDE DEF g
<1>5. g \in Bijection(D, P)
  BY <1>3, <1>4 DEF Bijection, Injection, Surjection, IsInjective
<1>6. Cardinality(P) = Cardinality(D)
  BY <1>2, <1>5, FS_Bijection DEF ExistsBijection
<1> QED BY <1>6

(* The administrative entries and the blocks of the cache always speak of  *)
(* the same pages, each of them once, although findAndReplaceInCache       *)
(* searches the blocks for the page of the entry it replaces               *)
(* (Memoria.c:111-188).                                                    *)
THEOREM BothListsAgree == Spec => []CacheConcuerda
<1>1. MemoriaInv => CacheConcuerda
  <2> SUFFICES ASSUME MemoriaInv PROVE CacheConcuerda
    OBVIOUS
  <2> DEFINE pag(f) == {<<f[e].pid, f[e].nroPagina>> : e \in EnCache(f)}
  <2>1. Concuerdan(cacheEntradas, bloqueCache)
    BY DEF MemoriaInv
  <2>2. /\ \A e, f \in Entradas : cacheEntradas[e].pid # Libre /\ Misma(cacheEntradas[e], cacheEntradas[f]) => e = f
        /\ \A e, f \in Entradas : bloqueCache[e].pid # Libre /\ Misma(bloqueCache[e], bloqueCache[f]) => e = f
    BY <2>1 DEF Concuerdan
  <2>3. Cardinality(pag(cacheEntradas)) = Cardinality(EnCache(cacheEntradas))
    <3>1. PICK f : f = cacheEntradas
      OBVIOUS
    <3>2. \A e, d \in Entradas : f[e].pid # Libre /\ Misma(f[e], f[d]) => e = d
      BY <3>1, <2>2
    <3>3. Cardinality({<<f[e].pid, f[e].nroPagina>> : e \in EnCache(f)}) = Cardinality(EnCache(f))
      BY <3>2, UnaCadaUna
    <3> QED BY <3>1, <3>3
  <2>4. Cardinality(pag(bloqueCache)) = Cardinality(EnCache(bloqueCache))
    <3>1. PICK f : f = bloqueCache
      OBVIOUS
    <3>2. \A e, d \in Entradas : f[e].pid # Libre /\ Misma(f[e], f[d]) => e = d
      BY <3>1, <2>2
    <3>3. Cardinality({<<f[e].pid, f[e].nroPagina>> : e \in EnCache(f)}) = Cardinality(EnCache(f))
      BY <3>2, UnaCadaUna
    <3> QED BY <3>1, <3>3
  <2>5. pag(cacheEntradas) \subseteq pag(bloqueCache)
    <3>1. ASSUME NEW e \in EnCache(cacheEntradas)
          PROVE  \E b \in EnCache(bloqueCache) : <<cacheEntradas[e].pid, cacheEntradas[e].nroPagina>>
                                                  = <<bloqueCache[b].pid, bloqueCache[b].nroPagina>>
      BY <2>1 DEF EnCache, Concuerdan, Misma
    <3> QED BY <3>1
  <2>6. pag(bloqueCache) \subseteq pag(cacheEntradas)
    <3>1. ASSUME NEW b \in EnCache(bloqueCache)
          PROVE  \E e \in EnCache(cacheEntradas) : <<cacheEntradas[e].pid, cacheEntradas[e].nroPagina>>
                                                  = <<bloqueCache[b].pid, bloqueCache[b].nroPagina>>
      BY <2>1 DEF EnCache, Concuerdan, Misma
    <3> QED BY <3>1
  <2> QED BY <2>3, <2>4, <2>5, <2>6 DEF CacheConcuerda
<1> QED BY <1>1, MemoriaInvariante, PTL

(* No program has more entries than CACHE_X_PROC (Memoria.c:202-289).      *)
THEOREM QuotaIsKept == Spec => []CuotaRespetada
<1>1. MemoriaInv => CuotaRespetada
  BY DEF MemoriaInv, EnCuota, CuotaRespetada, Del, DelProceso
<1> QED BY <1>1, MemoriaInvariante, PTL

-----------------------------------------------------------------------------
(* The page spaces. *)

(* espacio, of any table and frames. *)
EspacioDe(t, mem) ==
    [x \in {<<t[i].pid, t[i].numeroPag>> : i \in {i \in Frames : t[i].pid >= 0}} |->
        LET m == CHOOSE i \in {i \in Frames : t[i].pid >= 0} : <<t[i].pid, t[i].numeroPag>> = x IN
        [i \in EnMarco |-> mem[Base(m) + i]]]

(* espacio is that of the table and the frames, before and after a step. *)
LEMMA EspacioEs ==
    /\ espacio = EspacioDe(tabla, memoria)
    /\ espacio' = EspacioDe(tabla', memoria')
  BY DEF espacio, EspacioDe, Ocupados, PaginaDe

Contenido(mem, i) == [j \in EnMarco |-> mem[Base(i) + j]]

(* The pages of a space are those in the frames, with their bytes. *)
LEMMA DelEspacio ==
    ASSUME NEW t, NEW mem, NEW ini, Repartida(t, mem, ini), NEW E, E = EspacioDe(t, mem)
    PROVE  /\ E = [x \in DOMAIN E |-> E[x]]
           /\ \A x : x \in DOMAIN E <=> \E i \in Frames : t[i].pid \in Pids /\ x = <<t[i].pid, t[i].numeroPag>>
           /\ \A i \in Frames : t[i].pid \in Pids =>
                 /\ <<t[i].pid, t[i].numeroPag>> \in DOMAIN E
                 /\ E[<<t[i].pid, t[i].numeroPag>>] = Contenido(mem, i)
<1> DEFINE O == {i \in Frames : t[i].pid >= 0}
           D == {<<t[i].pid, t[i].numeroPag>> : i \in O}
<1>1. ASSUME NEW i \in Frames PROVE t[i].pid >= 0 <=> t[i].pid \in Pids
  <2>1. t[i].pid \in Pids \cup {Libre, Administrativa}
    BY DEF Repartida, Ranuras
  <2>2. CASE t[i].pid \in Pids
    <3>1. t[i].pid \in Nat
      BY <2>2, Constantes
    <3> QED BY <2>2, <3>1
  <2>3. CASE t[i].pid = Libre
    <3>1. ~ (-1 >= 0)
      OBVIOUS
    <3> QED BY <2>3, <3>1, Constantes DEF Libre
  <2>4. CASE t[i].pid = Administrativa
    <3>1. ~ (-2 >= 0)
      OBVIOUS
    <3> QED BY <2>4, <3>1, Constantes DEF Administrativa
  <2> QED BY <2>1, <2>2, <2>3, <2>4
<1>2. E = [x \in D |-> LET m == CHOOSE i \in O : <<t[i].pid, t[i].numeroPag>> = x IN
                       [i \in EnMarco |-> mem[Base(m) + i]]]
  BY DEF EspacioDe
<1>3. DOMAIN E = D /\ E = [x \in DOMAIN E |-> E[x]]
  BY <1>2
<1>4. \A x : x \in D <=> \E i \in Frames : t[i].pid \in Pids /\ x = <<t[i].pid, t[i].numeroPag>>
  BY <1>1
<1>5. ASSUME NEW i \in Frames, t[i].pid \in Pids
      PROVE  /\ <<t[i].pid, t[i].numeroPag>> \in D
             /\ E[<<t[i].pid, t[i].numeroPag>>] = Contenido(mem, i)
  <2>1. i \in O
    BY <1>1, <1>5
  <2>2. PICK x \in D : x = <<t[i].pid, t[i].numeroPag>>
    BY <2>1
  <2>3. PICK m \in O : m = (CHOOSE k \in O : <<t[k].pid, t[k].numeroPag>> = x) /\ <<t[m].pid, t[m].numeroPag>> = x
    BY <2>1, <2>2
  <2>4. m = i
    <3>1. t[m].pid = t[i].pid /\ t[m].numeroPag = t[i].numeroPag /\ m \in Frames /\ t[m].pid \in Pids
      BY <2>2, <2>3, <1>1
    <3> QED BY <3>1 DEF Repartida
  <2>5. E[x] = [j \in EnMarco |-> mem[Base(m) + j]]
    BY <1>2, <2>3
  <2> QED BY <2>2, <2>4, <2>5 DEF Contenido
<1> QED BY <1>3, <1>4, <1>5

(* What the cache says is what the frames hold. *)
LEMMA Coherente == MemoriaInv => CacheCoherente
<1> SUFFICES ASSUME MemoriaInv, NEW b \in EnCache(bloqueCache)
             PROVE  LET x == <<bloqueCache[b].pid, bloqueCache[b].nroPagina>> IN
                    x \in DOMAIN espacio /\ (x \notin corridas => bloqueCache[b].contenido = espacio[x])
  BY DEF CacheCoherente
<1>1. /\ TypeOK /\ Repartida(tabla, memoria, iniciado) /\ Reflejan(bloqueCache, tabla, memoria, corridas)
  BY DEF MemoriaInv
<1>2. b \in Entradas /\ bloqueCache[b].pid # Libre
  BY DEF EnCache
<1>3. bloqueCache[b].pid \in Pids /\ bloqueCache[b].contenido \in [EnMarco -> Datos]
  BY <1>1, <1>2, SonTipos DEF Bloques
<1>4. PICK i \in Frames :
         /\ tabla[i].pid = bloqueCache[b].pid /\ tabla[i].numeroPag = bloqueCache[b].nroPagina
         /\ <<bloqueCache[b].pid, bloqueCache[b].nroPagina>> \notin corridas =>
               \A j \in EnMarco : bloqueCache[b].contenido[j] = memoria[Base(i) + j]
  BY <1>1, <1>2 DEF Reflejan
<1>5. /\ <<tabla[i].pid, tabla[i].numeroPag>> \in DOMAIN espacio
      /\ espacio[<<tabla[i].pid, tabla[i].numeroPag>>] = Contenido(memoria, i)
  <2>1. PICK E : E = espacio
    OBVIOUS
  <2>2. E = EspacioDe(tabla, memoria)
    BY <2>1, EspacioEs
  <2>3. \A k \in Frames : tabla[k].pid \in Pids =>
           /\ <<tabla[k].pid, tabla[k].numeroPag>> \in DOMAIN E
           /\ E[<<tabla[k].pid, tabla[k].numeroPag>>] = Contenido(memoria, k)
    <3>1. Repartida(tabla, memoria, iniciado)
      BY <1>1
    <3> HIDE <1>1
    <3> QED BY ONLY <2>2, <3>1, DelEspacio
  <2>4. tabla[i].pid \in Pids
    BY <1>3, <1>4
  <2> QED BY ONLY <2>1, <2>3, <2>4
<1>6. (\A j \in EnMarco : bloqueCache[b].contenido[j] = memoria[Base(i) + j]) =>
         bloqueCache[b].contenido = Contenido(memoria, i)
  BY <1>3 DEF Contenido
<1> QED BY <1>4, <1>5, <1>6

(* A cached page is a page of its program, and the cache gives its bytes   *)
(* unless it was cached from the middle of its frame, although             *)
(* finalizarPrograma and liberarPagina change the cache and the frames     *)
(* under different locks (Memoria.c:720-983).                              *)
THEOREM CacheReflectsFrames == Spec => []CacheCoherente
  BY Coherente, MemoriaInvariante, PTL

-----------------------------------------------------------------------------
(* The frames implement the page space. *)

(* Page spaces with more and with fewer pages. *)
Ampliado(E, N) == [x \in DOMAIN E \cup N |-> IF x \in DOMAIN E THEN E[x] ELSE Espacio!EnBlanco]
Reducido(E, X) == [x \in DOMAIN E \ X |-> E[x]]

(* Frames are given back. *)
LEMMA QuedanPaginas ==
    ASSUME NEW t, NEW mem, NEW ini, Repartida(t, mem, ini),
           NEW t2, NEW mem2, NEW ini2, Repartida(t2, mem2, ini2), NEW X,
           NEW E, E = EspacioDe(t, mem), NEW E2, E2 = EspacioDe(t2, mem2),
           \A i \in Frames : t[i].pid \in Pids =>
              IF <<t[i].pid, t[i].numeroPag>> \in X THEN t2[i].pid \notin Pids
              ELSE t2[i] = t[i] /\ Contenido(mem2, i) = Contenido(mem, i),
           \A i \in Frames : t[i].pid \notin Pids => t2[i].pid \notin Pids
    PROVE  E2 = Reducido(E, X)
<1>1. /\ \A x : x \in DOMAIN E <=> \E i \in Frames : t[i].pid \in Pids /\ x = <<t[i].pid, t[i].numeroPag>>
      /\ \A i \in Frames : t[i].pid \in Pids => E[<<t[i].pid, t[i].numeroPag>>] = Contenido(mem, i)
  BY DelEspacio
<1>2. /\ E2 = [x \in DOMAIN E2 |-> E2[x]]
      /\ \A x : x \in DOMAIN E2 <=> \E i \in Frames : t2[i].pid \in Pids /\ x = <<t2[i].pid, t2[i].numeroPag>>
      /\ \A i \in Frames : t2[i].pid \in Pids => E2[<<t2[i].pid, t2[i].numeroPag>>] = Contenido(mem2, i)
  BY DelEspacio
<1>3. ASSUME NEW x \in DOMAIN E \ X PROVE x \in DOMAIN E2 /\ E2[x] = E[x]
  <2>1. PICK i \in Frames : t[i].pid \in Pids /\ x = <<t[i].pid, t[i].numeroPag>>
    BY <1>1
  <2>2. t2[i] = t[i] /\ Contenido(mem2, i) = Contenido(mem, i)
    BY <2>1
  <2> QED BY <2>1, <2>2, <1>1, <1>2
<1>4. ASSUME NEW x \in DOMAIN E2 PROVE x \in DOMAIN E \ X
  <2>1. PICK i \in Frames : t2[i].pid \in Pids /\ x = <<t2[i].pid, t2[i].numeroPag>>
    BY <1>2
  <2>2. t[i].pid \in Pids
    BY <2>1
  <2>3. <<t[i].pid, t[i].numeroPag>> \notin X /\ t2[i] = t[i]
    BY <2>1, <2>2
  <2> QED BY <2>1, <2>2, <2>3, <1>1
<1>5. DOMAIN E2 = DOMAIN E \ X
  BY <1>3, <1>4
<1> QED BY <1>2, <1>3, <1>5 DEF Reducido

(* Table t2 gives the pages of N out in frames that are free in t. *)
Dadas(t, t2, N) ==
    /\ \A i \in Frames : t[i].pid \in Pids => t2[i] = t[i]
    /\ \A i \in Frames : t[i].pid \notin Pids /\ t2[i].pid \in Pids =>
          t[i].pid = Libre /\ <<t2[i].pid, t2[i].numeroPag>> \in N
    /\ \A x \in N : \E i \in Frames :
          t[i].pid \notin Pids /\ t2[i].pid \in Pids /\ x = <<t2[i].pid, t2[i].numeroPag>>

(* Free frames, which are blank, are given out. *)
LEMMA NuevasPaginas ==
    ASSUME NEW t, NEW mem, NEW ini, Repartida(t, mem, ini), NEW t2, NEW ini2, Repartida(t2, mem, ini2), NEW N,
           NEW E, E = EspacioDe(t, mem), NEW E2, E2 = EspacioDe(t2, mem),
           Dadas(t, t2, N)
    PROVE  E2 = Ampliado(E, N)
<1>0. /\ \A i \in Frames : t[i].pid \in Pids => t2[i] = t[i]
      /\ \A i \in Frames : t[i].pid \notin Pids /\ t2[i].pid \in Pids =>
            t[i].pid = Libre /\ <<t2[i].pid, t2[i].numeroPag>> \in N
      /\ \A x \in N : \E i \in Frames :
            t[i].pid \notin Pids /\ t2[i].pid \in Pids /\ x = <<t2[i].pid, t2[i].numeroPag>>
  BY DEF Dadas
<1>1. /\ \A x : x \in DOMAIN E <=> \E i \in Frames : t[i].pid \in Pids /\ x = <<t[i].pid, t[i].numeroPag>>
      /\ \A i \in Frames : t[i].pid \in Pids => E[<<t[i].pid, t[i].numeroPag>>] = Contenido(mem, i)
  BY DelEspacio
<1>2. /\ E2 = [x \in DOMAIN E2 |-> E2[x]]
      /\ \A x : x \in DOMAIN E2 <=> \E i \in Frames : t2[i].pid \in Pids /\ x = <<t2[i].pid, t2[i].numeroPag>>
      /\ \A i \in Frames : t2[i].pid \in Pids => E2[<<t2[i].pid, t2[i].numeroPag>>] = Contenido(mem, i)
  BY DelEspacio
<1>3. ASSUME NEW x \in DOMAIN E PROVE x \in DOMAIN E2 /\ E2[x] = E[x]
  <2>1. PICK i \in Frames : t[i].pid \in Pids /\ x = <<t[i].pid, t[i].numeroPag>>
    BY <1>1
  <2>2. t2[i] = t[i]
    BY <2>1, <1>0
  <2> QED BY <2>1, <2>2, <1>1, <1>2
<1>4. ASSUME NEW x \in N, x \notin DOMAIN E PROVE x \in DOMAIN E2 /\ E2[x] = Espacio!EnBlanco
  <2>1. PICK i \in Frames : t[i].pid \notin Pids /\ t2[i].pid \in Pids /\ x = <<t2[i].pid, t2[i].numeroPag>>
    BY <1>0, <1>4
  <2>2. t[i].pid = Libre
    BY <2>1, <1>0
  <2>3. Contenido(mem, i) = Espacio!EnBlanco
    BY <2>2 DEF Repartida, Contenido, Espacio!EnBlanco, EnMarco
  <2> QED BY <2>1, <2>3, <1>2
<1>5. ASSUME NEW x \in DOMAIN E2 PROVE x \in DOMAIN E \cup N
  <2>1. PICK i \in Frames : t2[i].pid \in Pids /\ x = <<t2[i].pid, t2[i].numeroPag>>
    BY <1>2
  <2>2. CASE t[i].pid \in Pids
    BY <2>1, <2>2, <1>0, <1>1
  <2>3. CASE t[i].pid \notin Pids
    BY <2>1, <2>3, <1>0
  <2> QED BY <2>2, <2>3
<1>6. N \subseteq DOMAIN E2
  BY <1>3, <1>4
<1>7. DOMAIN E2 = DOMAIN E \cup N
  BY <1>3, <1>5, <1>6
<1>8. \A x \in DOMAIN E2 : E2[x] = IF x \in DOMAIN E THEN E[x] ELSE Espacio!EnBlanco
  BY <1>3, <1>4, <1>7
<1> QED BY <1>2, <1>7, <1>8 DEF Ampliado

(* One frame is written. *)
LEMMA PaginaEscrita ==
    ASSUME NEW t, NEW mem, NEW ini, Repartida(t, mem, ini), NEW mem2, NEW ini2, Repartida(t, mem2, ini2),
           NEW E, E = EspacioDe(t, mem), NEW E2, E2 = EspacioDe(t, mem2),
           NEW m \in Frames, t[m].pid \in Pids, NEW x, x = <<t[m].pid, t[m].numeroPag>>,
           \A i \in Frames : t[i].pid \in Pids /\ i # m => Contenido(mem2, i) = Contenido(mem, i)
    PROVE  E2 = [E EXCEPT ![x] = Contenido(mem2, m)] /\ E[x] = Contenido(mem, m) /\ x \in DOMAIN E
<1>1. /\ E = [y \in DOMAIN E |-> E[y]]
      /\ \A y : y \in DOMAIN E <=> \E i \in Frames : t[i].pid \in Pids /\ y = <<t[i].pid, t[i].numeroPag>>
      /\ \A i \in Frames : t[i].pid \in Pids => E[<<t[i].pid, t[i].numeroPag>>] = Contenido(mem, i)
  BY DelEspacio
<1>2. /\ E2 = [y \in DOMAIN E2 |-> E2[y]]
      /\ \A y : y \in DOMAIN E2 <=> \E i \in Frames : t[i].pid \in Pids /\ y = <<t[i].pid, t[i].numeroPag>>
      /\ \A i \in Frames : t[i].pid \in Pids => E2[<<t[i].pid, t[i].numeroPag>>] = Contenido(mem2, i)
  BY DelEspacio
<1>3. DOMAIN E2 = DOMAIN E
  BY <1>1, <1>2
<1>4. x \in DOMAIN E /\ E[x] = Contenido(mem, m) /\ E2[x] = Contenido(mem2, m)
  BY <1>1, <1>2
<1>5. ASSUME NEW y \in DOMAIN E, y # x PROVE E2[y] = E[y]
  <2>1. PICK i \in Frames : t[i].pid \in Pids /\ y = <<t[i].pid, t[i].numeroPag>>
    BY <1>1
  <2>2. i # m
    BY <2>1, <1>5
  <2> QED BY <2>1, <2>2, <1>1, <1>2
<1>6. E2 = [E EXCEPT ![x] = Contenido(mem2, m)]
  BY <1>2, <1>3, <1>4, <1>5
<1> QED BY <1>4, <1>6

(* The frames that are free are the ones the page space does not use.      *)
LEMMA MarcosLibres ==
    ASSUME NEW t, NEW mem, NEW ini, Repartida(t, mem, ini), NEW E, E = EspacioDe(t, mem)
    PROVE  /\ IsFiniteSet(DOMAIN E) /\ Cardinality(DOMAIN E) \in Nat
           /\ Cardinality(DOMAIN E) + Cardinality(paginasLibres(t)) = Marcos - PaginasAdms
<1> DEFINE O == {i \in Frames : t[i].pid \in Pids}
           L == paginasLibres(t)
           A == {i \in Frames : t[i].pid = Administrativa}
           f == [i \in O |-> <<t[i].pid, t[i].numeroPag>>]
<1>1. \A x : x \in DOMAIN E <=> \E i \in Frames : t[i].pid \in Pids /\ x = <<t[i].pid, t[i].numeroPag>>
  BY DelEspacio
<1>2. f \in Bijection(O, DOMAIN E)
  <2>1. f \in [O -> DOMAIN E]
    BY <1>1
  <2>2. \A i, j \in O : f[i] = f[j] => i = j
    BY DEF Repartida
  <2>3. \A x \in DOMAIN E : \E i \in O : f[i] = x
    BY <1>1
  <2> HIDE DEF O, f
  <2> QED BY <2>1, <2>2, <2>3 DEF Bijection, Injection, Surjection, IsInjective
<1>3. /\ O \subseteq Frames /\ L \subseteq Frames /\ A \subseteq Frames
      /\ O \cap L = {} /\ (O \cup L) \cap A = {} /\ (O \cup L) \cup A = Frames
  <2>1. \A i \in Frames : t[i].pid \in Pids \cup {Libre, Administrativa}
    BY DEF Repartida, Ranuras
  <2>2. Libre \notin Pids /\ Administrativa \notin Pids /\ Libre # Administrativa
    BY Constantes
  <2>3. O \subseteq Frames /\ L \subseteq Frames /\ A \subseteq Frames
    BY DEF paginasLibres
  <2>4. \A i \in Frames : i \in O \/ i \in L \/ i \in A
    BY <2>1 DEF paginasLibres
  <2>5. \A i \in Frames : ~(i \in O /\ i \in L) /\ ~(i \in O /\ i \in A) /\ ~(i \in L /\ i \in A)
    BY <2>2 DEF paginasLibres
  <2> HIDE DEF O, L, A
  <2> QED BY <2>3, <2>4, <2>5
<1>4. A = 0 .. PaginasAdms - 1
  <2>1. \A i \in Frames : t[i].pid = Administrativa <=> i < PaginasAdms
    BY DEF Repartida
  <2> QED BY <2>1, Constantes DEF Frames
<1>5. Cardinality(A) = PaginasAdms
  <2>1. PaginasAdms \in Nat \ {0}
    BY MemoriaAssumption
  <2>2. PaginasAdms - 1 \in Int /\ 0 \in Int /\ ~(0 > PaginasAdms - 1) /\ (PaginasAdms - 1) - 0 + 1 = PaginasAdms
    BY <2>1
  <2>3. Cardinality(0 .. PaginasAdms - 1) = IF 0 > PaginasAdms - 1 THEN 0 ELSE (PaginasAdms - 1) - 0 + 1
    BY <2>2, FS_Interval
  <2> QED BY <2>2, <2>3, <1>4
<1> HIDE DEF O, L, A, f
<1>6. IsFiniteSet(O) /\ IsFiniteSet(L) /\ IsFiniteSet(A)
  BY <1>3, Constantes, FS_Subset
<1>7. IsFiniteSet(DOMAIN E) /\ Cardinality(DOMAIN E) = Cardinality(O)
  BY <1>2, <1>6, FS_Bijection DEF ExistsBijection
<1>8. Cardinality(O) \in Nat /\ Cardinality(L) \in Nat
  BY <1>6, FS_CardinalityType
<1>9. IsFiniteSet(O \cup L) /\ Cardinality(O \cup L) = Cardinality(O) + Cardinality(L)
  <2>1. /\ IsFiniteSet(O \cup L)
        /\ Cardinality(O \cup L) = Cardinality(O) + Cardinality(L) - Cardinality(O \cap L)
    BY <1>6, FS_Union
  <2>2. Cardinality(O \cap L) = 0
    BY <1>3, FS_EmptySet
  <2> QED BY <2>1, <2>2, <1>8
<1>10. Marcos = Cardinality(O) + Cardinality(L) + PaginasAdms
  <2>1. Cardinality((O \cup L) \cup A) = Cardinality(O \cup L) + Cardinality(A) - Cardinality((O \cup L) \cap A)
    BY <1>6, <1>9, FS_Union
  <2>2. Cardinality((O \cup L) \cap A) = 0
    BY <1>3, FS_EmptySet
  <2>3. Cardinality(Frames) = Marcos
    BY Constantes
  <2>4. PaginasAdms \in Nat
    BY Constantes
  <2>5. Cardinality((O \cup L) \cup A) = Marcos
    BY <2>3, <1>3
  <2>6. Cardinality(A) = PaginasAdms
    BY <1>5
  <2> QED BY ONLY <2>1, <2>2, <2>4, <2>5, <2>6, <1>8, <1>9
<1>11. PaginasAdms \in Nat /\ Marcos \in Nat
  BY Constantes
<1> QED BY <1>7, <1>8, <1>10, <1>11 DEF L

(* Each step of the process is a step of the page space, or none.          *)

(* A page of a program, seen from both sides. *)
LEMMA LaPagina ==
    ASSUME Repartida(tabla, memoria, iniciado), NEW p \in Pids, NEW n, NEW x, x = <<p, n>>
    PROVE  /\ x \in DOMAIN espacio <=> encontrarPagina(p, n) # {}
           /\ \A m \in encontrarPagina(p, n) : espacio[x] = Contenido(memoria, m)
<1>1. PICK E : E = espacio
  OBVIOUS
<1>2. E = EspacioDe(tabla, memoria)
  BY <1>1, EspacioEs
<1>3. /\ \A y : y \in DOMAIN E <=> \E i \in Frames : tabla[i].pid \in Pids /\ y = <<tabla[i].pid, tabla[i].numeroPag>>
      /\ \A i \in Frames : tabla[i].pid \in Pids => E[<<tabla[i].pid, tabla[i].numeroPag>>] = Contenido(memoria, i)
  BY <1>2, DelEspacio
<1>4. encontrarPagina(p, n) = {i \in Frames : tabla[i].pid = p /\ tabla[i].numeroPag = n}
  BY Encontrada
<1>5. x \in DOMAIN E <=> encontrarPagina(p, n) # {}
  <2>1. ASSUME x \in DOMAIN E PROVE encontrarPagina(p, n) # {}
    <3>1. PICK i \in Frames : x = <<tabla[i].pid, tabla[i].numeroPag>>
      BY <2>1, <1>3
    <3>2. tabla[i].pid = p /\ tabla[i].numeroPag = n
      BY <3>1
    <3> QED BY <3>2, <1>4
  <2>2. ASSUME NEW m \in encontrarPagina(p, n) PROVE x \in DOMAIN E
    BY <2>2, <1>3, <1>4
  <2> QED BY <2>1, <2>2
<1>6. \A m \in encontrarPagina(p, n) : E[x] = Contenido(memoria, m)
  BY <1>3, <1>4
<1> QED BY <1>1, <1>5, <1>6

(* A step that leaves the table and the frames leaves the pages. *)
LEMMA MismoEspacio ==
    ASSUME tabla' = tabla, memoria' = memoria
    PROVE  espacio' = espacio
  BY EspacioEs

(* The page space counts as this module does. *)
LEMMA MismoCardinal == \A S : Espacio!Cardinality(S) = Cardinality(S)
  BY Zenon DEF Espacio!Cardinality, Cardinality

LEMMA RefPedir ==
    ASSUME NEW c \in Conexiones, NEW r \in Espacio!Pedidos, Pedir(c, r)
    PROVE  Espacio!Pedir(c, r)
<1>1. espacio' = espacio
  BY MismoEspacio DEF Pedir
<1> QED BY <1>1 DEF Pedir, Espacio!Pedir

LEMMA RefAsignar ==
    ASSUME MemoriaInv, MemoriaInv', NEW c \in Conexiones, asignar(c)
    PROVE  Espacio!Asignar(c)
<1> DEFINE p == pedido[c].pid
           n == IF paso[c] = "INIT_PROGM" THEN PagsPrograma ELSE 1
           desde == IF paso[c] = "INIT_PROGM" THEN 0 ELSE getNextPaginasPID(p)
           nuevas == IF pedido[c].op = "INIT_PROGM" THEN 0 .. PagsPrograma - 1
                                                    ELSE {Espacio!Ultima(espacio, p) + 1}
<1>1. /\ p \in Pids /\ p \in iniciado /\ n \in Nat /\ desde \in Nat
      /\ IF hayEspacio(n) THEN Ubicadas(tabla, tabla', p, desde, n) ELSE tabla' = tabla
  BY Asignadas
<1>2. /\ paso[c] \in {"INIT_PROGM", "ASIG_PAGES"} /\ memoria' = memoria
      /\ Termina(c, Cod(IF hayEspacio(n) THEN "OK" ELSE "SIN_ESPACIO"))
  BY DEF asignar
<1>3. Hilos /\ Repartida(tabla, memoria, iniciado) /\ Repartida(tabla', memoria, iniciado')
  BY <1>2 DEF MemoriaInv
<1>4. pedido[c].op = paso[c]
  BY <1>2, <1>3, ElPedido
<1>5. PICK q \in Pids, d \in Nat, k \in Nat : q = p /\ d = desde /\ k = n
  BY <1>1
<1>6. PICK N : N = nuevas
  OBVIOUS
<1>7. N = d .. d + k - 1
  <2>1. CASE paso[c] = "INIT_PROGM"
    <3>1. PagsPrograma \in Nat
      BY Constantes
    <3> QED BY <3>1, <2>1, <1>4, <1>5, <1>6
  <2>2. CASE paso[c] # "INIT_PROGM"
    <3>1. d = Espacio!Ultima(espacio, p) + 1 /\ k = 1
      BY <2>2, <1>1, <1>3, <1>5, LaUltima
    <3>2. N = {d}
      BY <3>1, <2>2, <1>4, <1>6
    <3> HIDE <1>5, <1>6
    <3>3. d .. d + k - 1 = {d}
      BY <3>1
    <3> QED BY <3>2, <3>3
  <2> QED BY <2>1, <2>2
<1>8. Cardinality(N) = k
  <2>1. d \in Int /\ d + k - 1 \in Int /\ (d > d + k - 1 <=> k = 0) /\ d + k - 1 - d + 1 = k
    OBVIOUS
  <2>2. Cardinality(d .. d + k - 1) = IF d > d + k - 1 THEN 0 ELSE d + k - 1 - d + 1
    BY <2>1, FS_Interval
  <2> QED BY <2>1, <2>2, <1>7
<1>9. PICK E, E2 : E = espacio /\ E2 = espacio'
  OBVIOUS
<1>10. E = EspacioDe(tabla, memoria) /\ E2 = EspacioDe(tabla', memoria)
  BY <1>2, <1>9, EspacioEs
<1>11. hayEspacio(n) <=> Cardinality(DOMAIN E) + Cardinality(N) <= CapacidadPaginas
  <2>1. /\ Cardinality(DOMAIN E) \in Nat
        /\ Cardinality(DOMAIN E) + Cardinality(paginasLibres(tabla)) = Marcos - PaginasAdms
    BY <1>3, <1>10, MarcosLibres
  <2>2. Cardinality(paginasLibres(tabla)) \in Nat
    BY LibresFinitas
  <2>3. hayEspacio(k) <=> Cardinality(paginasLibres(tabla)) >= k
    BY DEF hayEspacio
  <2>4. Marcos \in Nat /\ PaginasAdms \in Nat
    BY Constantes
  <2>5. hayEspacio(k) <=> Cardinality(DOMAIN E) + k <= Marcos - PaginasAdms
    BY ONLY <2>1, <2>2, <2>3, <2>4, k \in Nat
  <2> QED BY <2>5, <1>5, <1>8 DEF CapacidadPaginas
<1>12. ASSUME hayEspacio(n)
       PROVE  E2 = [x \in DOMAIN E \cup ({q} \X N) |-> IF x \in DOMAIN E THEN E[x] ELSE Espacio!EnBlanco]
  <2>1. Ubicadas(tabla, tabla', q, d, k)
    BY <1>1, <1>5, <1>12
  <2>2. PICK M : M = {q} \X N
    OBVIOUS
  <2>3. Libre \notin Pids
    BY Constantes
  <2>4. \A i \in Frames : tabla[i].pid \in Pids => tabla'[i] = tabla[i]
    BY <2>1, <2>3 DEF Ubicadas
  <2>5. \A i \in Frames : tabla[i].pid \notin Pids /\ tabla'[i].pid \in Pids =>
           tabla[i].pid = Libre /\ <<tabla'[i].pid, tabla'[i].numeroPag>> \in M
    BY <2>1, <2>2, <2>3, <1>7 DEF Ubicadas
  <2>6. \A x \in M : \E i \in Frames :
           tabla[i].pid \notin Pids /\ tabla'[i].pid \in Pids /\ x = <<tabla'[i].pid, tabla'[i].numeroPag>>
    <3>1. ASSUME NEW v \in N PROVE \E i \in Frames : tabla[i].pid = Libre /\ tabla'[i].pid = q /\ tabla'[i].numeroPag = v
      BY <3>1, <2>1, <1>7 DEF Ubicadas
    <3> QED BY <3>1, <2>2, <2>3
  <2>7. E2 = Ampliado(E, M)
    <3>1. PICK t, t2, mem, ini, ini2 : t = tabla /\ t2 = tabla' /\ mem = memoria /\ ini = iniciado /\ ini2 = iniciado'
      OBVIOUS
    <3>2. /\ Repartida(t, mem, ini) /\ Repartida(t2, mem, ini2)
          /\ E = EspacioDe(t, mem) /\ E2 = EspacioDe(t2, mem)
      BY <3>1, <1>3, <1>10
    <3>3. Dadas(t, t2, M)
      BY <3>1, <2>4, <2>5, <2>6 DEF Dadas
    <3> QED BY ONLY <3>2, <3>3, NuevasPaginas
  <2> QED BY <2>2, <2>7 DEF Ampliado
<1>13. ASSUME ~ hayEspacio(n) PROVE E2 = E
  BY <1>1, <1>10, <1>13
<1>14. Espacio!Responder(c, Espacio!Codigo(IF hayEspacio(n) THEN "OK" ELSE "SIN_ESPACIO"))
  BY <1>2 DEF Termina, Cod
<1>15. pedido[c].op \in {"INIT_PROGM", "ASIG_PAGES"}
  BY <1>2, <1>4
<1>16. IF Cardinality(DOMAIN espacio) + Cardinality(nuevas) <= CapacidadPaginas
         THEN /\ espacio' = [x \in DOMAIN espacio \cup ({p} \X nuevas) |->
                               IF x \in DOMAIN espacio THEN espacio[x] ELSE Espacio!EnBlanco]
              /\ Espacio!Responder(c, Espacio!Codigo("OK"))
         ELSE UNCHANGED espacio /\ Espacio!Responder(c, Espacio!Codigo("SIN_ESPACIO"))
  <2> HIDE DEF n, desde, nuevas
  <2>1. CASE hayEspacio(n)
    BY <2>1, <1>5, <1>6, <1>9, <1>11, <1>12, <1>14
  <2>2. CASE ~ hayEspacio(n)
    BY <2>2, <1>6, <1>9, <1>11, <1>13, <1>14
  <2> QED BY <2>1, <2>2
<1> QED BY ONLY <1>15, <1>16, MismoCardinal DEF Espacio!Asignar

(* A page is read shifted only when it entered the cache from its middle. *)
LEMMA RefSolicitarBytes ==
    ASSUME MemoriaInv, NEW c \in Conexiones, solicitarBytes(c)
    PROVE  Espacio!Leer(c) \/ LeerCorrida(c) \/ UNCHANGED <<espacio, iniciado, pedido, respuesta>>
<1> DEFINE p == pedido[c].pid
           n == pedido[c].pagina
           b == pedido[c].bytes
<1>1. /\ paso[c] = "SOLC_BYTES" /\ tabla' = tabla /\ memoria' = memoria /\ corridas' = corridas
  BY DEF solicitarBytes
<1>2. espacio' = espacio
  BY <1>1, MismoEspacio
<1>3. pedido[c].op = "SOLC_BYTES" /\ p \in Pids /\ b \in Lecturas
  BY <1>1, ElPedido DEF MemoriaInv
<1>4. CASE findInCache(p, n) = {}
  BY <1>2, <1>4 DEF solicitarBytes
<1>5. CASE findInCache(p, n) # {}
  <2>1. Termina(c, IF Desborda(b, b[2]) THEN Cod("OVERFLOW")
                   ELSE Leidos(bloqueCache[Min(findInCache(p, n))].contenido, b))
    BY <1>5 DEF solicitarBytes
  <2>2. PICK e \in findInCache(p, n) : e = Min(findInCache(p, n))
    <3>1. findInCache(p, n) \subseteq Nat
      BY Constantes DEF findInCache
    <3> QED BY <3>1, <1>5, MenorDe
  <2>3. e \in Entradas /\ bloqueCache[e].pid = p /\ bloqueCache[e].nroPagina = n
    BY <2>2 DEF findInCache
  <2>4. e \in EnCache(bloqueCache)
    BY <2>3, <1>3, Constantes DEF EnCache
  <2>5. PICK x, f : x = <<p, n>> /\ f = bloqueCache[e].contenido
    OBVIOUS
  <2>6. x \in DOMAIN espacio /\ (x \notin corridas => f = espacio[x])
    <3>1. LET y == <<bloqueCache[e].pid, bloqueCache[e].nroPagina>> IN
          y \in DOMAIN espacio /\ (y \notin corridas => bloqueCache[e].contenido = espacio[y])
      BY <2>4, Coherente DEF CacheCoherente
    <3> QED BY <3>1, <2>3, <2>5
  <2>7. PICK bb : bb = b
    OBVIOUS
  <2>8. Desborda(bb, bb[2]) <=> Espacio!Desborda(bb, bb[2])
    <3>1. bb[1] \in Nat /\ bb[2] \in Nat /\ MarcoSize \in Nat
      BY <2>7, <1>3, Constantes, MemoriaAssumption
    <3> QED BY <3>1 DEF Desborda, Espacio!Desborda
  <2>9. Termina(c, IF Desborda(bb, bb[2]) THEN Cod("OVERFLOW") ELSE Leidos(f, bb))
    BY <2>1, <2>2, <2>5, <2>7
  <2> HIDE DEF p, n, b
  <2>10. x = <<pedido[c].pid, pedido[c].pagina>> /\ bb = pedido[c].bytes
    BY <2>5, <2>7 DEF p, n, b
  <2>11. CASE Desborda(bb, bb[2]) \/ x \notin corridas
    <3>1. Espacio!Responder(c, IF Espacio!Desborda(bb, bb[2]) THEN Espacio!Codigo("OVERFLOW")
                               ELSE [codigo |-> "OK",
                                     datos |-> [i \in 1 .. bb[2] |-> espacio[x][bb[1] + i - 1]]])
      BY <2>6, <2>8, <2>9, <2>11 DEF Termina, Cod, Leidos
    <3> QED BY <3>1, <2>6, <2>10, <1>2, <1>3 DEF Espacio!Leer
  <2>12. CASE ~ Desborda(bb, bb[2]) /\ x \in corridas
    <3>1. f \in [EnMarco -> Datos]
      <4>1. bloqueCache \in Bloques
        BY SonTipos DEF MemoriaInv
      <4> QED BY <4>1, <2>3, <2>5 DEF Bloques
    <3>2. Espacio!Responder(c, Leidos(f, bb))
      BY <2>9, <2>12 DEF Termina
    <3> QED BY <3>1, <3>2, <2>10, <2>12, <1>1, <1>2, <1>3 DEF LeerCorrida, LaPaginaDe
  <2> QED BY <2>11, <2>12
<1> QED BY <1>4, <1>5

LEMMA RefSolicitarBytesMarco ==
    ASSUME MemoriaInv, NEW c \in Conexiones, solicitarBytes_marco(c)
    PROVE  Espacio!Leer(c)
<1> DEFINE pag == encontrarPagina(pedido[c].pid, pedido[c].pagina)
<1>1. /\ paso[c] = "solicitarBytes" /\ tabla' = tabla /\ memoria' = memoria
  BY DEF solicitarBytes_marco
<1>2. espacio' = espacio
  BY <1>1, MismoEspacio
<1>3. pedido[c].op = "SOLC_BYTES" /\ pedido[c].pid \in Pids /\ pedido[c].bytes \in Lecturas
  BY <1>1, ElPedido DEF MemoriaInv
<1>4. PICK x, b : x = <<pedido[c].pid, pedido[c].pagina>> /\ b = pedido[c].bytes
  OBVIOUS
<1>5. /\ x \in DOMAIN espacio <=> pag # {}
      /\ \A m \in pag : espacio[x] = Contenido(memoria, m)
  BY <1>3, <1>4, LaPagina DEF MemoriaInv
<1>6. Desborda(b, b[2]) <=> Espacio!Desborda(b, b[2])
  <2>1. b[1] \in Nat /\ b[2] \in Nat /\ MarcoSize \in Nat
    BY <1>3, <1>4, Constantes, MemoriaAssumption
  <2> QED BY <2>1 DEF Desborda, Espacio!Desborda
<1>7. \/ pag = {} /\ Termina(c, Cod("NOT_FOUND"))
      \/ pag # {} /\ Desborda(b, b[2]) /\ Termina(c, Cod("OVERFLOW"))
      \/ /\ pag # {} /\ ~Desborda(b, b[2])
         /\ \E m \in pag : Termina(c, Leidos([i \in EnMarco |-> memoria[Base(m) + i]], b))
  BY <1>4 DEF solicitarBytes_marco, NoEncontrada
<1>8. Espacio!Responder(c, IF x \notin DOMAIN espacio THEN Espacio!Codigo("NOT_FOUND")
                           ELSE IF Espacio!Desborda(b, b[2]) THEN Espacio!Codigo("OVERFLOW")
                           ELSE [codigo |-> "OK",
                                 datos |-> [i \in 1 .. b[2] |-> espacio[x][b[1] + i - 1]]])
  <2> HIDE DEF pag
  <2>1. CASE pag = {}
    BY <2>1, <1>5, <1>7 DEF Termina, Cod
  <2>2. CASE pag # {} /\ Desborda(b, b[2])
    BY <2>2, <1>5, <1>6, <1>7 DEF Termina, Cod
  <2>3. CASE pag # {} /\ ~Desborda(b, b[2])
    <3>1. PICK m \in pag : Termina(c, Leidos(Contenido(memoria, m), b))
      BY <2>3, <1>7 DEF Contenido
    <3>2. Espacio!Responder(c, Leidos(espacio[x], b))
      BY <3>1, <1>5 DEF Termina
    <3> QED BY <3>2, <2>3, <1>5, <1>6 DEF Leidos
  <2> QED BY <2>1, <2>2, <2>3
<1> HIDE DEF pag
<1> QED BY <1>2, <1>3, <1>4, <1>8 DEF Espacio!Leer

LEMMA RefAlmacenarBytesMarco ==
    ASSUME MemoriaInv, MemoriaInv', NEW c \in Conexiones, almacenarBytes_marco(c)
    PROVE  Espacio!Escribir(c)
<1> DEFINE pag == encontrarPagina(pedido[c].pid, pedido[c].pagina)
<1>1. /\ paso[c] = "almacenarBytes" /\ tabla' = tabla
  BY DEF almacenarBytes_marco
<1>2. /\ pedido[c].op = "ALMC_BYTES" /\ pedido[c].pid \in Pids /\ pedido[c].bytes \in Escrituras
      /\ Repartida(tabla, memoria, iniciado) /\ Repartida(tabla, memoria', iniciado')
  BY <1>1, ElPedido DEF MemoriaInv
<1>3. PICK x, b : x = <<pedido[c].pid, pedido[c].pagina>> /\ b = pedido[c].bytes
  OBVIOUS
<1>4. x \in DOMAIN espacio <=> pag # {}
  BY <1>2, <1>3, LaPagina
<1>5. b[1] \in EnMarco /\ b[2] \in Seq(Datos) /\ b[1] \in Int /\ Len(b[2]) \in Nat /\ MarcoSize \in Nat
  <2>1. b[1] \in EnMarco /\ b[2] \in Seq(Datos)
    BY <1>2, <1>3, MemoriaAssumption
  <2>2. EnMarco \subseteq Int /\ MarcoSize \in Nat
    BY Constantes DEF EnMarco
  <2>3. \A s \in Seq(Datos) : Len(s) \in Nat
    OBVIOUS
  <2> QED BY ONLY <2>1, <2>2, <2>3
<1>6. Desborda(b, Len(b[2])) <=> Espacio!Desborda(b, Len(b[2]))
  BY <1>5 DEF Desborda, Espacio!Desborda
<1>7. \/ pag = {} /\ Termina(c, Cod("NOT_FOUND")) /\ memoria' = memoria
      \/ pag # {} /\ Desborda(b, Len(b[2])) /\ Termina(c, Cod("OVERFLOW")) /\ memoria' = memoria
      \/ /\ pag # {} /\ ~Desborda(b, Len(b[2]))
         /\ Termina(c, Cod("OK"))
         /\ \E m \in pag : memoria' = memcpy(Base(m) + b[1], b[2])
  BY <1>3 DEF almacenarBytes_marco, NoEncontrada
<1>8. ASSUME pag # {}, ~Desborda(b, Len(b[2]))
      PROVE  espacio' = [espacio EXCEPT ![x] =
                           [i \in 0 .. MarcoSize - 1 |->
                              IF i - b[1] + 1 \in DOMAIN b[2] THEN b[2][i - b[1] + 1] ELSE @[i]]]
  <2>1. PICK m \in pag : memoria' = memcpy(Base(m) + b[1], b[2])
    BY <1>7, <1>8
  <2>2. m \in Frames /\ tabla[m].pid = pedido[c].pid /\ tabla[m].numeroPag = pedido[c].pagina /\ m >= PaginasAdms
    BY <1>2, <2>1, Encontrada
  <2>3. b[1] + Len(b[2]) <= MarcoSize
    BY <1>5, <1>8 DEF Desborda
  <2>4. memoria \in [Bytes -> Datos]
    BY <1>2 DEF Repartida
  <2>5. \A i \in Frames : i >= PaginasAdms => \A j \in EnMarco :
           memoria'[Base(i) + j] = IF i = m /\ j - b[1] + 1 \in DOMAIN b[2] THEN b[2][j - b[1] + 1]
                                                                          ELSE memoria[Base(i) + j]
    <3>1. PICK o \in EnMarco, s \in Seq(Datos) : o = b[1] /\ s = b[2]
      BY <1>5
    <3>2. memoria' = memcpy(Base(m) + o, s) /\ o + Len(s) <= MarcoSize
      BY <3>1, <2>1, <2>3
    <3> QED BY <3>1, <3>2, <2>2, <2>4, Escritos
  <2>6. PICK E, E2, mem2 : E = espacio /\ E2 = espacio' /\ mem2 = memoria'
    OBVIOUS
  <2>7. E = EspacioDe(tabla, memoria) /\ E2 = EspacioDe(tabla, mem2) /\ Repartida(tabla, mem2, iniciado')
    BY <2>6, <1>1, <1>2, EspacioEs
  <2>8. \A i \in Frames : tabla[i].pid \in Pids => i >= PaginasAdms
    <3>1. \A i \in Frames : tabla[i].pid \in Pids => ~(i < PaginasAdms)
      BY <1>2, Constantes DEF Repartida
    <3> QED BY <3>1, Constantes
  <2>9. \A i \in Frames : tabla[i].pid \in Pids /\ i # m => Contenido(mem2, i) = Contenido(memoria, i)
    BY <2>5, <2>6, <2>8 DEF Contenido
  <2>10. tabla[m].pid \in Pids /\ x = <<tabla[m].pid, tabla[m].numeroPag>>
    BY <2>2, <1>2, <1>3
  <2>11. E2 = [E EXCEPT ![x] = Contenido(mem2, m)] /\ E[x] = Contenido(memoria, m) /\ x \in DOMAIN E
    BY <2>2, <2>7, <2>9, <2>10, <1>2, PaginaEscrita
  <2>12. Contenido(mem2, m) = [i \in 0 .. MarcoSize - 1 |->
                                 IF i - b[1] + 1 \in DOMAIN b[2] THEN b[2][i - b[1] + 1] ELSE E[x][i]]
    <3>1. E[x] = [j \in EnMarco |-> memoria[Base(m) + j]]
      BY <2>11 DEF Contenido
    <3>2. \A j \in EnMarco : mem2[Base(m) + j] = IF j - b[1] + 1 \in DOMAIN b[2] THEN b[2][j - b[1] + 1] ELSE E[x][j]
      BY <3>1, <2>2, <2>5, <2>6
    <3> QED BY <3>2 DEF Contenido, EnMarco
  <2> QED BY <2>6, <2>11, <2>12
<1>9. IF x \in DOMAIN espacio /\ ~Espacio!Desborda(b, Len(b[2]))
        THEN /\ espacio' = [espacio EXCEPT ![x] =
                              [i \in 0 .. MarcoSize - 1 |->
                                 IF i - b[1] + 1 \in DOMAIN b[2] THEN b[2][i - b[1] + 1] ELSE @[i]]]
             /\ Espacio!Responder(c, Espacio!Codigo("OK"))
        ELSE /\ Espacio!Responder(c, Espacio!Codigo(IF x \in DOMAIN espacio THEN "OVERFLOW" ELSE "NOT_FOUND"))
             /\ UNCHANGED espacio
  <2> HIDE DEF pag
  <2>1. CASE pag = {}
    BY <2>1, <1>1, <1>4, <1>7, MismoEspacio DEF Termina, Cod
  <2>2. CASE pag # {} /\ Desborda(b, Len(b[2]))
    BY <2>2, <1>1, <1>4, <1>6, <1>7, MismoEspacio DEF Termina, Cod
  <2>3. CASE pag # {} /\ ~Desborda(b, Len(b[2]))
    BY <2>3, <1>4, <1>6, <1>7, <1>8 DEF Termina, Cod
  <2> QED BY <2>1, <2>2, <2>3
<1> HIDE DEF pag
<1> QED BY <1>2, <1>3, <1>9 DEF Espacio!Escribir

(* Frames F, which hold the pages of X, are given back. *)
LEMMA RefBorrar ==
    ASSUME MemoriaInv, MemoriaInv', NEW F, F \subseteq Frames, \A i \in F : tabla[i].pid \in Pids,
           Borrar_marcos(F), NEW X,
           \A i \in Frames : tabla[i].pid \in Pids => (i \in F <=> <<tabla[i].pid, tabla[i].numeroPag>> \in X)
    PROVE  espacio' = Reducido(espacio, X)
<1>1. Repartida(tabla, memoria, iniciado) /\ Repartida(tabla', memoria', iniciado')
  BY DEF MemoriaInv
<1>2. /\ \A i \in Frames : tabla'[i] = IF i \in F THEN [pid |-> Libre, numeroPag |-> 0] ELSE tabla[i]
      /\ \A i \in Frames : i >= PaginasAdms =>
            \A j \in EnMarco : memoria'[Base(i) + j] = IF i \in F THEN Cero ELSE memoria[Base(i) + j]
  BY <1>1, Borrados
<1>3. PICK t, t2, mem, mem2, ini, ini2, E, E2 :
         /\ t = tabla /\ t2 = tabla' /\ mem = memoria /\ mem2 = memoria' /\ ini = iniciado /\ ini2 = iniciado'
         /\ E = espacio /\ E2 = espacio'
  OBVIOUS
<1>4. /\ Repartida(t, mem, ini) /\ Repartida(t2, mem2, ini2)
      /\ E = EspacioDe(t, mem) /\ E2 = EspacioDe(t2, mem2)
  BY <1>1, <1>3, EspacioEs
<1>5. Libre \notin Pids
  BY Constantes
<1>6. \A i \in Frames : t[i].pid \in Pids => i >= PaginasAdms
  <2>1. \A i \in Frames : t[i].pid \in Pids => ~(i < PaginasAdms)
    BY <1>4, Constantes DEF Repartida
  <2>2. \A i \in Frames : i \in Nat
    BY Constantes
  <2>3. PaginasAdms \in Nat
    BY Constantes
  <2> QED BY ONLY <2>1, <2>2, <2>3
<1>7. ASSUME NEW i \in Frames, t[i].pid \in Pids
      PROVE  IF <<t[i].pid, t[i].numeroPag>> \in X THEN t2[i].pid \notin Pids
             ELSE t2[i] = t[i] /\ Contenido(mem2, i) = Contenido(mem, i)
  BY <1>2, <1>3, <1>5, <1>6, <1>7 DEF Contenido
<1>8. \A i \in Frames : t[i].pid \notin Pids => t2[i].pid \notin Pids
  BY <1>2, <1>3, <1>5
<1>9. E2 = Reducido(E, X)
  BY ONLY <1>4, <1>7, <1>8, QuedanPaginas
<1> QED BY <1>3, <1>9

LEMMA RefFinalizarProgramaMarcos ==
    ASSUME MemoriaInv, MemoriaInv', NEW c \in Conexiones, finalizarPrograma_marcos(c)
    PROVE  Espacio!Finalizar(c)
<1>1. /\ paso[c] = "finalizarPrograma" /\ Termina(c, Cod("OK")) /\ Borrar_marcos(MarcosDe(tabla, pedido[c].pid))
  BY DEF finalizarPrograma_marcos
<1>2. pedido[c].op = "FINZ_PROGM" /\ pedido[c].pid \in Pids /\ Repartida(tabla, memoria, iniciado)
  BY <1>1, ElPedido DEF MemoriaInv
<1>3. PICK F, X : F = MarcosDe(tabla, pedido[c].pid) /\ X = Espacio!De(espacio, pedido[c].pid)
  OBVIOUS
<1>4. F = {i \in Frames : tabla[i].pid = pedido[c].pid}
  BY <1>3 DEF MarcosDe
<1>5. ASSUME NEW i \in Frames, tabla[i].pid \in Pids
      PROVE  i \in F <=> <<tabla[i].pid, tabla[i].numeroPag>> \in X
  <2>1. PICK E : E = espacio
    OBVIOUS
  <2>2. E = EspacioDe(tabla, memoria)
    BY <2>1, EspacioEs
  <2>3. \A k \in Frames : tabla[k].pid \in Pids => <<tabla[k].pid, tabla[k].numeroPag>> \in DOMAIN E
    BY <2>2, <1>2, DelEspacio
  <2>4. X = {x \in DOMAIN E : x[1] = pedido[c].pid}
    BY <2>1, <1>3 DEF Espacio!De
  <2> QED BY <2>3, <2>4, <1>4, <1>5
<1>6. F \subseteq Frames /\ \A i \in F : tabla[i].pid \in Pids
  BY <1>2, <1>4
<1>7. Borrar_marcos(F)
  BY <1>1, <1>3
<1>8. espacio' = Reducido(espacio, X)
  BY <1>5, <1>6, <1>7, RefBorrar
<1> QED BY <1>1, <1>2, <1>3, <1>8 DEF Espacio!Finalizar, Espacio!Quitar, Reducido, Termina, Cod

LEMMA RefLiberarPaginaMarco ==
    ASSUME MemoriaInv, MemoriaInv', NEW c \in Conexiones, liberarPagina_marco(c)
    PROVE  Espacio!Liberar(c)
<1>1. PICK F, x : F = encontrarPagina(pedido[c].pid, pedido[c].pagina) /\ x = <<pedido[c].pid, pedido[c].pagina>>
  OBVIOUS
<1>2. /\ paso[c] = "liberarPagina" /\ Termina(c, Cod(IF F = {} THEN "NOT_FOUND" ELSE "OK")) /\ Borrar_marcos(F)
  BY <1>1 DEF liberarPagina_marco
<1>3. pedido[c].op = "LIBERAR_PAG" /\ pedido[c].pid \in Pids /\ Repartida(tabla, memoria, iniciado)
  BY <1>2, ElPedido DEF MemoriaInv
<1>4. F = {i \in Frames : tabla[i].pid = pedido[c].pid /\ tabla[i].numeroPag = pedido[c].pagina}
  BY <1>1, <1>3, Encontrada
<1>5. x \in DOMAIN espacio <=> F # {}
  BY <1>1, <1>3, LaPagina
<1>6. PICK X : X = {x}
  OBVIOUS
<1>7. ASSUME NEW i \in Frames, tabla[i].pid \in Pids
      PROVE  i \in F <=> <<tabla[i].pid, tabla[i].numeroPag>> \in X
  BY <1>1, <1>4, <1>6
<1>8. F \subseteq Frames /\ \A i \in F : tabla[i].pid \in Pids
  BY <1>3, <1>4
<1>9. espacio' = Reducido(espacio, X)
  BY <1>2, <1>7, <1>8, RefBorrar
<1>10. Espacio!Responder(c, Espacio!Codigo(IF x \in DOMAIN espacio THEN "OK" ELSE "NOT_FOUND"))
  BY <1>2, <1>5 DEF Termina, Cod
<1> QED BY <1>1, <1>3, <1>6, <1>9, <1>10 DEF Espacio!Liberar, Espacio!Quitar, Reducido

LEMMA RefInicio == Init => Espacio!Init
<1> SUFFICES ASSUME Init PROVE Espacio!Init
  OBVIOUS
<1>1. /\ tabla = [i \in Frames |-> [pid |-> IF i < PaginasAdms THEN Administrativa ELSE Libre, numeroPag |-> 0]]
      /\ pedido = [c \in Conexiones |-> Espacio!Ninguno] /\ respuesta = Espacio!Ninguno /\ iniciado = {}
  BY DEF Init
<1>2. \A i \in Frames : tabla[i].pid \notin Pids
  BY <1>1, Constantes
<1>3. PICK E : E = espacio
  OBVIOUS
<1>4. E = EspacioDe(tabla, memoria) /\ Repartida(tabla, memoria, iniciado)
  BY <1>3, EspacioEs, InicioInv DEF MemoriaInv
<1>5. /\ E = [x \in DOMAIN E |-> E[x]]
      /\ \A x : x \in DOMAIN E <=> \E i \in Frames : tabla[i].pid \in Pids /\ x = <<tabla[i].pid, tabla[i].numeroPag>>
  BY <1>4, DelEspacio
<1>6. DOMAIN E = {}
  BY <1>2, <1>5
<1>7. E = [x \in {} |-> Espacio!EnBlanco]
  BY <1>5, <1>6
<1> QED BY <1>1, <1>3, <1>7 DEF Espacio!Init

(* A page that enters the cache is shifted only if it enters from its      *)
(* middle.                                                                 *)
LEMMA EntraCorrida ==
    ASSUME NEW p, NEW n, NEW desde, NEW mem, cacheMiss(p, n, desde, mem)
    PROVE  /\ corridas' \subseteq corridas \cup {<<p, n>>}
           /\ desde % MarcoSize = 0 => corridas' \subseteq corridas
<1>1. CASE UNCHANGED cache
  BY <1>1 DEF cache
<1>2. CASE ~ UNCHANGED cache
  <2>1. PICK quedan : corridas' = (corridas \cap quedan)
                                     \cup (IF desde % MarcoSize = 0 THEN {} ELSE {<<p, n>>})
    BY <1>2 DEF cacheMiss
  <2> QED BY <2>1
<1> QED BY <1>1, <1>2

(* What a request adds to the pages that are cached shifted. *)
LEMMA CorridasDespues ==
    ASSUME MemoriaInv, NEW c \in Conexiones, Atender(c)
    PROVE  \/ corridas' \subseteq corridas
           \/ /\ almacenarBytes_marco(c) /\ pedido[c].bytes[1] # 0
              /\ corridas' \subseteq corridas \cup {LaPaginaDe(c)}
<1>1. Repartida(tabla, memoria, iniciado)
  BY DEF MemoriaInv
<1>2. CASE solicitarBytes_marco(c)
  <2>1. CASE UNCHANGED cache
    BY <2>1 DEF cache
  <2>2. CASE ~ UNCHANGED cache
    <3>1. PICK m \in encontrarPagina(pedido[c].pid, pedido[c].pagina) :
             cacheMiss(pedido[c].pid, pedido[c].pagina, Base(m), memoria)
      BY <1>2, <2>2 DEF solicitarBytes_marco
    <3>2. pedido[c].pid \in Pids
      BY <1>2, ElPedido DEF MemoriaInv, solicitarBytes_marco
    <3>3. m \in Frames /\ m >= PaginasAdms
      BY <1>1, <3>1, <3>2, Encontrada
    <3>4. PICK desde : desde = Base(m)
      OBVIOUS
    <3>5. desde % MarcoSize = 0
      <4>1. 0 \in EnMarco
        BY Constantes DEF EnMarco
      <4>2. Base(m) + 0 = Base(m)
        BY <4>1, <3>3, ByteDeMarco
      <4>3. (Base(m) + 0) % MarcoSize = 0
        BY <4>1, <3>3, Desplazamiento
      <4> QED BY <4>2, <4>3, <3>4
    <3> QED BY <3>1, <3>4, <3>5, EntraCorrida
  <2> QED BY <2>1, <2>2
<1>3. CASE almacenarBytes_marco(c)
  <2>1. CASE corridas' = corridas
    BY <2>1
  <2>2. CASE corridas' # corridas
    <3>1. PICK m \in encontrarPagina(pedido[c].pid, pedido[c].pagina) :
             cacheMiss(pedido[c].pid, pedido[c].pagina, Base(m) + pedido[c].bytes[1], memoria')
      BY <1>3, <2>2 DEF almacenarBytes_marco, cache
    <3>2. pedido[c].pid \in Pids /\ pedido[c].bytes \in Escrituras
      BY <1>3, ElPedido DEF MemoriaInv, almacenarBytes_marco
    <3>3. m \in Frames /\ m >= PaginasAdms
      BY <1>1, <3>1, <3>2, Encontrada
    <3>4. PICK o \in EnMarco : o = pedido[c].bytes[1]
      BY <3>2, MemoriaAssumption
    <3>5. PICK desde, mem : desde = Base(m) + o /\ mem = memoria'
      OBVIOUS
    <3>6. cacheMiss(pedido[c].pid, pedido[c].pagina, desde, mem)
      BY <3>1, <3>4, <3>5
    <3>7. desde % MarcoSize = o
      BY <3>3, <3>5, Desplazamiento
    <3> QED BY <1>3, <3>4, <3>6, <3>7, EntraCorrida DEF LaPaginaDe
  <2> QED BY <2>1, <2>2
<1>4. CASE ~ solicitarBytes_marco(c) /\ ~ almacenarBytes_marco(c)
  BY <1>4 DEF Atender, asignar, solicitarBytes, almacenarBytes, finalizarPrograma, finalizarPrograma_marcos,
     liberarPagina, liberarPagina_marco, limpiarBloques, cache
<1> QED BY <1>2, <1>3, <1>4

(* Every step of Memoria is a step of the page space, or none. *)
LEMMA RefPaso ==
    ASSUME MemoriaInv, MemoriaInv', [Next]_vars
    PROVE  PasoDelEspacio
<1> DEFINE quieto == UNCHANGED <<espacio, iniciado, pedido, respuesta>>
<1>1. ASSUME NEW c \in Conexiones, NEW r \in Espacio!Pedidos, Pedir(c, r) PROVE PasoDelEspacio
  <2>1. Espacio!Next
    BY <1>1, RefPedir DEF Espacio!Next
  <2>2. corridas' = corridas
    BY <1>1 DEF Pedir, cache
  <2> QED BY <2>1, <2>2 DEF PasoDelEspacio
<1>2. ASSUME NEW c \in Conexiones, Atender(c) PROVE PasoDelEspacio
  <2>1. CASE almacenarBytes_marco(c)
    <3>1. Espacio!Escribir(c)
      BY <2>1, RefAlmacenarBytesMarco
    <3>2. Espacio!Next
      BY <3>1 DEF Espacio!Next
    <3>3. \/ corridas' \subseteq corridas
          \/ pedido[c].bytes[1] # 0 /\ corridas' \subseteq corridas \cup {LaPaginaDe(c)}
      BY <1>2, CorridasDespues
    <3> QED BY <3>1, <3>2, <3>3 DEF PasoDelEspacio, EscribirCorrida
  <2>2. CASE ~ almacenarBytes_marco(c)
    <3>1. corridas' \subseteq corridas
      BY <1>2, <2>2, CorridasDespues
    <3>2. Espacio!Next \/ LeerCorrida(c) \/ quieto
      <4>1. CASE asignar(c)
        BY <4>1, RefAsignar DEF Espacio!Next
      <4>2. CASE solicitarBytes(c)
        BY <4>2, RefSolicitarBytes DEF Espacio!Next
      <4>3. CASE solicitarBytes_marco(c)
        BY <4>3, RefSolicitarBytesMarco DEF Espacio!Next
      <4>4. CASE almacenarBytes(c) \/ finalizarPrograma(c) \/ liberarPagina(c)
        <5>1. tabla' = tabla /\ memoria' = memoria /\ pedido' = pedido /\ respuesta' = respuesta /\ iniciado' = iniciado
          BY <4>4 DEF almacenarBytes, finalizarPrograma, liberarPagina
        <5> QED BY <5>1, MismoEspacio
      <4>5. CASE finalizarPrograma_marcos(c)
        BY <4>5, RefFinalizarProgramaMarcos DEF Espacio!Next
      <4>6. CASE liberarPagina_marco(c)
        BY <4>6, RefLiberarPaginaMarco DEF Espacio!Next
      <4> QED BY <1>2, <2>2, <4>1, <4>2, <4>3, <4>4, <4>5, <4>6 DEF Atender
    <3> QED BY <3>1, <3>2 DEF PasoDelEspacio
  <2> QED BY <2>1, <2>2
<1>3. CASE flush \/ Tic \/ UNCHANGED vars
  <2>1. tabla' = tabla /\ memoria' = memoria /\ pedido' = pedido /\ respuesta' = respuesta /\ iniciado' = iniciado
    BY <1>3 DEF flush, Tic, vars
  <2>2. corridas' \subseteq corridas
    BY <1>3 DEF flush, Tic, vars, cache
  <2> QED BY <2>1, <2>2, MismoEspacio DEF PasoDelEspacio
<1> QED BY <1>1, <1>2, <1>3 DEF Next

(* The cache and the frames give the replies of the page space, each       *)
(* request at one instant, although Memoria.c:720-983 serves it in two     *)
(* critical sections and whatever is written where; only the bytes read    *)
(* from a page that is cached since a write past its first byte, at        *)
(* Memoria.c:847, may be others.                                           *)
THEOREM FramesImplementPages == Spec => ImplementaEspacio
<1>1. Init => Espacio!Init /\ corridas = {}
  BY RefInicio DEF Init
<1>2. MemoriaInv /\ MemoriaInv' /\ [Next]_vars =>
         [PasoDelEspacio]_<<espacio, iniciado, pedido, respuesta, corridas>>
  BY RefPaso
<1> QED BY <1>1, <1>2, MemoriaInvariante, PTL DEF Spec, ImplementaEspacio
=============================================================================
