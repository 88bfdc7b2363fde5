---------------------------- MODULE CapaFS_proofs ----------------------------
(***************************************************************************)
(* Proofs about the Kernel's file layer, for any programs, files and       *)
(* sizes of the tables: the types of the state, the counts of open, whom a *)
(* descriptor refers to, what brings the Kernel down, and that a file is   *)
(* deleted only when one descriptor refers to it.                          *)
(*                                                                         *)
(* The invariant is TablasInv.  What closes a file and what ends a process *)
(* give entries back the same way (Soltar), so the effect of one is proved *)
(* once, for any tables that are coherent with the counts (Coherente,      *)
(* SueltaCoherente); the end of a process follows the recursion of         *)
(* Soltadas from entry to entry (Avance, TodoElAvance).  What a call that  *)
(* fell had found in the tables is a second invariant, CausaInv, which     *)
(* rests on TablasInv: the counts and the descriptors it found are right.  *)
(***************************************************************************)
EXTENDS CapaFS, FiniteSetTheorems, WellFoundedInduction, TLAPS

-----------------------------------------------------------------------------
(* Lists. *)

(* A set of naturals that is not empty has a least element, which Min      *)
(* chooses.                                                                *)
LEMMA MenorDe ==
    ASSUME NEW T, T \subseteq Nat, T # {}
    PROVE  Min(T) \in T /\ \A y \in T : Min(T) <= y
<1> DEFINE R == {ss \in Nat \X Nat : ss[1] < ss[2]}
<1>1. IsWellFoundedOn(R, Nat)
  BY NatLessThanWellFounded DEF OpToRel
<1> HIDE DEF R
<1>2. \E x \in T : \A y \in T : ~ (<<y, x>> \in R)
  BY <1>1, WFMin
<1>3. ASSUME NEW x \in Nat, NEW y \in Nat, ~ (<<y, x>> \in R) PROVE x <= y
  BY <1>3 DEF R
<1>4. \E x \in T : \A y \in T : x <= y
  BY <1>2, <1>3
<1> QED BY <1>4 DEF Min

LEMMA LaPrimera ==
    ASSUME NEW I, I \subseteq Nat \ {0}
    PROVE  /\ Primera(I) \in Nat
           /\ Primera(I) = 0 <=> I = {}
           /\ Primera(I) > 0 => Primera(I) \in I
<1>1. CASE I = {}
  BY <1>1 DEF Primera
<1>2. CASE I # {}
  <2>1. I \subseteq Nat
    OBVIOUS
  <2>2. Min(I) \in I
    BY <2>1, <1>2, MenorDe
  <2> QED BY <2>2, <1>2 DEF Primera
<1> QED BY <1>1, <1>2

(* What the search of an entry finds. *)
LEMMA Hallada ==
    ASSUME NEW G, NEW tabla \in Seq(G), NEW V, NEW S
    PROVE  LET i == Hallar(tabla, V, S) IN
           /\ i \in Nat \cup {-1}
           /\ i = 0 => \A j \in DOMAIN tabla : tabla[j] \in V /\ tabla[j] \notin S
           /\ i > 0 => i \in DOMAIN tabla /\ tabla[i] \in V /\ tabla[i] \in S
           /\ i = -1 => \E j \in DOMAIN tabla : tabla[j] \notin V
<1> DEFINE I == {j \in DOMAIN tabla : tabla[j] \notin V \/ tabla[j] \in S}
           k == Primera(I)
<1>1. DOMAIN tabla = 1 .. Len(tabla) /\ Len(tabla) \in Nat
  OBVIOUS
<1>2. I \subseteq Nat \ {0}
  BY <1>1
<1>3. k \in Nat /\ (k = 0 <=> I = {}) /\ (k > 0 => k \in I)
  BY <1>2, LaPrimera
<1>4. Hallar(tabla, V, S) = IF k > 0 /\ tabla[k] \notin V THEN -1 ELSE k
  BY DEF Hallar
<1>5. k > 0 => k \in DOMAIN tabla /\ (tabla[k] \notin V \/ tabla[k] \in S)
  BY <1>3
<1>6. k = 0 => \A j \in DOMAIN tabla : tabla[j] \in V /\ tabla[j] \notin S
  BY <1>3
<1> HIDE DEF k, I
<1>7. CASE k = 0
  BY <1>4, <1>6, <1>7
<1>8. CASE k > 0 /\ tabla[k] \notin V
  <2>1. Hallar(tabla, V, S) = -1
    BY <1>4, <1>8
  <2> QED BY <2>1, <1>5, <1>8
<1>9. CASE k > 0 /\ tabla[k] \in V
  <2>1. Hallar(tabla, V, S) = k
    BY <1>4, <1>9
  <2> QED BY <2>1, <1>3, <1>5, <1>9
<1> QED BY <1>3, <1>7, <1>8, <1>9

LEMMA Unidas ==
    ASSUME NEW S, NEW a \in Seq(S), NEW b \in Seq(S)
    PROVE  /\ a \o b \in Seq(S) /\ Len(a \o b) = Len(a) + Len(b)
           /\ DOMAIN (a \o b) = 1 .. Len(a) + Len(b)
           /\ \A i \in 1 .. Len(a) + Len(b) :
                 (a \o b)[i] = IF i <= Len(a) THEN a[i] ELSE b[i - Len(a)]
<1>1. a \o b \in Seq(S)
  OBVIOUS
<1>2. Len(a \o b) = Len(a) + Len(b)
  OBVIOUS
<1>3. DOMAIN (a \o b) = 1 .. Len(a \o b)
  BY <1>1
<1>4. \A i \in 1 .. Len(a) + Len(b) : (a \o b)[i] = IF i <= Len(a) THEN a[i] ELSE b[i - Len(a)]
  OBVIOUS
<1> QED BY <1>1, <1>2, <1>3, <1>4

LEMMA Quitado ==
    ASSUME NEW S, NEW s \in Seq(S), NEW e \in 1 .. Len(s)
    PROVE  /\ RemoveAt(s, e) \in Seq(S)
           /\ Len(RemoveAt(s, e)) = Len(s) - 1
           /\ DOMAIN RemoveAt(s, e) = 1 .. Len(s) - 1
           /\ \A i \in 1 .. Len(s) - 1 : RemoveAt(s, e)[i] = IF i < e THEN s[i] ELSE s[i + 1]
<1> DEFINE a == SubSeq(s, 1, e - 1)
           b == SubSeq(s, e + 1, Len(s))
<1>1. RemoveAt(s, e) = a \o b
  BY DEF RemoveAt
<1>2. a \in Seq(S) /\ Len(a) = e - 1 /\ \A i \in 1 .. e - 1 : a[i] = s[i]
  OBVIOUS
<1>3. b \in Seq(S) /\ Len(b) = Len(s) - e /\ \A i \in 1 .. Len(s) - e : b[i] = s[i + e]
  OBVIOUS
<1> HIDE DEF a, b
<1>4. /\ a \o b \in Seq(S) /\ Len(a \o b) = Len(s) - 1 /\ DOMAIN (a \o b) = 1 .. Len(s) - 1
  <2>1. a \o b \in Seq(S)
    BY <1>2, <1>3, Unidas
  <2>2. Len(a \o b) = Len(a) + Len(b)
    BY <1>2, <1>3, Unidas
  <2>3. Len(a \o b) = Len(s) - 1
    BY <2>2, <1>2, <1>3
  <2>4. DOMAIN (a \o b) = 1 .. Len(a \o b)
    BY <2>1
  <2> QED BY <2>1, <2>3, <2>4
<1>5. ASSUME NEW i \in 1 .. Len(s) - 1 PROVE (a \o b)[i] = IF i < e THEN s[i] ELSE s[i + 1]
  <2>1. CASE i < e
    <3>1. (a \o b)[i] = a[i]
      BY <2>1, <1>2, <1>3
    <3> QED BY <3>1, <2>1, <1>2
  <2>2. CASE ~(i < e)
    <3>1. (a \o b)[i] = b[i - Len(a)]
      BY <2>2, <1>2, <1>3
    <3>2. i - Len(a) = i - e + 1 /\ i - e + 1 \in 1 .. Len(s) - e /\ i - e + 1 + e = i + 1
      BY <2>2, <1>2
    <3>3. b[i - e + 1] = s[i + 1]
      BY <3>2, <1>3
    <3> QED BY <3>1, <3>2, <3>3, <2>2
  <2> QED BY <2>1, <2>2
<1> QED BY <1>1, <1>4, <1>5

LEMMA Agregado ==
    ASSUME NEW S, NEW s \in Seq(S), NEW x \in S
    PROVE  /\ Append(s, x) \in Seq(S)
           /\ Len(Append(s, x)) = Len(s) + 1 /\ Len(s) \in Nat
           /\ DOMAIN s = 1 .. Len(s) /\ DOMAIN Append(s, x) = 1 .. Len(s) + 1
           /\ \A i \in 1 .. Len(s) : Append(s, x)[i] = s[i]
           /\ Append(s, x)[Len(s) + 1] = x
  OBVIOUS

-----------------------------------------------------------------------------
(* The invariant. *)

Registro ==
    [fd : FDs, flags : Banderas, globalFD : GlobalFD, cursor : Posiciones, archivo : Archivos]

Listas ==
    /\ tablaArchivosPorProceso \in [Pids -> Seq(Registro)]
    /\ \A p \in Pids : Len(tablaArchivosPorProceso[p]) <= MaxAbiertos
    /\ \A p \in Pids : \A i \in DOMAIN tablaArchivosPorProceso[p] :
          tablaArchivosPorProceso[p][i].globalFD < ultimoGlobalFD
    /\ ultimoGlobalFD \in 0 .. MaxGlobalFD

(* An entry that was not destroyed is in the list, its count is how many   *)
(* descriptors refer to it, and it is the only one of a file that exists.  *)
EnLaLista == \A g \in vivas : \E j \in DOMAIN tablaArchivosGlobales : tablaArchivosGlobales[j] = g
Contadas ==
    kernel = "corre" => \A g \in vivas :
        /\ IsFiniteSet(Referencias(g))
        /\ open[g] > 0 /\ open[g] = Cardinality(Referencias(g))
UnaPorArchivo ==
    \A g \in vivas : file[g] \in archivosFS /\ \A h \in vivas : file[g] = file[h] => g = h

(* A descriptor is its place in the list, until one is closed out of turn. *)
Correlativos ==
    \A p \in Pids \ desordenados : \A i \in DOMAIN tablaArchivosPorProceso[p] :
        tablaArchivosPorProceso[p][i].fd = FD_START + (i - 1)

(* An entry some descriptor refers to goes only by borrarArchivo.          *)
Conocidas == \A x \in Entradas : Entrada(x).globalFD \in vivas \cup borradas

(* Without a second opening the list has no pointer twice nor a dangling   *)
(* one.                                                                    *)
SinRepetir(tabla, V) ==
    /\ \A j \in DOMAIN tabla : tabla[j] \in V
    /\ \A j, k \in DOMAIN tabla : tabla[j] = tabla[k] => j = k
ListaLimpia == compartidas = {} => SinRepetir(tablaArchivosGlobales, vivas)

(* Two of the ways to fall are known from the tables; the third, from the  *)
(* call that fell (CausaInv).                                              *)
CaidaDeTablas ==
    /\ kernel = "NULL" => \E x \in Entradas : Entrada(x).globalFD \in borradas
    /\ kernel = "indefinido" => compartidas # {}

(* TypeOK but for causa. *)
Tipos ==
    /\ \A x \in Entradas :
          Entrada(x) \in [fd : FDs, flags : Banderas, globalFD : GlobalFD, cursor : Posiciones,
                         archivo : Archivos]
    /\ conLista \subseteq Pids
    /\ tablaArchivosGlobales \in Seq(GlobalFD)
    /\ vivas \subseteq 0 .. ultimoGlobalFD - 1
    /\ file \in [GlobalFD -> Archivos]
    /\ open \in [GlobalFD -> Nat]
    /\ archivosFS \subseteq Archivos
    /\ estado \in [Pids -> {"vivo", "error", "fin"}]
    /\ capaFSMutexTomado \in BOOLEAN /\ borradas \cup compartidas \subseteq GlobalFD
    /\ desordenados \subseteq Pids
    /\ kernel \in {"corre", "NULL", "indefinido", "basura"}

TablasInv ==
    /\ Tipos /\ Listas
    /\ EnLaLista /\ Contadas /\ UnaPorArchivo
    /\ DescriptorFiel /\ Correlativos /\ Conocidas
    /\ ListaLimpia /\ CaidaDeTablas

(* Entradas without its bound. *)
LEMMA SonEntradas ==
    ASSUME Listas
    PROVE  \A x : x \in Entradas <=>
              \E p \in Pids : \E i \in DOMAIN tablaArchivosPorProceso[p] : x = <<p, i>>
<1>1. ASSUME NEW p \in Pids
      PROVE  /\ DOMAIN tablaArchivosPorProceso[p] = 1 .. Len(tablaArchivosPorProceso[p])
             /\ Len(tablaArchivosPorProceso[p]) \in Nat
             /\ Len(tablaArchivosPorProceso[p]) <= MaxAbiertos
             /\ MaxAbiertos \in Nat
  BY CapaFSAssumption DEF Listas
<1>2. ASSUME NEW p \in Pids, NEW i \in DOMAIN tablaArchivosPorProceso[p]
      PROVE  <<p, i>> \in Entradas
  <2>1. i \in 1 .. MaxAbiertos
    BY <1>1
  <2> QED BY <2>1 DEF Entradas
<1>3. ASSUME NEW x \in Entradas
      PROVE  \E p \in Pids : \E i \in DOMAIN tablaArchivosPorProceso[p] : x = <<p, i>>
  <2>1. x \in Pids \X (1 .. MaxAbiertos) /\ x[2] \in DOMAIN tablaArchivosPorProceso[x[1]]
    BY DEF Entradas
  <2>2. x = <<x[1], x[2]>> /\ x[1] \in Pids
    BY <2>1
  <2> QED BY <2>1, <2>2
<1> QED BY <1>2, <1>3

LEMMA SonReferencias ==
    ASSUME Listas, NEW g
    PROVE  \A x : x \in Referencias(g) <=>
              \E p \in Pids : \E i \in DOMAIN tablaArchivosPorProceso[p] :
                 x = <<p, i>> /\ tablaArchivosPorProceso[p][i].globalFD = g
  BY SonEntradas DEF Referencias, Entrada

LEMMA UnRegistro ==
    ASSUME Listas, NEW p \in Pids
    PROVE  /\ tablaArchivosPorProceso[p] \in Seq(Registro)
           /\ Len(tablaArchivosPorProceso[p]) \in Nat
           /\ Len(tablaArchivosPorProceso[p]) <= MaxAbiertos
           /\ DOMAIN tablaArchivosPorProceso[p] = 1 .. Len(tablaArchivosPorProceso[p])
           /\ \A i \in DOMAIN tablaArchivosPorProceso[p] :
                 /\ tablaArchivosPorProceso[p][i] \in Registro
                 /\ tablaArchivosPorProceso[p][i].globalFD \in GlobalFD
                 /\ tablaArchivosPorProceso[p][i].globalFD < ultimoGlobalFD
<1>1. tablaArchivosPorProceso[p] \in Seq(Registro)
  BY DEF Listas
<1>2. /\ Len(tablaArchivosPorProceso[p]) \in Nat
      /\ DOMAIN tablaArchivosPorProceso[p] = 1 .. Len(tablaArchivosPorProceso[p])
      /\ \A i \in DOMAIN tablaArchivosPorProceso[p] : tablaArchivosPorProceso[p][i] \in Registro
  BY <1>1
<1>3. \A i \in DOMAIN tablaArchivosPorProceso[p] :
         tablaArchivosPorProceso[p][i].globalFD \in GlobalFD
  BY <1>2 DEF Registro
<1> QED BY <1>1, <1>2, <1>3 DEF Listas

LEMMA ConstantesFS ==
    /\ MaxGlobalFD \in Nat /\ MaxAbiertos \in Nat
    /\ GlobalFD \subseteq Nat /\ \A g \in GlobalFD : g < MaxGlobalFD
    /\ \A n \in Nat : n < MaxGlobalFD => n \in GlobalFD
    /\ \A n \in Nat : n < MaxAbiertos => n + FD_START \in FDs
    /\ Permisos \subseteq Banderas /\ 0 \in Posiciones /\ EnDisco \subseteq Archivos
    /\ Archivos # {}
  BY CapaFSAssumption DEF GlobalFD, FDs, FD_START

-----------------------------------------------------------------------------
(* Giving an entry back.  c says how many descriptors refer to each entry. *)

Estado ==
    [tabla : Seq(GlobalFD), vivas : SUBSET GlobalFD, open : [GlobalFD -> Nat],
     kernel : {"corre", "NULL", "indefinido"}]

Coherente(st, c) ==
    /\ \A g \in st.vivas : \E j \in DOMAIN st.tabla : st.tabla[j] = g
    /\ \A g \in st.vivas : st.open[g] > 0 /\ st.open[g] = c[g]

LEMMA Suelta ==
    ASSUME NEW st \in Estado, NEW i \in DOMAIN st.tabla, st.tabla[i] \in st.vivas,
           st.open[st.tabla[i]] > 0
    PROVE  /\ Soltar(st, i) \in Estado
           /\ Soltar(st, i).kernel = st.kernel
           /\ Soltar(st, i).open = [st.open EXCEPT ![st.tabla[i]] = @ - 1]
           /\ st.open[st.tabla[i]] > 1 =>
                 Soltar(st, i).tabla = st.tabla /\ Soltar(st, i).vivas = st.vivas
           /\ st.open[st.tabla[i]] <= 1 =>
                 /\ Soltar(st, i).tabla = RemoveAt(st.tabla, i)
                 /\ Soltar(st, i).vivas = st.vivas \ {st.tabla[i]}
<1> DEFINE g == st.tabla[i]
           o == [st.open EXCEPT ![g] = @ - 1]
<1>1. /\ st.tabla \in Seq(GlobalFD) /\ st.vivas \in SUBSET GlobalFD /\ st.open \in [GlobalFD -> Nat]
      /\ st.kernel \in {"corre", "NULL", "indefinido"} /\ g \in GlobalFD
      /\ st.open[g] \in Nat
      /\ i \in 1 .. Len(st.tabla)
      /\ st = [tabla |-> st.tabla, vivas |-> st.vivas, open |-> st.open, kernel |-> st.kernel]
  BY DEF Estado
<1>2. o \in [GlobalFD -> Nat]
  BY <1>1
<1>3. RemoveAt(st.tabla, i) \in Seq(GlobalFD)
  BY <1>1, Quitado
<1>4. CASE st.open[g] > 1
  <2>1. Soltar(st, i) = [st EXCEPT !.open[g] = @ - 1]
    BY <1>4 DEF Soltar
  <2>2. Soltar(st, i) = [tabla |-> st.tabla, vivas |-> st.vivas, open |-> o, kernel |-> st.kernel]
    BY <2>1, <1>1
  <2> HIDE DEF g, o
  <2>3. ~(st.open[g] <= 1)
    BY <1>1, <1>4
  <2> QED BY <2>2, <2>3, <1>1, <1>2 DEF Estado, g, o
<1>5. CASE ~(st.open[g] > 1)
  <2>1. Soltar(st, i) = [st EXCEPT !.open[g] = @ - 1, !.vivas = @ \ {g}, !.tabla = RemoveAt(@, i)]
    BY <1>5 DEF Soltar
  <2>2. Soltar(st, i) = [tabla |-> RemoveAt(st.tabla, i), vivas |-> st.vivas \ {g}, open |-> o,
                         kernel |-> st.kernel]
    BY <2>1, <1>1
  <2> HIDE DEF g, o
  <2> QED BY <2>2, <1>5, <1>1, <1>2, <1>3 DEF Estado, g, o
<1> QED BY <1>4, <1>5

LEMMA SueltaCoherente ==
    ASSUME NEW st \in Estado, NEW c \in [GlobalFD -> Nat], NEW c2 \in [GlobalFD -> Nat],
           Coherente(st, c),
           NEW i \in DOMAIN st.tabla, st.tabla[i] \in st.vivas,
           c2[st.tabla[i]] = c[st.tabla[i]] - 1,
           \A h \in st.vivas : h # st.tabla[i] => c2[h] = c[h]
    PROVE  /\ Soltar(st, i) \in Estado /\ Soltar(st, i).kernel = st.kernel
           /\ Coherente(Soltar(st, i), c2)
           /\ Soltar(st, i).vivas \subseteq st.vivas
           /\ \A h \in st.vivas : h \notin Soltar(st, i).vivas => h = st.tabla[i] /\ c2[h] = 0
<1> DEFINE g == st.tabla[i]
           su == Soltar(st, i)
<1>1. /\ st.tabla \in Seq(GlobalFD) /\ st.vivas \in SUBSET GlobalFD /\ st.open \in [GlobalFD -> Nat]
      /\ DOMAIN st.tabla = 1 .. Len(st.tabla) /\ Len(st.tabla) \in Nat
      /\ g \in GlobalFD /\ st.open[g] \in Nat
  BY DEF Estado
<1>2. st.open[g] > 0 /\ st.open[g] = c[g] /\ c2[g] = c[g] - 1
  BY DEF Coherente
<1>3. /\ su \in Estado /\ su.kernel = st.kernel
      /\ su.open = [st.open EXCEPT ![g] = @ - 1]
      /\ st.open[g] > 1 => su.tabla = st.tabla /\ su.vivas = st.vivas
      /\ st.open[g] <= 1 => su.tabla = RemoveAt(st.tabla, i) /\ su.vivas = st.vivas \ {g}
  BY <1>2, Suelta
<1>9. /\ \A h \in st.vivas : \E j \in DOMAIN st.tabla : st.tabla[j] = h
      /\ \A h \in st.vivas : st.open[h] > 0 /\ st.open[h] = c[h]
      /\ \A h \in st.vivas : h # g => c2[h] = c[h]
  BY DEF Coherente
<1> HIDE DEF g, su
<1>4. /\ su.open[g] = st.open[g] - 1
      /\ \A h \in st.vivas : h # g => su.open[h] = st.open[h]
  BY <1>1, <1>3
<1>5. CASE st.open[g] > 1
  <2>1. su.tabla = st.tabla /\ su.vivas = st.vivas
    BY <1>3, <1>5
  <2>2. ASSUME NEW h \in su.vivas PROVE su.open[h] > 0 /\ su.open[h] = c2[h]
    <3>1. CASE h = g
      BY <3>1, <1>1, <1>2, <1>4, <1>5
    <3>2. CASE h # g
      BY <3>2, <2>1, <1>4, <1>9
    <3> QED BY <3>1, <3>2
  <2>3. Coherente(su, c2)
    BY <2>1, <2>2, <1>9 DEF Coherente
  <2> QED BY <2>1, <2>3, <1>3 DEF g, su
<1>6. CASE ~(st.open[g] > 1)
  <2>1. su.tabla = RemoveAt(st.tabla, i) /\ su.vivas = st.vivas \ {g} /\ st.open[g] = 1
    BY <1>1, <1>2, <1>3, <1>6, SMTT(30)
  <2>2. c2[g] = 0
    BY <2>1, <1>2
  <2>3. /\ DOMAIN su.tabla = 1 .. Len(st.tabla) - 1
        /\ \A j \in 1 .. Len(st.tabla) - 1 :
              su.tabla[j] = IF j < i THEN st.tabla[j] ELSE st.tabla[j + 1]
    <3>1. i \in 1 .. Len(st.tabla)
      BY <1>1
    <3> HIDE DEF g
    <3>2. /\ DOMAIN RemoveAt(st.tabla, i) = 1 .. Len(st.tabla) - 1
          /\ \A j \in 1 .. Len(st.tabla) - 1 :
                RemoveAt(st.tabla, i)[j] = IF j < i THEN st.tabla[j] ELSE st.tabla[j + 1]
      BY <3>1, <1>1, Quitado
    <3> QED BY <3>2, <2>1
  <2>4. ASSUME NEW h \in su.vivas PROVE su.open[h] > 0 /\ su.open[h] = c2[h]
    BY <2>1, <1>4, <1>9
  <2>5. ASSUME NEW h \in su.vivas PROVE \E j \in DOMAIN su.tabla : su.tabla[j] = h
    <3>1. PICK j \in DOMAIN st.tabla : st.tabla[j] = h
      BY <2>1, <1>9
    <3>2. j # i /\ j \in Int /\ i \in Int /\ j \in 1 .. Len(st.tabla) /\ i \in 1 .. Len(st.tabla)
      BY <3>1, <2>1, <1>1 DEF g
    <3>3. CASE j < i
      <4>1. j \in 1 .. Len(st.tabla) - 1
        BY <3>2, <3>3, <1>1
      <4> QED BY <4>1, <3>1, <3>3, <2>3
    <3>4. CASE j > i
      <4>1. j - 1 \in 1 .. Len(st.tabla) - 1 /\ ~(j - 1 < i) /\ (j - 1) + 1 = j
        <5>1. j \in Int /\ i \in Int /\ i >= 1 /\ j <= Len(st.tabla) /\ Len(st.tabla) \in Int
          BY <3>2, <1>1
        <5> QED BY <5>1, <3>4
      <4>2. su.tabla[j - 1] = st.tabla[j]
        BY <4>1, <2>3
      <4> QED BY <4>1, <4>2, <3>1, <2>3
    <3> QED BY <3>2, <3>3, <3>4
  <2>6. Coherente(su, c2)
    BY <2>4, <2>5 DEF Coherente
  <2> QED BY <2>1, <2>2, <2>6, <1>3 DEF g, su
<1> QED BY <1>5, <1>6

LEMMA SueltaLimpia ==
    ASSUME NEW st \in Estado, SinRepetir(st.tabla, st.vivas),
           NEW i \in DOMAIN st.tabla, st.open[st.tabla[i]] > 0
    PROVE  SinRepetir(Soltar(st, i).tabla, Soltar(st, i).vivas)
<1> DEFINE g == st.tabla[i]
           su == Soltar(st, i)
<1>1. /\ st.tabla \in Seq(GlobalFD) /\ st.open \in [GlobalFD -> Nat]
      /\ DOMAIN st.tabla = 1 .. Len(st.tabla) /\ Len(st.tabla) \in Nat
      /\ g \in GlobalFD /\ st.open[g] \in Nat
  BY DEF Estado
<1>2. /\ \A j \in DOMAIN st.tabla : st.tabla[j] \in st.vivas
      /\ \A j, k \in DOMAIN st.tabla : st.tabla[j] = st.tabla[k] => j = k
  BY DEF SinRepetir
<1>3. /\ st.open[g] > 1 => su.tabla = st.tabla /\ su.vivas = st.vivas
      /\ st.open[g] <= 1 => su.tabla = RemoveAt(st.tabla, i) /\ su.vivas = st.vivas \ {g}
  BY <1>2, Suelta
<1> HIDE DEF su
<1>4. CASE st.open[g] > 1
  <2>1. su.tabla = st.tabla /\ su.vivas = st.vivas
    BY <1>3, <1>4
  <2> QED BY <2>1 DEF su
<1>5. CASE ~(st.open[g] > 1)
  <2>1. su.tabla = RemoveAt(st.tabla, i) /\ su.vivas = st.vivas \ {g}
    BY <1>1, <1>3, <1>5
  <2>2. /\ DOMAIN su.tabla = 1 .. Len(st.tabla) - 1
        /\ \A j \in 1 .. Len(st.tabla) - 1 :
              su.tabla[j] = IF j < i THEN st.tabla[j] ELSE st.tabla[j + 1]
    <3> DEFINE s == st.tabla
    <3>1. s \in Seq(GlobalFD) /\ i \in 1 .. Len(s)
      BY <1>1
    <3> HIDE DEF g, s
    <3>2. /\ DOMAIN RemoveAt(s, i) = 1 .. Len(s) - 1
          /\ \A j \in 1 .. Len(s) - 1 : RemoveAt(s, i)[j] = IF j < i THEN s[j] ELSE s[j + 1]
      BY <3>1, Quitado
    <3> QED BY <3>2, <2>1 DEF s
  <2> DEFINE v(j) == IF j < i THEN j ELSE j + 1
  <2>3. \A j \in 1 .. Len(st.tabla) - 1 :
           v(j) \in DOMAIN st.tabla /\ v(j) # i /\ su.tabla[j] = st.tabla[v(j)]
    BY <2>2, <1>1
  <2>4. \A j, k \in 1 .. Len(st.tabla) - 1 : v(j) = v(k) => j = k
    BY <1>1
  <2> HIDE DEF v
  <2>5. \A j \in DOMAIN su.tabla : su.tabla[j] \in su.vivas
    <3> SUFFICES ASSUME NEW j \in DOMAIN su.tabla PROVE su.tabla[j] \in st.vivas \ {g}
      BY <2>1
    <3>1. v(j) \in DOMAIN st.tabla /\ v(j) # i /\ su.tabla[j] = st.tabla[v(j)]
      BY <2>2, <2>3
    <3>2. st.tabla[v(j)] # st.tabla[i]
      BY <3>1, <1>2
    <3> QED BY <3>1, <3>2, <1>2
  <2>6. \A j, k \in DOMAIN su.tabla : su.tabla[j] = su.tabla[k] => j = k
    BY <2>2, <2>3, <2>4, <1>2
  <2> QED BY <2>5, <2>6 DEF SinRepetir, su
<1> QED BY <1>4, <1>5

-----------------------------------------------------------------------------
(* How many descriptors refer to an entry, as the list of a process        *)
(* changes.                                                                *)

LEMMA CuentaUna ==
    ASSUME NEW S, NEW x, IsFiniteSet(S), x \notin S
    PROVE  IsFiniteSet(S \cup {x}) /\ Cardinality(S \cup {x}) = Cardinality(S) + 1
  BY FS_AddElement

(* Lists one element of which was taken out: the others moved one place.   *)
Corridas(p, e, S, T) ==
    /\ \A x \in S : x = <<x[1], x[2]>> /\ x[2] \in Nat
    /\ \A x : x \in T <=>
          \/ x \in S /\ (x[1] = p => x[2] < e)
          \/ \E i \in Nat : x = <<p, i>> /\ i >= e /\ <<p, i + 1>> \in S

LEMMA CuentaMenosUna ==
    ASSUME NEW p, NEW e \in Nat, NEW S, NEW T, IsFiniteSet(S), Corridas(p, e, S, T)
    PROVE  /\ IsFiniteSet(T)
           /\ Cardinality(T) = Cardinality(S \ {<<p, e>>})
<1> DEFINE S1 == S \ {<<p, e>>}
           corre(x) == IF x[1] = p /\ x[2] > e THEN <<p, x[2] - 1>> ELSE x
           f == [x \in S1 |-> corre(x)]
<1>0. /\ \A x \in S : x = <<x[1], x[2]>> /\ x[2] \in Nat
      /\ \A x : x \in T <=>
            \/ x \in S /\ (x[1] = p => x[2] < e)
            \/ \E i \in Nat : x = <<p, i>> /\ i >= e /\ <<p, i + 1>> \in S
  BY DEF Corridas
<1>1. IsFiniteSet(S1)
  BY FS_RemoveElement
<1>2. ASSUME NEW x \in S1
      PROVE  \/ x[1] = p /\ x[2] > e /\ x = <<p, x[2]>> /\ x[2] \in Nat /\ corre(x) = <<p, x[2] - 1>>
             \/ x \in S /\ (x[1] = p => x[2] < e) /\ corre(x) = x
  <2>1. x \in S /\ x = <<x[1], x[2]>> /\ x[2] \in Nat /\ x # <<p, e>>
    BY <1>0
  <2>2. CASE x[1] = p /\ x[2] > e
    BY <2>1, <2>2
  <2>3. CASE ~(x[1] = p /\ x[2] > e)
    <3>1. x[1] = p => x[2] # e
      BY <2>1
    <3>2. x[1] = p => x[2] < e
      BY <3>1, <2>1, <2>3
    <3> QED BY <3>2, <2>1, <2>3
  <2> QED BY <2>2, <2>3
<1>3. ASSUME NEW x \in S1 PROVE corre(x) \in T
  <2>1. CASE x \in S /\ (x[1] = p => x[2] < e) /\ corre(x) = x
    BY <2>1, <1>0
  <2>2. CASE x[1] = p /\ x[2] > e /\ x = <<p, x[2]>> /\ x[2] \in Nat /\ corre(x) = <<p, x[2] - 1>>
    <3>1. PICK i \in Nat : i = x[2] - 1 /\ i >= e /\ i + 1 = x[2]
      <4>1. x[2] - 1 \in Nat /\ x[2] - 1 >= e /\ (x[2] - 1) + 1 = x[2]
        BY <2>2
      <4> QED BY <4>1
    <3>2. <<p, i + 1>> \in S
      BY <3>1, <2>2
    <3>3. corre(x) = <<p, i>>
      BY <3>1, <2>2
    <3> QED BY <3>1, <3>2, <3>3, <1>0
  <2> QED BY <1>2, <2>1, <2>2
<1>4. ASSUME NEW x \in S1, NEW y \in S1, corre(x) = corre(y) PROVE x = y
  <2>1. CASE /\ x[1] = p /\ x[2] > e /\ x = <<p, x[2]>> /\ x[2] \in Nat /\ corre(x) = <<p, x[2] - 1>>
             /\ y[1] = p /\ y[2] > e /\ y = <<p, y[2]>> /\ y[2] \in Nat /\ corre(y) = <<p, y[2] - 1>>
    <3>1. x[2] - 1 = y[2] - 1
      BY <2>1, <1>4
    <3>2. x[2] = y[2]
      BY <3>1, <2>1
    <3> QED BY <3>2, <2>1
  <2>2. CASE /\ x[1] = p /\ x[2] > e /\ x[2] \in Nat /\ corre(x) = <<p, x[2] - 1>>
             /\ (y[1] = p => y[2] < e) /\ corre(y) = y
    <3>1. y[1] = p /\ y[2] = x[2] - 1
      BY <2>2, <1>4
    <3> QED BY <3>1, <2>2
  <2>3. CASE /\ y[1] = p /\ y[2] > e /\ y[2] \in Nat /\ corre(y) = <<p, y[2] - 1>>
             /\ (x[1] = p => x[2] < e) /\ corre(x) = x
    <3>1. x[1] = p /\ x[2] = y[2] - 1
      BY <2>3, <1>4
    <3> QED BY <3>1, <2>3
  <2>4. CASE corre(x) = x /\ corre(y) = y
    BY <2>4, <1>4
  <2> HIDE DEF corre
  <2> QED BY <1>2, <2>1, <2>2, <2>3, <2>4
<1>5. ASSUME NEW y \in T PROVE \E x \in S1 : corre(x) = y
  <2>1. CASE y \in S /\ (y[1] = p => y[2] < e)
    <3>1. y # <<p, e>>
      BY <2>1
    <3>2. ~(y[1] = p /\ y[2] > e)
      <4>1. y[1] = p => y[2] < e /\ y[2] \in Nat
        BY <2>1, <1>0
      <4> QED BY <4>1
    <3> QED BY <3>1, <3>2, <2>1
  <2>2. ASSUME NEW i \in Nat, y = <<p, i>>, i >= e, <<p, i + 1>> \in S
        PROVE  \E x \in S1 : corre(x) = y
    <3>1. <<p, i + 1>> \in S1 /\ i + 1 > e /\ (i + 1) - 1 = i
      BY <2>2
    <3>2. corre(<<p, i + 1>>) = <<p, i>>
      BY <3>1
    <3> QED BY <3>1, <3>2, <2>2
  <2> QED BY <2>1, <2>2, <1>0
<1> HIDE DEF corre
<1>6. f \in Bijection(S1, T)
  BY <1>3, <1>4, <1>5 DEF Bijection, Injection, Surjection, IsInjective
<1>7. ExistsBijection(S1, T)
  BY <1>6 DEF ExistsBijection
<1> QED BY <1>1, <1>7, FS_Bijection

-----------------------------------------------------------------------------
(* What Entradas and Referencias are, in a state and in the next one. *)

FormaEntradas ==
    \A x : x \in Entradas <=>
       \E p \in Pids : \E i \in DOMAIN tablaArchivosPorProceso[p] : x = <<p, i>>
FormaReferencias ==
    \A g, x : x \in Referencias(g) <=>
       \E p \in Pids : \E i \in DOMAIN tablaArchivosPorProceso[p] :
          x = <<p, i>> /\ tablaArchivosPorProceso[p][i].globalFD = g
Registrados == \A x \in Entradas : Entrada(x) \in Registro

LEMMA Formas == Listas => FormaEntradas /\ FormaReferencias /\ Registrados
<1> SUFFICES ASSUME Listas PROVE FormaEntradas /\ FormaReferencias /\ Registrados
  OBVIOUS
<1>1. FormaEntradas
  BY SonEntradas DEF FormaEntradas
<1>2. FormaReferencias
  BY SonReferencias DEF FormaReferencias
<1>3. ASSUME NEW x \in Entradas PROVE Entrada(x) \in Registro
  <2>1. x \in Entradas
    BY <1>3
  <2>2. \E p \in Pids : \E i \in DOMAIN tablaArchivosPorProceso[p] : x = <<p, i>>
    BY <2>1, <1>1 DEF FormaEntradas
  <2>3. PICK p \in Pids : \E i \in DOMAIN tablaArchivosPorProceso[p] : x = <<p, i>>
    BY <2>2
  <2>4. PICK i \in DOMAIN tablaArchivosPorProceso[p] : x = <<p, i>>
    BY <2>3
  <2>5. tablaArchivosPorProceso[p][i] \in Registro
    BY UnRegistro
  <2> QED BY <2>4, <2>5 DEF Entrada
<1> QED BY <1>1, <1>2, <1>3 DEF Registrados

LEMMA FormasDespues == Listas' => FormaEntradas' /\ FormaReferencias' /\ Registrados'
  BY Formas, PTL

LEMMA TiposPartes ==
    Tipos <=> /\ Registrados
               /\ conLista \subseteq Pids
               /\ tablaArchivosGlobales \in Seq(GlobalFD)
               /\ vivas \subseteq 0 .. ultimoGlobalFD - 1
               /\ file \in [GlobalFD -> Archivos]
               /\ open \in [GlobalFD -> Nat]
               /\ archivosFS \subseteq Archivos
               /\ estado \in [Pids -> {"vivo", "error", "fin"}]
               /\ capaFSMutexTomado \in BOOLEAN /\ borradas \cup compartidas \subseteq GlobalFD
               /\ desordenados \subseteq Pids
               /\ kernel \in {"corre", "NULL", "indefinido", "basura"}
  BY DEF Tipos, Registrados, Registro

-----------------------------------------------------------------------------
(* A process gets a descriptor. *)

LEMMA AlAgregar ==
    ASSUME TablasInv, NEW p \in Pids, NEW g \in GlobalFD, NEW f \in Archivos, NEW b \in Permisos,
           Len(tablaArchivosPorProceso[p]) < MaxAbiertos,
           AgregarAlProceso(p, g, f, b),
           ultimoGlobalFD' \in ultimoGlobalFD .. MaxGlobalFD, g < ultimoGlobalFD',
           desordenados' = desordenados
    PROVE  LET n == <<p, Len(tablaArchivosPorProceso[p]) + 1>> IN
           /\ Listas' /\ Correlativos' /\ Registrados'
           /\ n \notin Entradas
           /\ \A x : x \in Entradas' <=> x \in Entradas \/ x = n
           /\ \A x \in Entradas : Entrada(x)' = Entrada(x)
           /\ \A x : x = n => Entrada(x)'.globalFD = g /\ Entrada(x)'.archivo = f
           /\ Referencias(g)' = Referencias(g) \cup {n}
           /\ \A h : h # g => Referencias(h)' = Referencias(h)
           /\ n \notin Referencias(g)
<1> DEFINE lista == tablaArchivosPorProceso[p]
           L == Len(lista)
           n == <<p, L + 1>>
           r == [fd |-> siguienteFD(lista), flags |-> b, globalFD |-> g, cursor |-> 0, archivo |-> f]
<1>1. Listas /\ Correlativos /\ desordenados \subseteq Pids
  BY DEF TablasInv, Tipos
<1>2. /\ lista \in Seq(Registro) /\ L \in Nat /\ L < MaxAbiertos /\ DOMAIN lista = 1 .. L
  BY <1>1, UnRegistro
<1>3. r \in Registro /\ r.fd = L + FD_START /\ r.globalFD = g /\ r.archivo = f
  <2>1. siguienteFD(lista) = L + FD_START /\ L + FD_START \in FDs
    BY <1>2, ConstantesFS DEF siguienteFD
  <2>2. b \in Banderas /\ 0 \in Posiciones
    BY ConstantesFS
  <2> QED BY <2>1, <2>2 DEF Registro
<1>4. tablaArchivosPorProceso' = [tablaArchivosPorProceso EXCEPT ![p] = Append(lista, r)]
  BY DEF AgregarAlProceso
<1> HIDE DEF r
<1>5. /\ Append(lista, r) \in Seq(Registro) /\ Len(Append(lista, r)) = L + 1
      /\ DOMAIN Append(lista, r) = 1 .. L + 1
      /\ \A i \in 1 .. L : Append(lista, r)[i] = lista[i]
      /\ Append(lista, r)[L + 1] = r
  BY <1>2, <1>3, Agregado
<1>6. /\ tablaArchivosPorProceso' \in [Pids -> Seq(Registro)]
      /\ tablaArchivosPorProceso'[p] = Append(lista, r)
      /\ \A q \in Pids : q # p => tablaArchivosPorProceso'[q] = tablaArchivosPorProceso[q]
  BY <1>1, <1>4, <1>5 DEF Listas
<1> HIDE DEF L
<1>7. ultimoGlobalFD \in 0 .. MaxGlobalFD /\ MaxGlobalFD \in Nat /\ ultimoGlobalFD' \in Nat
      /\ ultimoGlobalFD <= ultimoGlobalFD'
  BY <1>1, ConstantesFS DEF Listas
<1>8. Listas'
  <2>1. ASSUME NEW q \in Pids
        PROVE  /\ Len(tablaArchivosPorProceso'[q]) <= MaxAbiertos
               /\ \A i \in DOMAIN tablaArchivosPorProceso'[q] :
                     tablaArchivosPorProceso'[q][i].globalFD < ultimoGlobalFD'
    <3>1. CASE q # p
      <4>1. tablaArchivosPorProceso'[q] = tablaArchivosPorProceso[q]
        BY <3>1, <1>6
      <4>2. \A i \in DOMAIN tablaArchivosPorProceso[q] :
               /\ tablaArchivosPorProceso[q][i].globalFD \in Nat
               /\ tablaArchivosPorProceso[q][i].globalFD < ultimoGlobalFD
        BY <1>1, UnRegistro, ConstantesFS
      <4> QED BY <4>1, <4>2, <1>1, <1>7, UnRegistro
    <3>2. CASE q = p
      <4>1. ASSUME NEW i \in 1 .. L + 1 PROVE Append(lista, r)[i].globalFD < ultimoGlobalFD'
        <5>1. CASE i = L + 1
          BY <5>1, <1>3, <1>5
        <5>2. CASE i # L + 1
          <6>1. i \in 1 .. L
            BY <5>2, <1>2
          <6>2. lista[i].globalFD \in Nat /\ lista[i].globalFD < ultimoGlobalFD
            BY <6>1, <1>1, <1>2, UnRegistro, ConstantesFS
          <6> QED BY <6>1, <6>2, <1>5, <1>7
        <5> QED BY <5>1, <5>2
      <4>2. L + 1 <= MaxAbiertos
        BY <1>2, ConstantesFS
      <4> QED BY <4>1, <4>2, <3>2, <1>5, <1>6
    <3> QED BY <3>1, <3>2
  <2>2. ultimoGlobalFD' \in 0 .. MaxGlobalFD
    BY <1>7
  <2> QED BY <2>1, <2>2, <1>6 DEF Listas
<1>9. FormaEntradas /\ FormaReferencias /\ FormaEntradas' /\ FormaReferencias' /\ Registrados'
  BY <1>1, <1>8, Formas, FormasDespues
<1>10. Correlativos'
  <2> SUFFICES ASSUME NEW q \in Pids \ desordenados, NEW i \in DOMAIN tablaArchivosPorProceso'[q]
               PROVE  tablaArchivosPorProceso'[q][i].fd = FD_START + (i - 1)
    BY DEF Correlativos
  <2>1. CASE q # p
    BY <2>1, <1>1, <1>6 DEF Correlativos
  <2>2. CASE q = p /\ i = L + 1
    BY <2>2, <1>2, <1>3, <1>5, <1>6 DEF FD_START
  <2>3. CASE q = p /\ i # L + 1
    <3>1. i \in 1 .. L
      BY <2>3, <1>2, <1>5, <1>6
    <3> QED BY <3>1, <2>3, <1>1, <1>2, <1>5, <1>6 DEF Correlativos
  <2> QED BY <2>1, <2>2, <2>3
<1>11. /\ p \in Pids /\ DOMAIN tablaArchivosPorProceso'[p] = 1 .. L + 1 /\ L + 1 \in 1 .. L + 1
       /\ L + 1 \notin 1 .. L
       /\ \A i \in 1 .. L + 1 : i \in 1 .. L \/ i = L + 1
       /\ \A i \in 1 .. L : i \in 1 .. L + 1 /\ tablaArchivosPorProceso'[p][i] = lista[i]
       /\ tablaArchivosPorProceso'[p][L + 1] = r
  BY <1>2, <1>5, <1>6
<1>12. n \notin Entradas
  BY <1>2, <1>9, <1>11 DEF FormaEntradas
<1>13. ASSUME NEW x PROVE x \in Entradas' <=> x \in Entradas \/ x = n
  <2>1. ASSUME x \in Entradas' PROVE x \in Entradas \/ x = n
    BY <1>2, <1>6, <1>9, <1>11, <2>1, SMTT(30) DEF FormaEntradas
  <2>2. ASSUME x \in Entradas \/ x = n PROVE x \in Entradas'
    BY <1>2, <1>6, <1>9, <1>11, <2>2, SMTT(30) DEF FormaEntradas
  <2> QED BY <2>1, <2>2
<1>14. ASSUME NEW x \in Entradas PROVE Entrada(x)' = Entrada(x)
  <2>0. PICK q \in Pids : \E i \in DOMAIN tablaArchivosPorProceso[q] :
          x = <<q, i>>
    BY <1>9 DEF FormaEntradas
  <2>1. PICK i \in DOMAIN tablaArchivosPorProceso[q] : x = <<q, i>>
    BY <2>0
  <2>2. tablaArchivosPorProceso'[q][i] = tablaArchivosPorProceso[q][i]
    BY <1>2, <1>6, <1>11
  <2> QED BY <2>1, <2>2 DEF Entrada
<1>15. ASSUME NEW x, x = n PROVE Entrada(x)'.globalFD = g /\ Entrada(x)'.archivo = f
  <2>1. x[1] = p /\ x[2] = L + 1
    BY <1>15
  <2>2. Entrada(x)' = r
    BY <2>1, <1>11 DEF Entrada
  <2> QED BY <2>2, <1>3
<1>16. ASSUME NEW h, NEW x
       PROVE  x \in Referencias(h)' <=> x \in Referencias(h) \/ (h = g /\ x = n)
  <2> HIDE DEF n
  <2>1. CASE x \in Entradas
    <3>1. Entrada(x)' = Entrada(x) /\ x \in Entradas' /\ x # n
      BY <2>1, <1>12, <1>13, <1>14
    <3> QED BY <3>1, <2>1 DEF Referencias
  <2>2. CASE x = n
    <3>1. Entrada(x)'.globalFD = g /\ x \in Entradas' /\ x \notin Entradas
      BY <2>2, <1>12, <1>13, <1>15
    <3> QED BY <3>1, <2>2 DEF Referencias
  <2>3. CASE x \notin Entradas /\ x # n
    <3>1. x \notin Entradas'
      BY <2>3, <1>13
    <3> QED BY <3>1, <2>3 DEF Referencias
  <2> QED BY <2>1, <2>2, <2>3
<1> HIDE DEF n
<1>17. Referencias(g)' = Referencias(g) \cup {n}
  BY <1>16
<1>18. ASSUME NEW h, h # g PROVE Referencias(h)' = Referencias(h)
  <2>1. Referencias(h)' \subseteq Referencias(h)
    BY <1>16, <1>18
  <2>2. Referencias(h) \subseteq Referencias(h)'
    BY <1>16, <1>18
  <2> QED BY <2>1, <2>2
<1>19. n \notin Referencias(g)
  BY <1>12 DEF Referencias
<1> QED BY <1>8, <1>9, <1>10, <1>12, <1>13, <1>14, <1>15, <1>17, <1>18, <1>19 DEF n, L

-----------------------------------------------------------------------------
(* A process gives a descriptor back. *)

LEMMA AlQuitar ==
    ASSUME TablasInv, NEW p \in Pids, NEW e \in DOMAIN tablaArchivosPorProceso[p],
           quitarDelProceso(p, e), ultimoGlobalFD' = ultimoGlobalFD,
           desordenados' = desordenados \cup
               {q \in {p} : e \in 1 .. Len(tablaArchivosPorProceso[p]) - 1}
    PROVE  /\ Listas' /\ Correlativos' /\ Registrados'
           /\ \A x \in Entradas' : \E y \in Entradas : y # <<p, e>> /\ Entrada(x)' = Entrada(y)
           /\ \A h : IsFiniteSet(Referencias(h)) =>
                 /\ IsFiniteSet(Referencias(h)')
                 /\ Cardinality(Referencias(h)') = Cardinality(Referencias(h) \ {<<p, e>>})
<1> DEFINE lista == tablaArchivosPorProceso[p]
           L == Len(lista)
           s == RemoveAt(lista, e)
           v(i) == IF i < e THEN i ELSE i + 1
<1>1. Listas /\ Correlativos /\ desordenados \subseteq Pids
  BY DEF TablasInv, Tipos
<1>2. lista \in Seq(Registro) /\ L \in Nat /\ DOMAIN lista = 1 .. L /\ e \in 1 .. L /\ e \in Nat
  BY <1>1, UnRegistro
<1>3. /\ s \in Seq(Registro) /\ Len(s) = L - 1 /\ DOMAIN s = 1 .. L - 1
      /\ \A i \in 1 .. L - 1 : s[i] = IF i < e THEN lista[i] ELSE lista[i + 1]
  BY <1>2, Quitado
<1>4. /\ tablaArchivosPorProceso' \in [Pids -> Seq(Registro)]
      /\ tablaArchivosPorProceso'[p] = s
      /\ \A q \in Pids : q # p => tablaArchivosPorProceso'[q] = tablaArchivosPorProceso[q]
  BY <1>1, <1>3 DEF Listas, quitarDelProceso
<1> HIDE DEF s, L
<1>5. \A i \in 1 .. L - 1 : v(i) \in 1 .. L /\ v(i) # e /\ s[i] = lista[v(i)]
  BY <1>2, <1>3
<1>6. \A j \in 1 .. L : j # e => \E i \in 1 .. L - 1 : v(i) = j
  <2> SUFFICES ASSUME NEW j \in 1 .. L, j # e PROVE \E i \in 1 .. L - 1 : v(i) = j
    OBVIOUS
  <2>1. CASE j < e
    <3>1. j \in 1 .. L - 1
      BY <2>1, <1>2
    <3> QED BY <3>1, <2>1
  <2>2. CASE j > e
    <3>1. j - 1 \in 1 .. L - 1 /\ ~(j - 1 < e) /\ (j - 1) + 1 = j
      BY <2>2, <1>2
    <3> QED BY <3>1
  <2> QED BY <2>1, <2>2, <1>2
<1>7. Listas'
  <2>1. ASSUME NEW q \in Pids
        PROVE  /\ Len(tablaArchivosPorProceso'[q]) <= MaxAbiertos
               /\ \A i \in DOMAIN tablaArchivosPorProceso'[q] :
                     tablaArchivosPorProceso'[q][i].globalFD < ultimoGlobalFD'
    <3>1. CASE q # p
      BY <3>1, <1>1, <1>4 DEF Listas
    <3>2. CASE q = p
      <4>1. L - 1 <= MaxAbiertos
        BY <1>1, <1>2, UnRegistro, ConstantesFS DEF L
      <4>2. \A i \in 1 .. L - 1 : s[i].globalFD < ultimoGlobalFD
        BY <1>1, <1>2, <1>5 DEF Listas
      <4> QED BY <4>1, <4>2, <3>2, <1>3, <1>4
    <3> QED BY <3>1, <3>2
  <2> QED BY <2>1, <1>1, <1>4 DEF Listas
<1>8. FormaEntradas /\ FormaReferencias /\ FormaEntradas' /\ FormaReferencias' /\ Registrados'
  BY <1>1, <1>7, Formas, FormasDespues
<1>9. Correlativos'
  <2> SUFFICES ASSUME NEW q \in Pids \ desordenados', NEW i \in DOMAIN tablaArchivosPorProceso'[q]
               PROVE  tablaArchivosPorProceso'[q][i].fd = FD_START + (i - 1)
    BY DEF Correlativos
  <2>1. q \in Pids \ desordenados
    OBVIOUS
  <2>2. CASE q # p
    BY <2>1, <2>2, <1>1, <1>4 DEF Correlativos
  <2>3. CASE q = p
    <3>1. e \notin 1 .. L - 1
      BY <2>3 DEF L
    <3>2. e = L
      BY <3>1, <1>2
    <3>3. i \in 1 .. L - 1 /\ i < e /\ i \in DOMAIN lista
      BY <3>2, <2>3, <1>2, <1>3, <1>4
    <3>4. s[i] = lista[i]
      BY <3>3, <1>3
    <3> QED BY <3>3, <3>4, <2>1, <2>3, <1>1, <1>4 DEF Correlativos
  <2> QED BY <2>2, <2>3
<1>10. ASSUME NEW x \in Entradas' PROVE \E y \in Entradas : y # <<p, e>> /\ Entrada(x)' = Entrada(y)
  <2>0. PICK q \in Pids : \E i \in DOMAIN tablaArchivosPorProceso'[q] :
          x = <<q, i>>
    BY <1>8 DEF FormaEntradas
  <2>1. PICK i \in DOMAIN tablaArchivosPorProceso'[q] : x = <<q, i>>
    BY <2>0
  <2>2. CASE q # p
    <3>1. x \in Entradas /\ x # <<p, e>>
      BY <2>1, <2>2, <1>4, <1>8 DEF FormaEntradas
    <3>2. Entrada(x)' = Entrada(x)
      BY <2>1, <2>2, <1>4 DEF Entrada
    <3> QED BY <3>1, <3>2
  <2>3. CASE q = p
    <3>1. i \in 1 .. L - 1
      BY <2>3, <1>3, <1>4
    <3>2. v(i) \in 1 .. L /\ v(i) # e /\ s[i] = lista[v(i)]
      BY <3>1, <1>5
    <3> HIDE DEF v
    <3>3. <<p, v(i)>> \in Entradas /\ <<p, v(i)>> # <<p, e>>
      BY <3>2, <1>2, <1>8 DEF FormaEntradas
    <3>4. Entrada(x)' = s[i] /\ Entrada(<<p, v(i)>>) = lista[v(i)]
      BY <2>1, <2>3, <1>4 DEF Entrada
    <3> QED BY <3>2, <3>3, <3>4
  <2> QED BY <2>2, <2>3
<1>11. ASSUME NEW h, IsFiniteSet(Referencias(h))
       PROVE  /\ IsFiniteSet(Referencias(h)')
              /\ Cardinality(Referencias(h)') = Cardinality(Referencias(h) \ {<<p, e>>})
  <2> DEFINE S == Referencias(h)
             T == Referencias(h)'
  <2>1. \A x \in S : x = <<x[1], x[2]>> /\ x[2] \in Nat
    <3> SUFFICES ASSUME NEW x \in S PROVE x = <<x[1], x[2]>> /\ x[2] \in Nat
      OBVIOUS
    <3>0. PICK q \in Pids : \E i \in DOMAIN tablaArchivosPorProceso[q] :
            x = <<q, i>>
      BY <1>8 DEF FormaReferencias
    <3>1. PICK i \in DOMAIN tablaArchivosPorProceso[q] : x = <<q, i>>
      BY <3>0
    <3>2. i \in Nat
      BY <1>1, UnRegistro
    <3> QED BY <3>1, <3>2
  <2>2. ASSUME NEW x
        PROVE  x \in T <=> \/ x \in S /\ (x[1] = p => x[2] < e)
                           \/ \E i \in Nat : x = <<p, i>> /\ i >= e /\ <<p, i + 1>> \in S
    <3>1. ASSUME x \in T
          PROVE  \/ x \in S /\ (x[1] = p => x[2] < e)
                 \/ \E i \in Nat : x = <<p, i>> /\ i >= e /\ <<p, i + 1>> \in S
      <4>0. PICK q \in Pids : \E i \in DOMAIN tablaArchivosPorProceso'[q] :
              x = <<q, i>> /\ tablaArchivosPorProceso'[q][i].globalFD = h
        BY <3>1, <1>8 DEF FormaReferencias
      <4>1. PICK i \in DOMAIN tablaArchivosPorProceso'[q] : x = <<q, i>> /\ tablaArchivosPorProceso'[q][i].globalFD = h
        BY <4>0
      <4>2. CASE q # p
        BY <4>1, <4>2, <1>4, <1>8 DEF FormaReferencias
      <4>3. CASE q = p /\ i < e
        <5>1. i \in 1 .. L - 1 /\ i \in DOMAIN lista
          BY <4>3, <1>2, <1>3, <1>4
        <5>2. tablaArchivosPorProceso'[p][i] = lista[i]
          BY <5>1, <4>3, <1>3, <1>4
        <5> QED BY <5>1, <5>2, <4>1, <4>3, <1>8 DEF FormaReferencias
      <4>4. CASE q = p /\ ~(i < e)
        <5>1. i \in 1 .. L - 1 /\ i + 1 \in DOMAIN lista /\ i \in Nat /\ i >= e
          BY <4>4, <1>2, <1>3, <1>4
        <5>2. tablaArchivosPorProceso'[p][i] = lista[i + 1]
          BY <5>1, <4>4, <1>3, <1>4
        <5>3. <<p, i + 1>> \in S
          BY <5>1, <5>2, <4>1, <4>4, <1>8 DEF FormaReferencias
        <5> QED BY <5>1, <5>3, <4>1, <4>4
      <4> QED BY <4>2, <4>3, <4>4
    <3>2. ASSUME x \in S, x[1] = p => x[2] < e PROVE x \in T
      <4>0. PICK q \in Pids : \E i \in DOMAIN tablaArchivosPorProceso[q] :
              x = <<q, i>> /\ tablaArchivosPorProceso[q][i].globalFD = h
        BY <3>2, <1>8 DEF FormaReferencias
      <4>1. PICK i \in DOMAIN tablaArchivosPorProceso[q] : x = <<q, i>> /\ tablaArchivosPorProceso[q][i].globalFD = h
        BY <4>0
      <4>2. CASE q # p
        BY <4>1, <4>2, <1>4, <1>8 DEF FormaReferencias
      <4>3. CASE q = p
        <5>1. i < e /\ i \in 1 .. L
          BY <4>1, <4>3, <3>2, <1>2
        <5>2. i \in 1 .. L - 1
          BY <5>1, <1>2
        <5>3. tablaArchivosPorProceso'[p][i] = lista[i] /\ i \in DOMAIN tablaArchivosPorProceso'[p]
          BY <5>1, <5>2, <1>3, <1>4
        <5> QED BY <5>3, <4>1, <4>3, <1>8 DEF FormaReferencias
      <4> QED BY <4>2, <4>3
    <3>3. ASSUME NEW i \in Nat, x = <<p, i>>, i >= e, <<p, i + 1>> \in S PROVE x \in T
      <4>0. PICK q \in Pids : \E j \in DOMAIN tablaArchivosPorProceso[q] :
              <<p, i + 1>> = <<q, j>> /\ tablaArchivosPorProceso[q][j].globalFD = h
        BY <3>3, <1>8 DEF FormaReferencias
      <4>1. PICK j \in DOMAIN tablaArchivosPorProceso[q] : <<p, i + 1>> = <<q, j>> /\ tablaArchivosPorProceso[q][j].globalFD = h
        BY <4>0
      <4>2. i + 1 \in 1 .. L /\ lista[i + 1].globalFD = h
        BY <4>1, <1>2
      <4>3. i \in 1 .. L - 1 /\ ~(i < e)
        BY <4>2, <3>3, <1>2
      <4>4. tablaArchivosPorProceso'[p][i] = lista[i + 1] /\ i \in DOMAIN tablaArchivosPorProceso'[p]
        BY <4>3, <1>3, <1>4
      <4> QED BY <4>2, <4>4, <3>3, <1>8 DEF FormaReferencias
    <3> QED BY <3>1, <3>2, <3>3
  <2>3. Corridas(p, e, S, T)
    BY <2>1, <2>2 DEF Corridas
  <2> HIDE DEF S, T
  <2>4. IsFiniteSet(S)
    BY <1>11 DEF S
  <2>5. IsFiniteSet(T) /\ Cardinality(T) = Cardinality(S \ {<<p, e>>})
    BY <1>2, <2>3, <2>4, CuentaMenosUna
  <2> QED BY <2>5 DEF S, T
<1> QED BY <1>7, <1>8, <1>9, <1>10, <1>11

-----------------------------------------------------------------------------
(* Steps that leave the tables alone. *)

LEMMA MismasEntradas ==
    ASSUME UNCHANGED tablaArchivosPorProceso
    PROVE  /\ \A x : x \in Entradas' <=> x \in Entradas
           /\ \A x : Entrada(x)' = Entrada(x)
           /\ \A g : Referencias(g)' = Referencias(g)
<1>1. \A x : x \in Entradas' <=> x \in Entradas
  BY DEF Entradas
<1>2. \A x : Entrada(x)' = Entrada(x)
  BY DEF Entrada
<1>3. ASSUME NEW g PROVE Referencias(g)' = Referencias(g)
  <2>1. Referencias(g)' \subseteq Referencias(g)
    BY <1>1, <1>2 DEF Referencias
  <2>2. Referencias(g) \subseteq Referencias(g)'
    BY <1>1, <1>2 DEF Referencias
  <2> QED BY <2>1, <2>2
<1> QED BY <1>1, <1>2, <1>3

LEMMA Quieto ==
    ASSUME TablasInv,
           UNCHANGED <<tablaArchivosPorProceso, globales, archivosFS>>,
           conLista' \subseteq Pids,
           estado' \in [Pids -> {"vivo", "error", "fin"}],
           capaFSMutexTomado' \in BOOLEAN,
           desordenados \subseteq desordenados', desordenados' \subseteq Pids,
           kernel' \in {"corre", "NULL", "indefinido", "basura"}, kernel' = "corre" => kernel = "corre",
           CaidaDeTablas'
    PROVE  TablasInv'
<1>1. /\ UNCHANGED <<tablaArchivosPorProceso, tablaArchivosGlobales, vivas, file, open,
                     ultimoGlobalFD, borradas, compartidas, archivosFS>>
  BY DEF globales
<1>2. /\ \A x : x \in Entradas' <=> x \in Entradas
      /\ \A x : Entrada(x)' = Entrada(x)
      /\ \A g : Referencias(g)' = Referencias(g)
  BY <1>1, MismasEntradas
<1>3. Tipos'
  BY <1>1, <1>2 DEF TablasInv, Tipos
<1>4. Listas'
  BY <1>1 DEF TablasInv, Listas
<1>5. EnLaLista' /\ UnaPorArchivo'
  BY <1>1 DEF TablasInv, EnLaLista, UnaPorArchivo
<1>6. Contadas'
  BY <1>1, <1>2 DEF TablasInv, Contadas
<1>7. DescriptorFiel' /\ Conocidas'
  BY <1>1, <1>2 DEF TablasInv, DescriptorFiel, Conocidas
<1>8. Correlativos'
  BY <1>1 DEF TablasInv, Correlativos
<1>9. ListaLimpia'
  BY <1>1 DEF TablasInv, ListaLimpia
<1> QED BY <1>3, <1>4, <1>5, <1>6, <1>7, <1>8, <1>9 DEF TablasInv

(* The searches in the tables of the Kernel. *)
LEMMA SonListas ==
    ASSUME TablasInv
    PROVE  /\ tablaArchivosGlobales \in Seq(GlobalFD)
           /\ vivas \subseteq GlobalFD /\ vivas \in SUBSET GlobalFD
           /\ open \in [GlobalFD -> Nat] /\ file \in [GlobalFD -> Archivos]
           /\ kernel = "corre" => Global \in Estado
           /\ Global.tabla = tablaArchivosGlobales /\ Global.vivas = vivas
           /\ Global.open = open /\ Global.kernel = kernel
           /\ ultimoGlobalFD \in Nat /\ ultimoGlobalFD <= MaxGlobalFD
           /\ \A g \in vivas : g \in Nat /\ g < ultimoGlobalFD
<1>1. /\ tablaArchivosGlobales \in Seq(GlobalFD)
      /\ open \in [GlobalFD -> Nat] /\ file \in [GlobalFD -> Archivos]
      /\ vivas \subseteq 0 .. ultimoGlobalFD - 1
      /\ kernel \in {"corre", "NULL", "indefinido", "basura"}
      /\ ultimoGlobalFD \in 0 .. MaxGlobalFD
  BY DEF TablasInv, Tipos, Listas
<1>2. ultimoGlobalFD \in Nat /\ ultimoGlobalFD <= MaxGlobalFD
  BY <1>1, ConstantesFS
<1>3. \A g \in vivas : g \in Nat /\ g < ultimoGlobalFD
  BY <1>1, <1>2
<1>4. vivas \subseteq GlobalFD
  BY <1>2, <1>3, ConstantesFS
<1>5. kernel = "corre" => Global \in Estado
  BY <1>1, <1>4 DEF Global, Estado
<1> QED BY <1>1, <1>2, <1>3, <1>4, <1>5 DEF Global

LEMMA HallaGlobal ==
    ASSUME TablasInv, NEW p \in Pids, NEW e \in DOMAIN tablaArchivosPorProceso[p], NEW g,
           g = tablaArchivosPorProceso[p][e].globalFD
    PROVE  LET i == HallarGlobal(tablaArchivosPorProceso[p][e]) IN
           /\ g \in GlobalFD
           /\ i \in Nat \cup {-1}
           /\ i = 0 => g \notin vivas
           /\ i > 0 => /\ i \in DOMAIN tablaArchivosGlobales
                       /\ tablaArchivosGlobales[i] = g /\ g \in vivas
           /\ i = -1 => compartidas # {}
<1> DEFINE i == HallarGlobal(tablaArchivosPorProceso[p][e])
<1>1. i = Hallar(tablaArchivosGlobales, vivas, {g})
  BY DEF HallarGlobal
<1>2. tablaArchivosGlobales \in Seq(GlobalFD)
  BY SonListas
<1> HIDE DEF i
<1>3. /\ i \in Nat \cup {-1}
      /\ i = 0 => \A j \in DOMAIN tablaArchivosGlobales :
            tablaArchivosGlobales[j] \in vivas /\ tablaArchivosGlobales[j] \notin {g}
      /\ i > 0 => /\ i \in DOMAIN tablaArchivosGlobales
                  /\ tablaArchivosGlobales[i] \in vivas /\ tablaArchivosGlobales[i] \in {g}
      /\ i = -1 => \E j \in DOMAIN tablaArchivosGlobales : tablaArchivosGlobales[j] \notin vivas
  BY <1>1, <1>2, Hallada
<1>4. i = 0 => g \notin vivas
  BY <1>3 DEF TablasInv, EnLaLista
<1>5. i = -1 => compartidas # {}
  BY <1>3 DEF TablasInv, ListaLimpia, SinRepetir
<1>6. g \in GlobalFD
  BY UnRegistro DEF TablasInv
<1> QED BY <1>3, <1>4, <1>5, <1>6 DEF i

LEMMA HallaFD ==
    ASSUME TablasInv, NEW p \in Pids, NEW fd
    PROVE  LET e == matchFileProceso(p, fd) IN
           /\ e \in Nat
           /\ e > 0 => /\ e \in DOMAIN tablaArchivosPorProceso[p]
                       /\ tablaArchivosPorProceso[p][e].fd = fd
           /\ e = 0 => \A j \in DOMAIN tablaArchivosPorProceso[p] :
                          tablaArchivosPorProceso[p][j].fd # fd
<1> DEFINE lista == tablaArchivosPorProceso[p]
           I == {i \in DOMAIN lista : lista[i].fd = fd}
<1>1. DOMAIN lista = 1 .. Len(lista) /\ Len(lista) \in Nat
  BY UnRegistro DEF TablasInv
<1>2. I \subseteq Nat \ {0}
  BY <1>1
<1>3. matchFileProceso(p, fd) = Primera(I)
  BY DEF matchFileProceso
<1>4. Primera(I) \in Nat /\ (Primera(I) > 0 => Primera(I) \in I) /\ (Primera(I) = 0 => I = {})
  BY <1>2, LaPrimera
<1> QED BY <1>3, <1>4

(* The Kernel falls for a reason. *)
LEMMA CaeConRazon ==
    ASSUME TablasInv, NEW como \in {"NULL", "indefinido"}, Cae(como), kernel = "corre",
           conLista' \subseteq Pids, UNCHANGED capaFSMutexTomado,
           desordenados \subseteq desordenados', desordenados' \subseteq Pids,
           como = "NULL" => \E x \in Entradas : Entrada(x).globalFD \in borradas,
           como = "indefinido" => compartidas # {}
    PROVE  TablasInv'
<1>1. /\ UNCHANGED <<tablaArchivosPorProceso, globales, archivosFS, estado>>
      /\ kernel' = como
  BY DEF Cae
<1>2. UNCHANGED <<borradas, compartidas>>
  BY <1>1 DEF globales
<1>3. /\ \A x : x \in Entradas' <=> x \in Entradas
      /\ \A x : Entrada(x)' = Entrada(x)
  BY <1>1, MismasEntradas
<1>4. CaidaDeTablas'
  BY <1>1, <1>2, <1>3 DEF CaidaDeTablas
<1>5. estado \in [Pids -> {"vivo", "error", "fin"}] /\ capaFSMutexTomado \in BOOLEAN
  BY DEF TablasInv, Tipos
<1> QED BY <1>1, <1>4, <1>5, Quieto

LEMMA SigueQuieto ==
    ASSUME TablasInv,
           UNCHANGED <<tablaArchivosPorProceso, globales, archivosFS>>,
           kernel' = kernel \/ (kernel = "corre" /\ kernel' = "basura"),
           conLista' \subseteq Pids,
           estado' \in [Pids -> {"vivo", "error", "fin"}],
           capaFSMutexTomado' \in BOOLEAN,
           desordenados \subseteq desordenados', desordenados' \subseteq Pids
    PROVE  TablasInv'
<1>1. UNCHANGED <<borradas, compartidas>>
  BY DEF globales
<1>2. /\ \A x : x \in Entradas' <=> x \in Entradas
      /\ \A x : Entrada(x)' = Entrada(x)
  BY MismasEntradas
<1>3. CaidaDeTablas'
  BY <1>1, <1>2 DEF TablasInv, CaidaDeTablas
<1>4. kernel \in {"corre", "NULL", "indefinido", "basura"}
  BY DEF TablasInv, Tipos
<1> QED BY <1>3, <1>4, Quieto

LEMMA OtroEstado ==
    ASSUME TablasInv, NEW p \in Pids
    PROVE  /\ Falla(p) => estado' \in [Pids -> {"vivo", "error", "fin"}]
           /\ estado \in [Pids -> {"vivo", "error", "fin"}]
           /\ capaFSMutexTomado \in BOOLEAN /\ conLista \subseteq Pids /\ desordenados \subseteq Pids
           /\ conLista \cup {p} \subseteq Pids
  BY DEF TablasInv, Tipos, Falla

-----------------------------------------------------------------------------
(* A file is opened. *)

LEMMA AbreNuevo ==
    ASSUME TablasInv, kernel = "corre", NEW p \in Pids, NEW f \in Archivos, NEW b \in Permisos,
           Len(tablaArchivosPorProceso[p]) < MaxAbiertos,
           AgregarGlobal(f), AgregarAlProceso(p, globalFD, f, b),
           \A g \in vivas : file[g] # f,
           archivosFS \subseteq archivosFS', archivosFS' \subseteq Archivos, f \in archivosFS',
           conLista' = conLista \cup {p},
           UNCHANGED <<estado, kernel, capaFSMutexTomado, desordenados>>
    PROVE  TablasInv'
<1>1. PICK g \in GlobalFD : g = ultimoGlobalFD
  BY SonListas, ConstantesFS DEF AgregarGlobal
<1>2. /\ ultimoGlobalFD' = ultimoGlobalFD + 1 /\ ultimoGlobalFD < MaxGlobalFD
      /\ vivas' = vivas \cup {g}
      /\ file' = [file EXCEPT ![g] = f]
      /\ open' = [open EXCEPT ![g] = 1]
      /\ tablaArchivosGlobales' = Append(tablaArchivosGlobales, g)
      /\ UNCHANGED <<borradas, compartidas>>
  BY <1>1 DEF AgregarGlobal, globalFD
<1>3. AgregarAlProceso(p, g, f, b)
  BY <1>1 DEF globalFD
<1>4. PICK n : n = <<p, Len(tablaArchivosPorProceso[p]) + 1>>
  OBVIOUS
<1>5. /\ tablaArchivosGlobales \in Seq(GlobalFD) /\ vivas \subseteq GlobalFD
      /\ open \in [GlobalFD -> Nat] /\ file \in [GlobalFD -> Archivos]
      /\ ultimoGlobalFD \in Nat /\ MaxGlobalFD \in Nat
      /\ \A h \in vivas : h \in Nat /\ h < ultimoGlobalFD /\ h # g
  <2>1. \A h \in vivas : h \in Nat /\ h < ultimoGlobalFD
    BY SonListas
  <2>2. \A h \in vivas : h # g
    BY <2>1, <1>1
  <2> QED BY <2>1, <2>2, SonListas, ConstantesFS
<1>6. ultimoGlobalFD' \in ultimoGlobalFD .. MaxGlobalFD /\ g < ultimoGlobalFD'
  BY <1>1, <1>2, <1>5
<1>7. /\ Listas' /\ Correlativos' /\ Registrados'
      /\ n \notin Entradas
      /\ \A x : x \in Entradas' <=> x \in Entradas \/ x = n
      /\ \A x \in Entradas : Entrada(x)' = Entrada(x)
      /\ \A x : x = n => Entrada(x)'.globalFD = g /\ Entrada(x)'.archivo = f
      /\ Referencias(g)' = Referencias(g) \cup {n}
      /\ \A h : h # g => Referencias(h)' = Referencias(h)
  BY <1>3, <1>4, <1>6, AlAgregar
<1>8. \A x \in Entradas : Entrada(x).globalFD \in Nat /\ Entrada(x).globalFD < ultimoGlobalFD
  <2> SUFFICES ASSUME NEW x \in Entradas
               PROVE  Entrada(x).globalFD \in Nat /\ Entrada(x).globalFD < ultimoGlobalFD
    OBVIOUS
  <2>1. Listas
    BY DEF TablasInv
  <2>2. PICK q \in Pids : \E i \in DOMAIN tablaArchivosPorProceso[q] : x = <<q, i>>
    BY <2>1, SonEntradas
  <2>3. PICK i \in DOMAIN tablaArchivosPorProceso[q] : x = <<q, i>>
    BY <2>2
  <2>4. Entrada(x) = tablaArchivosPorProceso[q][i]
    BY <2>3 DEF Entrada
  <2>5. /\ tablaArchivosPorProceso[q][i].globalFD \in GlobalFD
        /\ tablaArchivosPorProceso[q][i].globalFD < ultimoGlobalFD
    BY <2>1, UnRegistro
  <2> QED BY <2>4, <2>5, ConstantesFS
<1>9. Referencias(g) = {}
  BY <1>1, <1>8 DEF Referencias
<1>10. Tipos'
  <2>1. vivas' \subseteq 0 .. ultimoGlobalFD' - 1
    BY <1>1, <1>2, <1>5
  <2>2. tablaArchivosGlobales' \in Seq(GlobalFD)
    BY <1>2, <1>5, Agregado
  <2>3. open' \in [GlobalFD -> Nat] /\ file' \in [GlobalFD -> Archivos]
    BY <1>2, <1>5
  <2> QED BY <2>1, <2>2, <2>3, <1>2, <1>7 DEF TablasInv, Tipos, Registrados, Registro
<1>11. EnLaLista'
  <2>1. /\ DOMAIN tablaArchivosGlobales = 1 .. Len(tablaArchivosGlobales)
        /\ Len(tablaArchivosGlobales) \in Nat
        /\ DOMAIN tablaArchivosGlobales' = 1 .. Len(tablaArchivosGlobales) + 1
        /\ \A j \in 1 .. Len(tablaArchivosGlobales) :
              tablaArchivosGlobales'[j] = tablaArchivosGlobales[j]
        /\ tablaArchivosGlobales'[Len(tablaArchivosGlobales) + 1] = g
    BY <1>2, <1>5, Agregado
  <2> QED BY <2>1, <1>2 DEF TablasInv, EnLaLista
<1>12. /\ open'[g] = 1 /\ \A h \in vivas : open'[h] = open[h]
       /\ file'[g] = f /\ \A h \in vivas : file'[h] = file[h]
  BY <1>2, <1>5
<1>13. Contadas'
  <2> SUFFICES ASSUME NEW h \in vivas'
               PROVE  /\ IsFiniteSet(Referencias(h)')
                      /\ open'[h] > 0 /\ open'[h] = Cardinality(Referencias(h)')
    BY DEF Contadas
  <2>1. CASE h = g
    <3>1. Referencias(h)' = {n}
      BY <2>1, <1>7, <1>9
    <3>2. IsFiniteSet({n}) /\ Cardinality({n}) = 1
      BY FS_Singleton
    <3> QED BY <3>1, <3>2, <2>1, <1>12
  <2>2. CASE h # g
    <3>1. h \in vivas /\ Referencias(h)' = Referencias(h)
      BY <2>2, <1>2, <1>7
    <3> QED BY <3>1, <1>12 DEF TablasInv, Contadas
  <2> QED BY <2>1, <2>2
<1>14. UnaPorArchivo'
  BY <1>2, <1>12 DEF TablasInv, UnaPorArchivo
<1>15. DescriptorFiel'
  <2> SUFFICES ASSUME NEW x \in Entradas', Entrada(x)'.globalFD \in vivas'
               PROVE  file'[Entrada(x)'.globalFD] = Entrada(x)'.archivo
    BY DEF DescriptorFiel
  <2>1. CASE x = n
    BY <2>1, <1>7, <1>12
  <2>2. CASE x # n
    <3>1. x \in Entradas /\ Entrada(x)' = Entrada(x)
      BY <2>2, <1>7
    <3>2. Entrada(x).globalFD # g
      BY <3>1, <1>1, <1>8
    <3> QED BY <3>1, <3>2, <1>2, <1>12 DEF TablasInv, DescriptorFiel
  <2> QED BY <2>1, <2>2
<1>16. Conocidas'
  <2> SUFFICES ASSUME NEW x \in Entradas' PROVE Entrada(x)'.globalFD \in vivas' \cup borradas'
    BY DEF Conocidas
  <2>1. CASE x = n
    BY <2>1, <1>2, <1>7
  <2>2. CASE x # n
    <3>1. x \in Entradas /\ Entrada(x)' = Entrada(x)
      BY <2>2, <1>7
    <3> QED BY <3>1, <1>2 DEF TablasInv, Conocidas
  <2> QED BY <2>1, <2>2
<1>17. ListaLimpia'
  <2> SUFFICES ASSUME compartidas = {}
               PROVE  SinRepetir(tablaArchivosGlobales', vivas')
    BY <1>2 DEF ListaLimpia
  <2>1. /\ DOMAIN tablaArchivosGlobales = 1 .. Len(tablaArchivosGlobales)
        /\ Len(tablaArchivosGlobales) \in Nat
        /\ DOMAIN tablaArchivosGlobales' = 1 .. Len(tablaArchivosGlobales) + 1
        /\ \A j \in 1 .. Len(tablaArchivosGlobales) :
              tablaArchivosGlobales'[j] = tablaArchivosGlobales[j]
        /\ tablaArchivosGlobales'[Len(tablaArchivosGlobales) + 1] = g
    BY <1>2, <1>5, Agregado
  <2>2. /\ \A j \in DOMAIN tablaArchivosGlobales : tablaArchivosGlobales[j] \in vivas
        /\ \A j, k \in DOMAIN tablaArchivosGlobales :
              tablaArchivosGlobales[j] = tablaArchivosGlobales[k] => j = k
    BY DEF TablasInv, ListaLimpia, SinRepetir
  <2>3. \A j \in 1 .. Len(tablaArchivosGlobales) + 1 :
           j \in 1 .. Len(tablaArchivosGlobales) \/ j = Len(tablaArchivosGlobales) + 1
    BY <2>1
  <2>4. \A j \in 1 .. Len(tablaArchivosGlobales) :
           tablaArchivosGlobales'[j] \in vivas /\ tablaArchivosGlobales'[j] # g
    BY <2>1, <2>2, <1>5
  <2> QED BY <2>1, <2>2, <2>3, <2>4, <1>2 DEF SinRepetir
<1>18. CaidaDeTablas'
  BY DEF CaidaDeTablas
<1> QED BY <1>7, <1>10, <1>11, <1>13, <1>14, <1>15, <1>16, <1>17, <1>18 DEF TablasInv

LEMMA AbreCompartido ==
    ASSUME TablasInv, kernel = "corre", NEW p \in Pids, NEW f \in Archivos, NEW b \in Permisos,
           Len(tablaArchivosPorProceso[p]) < MaxAbiertos,
           NEW g \in vivas, file[g] = f,
           abrirCompartido(g),
           tablaArchivosGlobales' = Append(tablaArchivosGlobales, g),
           AgregarAlProceso(p, g, f, b),
           compartidas' = compartidas \cup {g},
           conLista' = conLista \cup {p},
           UNCHANGED <<vivas, file, ultimoGlobalFD, borradas, archivosFS, estado, kernel,
                       capaFSMutexTomado, desordenados>>
    PROVE  TablasInv'
<1>1. /\ tablaArchivosGlobales \in Seq(GlobalFD) /\ vivas \subseteq GlobalFD
      /\ open \in [GlobalFD -> Nat]
      /\ ultimoGlobalFD \in Nat /\ MaxGlobalFD \in Nat /\ ultimoGlobalFD <= MaxGlobalFD
      /\ g \in Nat /\ g < ultimoGlobalFD /\ g \in GlobalFD
  BY SonListas, ConstantesFS
<1>2. open' = [open EXCEPT ![g] = open[g] + 1]
  BY DEF abrirCompartido
<1>3. PICK n : n = <<p, Len(tablaArchivosPorProceso[p]) + 1>>
  OBVIOUS
<1>4. ultimoGlobalFD' \in ultimoGlobalFD .. MaxGlobalFD /\ g < ultimoGlobalFD'
  BY <1>1
<1>5. /\ Listas' /\ Correlativos' /\ Registrados'
      /\ n \notin Entradas
      /\ \A x : x \in Entradas' <=> x \in Entradas \/ x = n
      /\ \A x \in Entradas : Entrada(x)' = Entrada(x)
      /\ \A x : x = n => Entrada(x)'.globalFD = g /\ Entrada(x)'.archivo = f
      /\ Referencias(g)' = Referencias(g) \cup {n}
      /\ \A h : h # g => Referencias(h)' = Referencias(h)
      /\ n \notin Referencias(g)
  BY <1>1, <1>3, <1>4, AlAgregar
<1>6. Tipos'
  <2>1. tablaArchivosGlobales' \in Seq(GlobalFD)
    BY <1>1, Agregado
  <2>2. open' \in [GlobalFD -> Nat]
    BY <1>1, <1>2
  <2>3. (borradas \cup compartidas)' \subseteq GlobalFD
    BY <1>1 DEF TablasInv, Tipos
  <2> QED BY <2>1, <2>2, <2>3, <1>5 DEF TablasInv, Tipos, Registrados, Registro
<1>7. EnLaLista'
  <2>1. /\ DOMAIN tablaArchivosGlobales = 1 .. Len(tablaArchivosGlobales)
        /\ Len(tablaArchivosGlobales) \in Nat
        /\ DOMAIN tablaArchivosGlobales' = 1 .. Len(tablaArchivosGlobales) + 1
        /\ \A j \in 1 .. Len(tablaArchivosGlobales) :
              tablaArchivosGlobales'[j] = tablaArchivosGlobales[j]
    BY <1>1, Agregado
  <2> QED BY <2>1 DEF TablasInv, EnLaLista
<1>8. /\ open'[g] = open[g] + 1
      /\ \A h \in vivas : h # g => open'[h] = open[h]
  BY <1>1, <1>2
<1>9. Contadas'
  <2> SUFFICES ASSUME NEW h \in vivas
               PROVE  /\ IsFiniteSet(Referencias(h)')
                      /\ open'[h] > 0 /\ open'[h] = Cardinality(Referencias(h)')
    BY DEF Contadas
  <2>1. /\ IsFiniteSet(Referencias(h))
        /\ open[h] > 0 /\ open[h] = Cardinality(Referencias(h))
    BY DEF TablasInv, Contadas
  <2>2. CASE h = g
    <3>1. /\ IsFiniteSet(Referencias(g) \cup {n})
          /\ Cardinality(Referencias(g) \cup {n}) = Cardinality(Referencias(g)) + 1
      BY <2>1, <2>2, <1>5, CuentaUna
    <3>2. open[g] \in Nat
      BY <1>1
    <3> QED BY <3>1, <3>2, <2>1, <2>2, <1>5, <1>8
  <2>3. CASE h # g
    BY <2>1, <2>3, <1>5, <1>8
  <2> QED BY <2>2, <2>3
<1>10. UnaPorArchivo'
  BY DEF TablasInv, UnaPorArchivo
<1>11. DescriptorFiel'
  <2> SUFFICES ASSUME NEW x \in Entradas', Entrada(x)'.globalFD \in vivas
               PROVE  file[Entrada(x)'.globalFD] = Entrada(x)'.archivo
    BY DEF DescriptorFiel
  <2>1. CASE x = n
    BY <2>1, <1>5
  <2>2. CASE x # n
    <3>1. x \in Entradas /\ Entrada(x)' = Entrada(x)
      BY <2>2, <1>5
    <3> QED BY <3>1 DEF TablasInv, DescriptorFiel
  <2> QED BY <2>1, <2>2
<1>12. Conocidas'
  <2> SUFFICES ASSUME NEW x \in Entradas' PROVE Entrada(x)'.globalFD \in vivas \cup borradas
    BY DEF Conocidas
  <2>1. CASE x = n
    BY <2>1, <1>5
  <2>2. CASE x # n
    <3>1. x \in Entradas /\ Entrada(x)' = Entrada(x)
      BY <2>2, <1>5
    <3> QED BY <3>1 DEF TablasInv, Conocidas
  <2> QED BY <2>1, <2>2
<1>13. ListaLimpia' /\ CaidaDeTablas'
  BY DEF ListaLimpia, CaidaDeTablas
<1> QED BY <1>5, <1>6, <1>7, <1>9, <1>10, <1>11, <1>12, <1>13 DEF TablasInv

LEMMA StepAbrir ==
    ASSUME TablasInv, NEW p \in Pids, NEW f \in Archivos, NEW b \in Permisos,
           NEW creacion \in BOOLEAN, abrirArchivo(p, f, b, creacion)
    PROVE  TablasInv'
<1>1. /\ kernel = "corre" /\ Len(tablaArchivosPorProceso[p]) < MaxAbiertos
      /\ conLista' = conLista \cup {p}
      /\ UNCHANGED <<capaFSMutexTomado, desordenados>>
  BY DEF abrirArchivo, Servible
<1>2. /\ estado \in [Pids -> {"vivo", "error", "fin"}] /\ capaFSMutexTomado \in BOOLEAN
      /\ conLista' \subseteq Pids /\ desordenados \subseteq Pids /\ archivosFS \subseteq Archivos
      /\ Falla(p) => estado' \in [Pids -> {"vivo", "error", "fin"}]
  BY <1>1, OtroEstado DEF TablasInv, Tipos
<1>3. CASE Falla(p) /\ UNCHANGED <<tablaArchivosPorProceso, globales, archivosFS, kernel>>
  BY <1>1, <1>2, <1>3, SigueQuieto
<1>4. CASE f \in archivosFS /\ abrirExistente(p, f, b)
  <2> DEFINE S == {g \in GlobalFD : file[g] = f}
             i == HallarArchivo(f)
  <2>1. i = Hallar(tablaArchivosGlobales, vivas, S)
    BY DEF HallarArchivo
  <2>2. tablaArchivosGlobales \in Seq(GlobalFD) /\ vivas \subseteq GlobalFD
    BY SonListas
  <2>9. \A g \in S : file[g] = f
    OBVIOUS
  <2>10. \A g \in GlobalFD : file[g] = f => g \in S
    OBVIOUS
  <2> HIDE DEF S
  <2>3. /\ i = 0 => \A j \in DOMAIN tablaArchivosGlobales :
              tablaArchivosGlobales[j] \in vivas /\ tablaArchivosGlobales[j] \notin S
        /\ i > 0 => /\ i \in DOMAIN tablaArchivosGlobales
                    /\ tablaArchivosGlobales[i] \in vivas /\ tablaArchivosGlobales[i] \in S
        /\ i = -1 => \E j \in DOMAIN tablaArchivosGlobales : tablaArchivosGlobales[j] \notin vivas
    BY <2>1, <2>2, Hallada
  <2>4. \/ i = -1 /\ Cae("indefinido")
        \/ /\ i > 0
           /\ abrirCompartido(tablaArchivosGlobales[i])
           /\ tablaArchivosGlobales' = Append(tablaArchivosGlobales, tablaArchivosGlobales[i])
           /\ AgregarAlProceso(p, tablaArchivosGlobales[i], f, b)
           /\ compartidas' = compartidas \cup {tablaArchivosGlobales[i]}
           /\ UNCHANGED <<vivas, file, ultimoGlobalFD, borradas, archivosFS, estado, kernel>>
        \/ /\ i = 0
           /\ AgregarGlobal(f)
           /\ AgregarAlProceso(p, globalFD, f, b)
           /\ UNCHANGED <<archivosFS, estado, kernel>>
    BY <1>4 DEF abrirExistente
  <2> HIDE DEF i
  <2>5. CASE i = -1 /\ Cae("indefinido")
    <3>1. compartidas # {}
      BY <2>3, <2>5 DEF TablasInv, ListaLimpia, SinRepetir
    <3> QED BY <3>1, <2>5, <1>1, <1>2, CaeConRazon
  <2>6. CASE /\ i > 0
             /\ abrirCompartido(tablaArchivosGlobales[i])
             /\ tablaArchivosGlobales' = Append(tablaArchivosGlobales, tablaArchivosGlobales[i])
             /\ AgregarAlProceso(p, tablaArchivosGlobales[i], f, b)
             /\ compartidas' = compartidas \cup {tablaArchivosGlobales[i]}
             /\ UNCHANGED <<vivas, file, ultimoGlobalFD, borradas, archivosFS, estado, kernel>>
    <3>1. PICK g \in vivas : g = tablaArchivosGlobales[i]
      BY <2>3, <2>6
    <3>2. file[g] = f
      BY <3>1, <2>3, <2>6, <2>9
    <3>3. /\ abrirCompartido(g)
          /\ tablaArchivosGlobales' = Append(tablaArchivosGlobales, g)
          /\ AgregarAlProceso(p, g, f, b)
          /\ compartidas' = compartidas \cup {g}
      BY <3>1, <2>6
    <3> QED BY <3>2, <3>3, <2>6, <1>1, AbreCompartido
  <2>7. CASE /\ i = 0
             /\ AgregarGlobal(f)
             /\ AgregarAlProceso(p, globalFD, f, b)
             /\ UNCHANGED <<archivosFS, estado, kernel>>
    <3>1. \A g \in vivas : file[g] # f
      BY <2>2, <2>3, <2>7, <2>10 DEF TablasInv, EnLaLista
    <3> QED BY <3>1, <2>7, <1>1, <1>2, <1>4, AbreNuevo
  <2> QED BY <2>4, <2>5, <2>6, <2>7
<1>5. CASE /\ f \notin archivosFS /\ archivosFS' = archivosFS \cup {f}
           /\ AgregarGlobal(f)
           /\ AgregarAlProceso(p, globalFD, f, b)
           /\ UNCHANGED <<estado, kernel>>
  <2>1. \A g \in vivas : file[g] # f
    BY <1>5 DEF TablasInv, UnaPorArchivo
  <2> QED BY <2>1, <1>1, <1>2, <1>5, AbreNuevo
<1> QED BY <1>3, <1>4, <1>5 DEF abrirArchivo, abrirNuevo

-----------------------------------------------------------------------------
(* An entry is given back, in the tables of the Kernel. *)

Cuentas == [g \in GlobalFD |-> IF g \in vivas THEN Cardinality(Referencias(g)) ELSE 0]

LEMMA GlobalCoherente ==
    ASSUME TablasInv, kernel = "corre"
    PROVE  Cuentas \in [GlobalFD -> Nat] /\ Coherente(Global, Cuentas)
<1>1. /\ vivas \subseteq GlobalFD
      /\ Global.tabla = tablaArchivosGlobales /\ Global.vivas = vivas /\ Global.open = open
  BY SonListas
<1>2. \A g \in vivas : /\ IsFiniteSet(Referencias(g))
                       /\ open[g] > 0 /\ open[g] = Cardinality(Referencias(g))
  BY DEF TablasInv, Contadas
<1>3. \A g \in vivas : Cardinality(Referencias(g)) \in Nat
  BY <1>2, FS_CardinalityType
<1>4. Cuentas \in [GlobalFD -> Nat]
  BY <1>3 DEF Cuentas
<1>5. \A g \in vivas : Cuentas[g] = Cardinality(Referencias(g))
  BY <1>1 DEF Cuentas
<1> HIDE DEF Cuentas
<1>6. \A g \in vivas : \E j \in DOMAIN tablaArchivosGlobales : tablaArchivosGlobales[j] = g
  BY DEF TablasInv, EnLaLista
<1> QED BY <1>1, <1>2, <1>4, <1>5, <1>6 DEF Coherente

LEMMA StepCerrar ==
    ASSUME TablasInv, NEW p \in Pids, NEW fd, cerrarArchivo(p, fd)
    PROVE  TablasInv'
<1> DEFINE lista == tablaArchivosPorProceso[p]
<1>1. PICK e \in Nat : /\ e = matchFileProceso(p, fd)
                       /\ e > 0 => e \in DOMAIN lista
  BY HallaFD
<1>2. /\ kernel = "corre"
      /\ desordenados' = desordenados \cup {q \in {p} : e \in 1 .. Len(lista) - 1}
      /\ UNCHANGED <<conLista, archivosFS, capaFSMutexTomado>>
  BY <1>1 DEF cerrarArchivo, Servible
<1>3. /\ estado \in [Pids -> {"vivo", "error", "fin"}] /\ capaFSMutexTomado \in BOOLEAN
      /\ conLista \subseteq Pids /\ desordenados \subseteq Pids
      /\ Falla(p) => estado' \in [Pids -> {"vivo", "error", "fin"}]
      /\ desordenados \subseteq desordenados' /\ desordenados' \subseteq Pids
  BY <1>2, OtroEstado
<1>4. PICK i : i = (IF e = 0 THEN 0 ELSE HallarGlobal(lista[e]))
  OBVIOUS
<1>5. \/ /\ e = 0
         /\ Falla(p)
         /\ UNCHANGED <<tablaArchivosPorProceso, globales, kernel>>
      \/ /\ e > 0 /\ i = -1
         /\ Cae("indefinido")
      \/ /\ e > 0 /\ i >= 0
         /\ Dejar(IF i = 0 THEN Global ELSE Soltar(Global, i))
         /\ quitarDelProceso(p, e)
         /\ UNCHANGED estado
  BY <1>1, <1>4 DEF cerrarArchivo
<1>6. CASE /\ e = 0
           /\ Falla(p)
           /\ UNCHANGED <<tablaArchivosPorProceso, globales, kernel>>
  BY <1>2, <1>3, <1>6, SigueQuieto
<1>7. CASE /\ e > 0 /\ i = -1
           /\ Cae("indefinido")
  <2>1. e \in DOMAIN lista /\ i = HallarGlobal(lista[e])
    BY <1>1, <1>4, <1>7
  <2>2. compartidas # {}
    BY <2>1, <1>7, HallaGlobal
  <2> QED BY <2>2, <1>2, <1>3, <1>7, CaeConRazon
<1>8. CASE /\ e > 0 /\ i >= 0
           /\ Dejar(IF i = 0 THEN Global ELSE Soltar(Global, i))
           /\ quitarDelProceso(p, e)
           /\ UNCHANGED estado
  <2>1. e \in DOMAIN lista /\ i = HallarGlobal(lista[e]) /\ e \in Nat
    BY <1>1, <1>4, <1>8
  <2>2. PICK g : g = lista[e].globalFD
    OBVIOUS
  <2>3. /\ g \in GlobalFD /\ i \in Nat \cup {-1}
        /\ i = 0 => g \notin vivas
        /\ i > 0 => /\ i \in DOMAIN tablaArchivosGlobales
                    /\ tablaArchivosGlobales[i] = g /\ g \in vivas
    BY <2>1, <2>2, HallaGlobal
  <2>4. PICK st : st = IF i = 0 THEN Global ELSE Soltar(Global, i)
    OBVIOUS
  <2>5. /\ tablaArchivosGlobales' = st.tabla /\ vivas' = st.vivas /\ open' = st.open
        /\ UNCHANGED <<file, ultimoGlobalFD, borradas, compartidas, kernel>>
    BY <2>4, <1>8 DEF Dejar
  <2>6. PICK x0 : x0 = <<p, e>>
    OBVIOUS
  <2>7. /\ Listas' /\ Correlativos' /\ Registrados'
        /\ \A x \in Entradas' : \E y \in Entradas : y # x0 /\ Entrada(x)' = Entrada(y)
        /\ \A h : IsFiniteSet(Referencias(h)) =>
              /\ IsFiniteSet(Referencias(h)')
              /\ Cardinality(Referencias(h)') = Cardinality(Referencias(h) \ {x0})
    BY <2>1, <2>5, <2>6, <1>2, <1>8, AlQuitar
  <2>8. \A h : x0 \in Referencias(h) <=> h = g
    <3>1. Listas
      BY DEF TablasInv
    <3>2. x0 \in Entradas
      BY <3>1, <2>1, <2>6, SonEntradas
    <3>3. Entrada(x0) = lista[e]
      BY <2>6 DEF Entrada
    <3> QED BY <3>2, <3>3, <2>2 DEF Referencias
  <2>9. \A h \in vivas : /\ IsFiniteSet(Referencias(h))
                         /\ open[h] > 0 /\ open[h] = Cardinality(Referencias(h))
                         /\ Cardinality(Referencias(h)) \in Nat
    BY <1>2, FS_CardinalityType DEF TablasInv, Contadas
  <2>10. PICK c2 : c2 = [h \in GlobalFD |->
                            IF h \in vivas THEN Cardinality(Referencias(h) \ {x0}) ELSE 0]
    OBVIOUS
  <2>11. \A h \in vivas : /\ IsFiniteSet(Referencias(h) \ {x0})
                          /\ Cardinality(Referencias(h) \ {x0}) \in Nat
                          /\ h # g => Referencias(h) \ {x0} = Referencias(h)
                          /\ h = g => Cardinality(Referencias(h) \ {x0})
                                         = Cardinality(Referencias(h)) - 1
    <3> SUFFICES ASSUME NEW h \in vivas
                 PROVE  /\ IsFiniteSet(Referencias(h) \ {x0})
                        /\ Cardinality(Referencias(h) \ {x0}) \in Nat
                        /\ h # g => Referencias(h) \ {x0} = Referencias(h)
                        /\ h = g => Cardinality(Referencias(h) \ {x0})
                                       = Cardinality(Referencias(h)) - 1
      OBVIOUS
    <3>1. IsFiniteSet(Referencias(h) \ {x0})
      BY <2>9, FS_RemoveElement
    <3>2. Cardinality(Referencias(h) \ {x0}) \in Nat
      BY <3>1, FS_CardinalityType
    <3>3. h # g => x0 \notin Referencias(h)
      BY <2>8
    <3>4. h = g => Cardinality(Referencias(h) \ {x0}) = Cardinality(Referencias(h)) - 1
      BY <2>8, <2>9, FS_RemoveElement
    <3> QED BY <3>1, <3>2, <3>3, <3>4
  <2>12. c2 \in [GlobalFD -> Nat]
    BY <2>10, <2>11
  <2>13. \A h \in vivas : c2[h] = Cardinality(Referencias(h) \ {x0})
    BY <2>10, SonListas
  <2>14. /\ Global \in Estado /\ Global.tabla = tablaArchivosGlobales /\ Global.vivas = vivas
         /\ Global.open = open /\ vivas \subseteq GlobalFD
    BY <1>2, SonListas
  <2>15. Cuentas \in [GlobalFD -> Nat] /\ Coherente(Global, Cuentas)
    BY <1>2, GlobalCoherente
  <2>16. \A h \in vivas : Cuentas[h] = Cardinality(Referencias(h))
    BY <2>14 DEF Cuentas
  <2>17. /\ st \in Estado /\ Coherente(st, c2) /\ st.vivas \subseteq vivas
         /\ \A h \in vivas : h \notin st.vivas => h = g /\ c2[h] = 0
         /\ compartidas = {} => SinRepetir(st.tabla, st.vivas)
    <3>1. CASE i = 0
      <4>1. st = Global /\ \A h \in vivas : h # g
        BY <3>1, <2>3, <2>4
      <4>2. \A h \in vivas : c2[h] = Cuentas[h]
        BY <4>1, <2>11, <2>13, <2>16
      <4>3. Coherente(Global, c2)
        BY <4>2, <2>14, <2>15 DEF Coherente
      <4> QED BY <4>1, <4>3, <2>14 DEF TablasInv, ListaLimpia
    <3>2. CASE i > 0
      <4>1. st = Soltar(Global, i)
        BY <3>2, <2>4
      <4>2. i \in DOMAIN Global.tabla /\ Global.tabla[i] = g /\ g \in Global.vivas
        BY <3>2, <2>3, <2>14
      <4>3. c2[g] = Cuentas[g] - 1 /\ \A h \in vivas : h # g => c2[h] = Cuentas[h]
        BY <4>2, <2>11, <2>13, <2>14, <2>16
      <4>4. /\ Soltar(Global, i) \in Estado
            /\ Coherente(Soltar(Global, i), c2)
            /\ Soltar(Global, i).vivas \subseteq Global.vivas
            /\ \A h \in Global.vivas :
                  h \notin Soltar(Global, i).vivas => h = Global.tabla[i] /\ c2[h] = 0
        BY <4>2, <4>3, <2>12, <2>14, <2>15, SueltaCoherente
      <4>5. compartidas = {} => SinRepetir(Soltar(Global, i).tabla, Soltar(Global, i).vivas)
        <5>1. Global.open[Global.tabla[i]] > 0
          BY <4>2, <2>9, <2>14
        <5>2. compartidas = {} => SinRepetir(Global.tabla, Global.vivas)
          BY <2>14 DEF TablasInv, ListaLimpia
        <5> QED BY <5>1, <5>2, <4>2, <2>14, SueltaLimpia
      <4> QED BY <4>1, <4>2, <4>4, <4>5, <2>14
    <3> QED BY <3>1, <3>2, <1>8, <2>3
  <2>18. Tipos'
    <3>1. /\ tablaArchivosGlobales' \in Seq(GlobalFD)
          /\ open' \in [GlobalFD -> Nat]
      BY <2>5, <2>17 DEF Estado
    <3>2. vivas' \subseteq 0 .. ultimoGlobalFD' - 1
      BY <2>5, <2>17 DEF TablasInv, Tipos
    <3> QED BY <3>1, <3>2, <2>5, <2>7, <1>2, <1>3, <1>8 DEF TablasInv, Tipos, Registrados, Registro
  <2>19. EnLaLista'
    BY <2>5, <2>17 DEF EnLaLista, Coherente
  <2>20. Contadas'
    <3> SUFFICES ASSUME NEW h \in vivas'
                 PROVE  /\ IsFiniteSet(Referencias(h)')
                        /\ open'[h] > 0 /\ open'[h] = Cardinality(Referencias(h)')
      BY DEF Contadas
    <3>1. h \in vivas /\ h \in st.vivas
      BY <2>5, <2>17
    <3>2. IsFiniteSet(Referencias(h)') /\ Cardinality(Referencias(h)') = c2[h]
      BY <3>1, <2>7, <2>9, <2>13
    <3>3. open'[h] > 0 /\ open'[h] = c2[h]
      BY <3>1, <2>5, <2>17 DEF Coherente
    <3> QED BY <3>2, <3>3
  <2>21. UnaPorArchivo'
    BY <2>5, <2>17, <1>2 DEF TablasInv, UnaPorArchivo
  <2>22. DescriptorFiel'
    <3> SUFFICES ASSUME NEW x \in Entradas', Entrada(x)'.globalFD \in vivas'
                 PROVE  file'[Entrada(x)'.globalFD] = Entrada(x)'.archivo
      BY DEF DescriptorFiel
    <3>1. PICK y \in Entradas : Entrada(x)' = Entrada(y)
      BY <2>7
    <3> QED BY <3>1, <2>5, <2>17 DEF TablasInv, DescriptorFiel
  <2>23. Conocidas'
    <3> SUFFICES ASSUME NEW x \in Entradas' PROVE Entrada(x)'.globalFD \in vivas' \cup borradas'
      BY DEF Conocidas
    <3>1. PICK y \in Entradas : y # x0 /\ Entrada(x)' = Entrada(y)
      BY <2>7
    <3>2. PICK h : h = Entrada(y).globalFD
      OBVIOUS
    <3>3. y \in Referencias(h) \ {x0} /\ h \in vivas \cup borradas
      BY <3>1, <3>2 DEF TablasInv, Conocidas, Referencias
    <3>4. CASE h \in vivas /\ h \notin st.vivas
      <4>1. Cardinality(Referencias(h) \ {x0}) = 0
        BY <3>4, <2>13, <2>17
      <4>2. Referencias(h) \ {x0} = {}
        BY <4>1, <3>4, <2>11, FS_EmptySet
      <4> QED BY <4>2, <3>3
    <3>5. CASE h \in st.vivas \/ h \in borradas
      BY <3>1, <3>2, <3>5, <2>5
    <3> QED BY <3>3, <3>4, <3>5
  <2>24. ListaLimpia' /\ CaidaDeTablas'
    BY <2>5, <2>17, <1>2 DEF ListaLimpia, CaidaDeTablas
  <2> QED BY <2>7, <2>18, <2>19, <2>20, <2>21, <2>22, <2>23, <2>24 DEF TablasInv
<1> QED BY <1>5, <1>6, <1>7, <1>8

-----------------------------------------------------------------------------
(* The first reason to follow NULL: the descriptor of a deleted file. *)
LEMMA RazonDeNULL ==
    ASSUME TablasInv, NEW p \in Pids, NEW e \in DOMAIN tablaArchivosPorProceso[p],
           tablaArchivosPorProceso[p][e].globalFD \notin vivas
    PROVE  \E x \in Entradas : Entrada(x).globalFD \in borradas
<1>1. Listas
  BY DEF TablasInv
<1>2. <<p, e>> \in Entradas
  BY <1>1, SonEntradas
<1>3. Entrada(<<p, e>>) = tablaArchivosPorProceso[p][e]
  BY DEF Entrada
<1> QED BY <1>2, <1>3 DEF TablasInv, Conocidas

LEMMA StepBorrar ==
    ASSUME TablasInv, NEW p \in Pids, NEW fd, borrarArchivo(p, fd)
    PROVE  TablasInv'
<1> DEFINE lista == tablaArchivosPorProceso[p]
<1>1. PICK e \in Nat : /\ e = matchFileProceso(p, fd)
                       /\ e > 0 => e \in DOMAIN lista
  BY HallaFD
<1>2. PICK i : i = (IF e = 0 THEN 0 ELSE HallarGlobal(lista[e]))
  OBVIOUS
<1>3. kernel = "corre" /\ UNCHANGED <<conLista, capaFSMutexTomado, desordenados>>
  BY DEF borrarArchivo, Servible
<1>4. /\ estado \in [Pids -> {"vivo", "error", "fin"}] /\ capaFSMutexTomado \in BOOLEAN
      /\ conLista \subseteq Pids /\ desordenados \subseteq Pids
      /\ Falla(p) => estado' \in [Pids -> {"vivo", "error", "fin"}]
  BY OtroEstado
<1>5. \/ e > 0 /\ i = -1 /\ Cae("indefinido")
      \/ e > 0 /\ i = 0 /\ Cae("NULL")
      \/ /\ e > 0 /\ i > 0 /\ open[tablaArchivosGlobales[i]] = 1
         /\ archivosFS' = archivosFS \ {file[tablaArchivosGlobales[i]]}
         /\ quitarGlobal(i)
         /\ borradas' = borradas \cup {tablaArchivosGlobales[i]}
         /\ UNCHANGED <<tablaArchivosPorProceso, file, open, ultimoGlobalFD, compartidas, estado,
                        kernel>>
      \/ FallaYLibera(p)
  BY <1>1, <1>2 DEF borrarArchivo, abiertoUnaVez
<1>6. e > 0 => /\ e \in DOMAIN lista /\ i = HallarGlobal(lista[e])
  BY <1>1, <1>2
<1>7. CASE e > 0 /\ i = -1 /\ Cae("indefinido")
  <2>1. compartidas # {}
    BY <1>6, <1>7, HallaGlobal
  <2> QED BY <2>1, <1>3, <1>4, <1>7, CaeConRazon
<1>8. CASE e > 0 /\ i = 0 /\ Cae("NULL")
  <2>1. lista[e].globalFD \notin vivas
    BY <1>6, <1>8, HallaGlobal
  <2>2. \E x \in Entradas : Entrada(x).globalFD \in borradas
    BY <2>1, <1>6, <1>8, RazonDeNULL
  <2> QED BY <2>2, <1>3, <1>4, <1>8, CaeConRazon
<1>9. CASE FallaYLibera(p)
  BY <1>3, <1>4, <1>9, SigueQuieto DEF FallaYLibera
<1>10. CASE /\ e > 0 /\ i > 0 /\ open[tablaArchivosGlobales[i]] = 1
            /\ archivosFS' = archivosFS \ {file[tablaArchivosGlobales[i]]}
            /\ quitarGlobal(i)
            /\ borradas' = borradas \cup {tablaArchivosGlobales[i]}
            /\ UNCHANGED <<tablaArchivosPorProceso, file, open, ultimoGlobalFD, compartidas, estado,
                           kernel>>
  <2>1. PICK g : g = tablaArchivosGlobales[i]
    OBVIOUS
  <2>2. i \in DOMAIN tablaArchivosGlobales /\ g \in vivas
    BY <2>1, <1>6, <1>10, HallaGlobal
  <2>3. /\ Global \in Estado /\ Global.tabla = tablaArchivosGlobales /\ Global.vivas = vivas
        /\ Global.open = open /\ vivas \subseteq GlobalFD /\ open \in [GlobalFD -> Nat]
    BY <1>3, SonListas
  <2>4. /\ tablaArchivosGlobales' = RemoveAt(tablaArchivosGlobales, i) /\ vivas' = vivas \ {g}
        /\ archivosFS' = archivosFS \ {file[g]} /\ borradas' = borradas \cup {g}
        /\ open[g] = 1 /\ open[g] <= 1
    BY <2>1, <1>10 DEF quitarGlobal
  <2>5. PICK st : st = Soltar(Global, i)
    OBVIOUS
  <2>6. /\ st \in Estado
        /\ st.tabla = RemoveAt(tablaArchivosGlobales, i) /\ st.vivas = vivas \ {g}
    <3>1. i \in DOMAIN Global.tabla /\ Global.tabla[i] = g /\ g \in Global.vivas
          /\ Global.open[g] > 0 /\ Global.open[g] <= 1
      BY <2>1, <2>2, <2>3, <2>4
    <3>2. /\ Soltar(Global, i) \in Estado
          /\ Global.open[g] <= 1 =>
                /\ Soltar(Global, i).tabla = RemoveAt(Global.tabla, i)
                /\ Soltar(Global, i).vivas = Global.vivas \ {g}
      BY <3>1, <2>3, Suelta
    <3> QED BY <3>1, <3>2, <2>3, <2>5
  <2>7. Cuentas \in [GlobalFD -> Nat] /\ Coherente(Global, Cuentas)
    BY <1>3, GlobalCoherente
  <2>8. PICK c2 : c2 = [Cuentas EXCEPT ![g] = 0]
    OBVIOUS
  <2>9. Cuentas[g] = 1
    BY <2>2, <2>3, <2>4, <2>7 DEF Coherente
  <2>10. /\ c2 \in [GlobalFD -> Nat] /\ c2[g] = Cuentas[g] - 1
         /\ \A h \in vivas : h # g => c2[h] = Cuentas[h]
    BY <2>2, <2>3, <2>7, <2>8, <2>9
  <2>11. Coherente(st, c2)
    <3>1. i \in DOMAIN Global.tabla /\ Global.tabla[i] = g /\ g \in Global.vivas
      BY <2>1, <2>2, <2>3
    <3>2. \A h \in Global.vivas : h # g => c2[h] = Cuentas[h]
      BY <2>3, <2>10
    <3>3. Coherente(Soltar(Global, i), c2)
      BY <3>1, <3>2, <2>3, <2>7, <2>10, SueltaCoherente
    <3> QED BY <3>3, <2>5
  <2>12. compartidas = {} => SinRepetir(st.tabla, st.vivas)
    <3>1. i \in DOMAIN Global.tabla /\ Global.open[Global.tabla[i]] > 0
      BY <2>1, <2>2, <2>3, <2>4
    <3>2. compartidas = {} => SinRepetir(Global.tabla, Global.vivas)
      BY <2>3 DEF TablasInv, ListaLimpia
    <3> QED BY <3>1, <3>2, <2>3, <2>5, SueltaLimpia
  <2>13. /\ \A x : x \in Entradas' <=> x \in Entradas
         /\ \A x : Entrada(x)' = Entrada(x)
         /\ \A h : Referencias(h)' = Referencias(h)
    BY <1>10, MismasEntradas
  <2>14. Tipos'
    <3>1. tablaArchivosGlobales' \in Seq(GlobalFD)
      BY <2>4, <2>6 DEF Estado
    <3>2. vivas' \subseteq 0 .. ultimoGlobalFD' - 1
      BY <2>4, <1>10 DEF TablasInv, Tipos
    <3>3. (borradas \cup compartidas)' \subseteq GlobalFD
      BY <2>2, <2>3, <2>4, <1>10 DEF TablasInv, Tipos
    <3> QED BY <3>1, <3>2, <3>3, <2>4, <2>13, <1>3, <1>10 DEF TablasInv, Tipos
  <2>15. Listas' /\ Correlativos'
    BY <1>3, <1>10 DEF TablasInv, Listas, Correlativos
  <2>16. EnLaLista'
    BY <2>4, <2>6, <2>11 DEF EnLaLista, Coherente
  <2>17. Contadas'
    BY <2>4, <2>13, <1>10 DEF TablasInv, Contadas
  <2>18. UnaPorArchivo'
    BY <2>2, <2>4, <1>10 DEF TablasInv, UnaPorArchivo
  <2>19. DescriptorFiel' /\ Conocidas'
    BY <2>4, <2>13, <1>10 DEF TablasInv, DescriptorFiel, Conocidas
  <2>20. ListaLimpia' /\ CaidaDeTablas'
    BY <2>4, <2>6, <2>12, <1>3, <1>10 DEF ListaLimpia, CaidaDeTablas
  <2> QED BY <2>14, <2>15, <2>16, <2>17, <2>18, <2>19, <2>20 DEF TablasInv
<1> QED BY <1>5, <1>7, <1>8, <1>9, <1>10

LEMMA StepUsar ==
    ASSUME TablasInv, NEW p \in Pids, NEW fd, NEW permiso, usarArchivo(p, fd, permiso)
    PROVE  TablasInv'
<1> DEFINE lista == tablaArchivosPorProceso[p]
<1>1. PICK e \in Nat : /\ e = matchFileProceso(p, fd)
                       /\ e > 0 => e \in DOMAIN lista
  BY HallaFD
<1>2. PICK i : i = (IF e = 0 THEN 0 ELSE HallarGlobal(lista[e]))
  OBVIOUS
<1>3. kernel = "corre" /\ UNCHANGED <<conLista, capaFSMutexTomado, desordenados>>
  BY DEF usarArchivo, Servible
<1>4. /\ estado \in [Pids -> {"vivo", "error", "fin"}] /\ capaFSMutexTomado \in BOOLEAN
      /\ conLista \subseteq Pids /\ desordenados \subseteq Pids
      /\ Falla(p) => estado' \in [Pids -> {"vivo", "error", "fin"}]
  BY OtroEstado
<1>5. \/ e > 0 /\ i = -1 /\ Cae("indefinido")
      \/ e > 0 /\ i = 0 /\ Cae("NULL")
      \/ /\ estado' = estado \/ Falla(p)
         /\ UNCHANGED <<tablaArchivosPorProceso, globales, archivosFS, kernel>>
      \/ FallaYLibera(p)
  BY <1>1, <1>2 DEF usarArchivo
<1>6. e > 0 => /\ e \in DOMAIN lista /\ i = HallarGlobal(lista[e])
  BY <1>1, <1>2
<1>7. CASE e > 0 /\ i = -1 /\ Cae("indefinido")
  <2>1. compartidas # {}
    BY <1>6, <1>7, HallaGlobal
  <2> QED BY <2>1, <1>3, <1>4, <1>7, CaeConRazon
<1>8. CASE e > 0 /\ i = 0 /\ Cae("NULL")
  <2>1. lista[e].globalFD \notin vivas
    BY <1>6, <1>8, HallaGlobal
  <2>2. \E x \in Entradas : Entrada(x).globalFD \in borradas
    BY <2>1, <1>6, <1>8, RazonDeNULL
  <2> QED BY <2>2, <1>3, <1>4, <1>8, CaeConRazon
<1>9. CASE /\ estado' = estado \/ Falla(p)
           /\ UNCHANGED <<tablaArchivosPorProceso, globales, archivosFS, kernel>>
  BY <1>3, <1>4, <1>9, SigueQuieto
<1>10. CASE FallaYLibera(p)
  BY <1>3, <1>4, <1>10, SigueQuieto DEF FallaYLibera
<1> QED BY <1>5, <1>7, <1>8, <1>9, <1>10

LEMMA StepMostrar ==
    ASSUME TablasInv, NEW p \in Pids, showTablaProceso(p)
    PROVE  TablasInv'
<1>1. /\ UNCHANGED <<tablaArchivosPorProceso, conLista, globales, archivosFS, desordenados, estado,
                     kernel>>
      /\ capaFSMutexTomado' = (p \notin conLista)
  BY DEF showTablaProceso
<1>2. capaFSMutexTomado' \in BOOLEAN
  BY <1>1
<1> QED BY <1>1, <1>2, OtroEstado, SigueQuieto

LEMMA StepMover ==
    ASSUME TablasInv, NEW p \in Pids, NEW fd, NEW n \in Posiciones, moverCursor(p, fd, n)
    PROVE  TablasInv'
<1> DEFINE lista == tablaArchivosPorProceso[p]
<1>1. PICK e \in Nat : /\ e = matchFileProceso(p, fd)
                       /\ e > 0 => e \in DOMAIN lista
  BY HallaFD
<1>2. /\ kernel = "corre"
      /\ UNCHANGED <<conLista, globales, archivosFS, capaFSMutexTomado, desordenados, kernel>>
  BY DEF moverCursor, Servible
<1>3. /\ estado \in [Pids -> {"vivo", "error", "fin"}] /\ capaFSMutexTomado \in BOOLEAN
      /\ conLista \subseteq Pids /\ desordenados \subseteq Pids
      /\ Falla(p) => estado' \in [Pids -> {"vivo", "error", "fin"}]
  BY OtroEstado
<1>4. CASE /\ e = 0
           /\ Falla(p)
           /\ UNCHANGED tablaArchivosPorProceso
  BY <1>2, <1>3, <1>4, SigueQuieto
<1>5. CASE /\ e > 0
           /\ tablaArchivosPorProceso' = [tablaArchivosPorProceso EXCEPT ![p][e].cursor = n]
           /\ UNCHANGED estado
  <2>1. /\ UNCHANGED <<tablaArchivosGlobales, vivas, file, open, ultimoGlobalFD, borradas,
                       compartidas>>
    BY <1>2 DEF globales
  <2>2. Listas /\ e \in DOMAIN lista
    BY <1>1, <1>5 DEF TablasInv
  <2>3. /\ lista \in Seq(Registro) /\ DOMAIN lista = 1 .. Len(lista) /\ lista[e] \in Registro
        /\ Len(lista) \in Nat
    BY <2>2, UnRegistro
  <2>4. PICK r : r = [lista[e] EXCEPT !.cursor = n]
    OBVIOUS
  <2>5. /\ r \in Registro /\ r.fd = lista[e].fd /\ r.globalFD = lista[e].globalFD
        /\ r.archivo = lista[e].archivo
    BY <2>3, <2>4 DEF Registro
  <2>6. PICK s : s = [lista EXCEPT ![e] = r]
    OBVIOUS
  <2>7. /\ s \in Seq(Registro) /\ Len(s) = Len(lista) /\ DOMAIN s = DOMAIN lista
        /\ s[e] = r /\ \A i \in DOMAIN lista : i # e => s[i] = lista[i]
    BY <2>2, <2>3, <2>5, <2>6
  <2>8. tablaArchivosPorProceso' = [tablaArchivosPorProceso EXCEPT ![p] = s]
    BY <2>4, <2>6, <1>5
  <2>9. /\ tablaArchivosPorProceso \in [Pids -> Seq(Registro)]
        /\ \A q \in Pids : Len(tablaArchivosPorProceso[q]) <= MaxAbiertos
        /\ \A q \in Pids : \A i \in DOMAIN tablaArchivosPorProceso[q] :
              tablaArchivosPorProceso[q][i].globalFD < ultimoGlobalFD
    BY <2>2 DEF Listas
  <2>10. /\ tablaArchivosPorProceso' \in [Pids -> Seq(Registro)]
         /\ tablaArchivosPorProceso'[p] = s
         /\ \A q \in Pids : q # p => tablaArchivosPorProceso'[q] = tablaArchivosPorProceso[q]
    BY <2>7, <2>8, <2>9
  <2>11. ASSUME NEW q \in Pids
         PROVE  /\ Len(tablaArchivosPorProceso'[q]) = Len(tablaArchivosPorProceso[q])
                /\ DOMAIN tablaArchivosPorProceso'[q] = DOMAIN tablaArchivosPorProceso[q]
                /\ \A i \in DOMAIN tablaArchivosPorProceso[q] :
                   /\ tablaArchivosPorProceso'[q][i].fd = tablaArchivosPorProceso[q][i].fd
                   /\ tablaArchivosPorProceso'[q][i].globalFD
                         = tablaArchivosPorProceso[q][i].globalFD
                   /\ tablaArchivosPorProceso'[q][i].archivo = tablaArchivosPorProceso[q][i].archivo
    <3>1. CASE q # p
      BY <3>1, <2>10
    <3>2. CASE q = p
      <4>1. tablaArchivosPorProceso'[q] = s
        BY <3>2, <2>10
      <4>2. \A i \in DOMAIN lista : /\ s[i].fd = lista[i].fd /\ s[i].globalFD = lista[i].globalFD
                                    /\ s[i].archivo = lista[i].archivo
        BY <2>5, <2>7
      <4> QED BY <4>1, <4>2, <3>2, <2>7
    <3> QED BY <3>1, <3>2
  <2>12. Listas'
    <3>1. ultimoGlobalFD \in 0 .. MaxGlobalFD
      BY <2>2 DEF Listas
    <3>2. ASSUME NEW q \in Pids, NEW i \in DOMAIN tablaArchivosPorProceso'[q]
          PROVE  tablaArchivosPorProceso'[q][i].globalFD < ultimoGlobalFD
      <4>1. i \in DOMAIN tablaArchivosPorProceso[q]
        BY <2>11
      <4>2. tablaArchivosPorProceso'[q][i].globalFD = tablaArchivosPorProceso[q][i].globalFD
        BY <4>1, <2>11
      <4> QED BY <4>1, <4>2, <2>9
    <3>3. \A q \in Pids : Len(tablaArchivosPorProceso'[q]) <= MaxAbiertos
      BY <2>9, <2>11
    <3> QED BY <3>1, <3>2, <3>3, <2>1, <2>10 DEF Listas
  <2>13. FormaEntradas /\ FormaReferencias /\ FormaEntradas' /\ FormaReferencias' /\ Registrados'
    BY <2>2, <2>12, Formas, FormasDespues
  <2>14. \A x : x \in Entradas' <=> x \in Entradas
    BY <2>11, <2>13 DEF FormaEntradas
  <2>15. ASSUME NEW x \in Entradas
         PROVE  Entrada(x)'.globalFD = Entrada(x).globalFD /\ Entrada(x)'.archivo = Entrada(x).archivo
    <3>1. PICK q \in Pids : \E i \in DOMAIN tablaArchivosPorProceso[q] : x = <<q, i>>
      BY <2>13 DEF FormaEntradas
    <3>2. PICK i \in DOMAIN tablaArchivosPorProceso[q] : x = <<q, i>>
      BY <3>1
    <3>3. Entrada(x) = tablaArchivosPorProceso[q][i] /\ Entrada(x)' = tablaArchivosPorProceso'[q][i]
      BY <3>2 DEF Entrada
    <3> QED BY <3>3, <2>11
  <2>16. ASSUME NEW h PROVE Referencias(h)' = Referencias(h)
    <3>1. Referencias(h)' \subseteq Referencias(h)
      BY <2>14, <2>15 DEF Referencias
    <3>2. Referencias(h) \subseteq Referencias(h)'
      BY <2>14, <2>15 DEF Referencias
    <3> QED BY <3>1, <3>2
  <2>17. Tipos'
    BY <2>1, <2>13, <1>2, <1>3, <1>5 DEF TablasInv, Tipos, Registrados, Registro
  <2>18. EnLaLista' /\ UnaPorArchivo' /\ ListaLimpia'
    BY <2>1, <1>2 DEF TablasInv, EnLaLista, UnaPorArchivo, ListaLimpia
  <2>19. Contadas'
    BY <2>1, <2>16, <1>2 DEF TablasInv, Contadas
  <2>20. DescriptorFiel' /\ Conocidas'
    BY <2>1, <2>14, <2>15 DEF TablasInv, DescriptorFiel, Conocidas
  <2>21. Correlativos'
    BY <2>11, <1>2 DEF TablasInv, Correlativos
  <2>22. CaidaDeTablas'
    BY <1>2 DEF CaidaDeTablas
  <2> QED BY <2>12, <2>17, <2>18, <2>19, <2>20, <2>21, <2>22 DEF TablasInv
<1> QED BY <1>1, <1>4, <1>5 DEF moverCursor

-----------------------------------------------------------------------------
(* The end of a process: its entries are given back one after the other.   *)

(* The recursive function exists: were there no tables after m entries for *)
(* some m, there would be a least one, and the function up to the entry    *)
(* before it is extended by one more.                                      *)
HastaLa(F, m, G0, lista) ==
    F = [n \in 0 .. m |-> IF n = 0 THEN G0 ELSE fileDestroy(F[n - 1], lista[n])]

LEMMA HayPliegue ==
    ASSUME NEW G0, NEW lista, NEW L \in Nat
    PROVE  \E F : HastaLa(F, L, G0, lista)
<1> DEFINE T == {m \in Nat : ~ \E F : HastaLa(F, m, G0, lista)}
<1> SUFFICES ASSUME T # {} PROVE FALSE
  OBVIOUS
<1>1. PICK m \in T : \A k \in T : m <= k
  <2>1. T \subseteq Nat
    OBVIOUS
  <2> QED BY <2>1, MenorDe
<1>2. m \in Nat /\ ~ \E F : HastaLa(F, m, G0, lista)
  BY <1>1
<1>3. CASE m = 0
  <2> DEFINE F == [n \in 0 .. 0 |-> G0]
  <2>1. [n \in 0 .. 0 |-> IF n = 0 THEN G0 ELSE fileDestroy(F[n - 1], lista[n])] = F
    <3>1. \A n \in 0 .. 0 : n = 0
      OBVIOUS
    <3> QED BY <3>1
  <2>2. HastaLa(F, 0, G0, lista)
    BY <2>1 DEF HastaLa
  <2> HIDE DEF F
  <2> QED BY <2>2, <1>2, <1>3
<1>4. CASE m # 0
  <2>1. m - 1 \in Nat /\ ~(m <= m - 1)
    BY <1>2, <1>4
  <2>2. m - 1 \notin T
    BY <2>1, <1>1
  <2>3. PICK F : HastaLa(F, m - 1, G0, lista)
    BY <2>1, <2>2
  <2> DEFINE H == [n \in 0 .. m |-> IF n = m THEN fileDestroy(F[m - 1], lista[m]) ELSE F[n]]
  <2>4. \A n \in 0 .. m - 1 : F[n] = IF n = 0 THEN G0 ELSE fileDestroy(F[n - 1], lista[n])
    BY <2>3 DEF HastaLa
  <2>5. ASSUME NEW n \in 0 .. m
        PROVE  H[n] = IF n = 0 THEN G0 ELSE fileDestroy(H[n - 1], lista[n])
    <3>1. CASE n = m
      <4>1. m - 1 \in 0 .. m /\ m - 1 # m
        BY <2>1
      <4>2. H[m - 1] = F[m - 1]
        BY <4>1
      <4>3. H[m] = fileDestroy(F[m - 1], lista[m])
        BY <1>2
      <4> HIDE DEF H
      <4> QED BY <4>2, <4>3, <3>1, <1>4
    <3>2. CASE n # m /\ n = 0
      <4>1. H[n] = F[n] /\ n \in 0 .. m - 1
        BY <3>2, <1>2
      <4> HIDE DEF H
      <4> QED BY <4>1, <3>2, <2>4
    <3>3. CASE n # m /\ n # 0
      <4>1. H[n] = F[n] /\ n \in 0 .. m - 1
        BY <3>3, <1>2
      <4>2. n - 1 \in 0 .. m /\ n - 1 # m
        BY <3>3, <1>2
      <4>3. H[n - 1] = F[n - 1]
        BY <4>2
      <4> HIDE DEF H
      <4> QED BY <4>1, <4>3, <3>3, <2>4
    <3> QED BY <3>1, <3>2, <3>3
  <2>6. H = [n \in 0 .. m |-> H[n]]
    OBVIOUS
  <2> HIDE DEF H
  <2>7. HastaLa(H, m, G0, lista)
    BY <2>5, <2>6 DEF HastaLa
  <2> QED BY <2>7, <1>2
<1> QED BY <1>3, <1>4

LEMMA Soltadas_Recursion ==
    ASSUME NEW p, Len(tablaArchivosPorProceso[p]) \in Nat
    PROVE  LET L == Len(tablaArchivosPorProceso[p]) IN
           \A n \in 0 .. L :
              Soltadas(p)[n] = IF n = 0 THEN Global
                               ELSE fileDestroy(Soltadas(p)[n - 1], tablaArchivosPorProceso[p][n])
<1> DEFINE lista == tablaArchivosPorProceso[p]
           L == Len(lista)
<1>1. Soltadas(p) = CHOOSE F : F = [n \in 0 .. L |-> IF n = 0 THEN Global
                                                   ELSE fileDestroy(F[n - 1], lista[n])]
  BY DEF Soltadas
<1>2. \E F : HastaLa(F, L, Global, lista)
  BY HayPliegue
<1>3. \E F : F = [n \in 0 .. L |-> IF n = 0 THEN Global ELSE fileDestroy(F[n - 1], lista[n])]
  BY <1>2 DEF HastaLa
<1>4. Soltadas(p) = [n \in 0 .. L |-> IF n = 0 THEN Global
                                      ELSE fileDestroy(Soltadas(p)[n - 1], lista[n])]
  BY <1>1, <1>3
<1>5. PICK F : F = Soltadas(p)
  OBVIOUS
<1>6. F = [n \in 0 .. L |-> IF n = 0 THEN Global ELSE fileDestroy(F[n - 1], lista[n])]
  BY <1>4, <1>5
<1>7. ASSUME NEW n \in 0 .. L
      PROVE  F[n] = IF n = 0 THEN Global ELSE fileDestroy(F[n - 1], lista[n])
  BY <1>6
<1> QED BY <1>5, <1>7

(* The descriptors of an entry that are left when the first n of p were    *)
(* given back, and what is true of the tables then.                        *)
Quedan(p, n, g) == {x \in Referencias(g) : ~ (x[1] = p /\ x[2] <= n)}
CuentasTras(p, n) ==
    [g \in GlobalFD |-> IF g \in vivas THEN Cardinality(Quedan(p, n, g)) ELSE 0]
Avance(p, n, st) ==
    /\ st \in Estado
    /\ st.kernel = "corre" =>
          /\ st.vivas \subseteq vivas
          /\ Coherente(st, CuentasTras(p, n))
          /\ \A g \in vivas : Quedan(p, n, g) # {} => g \in st.vivas
          /\ compartidas = {} => SinRepetir(st.tabla, st.vivas)
    /\ st.kernel = "NULL" => \E x \in Entradas : Entrada(x).globalFD \in borradas
    /\ st.kernel = "indefinido" => compartidas # {}

LEMMA Quedantes ==
    ASSUME TablasInv, kernel = "corre", NEW p \in Pids, NEW n \in Nat
    PROVE  /\ CuentasTras(p, n) \in [GlobalFD -> Nat]
           /\ \A g \in vivas : /\ IsFiniteSet(Quedan(p, n, g))
                               /\ CuentasTras(p, n)[g] = Cardinality(Quedan(p, n, g))
                               /\ Cardinality(Quedan(p, n, g)) \in Nat
<1>1. ASSUME NEW g \in vivas
      PROVE  IsFiniteSet(Quedan(p, n, g)) /\ Cardinality(Quedan(p, n, g)) \in Nat
  <2>1. IsFiniteSet(Referencias(g)) /\ Quedan(p, n, g) \subseteq Referencias(g)
    BY DEF TablasInv, Contadas, Quedan
  <2>2. IsFiniteSet(Quedan(p, n, g))
    BY <2>1, FS_Subset
  <2> QED BY <2>2, FS_CardinalityType
<1>2. vivas \subseteq GlobalFD
  BY SonListas
<1> QED BY <1>1, <1>2 DEF CuentasTras

LEMMA PrimerAvance ==
    ASSUME TablasInv, kernel = "corre", NEW p \in Pids
    PROVE  Avance(p, 0, Global)
<1>1. /\ Global \in Estado /\ Global.vivas = vivas /\ Global.tabla = tablaArchivosGlobales
      /\ Global.kernel = kernel /\ Global.open = open /\ vivas \subseteq GlobalFD
  BY SonListas
<1>2. Listas
  BY DEF TablasInv
<1>3. ASSUME NEW g PROVE Quedan(p, 0, g) = Referencias(g)
  <2>1. ASSUME NEW x \in Referencias(g), x[1] = p PROVE ~(x[2] <= 0)
    <3>1. PICK q \in Pids : \E i \in DOMAIN tablaArchivosPorProceso[q] : x = <<q, i>>
      BY <1>2, SonReferencias
    <3>2. PICK i \in DOMAIN tablaArchivosPorProceso[q] : x = <<q, i>>
      BY <3>1
    <3>3. i \in 1 .. Len(tablaArchivosPorProceso[q]) /\ Len(tablaArchivosPorProceso[q]) \in Nat
      BY <1>2, UnRegistro
    <3>4. x[2] = i
      BY <3>2
    <3> QED BY <3>3, <3>4
  <2> QED BY <2>1 DEF Quedan
<1>4. Cuentas \in [GlobalFD -> Nat] /\ Coherente(Global, Cuentas)
  BY GlobalCoherente
<1>5. \A g \in vivas : CuentasTras(p, 0)[g] = Cuentas[g]
  BY <1>1, <1>3 DEF CuentasTras, Cuentas
<1>6. Coherente(Global, CuentasTras(p, 0))
  BY <1>1, <1>4, <1>5 DEF Coherente
<1> QED BY <1>1, <1>6 DEF Avance, TablasInv, ListaLimpia

LEMMA OtroAvance ==
    ASSUME TablasInv, kernel = "corre", NEW p \in Pids, NEW n \in Nat, NEW st,
           n + 1 \in DOMAIN tablaArchivosPorProceso[p], Avance(p, n, st)
    PROVE  Avance(p, n + 1, fileDestroy(st, tablaArchivosPorProceso[p][n + 1]))
<1>1. PICK g : g = tablaArchivosPorProceso[p][n + 1].globalFD
  OBVIOUS
<1>2. PICK i : i = Hallar(st.tabla, st.vivas, {g})
  OBVIOUS
<1>3. fileDestroy(st, tablaArchivosPorProceso[p][n + 1]) =
         IF st.kernel # "corre" THEN st
         ELSE IF i = -1 THEN [st EXCEPT !.kernel = "indefinido"]
         ELSE IF i = 0 THEN [st EXCEPT !.kernel = "NULL"]
         ELSE Soltar(st, i)
  BY <1>1, <1>2 DEF fileDestroy
<1>4. Listas /\ st \in Estado
  BY DEF TablasInv, Avance
<1>5. PICK x0 : x0 = <<p, n + 1>>
  OBVIOUS
<1>6. \A h : x0 \in Referencias(h) <=> h = g
  <2>1. x0 \in Entradas
    BY <1>4, <1>5, SonEntradas
  <2>2. Entrada(x0) = tablaArchivosPorProceso[p][n + 1]
    BY <1>5 DEF Entrada
  <2> QED BY <2>1, <2>2, <1>1 DEF Referencias
<1>7. ASSUME NEW h PROVE Quedan(p, n + 1, h) = Quedan(p, n, h) \ {x0}
  <2>1. ASSUME NEW x \in Referencias(h)
        PROVE  (x[1] = p /\ x[2] <= n + 1) <=> (x[1] = p /\ x[2] <= n) \/ x = x0
    <3>1. PICK q \in Pids : \E j \in DOMAIN tablaArchivosPorProceso[q] : x = <<q, j>>
      BY <1>4, SonReferencias
    <3>2. PICK j \in DOMAIN tablaArchivosPorProceso[q] : x = <<q, j>>
      BY <3>1
    <3>3. j \in Nat
      BY <1>4, UnRegistro
    <3>4. j <= n + 1 <=> j <= n \/ j = n + 1
      BY <3>3
    <3> QED BY <3>2, <3>4, <1>5
  <2>2. Quedan(p, n + 1, h) \subseteq Quedan(p, n, h) \ {x0}
    BY <2>1 DEF Quedan
  <2>3. Quedan(p, n, h) \ {x0} \subseteq Quedan(p, n + 1, h)
    BY <2>1 DEF Quedan
  <2> QED BY <2>2, <2>3
<1>8. x0 \in Quedan(p, n, g) /\ \A h : h # g => x0 \notin Quedan(p, n, h)
  BY <1>5, <1>6 DEF Quedan
<1>9. CASE st.kernel # "corre"
  BY <1>3, <1>9 DEF Avance
<1>10. CASE st.kernel = "corre"
  <2>1. /\ st.tabla \in Seq(GlobalFD) /\ st.vivas \subseteq GlobalFD
        /\ st = [tabla |-> st.tabla, vivas |-> st.vivas, open |-> st.open, kernel |-> st.kernel]
        /\ st.open \in [GlobalFD -> Nat]
    BY <1>4 DEF Estado
  <2>2. /\ st.vivas \subseteq vivas
        /\ Coherente(st, CuentasTras(p, n))
        /\ \A h \in vivas : Quedan(p, n, h) # {} => h \in st.vivas
        /\ compartidas = {} => SinRepetir(st.tabla, st.vivas)
    BY <1>10 DEF Avance
  <2>3. /\ i \in Nat \cup {-1}
        /\ i = 0 => \A j \in DOMAIN st.tabla : st.tabla[j] \in st.vivas /\ st.tabla[j] \notin {g}
        /\ i > 0 => /\ i \in DOMAIN st.tabla
                    /\ st.tabla[i] \in st.vivas /\ st.tabla[i] \in {g}
        /\ i = -1 => \E j \in DOMAIN st.tabla : st.tabla[j] \notin st.vivas
    BY <2>1, <1>2, Hallada
  <2>4. CASE i = -1
    <3>1. compartidas # {}
      BY <2>2, <2>3, <2>4 DEF SinRepetir
    <3>2. PICK su : su = [st EXCEPT !.kernel = "indefinido"]
      OBVIOUS
    <3>3. su \in Estado /\ su.kernel = "indefinido"
      BY <3>2, <1>4 DEF Estado
    <3>4. Avance(p, n + 1, su)
      BY <3>1, <3>3 DEF Avance
    <3> QED BY <3>2, <3>4, <2>4, <1>3, <1>10
  <2>5. CASE i = 0
    <3>1. g \notin st.vivas
      BY <2>2, <2>3, <2>5 DEF Coherente
    <3>2. g \notin vivas
      BY <3>1, <2>2, <1>8
    <3>3. \E x \in Entradas : Entrada(x).globalFD \in borradas
      BY <3>2, <1>1, RazonDeNULL
    <3>4. PICK su : su = [st EXCEPT !.kernel = "NULL"]
      OBVIOUS
    <3>5. su \in Estado /\ su.kernel = "NULL"
      BY <3>4, <1>4 DEF Estado
    <3>6. Avance(p, n + 1, su)
      BY <3>3, <3>5 DEF Avance
    <3> QED BY <3>4, <3>6, <2>5, <1>3, <1>10
  <2>6. CASE i > 0
    <3>1. i \in DOMAIN st.tabla /\ st.tabla[i] = g /\ g \in st.vivas /\ g \in vivas
      BY <2>2, <2>3, <2>6
    <3>2. fileDestroy(st, tablaArchivosPorProceso[p][n + 1]) = Soltar(st, i)
      BY <2>6, <1>3, <1>10
    <3>3. PICK c : c = CuentasTras(p, n)
      OBVIOUS
    <3>4. PICK c2 : c2 = CuentasTras(p, n + 1)
      OBVIOUS
    <3>5. /\ c \in [GlobalFD -> Nat]
          /\ \A h \in vivas : /\ IsFiniteSet(Quedan(p, n, h)) /\ c[h] = Cardinality(Quedan(p, n, h))
                              /\ Cardinality(Quedan(p, n, h)) \in Nat
      BY <3>3, Quedantes
    <3>6. /\ c2 \in [GlobalFD -> Nat]
          /\ \A h \in vivas : /\ IsFiniteSet(Quedan(p, n + 1, h))
                              /\ c2[h] = Cardinality(Quedan(p, n + 1, h))
      <4>1. n + 1 \in Nat
        OBVIOUS
      <4> QED BY <4>1, <3>4, Quedantes
    <3>7. c2[g] = c[g] - 1
      <4>1. Cardinality(Quedan(p, n, g) \ {x0}) = Cardinality(Quedan(p, n, g)) - 1
        BY <3>1, <3>5, <1>8, FS_RemoveElement
      <4> QED BY <4>1, <3>1, <3>5, <3>6, <1>7
    <3>8. \A h \in st.vivas : h # g => c2[h] = c[h]
      <4> SUFFICES ASSUME NEW h \in st.vivas, h # g PROVE c2[h] = c[h]
        OBVIOUS
      <4>1. h \in vivas
        BY <2>2
      <4>2. Quedan(p, n + 1, h) = Quedan(p, n, h)
        BY <1>7, <1>8
      <4> QED BY <4>1, <4>2, <3>5, <3>6
    <3>9. Coherente(st, c)
      BY <3>3, <2>2
    <3>10. PICK su : su = Soltar(st, i)
      OBVIOUS
    <3>11. /\ su \in Estado /\ su.kernel = st.kernel
           /\ Coherente(su, c2)
           /\ su.vivas \subseteq st.vivas
           /\ \A h \in st.vivas : h \notin su.vivas => h = g /\ c2[h] = 0
      <4>1. c2[st.tabla[i]] = c[st.tabla[i]] - 1 /\ \A h \in st.vivas : h # st.tabla[i] => c2[h] = c[h]
        BY <3>1, <3>7, <3>8
      <4>2. /\ Soltar(st, i) \in Estado /\ Soltar(st, i).kernel = st.kernel
            /\ Coherente(Soltar(st, i), c2)
            /\ Soltar(st, i).vivas \subseteq st.vivas
            /\ \A h \in st.vivas : h \notin Soltar(st, i).vivas => h = st.tabla[i] /\ c2[h] = 0
        BY <4>1, <3>1, <3>5, <3>6, <3>9, <1>4, SueltaCoherente
      <4> QED BY <4>2, <3>1, <3>10
    <3>12. compartidas = {} => SinRepetir(su.tabla, su.vivas)
      <4>1. st.open[st.tabla[i]] > 0
        BY <3>1, <3>9 DEF Coherente
      <4> QED BY <4>1, <3>1, <3>10, <2>2, <1>4, SueltaLimpia
    <3>13. ASSUME NEW h \in vivas, Quedan(p, n + 1, h) # {} PROVE h \in su.vivas
      <4>1. h \in st.vivas
        BY <3>13, <2>2, <1>7
      <4>2. CASE h \notin su.vivas
        <5>1. Cardinality(Quedan(p, n + 1, h)) = 0 /\ IsFiniteSet(Quedan(p, n + 1, h))
          BY <4>1, <4>2, <3>6, <3>11
        <5>2. Quedan(p, n + 1, h) = {}
          BY <5>1, FS_EmptySet
        <5> QED BY <5>2, <3>13
      <4> QED BY <4>2
    <3>14. su.vivas \subseteq vivas /\ Coherente(su, CuentasTras(p, n + 1)) /\ su.kernel = "corre"
      BY <3>4, <3>11, <2>2, <1>10
    <3>15. Avance(p, n + 1, su)
      BY <3>11, <3>12, <3>13, <3>14 DEF Avance
    <3> QED BY <3>2, <3>10, <3>15
  <2> QED BY <2>3, <2>4, <2>5, <2>6
<1> QED BY <1>9, <1>10

LEMMA TodoElAvance ==
    ASSUME TablasInv, kernel = "corre", NEW p \in Pids
    PROVE  LET L == Len(tablaArchivosPorProceso[p]) IN Avance(p, L, Soltadas(p)[L])
<1> DEFINE L == Len(tablaArchivosPorProceso[p])
<1>1. L \in Nat /\ DOMAIN tablaArchivosPorProceso[p] = 1 .. L
  BY UnRegistro DEF TablasInv
<1>2. \A n \in 0 .. L :
         Soltadas(p)[n] = IF n = 0 THEN Global
                          ELSE fileDestroy(Soltadas(p)[n - 1], tablaArchivosPorProceso[p][n])
  BY <1>1, Soltadas_Recursion
<1> DEFINE T == {n \in 0 .. L : ~ Avance(p, n, Soltadas(p)[n])}
<1> HIDE DEF L
<1>3. CASE T # {}
  <2>1. T \subseteq Nat
    BY <1>1
  <2>2. PICK m : m \in T /\ \A k \in T : m <= k
    BY <2>1, <1>3, MenorDe
  <2>3. m \in 0 .. L /\ ~ Avance(p, m, Soltadas(p)[m])
    BY <2>2
  <2>4. m # 0
    <3>1. 0 \in 0 .. L
      BY <1>1
    <3>2. Soltadas(p)[0] = Global
      BY <3>1, <1>2
    <3> QED BY <3>2, <2>3, PrimerAvance
  <2>5. PICK n \in Nat : m = n + 1
    <3>1. m - 1 \in Nat /\ m = (m - 1) + 1
      BY <2>3, <2>4, <1>1
    <3> QED BY <3>1
  <2>6. n \in 0 .. L /\ ~(m <= n) /\ m - 1 = n /\ n + 1 \in 1 .. L
    BY <2>3, <2>5, <1>1
  <2>7. Avance(p, n, Soltadas(p)[n])
    BY <2>2, <2>6
  <2>8. Soltadas(p)[m] = fileDestroy(Soltadas(p)[n], tablaArchivosPorProceso[p][n + 1])
    <3>1. Soltadas(p)[m] = fileDestroy(Soltadas(p)[m - 1], tablaArchivosPorProceso[p][m])
      BY <1>2, <2>3, <2>4
    <3> QED BY <3>1, <2>5, <2>6
  <2>9. Avance(p, n + 1, fileDestroy(Soltadas(p)[n], tablaArchivosPorProceso[p][n + 1]))
    BY <2>6, <2>7, <1>1, OtroAvance
  <2> QED BY <2>3, <2>5, <2>8, <2>9
<1>4. CASE T = {}
  <2>1. L \in 0 .. L
    BY <1>1
  <2>2. Avance(p, L, Soltadas(p)[L])
    BY <2>1, <1>4
  <2> QED BY <2>2 DEF L
<1> QED BY <1>3, <1>4

LEMMA StepLimpiar ==
    ASSUME TablasInv, NEW p \in Pids, cleanFilesOpen(p)
    PROVE  TablasInv'
<1>1. PICK L \in Nat : L = Len(tablaArchivosPorProceso[p])
  BY UnRegistro DEF TablasInv
<1>2. PICK st : st = Soltadas(p)[L]
  OBVIOUS
<1>3. /\ kernel = "corre"
      /\ \/ st.kernel # "corre" /\ Cae(st.kernel) /\ UNCHANGED conLista
         \/ /\ st.kernel = "corre"
            /\ Dejar(st)
            /\ tablaArchivosPorProceso' = [tablaArchivosPorProceso EXCEPT ![p] = <<>>]
            /\ conLista' = conLista \ {p}
            /\ estado' = [estado EXCEPT ![p] = "fin"]
      /\ UNCHANGED <<archivosFS, capaFSMutexTomado, desordenados>>
  BY <1>1, <1>2 DEF cleanFilesOpen
<1>4. Avance(p, L, st)
  BY <1>1, <1>2, <1>3, TodoElAvance
<1>5. st \in Estado /\ st.kernel \in {"corre", "NULL", "indefinido"}
  BY <1>4 DEF Avance, Estado
<1>6. /\ estado \in [Pids -> {"vivo", "error", "fin"}] /\ capaFSMutexTomado \in BOOLEAN
      /\ conLista \subseteq Pids /\ desordenados \subseteq Pids
  BY OtroEstado
<1>7. CASE st.kernel # "corre" /\ Cae(st.kernel) /\ UNCHANGED conLista
  <2>1. PICK como \in {"NULL", "indefinido"} : como = st.kernel
    BY <1>5, <1>7
  <2>2. /\ como = "NULL" => \E x \in Entradas : Entrada(x).globalFD \in borradas
        /\ como = "indefinido" => compartidas # {}
    BY <2>1, <1>4 DEF Avance
  <2>3. Cae(como)
    BY <2>1, <1>7
  <2> QED BY <2>2, <2>3, <1>3, <1>6, <1>7, CaeConRazon
<1>8. CASE /\ st.kernel = "corre"
           /\ Dejar(st)
           /\ tablaArchivosPorProceso' = [tablaArchivosPorProceso EXCEPT ![p] = <<>>]
           /\ conLista' = conLista \ {p}
           /\ estado' = [estado EXCEPT ![p] = "fin"]
  <2>1. /\ tablaArchivosGlobales' = st.tabla /\ vivas' = st.vivas /\ open' = st.open
        /\ UNCHANGED <<file, ultimoGlobalFD, borradas, compartidas, kernel>>
    BY <1>8 DEF Dejar
  <2>2. /\ st.vivas \subseteq vivas
        /\ Coherente(st, CuentasTras(p, L))
        /\ \A g \in vivas : Quedan(p, L, g) # {} => g \in st.vivas
        /\ compartidas = {} => SinRepetir(st.tabla, st.vivas)
    BY <1>4, <1>8 DEF Avance
  <2>3. Listas /\ tablaArchivosPorProceso \in [Pids -> Seq(Registro)] /\ DOMAIN tablaArchivosPorProceso[p] = 1 .. L
    BY <1>1, UnRegistro DEF TablasInv, Listas
  <2>4. /\ tablaArchivosPorProceso' \in [Pids -> Seq(Registro)]
        /\ tablaArchivosPorProceso'[p] = <<>>
        /\ \A q \in Pids : q # p => tablaArchivosPorProceso'[q] = tablaArchivosPorProceso[q]
    BY <2>3, <1>8
  <2>5. Len(<<>>) = 0 /\ \A i \in DOMAIN <<>> : FALSE
    OBVIOUS
  <2>6. Listas'
    <3>1. ASSUME NEW q \in Pids
          PROVE  /\ Len(tablaArchivosPorProceso'[q]) <= MaxAbiertos
                 /\ \A i \in DOMAIN tablaArchivosPorProceso'[q] :
                       tablaArchivosPorProceso'[q][i].globalFD < ultimoGlobalFD'
      <4>1. CASE q = p
        BY <4>1, <2>4, <2>5, ConstantesFS
      <4>2. CASE q # p
        BY <4>2, <2>1, <2>3, <2>4 DEF Listas
      <4> QED BY <4>1, <4>2
    <3> QED BY <3>1, <2>1, <2>3, <2>4 DEF Listas
  <2>7. FormaEntradas /\ FormaReferencias /\ FormaEntradas' /\ FormaReferencias' /\ Registrados'
    BY <2>3, <2>6, Formas, FormasDespues
  <2>8. ASSUME NEW x \in Entradas'
        PROVE  x \in Entradas /\ Entrada(x)' = Entrada(x) /\ x[1] # p
    <3>1. PICK q \in Pids : \E i \in DOMAIN tablaArchivosPorProceso'[q] : x = <<q, i>>
      BY <2>7 DEF FormaEntradas
    <3>2. PICK i \in DOMAIN tablaArchivosPorProceso'[q] : x = <<q, i>>
      BY <3>1
    <3>3. q # p
      BY <2>4, <2>5
    <3>4. i \in DOMAIN tablaArchivosPorProceso[q] /\ tablaArchivosPorProceso'[q] = tablaArchivosPorProceso[q]
      BY <3>3, <2>4
    <3>5. x \in Entradas
      BY <3>2, <3>4, <2>7 DEF FormaEntradas
    <3>6. Entrada(x)' = Entrada(x)
      BY <3>2, <3>4 DEF Entrada
    <3> QED BY <3>2, <3>3, <3>5, <3>6
  <2>9. ASSUME NEW h PROVE Referencias(h)' = Quedan(p, L, h)
    <3>1. Referencias(h)' \subseteq Quedan(p, L, h)
      BY <2>8 DEF Referencias, Quedan
    <3>2. ASSUME NEW x \in Quedan(p, L, h) PROVE x \in Referencias(h)'
      <4>1. x \in Referencias(h) /\ ~(x[1] = p /\ x[2] <= L)
        BY DEF Quedan
      <4>2. PICK q \in Pids : \E i \in DOMAIN tablaArchivosPorProceso[q] :
                x = <<q, i>> /\ tablaArchivosPorProceso[q][i].globalFD = h
        BY <4>1, <2>7 DEF FormaReferencias
      <4>3. PICK i \in DOMAIN tablaArchivosPorProceso[q] :
                x = <<q, i>> /\ tablaArchivosPorProceso[q][i].globalFD = h
        BY <4>2
      <4>4. q # p
        <5>1. CASE q = p
          <6>1. i \in 1 .. L
            BY <5>1, <2>3
          <6>2. x[1] = p /\ x[2] = i /\ i <= L
            BY <6>1, <5>1, <4>3
          <6> QED BY <6>2, <4>1
        <5> QED BY <5>1
      <4>5. i \in DOMAIN tablaArchivosPorProceso'[q] /\ tablaArchivosPorProceso'[q][i].globalFD = h
        BY <4>3, <4>4, <2>4
      <4> QED BY <4>3, <4>5, <2>7 DEF FormaReferencias
    <3> QED BY <3>1, <3>2
  <2>10. /\ CuentasTras(p, L) \in [GlobalFD -> Nat]
         /\ \A g \in vivas : /\ IsFiniteSet(Quedan(p, L, g))
                             /\ CuentasTras(p, L)[g] = Cardinality(Quedan(p, L, g))
    BY <1>3, Quedantes
  <2>11. Tipos'
    <3>1. tablaArchivosGlobales' \in Seq(GlobalFD) /\ open' \in [GlobalFD -> Nat]
      BY <2>1, <1>5 DEF Estado
    <3>2. vivas' \subseteq 0 .. ultimoGlobalFD' - 1
      BY <2>1, <2>2 DEF TablasInv, Tipos
    <3>3. estado' \in [Pids -> {"vivo", "error", "fin"}] /\ conLista' \subseteq Pids
      BY <1>6, <1>8
    <3> QED BY <3>1, <3>2, <3>3, <2>1, <2>7, <1>3, <1>6 DEF TablasInv, Tipos, Registrados, Registro
  <2>12. EnLaLista'
    BY <2>1, <2>2 DEF EnLaLista, Coherente
  <2>13. Contadas'
    <3> SUFFICES ASSUME NEW h \in vivas'
                 PROVE  /\ IsFiniteSet(Referencias(h)')
                        /\ open'[h] > 0 /\ open'[h] = Cardinality(Referencias(h)')
      BY DEF Contadas
    <3>1. h \in vivas /\ h \in st.vivas
      BY <2>1, <2>2
    <3>2. open'[h] > 0 /\ open'[h] = CuentasTras(p, L)[h]
      BY <3>1, <2>1, <2>2 DEF Coherente
    <3> QED BY <3>1, <3>2, <2>9, <2>10
  <2>14. UnaPorArchivo'
    BY <2>1, <2>2, <1>3 DEF TablasInv, UnaPorArchivo
  <2>15. DescriptorFiel'
    BY <2>1, <2>2, <2>8 DEF TablasInv, DescriptorFiel
  <2>16. Correlativos'
    <3> SUFFICES ASSUME NEW q \in Pids \ desordenados, NEW i \in DOMAIN tablaArchivosPorProceso'[q]
                 PROVE  tablaArchivosPorProceso'[q][i].fd = FD_START + (i - 1)
      BY <1>3 DEF Correlativos
    <3>1. CASE q = p
      BY <3>1, <2>4, <2>5
    <3>2. CASE q # p
      BY <3>2, <2>4 DEF TablasInv, Correlativos
    <3> QED BY <3>1, <3>2
  <2>17. Conocidas'
    <3> SUFFICES ASSUME NEW x \in Entradas' PROVE Entrada(x)'.globalFD \in vivas' \cup borradas'
      BY DEF Conocidas
    <3>1. PICK h : h = Entrada(x).globalFD
      OBVIOUS
    <3>2. x \in Quedan(p, L, h) /\ Entrada(x)'.globalFD = h
      BY <3>1, <2>8 DEF Quedan, Referencias
    <3>3. h \in vivas \cup borradas
      BY <3>1, <2>8 DEF TablasInv, Conocidas
    <3> QED BY <3>2, <3>3, <2>1, <2>2
  <2>18. ListaLimpia' /\ CaidaDeTablas'
    BY <2>1, <2>2, <1>3 DEF ListaLimpia, CaidaDeTablas
  <2> QED BY <2>6, <2>11, <2>12, <2>13, <2>14, <2>15, <2>16, <2>17, <2>18 DEF TablasInv
<1> QED BY <1>3, <1>7, <1>8

-----------------------------------------------------------------------------
(* The invariant holds in every state. *)

LEMMA TablasInicio == Init => TablasInv
<1> SUFFICES ASSUME Init PROVE TablasInv
  OBVIOUS
<1>1. /\ tablaArchivosPorProceso = [p \in Pids |-> <<>>] /\ conLista = {}
      /\ tablaArchivosGlobales = <<>> /\ vivas = {}
      /\ open = [g \in GlobalFD |-> 0] /\ ultimoGlobalFD = 0
      /\ archivosFS = EnDisco
      /\ estado = [p \in Pids |-> "vivo"]
      /\ capaFSMutexTomado = FALSE
      /\ borradas = {} /\ compartidas = {} /\ desordenados = {}
      /\ kernel = "corre"
  BY DEF Init
<1>2. file \in [GlobalFD -> Archivos]
  <2>1. (CHOOSE f \in Archivos : TRUE) \in Archivos
    BY ConstantesFS
  <2> QED BY <2>1 DEF Init
<1>3. /\ <<>> \in Seq(Registro) /\ <<>> \in Seq(GlobalFD) /\ Len(<<>>) = 0
      /\ \A i \in DOMAIN <<>> : FALSE
  OBVIOUS
<1>4. \A p \in Pids : tablaArchivosPorProceso[p] = <<>>
  BY <1>1
<1>5. Listas
  <2>1. tablaArchivosPorProceso \in [Pids -> Seq(Registro)]
    BY <1>1, <1>3
  <2>2. ultimoGlobalFD \in 0 .. MaxGlobalFD
    BY <1>1, ConstantesFS
  <2>3. \A p \in Pids : Len(tablaArchivosPorProceso[p]) <= MaxAbiertos
    BY <1>3, <1>4, ConstantesFS
  <2> QED BY <2>1, <2>2, <2>3, <1>3, <1>4 DEF Listas
<1>6. Entradas = {}
  BY <1>3, <1>4, <1>5, SonEntradas
<1>7. Tipos
  <2>1. vivas \subseteq 0 .. ultimoGlobalFD - 1 /\ open \in [GlobalFD -> Nat]
    BY <1>1
  <2>2. /\ tablaArchivosGlobales \in Seq(GlobalFD) /\ archivosFS \subseteq Archivos
        /\ conLista \subseteq Pids /\ desordenados \subseteq Pids
        /\ borradas \cup compartidas \subseteq GlobalFD
    BY <1>1, <1>3, ConstantesFS
  <2>3. /\ estado \in [Pids -> {"vivo", "error", "fin"}] /\ capaFSMutexTomado \in BOOLEAN
        /\ kernel \in {"corre", "NULL", "indefinido", "basura"}
    BY <1>1
  <2> QED BY <2>1, <2>2, <2>3, <1>2, <1>6 DEF Tipos
<1>8. EnLaLista /\ Contadas /\ UnaPorArchivo
  BY <1>1 DEF EnLaLista, Contadas, UnaPorArchivo
<1>9. DescriptorFiel /\ Conocidas
  BY <1>6 DEF DescriptorFiel, Conocidas
<1>10. Correlativos
  BY <1>3, <1>4 DEF Correlativos
<1>11. ListaLimpia /\ CaidaDeTablas
  BY <1>1, <1>3 DEF ListaLimpia, SinRepetir, CaidaDeTablas
<1> QED BY <1>5, <1>7, <1>8, <1>9, <1>10, <1>11 DEF TablasInv

LEMMA TablasPaso == TablasInv /\ [Next]_vars => TablasInv'
<1> SUFFICES ASSUME TablasInv, [Next]_vars PROVE TablasInv'
  OBVIOUS
<1>1. ASSUME NEW p \in Pids, NEW f \in Archivos, NEW b \in Permisos, NEW creacion \in BOOLEAN,
             abrirArchivo(p, f, b, creacion)
      PROVE  TablasInv'
  BY <1>1, StepAbrir
<1>2. ASSUME NEW p \in Pids, NEW fd \in FDs, cerrarArchivo(p, fd)
      PROVE  TablasInv'
  BY <1>2, StepCerrar
<1>3. ASSUME NEW p \in Pids, NEW fd \in FDs, borrarArchivo(p, fd)
      PROVE  TablasInv'
  BY <1>3, StepBorrar
<1>4. ASSUME NEW p \in Pids, NEW fd \in FDs, leerArchivo(p, fd) \/ escribirArchivo(p, fd)
      PROVE  TablasInv'
  BY <1>4, StepUsar DEF leerArchivo, escribirArchivo
<1>5. ASSUME NEW p \in Pids, NEW fd \in FDs, NEW n \in Posiciones, moverCursor(p, fd, n)
      PROVE  TablasInv'
  BY <1>5, StepMover
<1>6. ASSUME NEW p \in Pids, cleanFilesOpen(p)
      PROVE  TablasInv'
  BY <1>6, StepLimpiar
<1>7. ASSUME NEW p \in Pids, showTablaProceso(p)
      PROVE  TablasInv'
  BY <1>7, StepMostrar
<1>8. CASE UNCHANGED vars
  <2>1. UNCHANGED <<tablaArchivosPorProceso, globales, archivosFS, kernel, conLista, estado,
                    capaFSMutexTomado, desordenados>>
    BY <1>8 DEF vars, globales
  <2>2. /\ estado \in [Pids -> {"vivo", "error", "fin"}] /\ capaFSMutexTomado \in BOOLEAN
        /\ conLista \subseteq Pids /\ desordenados \subseteq Pids
    BY DEF TablasInv, Tipos
  <2> QED BY <2>1, <2>2, SigueQuieto
<1>9. CASE Next
  <2>1. PICK p \in Pids : Syscall(p) \/ cleanFilesOpen(p) \/ showTablaProceso(p)
    BY <1>9 DEF Next
  <2>2. CASE Syscall(p)
    BY <2>2, <1>1, <1>2, <1>3, <1>4, <1>5 DEF Syscall
  <2> QED BY <2>1, <2>2, <1>6, <1>7
<1> QED BY <1>8, <1>9

LEMMA TablasSiempre == Spec => []TablasInv
  BY TablasInicio, TablasPaso, PTL DEF Spec

-----------------------------------------------------------------------------
(* The third way to fall: the call that freed a pointer without a value.   *)

(* The descriptors of a process are different while they are its places.   *)
LEMMA SonDistintos == TablasInv => DescriptoresDistintos
  <1> SUFFICES ASSUME TablasInv, NEW x \in Entradas, NEW y \in Entradas,
                      x[1] = y[1], x[1] \notin desordenados, Entrada(x).fd = Entrada(y).fd
               PROVE  x = y
    BY DEF DescriptoresDistintos
  <1>1. Listas
    BY DEF TablasInv
  <1>2. PICK p \in Pids : \E i \in DOMAIN tablaArchivosPorProceso[p] : x = <<p, i>>
    BY <1>1, SonEntradas
  <1>3. PICK i \in DOMAIN tablaArchivosPorProceso[p] : x = <<p, i>>
    BY <1>2
  <1>4. PICK q \in Pids : \E j \in DOMAIN tablaArchivosPorProceso[q] : y = <<q, j>>
    BY <1>1, SonEntradas
  <1>5. PICK j \in DOMAIN tablaArchivosPorProceso[q] : y = <<q, j>>
    BY <1>4
  <1>6. p = q /\ p \notin desordenados
    BY <1>3, <1>5
  <1>7. i \in Nat /\ j \in Nat
    BY <1>1, UnRegistro
  <1>8. Entrada(x).fd = FD_START + (i - 1) /\ Entrada(y).fd = FD_START + (j - 1)
    BY <1>3, <1>5, <1>6 DEF TablasInv, Correlativos, Entrada
  <1>9. i = j
    <2>1. FD_START + (i - 1) = FD_START + (j - 1)
      BY <1>8
    <2> QED BY <2>1, <1>7 DEF FD_START
  <1> QED BY <1>3, <1>5, <1>6, <1>9

CausaInv ==
    /\ causa \subseteq [pid : Pids, fd : FDs, permiso : SUBSET Banderas]
    /\ kernel = "basura" =>
          \E c \in causa : \/ c.pid \in desordenados
                          \/ \A x \in Entradas : x[1] = c.pid /\ Entrada(x).fd = c.fd => Rechaza(x, c)

(* A call that fell had found no entry, or one that refuses it.            *)
LEMMA CausaDe ==
    ASSUME TablasInv, kernel = "corre", CausaInv, NEW p \in Pids, NEW fd \in FDs,
           NEW permiso \in SUBSET Banderas, NEW e, e = matchFileProceso(p, fd),
           FallaYLibera(p), Anotar(p, fd, permiso), UNCHANGED desordenados,
           e # 0 => IF permiso = {} THEN Cardinality(Referencias(tablaArchivosPorProceso[p][e].globalFD)) > 1
                                    ELSE tablaArchivosPorProceso[p][e].flags \notin permiso
    PROVE  CausaInv'
<1>1. CASE kernel' # "basura"
  BY <1>1 DEF Anotar, CausaInv
<1>2. CASE kernel' = "basura"
  <2>1. PICK c : c = [pid |-> p, fd |-> fd, permiso |-> permiso]
    OBVIOUS
  <2>2. c \in [pid : Pids, fd : FDs, permiso : SUBSET Banderas] /\ causa' = {c}
        /\ c.pid = p /\ c.fd = fd /\ c.permiso = permiso
    BY <1>2, <2>1 DEF Anotar
  <2>3. UNCHANGED tablaArchivosPorProceso
    BY DEF FallaYLibera
  <2>4. /\ \A x : x \in Entradas' <=> x \in Entradas
        /\ \A x : Entrada(x)' = Entrada(x)
        /\ \A g : Referencias(g)' = Referencias(g)
    BY <2>3, MismasEntradas
  <2>5. ASSUME NEW x \in Entradas, p \notin desordenados, x[1] = p, Entrada(x).fd = fd
        PROVE  Rechaza(x, c)
    <3>1. PICK i \in DOMAIN tablaArchivosPorProceso[p] : x = <<p, i>>
      <4>1. PICK q \in Pids : \E i \in DOMAIN tablaArchivosPorProceso[q] : x = <<q, i>>
        BY <2>5, SonEntradas DEF TablasInv
      <4> QED BY <4>1, <2>5
    <3>2. e # 0 /\ e \in DOMAIN tablaArchivosPorProceso[p] /\ tablaArchivosPorProceso[p][e].fd = fd
      <4>1. tablaArchivosPorProceso[p][i].fd = fd
        BY <3>1, <2>5 DEF Entrada
      <4>2. e \in Nat /\ e # 0
        BY <4>1, HallaFD
      <4> QED BY <4>2, HallaFD
    <3>3. PICK y : y = <<p, e>>
      OBVIOUS
    <3>4. y \in Entradas /\ Entrada(y) = tablaArchivosPorProceso[p][e] /\ y[1] = p
      BY <3>2, <3>3, SonEntradas DEF TablasInv, Entrada
    <3>5. x = y
      BY <2>5, <3>2, <3>4, SonDistintos DEF DescriptoresDistintos
    <3> QED BY <3>2, <3>4, <3>5, <2>2 DEF Rechaza
  <2>6. ASSUME NEW x PROVE Rechaza(x, c)' <=> Rechaza(x, c)
    BY <2>4 DEF Rechaza
  <2>7. p \in desordenados' \/ \A x \in Entradas' : x[1] = p /\ Entrada(x)'.fd = fd => Rechaza(x, c)'
    BY <2>4, <2>5, <2>6
  <2> QED BY <2>2, <2>7 DEF CausaInv
<1> QED BY <1>1, <1>2

LEMMA CausaPaso == TablasInv /\ CausaInv /\ [Next]_vars => CausaInv'
<1> SUFFICES ASSUME TablasInv, CausaInv, [Next]_vars PROVE CausaInv'
  OBVIOUS
<1>1. CASE UNCHANGED causa /\ kernel' # "basura"
  BY <1>1 DEF CausaInv
<1>2. ASSUME NEW p \in Pids, NEW fd \in FDs, borrarArchivo(p, fd)
      PROVE  CausaInv'
  <2> DEFINE lista == tablaArchivosPorProceso[p]
  <2>1. PICK e \in Nat : /\ e = matchFileProceso(p, fd)
                         /\ e > 0 => e \in DOMAIN lista
    BY HallaFD
  <2>2. PICK i : i = (IF e = 0 THEN 0 ELSE HallarGlobal(lista[e]))
    OBVIOUS
  <2>3. /\ kernel = "corre" /\ UNCHANGED desordenados /\ Anotar(p, fd, {})
        /\ \/ kernel' # "basura"
           \/ /\ e = 0 \/ (i > 0 /\ open[tablaArchivosGlobales[i]] # 1)
              /\ FallaYLibera(p)
    BY <1>2, <2>1, <2>2 DEF borrarArchivo, Servible, abiertoUnaVez, Cae
  <2>4. CASE kernel' # "basura"
    BY <2>3, <2>4, <1>1 DEF Anotar
  <2>5. CASE /\ e = 0 \/ (i > 0 /\ open[tablaArchivosGlobales[i]] # 1)
             /\ FallaYLibera(p)
    <3>1. e # 0 => Cardinality(Referencias(lista[e].globalFD)) > 1
      <4> SUFFICES ASSUME e # 0 PROVE Cardinality(Referencias(lista[e].globalFD)) > 1
        OBVIOUS
      <4>1. e \in DOMAIN lista /\ i = HallarGlobal(lista[e]) /\ i > 0
        BY <2>1, <2>2, <2>5
      <4>2. PICK g : g = tablaArchivosGlobales[i]
        OBVIOUS
      <4>3. g \in vivas /\ lista[e].globalFD = g
        BY <4>1, <4>2, HallaGlobal
      <4>4. open[g] > 0 /\ open[g] = Cardinality(Referencias(g))
        BY <2>3, <4>3 DEF TablasInv, Contadas
      <4>5. open[g] \in Nat /\ open[g] # 1
        BY <2>5, <4>1, <4>2, <4>3, SonListas
      <4> QED BY <4>3, <4>4, <4>5
    <3> QED BY <2>1, <2>3, <2>5, <3>1, CausaDe
  <2> QED BY <2>3, <2>4, <2>5
<1>3. ASSUME NEW p \in Pids, NEW fd \in FDs, NEW permiso \in SUBSET Banderas, permiso # {},
             usarArchivo(p, fd, permiso)
      PROVE  CausaInv'
  <2>1. PICK e : e = matchFileProceso(p, fd)
    OBVIOUS
  <2>2. /\ kernel = "corre" /\ UNCHANGED desordenados /\ Anotar(p, fd, permiso)
        /\ \/ kernel' # "basura"
           \/ /\ e = 0 \/ tablaArchivosPorProceso[p][e].flags \notin permiso
              /\ FallaYLibera(p)
    BY <1>3, <2>1 DEF usarArchivo, Servible, Cae
  <2>3. CASE kernel' # "basura"
    BY <2>2, <2>3, <1>1 DEF Anotar
  <2>4. CASE /\ e = 0 \/ tablaArchivosPorProceso[p][e].flags \notin permiso
             /\ FallaYLibera(p)
    BY <1>3, <2>1, <2>2, <2>4, CausaDe
  <2> QED BY <2>2, <2>3, <2>4
<1>4. ASSUME NEW p \in Pids, NEW fd \in FDs, leerArchivo(p, fd) \/ escribirArchivo(p, fd)
      PROVE  CausaInv'
  <2>1. {"r", "rw"} \in SUBSET Banderas /\ {"w", "rw"} \in SUBSET Banderas
    BY DEF Banderas
  <2>2. {"r", "rw"} # {} /\ {"w", "rw"} # {}
    OBVIOUS
  <2> QED BY <1>3, <1>4, <2>1, <2>2 DEF leerArchivo, escribirArchivo
<1>5. ASSUME NEW p \in Pids, NEW f \in Archivos, NEW b \in Permisos, NEW creacion \in BOOLEAN,
             abrirArchivo(p, f, b, creacion)
      PROVE  CausaInv'
  <2>1. UNCHANGED causa /\ kernel' # "basura"
    BY <1>5 DEF abrirArchivo, abrirExistente, abrirNuevo, Servible, Cae
  <2> QED BY <2>1, <1>1
<1>6. ASSUME NEW p \in Pids, NEW fd \in FDs, cerrarArchivo(p, fd)
      PROVE  CausaInv'
  <2>1. UNCHANGED causa /\ kernel' # "basura"
    BY <1>6 DEF cerrarArchivo, Servible, Cae, Dejar
  <2> QED BY <2>1, <1>1
<1>7. ASSUME NEW p \in Pids, NEW fd \in FDs, NEW n \in Posiciones, moverCursor(p, fd, n)
      PROVE  CausaInv'
  <2>1. UNCHANGED causa /\ kernel' # "basura"
    BY <1>7 DEF moverCursor, Servible
  <2> QED BY <2>1, <1>1
<1>8. ASSUME NEW p \in Pids, cleanFilesOpen(p)
      PROVE  CausaInv'
  <2>1. PICK L \in Nat : L = Len(tablaArchivosPorProceso[p])
    BY UnRegistro DEF TablasInv
  <2>2. PICK st : st = Soltadas(p)[L]
    OBVIOUS
  <2>3. kernel = "corre" /\ UNCHANGED causa
        /\ (kernel' = kernel \/ kernel' = st.kernel)
    BY <1>8, <2>1, <2>2 DEF cleanFilesOpen, Cae, Dejar
  <2>4. st.kernel \in {"corre", "NULL", "indefinido"}
    <3>1. Avance(p, L, st)
      BY <2>2, <2>3, <2>1, TodoElAvance
    <3> QED BY <3>1 DEF Avance, Estado
  <2> QED BY <2>3, <2>4, <1>1
<1>9. ASSUME NEW p \in Pids, showTablaProceso(p)
      PROVE  CausaInv'
  <2>1. UNCHANGED causa /\ kernel' # "basura"
    BY <1>9 DEF showTablaProceso
  <2> QED BY <2>1, <1>1
<1>10. CASE UNCHANGED vars
  <2>1. UNCHANGED <<causa, kernel, desordenados, tablaArchivosPorProceso>>
    BY <1>10 DEF vars, globales
  <2>2. /\ \A x : x \in Entradas' <=> x \in Entradas
        /\ \A x : Entrada(x)' = Entrada(x)
        /\ \A g : Referencias(g)' = Referencias(g)
    BY <2>1, MismasEntradas
  <2>3. ASSUME NEW x, NEW c PROVE Rechaza(x, c)' <=> Rechaza(x, c)
    BY <2>2 DEF Rechaza
  <2> QED BY <2>1, <2>2, <2>3 DEF CausaInv
<1>11. CASE Next
  <2>1. PICK p \in Pids : Syscall(p) \/ cleanFilesOpen(p) \/ showTablaProceso(p)
    BY <1>11 DEF Next
  <2>2. CASE Syscall(p)
    BY <2>2, <1>2, <1>4, <1>5, <1>6, <1>7 DEF Syscall
  <2> QED BY <2>1, <2>2, <1>8, <1>9
<1> QED BY <1>10, <1>11

LEMMA CausaSiempre == Spec => []CausaInv
<1>1. Init => CausaInv
  BY DEF Init, CausaInv
<1> QED BY <1>1, CausaPaso, TablasSiempre, PTL DEF Spec

-----------------------------------------------------------------------------
(* What follows from it. *)

(* The state of CapaFS.c always has its types: the lists of open files,    *)
(* the table of the system, and what is recorded of them.                  *)
THEOREM FileLayerTypes == Spec => []TypeOK
<1>1. TablasInv /\ CausaInv => TypeOK
  BY DEF TablasInv, Tipos, CausaInv, TypeOK
<1> QED BY <1>1, TablasSiempre, CausaSiempre, PTL

(* open is the number of descriptors of all the processes that refer to    *)
(* the entry, never zero; every entry names a file FileSystem has, and no  *)
(* two entries name the same one (CapaFS.c:78-112, 246, 319, 616).         *)
THEOREM OpenCountsDescriptors == Spec => []TablaConsistente
<1>1. TablasInv => TablaConsistente
  BY DEF TablasInv, Contadas, UnaPorArchivo, TablaConsistente
<1> QED BY <1>1, TablasSiempre, PTL

(* A descriptor never comes to refer to a file it was not opened for,      *)
(* however files are opened, closed and deleted by others meanwhile.       *)
THEOREM DescriptorsKeepTheirFile == Spec => []DescriptorFiel
<1>1. TablasInv => DescriptorFiel
  BY DEF TablasInv
<1> QED BY <1>1, TablasSiempre, PTL

(* A process that closes from the last file to the first never has the     *)
(* same descriptor for two files (CapaFS.c:35, 83).                        *)
THEOREM DescriptorsDiffer == Spec => []DescriptoresDistintos
  BY SonDistintos, TablasSiempre, PTL

(* The Kernel follows NULL only for the descriptor of a deleted file,      *)
(* reads a destroyed entry only if some file was opened twice at a time,   *)
(* and frees a pointer without a value only in a call of a descriptor that *)
(* no file of the program has, or two, or whose file refuses it.           *)
THEOREM FallsHaveACause == Spec => []CaidaJustificada
<1>1. TablasInv /\ CausaInv => CaidaJustificada
  BY DEF TablasInv, CaidaDeTablas, CausaInv, CaidaJustificada
<1> QED BY <1>1, TablasSiempre, CausaSiempre, PTL

(* FileSystem loses a file only by borrarArchivo, of the entry the         *)
(* descriptor found, when its count is one.                                *)
LEMMA SoloBorrarBorra ==
    ASSUME TablasInv, Next, NEW f \in archivosFS, f \notin archivosFS'
    PROVE  \E g \in vivas : file[g] = f /\ kernel = "corre" /\ open[g] = 1
<1>1. \E p \in Pids, fd \in FDs : borrarArchivo(p, fd)
  <2>1. PICK p \in Pids : Syscall(p) \/ cleanFilesOpen(p) \/ showTablaProceso(p)
    BY DEF Next
  <2>2. ~ cleanFilesOpen(p) /\ ~ showTablaProceso(p)
    BY DEF cleanFilesOpen, showTablaProceso
  <2>3. ASSUME NEW a \in Archivos, NEW b \in Permisos, NEW creacion \in BOOLEAN
        PROVE  ~ abrirArchivo(p, a, b, creacion)
    BY DEF abrirArchivo, abrirExistente, abrirNuevo, Cae
  <2>4. ASSUME NEW fd \in FDs
        PROVE  ~ cerrarArchivo(p, fd) /\ ~ leerArchivo(p, fd) /\ ~ escribirArchivo(p, fd)
    BY DEF cerrarArchivo, leerArchivo, escribirArchivo, usarArchivo, Cae, FallaYLibera
  <2>5. ASSUME NEW fd \in FDs, NEW n \in Posiciones PROVE ~ moverCursor(p, fd, n)
    BY DEF moverCursor
  <2> QED BY <2>1, <2>2, <2>3, <2>4, <2>5 DEF Syscall
<1>2. PICK p \in Pids, fd \in FDs : borrarArchivo(p, fd)
  BY <1>1
<1>3. PICK e \in Nat : /\ e = matchFileProceso(p, fd)
                       /\ e > 0 => e \in DOMAIN tablaArchivosPorProceso[p]
  BY HallaFD
<1>4. PICK i : i = (IF e = 0 THEN 0 ELSE HallarGlobal(tablaArchivosPorProceso[p][e]))
  OBVIOUS
<1>5. /\ kernel = "corre" /\ e > 0 /\ i > 0 /\ open[tablaArchivosGlobales[i]] = 1
      /\ archivosFS' = archivosFS \ {file[tablaArchivosGlobales[i]]}
  BY <1>2, <1>3, <1>4 DEF borrarArchivo, Servible, abiertoUnaVez, Cae, FallaYLibera
<1>6. e \in DOMAIN tablaArchivosPorProceso[p] /\ i = HallarGlobal(tablaArchivosPorProceso[p][e])
  BY <1>3, <1>4, <1>5
<1>7. tablaArchivosGlobales[i] \in vivas
  BY <1>5, <1>6, HallaGlobal
<1> QED BY <1>5, <1>7

(* No step takes a file away from FileSystem while two descriptors in the  *)
(* whole system refer to it (CapaFS.c:319-335).                            *)
THEOREM DeletionIsExclusive == Spec => BorradoExclusivo
<1> DEFINE Paso == \A f \in archivosFS \ archivosFS' :
                      \E g \in vivas : file[g] = f /\ Cardinality(Referencias(g)) = 1
<1>1. TablasInv /\ [Next]_vars => [Paso]_vars
  <2> SUFFICES ASSUME TablasInv, Next PROVE Paso
    OBVIOUS
  <2> SUFFICES ASSUME NEW f \in archivosFS, f \notin archivosFS'
               PROVE  \E g \in vivas : file[g] = f /\ Cardinality(Referencias(g)) = 1
    OBVIOUS
  <2>1. PICK g \in vivas : file[g] = f /\ kernel = "corre" /\ open[g] = 1
    BY SoloBorrarBorra
  <2>2. Cardinality(Referencias(g)) = 1
    BY <2>1 DEF TablasInv, Contadas
  <2> QED BY <2>1, <2>2
<1> HIDE DEF Paso
<1>2. Spec => [][Paso]_vars
  BY <1>1, TablasSiempre, PTL DEF Spec
<1> QED BY <1>2 DEF BorradoExclusivo, Paso
==============================================================================
