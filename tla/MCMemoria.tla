----------------------------- MODULE MCMemoria -----------------------------
(* Small instances of the Memoria process for TLC. *)
EXTENDS Memoria, TLC

(* One byte written at any place of a frame, at its start, and too much. *)
MCEscrituras == {<<o, <<d>>>> : o \in 0 .. MarcoSize - 1, d \in Datos \ {Cero}}
MCEscrituraUnica == {<<0, [i \in 1 .. MarcoSize |-> Cero]>>}
MCEscriturasYDesborde == MCEscrituras \cup {<<MarcoSize - 1, <<d, d>>>> : d \in Datos \ {Cero}}
MCLectura == {<<0, MarcoSize>>}
MCLecturas == {<<0, MarcoSize>>, <<MarcoSize - 1, 2>>}
=============================================================================
