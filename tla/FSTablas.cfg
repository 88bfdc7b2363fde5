CONSTANTS
    Pids = {p1, p2}
    Archivos = {a, b}
    EnDisco = {a}
    MaxGlobalFD = 3
    MaxTabla = 3
    MaxAbiertos = 2
    Permisos = {"r", "w"}
    Posiciones = {0}
SPECIFICATION Spec
SYMMETRY Simetria
INVARIANTS
    TypeOK
    TablaConsistente
    DescriptorFiel
    DescriptoresDistintos
    CaidaJustificada
PROPERTIES
    BorradoExclusivo
CHECK_DEADLOCK FALSE
