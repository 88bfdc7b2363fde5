CONSTANTS
    Cpus = {c1}
    NadieCPU = nadieCPU
    Consolas = {k1}
    Semaforos = {s1}
    SinSem = sinSem
    SemInicial <- MCSemInicial
    ValorInicial = 0
    MaxProgramas = 2
    MaxEnd = 1
    MaxConEnd = 1
    MaxValor = 1
    GradoMultiprog = 2
    Capacidad = 2
    Desconectables = {k1}
    Senalables = {}
    Modo = "RR"
SPECIFICATION Spec
INVARIANTS
    UnSoloLugar
    PedidoNoOlvidado
    FinCompleto
    TenenciaUnica
    BloqueadosDespertables
    UnicoAbrazoMortal
CONSTRAINT HastaElDesfase
CHECK_DEADLOCK FALSE
