CONSTANTS
    Cpus = {c1}
    NadieCPU = nadieCPU
    Consolas = {k1}
    Semaforos = {s1}
    SinSem = sinSem
    SemInicial <- MCSemInicial
    ValorInicial = 0
    MaxProgramas = 2
    MaxEnd = 0
    MaxConEnd = 0
    MaxValor = 1
    GradoMultiprog = 2
    Capacidad = 2
    Desconectables = {}
    Senalables = {}
    Modo = "FIFO"
SPECIFICATION Spec
INVARIANTS
    CPUNoSigueConBloqueado
CHECK_DEADLOCK FALSE
