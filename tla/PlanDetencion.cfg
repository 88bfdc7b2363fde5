CONSTANTS
    Cpus = {c1}
    NadieCPU = nadieCPU
    Consolas = {k1}
    Semaforos = {}
    SinSem = sinSem
    SemInicial <- MCSinSemaforos
    MaxProgramas = 2
    MaxEnd = 1
    MaxConEnd = 2
    MaxValor = 0
    GradoMultiprog = 1
    Capacidad = 1
    Desconectables = {}
    Senalables = {}
    Modo = "RR"
    MaxStop = 2
    MaxCambios = 2
    MaxGrado = 2
SPECIFICATION SpecD
INVARIANTS
    EsperanRespaldados
    GradoConcuerda
    MemoriaAcotada
PROPERTIES
    ColasQuietas
CONSTRAINT Casos
CHECK_DEADLOCK FALSE
