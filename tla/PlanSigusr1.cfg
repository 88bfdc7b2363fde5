CONSTANTS
    Cpus = {c1, c2}
    NadieCPU = nadieCPU
    Consolas = {k1}
    Semaforos = {}
    SinSem = sinSem
    SemInicial <- MCSemInicial
    ValorInicial = 0
    MaxProgramas = 2
    MaxEnd = 0
    MaxConEnd = 0
    MaxValor = 0
    GradoMultiprog = 1
    Capacidad = 1
    Desconectables = {}
    Senalables = {c1}
    Modo = "RR"
SPECIFICATION SpecJusta
INVARIANTS
    TypeOK
    DespachosSuficientes
PROPERTIES
    TodoProgramaTermina
CHECK_DEADLOCK FALSE
