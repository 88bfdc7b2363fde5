CONSTANTS
    Conexiones = {kernel, cpu1}
    Kernel = kernel
    Pids = {0, 1}
    PagsPrograma = 1
    MaxPagina = 2
    MarcoSize = 1
    Datos = {0}
    Cero = 0
    Escrituras <- MCEscrituraUnica
    Lecturas <- MCLectura
    Marcos = 4
    PaginasAdms = 1
    EntradasCache = 2
    CacheXProc = 1
    MaxReloj = 1
    Nadie = nadie
SPECIFICATION Spec
INVARIANTS
    TypeOK
    PaginasUnicas
    CacheConcuerda
    CuotaRespetada
