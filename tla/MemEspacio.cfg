CONSTANTS
    Conexiones = {kernel, cpu1}
    Kernel = kernel
    Pids = {0, 1}
    PagsPrograma = 1
    MaxPagina = 1
    MarcoSize = 2
    Datos = {0, 1}
    Cero = 0
    Escrituras <- MCEscriturasYDesborde
    Lecturas <- MCLecturas
    Marcos = 3
    PaginasAdms = 1
    EntradasCache = 1
    CacheXProc = 1
    MaxReloj = 0
    Nadie = nadie
SPECIFICATION SpecJusta
INVARIANTS
    CacheCoherente
PROPERTIES
    ImplementaEspacio
    SeResponde
