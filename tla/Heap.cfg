SPECIFICATION Spec
CONSTANTS
    p1 = p1
    p2 = p2
    Pids <- MCPids
    Pedidos <- MCPedidos
    tamanio_pag_memoria = 20
    paginasTotales = 1
    Marcos = 3
    MaxPagina = 3
SYMMETRY Simetria
INVARIANTS
    TypeOK
    PaginaBienFormada
PROPERTIES
    NumeracionConcuerda
    ImplementaAsignador
CHECK_DEADLOCK FALSE
