CONSTANTS
    p1 = p1
    p2 = p2
    PID <- MCPids
    Nadie = nadie
    MaxMensajes = 2
    MaxTarde = 1
    MaxEnd = 1
SPECIFICATION SpecJusta
INVARIANTS
    TypeOK
    EntregaFiel
PROPERTIES
    TodosSeEnteran
CHECK_DEADLOCK FALSE
