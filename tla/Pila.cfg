CONSTANTS
    Programas <- MCProgramas
    Letras = {"a", "b"}
    Digitos = {"0", "1"}
    Numero <- MCNumero
    PagsCodigo = 1
    StackSize = 6
    PaginaTam = 8
    Limite = 11
    Basura = {12, 100}
SPECIFICATION Spec
INVARIANTS
    PosicionesPropias
PROPERTIES
    ImplementaContextos
CHECK_DEADLOCK FALSE
