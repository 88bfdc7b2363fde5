SPECIFICATION Spec
CONSTANTS
    f1 = f1
    f2 = f2
    Archivos <- MCArchivos
    Datos = {x}
    Cero = Cero
    Basura = Basura
    tamanioBloque = 2
    cantidadBloques = 3
    Offsets = {0, 1, 3, 4}
    Tamanios = {0, 3}
VIEW Disco
SYMMETRY Simetria
INVARIANTS
    TypeOK
    BloquesPropios
PROPERTIES
    LecturaFiel
    EspacioJusto
    EscrituraFiel
