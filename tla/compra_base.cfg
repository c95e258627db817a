SPECIFICATION Spec
CONSTANTS
    p1 = p1
    p2 = p2
    Pestana = {p1, p2}
    MaxReservas = 2
    MaxPendientes = 1
    NumSillas = 1
SYMMETRY Pestanas
CHECK_DEADLOCK FALSE
INVARIANTS TypeOK TopeDeTurnos SesionRecordada
