SPECIFICATION Spec
CONSTANTS
    p1 = p1
    p2 = p2
    Pestana = {p1, p2}
    MaxReservas = 1
    MaxPendientes = 1
    NumSillas = 1
CHECK_DEADLOCK FALSE
PROPERTY AvisoVerdadero
