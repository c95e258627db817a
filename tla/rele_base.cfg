\* One chair whose device restores its last state, and one fault.
CONSTANTS
    Fresca = 2
    Asentado = 1
    Confirma = 1
    Reintentos = 1
    Lotes = 1
    Restaura = TRUE
    Eventos = {"parada", "vence"}
    MaxFallos = 1
SPECIFICATION FairSpec
INVARIANTS TypeOK CorteVerdadero
PROPERTIES ActivaRecuperaRele HuerfanoSeApaga
