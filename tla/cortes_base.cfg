CONSTANTS
    Duracion = 6
    Minuto = 2
    Gracia = 1
    Reinicio = 1
    Resto = 1
    Umbral = 5
    Margen = 2
    Pausa = 1
    Retorno = 1
    Asentado = 2
    Fresca = 3
    Demora = 1
    Latencia = 1
    BaseRapida = TRUE
    MaxFallos = 2
    MaxArranque = 12
    MaxHora = 45
SPECIFICATION FairSpec
INVARIANTS TypeOK ApagaSolo DaLoPagado ValePorLoQueFalta
PROPERTIES LiberarNoSube TerminaSiempre
CHECK_DEADLOCK FALSE
