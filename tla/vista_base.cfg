CONSTANTS
    Inicios <- IniciosMC
    Ttl = 1
    Intervalo = 1
    Castigo = 2
    MaxManejos = 1
    MaxCargas = 3
    MaxSondeos = 2
    MaxEventos = 1
SPECIFICATION FairSpec
PROPERTIES SeActualizaSola ValeALaVista
INVARIANTS TypeOK RespuestaVigente
CHECK_DEADLOCK FALSE
