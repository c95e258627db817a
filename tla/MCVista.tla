------------------------------- MODULE MCVista -------------------------------
EXTENDS Vista

Vacia == [sesion |-> "NINGUNA", corte |-> FALSE, motivo |-> "NINGUNA", silla |-> "LIBRE",
          otra |-> FALSE, turno |-> "NINGUNA", vale |-> FALSE, offline |-> FALSE,
          momento |-> "masaje"]

\* A direct payment, a turn in the queue, and the massage of each.
Pagando == [Vacia EXCEPT !.sesion = "PENDIENTE", !.silla = "PAGO_PENDIENTE"]
SinLuz == [Vacia EXCEPT !.sesion = "ESPERANDO_ENERGIA", !.silla = "PAGO_PENDIENTE"]
ConMasaje == [Vacia EXCEPT !.sesion = "ACTIVA", !.silla = "EN_USO", !.momento = "gracia"]
Cortada == [ConMasaje EXCEPT !.corte = TRUE, !.offline = TRUE]
Saliendo == [ConMasaje EXCEPT !.sesion = "SALIDA", !.momento = "pausa"]
Encolando == [Vacia EXCEPT !.turno = "ESPERANDO_PAGO"]
EnFila == [Vacia EXCEPT !.turno = "EN_COLA"]
ConTurno == [Vacia EXCEPT !.turno = "ASIGNADO", !.silla = "RESERVADA"]
TurnoCortado == [Cortada EXCEPT !.turno = "EN_USO"]

Abre(tipos, estados, seOculta) ==
    {[tipo |-> t, db |-> d, seOculta |-> seOculta] : t \in tipos, d \in estados}
IniciosMC ==
    Abre({"landing"}, {Vacia, Pagando, ConMasaje}, FALSE)
    \cup Abre({"tv"}, {ConMasaje}, TRUE) \cup Abre({"exitoSinId"}, {Pagando}, FALSE)
    \cup Abre({"exito"}, {Pagando, SinLuz, ConMasaje, Saliendo}, FALSE)
    \cup Abre({"exito"}, {Cortada}, TRUE)
    \cup Abre({"turno"}, {Encolando, EnFila, ConTurno, TurnoCortado}, FALSE)
=============================================================================
