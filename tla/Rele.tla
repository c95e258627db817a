-------------------------------- MODULE Rele --------------------------------
(***************************************************************************)
(* ShellyService, HeartbeatService and the pass of EnergiaService: what    *)
(* the backend believes about the relay of a chair, and what the relay     *)
(* really does.                                                            *)
(*                                                                         *)
(* Every request to Shelly Cloud goes through one chain (throttle) that    *)
(* sends the next one when the previous one has answered.  A command that  *)
(* the cloud refuses for its rate limit waits OUTSIDE the chain and enters *)
(* it again at the end, so two commands may be executed in the opposite    *)
(* order.  The heartbeat reads the device through the same chain; a pass   *)
(* decides with the last reading, however old it is.                       *)
(*                                                                         *)
(* One chair is modelled.  The unit of time is one heartbeat (30 s), and   *)
(* instants are kept as ages that stop growing once no comparison can tell *)
(* them apart.  The heartbeat and the pass run once per unit and requests  *)
(* are answered within it, save for the faults (`fallos`): a refused or    *)
(* lost request, a slow one, a power cut.  After the last fault the cloud  *)
(* answers every request.                                                  *)
(*                                                                         *)
(* The session is seen as this code sees it: its state, whether a cut is   *)
(* registered, whether its end is due.  Its handlers are those of module   *)
(* Sesiones, with the statements that follow a command in one step and     *)
(* without the return pulse, one more ON and OFF of the same kind.         *)
(***************************************************************************)
EXTENDS Integers, Sequences, FiniteSets

CONSTANTS
    Fresca,     \* FRESCURA_MAX_MS, oldest reading a pass decides with
    Asentado,   \* the 60 s of arranqueYaAsentado
    Confirma,   \* CONFIRMACION_HUERFANO_MS
    Reintentos, \* REINTENTOS_RATE_LIMIT
    Lotes,      \* requests one reading takes (ten device ids in each)
    Restaura,   \* initial_state of the device is not 'off'
    Eventos,    \* the optional entry points this environment uses
    MaxFallos   \* bound: faults of the cloud, the network and the power

ASSUME TiemposAssumption ==
    /\ Fresca \in Nat \ {0} /\ Asentado \in Nat \ {0} /\ Confirma \in Nat \ {0}
ASSUME ReintentosAssumption == Reintentos \in Nat
ASSUME LotesAssumption == Lotes \in {1, 2}
ASSUME RestauraAssumption == Restaura \in BOOLEAN
ASSUME EventosAssumption == Eventos \subseteq {"parada", "vence"}
ASSUME FallosAssumption == MaxFallos \in Nat

VARIABLES
    luz,        \* the premises have power
    nube,       \* Shelly Cloud takes the device for online
    rele,       \* the contact is closed; without power, the last one reported
    autoOff,    \* the device has a toggle_after pending
    orden,      \* setRele calls in flight, by who issued them
    cadena,     \* ShellyService.cadena: the request in flight and those behind it
    latido,     \* HeartbeatService.chequear
    salud,      \* HeartbeatService.salud of the chair
    trasComando,\* age of ultimoComando, or of the start of the session
    sesion,     \* Sesion.estado of the last session of the chair
    cortada,    \* its interrumpidaEn is not null
    vence,      \* its finProgramado has passed
    pasada,     \* EnergiaService.revisar
    huerfano,   \* huerfanosDesde: 0 if absent, else its age plus one
    turno,      \* the @Interval callbacks that are due in this unit of time
    fallos,     \* faults so far
    abierto,    \* history: the contact has been open since the last ON
    corteFalso  \* history: a cut was registered though it never was

aparato == <<luz, nube, rele, autoOff>>
pedidos == <<orden, cadena>>
fila == <<sesion, cortada, vence>>
historia == <<abierto, corteFalso>>
vars == <<luz, nube, rele, autoOff, orden, cadena, latido, salud, trasComando,
          sesion, cortada, vence, pasada, huerfano, turno, fallos,
          abierto, corteFalso>>

-----------------------------------------------------------------------------
Quienes == {"enciende", "apaga", "barrido", "parada"}
Pedidos == Quienes \cup {"lectura"}
\* What the handler that awaits the command does next.
Fines == {"nada", "activar", "reanudar", "fin", "corte", "barrido", "parada"}
Pasos == {"libre", "cola", "pausa"}
Orden == [paso: Pasos, para: Fines, intento: 0..Reintentos]
SinOrden == [paso |-> "libre", para |-> "nada", intento |-> 0]

\* A SaludSilla; edad is the age of ultimoChequeo, posterior says that it is
\* later than the last command.
Salud == [hay: BOOLEAN, online: BOOLEAN, rele: BOOLEAN,
          edad: 0..Fresca + 1, posterior: BOOLEAN]
SinSalud == [hay |-> FALSE, online |-> FALSE, rele |-> FALSE,
             edad |-> 0, posterior |-> FALSE]
\* pc is the command the pass awaits, or its place in the sweep; foto is the
\* reading it began with.
Pasada == [pc: {"libre", "enciende", "apaga", "barrido", "lista", "barrer"}, foto: Salud,
           conSesion: BOOLEAN]
PasadaLibre == [pc |-> "libre", foto |-> SinSalud, conSesion |-> FALSE]
Latido == [pc: {"libre", "lote1", "lote2"}, online: BOOLEAN, rele: BOOLEAN]
LatidoLibre == [pc |-> "libre", online |-> FALSE, rele |-> FALSE]

ConSesion == {"ACTIVA", "ESPERANDO_ENERGIA"}

TypeOK ==
    /\ {luz, nube, rele, autoOff, cortada, vence, abierto, corteFalso} \subseteq BOOLEAN
    /\ orden \in [Quienes -> Orden]
    /\ cadena \in Seq(Pedidos)
    /\ latido \in Latido
    /\ salud \in Salud
    /\ trasComando \in 0..Asentado + 1
    /\ sesion \in ConSesion \cup {"LIBRE", "PENDIENTE"}
    /\ pasada \in Pasada
    /\ huerfano \in 0..Confirma + 1
    /\ turno \subseteq {"latido", "pasada"}
    /\ fallos \in 0..MaxFallos

Init ==
    /\ luz = TRUE /\ nube = TRUE /\ rele = FALSE /\ autoOff = FALSE
    /\ orden = [q \in Quienes |-> SinOrden]
    /\ cadena = <<>>
    /\ latido = LatidoLibre /\ salud = SinSalud
    /\ trasComando = Asentado + 1
    /\ sesion = "LIBRE" /\ cortada = FALSE /\ vence = FALSE
    /\ pasada = PasadaLibre /\ huerfano = 0
    /\ turno = {"latido", "pasada"} /\ fallos = 0
    /\ abierto = TRUE /\ corteFalso = FALSE

-----------------------------------------------------------------------------
(* The chain of requests.                                                  *)

\* throttle: the next request is sent once the previous one has answered.
EnVuelo(p) == cadena # <<>> /\ Head(cadena) = p

\* setRele: the command takes its place in the chain.
Pide(q, para) ==
    /\ orden[q].paso = "libre"
    /\ orden' = [orden EXCEPT ![q] = [paso |-> "cola", para |-> para, intento |-> 0]]
    /\ cadena' = Append(cadena, q)

\* Mutant of RateLimit: it never gives up.
RateLimitSinTope(q) ==
    /\ EnVuelo(q)
    /\ fallos < MaxFallos /\ fallos' = fallos + 1
    /\ orden' = [orden EXCEPT ![q].paso = "pausa", ![q].intento = @ + 1]
    /\ cadena' = Tail(cadena)
    /\ UNCHANGED <<aparato, latido, salud, trasComando, fila, pasada, huerfano,
                   turno, historia>>

\* postConReintentoRateLimit: the command waits outside the chain.
RateLimit(q) ==
    /\ EnVuelo(q)
    /\ fallos < MaxFallos /\ fallos' = fallos + 1
    /\ orden[q].intento < Reintentos
    /\ orden' = [orden EXCEPT ![q].paso = "pausa"]
    /\ cadena' = Tail(cadena)
    /\ UNCHANGED <<aparato, latido, salud, trasComando, fila, pasada, huerfano,
                   turno, historia>>

Reintenta(q) ==
    /\ orden[q].paso = "pausa"
    /\ orden' = [orden EXCEPT ![q].paso = "cola", ![q].intento = @ + 1]
    /\ cadena' = Append(cadena, q)
    /\ UNCHANGED <<aparato, latido, salud, trasComando, fila, pasada, huerfano,
                   turno, fallos, historia>>

-----------------------------------------------------------------------------
(* What follows a command in the handler that awaits it.                   *)

\* setRele returned: readings from before this moment no longer count.
Aceptado ==
    /\ salud' = [salud EXCEPT !.posterior = FALSE]
    /\ trasComando' = 0

QuedaLibre == sesion' = "LIBRE" /\ cortada' = FALSE /\ vence' = FALSE

\* The handler of the session, once its command was accepted or refused.
Concluye(para, ok) ==
    \/ /\ para = "activar"
       /\ sesion' = IF ok THEN "ACTIVA" ELSE "ESPERANDO_ENERGIA"
       /\ cortada' = IF ok THEN FALSE ELSE cortada
       /\ vence' = FALSE
    \/ /\ para = "reanudar" /\ ok /\ sesion = "ACTIVA" /\ cortada
       /\ cortada' = FALSE /\ vence' = FALSE /\ UNCHANGED sesion
    \/ /\ \/ para \in {"fin", "corte"} /\ sesion = "ACTIVA"
          \/ para = "parada" /\ ok /\ sesion \in ConSesion
       /\ QuedaLibre
    \/ /\ \/ para = "reanudar" /\ ~(ok /\ sesion = "ACTIVA" /\ cortada)
          \/ para \in {"fin", "corte"} /\ sesion # "ACTIVA"
          \/ para = "parada" /\ ~(ok /\ sesion \in ConSesion)
          \/ para = "barrido"
       /\ UNCHANGED fila

\* The command q is over: its handler goes on, and the pass if it awaited it.
Vuelve(q, ok) ==
    /\ cadena' = Tail(cadena)
    /\ orden' = [orden EXCEPT ![q] = SinOrden]
    /\ Concluye(orden[q].para, ok)
    /\ pasada' = CASE pasada.pc # q -> pasada
                   [] q = "barrido" -> PasadaLibre
                   [] OTHER -> [pasada EXCEPT !.pc = "lista"]
    /\ huerfano' = IF q = "barrido" /\ ok THEN 0 ELSE huerfano
    /\ UNCHANGED <<luz, nube, latido, turno, corteFalso>>

\* The contact obeys; an ON programs its toggle_after, an OFF clears it.
Obedece(q) ==
    /\ luz /\ nube
    /\ rele' = (q = "enciende") /\ autoOff' = (q = "enciende")
    /\ abierto' = (q # "enciende")

EjecutaYResponde(q) ==
    /\ EnVuelo(q) /\ Obedece(q) /\ Vuelve(q, TRUE) /\ Aceptado
    /\ UNCHANGED fallos

\* The device obeyed and the answer was lost: for setRele it is an error.
EjecutaSinRespuesta(q) ==
    /\ EnVuelo(q) /\ Obedece(q) /\ Vuelve(q, FALSE)
    /\ fallos < MaxFallos /\ fallos' = fallos + 1
    /\ UNCHANGED <<salud, trasComando>>

\* DEVICE_OFFLINE, or any error of the cloud or the network.
Rechaza(q) ==
    /\ EnVuelo(q) /\ Vuelve(q, FALSE)
    /\ IF luz /\ nube THEN fallos < MaxFallos /\ fallos' = fallos + 1
                      ELSE UNCHANGED fallos
    /\ UNCHANGED <<rele, autoOff, abierto, salud, trasComando>>

-----------------------------------------------------------------------------
(* The heartbeat.                                                          *)

Latir ==
    /\ "latido" \in turno /\ turno' = turno \ {"latido"}
    /\ latido.pc = "libre"
    /\ latido' = [latido EXCEPT !.pc = "lote1"]
    /\ cadena' = Append(cadena, "lectura")
    /\ UNCHANGED <<aparato, orden, salud, trasComando, fila, pasada, huerfano,
                   fallos, historia>>

\* The reading of this chair comes in the first request.  listarDispositivos
\* dates the whole list when the last one has answered, and the cache it
\* keeps never holds anything but the reading that salud has.
Lee ==
    /\ EnVuelo("lectura")
    /\ LET dato == IF latido.pc = "lote1" THEN [online |-> nube, rele |-> rele]
                                         ELSE [online |-> latido.online, rele |-> latido.rele]
       IN  IF latido.pc = "lote1" /\ Lotes = 2
           THEN /\ latido' = [pc |-> "lote2", online |-> dato.online, rele |-> dato.rele]
                /\ cadena' = Append(Tail(cadena), "lectura")
                /\ UNCHANGED salud
           ELSE /\ salud' = [hay |-> TRUE, online |-> dato.online, rele |-> dato.rele,
                             edad |-> 0, posterior |-> TRUE]
                /\ latido' = LatidoLibre
                /\ cadena' = Tail(cadena)
    /\ UNCHANGED <<aparato, orden, trasComando, fila, pasada, huerfano, turno, fallos,
                   historia>>

\* The query fails: the old cache or nothing, salud stays as it was.
LeeFalla ==
    /\ EnVuelo("lectura") /\ cadena' = Tail(cadena)
    /\ fallos < MaxFallos /\ fallos' = fallos + 1
    /\ latido' = LatidoLibre
    /\ UNCHANGED <<aparato, orden, salud, trasComando, fila, pasada, huerfano, turno,
                   historia>>

-----------------------------------------------------------------------------
(* The pass of EnergiaService: first the session, then the orphan sweep.   *)

esFresca(s) == s.hay /\ s.edad <= Fresca
\* Mutant of arranqueYaAsentado: any fresh reading counts.
ArranqueSinComando(s) == s.hay /\ trasComando > Asentado
arranqueYaAsentado(s) == s.posterior /\ trasComando > Asentado

\* What the pass does with the row.  How long a cut has lasted is not
\* modelled: an interrupted session may be past the threshold at any time.
Abierta == sesion = "ACTIVA" /\ ~cortada
ActivarEsperada == sesion = "ESPERANDO_ENERGIA" /\ esFresca(salud) /\ salud.online
Reanudar == sesion = "ACTIVA" /\ cortada /\ esFresca(salud) /\ salud.online
VerOffline == Abierta /\ esFresca(salud) /\ ~salud.online
\* Mutant of VerReleAbierto: it trusts the cloud to have seen every cut.
VerReleAbiertoDesconectado == Abierta /\ esFresca(salud) /\ ~salud.online /\ ~salud.rele
VerReleAbierto ==
    /\ Abierta /\ esFresca(salud) /\ salud.online
    /\ ~salud.rele /\ arranqueYaAsentado(salud)

EmpiezaPasada(pc) ==
    /\ "pasada" \in turno /\ turno' = turno \ {"pasada"}
    /\ pasada.pc = "libre"
    /\ pasada' = [PasadaLibre EXCEPT !.pc = pc, !.foto = salud]

RevisaOmite ==
    /\ EmpiezaPasada(IF salud.hay THEN "lista" ELSE "libre")
    /\ ~ActivarEsperada /\ ~Reanudar /\ ~VerOffline /\ ~VerReleAbierto
    /\ UNCHANGED <<aparato, pedidos, latido, salud, trasComando, fila, huerfano, fallos,
                   historia>>

RevisaEspera ==
    /\ ActivarEsperada
    /\ EmpiezaPasada("enciende") /\ Pide("enciende", "activar")
    /\ UNCHANGED <<aparato, latido, salud, trasComando, fila, huerfano, fallos,
                   historia>>

RevisaCierra ==
    /\ sesion = "ACTIVA" /\ cortada
    /\ EmpiezaPasada("apaga") /\ Pide("apaga", "corte")
    /\ UNCHANGED <<aparato, latido, salud, trasComando, fila, huerfano, fallos,
                   historia>>

RevisaReanuda ==
    /\ Reanudar
    /\ EmpiezaPasada("enciende") /\ Pide("enciende", "reanudar")
    /\ UNCHANGED <<aparato, latido, salud, trasComando, fila, huerfano, fallos,
                   historia>>

RevisaCorte ==
    /\ VerOffline /\ cortada' = TRUE
    /\ EmpiezaPasada("lista")
    /\ UNCHANGED <<aparato, pedidos, latido, salud, trasComando, sesion, vence, huerfano,
                   fallos, historia>>

\* A cut the cloud never saw: registered and resumed in the same pass.
RevisaReleAbierto ==
    /\ VerReleAbierto /\ cortada' = TRUE
    /\ corteFalso' = (corteFalso \/ ~abierto)
    /\ EmpiezaPasada("enciende") /\ Pide("enciende", "reanudar")
    /\ UNCHANGED <<aparato, latido, salud, trasComando, sesion, vence, huerfano,
                   fallos, abierto>>

\* apagarRelesHuerfanos lists the sessions that use a relay.
Lista ==
    /\ pasada.pc = "lista"
    /\ pasada' = [pasada EXCEPT !.pc = "barrer", !.conSesion = sesion \in ConSesion]
    /\ UNCHANGED <<aparato, pedidos, latido, salud, trasComando, fila, huerfano, turno,
                   fallos, historia>>

EsHuerfano ==
    /\ pasada.foto.online /\ pasada.foto.rele
    /\ ~pasada.conSesion /\ esFresca(pasada.foto)

\* Mutant of Barre: every pass starts the confirmation again.
BarreReinicia ==
    /\ pasada.pc = "barrer"
    /\ huerfano' = IF EsHuerfano THEN 1 ELSE 0
    /\ pasada' = PasadaLibre
    /\ UNCHANGED <<aparato, pedidos, latido, salud, trasComando, fila, turno, fallos,
                   historia>>

Barre ==
    /\ pasada.pc = "barrer"
    /\ \/ /\ ~EsHuerfano /\ huerfano' = 0
       \/ /\ EsHuerfano /\ huerfano = 0 /\ huerfano' = 1
       \/ /\ EsHuerfano /\ huerfano \in 1..Confirma /\ UNCHANGED huerfano
    /\ pasada' = PasadaLibre
    /\ UNCHANGED <<aparato, pedidos, latido, salud, trasComando, fila, turno, fallos,
                   historia>>

BarreApaga ==
    /\ pasada.pc = "barrer"
    /\ EsHuerfano /\ huerfano > Confirma
    /\ Pide("barrido", "barrido")
    /\ pasada' = [pasada EXCEPT !.pc = "barrido"]
    /\ UNCHANGED <<aparato, latido, salud, trasComando, fila, huerfano, turno,
                   fallos, historia>>

\* `corriendo`, and a heartbeat that is still waiting: the callback adds nothing.
Omite ==
    /\ \/ "pasada" \in turno /\ pasada.pc # "libre" /\ turno' = turno \ {"pasada"}
       \/ "latido" \in turno /\ latido.pc # "libre" /\ turno' = turno \ {"latido"}
    /\ UNCHANGED <<aparato, pedidos, latido, salud, trasComando, fila, pasada, huerfano,
                   fallos, historia>>

-----------------------------------------------------------------------------
(* The session.                                                            *)

SinPedidoDe(q) == orden[q].paso = "libre"

\* HeartbeatService.estaOffline: only a fresh reading refuses a customer.
estaOffline == esFresca(salud) /\ ~salud.online

Reserva ==
    /\ sesion = "LIBRE" /\ ~estaOffline /\ sesion' = "PENDIENTE"
    /\ UNCHANGED <<aparato, pedidos, latido, salud, trasComando, cortada, vence, pasada,
                   huerfano, turno, fallos, historia>>

\* activarSesion, once the commands of the session before have answered.
Paga ==
    /\ sesion = "PENDIENTE" /\ SinPedidoDe("apaga") /\ Pide("enciende", "activar")
    /\ UNCHANGED <<aparato, latido, salud, trasComando, fila, pasada, huerfano, turno,
                   fallos, historia>>

\* The payment, or the wait for power, expires.
Expira ==
    /\ \/ sesion = "PENDIENTE"
       \/ sesion = "ESPERANDO_ENERGIA"
    /\ SinPedidoDe("enciende") /\ QuedaLibre
    /\ UNCHANGED <<aparato, pedidos, latido, salud, trasComando, pasada, huerfano, turno,
                   fallos, historia>>

Vence ==
    /\ "vence" \in Eventos
    /\ sesion = "ACTIVA" /\ ~vence /\ vence' = TRUE
    /\ UNCHANGED <<aparato, pedidos, latido, salud, trasComando, sesion, cortada, pasada,
                   huerfano, turno, fallos, historia>>

\* finalizarSesion of a chair without a return pulse.
Finaliza ==
    /\ vence /\ sesion = "ACTIVA" /\ ~cortada /\ Pide("apaga", "fin")
    /\ UNCHANGED <<aparato, latido, salud, trasComando, fila, pasada, huerfano, turno,
                   fallos, historia>>

Parada ==
    /\ "parada" \in Eventos /\ Pide("parada", "parada")
    /\ UNCHANGED <<aparato, latido, salud, trasComando, fila, pasada, huerfano, turno,
                   fallos, historia>>

-----------------------------------------------------------------------------
(* The premises, the device and the clock.                                 *)

CortaLuz ==
    /\ luz /\ luz' = FALSE /\ autoOff' = FALSE /\ abierto' = TRUE
    /\ fallos < MaxFallos /\ fallos' = fallos + 1
    /\ UNCHANGED <<nube, rele, pedidos, latido, salud, trasComando, fila, pasada, huerfano,
                   turno, corteFalso>>

\* The device boots with the contact open, unless it restores its last state.
VuelveLuz ==
    /\ ~luz /\ luz' = TRUE /\ rele' = (Restaura /\ rele)
    /\ UNCHANGED <<nube, autoOff, pedidos, latido, salud, trasComando, fila, pasada,
                   huerfano, turno, fallos, historia>>

\* Shelly Cloud takes its time to notice that a device is gone, or back.
NubeVe ==
    /\ nube # luz /\ nube' = luz
    /\ UNCHANGED <<luz, rele, autoOff, pedidos, latido, salud, trasComando, fila, pasada,
                   huerfano, turno, fallos, historia>>

\* toggle_after: it is always longer than what is left of the session.
AutoOff ==
    /\ autoOff /\ luz /\ (sesion = "ACTIVA" => vence)
    /\ autoOff' = FALSE /\ rele' = FALSE /\ abierto' = TRUE
    /\ UNCHANGED <<luz, nube, pedidos, latido, salud, trasComando, fila, pasada, huerfano,
                   turno, fallos, corteFalso>>

Envejece(s) == [s EXCEPT !.edad = IF s.hay /\ s.edad <= Fresca THEN s.edad + 1 ELSE s.edad]
Ocioso ==
    /\ cadena = <<>>
    /\ \A q \in Quienes : SinPedidoDe(q)
    /\ pasada.pc = "libre" /\ latido.pc = "libre"

\* A unit of time: with something unfinished it counts as a fault.
Tic ==
    /\ turno = {} /\ turno' = {"latido", "pasada"}
    /\ IF Ocioso THEN UNCHANGED fallos ELSE fallos < MaxFallos /\ fallos' = fallos + 1
    /\ salud' = Envejece(salud)
    /\ pasada' = [pasada EXCEPT !.foto = Envejece(@)]
    /\ trasComando' = IF trasComando <= Asentado THEN trasComando + 1 ELSE trasComando
    /\ huerfano' = IF huerfano \in 1..Confirma THEN huerfano + 1 ELSE huerfano
    /\ UNCHANGED <<aparato, pedidos, latido, fila, abierto, corteFalso>>

-----------------------------------------------------------------------------
Responde == \E q \in Quienes : EjecutaYResponde(q) \/ EjecutaSinRespuesta(q) \/ Rechaza(q)
Heartbeat == Latir \/ Lee \/ LeeFalla
Revisa == RevisaOmite \/ RevisaEspera \/ RevisaCierra \/ RevisaReanuda \/ RevisaCorte
          \/ RevisaReleAbierto
Barrido == Lista \/ Barre \/ BarreApaga
Cliente == Reserva \/ Paga \/ Expira \/ Vence \/ Finaliza \/ Parada
Local == CortaLuz \/ VuelveLuz \/ NubeVe \/ AutoOff

Next ==
    \/ Responde \/ \E q \in Quienes : RateLimit(q) \/ Reintenta(q)
    \/ Heartbeat \/ Revisa \/ Barrido \/ Omite
    \/ Cliente \/ Local \/ Tic

Spec == Init /\ [][Next]_vars

\* The scheduling of Node and of the device: requests are answered, waits and
\* intervals end.  Nothing is assumed of the customers, of the operator, of
\* the end of a session or of the power.
Fairness ==
    /\ WF_vars(Responde) /\ WF_vars(\E q \in Quienes : Reintenta(q))
    /\ WF_vars(Heartbeat) /\ WF_vars(Revisa) /\ WF_vars(Barrido) /\ WF_vars(Omite)
    /\ WF_vars(NubeVe) /\ WF_vars(AutoOff) /\ WF_vars(Tic)

FairSpec == Spec /\ Fairness

-----------------------------------------------------------------------------
\* A cut that is inferred from an open contact is a real one: the contact
\* has been open since the last ON (arranqueYaAsentado keeps the readings
\* from before the command out).  It holds while one request reads the whole
\* list: with two, the list is dated after a command that came in between.
CorteVerdadero == ~corteFalso

\* A session that goes on with an open contact gets it closed again (or is
\* closed itself), whatever opened it: a cut nobody saw, a command that was
\* retried after a later one, the sweep, an answer that was lost.
ActivaRecuperaRele ==
    (sesion = "ACTIVA" /\ luz /\ ~rele) ~> (sesion # "ACTIVA" \/ vence \/ ~luz \/ rele)

\* A contact that closed by itself, or by an ON that arrived after its
\* session had ended, does not stay closed with nobody behind it.
HuerfanoSeApaga ==
    (luz /\ rele /\ sesion = "LIBRE") ~> (~luz \/ ~rele \/ sesion # "LIBRE")

=============================================================================
