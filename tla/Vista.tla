-------------------------------- MODULE Vista --------------------------------
(***************************************************************************)
(* What a browser tab shows of a chair, a session and a turn while the     *)
(* backend changes them: the handlers write the database and invalidate    *)
(* the caches in steps of their own, the public endpoints answer from the  *)
(* caches (TtlCache) and from live reads, and the polling hooks of the     *)
(* tab ask again and again, in a hidden or a visible tab, against errors   *)
(* and rate limits.  A tab has one hook here; the two of the page of a     *)
(* payment share nothing but the tab, and what its other hook shows is     *)
(* taken to be any state the database has had.                             *)
(*                                                                         *)
(* `historia` keeps every state the database has had; whatever is cached,  *)
(* in flight or on the screen is an index of it.  One handler runs at a    *)
(* time: what handlers do to each other is the subject of Sesiones and     *)
(* Cola.                                                                   *)
(***************************************************************************)
EXTENDS Integers, Sequences, FiniteSets, Pantallas

CONSTANTS
    Inicios,    \* kinds of tab, the database they are opened in, whether they get hidden
    Ttl,        \* CACHE_TTL_ESTADO_MS, in ticks
    Intervalo,  \* intervaloMs of the hooks
    Castigo,    \* Retry-After of an answer 429
    MaxManejos, \* bound: handlers, heartbeats included
    MaxCargas,  \* bound: reads of the database that somebody may wait for
    MaxSondeos, \* bound: polls of a tab at once
    MaxEventos  \* bound: failures, hidings and other visits

Caches == {"sesion", "silla", "vigente", "turno"}

\* The caches an endpoint goes through, in order, before its live reads.
Etapas == [silla |-> <<"silla", "vigente">>, sesion |-> <<"sesion">>, turno |-> <<"turno">>]
HookDe(tipo) == CASE tipo = "exito" -> "sesion"
                  [] tipo = "turno" -> "turno"
                  [] OTHER -> "silla"

ASSUME TiemposAssumption ==
    Ttl \in Nat \ {0} /\ Intervalo \in Nat \ {0} /\ Castigo \in Nat
ASSUME CotasAssumption == {MaxManejos, MaxCargas, MaxSondeos, MaxEventos} \subseteq Nat

Tipos == {"landing", "tv", "exito", "exitoSinId", "turno"}
ASSUME IniciosAssumption == \A x \in Inicios : x.tipo \in Tipos

VARIABLES
    historia,   \* the states of the database so far
    escritor,   \* the steps a handler has left, and what it has written so far
    entrada,    \* TtlCache.entradas: the read each cache holds, and its life
    cargas,     \* the state each read has seen, 0 while in flight
    hace,       \* ghost: index of the database at each of the last Ttl ticks
    confirmado, \* ghost: the last write to each row by a handler that has ended
    pestana,    \* kind of the tab, document.visibilityState, errorConfirmacion
    sondeos,    \* the cycles of its hook
    timeoutRef, \* the cycle whose timer the hook remembers, 0 if none
    vista,      \* the state of the hook: the states the last answer came from
    eventos     \* failures, hidings and other visits so far

base == <<historia, escritor, confirmado>>
memoria == <<entrada, cargas>>
tab == <<pestana, sondeos, timeoutRef, vista>>
vars == <<base, memoria, hace, tab, eventos>>

Mayor(a, b) == IF a > b THEN a ELSE b
hook == HookDe(pestana.tipo)
ahora == Len(historia)
db == historia[ahora]

SinSondeo == [fase |-> "no", etapa |-> 1, carga |-> 0, leido |-> <<>>,
              piso |-> <<>>, vivo |-> 0, error |-> FALSE, espera |-> 0]
Pregunta == [SinSondeo EXCEPT !.fase = "pregunta"]
SinEntradaDe == [carga |-> 0, resta |-> 0]
SinEscritor == [pasos |-> <<>>, servicio |-> "nadie", hasta |-> [c \in Caches |-> 0],
                van |-> 0]
SinVista == [leido |-> <<>>, vivo |-> 0]

Init ==
    /\ escritor = SinEscritor
    /\ entrada = [c \in Caches |-> SinEntradaDe]
    /\ cargas = [l \in 1..MaxCargas |-> 0]
    /\ hace = [i \in 1..Ttl |-> 1]
    /\ confirmado = [c \in Caches |-> 1]
    /\ \E x \in Inicios, f \in BOOLEAN :
          /\ f => x.tipo \in {"exito", "exitoSinId"} /\ x.db.sesion = "PENDIENTE"
          /\ historia = <<x.db>>
          /\ pestana = [tipo |-> x.tipo, seOculta |-> x.seOculta, oculta |-> FALSE, fallo |-> f]
          /\ sondeos = [i \in 1..MaxSondeos |->
                IF i = 1 THEN Pregunta ELSE SinSondeo]
    /\ timeoutRef = 0
    /\ vista = SinVista
    /\ eventos = 0

-----------------------------------------------------------------------------
(* TtlCache *)

EnUso(l, es, ss) == \/ \E c \in Caches : es[c].carga = l
                    \/ \E i \in 1..MaxSondeos : ss[i].carga = l
CargasLibres == {l \in 1..MaxCargas : ~EnUso(l, entrada, sondeos)}

\* What nobody holds nor waits for is forgotten.
Quedan(cs, es, ss) == [l \in 1..MaxCargas |-> IF EnUso(l, es, ss) THEN cs[l] ELSE 0]

\* obtenerOCargar: the promise of a live entry is shared, done or not.
Obtener(c) == entrada[c].carga # 0

\* obtenerOCargar: a new entry is in the map before its read has begun.
Cargar(c, l) ==
    /\ ~Obtener(c)
    /\ l \in CargasLibres /\ \A m \in CargasLibres : l <= m
    /\ entrada' = [entrada EXCEPT ![c] = [carga |-> l, resta |-> Ttl]]

\* Mutant: the clock of an entry runs on after its end.
CaducaNunca(e) == [e EXCEPT !.resta = @ - 1]

\* obtenerOCargar: an entry that has expired is as good as none.
Caduca(e) == IF e.resta <= 1 THEN SinEntradaDe ELSE [e EXCEPT !.resta = @ - 1]

\* invalidar
SinEntrada(cs) == [c \in Caches |-> IF c \in cs THEN SinEntradaDe ELSE entrada[c]]

\* The read sees the database as it is at that moment.
Lee(l) ==
    /\ EnUso(l, entrada, sondeos) /\ cargas[l] = 0
    /\ cargas' = [cargas EXCEPT ![l] = ahora]
    /\ UNCHANGED <<base, entrada, hace, tab, eventos>>

\* A read that fails is taken out of the map unless a newer one took its
\* place; those who wait for it get the error.
LeeFalla(l) ==
    /\ EnUso(l, entrada, sondeos) /\ cargas[l] = 0 /\ eventos < MaxEventos
    /\ eventos' = eventos + 1
    /\ entrada' = [c \in Caches |-> IF entrada[c].carga = l THEN SinEntradaDe ELSE entrada[c]]
    /\ sondeos' = [i \in 1..MaxSondeos |->
          IF sondeos[i].carga = l
          THEN [sondeos[i] EXCEPT !.carga = 0, !.error = TRUE, !.fase = "vuelve"]
          ELSE sondeos[i]]
    /\ UNCHANGED <<base, cargas, hace, pestana, timeoutRef, vista>>

\* Somebody else looks at the same chair, session or turn.
OtraVisita ==
    \E e \in DOMAIN Etapas[hook] :
        /\ eventos < MaxEventos
        /\ eventos' = eventos + 1
        /\ \E l \in 1..MaxCargas : Cargar(Etapas[hook][e], l)
        /\ UNCHANGED <<base, cargas, hace, tab>>

-----------------------------------------------------------------------------
(* The handlers of the backend: what they write and what they invalidate,  *)
(* in the order of the code.  A step writes fields in one statement or     *)
(* transaction, or clears caches.                                          *)

Escribe(campos) == [campos |-> campos, limpia |-> {}]
InvalidaSesion == [campos |-> <<>>, limpia |-> {"sesion"}]
\* SillasService.invalidarCache clears both caches of the chair.
InvalidaSilla == [campos |-> <<>>, limpia |-> {"silla", "vigente"}]
InvalidaTurno == [campos |-> <<>>, limpia |-> {"turno"}]

\* The caches that must show what a handler wrote once it has ended.  The
\* turn is left to the Ttl when it is SesionesService that writes it.
Toca(servicio, campos) ==
    Si("sesion" \in DOMAIN campos \/ "corte" \in DOMAIN campos, "sesion")
        \cup (IF "silla" \in DOMAIN campos THEN {"silla", "vigente"} ELSE {})
        \cup Si("turno" \in DOMAIN campos /\ servicio = "cola", "turno")

Corre(servicio, pasos) ==
    /\ escritor.pasos = <<>>
    /\ escritor.van < MaxManejos
    /\ escritor' = [SinEscritor EXCEPT !.pasos = pasos, !.servicio = servicio,
                                      !.van = escritor.van + 1]
    /\ UNCHANGED <<historia, confirmado, memoria, hace, tab, eventos>>

\* cerrarYLiberar: the session is claimed and its cache cleared before the
\* chair and the turn follow; the cache of the turn is not cleared.
cerrarYLiberar(estado, motivo, estadoTurno) ==
    <<Escribe([sesion |-> estado, motivo |-> motivo, corte |-> FALSE]), InvalidaSesion,
      Escribe(IF db.turno = "EN_USO" THEN [silla |-> "LIBRE", turno |-> estadoTurno]
                                     ELSE [silla |-> "LIBRE"]),
      InvalidaSilla>>

\* Mutant: the caches are cleared before the rows are written.
activarSesionInvalidaAntes ==
    <<InvalidaSesion, InvalidaSilla,
      Escribe([sesion |-> "ACTIVA", corte |-> FALSE, silla |-> "EN_USO", momento |-> "gracia"])>>

activarSesion ==
    <<Escribe([sesion |-> "ACTIVA", corte |-> FALSE, silla |-> "EN_USO", momento |-> "gracia"]),
      InvalidaSesion, InvalidaSilla>>

marcarEsperandoEnergia == <<Escribe([sesion |-> "ESPERANDO_ENERGIA"]), InvalidaSesion>>

emitirVale == <<Escribe([vale |-> TRUE])>>

\* procesarPagoDeSesion: the relay answers or it does not.
PagoAprobado ==
    /\ db.sesion = "PENDIENTE" /\ db.turno = "NINGUNA"
    /\ Corre("sesiones", activarSesion) \/ Corre("sesiones", marcarEsperandoEnergia)

\* The retries of EnergiaService, the heartbeat permitting.
Activar ==
    /\ db.sesion = "ESPERANDO_ENERGIA" /\ ~db.offline
    /\ Corre("sesiones", activarSesion)

VencerEsperaEnergia ==
    /\ db.sesion = "ESPERANDO_ENERGIA"
    /\ Corre("sesiones",
             cerrarYLiberar("CANCELADA", "sin_energia_al_pagar", "CANCELADA") \o emitirVale)

ExpirarPagoPendiente ==
    /\ db.sesion = "PENDIENTE" /\ db.turno = "NINGUNA"
    /\ Corre("sesiones",
             <<Escribe([sesion |-> "CANCELADA", motivo |-> "pago_no_recibido"]),
               InvalidaSesion, Escribe([silla |-> "LIBRE"]), InvalidaSilla>>)

RegistrarCorte ==
    /\ db.sesion = "ACTIVA" /\ ~db.corte
    /\ Corre("sesiones", <<Escribe([corte |-> TRUE]), InvalidaSesion>>)

\* finSesionActual moves with the end of the session.
ReanudarTrasCorte ==
    /\ db.sesion = "ACTIVA" /\ db.corte
    /\ Corre("sesiones", <<Escribe([corte |-> FALSE, sesion |-> "ACTIVA"]), InvalidaSesion,
                           Escribe([silla |-> "EN_USO"]), InvalidaSilla>>)

CerrarPorCorte ==
    /\ db.sesion = "ACTIVA" /\ db.corte
    /\ \/ Corre("sesiones", cerrarYLiberar("COMPLETADA", "corte_sobre_el_final", "COMPLETADA"))
       \/ Corre("sesiones",
                cerrarYLiberar("CANCELADA", "corte_de_energia", "CANCELADA") \o emitirVale)

FinalizarSesion ==
    /\ db.sesion = "ACTIVA" /\ ~db.corte
    /\ \/ Corre("sesiones", <<Escribe([sesion |-> "SALIDA", momento |-> "pausa"]),
                              InvalidaSesion, Escribe([silla |-> "EN_USO"]), InvalidaSilla>>)
       \/ Corre("sesiones", cerrarYLiberar("COMPLETADA", "tiempo_cumplido", "COMPLETADA"))

IniciarRetorno ==
    /\ db.sesion = "SALIDA" /\ db.momento = "pausa"
    /\ Corre("sesiones", <<Escribe([sesion |-> "SALIDA", momento |-> "retorno"]),
                           InvalidaSesion, Escribe([silla |-> "EN_USO"]), InvalidaSilla>>)

CerrarSalida ==
    /\ db.sesion = "SALIDA"
    /\ Corre("sesiones", cerrarYLiberar("COMPLETADA", "tiempo_cumplido", "COMPLETADA"))

DetenerEmergencia ==
    /\ db.sesion \in {"ESPERANDO_ENERGIA", "ACTIVA", "SALIDA"}
    /\ Corre("sesiones",
             <<Escribe([sesion |-> "CANCELADA", motivo |-> "parada_de_emergencia",
                        corte |-> FALSE]), InvalidaSesion>>
               \o (IF db.turno = "EN_USO" THEN <<Escribe([turno |-> "CANCELADA"])>> ELSE <<>>)
               \o <<Escribe([silla |-> "LIBRE"]), InvalidaSilla>>)

ProcesarPagoAprobado ==
    /\ db.turno = "ESPERANDO_PAGO"
    /\ Corre("cola", <<Escribe([turno |-> "EN_COLA"]), InvalidaTurno>>)

IntentarAsignar ==
    /\ db.turno = "EN_COLA" /\ db.silla = "LIBRE" /\ ~db.offline
    /\ Corre("cola", <<Escribe([silla |-> "RESERVADA"]), InvalidaSilla,
                       Escribe([turno |-> "ASIGNADO"]), InvalidaTurno>>)

ExpirarVentana ==
    /\ db.turno = "ASIGNADO"
    /\ Corre("cola", <<Escribe([turno |-> "CANCELADA"]), InvalidaTurno,
                       Escribe([silla |-> "LIBRE"]), InvalidaSilla>>)

ExpirarEsperaPago ==
    /\ db.turno = "ESPERANDO_PAGO"
    /\ Corre("cola", <<Escribe([turno |-> "CANCELADA"]), InvalidaTurno>>)

\* Another customer takes the chair once it is free.
OtroCliente ==
    /\ db.silla = "LIBRE" /\ db.turno # "EN_COLA"
    /\ Corre("sesiones", <<Escribe([otra |-> TRUE, silla |-> "EN_USO", momento |-> "gracia"]),
                           InvalidaSilla>>)

\* The start grace passes, and the heartbeat changes its mind: neither is a
\* write to a row that is cached.
Cambia(nuevo) ==
    /\ escritor.pasos = <<>> /\ escritor.van < MaxManejos
    /\ escritor' = [escritor EXCEPT !.van = @ + 1]
    /\ historia' = Append(historia, nuevo)
    /\ UNCHANGED <<confirmado, memoria, hace, tab>>

PasaLaGracia ==
    db.momento = "gracia" /\ Cambia([db EXCEPT !.momento = "masaje"]) /\ UNCHANGED eventos

Latido ==
    Cambia([db EXCEPT !.offline = ~@]) /\ UNCHANGED eventos

PagoYCola == \/ PagoAprobado \/ ExpirarPagoPendiente \/ ProcesarPagoAprobado
             \/ IntentarAsignar \/ ExpirarVentana \/ ExpirarEsperaPago \/ OtroCliente
Masaje == \/ Activar \/ VencerEsperaEnergia \/ RegistrarCorte \/ ReanudarTrasCorte
          \/ CerrarPorCorte \/ FinalizarSesion \/ IniciarRetorno \/ CerrarSalida
          \/ DetenerEmergencia

\* One step of the handler.
Paso ==
    LET p == Head(escritor.pasos)
        termina == Len(escritor.pasos) = 1
        nuevo == [k \in DOMAIN db |-> IF k \in DOMAIN p.campos THEN p.campos[k] ELSE db[k]]
        hasta == [c \in Caches |-> IF c \in Toca(escritor.servicio, p.campos)
                                   THEN ahora + 1 ELSE escritor.hasta[c]]
    IN  /\ escritor.pasos # <<>>
        /\ historia' = IF DOMAIN p.campos = {} THEN historia ELSE Append(historia, nuevo)
        /\ entrada' = SinEntrada(p.limpia)
        /\ cargas' = Quedan(cargas, entrada', sondeos)
        /\ confirmado' = [c \in Caches |-> IF termina /\ hasta[c] > 0
                                           THEN hasta[c] ELSE confirmado[c]]
        /\ escritor' = IF termina THEN [SinEscritor EXCEPT !.van = escritor.van]
                       ELSE [escritor EXCEPT !.pasos = Tail(@), !.hasta = hasta]
        /\ UNCHANGED <<hace, tab, eventos>>

-----------------------------------------------------------------------------
(* The hooks useEstadoSilla, useEstadoSesion, useEstadoTurno and           *)
(* useEstadoSillas.                                                        *)

pausarEnOculto == pestana.tipo # "tv"
debeSondearAhora == ~(pausarEnOculto /\ pestana.oculta)

proximoRetraso(i) == Mayor(Intervalo, sondeos[i].espera)

\* ciclo, called by its timer.
Despierta(i) ==
    LET s == sondeos[i] IN
    /\ s.fase = "duerme" /\ s.espera = 0
    /\ sondeos' = [sondeos EXCEPT ![i] = IF debeSondearAhora THEN Pregunta
                                                             ELSE SinSondeo]
    /\ timeoutRef' = IF timeoutRef = i THEN 0 ELSE timeoutRef
    /\ UNCHANGED <<base, memoria, hace, pestana, vista, eventos>>

\* The endpoint asks a cache, and joins or starts a read.
Pide(i) ==
    LET s == sondeos[i]
        c == Etapas[hook][s.etapa]
        Espera(l) == [s EXCEPT !.fase = "espera", !.carga = l,
                               !.piso = Append(@, Mayor(confirmado[c], hace[1]))]
    IN  /\ s.fase = "pregunta"
        /\ \/ /\ Obtener(c)
              /\ sondeos' = [sondeos EXCEPT ![i] = Espera(entrada[c].carga)]
              /\ UNCHANGED entrada
           \/ \E l \in 1..MaxCargas :
                 Cargar(c, l) /\ sondeos' = [sondeos EXCEPT ![i] = Espera(l)]
        /\ UNCHANGED <<base, cargas, hace, pestana, timeoutRef, vista, eventos>>

\* The row is there.  A chair in use asks for its session next; otherwise
\* what is not cached is read now and the answer leaves.
Recibe(i) ==
    LET s == sondeos[i]
        indice == cargas[s.carga]
        leido == Append(s.leido, indice)
        sigue == hook = "silla" /\ s.etapa = 1 /\ historia[indice].silla = "EN_USO"
    IN  /\ s.fase = "espera" /\ indice > 0
        /\ sondeos' = [sondeos EXCEPT ![i] =
              IF sigue THEN [s EXCEPT !.fase = "pregunta", !.etapa = 2, !.carga = 0,
                                      !.leido = leido]
              ELSE [s EXCEPT !.fase = "vuelve", !.carga = 0, !.leido = leido, !.vivo = ahora]]
        /\ cargas' = Quedan(cargas, entrada, sondeos')
        /\ UNCHANGED <<base, entrada, hace, pestana, timeoutRef, vista, eventos>>

\* The network fails, or the throttler answers 429 with a Retry-After.
Rechaza(i) ==
    /\ sondeos[i].fase = "pregunta" /\ sondeos[i].etapa = 1 /\ eventos < MaxEventos
    /\ eventos' = eventos + 1
    /\ \E w \in {0, Castigo} :
          sondeos' = [sondeos EXCEPT ![i].fase = "vuelve", ![i].error = TRUE, ![i].espera = w]
    /\ UNCHANGED <<base, memoria, hace, pestana, timeoutRef, vista>>

\* sondear sets the state of the hook, unless the answer is an error; ciclo
\* sets its timer.
Aplica(i) ==
    LET s == sondeos[i] IN
    /\ s.fase = "vuelve"
    /\ vista' = IF s.error THEN vista
                ELSE [leido |-> s.leido, vivo |-> s.vivo]
    /\ sondeos' = [sondeos EXCEPT ![i] =
          [SinSondeo EXCEPT !.fase = "duerme", !.espera = proximoRetraso(i)]]
    /\ timeoutRef' = i
    /\ UNCHANGED <<base, memoria, hace, pestana, eventos>>

Oculta ==
    /\ pestana.seOculta /\ ~pestana.oculta /\ eventos < MaxEventos
    /\ eventos' = eventos + 1
    /\ pestana' = [pestana EXCEPT !.oculta = TRUE]
    /\ UNCHANGED <<base, memoria, hace, sondeos, timeoutRef, vista>>

\* Mutant: the tab that comes back waits for a timer that is not there.
alVolverSinCiclo == sondeos

\* alCambiarVisibilidad: the remembered timer is cleared and a new cycle
\* starts, whether or not another one is waiting for its answer.
alVolver ==
    LET sin == IF timeoutRef = 0 THEN sondeos
               ELSE [sondeos EXCEPT ![timeoutRef] = SinSondeo]
        libre == CHOOSE i \in 1..MaxSondeos : sin[i].fase = "no"
    IN  [sin EXCEPT ![libre] = Pregunta]

\* The bound on the cycles: there is room for one more.
HayLugar == \E i \in 1..MaxSondeos : i = timeoutRef \/ sondeos[i].fase = "no"

Muestra ==
    /\ pestana.oculta
    /\ pestana' = [pestana EXCEPT !.oculta = FALSE]
    /\ IF pausarEnOculto THEN HayLugar /\ sondeos' = alVolver /\ timeoutRef' = 0
                         ELSE UNCHANGED <<sondeos, timeoutRef>>
    /\ UNCHANGED <<base, memoria, hace, vista, eventos>>

Tic ==
    /\ entrada' = [c \in Caches |-> Caduca(entrada[c])]
    /\ cargas' = Quedan(cargas, entrada', sondeos)
    /\ sondeos' = [i \in 1..MaxSondeos |->
          IF sondeos[i].fase = "duerme" /\ sondeos[i].espera > 0
          THEN [sondeos[i] EXCEPT !.espera = @ - 1] ELSE sondeos[i]]
    /\ hace' = Append(Tail(hace), ahora)
    /\ UNCHANGED <<base, pestana, timeoutRef, vista, eventos>>

-----------------------------------------------------------------------------
(* What is on the screen *)

Nada == [estado |-> "NINGUNA", fase |-> "NINGUNA", interrumpida |-> FALSE, motivo |-> "NINGUNA",
         credito |-> FALSE, sesionEstado |-> "NINGUNA", seSabeCuando |-> FALSE,
         sinEnergia |-> FALSE, sillasLibres |-> FALSE]

respuesta ==
    LET fila == historia[vista.leido[1]]
        vigente == historia[vista.leido[Len(vista.leido)]]
        vivo == historia[vista.vivo]
    IN  CASE vista.vivo = 0 -> Nada
          [] hook = "silla" -> estadoDeSilla(fila, vigente, vivo)
          [] hook = "sesion" -> estadoDeSesion(fila, vivo)
          [] hook = "turno" -> estadoDeTurno(fila, vivo)

\* `silla` is the answer of the other hook of the page of a payment.
pagina(silla) ==
    CASE pestana.tipo = "landing" -> [titulo |-> "Sillon", bloques |-> landing(respuesta)]
      [] pestana.tipo = "tv" -> [titulo |-> "TV", bloques |-> detalle(respuesta)]
      [] pestana.tipo = "turno" -> [titulo |-> "Tu turno", bloques |-> paginaTurno(respuesta)]
      [] pestana.tipo = "exito" -> exito(respuesta, silla, pestana.fallo, TRUE)
      [] pestana.tipo = "exitoSinId" -> exito(Nada, respuesta, pestana.fallo, FALSE)

\* The button of the page of a turn, and confirmar of ColaService: session,
\* activation and turn; the relay may not answer.
ConfirmarTurno ==
    /\ ~pestana.oculta /\ "confirmar" \in pagina(Nada).bloques
    /\ db.turno = "ASIGNADO"
    /\ \E activacion \in {activarSesion, marcarEsperandoEnergia} :
          Corre("cola", <<Escribe([sesion |-> "PENDIENTE"])>> \o activacion
                        \o <<Escribe([turno |-> "EN_USO"]), InvalidaTurno>>)

-----------------------------------------------------------------------------
Reloj == PasaLaGracia \/ Latido
Sondeo(i) == Despierta(i) \/ Pide(i) \/ Recibe(i) \/ Aplica(i)

Next ==
    \/ PagoYCola \/ Masaje \/ Reloj \/ ConfirmarTurno \/ Paso
    \/ OtraVisita \/ Oculta \/ Muestra \/ Tic
    \/ \E l \in 1..MaxCargas : Lee(l) \/ LeeFalla(l)
    \/ \E i \in 1..MaxSondeos : Sondeo(i) \/ Rechaza(i)

Spec == Init /\ [][Next]_vars

\* Handlers, reads and requests come to an end, and timers fire.  Nobody has
\* to look, to confirm or to pay.
Fairness ==
    /\ WF_vars(Paso) /\ WF_vars(Tic)
    /\ \A l \in 1..MaxCargas : WF_vars(Lee(l))
    /\ \A i \in 1..MaxSondeos : WF_vars(Sondeo(i))

FairSpec == Spec /\ Fairness

-----------------------------------------------------------------------------
TypeOK ==
    /\ escritor.van <= MaxManejos /\ Len(escritor.pasos) <= 8
    /\ entrada \in [Caches -> [carga : 0..MaxCargas, resta : 0..Ttl]]
    /\ cargas \in [1..MaxCargas -> 0..ahora]
    /\ hace \in [1..Ttl -> 1..ahora] /\ confirmado \in [Caches -> 1..ahora]
    /\ timeoutRef \in 0..MaxSondeos /\ eventos \in 0..MaxEventos
    /\ \A i \in 1..MaxSondeos : sondeos[i].fase = "espera" => sondeos[i].carga > 0

\* An answer is never older than what its request could count on: the Ttl,
\* and every handler that had ended by then, but for the turn, that the
\* sessions leave to the Ttl.
RespuestaVigente ==
    \A i \in 1..MaxSondeos :
        sondeos[i].fase = "vuelve" /\ ~sondeos[i].error =>
            \A e \in DOMAIN sondeos[i].leido : sondeos[i].leido[e] >= sondeos[i].piso[e]

\* A tab that stays in view ends up showing the database as it is, after
\* errors, rate limits, hidings and whatever the caches held.
SeActualizaSola ==
    <>[](~pestana.oculta) =>
        <>[](vista.vivo = ahora /\ \A e \in DOMAIN vista.leido : vista.leido[e] = ahora)

\* The customer whose session a cut closed finds the voucher on the page that
\* was open, of the session or of the turn.
ValeALaVista ==
    <>[](~pestana.oculta) /\ <>(db.vale /\ pestana.tipo \in {"exito", "turno"}) =>
        <>[]("vale" \in pagina(Nada).bloques)

\* There is one cycle of a hook at a time: a poll is scheduled when the one
\* before has been answered.  It does not hold: see the findings in the README.
UnaSolaCadena ==
    \A i, j \in 1..MaxSondeos :
        i # j => "no" \in {sondeos[i].fase, sondeos[j].fase}
=============================================================================
