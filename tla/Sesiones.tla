------------------------------ MODULE Sesiones ------------------------------
(***************************************************************************)
(* SesionesService and EnergiaService: how a massage chair is lent.        *)
(*                                                                         *)
(* The backend is one Node process, so code between two awaits runs alone; *)
(* every await lets other calls in.  A call in flight is a record in       *)
(* `hilo`: its pc names the await it stands at, and one step of it is the  *)
(* awaited statement (a query, a relay command) with the code that follows *)
(* up to the next await.  Code that runs before the first await of a       *)
(* handler (cancelarTimer, in most of them) is part of the step that calls *)
(* the handler.                                                            *)
(*                                                                         *)
(* Time is abstracted: an armed timer may fire at any moment, and every    *)
(* comparison with a threshold (minutes without power, time lost in a cut) *)
(* may go either way.  The relay answers or fails; its own state is not    *)
(* modelled here.                                                          *)
(***************************************************************************)
EXTENDS Naturals, FiniteSets

CONSTANTS
    Silla,          \* chairs
    Sesion,         \* session ids, each created at most once
    ConRetorno,     \* sessions whose copied retornoSeg is > 0
    Hilos,          \* slots for HTTP calls and timer callbacks in flight
    HiloEnergia,    \* the slot of EnergiaService.revisar (one pass at a time)
    HiloArranque,   \* the slot of onApplicationBootstrap
    Nada,           \* "no session" / "no chair" in a slot
    Entradas,       \* the optional entry points this environment uses
    MaxPagos,       \* bound: approved payments applied to one session
    MaxCortes,      \* bound: power cuts registered in one session
    MaxReinicios,   \* bound: restarts of the backend
    BaseRapida      \* assume a relay command outlasts a pending statement

Llamadas == Hilos \cup {HiloEnergia, HiloArranque}

ASSUME EntradasAssumption ==
    Entradas \subseteq {"cancelar", "emergencia", "manual", "energia", "reinicio"}
ASSUME HilosAssumption ==
    /\ HiloEnergia \notin Hilos
    /\ HiloArranque \notin Hilos
    /\ HiloEnergia # HiloArranque
ASSUME NadaAssumption == Nada \notin Silla /\ Nada \notin Sesion
ASSUME BoundsAssumption == MaxPagos \in Nat /\ MaxCortes \in Nat /\ MaxReinicios \in Nat
ASSUME BaseRapidaAssumption == BaseRapida \in BOOLEAN
ASSUME RetornoAssumption == ConRetorno \subseteq Sesion

VARIABLES
    silla,      \* Silla.estado
    estado,     \* Sesion.estado, "INEXISTENTE" before the row is created
    sillaDe,    \* Sesion.sillaId
    manual,     \* Sesion.esManual
    cortada,    \* Sesion.interrumpidaEn is not null
    cortes,     \* Sesion.cortes
    motivo,     \* Sesion.motivoCierre
    timer,      \* SesionesService.timers: the callback armed for the session
    hilo,       \* calls in flight
    pasada,     \* rows EnergiaService.revisar read and has not looked at yet
    arranque,   \* progress of onApplicationBootstrap
    reinicios,  \* restarts so far
    enlace,     \* the customer got the link to pay for the session
    pagos,      \* approved payments applied to the session
    revision,   \* a payment of the session was flagged for manual review
    vale,       \* vouchers issued for the session
    revivida    \* history: a closed session was written back to life

vars == <<silla, estado, sillaDe, manual, cortada, cortes, motivo, timer, hilo,
          pasada, arranque, reinicios, enlace, pagos, revision, vale, revivida>>

-----------------------------------------------------------------------------
EstadoSilla == {"LIBRE", "PAGO_PENDIENTE", "RESERVADA", "EN_USO", "FUERA_DE_SERVICIO"}
EstadoSesion == {"INEXISTENTE", "PENDIENTE", "ESPERANDO_ENERGIA", "ACTIVA",
                 "SALIDA", "COMPLETADA", "CANCELADA"}
Vivas == {"PENDIENTE", "ESPERANDO_ENERGIA", "ACTIVA", "SALIDA"}
Cerradas == {"COMPLETADA", "CANCELADA"}
Activables == {"PENDIENTE", "ESPERANDO_ENERGIA"}
TomadasSinPago == {"EN_USO"}
Tomadas == {"EN_USO", "PAGO_PENDIENTE", "RESERVADA"}

Motivos == {"ninguno", "pago_no_recibido", "tiempo_cumplido", "sin_energia_al_pagar",
            "corte_sobre_el_final", "corte_de_energia", "parada_de_emergencia"}
Timers == {"ninguno", "pago", "energia", "fin", "retorno", "salida"}
Vales == {"no", "emitido", "duplicado", "fallido"}

\* The closings that go through cerrarYLiberar, with their options.
Cierres == {"fin", "salida", "energia", "corte", "corte_final"}
Modos == {"ninguno", "cumplido", "reinicio"} \cup Cierres

PcSilla == {"crear_sesion", "man_crear", "emg_buscar", "emg_sesion", "emg_silla"}
PcSesion == {"crear_pref", "act_leer", "act_rele", "act_commit", "act_espera",
             "fin_leer", "fin_detectar", "fin_corte", "fin_off", "fin_salida", "fin_silla",
             "ret_leer", "ret_rele", "ret_silla", "sal_leer", "sal_off",
             "ven_leer", "cor_leer", "cor_off",
             "rea_leer", "rea_rele", "rea_cas", "rea_silla",
             "exp_cas", "exp_silla", "cerrar", "liberar", "vale", "emg_sesion"}
\* The awaits that are a command to Shelly Cloud; the others are statements.
PcRele == {"act_rele", "fin_off", "ret_rele", "sal_off", "cor_off", "rea_rele"}
Pcs == {"libre"} \cup PcSilla \cup PcSesion

\* onApplicationBootstrap recovers the sessions state by state, in this order.
Fases == <<"ACTIVA", "SALIDA", "ESPERANDO_ENERGIA", "PENDIENTE">>
Listo == 5

Llamada == [pc: Pcs, ses: Sesion \cup {Nada}, silla: Silla \cup {Nada}, modo: Modos]
Libre == [pc |-> "libre", ses |-> Nada, silla |-> Nada, modo |-> "ninguno"]
Fila == [ses: Sesion, estado: {"ACTIVA", "ESPERANDO_ENERGIA"}, cortada: BOOLEAN]

TypeOK ==
    /\ silla \in [Silla -> EstadoSilla]
    /\ estado \in [Sesion -> EstadoSesion]
    /\ sillaDe \in [Sesion -> Silla \cup {Nada}]
    /\ \A s \in Sesion : estado[s] # "INEXISTENTE" => sillaDe[s] \in Silla
    /\ manual \in [Sesion -> BOOLEAN]
    /\ cortada \in [Sesion -> BOOLEAN]
    /\ cortes \in [Sesion -> 0..MaxCortes]
    /\ motivo \in [Sesion -> Motivos]
    /\ timer \in [Sesion -> Timers]
    /\ hilo \in [Llamadas -> Llamada]
    /\ pasada \in SUBSET Fila
    /\ arranque \in [fase: 0..Listo, lista: SUBSET Sesion]
    /\ reinicios \in 0..MaxReinicios
    /\ enlace \in [Sesion -> BOOLEAN]
    /\ pagos \in [Sesion -> 0..MaxPagos]
    /\ revision \in [Sesion -> BOOLEAN]
    /\ vale \in [Sesion -> Vales]
    /\ revivida \in [Sesion -> BOOLEAN]

Init ==
    /\ silla = [t \in Silla |-> "LIBRE"]
    /\ estado = [s \in Sesion |-> "INEXISTENTE"]
    /\ sillaDe = [s \in Sesion |-> Nada]
    /\ manual = [s \in Sesion |-> FALSE]
    /\ cortada = [s \in Sesion |-> FALSE]
    /\ cortes = [s \in Sesion |-> 0]
    /\ motivo = [s \in Sesion |-> "ninguno"]
    /\ timer = [s \in Sesion |-> "ninguno"]
    /\ hilo = [h \in Llamadas |-> Libre]
    /\ pasada = {}
    /\ arranque = [fase |-> Listo, lista |-> {}]
    /\ reinicios = 0
    /\ enlace = [s \in Sesion |-> FALSE]
    /\ pagos = [s \in Sesion |-> 0]
    /\ revision = [s \in Sesion |-> FALSE]
    /\ vale = [s \in Sesion |-> "no"]
    /\ revivida = [s \in Sesion |-> FALSE]

-----------------------------------------------------------------------------
(***************************************************************************)
(* Vocabulary of the steps.                                                *)
(***************************************************************************)
filas == <<sillaDe, manual>>
corte == <<cortada, cortes>>
control == <<pasada, arranque, reinicios>>
cuentas == <<enlace, pagos, revision, vale, revivida>>

En(h, pc) == hilo[h].pc = pc

\* The session a call works on, and the chair of that session.
SesionDe(h) == hilo[h].ses
SillaDe(h) == sillaDe[hilo[h].ses]

Sigue(h, pc) == hilo' = [hilo EXCEPT ![h].pc = pc]
SigueEn(h, pc, m) == hilo' = [hilo EXCEPT ![h].pc = pc, ![h].modo = m]
Termina(h) == hilo' = [hilo EXCEPT ![h] = Libre]
Empieza(h, pc, s, m) ==
    hilo' = [hilo EXCEPT ![h] = [pc |-> pc, ses |-> s, silla |-> Nada, modo |-> m]]
EmpiezaEnSilla(h, pc, t) ==
    hilo' = [hilo EXCEPT ![h] = [pc |-> pc, ses |-> Nada, silla |-> t, modo |-> "ninguno"]]

Programar(s, callback) == timer' = [timer EXCEPT ![s] = callback]
CancelarTimer(s) == timer' = [timer EXCEPT ![s] = "ninguno"]

\* A free slot for a new HTTP call; the server listens once bootstrap ended.
Atiende(h) == h \in Hilos /\ En(h, "libre") /\ arranque.fase = Listo

Existe(s) == estado[s] # "INEXISTENTE"

\* Bound: there is an id left for the session a new call is about to create.
QuedaId ==
    Cardinality({s \in Sesion : ~Existe(s)}) >
        Cardinality({h \in Llamadas : hilo[h].pc \in {"crear_sesion", "man_crear"}})

\* A relay command answers. The throttle makes it take about a second, so with
\* BaseRapida the statements already sent for that session are done by then.
ReleResponde(h, pc) ==
    /\ En(h, pc)
    /\ BaseRapida =>
          \A g \in Llamadas : hilo[g].ses = SesionDe(h) =>
              hilo[g].pc \in PcRele \cup {"crear_pref", "fin_detectar"}

\* Handlers whose code before the first await is a cancelarTimer.
EmpezarFinalizar(h, s, m) == CancelarTimer(s) /\ Empieza(h, "fin_leer", s, m)
EmpezarIniciarRetorno(h, s) == CancelarTimer(s) /\ Empieza(h, "ret_leer", s, "ninguno")
EmpezarCerrarSalida(h, s) == CancelarTimer(s) /\ Empieza(h, "sal_leer", s, "ninguno")
EmpezarVencerEspera(h, s) == CancelarTimer(s) /\ Empieza(h, "ven_leer", s, "ninguno")
EmpezarCerrarPorCorte(h, s) == CancelarTimer(s) /\ Empieza(h, "cor_leer", s, "ninguno")
EmpezarExpirarPago(h, s) == CancelarTimer(s) /\ Empieza(h, "exp_cas", s, "ninguno")

\* activarSesion up to its first relay command: read the session, reject or
\* return if there is nothing to activate, else cancel its timer.
LeerParaActivar(h, s) ==
    \/ /\ estado[s] \in Activables
       /\ CancelarTimer(s)
       /\ Empieza(h, "act_rele", s, "ninguno")
    \/ /\ estado[s] \notin Activables
       /\ Termina(h)
       /\ UNCHANGED timer

\* reanudarTrasCorte up to its relay command.
LeerParaReanudar(h, s) ==
    IF estado[s] = "ACTIVA" /\ cortada[s]
    THEN Empieza(h, "rea_rele", s, "ninguno")
    ELSE Termina(h)

-----------------------------------------------------------------------------
(***************************************************************************)
(* LIBRE -> PAGO_PENDIENTE: iniciarCheckout and crearSesionPendiente.      *)
(***************************************************************************)

SillaLibreOPagando(t) == silla[t] \in {"LIBRE", "PAGO_PENDIENTE"}
SillaLibre(t) == silla[t] = "LIBRE"

\* The conditional update that claims the chair.
ReservarSilla(h, t) ==
    /\ Atiende(h) /\ QuedaId
    /\ SillaLibre(t)
    /\ silla' = [silla EXCEPT ![t] = "PAGO_PENDIENTE"]
    /\ EmpiezaEnSilla(h, "crear_sesion", t)
    /\ UNCHANGED <<estado, motivo, timer>> /\ UNCHANGED <<filas, corte, control, cuentas>>

\* The sillaId of a new row.
FilaSinSilla(s, t) == sillaDe' = sillaDe
FilaDeSilla(s, t) == sillaDe' = [sillaDe EXCEPT ![s] = t]

\* The row of the session, and its payment timeout.
CrearSesion(h, s) ==
    /\ En(h, "crear_sesion")
    /\ ~Existe(s)
    /\ estado' = [estado EXCEPT ![s] = "PENDIENTE"]
    /\ FilaDeSilla(s, hilo[h].silla)
    /\ Programar(s, "pago")
    /\ Empieza(h, "crear_pref", s, "ninguno")
    /\ UNCHANGED <<silla, motivo, manual>> /\ UNCHANGED <<corte, control, cuentas>>

\* Mercado Pago gives the checkout preference, or fails and the chair goes back.
CrearPreferencia(h) ==
    /\ En(h, "crear_pref")
    /\ \/ /\ enlace' = [enlace EXCEPT ![SesionDe(h)] = TRUE]
          /\ Termina(h)
          /\ UNCHANGED timer
       \/ EmpezarExpirarPago(h, SesionDe(h)) /\ UNCHANGED enlace
    /\ UNCHANGED <<silla, estado, motivo, pagos, revision, vale, revivida>>
    /\ UNCHANGED <<filas, corte, control>>

\* The customer leaves the checkout: cancelarCheckout checks that the session
\* is of that chair, not its state.
CancelarCheckout(h, s) ==
    /\ "cancelar" \in Entradas
    /\ Atiende(h)
    /\ enlace[s]
    /\ EmpezarExpirarPago(h, s)
    /\ UNCHANGED <<silla, estado, motivo>> /\ UNCHANGED <<filas, corte, control, cuentas>>

\* expirarPagoPendiente: the conditional close...
ExpirarPago(h) ==
    LET s == SesionDe(h) IN
    /\ En(h, "exp_cas")
    /\ IF estado[s] = "PENDIENTE"
       THEN /\ estado' = [estado EXCEPT ![s] = "CANCELADA"]
            /\ motivo' = [motivo EXCEPT ![s] = "pago_no_recibido"]
            /\ Sigue(h, "exp_silla")
       ELSE Termina(h) /\ UNCHANGED <<estado, motivo>>
    /\ UNCHANGED <<silla, timer>> /\ UNCHANGED <<filas, corte, control, cuentas>>

\* ...and the chair, if it is still waiting for a payment.
ExpirarPagoLibera(h) ==
    LET t == SillaDe(h) IN
    /\ En(h, "exp_silla")
    /\ silla' = IF silla[t] = "PAGO_PENDIENTE" THEN [silla EXCEPT ![t] = "LIBRE"] ELSE silla
    /\ Termina(h)
    /\ UNCHANGED <<estado, motivo, timer>> /\ UNCHANGED <<filas, corte, control, cuentas>>

-----------------------------------------------------------------------------
(***************************************************************************)
(* -> EN_USO: activarSesion.                                               *)
(***************************************************************************)

\* An approved payment reaches activarSesion; a session that can no longer be
\* activated answers with a conflict, and the payment is flagged for review.
AplicarPago(h, s) ==
    /\ Atiende(h)
    /\ enlace[s] /\ pagos[s] < MaxPagos
    /\ pagos' = [pagos EXCEPT ![s] = @ + 1]
    /\ revision' = [revision EXCEPT ![s] = @ \/ estado[s] \in Cerradas \cup {"SALIDA"}]
    /\ LeerParaActivar(h, s)
    /\ UNCHANGED <<silla, estado, motivo, enlace, vale, revivida>> /\ UNCHANGED <<filas, corte, control>>

\* The relay answers the ON, or the call to Shelly Cloud fails.
ActivarRele(h) ==
    /\ ReleResponde(h, "act_rele")
    /\ \/ Sigue(h, "act_commit")
       \/ Sigue(h, "act_espera")
    /\ UNCHANGED <<silla, estado, motivo, timer>> /\ UNCHANGED <<filas, corte, control, cuentas>>

Revive(s) == revivida' = [revivida EXCEPT ![s] = @ \/ estado[s] \notin Vivas]

\* The transaction that starts the massage. It does not look at the state the
\* session has by now.
ActivarConfirma(h) ==
    LET s == SesionDe(h) IN
    /\ En(h, "act_commit")
    /\ estado' = [estado EXCEPT ![s] = "ACTIVA"]
    /\ cortada' = [cortada EXCEPT ![s] = FALSE]
    /\ silla' = [silla EXCEPT ![SillaDe(h)] = "EN_USO"]
    /\ Programar(s, "fin")
    /\ Revive(s)
    /\ Termina(h)
    /\ UNCHANGED <<motivo, cortes, enlace, pagos, revision, vale>> /\ UNCHANGED <<filas, control>>

\* marcarEsperandoEnergia: paid, but the relay did not answer.
MarcarEsperandoEnergia(h) ==
    LET s == SesionDe(h) IN
    /\ En(h, "act_espera")
    /\ estado' = [estado EXCEPT ![s] = "ESPERANDO_ENERGIA"]
    /\ Programar(s, "energia")
    /\ Revive(s)
    /\ Termina(h)
    /\ UNCHANGED <<silla, motivo, enlace, pagos, revision, vale>> /\ UNCHANGED <<filas, corte, control>>

\* activarManual: only a chair EN_USO is refused, and nothing claims the chair.
ActivarManual(h, t) ==
    /\ "manual" \in Entradas
    /\ Atiende(h) /\ QuedaId
    /\ silla[t] # "EN_USO"
    /\ EmpiezaEnSilla(h, "man_crear", t)
    /\ UNCHANGED <<silla, estado, motivo, timer>> /\ UNCHANGED <<filas, corte, control, cuentas>>

CrearManual(h, s) ==
    /\ En(h, "man_crear")
    /\ ~Existe(s)
    /\ estado' = [estado EXCEPT ![s] = "PENDIENTE"]
    /\ FilaDeSilla(s, hilo[h].silla)
    /\ manual' = [manual EXCEPT ![s] = TRUE]
    /\ Empieza(h, "act_leer", s, "ninguno")
    /\ UNCHANGED <<silla, motivo, timer>> /\ UNCHANGED <<corte, control, cuentas>>

ActivarLee(h) ==
    /\ En(h, "act_leer")
    /\ LeerParaActivar(h, SesionDe(h))
    /\ UNCHANGED <<silla, estado, motivo>> /\ UNCHANGED <<filas, corte, control, cuentas>>

-----------------------------------------------------------------------------
(***************************************************************************)
(* cerrarYLiberar: claim the close, then free the chair, then the voucher. *)
(***************************************************************************)
Desde(m) == CASE m = "salida"  -> "SALIDA"
              [] m = "energia" -> "ESPERANDO_ENERGIA"
              [] OTHER         -> "ACTIVA"
EstadoFinal(m) == IF m \in {"energia", "corte"} THEN "CANCELADA" ELSE "COMPLETADA"
MotivoDe(m) == CASE m = "energia"     -> "sin_energia_al_pagar"
                 [] m = "corte"       -> "corte_de_energia"
                 [] m = "corte_final" -> "corte_sobre_el_final"
                 [] OTHER             -> "tiempo_cumplido"

ReclamaSiempre(s, m) == TRUE

\* The conditional update: the session is still in the state it is closed from.
Reclama(s, m) == estado[s] = Desde(m)

Cerrar(h) ==
    LET s == SesionDe(h)
        m == hilo[h].modo IN
    /\ En(h, "cerrar")
    /\ IF Reclama(s, m)
       THEN /\ estado' = [estado EXCEPT ![s] = EstadoFinal(m)]
            /\ motivo' = [motivo EXCEPT ![s] = MotivoDe(m)]
            /\ cortada' = [cortada EXCEPT ![s] = FALSE]
            /\ Sigue(h, "liberar")
       ELSE Termina(h) /\ UNCHANGED <<estado, motivo, cortada>>
    /\ UNCHANGED <<silla, timer, cortes>> /\ UNCHANGED <<filas, control, cuentas>>

DaValeSoloPorCorte(s, m) == m = "corte" /\ ~manual[s]

\* emitirCreditoDe gives nothing for a manual session.
DaVale(s, m) == m \in {"energia", "corte"} /\ ~manual[s]

\* The chair is freed if anybody has it taken. A paid session closed without
\* its massage goes on to get a voucher.
Liberar(h) ==
    LET s == SesionDe(h)
        t == SillaDe(h) IN
    /\ En(h, "liberar")
    /\ silla' = IF silla[t] \in Tomadas THEN [silla EXCEPT ![t] = "LIBRE"] ELSE silla
    /\ IF DaVale(s, hilo[h].modo)
       THEN Sigue(h, "vale")
       ELSE Termina(h)
    /\ UNCHANGED <<estado, motivo, timer>> /\ UNCHANGED <<filas, corte, control, cuentas>>

\* emitirCreditoDe: a failure is only logged.
EmitirVale(h) ==
    LET s == SesionDe(h) IN
    /\ En(h, "vale")
    /\ \/ vale' = [vale EXCEPT ![s] = IF @ \in {"no", "fallido"} THEN "emitido" ELSE "duplicado"]
       \/ vale' = [vale EXCEPT ![s] = IF @ = "no" THEN "fallido" ELSE @]
    /\ Termina(h)
    /\ UNCHANGED <<silla, estado, motivo, timer, enlace, pagos, revision, revivida>>
    /\ UNCHANGED <<filas, corte, control>>

\* vencerEsperaEnergia and cerrarPorCorte up to cerrarYLiberar.
VencerEsperaLee(h) ==
    /\ En(h, "ven_leer")
    /\ IF estado[SesionDe(h)] = "ESPERANDO_ENERGIA"
       THEN SigueEn(h, "cerrar", "energia")
       ELSE Termina(h)
    /\ UNCHANGED <<silla, estado, motivo, timer>> /\ UNCHANGED <<filas, corte, control, cuentas>>

CerrarPorCorteLee(h) ==
    /\ En(h, "cor_leer")
    /\ IF estado[SesionDe(h)] = "ACTIVA" /\ cortada[SesionDe(h)]
       THEN Sigue(h, "cor_off")
       ELSE Termina(h)
    /\ UNCHANGED <<silla, estado, motivo, timer>> /\ UNCHANGED <<filas, corte, control, cuentas>>

\* The OFF may fail, it does not matter. What was left of the massage decides
\* between a voucher and a session given by finished.
CerrarPorCorteApaga(h) ==
    /\ ReleResponde(h, "cor_off")
    /\ \/ SigueEn(h, "cerrar", "corte")
       \/ SigueEn(h, "cerrar", "corte_final")
    /\ UNCHANGED <<silla, estado, motivo, timer>> /\ UNCHANGED <<filas, corte, control, cuentas>>

-----------------------------------------------------------------------------
(***************************************************************************)
(* EN_USO -> LIBRE: finalizarSesion, iniciarRetorno, cerrarSalida.         *)
(***************************************************************************)
FinalizarLee(h) ==
    LET s == SesionDe(h) IN
    /\ En(h, "fin_leer")
    /\ IF estado[s] = "ACTIVA" /\ ~cortada[s]
       THEN Sigue(h, IF hilo[h].modo = "cumplido" THEN "fin_detectar" ELSE "fin_off")
       ELSE Termina(h)
    /\ UNCHANGED <<silla, estado, motivo, timer>> /\ UNCHANGED <<filas, corte, control, cuentas>>

\* detectarCorteAlCierre: a last look at the device may find a cut to register.
FinalizarDetecta(h) ==
    /\ En(h, "fin_detectar")
    /\ \/ Sigue(h, "fin_off")
       \/ cortes[SesionDe(h)] < MaxCortes /\ Sigue(h, "fin_corte")
    /\ UNCHANGED <<silla, estado, motivo, timer>> /\ UNCHANGED <<filas, corte, control, cuentas>>

\* registrarCorte: the conditional update that marks the cut.
PuedeMarcarCorte(s) == estado[s] = "ACTIVA" /\ ~cortada[s]
MarcarCorte(s) ==
    /\ cortada' = [cortada EXCEPT ![s] = TRUE]
    /\ cortes' = [cortes EXCEPT ![s] = IF @ < MaxCortes THEN @ + 1 ELSE @]

FinalizarRegistraCorte(h) ==
    LET s == SesionDe(h) IN
    /\ En(h, "fin_corte")
    /\ IF PuedeMarcarCorte(s)
       THEN MarcarCorte(s) /\ Termina(h)
       ELSE Sigue(h, "fin_off") /\ UNCHANGED corte
    /\ UNCHANGED <<silla, estado, motivo, timer>> /\ UNCHANGED <<filas, control, cuentas>>

\* The OFF answers or fails (the auto-off of the device acts then).
FinalizarApaga(h) ==
    /\ ReleResponde(h, "fin_off")
    /\ IF SesionDe(h) \in ConRetorno
       THEN Sigue(h, "fin_salida")
       ELSE SigueEn(h, "cerrar", "fin")
    /\ UNCHANGED <<silla, estado, motivo, timer>> /\ UNCHANGED <<filas, corte, control, cuentas>>

PuedeSalirConCorte(s) == estado[s] = "ACTIVA"

\* The conditional update to SALIDA.
PuedeSalir(s) == estado[s] = "ACTIVA" /\ ~cortada[s]

FinalizarASalida(h) ==
    LET s == SesionDe(h) IN
    /\ En(h, "fin_salida")
    /\ IF PuedeSalir(s)
       THEN /\ estado' = [estado EXCEPT ![s] = "SALIDA"]
            /\ motivo' = [motivo EXCEPT ![s] = "tiempo_cumplido"]
            /\ Sigue(h, "fin_silla")
       ELSE Termina(h) /\ UNCHANGED <<estado, motivo>>
    /\ UNCHANGED <<silla, timer>> /\ UNCHANGED <<filas, corte, control, cuentas>>

\* The chair's finSesionActual, then the timer of the return pulse.
FinalizarProgramaRetorno(h) ==
    /\ En(h, "fin_silla")
    /\ Programar(SesionDe(h), "retorno")
    /\ Termina(h)
    /\ UNCHANGED <<silla, estado, motivo>> /\ UNCHANGED <<filas, corte, control, cuentas>>

IniciarRetornoLee(h) ==
    /\ En(h, "ret_leer")
    /\ IF estado[SesionDe(h)] = "SALIDA" THEN Sigue(h, "ret_rele") ELSE Termina(h)
    /\ UNCHANGED <<silla, estado, motivo, timer>> /\ UNCHANGED <<filas, corte, control, cuentas>>

IniciarRetornoReleSinCierre(h) ==
    /\ ReleResponde(h, "ret_rele")
    /\ Sigue(h, "ret_silla") \/ Termina(h)
    /\ UNCHANGED <<silla, estado, motivo, timer>> /\ UNCHANGED <<filas, corte, control, cuentas>>

\* The pulse, or no power to give it: then the session closes at once.
IniciarRetornoRele(h) ==
    /\ ReleResponde(h, "ret_rele")
    /\ \/ Sigue(h, "ret_silla") /\ UNCHANGED timer
       \/ EmpezarCerrarSalida(h, SesionDe(h))
    /\ UNCHANGED <<silla, estado, motivo>> /\ UNCHANGED <<filas, corte, control, cuentas>>

\* salidaHasta and finSesionActual, then the timer that closes the session.
IniciarRetornoPrograma(h) ==
    /\ En(h, "ret_silla")
    /\ Programar(SesionDe(h), "salida")
    /\ Termina(h)
    /\ UNCHANGED <<silla, estado, motivo>> /\ UNCHANGED <<filas, corte, control, cuentas>>

CerrarSalidaLee(h) ==
    /\ En(h, "sal_leer")
    /\ IF estado[SesionDe(h)] = "SALIDA" THEN Sigue(h, "sal_off") ELSE Termina(h)
    /\ UNCHANGED <<silla, estado, motivo, timer>> /\ UNCHANGED <<filas, corte, control, cuentas>>

CerrarSalidaApaga(h) ==
    /\ ReleResponde(h, "sal_off")
    /\ SigueEn(h, "cerrar", "salida")
    /\ UNCHANGED <<silla, estado, motivo, timer>> /\ UNCHANGED <<filas, corte, control, cuentas>>

-----------------------------------------------------------------------------
(***************************************************************************)
(* Power cuts: EnergiaService.revisar and reanudarTrasCorte.               *)
(***************************************************************************)

\* A pass reads the sessions it will look at, with the state they have now.
\* Assumed: the first pass (15 s and a heartbeat after the start) finds the
\* bootstrap finished.
Revisar ==
    /\ "energia" \in Entradas
    /\ arranque.fase = Listo
    /\ pasada = {} /\ En(HiloEnergia, "libre")
    /\ pasada' = {[ses |-> s, estado |-> estado[s], cortada |-> cortada[s]] :
                    s \in {x \in Sesion : estado[x] \in {"ACTIVA", "ESPERANDO_ENERGIA"}}}
    /\ UNCHANGED <<silla, estado, motivo, timer, hilo, arranque, reinicios>>
    /\ UNCHANGED <<filas, corte, cuentas>>

\* The next row of the pass. What the code does depends on the row as it was
\* read, on the heartbeat and on the clock.
Decide(f) ==
    /\ f \in pasada /\ En(HiloEnergia, "libre")
    /\ pasada' = pasada \ {f}
    /\ UNCHANGED <<silla, estado, motivo, arranque, reinicios>> /\ UNCHANGED <<filas, cuentas>>

\* No fresh heartbeat, still no power within the threshold, or nothing wrong.
RevisarOmite(f) ==
    /\ Decide(f)
    /\ UNCHANGED <<timer, hilo>> /\ UNCHANGED corte

RevisarEspera(f) ==
    /\ f.estado = "ESPERANDO_ENERGIA"
    /\ Decide(f)
    /\ \/ EmpezarVencerEspera(HiloEnergia, f.ses)
       \/ LeerParaActivar(HiloEnergia, f.ses)
    /\ UNCHANGED corte

RevisarCierra(f) ==
    /\ f.cortada
    /\ Decide(f)
    /\ EmpezarCerrarPorCorte(HiloEnergia, f.ses)
    /\ UNCHANGED corte

RevisarReanuda(f) ==
    /\ f.estado = "ACTIVA" /\ f.cortada
    /\ Decide(f)
    /\ LeerParaReanudar(HiloEnergia, f.ses)
    /\ UNCHANGED timer /\ UNCHANGED corte

\* Offline: register the cut. Online with the relay open: register it and, if
\* this call is the one that registered it, resume.
RevisarRegistra(f) ==
    LET s == f.ses IN
    /\ f.estado = "ACTIVA" /\ ~f.cortada
    /\ cortes[s] < MaxCortes
    /\ Decide(f)
    /\ IF PuedeMarcarCorte(s)
       THEN /\ MarcarCorte(s)
            /\ \/ UNCHANGED hilo
               \/ Empieza(HiloEnergia, "rea_leer", s, "ninguno")
       ELSE UNCHANGED hilo /\ UNCHANGED corte
    /\ UNCHANGED timer

ReanudarLee(h) ==
    /\ En(h, "rea_leer")
    /\ LeerParaReanudar(h, SesionDe(h))
    /\ UNCHANGED <<silla, estado, motivo, timer>> /\ UNCHANGED <<filas, corte, control, cuentas>>

\* The ON answers; if it fails the cut stays open for the next pass.
ReanudarRele(h) ==
    /\ ReleResponde(h, "rea_rele")
    /\ Sigue(h, "rea_cas") \/ Termina(h)
    /\ UNCHANGED <<silla, estado, motivo, timer>> /\ UNCHANGED <<filas, corte, control, cuentas>>

ReanudarReclama(h) ==
    LET s == SesionDe(h) IN
    /\ En(h, "rea_cas")
    /\ IF estado[s] = "ACTIVA" /\ cortada[s]
       THEN cortada' = [cortada EXCEPT ![s] = FALSE] /\ Sigue(h, "rea_silla")
       ELSE Termina(h) /\ UNCHANGED cortada
    /\ UNCHANGED <<silla, estado, motivo, timer, cortes>> /\ UNCHANGED <<filas, control, cuentas>>

ReanudarPrograma(h) ==
    /\ En(h, "rea_silla")
    /\ Programar(SesionDe(h), "fin")
    /\ Termina(h)
    /\ UNCHANGED <<silla, estado, motivo>> /\ UNCHANGED <<filas, corte, control, cuentas>>

-----------------------------------------------------------------------------
(***************************************************************************)
(* detenerEmergencia. If the OFF fails the call fails and nothing changes, *)
(* so the call is followed from the OFF that answered.                     *)
(***************************************************************************)
DetenerEmergencia(h, t) ==
    /\ "emergencia" \in Entradas
    /\ Atiende(h)
    /\ EmpiezaEnSilla(h, "emg_buscar", t)
    /\ UNCHANGED <<silla, estado, motivo, timer>> /\ UNCHANGED <<filas, corte, control, cuentas>>

EnMarcha == Vivas \ {"PENDIENTE"}
EnMarchaEnCualquiera(t) == {s \in Sesion : estado[s] \in EnMarcha}
EnMarchaEn(t) == {s \in Sesion : sillaDe[s] = t /\ estado[s] \in EnMarcha}

\* findFirst without an order: any of the chair's paid, unfinished sessions.
EmergenciaBusca(h) ==
    LET t == hilo[h].silla IN
    /\ En(h, "emg_buscar")
    /\ IF EnMarchaEn(t) = {}
       THEN Sigue(h, "emg_silla") /\ UNCHANGED timer
       ELSE \E s \in EnMarchaEn(t) :
              /\ CancelarTimer(s)
              /\ hilo' = [hilo EXCEPT ![h].pc = "emg_sesion", ![h].ses = s]
    /\ UNCHANGED <<silla, estado, motivo>> /\ UNCHANGED <<filas, corte, control, cuentas>>

EmergenciaCancela(h) ==
    LET s == SesionDe(h) IN
    /\ En(h, "emg_sesion")
    /\ estado' = [estado EXCEPT ![s] = "CANCELADA"]
    /\ motivo' = [motivo EXCEPT ![s] = "parada_de_emergencia"]
    /\ cortada' = [cortada EXCEPT ![s] = FALSE]
    /\ Sigue(h, "emg_silla")
    /\ UNCHANGED <<silla, timer, cortes>> /\ UNCHANGED <<filas, control, cuentas>>

EmergenciaLibera(h) ==
    /\ En(h, "emg_silla")
    /\ silla' = [silla EXCEPT ![hilo[h].silla] = "LIBRE"]
    /\ Termina(h)
    /\ UNCHANGED <<estado, motivo, timer>> /\ UNCHANGED <<filas, corte, control, cuentas>>

-----------------------------------------------------------------------------
(***************************************************************************)
(* Timers and restarts.                                                    *)
(***************************************************************************)
DispararTimer(h, s) ==
    /\ h \in Hilos /\ En(h, "libre")
    /\ \/ timer[s] = "pago"    /\ EmpezarExpirarPago(h, s)
       \/ timer[s] = "energia" /\ EmpezarVencerEspera(h, s)
       \/ timer[s] = "fin"     /\ EmpezarFinalizar(h, s, "cumplido")
       \/ timer[s] = "retorno" /\ EmpezarIniciarRetorno(h, s)
       \/ timer[s] = "salida"  /\ EmpezarCerrarSalida(h, s)
    /\ UNCHANGED <<silla, estado, motivo>> /\ UNCHANGED <<filas, corte, control, cuentas>>

\* The process dies: calls in flight and timers are lost, the rows stay.
Reiniciar ==
    /\ "reinicio" \in Entradas
    /\ reinicios < MaxReinicios
    /\ reinicios' = reinicios + 1
    /\ hilo' = [h \in Llamadas |-> Libre]
    /\ timer' = [s \in Sesion |-> "ninguno"]
    /\ pasada' = {}
    /\ arranque' = [fase |-> 0, lista |-> {}]
    /\ UNCHANGED <<silla, estado, motivo>> /\ UNCHANGED <<filas, corte, cuentas>>

ArranqueLee ==
    /\ arranque.fase < Listo
    /\ arranque.lista = {} /\ En(HiloArranque, "libre")
    /\ arranque' = IF arranque.fase = Listo - 1
                   THEN [fase |-> Listo, lista |-> {}]
                   ELSE [fase  |-> arranque.fase + 1,
                         lista |-> {s \in Sesion : estado[s] = Fases[arranque.fase + 1]}]
    /\ UNCHANGED <<silla, estado, motivo, timer, hilo, pasada, reinicios>>
    /\ UNCHANGED <<filas, corte, cuentas>>

\* One session of the list: overdue, and its handler runs now, or its timer is
\* armed again. A session in the middle of a cut is left to EnergiaService.
ArranqueRecupera(s) ==
    LET h == HiloArranque
        rearma(c) == Programar(s, c) /\ UNCHANGED hilo IN
    /\ s \in arranque.lista /\ En(h, "libre")
    /\ arranque' = [arranque EXCEPT !.lista = @ \ {s}]
    /\ \/ arranque.fase = 1 /\ cortada[s] /\ UNCHANGED <<timer, hilo>>
       \/ arranque.fase = 1 /\ ~cortada[s] /\ (EmpezarFinalizar(h, s, "reinicio") \/ rearma("fin"))
       \/ arranque.fase = 2 /\ (EmpezarCerrarSalida(h, s) \/ rearma("retorno") \/ rearma("salida"))
       \/ arranque.fase = 3 /\ (EmpezarVencerEspera(h, s) \/ rearma("energia"))
       \/ arranque.fase = 4 /\ (EmpezarExpirarPago(h, s) \/ rearma("pago"))
    /\ UNCHANGED <<silla, estado, motivo, pasada, reinicios>> /\ UNCHANGED <<filas, corte, cuentas>>

-----------------------------------------------------------------------------
\* One awaited statement of a call in flight.
Paso(h) ==
    \/ \E s \in Sesion : CrearSesion(h, s) \/ CrearManual(h, s)
    \/ CrearPreferencia(h)
    \/ ExpirarPago(h)
    \/ ExpirarPagoLibera(h)
    \/ ActivarLee(h)
    \/ ActivarRele(h)
    \/ ActivarConfirma(h)
    \/ MarcarEsperandoEnergia(h)
    \/ Cerrar(h)
    \/ Liberar(h)
    \/ EmitirVale(h)
    \/ VencerEsperaLee(h)
    \/ CerrarPorCorteLee(h)
    \/ CerrarPorCorteApaga(h)
    \/ FinalizarLee(h)
    \/ FinalizarDetecta(h)
    \/ FinalizarRegistraCorte(h)
    \/ FinalizarApaga(h)
    \/ FinalizarASalida(h)
    \/ FinalizarProgramaRetorno(h)
    \/ IniciarRetornoLee(h)
    \/ IniciarRetornoRele(h)
    \/ IniciarRetornoPrograma(h)
    \/ CerrarSalidaLee(h)
    \/ CerrarSalidaApaga(h)
    \/ ReanudarLee(h)
    \/ ReanudarRele(h)
    \/ ReanudarReclama(h)
    \/ ReanudarPrograma(h)
    \/ EmergenciaBusca(h)
    \/ EmergenciaCancela(h)
    \/ EmergenciaLibera(h)

Energia ==
    \/ Revisar
    \/ \E f \in pasada :
         \/ RevisarOmite(f)
         \/ RevisarEspera(f)
         \/ RevisarCierra(f)
         \/ RevisarReanuda(f)
         \/ RevisarRegistra(f)

Arranque == ArranqueLee \/ \E s \in Sesion : ArranqueRecupera(s)

Pedido ==
    \/ \E h \in Hilos, t \in Silla :
         \/ ReservarSilla(h, t)
         \/ ActivarManual(h, t)
         \/ DetenerEmergencia(h, t)
    \/ \E h \in Hilos, s \in Sesion :
         \/ CancelarCheckout(h, s)
         \/ AplicarPago(h, s)

Next ==
    \/ Pedido
    \/ \E h \in Llamadas : Paso(h)
    \/ \E h \in Hilos, s \in Sesion : DispararTimer(h, s)
    \/ Energia
    \/ Arranque
    \/ Reiniciar

Spec == Init /\ [][Next]_vars

(***************************************************************************)
(* Fairness: awaited statements answer, the bootstrap goes on and the      *)
(* interval of EnergiaService keeps running.  An armed timer fires even if *)
(* retries keep cancelling and arming it again: they arm it for the same   *)
(* deadline, and past it for at once.  A cut that lasts is closed in the   *)
(* end: after twice the threshold any pass that holds the row closes it,   *)
(* whatever the heartbeat says.                                            *)
(***************************************************************************)
Justicia ==
    /\ \A h \in Llamadas : WF_vars(Paso(h))
    /\ \A s \in Sesion : SF_vars(\E h \in Hilos : DispararTimer(h, s))
    /\ WF_vars(Arranque)
    /\ WF_vars(Energia)
    /\ \A s \in Sesion : SF_vars(\E f \in pasada : f.ses = s /\ RevisarCierra(f))

SpecJusta == Spec /\ Justicia

-----------------------------------------------------------------------------
(***************************************************************************)
(* What the service promises.                                              *)
(***************************************************************************)

\* A call in flight that is not done with the chair t: it has claimed it and
\* is about to create the session, or it has closed the session and is about
\* to free the chair.
SigueConSilla(h, t) ==
    \/ hilo[h].pc \in {"crear_sesion", "emg_silla"} /\ hilo[h].silla = t
    \/ hilo[h].pc \in {"exp_silla", "liberar"} /\ SillaDe(h) = t

VivasEn(t) == {s \in Sesion : sillaDe[s] = t /\ estado[s] \in Vivas}

\* No chair is stranded.  Until the process dies, a chair that is not LIBRE has
\* an unfinished session on it, or a call in flight that is not done with it,
\* however payments, timeouts, cancellations, power cuts, emergency stops and
\* manual activations interleave (every transition of Silla.estado).
SillaConDuenio ==
    reinicios = 0 =>
        \A t \in Silla : silla[t] # "LIBRE" =>
            VivasEn(t) # {} \/ \E h \in Llamadas : SigueConSilla(h, t)

\* A call in flight that will settle the session from the state it is in.
Atendida(s) ==
    \E h \in Llamadas : hilo[h].ses = s /\
        \/ estado[s] \in Activables /\ hilo[h].pc \in
             {"act_leer", "act_rele", "act_commit", "act_espera"}
        \/ estado[s] = "PENDIENTE" /\ hilo[h].pc = "exp_cas"
        \/ estado[s] = "ESPERANDO_ENERGIA" /\ hilo[h].pc = "ven_leer"
        \/ estado[s] = "ACTIVA" /\ hilo[h].pc \in
             {"fin_leer", "fin_detectar", "fin_corte", "fin_off", "fin_salida",
              "cor_leer", "cor_off", "rea_silla"}
        \/ estado[s] = "SALIDA" /\ hilo[h].pc \in
             {"fin_silla", "ret_leer", "ret_rele", "ret_silla", "sal_leer", "sal_off"}
        \/ hilo[h].pc = "cerrar" /\ estado[s] = Desde(hilo[h].modo)
        \/ hilo[h].pc = "emg_sesion"

\* The callback that must be armed while nobody attends the session.
Despertador(e) == CASE e = "PENDIENTE"         -> {"pago"}
                    [] e = "ESPERANDO_ENERGIA" -> {"energia"}
                    [] e = "ACTIVA"            -> {"fin"}
                    [] OTHER                   -> {"retorno", "salida"}

\* The bootstrap has this session still to look at.
PorRecuperar(s) ==
    \/ s \in arranque.lista
    \/ \E f \in 1..4 : f > arranque.fase /\ Fases[f] = estado[s]

\* Every unfinished session has something that will move it on: the timer of
\* the state it is in, a call in flight, EnergiaService while a cut lasts, or
\* the bootstrap after a restart (programar, cancelarTimer and their order
\* with the awaits of each handler).
SesionConDespertador ==
    \A s \in Sesion : estado[s] \in Vivas =>
        \/ timer[s] \in Despertador(estado[s])
        \/ Atendida(s)
        \/ estado[s] = "ACTIVA" /\ cortada[s]
        \/ PorRecuperar(s)

\* Two customers never share a chair, and the chair of an unfinished session is
\* never offered to another, unless activarSesion wrote a closed session of
\* that chair back to life: the one write of the service that does not check
\* what it overwrites (the updates of a payment, sesiones.service.ts:436).
ExclusivaSalvoRevivida ==
    \A t \in Silla :
        (\A s \in Sesion : sillaDe[s] = t => ~revivida[s]) =>
            /\ \A s1, s2 \in VivasEn(t) : s1 = s2
            /\ VivasEn(t) # {} => silla[t] # "LIBRE"

\* A customer gets the massage or the voucher, not both and not two vouchers,
\* though the timer and EnergiaService may close the session at once (the
\* claim of cerrarYLiberar), unless the session was written back to life.
ValeOMasaje ==
    \A s \in Sesion : ~revivida[s] =>
        /\ vale[s] # "duplicado"
        /\ vale[s] = "emitido" => estado[s] = "CANCELADA"

EnCurso(s) == \E h \in Llamadas : hilo[h].ses = s /\ hilo[h].pc # "libre"

\* Until the process dies, no applied payment ends in nothing: if its session
\* is CANCELADA and nobody is working on it, a voucher was issued (or its
\* failure logged), the owner stopped the chair, or the payment was flagged.
PagoConDestino ==
    \A s \in Sesion :
        reinicios = 0 /\ pagos[s] > 0 /\ estado[s] = "CANCELADA" /\ ~EnCurso(s) =>
            \/ vale[s] # "no"
            \/ motivo[s] = "parada_de_emergencia"
            \/ revision[s]

MotivosDeCorte == {"corte_de_energia", "corte_sobre_el_final", "parada_de_emergencia"}

\* With a return pulse configured, a session in the middle of a power cut is
\* settled as a cut, never closed as a massage that was given, although the
\* cut may be registered while finalizarSesion awaits the relay.
CorteSeResuelve ==
    [][\A s \in ConRetorno :
          estado[s] = "ACTIVA" /\ cortada[s] /\ estado'[s] # "ACTIVA"
              => motivo'[s] \in MotivosDeCorte]_vars

\* The same without the restriction, as the comment of finalizarSesion says it
\* of every session ("No la damos por cumplida").  It does not hold: see the
\* findings in the README.
CorteNuncaCumplido ==
    [][\A s \in Sesion :
          estado[s] = "ACTIVA" /\ cortada[s] /\ estado'[s] # "ACTIVA"
              => motivo'[s] \in MotivosDeCorte]_vars

\* The comment of cerrarYLiberar: "La silla se libera solo si sigue tomada por
\* ESTA sesion".  Freeing a chair must leave no other session on it.  It does
\* not hold: see the findings in the README.
LiberaSoloLaPropia ==
    [][\A h \in Llamadas : Liberar(h) =>
          \/ VivasEn(SillaDe(h)) = {}
          \/ silla'[SillaDe(h)] = silla[SillaDe(h)]]_vars

\* Every session ends, through power cuts, retries and a restart.
SesionTermina ==
    \A s \in Sesion : estado[s] \in Vivas ~> estado[s] \in Cerradas

-----------------------------------------------------------------------------
(***************************************************************************)
(* The inductive invariant behind SillaConDuenio.                          *)
(***************************************************************************)

\* What a call in flight names exists.
LlamadaCoherente(c) ==
    /\ c.pc \in PcSilla => c.silla \in Silla
    /\ c.pc \in PcSesion => c.ses \in Sesion /\ Existe(c.ses)
    /\ c.pc = "emg_sesion" => sillaDe[c.ses] = c.silla

HiloCoherente == \A h \in Llamadas : LlamadaCoherente(hilo[h])

ReferenciasCoherentes ==
    /\ \A s \in Sesion : timer[s] # "ninguno" => Existe(s)
    /\ \A s \in Sesion : enlace[s] => Existe(s)
    /\ \A f \in pasada : Existe(f.ses)
    /\ \A s \in arranque.lista : Existe(s)

\* A chair waiting for a payment may belong to a PENDIENTE session, and the
\* call that expires it frees it; a chair EN_USO cannot: that call leaves it.
EnUsoConDuenio ==
    \A t \in Silla : silla[t] = "EN_USO" =>
        \/ EnMarchaEn(t) # {}
        \/ \E h \in Llamadas : SigueConSilla(h, t) /\ hilo[h].pc \in {"emg_silla", "liberar"}

PagoPendienteConDuenio ==
    \A t \in Silla : silla[t] = "PAGO_PENDIENTE" =>
        VivasEn(t) # {} \/ \E h \in Llamadas : SigueConSilla(h, t)

Coherente ==
    /\ TypeOK
    /\ \A t \in Silla : silla[t] \in {"LIBRE", "PAGO_PENDIENTE", "EN_USO"}
    /\ HiloCoherente
    /\ ReferenciasCoherentes

IInv == Coherente /\ (reinicios = 0 => EnUsoConDuenio /\ PagoPendienteConDuenio)

=============================================================================
