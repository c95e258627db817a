------------------------------- MODULE Cortes -------------------------------
(***************************************************************************)
(* One paid massage against the clock: the relay, the power, what Shelly   *)
(* Cloud says of the device, the readings of the heartbeat, and the        *)
(* decisions of EnergiaService and SesionesService with their times.       *)
(*                                                                         *)
(* Time is discrete (`hora`, the unit is the 30 s of the heartbeat).       *)
(* Within a unit the reading, the pass, the timers and what happens in the *)
(* premises come in any order; the clock moves on when everything that was *)
(* due has run.  Instants start at 1, so 0 stands for null.  The ON of the *)
(* return pulse takes up to Latencia; every other command is accepted or   *)
(* refused at once: their delays are the subject of module Rele.           *)
(***************************************************************************)
EXTENDS Integers, FiniteSets, Reloj

CONSTANTS
    Duracion,   \* duracionMin of the session, in units
    Minuto,     \* units in a minute
    Gracia,     \* graciaInicioSeg
    Reinicio,   \* GRACIA_REINICIO_SEG
    Resto,      \* restoDespreciableSeg of the session
    Umbral,     \* UMBRAL_CORTE_SEG
    Margen,     \* MARGEN_AUTO_OFF_SEG
    Pausa,      \* pausaRetornoSeg
    Retorno,    \* retornoSeg
    Asentado,   \* the 60 s of arranqueYaAsentado
    Fresca,     \* FRESCURA_MAX_MS
    Demora,     \* bound: units the cloud takes to notice a device
    Latencia,   \* bound: units for which the ON of the return pulse waits its
                \* turn in the chain of commands, is retried and answered
    BaseRapida, \* assume no timer fires between two statements of a resume
    MaxFallos,  \* bound: losses of power or network, of the cloud, restarts
    MaxArranque,\* bound: the backend is up again by then
    MaxHora     \* bound of the clock

ASSUME TiemposAssumption ==
    /\ {Duracion, Minuto, Umbral, Reinicio, Fresca} \subseteq Nat \ {0}
    /\ {Gracia, Resto, Margen, Pausa, Retorno, Asentado, Demora, Latencia} \subseteq Nat
    /\ Duracion % Minuto = 0
ASSUME BaseRapidaAssumption == BaseRapida \in BOOLEAN
ASSUME CotasAssumption == {MaxFallos, MaxArranque} \subseteq Nat /\ MaxHora \in Nat \ {0, 1}

VARIABLES
    hora,        \* Date.now()
    luz, red,    \* the chair has power, the device has network
    rele,        \* the contact is closed; without power, the last one reported
    autoOff,     \* when the toggle_after of the device is due, 0 if none
    nube,        \* Shelly Cloud takes the device for online
    desfase,     \* units for which it has been mistaken
    api,         \* Shelly Cloud answers
    salud,       \* SaludSilla of the chair
    comando,     \* ultimoComando of the device
    estado,      \* Sesion.estado
    fin,         \* Sesion.finProgramado
    interrumpida,\* Sesion.interrumpidaEn
    compensado,  \* Sesion.segundosCompensados
    salidaHasta, \* Sesion.salidaHasta
    motivo,      \* Sesion.motivoCierre
    vale,        \* minutes of the voucher that was issued
    timer,       \* the timer of the session: what it calls and when
    reanuda,     \* reanudarTrasCorte in progress
    pulso,       \* iniciarRetorno in progress, and for how long it has waited
    toca,        \* the @Interval callbacks that are due in this unit
    vivo,        \* the backend is running
    apagones, fallas, caidas,  \* losses of the device, of the cloud, restarts
    masaje       \* history: units of current the chair has had while ACTIVA

local == <<luz, red, apagones>>
equipo == <<rele, autoOff>>
cloud == <<nube, desfase, api, fallas>>
fila == <<estado, fin, interrumpida, compensado, salidaHasta, motivo, vale>>
proceso == <<salud, comando, timer, reanuda, pulso, toca, vivo, caidas>>
vars == <<hora, luz, red, rele, autoOff, nube, desfase, api, salud, comando, estado, fin,
          interrumpida, compensado, salidaHasta, motivo, vale, timer, reanuda, pulso, toca,
          vivo, apagones, fallas, caidas, masaje>>

-----------------------------------------------------------------------------
Inicio == 2
SinSalud == [hay |-> FALSE, online |-> FALSE, rele |-> FALSE,
             chequeo |-> 0, ultimoOnline |-> 0, ultimoRele |-> 0]
SinTimer == [que |-> "ninguno", cuando |-> 0]
Timer(que, cuando) == [que |-> que, cuando |-> cuando]
NoReanuda == [pc |-> "libre", fin |-> 0, devuelve |-> 0]
NoPulso == [pc |-> "libre", espera |-> 0]

TypeOK ==
    /\ hora \in 1..MaxHora
    /\ {luz, red, rele, nube, api, vivo} \subseteq BOOLEAN
    /\ {autoOff, comando, fin, interrumpida, compensado, salidaHasta} \subseteq Nat
    /\ desfase \in 0..Demora
    /\ salud \in [hay: BOOLEAN, online: BOOLEAN, rele: BOOLEAN,
                  chequeo: 0..MaxHora, ultimoOnline: 0..MaxHora, ultimoRele: 0..MaxHora]
    /\ estado \in {"ACTIVA", "SALIDA", "COMPLETADA", "CANCELADA"}
    /\ motivo \in {"ninguno", "tiempo_cumplido", "completada_tras_reinicio",
                   "corte_sobre_el_final", "corte_de_energia", "parada_de_emergencia"}
    /\ vale \in 0..Duracion \div Minuto
    /\ timer \in [que: {"ninguno", "fin", "retorno", "salida"}, cuando: Nat]
    /\ reanuda \in [pc: {"libre", "leer", "reclamar", "programar"}, fin: Nat, devuelve: Nat]
    /\ pulso \in [pc: {"libre", "pide", "escribe"}, espera: 0..Latencia]
    /\ toca \subseteq {"latido", "pasada"}
    /\ {apagones, fallas, caidas} \subseteq 0..MaxFallos
    /\ masaje \in Nat

\* activarSesion has just written ACTIVA; the last reading was before its ON.
Init ==
    /\ hora = Inicio
    /\ luz = TRUE /\ red = TRUE /\ rele = TRUE
    /\ nube = TRUE /\ desfase = 0 /\ api = TRUE
    /\ salud = [SinSalud EXCEPT !.hay = TRUE, !.online = TRUE,
                                 !.chequeo = Inicio - 1, !.ultimoOnline = Inicio - 1]
    /\ comando = Inicio
    /\ estado = "ACTIVA" /\ fin = Inicio + Duracion + Gracia
    /\ autoOff = fin + Margen
    /\ interrumpida = 0 /\ compensado = 0 /\ salidaHasta = 0
    /\ motivo = "ninguno" /\ vale = 0
    /\ timer = Timer("fin", fin) /\ reanuda = NoReanuda /\ pulso = NoPulso
    /\ toca = {} /\ vivo = TRUE
    /\ apagones = 0 /\ fallas = 0 /\ caidas = 0 /\ masaje = 0

-----------------------------------------------------------------------------
(* The relay and its commands.                                             *)

Alcanzable == luz /\ red
Responde == Alcanzable /\ nube /\ api

\* Mutant: a resume asks for the toggle_after of a whole session again.
EnciendeTurnoEntero(porCuanto) ==
    /\ Responde
    /\ rele' = TRUE /\ autoOff' = hora + Duracion + Gracia + Margen /\ comando' = hora

Enciende(porCuanto) ==
    /\ Responde
    /\ rele' = TRUE /\ autoOff' = hora + porCuanto /\ comando' = hora

\* An OFF that is refused changes nothing: toggle_after stands in for it.
Apaga ==
    IF Responde THEN rele' = FALSE /\ autoOff' = 0 /\ comando' = hora
                ELSE UNCHANGED <<rele, autoOff, comando>>

-----------------------------------------------------------------------------
(* HeartbeatService.                                                       *)

\* A reading that fails leaves the last one in place.
Latido ==
    /\ vivo /\ "latido" \in toca /\ toca' = toca \ {"latido"}
    /\ \/ ~api /\ UNCHANGED salud
       \/ /\ api
          /\ salud' = [hay |-> TRUE, online |-> nube, rele |-> rele, chequeo |-> hora,
                       ultimoOnline |-> IF nube THEN hora ELSE salud.ultimoOnline,
                       ultimoRele |-> IF nube /\ rele THEN hora ELSE salud.ultimoRele]
    /\ UNCHANGED <<hora, local, equipo, cloud, comando, fila, timer, reanuda, pulso, vivo,
                   caidas, masaje>>

-----------------------------------------------------------------------------
(* The end of the massage.                                                 *)

\* cerrarYLiberar.
Cierra(como, por, minutos) ==
    /\ estado' = como /\ motivo' = por /\ vale' = minutos
    /\ interrumpida' = 0 /\ salidaHasta' = 0
    /\ UNCHANGED <<fin, compensado>>

registrarCorte(cuando) ==
    /\ interrumpida' = cuando
    /\ UNCHANGED <<estado, fin, compensado, salidaHasta, motivo, vale>>

\* detectarCorteAlCierre looks at the device itself, and dates the cut by the
\* last readings.
VistoAlCierre ==
    CorteAlCierre(IF nube THEN salud.ultimoRele ELSE salud.ultimoOnline, hora, Inicio, comando)
CorteAlCerrar == api /\ ~(nube /\ rele) /\ fin - VistoAlCierre > Resto

\* finalizarSesion, from the point where the session is known to be ACTIVA
\* and not interrupted.
Termina(por) ==
    /\ Apaga
    /\ IF Retorno = 0
       THEN Cierra("COMPLETADA", por, 0) /\ timer' = SinTimer
       ELSE /\ estado' = "SALIDA" /\ motivo' = por
            /\ salidaHasta' = hora + Pausa + Retorno
            /\ timer' = Timer("retorno", hora + Pausa)
            /\ UNCHANGED <<fin, interrumpida, compensado, vale>>

Vencido(que) == vivo /\ timer.que = que /\ timer.cuando <= hora

TimerFin ==
    /\ Vencido("fin")
    /\ BaseRapida => reanuda.pc # "programar"
    /\ \/ /\ estado # "ACTIVA" \/ interrumpida > 0
          /\ timer' = SinTimer
          /\ UNCHANGED <<equipo, comando, fila>>
       \/ /\ estado = "ACTIVA" /\ interrumpida = 0 /\ CorteAlCerrar
          /\ registrarCorte(VistoAlCierre)
          /\ timer' = SinTimer
          /\ UNCHANGED <<equipo, comando>>
       \/ /\ estado = "ACTIVA" /\ interrumpida = 0 /\ ~CorteAlCerrar
          /\ Termina("tiempo_cumplido")
    /\ UNCHANGED <<hora, local, cloud, salud, reanuda, pulso, toca, vivo, caidas, masaje>>

\* iniciarRetorno up to its ON, which is then on its way.
TimerRetorno ==
    /\ Vencido("retorno") /\ timer' = SinTimer
    /\ pulso' = IF estado = "SALIDA" THEN [pulso EXCEPT !.pc = "pide"] ELSE pulso
    /\ UNCHANGED <<hora, local, equipo, cloud, salud, comando, fila, reanuda, toca, vivo,
                   caidas, masaje>>

\* Its ON is answered.  Without an answer cerrarSalida follows at once.
RetornoEnciende ==
    /\ vivo /\ pulso.pc = "pide"
    /\ \/ /\ Enciende(Retorno) /\ pulso' = [pulso EXCEPT !.pc = "escribe"]
          /\ UNCHANGED <<fila, timer>>
       \/ /\ ~Responde /\ pulso' = NoPulso /\ timer' = SinTimer
          /\ IF estado = "SALIDA" THEN Cierra("COMPLETADA", motivo, 0) ELSE UNCHANGED fila
          /\ UNCHANGED <<equipo, comando>>
    /\ UNCHANGED <<hora, local, cloud, salud, reanuda, toca, vivo, caidas, masaje>>

\* The pulse is dated by its answer, not by the instant it was due: only in
\* a session that is still in its exit, but the timer is set in any case.
RetornoEscribe ==
    /\ vivo /\ pulso.pc = "escribe" /\ pulso' = NoPulso
    /\ salidaHasta' = IF estado = "SALIDA" THEN hora + Retorno ELSE salidaHasta
    /\ timer' = Timer("salida", hora + Retorno)
    /\ UNCHANGED <<hora, local, equipo, cloud, salud, comando, estado, fin, interrumpida,
                   compensado, motivo, vale, reanuda, toca, vivo, caidas, masaje>>

\* cerrarSalida.
TimerSalida ==
    /\ Vencido("salida") /\ timer' = SinTimer
    /\ IF estado = "SALIDA" THEN Apaga /\ Cierra("COMPLETADA", motivo, 0)
                            ELSE UNCHANGED <<equipo, comando, fila>>
    /\ UNCHANGED <<hora, local, cloud, salud, reanuda, pulso, toca, vivo, caidas, masaje>>

-----------------------------------------------------------------------------
(* detenerEmergencia: a stop that the relay refuses changes nothing.       *)

Parada ==
    /\ vivo /\ estado \in {"ACTIVA", "SALIDA"} /\ Responde
    /\ Apaga
    /\ Cierra("CANCELADA", "parada_de_emergencia", 0) /\ timer' = SinTimer
    /\ UNCHANGED <<hora, local, cloud, salud, reanuda, pulso, toca, vivo, caidas, masaje>>

-----------------------------------------------------------------------------
(* The pass of EnergiaService over the session.                            *)

caido == hora - interrumpida
esFresca == salud.hay /\ hora - salud.chequeo <= Fresca
arranqueYaAsentado ==
    LET desde == IF comando > Inicio THEN comando ELSE Inicio
    IN  salud.chequeo > desde /\ hora - desde > Asentado

\* Mutant: the voucher counts the massage as running until the close.
CierraPorCorteAlCerrar ==
    /\ Apaga
    /\ IF fin - hora <= Resto
       THEN Cierra("COMPLETADA", "corte_sobre_el_final", 0)
       ELSE Cierra("CANCELADA", "corte_de_energia", MinutosDelVale(fin - hora, Duracion, Minuto))
    /\ timer' = SinTimer

\* cerrarPorCorte.
CierraPorCorte ==
    /\ Apaga
    /\ IF fin - interrumpida <= Resto
       THEN Cierra("COMPLETADA", "corte_sobre_el_final", 0)
       ELSE Cierra("CANCELADA", "corte_de_energia",
                   MinutosDelVale(fin - interrumpida, Duracion, Minuto))
    /\ timer' = SinTimer

\* Mutant: no safety net for a cut while Shelly Cloud does not answer.
PasadoUmbralSoloFresca == interrumpida > 0 /\ esFresca /\ caido >= Umbral

\* What the pass decides about an ACTIVA session.
PasadoUmbral ==
    /\ interrumpida > 0
    /\ \/ caido >= 2 * Umbral
       \/ esFresca /\ caido >= Umbral
VuelveEnergia == interrumpida > 0 /\ caido < Umbral /\ esFresca /\ salud.online
SinConexion == interrumpida = 0 /\ esFresca /\ ~salud.online
ReleAbierto ==
    /\ interrumpida = 0 /\ esFresca /\ salud.online
    /\ ~salud.rele /\ arranqueYaAsentado

EmpiezaPasada ==
    /\ vivo /\ reanuda.pc = "libre"
    /\ "pasada" \in toca /\ toca' = toca \ {"pasada"}
    /\ UNCHANGED <<hora, local, cloud, salud, pulso, vivo, caidas, masaje>>

PasadaCierra ==
    /\ EmpiezaPasada
    /\ estado = "ACTIVA" /\ PasadoUmbral /\ CierraPorCorte
    /\ UNCHANGED reanuda

PasadaReanuda ==
    /\ EmpiezaPasada
    /\ estado = "ACTIVA" /\ VuelveEnergia /\ reanuda' = [reanuda EXCEPT !.pc = "leer"]
    /\ UNCHANGED <<equipo, comando, fila, timer>>

PasadaRegistra ==
    /\ EmpiezaPasada
    /\ estado = "ACTIVA" /\ SinConexion
    /\ registrarCorte(inicioDelCorte(Inicio, salud.ultimoOnline, salud.chequeo))
    /\ UNCHANGED <<equipo, comando, timer, reanuda>>

PasadaReleAbierto ==
    /\ EmpiezaPasada
    /\ estado = "ACTIVA" /\ ReleAbierto
    /\ registrarCorte(salud.chequeo)
    /\ reanuda' = [reanuda EXCEPT !.pc = "leer"]
    /\ UNCHANGED <<equipo, comando, timer>>

PasadaOmite ==
    /\ EmpiezaPasada
    /\ ~(estado = "ACTIVA" /\ (PasadoUmbral \/ VuelveEnergia \/ SinConexion \/ ReleAbierto))
    /\ UNCHANGED <<equipo, comando, fila, timer, reanuda>>

\* reanudarTrasCorte: the read with the ON that it computes; the conditional
\* update; the timer.
ReanudaEnciende ==
    /\ vivo /\ reanuda.pc = "leer"
    /\ LET devuelve == Devolver(hora, interrumpida, Reinicio)
           nuevoFin == fin + devuelve
           restante == IF nuevoFin > hora THEN nuevoFin - hora ELSE 1
       IN  IF estado = "ACTIVA" /\ interrumpida > 0 /\ Responde
           THEN /\ Enciende(restante + Margen)
                /\ reanuda' = [pc |-> "reclamar", fin |-> nuevoFin, devuelve |-> devuelve]
           ELSE /\ reanuda' = NoReanuda
                /\ UNCHANGED <<equipo, comando>>
    /\ UNCHANGED <<hora, local, cloud, salud, fila, timer, pulso, toca, vivo, caidas, masaje>>

ReanudaReclama ==
    /\ vivo /\ reanuda.pc = "reclamar"
    /\ IF estado = "ACTIVA" /\ interrumpida > 0
       THEN /\ interrumpida' = 0 /\ fin' = reanuda.fin
            /\ compensado' = compensado + reanuda.devuelve
            /\ reanuda' = [reanuda EXCEPT !.pc = "programar"]
       ELSE /\ reanuda' = NoReanuda
            /\ UNCHANGED <<fin, interrumpida, compensado>>
    /\ UNCHANGED <<hora, local, equipo, cloud, salud, comando, estado, salidaHasta, motivo,
                   vale, timer, pulso, toca, vivo, caidas, masaje>>

ReanudaPrograma ==
    /\ vivo /\ reanuda.pc = "programar"
    /\ timer' = Timer("fin", reanuda.fin) /\ reanuda' = NoReanuda
    /\ UNCHANGED <<hora, local, equipo, cloud, salud, comando, fila, pulso, toca, vivo,
                   caidas, masaje>>

-----------------------------------------------------------------------------
(* Restarts of the backend.                                                *)

PuedeFallar == apagones + fallas + caidas < MaxFallos

Cae ==
    /\ vivo /\ PuedeFallar
    /\ vivo' = FALSE /\ caidas' = caidas + 1
    /\ salud' = SinSalud /\ comando' = 0 /\ timer' = SinTimer /\ reanuda' = NoReanuda
    /\ pulso' = NoPulso /\ toca' = {}
    /\ UNCHANGED <<hora, local, equipo, cloud, fila, masaje>>

\* onApplicationBootstrap.
Arranca ==
    /\ ~vivo /\ vivo' = TRUE
    /\ \/ /\ estado = "ACTIVA" /\ interrumpida = 0 /\ fin <= hora
          /\ Termina("completada_tras_reinicio")
       \/ /\ estado = "ACTIVA" /\ interrumpida = 0 /\ fin > hora
          /\ timer' = Timer("fin", fin) /\ UNCHANGED <<equipo, comando, fila>>
       \/ /\ estado = "SALIDA" /\ salidaHasta <= hora
          /\ Apaga /\ Cierra("COMPLETADA", motivo, 0) /\ timer' = SinTimer
       \/ /\ estado = "SALIDA" /\ salidaHasta > hora
          /\ timer' = IF salidaHasta - Retorno > hora
                      THEN Timer("retorno", salidaHasta - Retorno)
                      ELSE Timer("salida", salidaHasta)
          /\ UNCHANGED <<equipo, comando, fila>>
       \/ /\ estado \in {"COMPLETADA", "CANCELADA"} \/ interrumpida > 0
          /\ UNCHANGED <<equipo, comando, fila, timer>>
    /\ UNCHANGED <<hora, local, cloud, salud, reanuda, pulso, toca, caidas, masaje>>

-----------------------------------------------------------------------------
(* The premises, the device, the cloud and the clock.                      *)

Apagon ==
    /\ PuedeFallar /\ apagones' = apagones + 1
    /\ \/ luz /\ luz' = FALSE /\ autoOff' = 0 /\ UNCHANGED red
       \/ red /\ red' = FALSE /\ UNCHANGED <<luz, autoOff>>
    /\ UNCHANGED <<hora, rele, cloud, fila, proceso, masaje>>

\* The device boots with the contact open (initial_state 'off').
Repone ==
    /\ \/ ~luz /\ luz' = TRUE /\ rele' = FALSE /\ UNCHANGED red
       \/ ~red /\ red' = TRUE /\ UNCHANGED <<luz, rele>>
    /\ UNCHANGED <<hora, autoOff, apagones, cloud, fila, proceso, masaje>>

NubeVe ==
    /\ nube # Alcanzable /\ nube' = Alcanzable /\ desfase' = 0
    /\ UNCHANGED <<hora, local, equipo, api, fallas, fila, proceso, masaje>>

\* Shelly Cloud stops answering, and answers again.
NubeFalla ==
    /\ \/ api /\ PuedeFallar /\ api' = FALSE /\ fallas' = fallas + 1
       \/ ~api /\ api' = TRUE /\ UNCHANGED fallas
    /\ UNCHANGED <<hora, local, equipo, nube, desfase, fila, proceso, masaje>>

ApagadoPropio == luz /\ autoOff > 0 /\ autoOff <= hora
AutoOff ==
    /\ ApagadoPropio
    /\ rele' = FALSE /\ autoOff' = 0
    /\ UNCHANGED <<hora, local, cloud, fila, proceso, masaje>>

NadaPendiente ==
    /\ toca = {} /\ reanuda.pc = "libre"
    /\ pulso.pc = "libre" \/ (pulso.pc = "pide" /\ pulso.espera < Latencia)
    /\ timer.que # "ninguno" => timer.cuando > hora

Tic ==
    /\ hora < MaxHora
    /\ IF vivo THEN NadaPendiente ELSE hora < MaxArranque
    /\ ~ApagadoPropio
    /\ nube # Alcanzable => desfase < Demora
    /\ estado \in {"ACTIVA", "SALIDA"} \/ (luz /\ rele)
    /\ hora' = hora + 1
    /\ desfase' = IF nube # Alcanzable THEN desfase + 1 ELSE 0
    /\ pulso' = IF pulso.pc = "pide" THEN [pulso EXCEPT !.espera = @ + 1] ELSE pulso
    /\ toca' = IF vivo THEN {"latido", "pasada"} ELSE {}
    /\ masaje' = IF luz /\ rele /\ estado = "ACTIVA" THEN masaje + 1 ELSE masaje
    /\ UNCHANGED <<local, equipo, nube, api, fallas, salud, comando, fila, timer, reanuda, vivo, caidas>>

-----------------------------------------------------------------------------
Pasa == PasadaCierra \/ PasadaReanuda \/ PasadaRegistra \/ PasadaReleAbierto \/ PasadaOmite
Reanuda == ReanudaEnciende \/ ReanudaReclama \/ ReanudaPrograma
Timers == TimerFin \/ TimerRetorno \/ TimerSalida
Pulso == RetornoEnciende \/ RetornoEscribe
Entorno == Apagon \/ Repone \/ NubeVe \/ NubeFalla \/ AutoOff

Next == Latido \/ Pasa \/ Reanuda \/ Timers \/ Pulso \/ Parada \/ Cae \/ Arranca \/ Entorno \/ Tic

Spec == Init /\ [][Next]_vars

\* The event loop runs what is due, time passes, and a backend that fell is
\* started again.  Nothing is assumed of the power, the network or the cloud.
Fairness ==
    /\ WF_vars(Latido) /\ WF_vars(Pasa) /\ WF_vars(Reanuda) /\ WF_vars(Timers)
    /\ WF_vars(Pulso)
    /\ WF_vars(Arranca) /\ WF_vars(NubeVe) /\ WF_vars(AutoOff) /\ WF_vars(Tic)

FairSpec == Spec /\ Fairness

-----------------------------------------------------------------------------
\* A relay with current that the backend forgets opens by itself: there is
\* always a toggle_after pending, and while the session runs never later than
\* Margen after its end.
ApagaSolo ==
    luz /\ rele =>
        /\ autoOff > 0
        /\ estado = "ACTIVA" /\ interrumpida = 0 => autoOff <= fin + Margen

\* What the readings cannot see of one loss of the device.  An open contact
\* counts from the first reading after the start has settled.  A device that
\* is back before the cloud has missed it is read open a unit later, and a
\* pass that runs before the reading of its unit sees it one unit later still.
PerdidaPorCorte == Mayor(Asentado + 1, Demora + 2)

\* A session that is closed as served has given the minutes that were paid,
\* but for what the readings cannot see of each cut and, if a cut ended it,
\* for a rest too short to resume.  A failure of the cloud or of the backend
\* hides a cut for as long as it lasts.
DaLoPagado ==
    fallas = 0 /\ caidas = 0 =>
        /\ motivo = "tiempo_cumplido"
               => masaje + apagones * PerdidaPorCorte >= Duracion + Gracia
        /\ motivo = "corte_sobre_el_final"
               => masaje + Resto + apagones * PerdidaPorCorte >= Duracion + Gracia

\* What a session closed by a cut has given and its voucher add up to the
\* minutes that were paid, but for what the readings cannot see of each cut.
ValePorLoQueFalta ==
    motivo = "corte_de_energia" /\ fallas = 0 /\ caidas = 0
        => masaje + vale * Minuto + apagones * PerdidaPorCorte >= Duracion

reloj == calcularReloj([estado |-> estado, duracion |-> Duracion, pausa |-> Pausa,
                        retorno |-> Retorno, fin |-> fin, salidaHasta |-> salidaHasta], hora)

\* segundosHastaProximaSilla of the queue, null if no chair that is EN_USO
\* has its power.
SinDato == -1
segundosHastaProximaSilla ==
    IF estado \in {"ACTIVA", "SALIDA"} /\ interrumpida = 0
    THEN reloj.segundosParaLiberar ELSE SinDato

LoVeQuienEspera ==
    vivo /\ vivo' /\ SinDato \notin {segundosHastaProximaSilla, segundosHastaProximaSilla'}

\* What reloj.util.ts:41-46 says of the time until the chair is free, as those
\* who wait see it: "un solo numero que baja de corrido, sin llegar a 0 al
\* terminar el masaje y volver a arrancar con la salida".  It does not hold,
\* compensated cuts apart: see the findings in the README.
BajaDeCorrido ==
    [][LoVeQuienEspera /\ fin' = fin
        => segundosHastaProximaSilla' <= segundosHastaProximaSilla]_vars

\* The wait goes up only when a cut is compensated or when the return pulse is
\* dated, and then by no more than its ON took and to no more than the pulse
\* itself: not when the massage ends and the exit begins, nor when the exit
\* is closed or stopped.
LiberarNoSube ==
    [][LoVeQuienEspera /\ fin' = fin
        => \/ segundosHastaProximaSilla' <= segundosHastaProximaSilla
           \/ /\ pulso.pc = "escribe" /\ pulso'.pc = "libre"
              /\ segundosHastaProximaSilla'
                    <= Menor(Retorno, segundosHastaProximaSilla + pulso.espera)]_vars

\* While a resume that has claimed the cut is completed, the session it
\* resumes runs on.  It does not hold without BaseRapida: see the findings in
\* the README.
LaSesionSigue ==
    reanuda.pc = "programar" /\ estado # "CANCELADA" => estado = "ACTIVA"

\* Whatever fails, the session ends: by its timer, by the passes or by the
\* start of the backend.
TerminaSiempre == <>(estado \in {"COMPLETADA", "CANCELADA"})
=============================================================================
