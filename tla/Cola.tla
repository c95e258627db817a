-------------------------------- MODULE Cola --------------------------------
(***************************************************************************)
(* ColaService: the queue all chairs share.  A customer pays to join, is   *)
(* given the first chair that is free, and has two minutes to confirm; a   *)
(* voucher joins without paying.  The service keeps one timer per turn in  *)
(* memory, and two tables: the turns, and the chairs it reserves.          *)
(*                                                                         *)
(* A call in flight stands at an await; one step is the awaited statement  *)
(* with the code that follows it up to the next await.  The session that a *)
(* confirmed turn opens belongs to SesionesService and is seen from here   *)
(* by what it writes on the turn and on its chair; the sessions of those   *)
(* who pay for a chair directly, by the chair they take and give back.     *)
(***************************************************************************)
EXTENDS Naturals, FiniteSets

CONSTANTS
    Turno,          \* turns
    Silla,          \* chairs
    Vale,           \* vouchers
    Hilos,          \* slots for calls in flight
    Arr,            \* the slot of the bootstrap
    Nada,           \* no turn, chair or voucher
    Tardias,        \* payments and cancellations reach turns that are past them
    MaxReinicios,   \* bound: restarts of the backend
    MaxFallas       \* bound: calls ended by an error of the database

ASSUME TurnoAssumption == IsFiniteSet(Turno)
ASSUME NadaAssumption == Nada \notin Turno \cup Silla \cup Vale
ASSUME HilosAssumption == Arr \notin Hilos
ASSUME TardiasAssumption == Tardias \in BOOLEAN
ASSUME ReiniciosAssumption == MaxReinicios \in Nat
ASSUME FallasAssumption == MaxFallas \in Nat

VARIABLES
    turno,      \* Turno.estado, "ninguno" before the row is created
    sillaDe,    \* Turno.sillaId
    orden,      \* Turno.pagadoEn, as the place of that date among the others
    origen,     \* the voucher of externalReference `credito:id`
    sesion,     \* the session `turno-sesion:id`
    silla,      \* Silla.estado; AJENA stands for a session that is not of a turn
    vale,       \* Credito.estado
    timer,      \* ColaService.timers
    hilo,       \* calls in flight
    arranque,   \* how far onApplicationBootstrap is, and the rows it has read
    cruzada,    \* history: on this chair a confirmation met its own expiry, or was cut short
    perdido,    \* history: the close of this turn's session did not reach the turn
    reinicios,  \* restarts so far
    fallas      \* calls that failed so far

vars == <<turno, sillaDe, orden, origen, sesion, silla, vale, timer, hilo, arranque,
          cruzada, perdido, reinicios, fallas>>

-----------------------------------------------------------------------------
EstadoTurno == {"ninguno", "ESPERANDO_PAGO", "EN_COLA", "ASIGNADO", "EN_USO",
                "COMPLETADA", "CANCELADA"}
EstadoSesion == {"ninguna", "PENDIENTE", "ESPERANDO_ENERGIA", "ACTIVA", "cerrada"}
EstadoSilla == {"LIBRE", "RESERVADA", "EN_USO", "AJENA"}
EstadoCredito == {"DISPONIBLE", "CANJEADO", "VENCIDO"}
Timers == {"no", "pago", "ventana"}
Fases == {"pago_lee", "pago", "ventana_lee", "ventana", "listo"}
Pcs == {"libre", "expira", "encola",
        "asg_turno", "asg_libres", "asg_reserva", "asg_asigna", "asg_devuelve",
        "conf_crea", "conf_activa", "conf_turno",
        "ven_lee", "ven_cancela", "ven_libera",
        "can_crea", "can_devuelve", "ses_libera"}
Slots == Hilos \cup {Arr}
Llamada == [pc: Pcs, turno: Turno \cup {Nada}, silla: Silla \cup {Nada}, vale: Vale \cup {Nada}]
Libre == [pc |-> "libre", turno |-> Nada, silla |-> Nada, vale |-> Nada]

TypeOK ==
    /\ turno \in [Turno -> EstadoTurno]
    /\ sillaDe \in [Turno -> Silla \cup {Nada}]
    /\ orden \in [Turno -> Nat]
    /\ origen \in [Turno -> Vale \cup {Nada}]
    /\ sesion \in [Turno -> EstadoSesion]
    /\ silla \in [Silla -> EstadoSilla]
    /\ vale \in [Vale -> EstadoCredito]
    /\ timer \in [Turno -> Timers]
    /\ hilo \in [Slots -> Llamada]
    /\ arranque \in [fase: Fases, lista: SUBSET Turno]
    /\ cruzada \in [Silla -> BOOLEAN]
    /\ perdido \in [Turno -> BOOLEAN]
    /\ reinicios \in 0..MaxReinicios
    /\ fallas \in 0..MaxFallas
    /\ \A t \in Turno : turno[t] \in {"ASIGNADO", "EN_USO"} => sillaDe[t] \in Silla

Init ==
    /\ turno = [t \in Turno |-> "ninguno"]
    /\ sillaDe = [t \in Turno |-> Nada]
    /\ orden = [t \in Turno |-> 0]
    /\ origen = [t \in Turno |-> Nada]
    /\ sesion = [t \in Turno |-> "ninguna"]
    /\ silla = [s \in Silla |-> "LIBRE"]
    /\ vale = [v \in Vale |-> "DISPONIBLE"]
    /\ timer = [t \in Turno |-> "no"]
    /\ hilo = [h \in Slots |-> Libre]
    /\ arranque = [fase |-> "listo", lista |-> {}]
    /\ cruzada = [s \in Silla |-> FALSE]
    /\ perdido = [t \in Turno |-> FALSE]
    /\ reinicios = 0
    /\ fallas = 0

-----------------------------------------------------------------------------
(***************************************************************************)
(* Vocabulary of the steps.                                                *)
(***************************************************************************)
fijo == <<orden, origen, perdido>>
proceso == <<arranque, reinicios, fallas>>

En(h, pc) == hilo[h].pc = pc
TurnoDe(h) == hilo[h].turno
SillaDe(h) == hilo[h].silla
Empieza(h, pc, t) ==
    hilo' = [hilo EXCEPT ![h] = [pc |-> pc, turno |-> t, silla |-> Nada, vale |-> Nada]]
Sigue(h, pc) == hilo' = [hilo EXCEPT ![h].pc = pc]
Termina(h) == hilo' = [hilo EXCEPT ![h] = Libre]
SigueAsignando(h) == hilo' = [hilo EXCEPT ![h] = [Libre EXCEPT !.pc = "asg_turno"]]

\* HTTP is attended, and the tick runs, once the bootstrap has finished.
Atiende(h) == h \in Hilos /\ En(h, "libre") /\ arranque.fase = "listo"

-----------------------------------------------------------------------------
(***************************************************************************)
(* Outside: other people's sessions, and the life of the turns' own.       *)
(***************************************************************************)
OcupaAjeno(s) ==
    /\ \/ silla[s] = "LIBRE" /\ silla' = [silla EXCEPT ![s] = "AJENA"]
       \/ silla[s] = "AJENA" /\ silla' = [silla EXCEPT ![s] = "LIBRE"]
    /\ UNCHANGED <<turno, sillaDe, sesion, vale, timer, hilo, cruzada>>
    /\ UNCHANGED <<fijo, proceso>>

\* EnergiaService retries a paid session whose relay did not answer.
VuelveEnergia(t) ==
    /\ sesion[t] = "ESPERANDO_ENERGIA"
    /\ sesion' = [sesion EXCEPT ![t] = "ACTIVA"]
    /\ silla' = [silla EXCEPT ![sillaDe[t]] = "EN_USO"]
    /\ UNCHANGED <<turno, sillaDe, vale, timer, hilo, cruzada>> /\ UNCHANGED <<fijo, proceso>>

\* The bootstrap of SesionesService expires a session nobody activated; it frees
\* only a chair PAGO_PENDIENTE.
VenceHuerfana(t) ==
    /\ reinicios > 0 /\ sesion[t] = "PENDIENTE"
    /\ \A h \in Slots : TurnoDe(h) = t => ~En(h, "conf_activa")
    /\ sesion' = [sesion EXCEPT ![t] = "cerrada"]
    /\ UNCHANGED <<turno, sillaDe, silla, vale, timer, hilo, cruzada>>
    /\ UNCHANGED <<fijo, proceso>>

\* cerrarYLiberar claims the close of the session, when its time is up or, by an
\* emergency stop, as soon as activarSesion has written it...
CierraSesion(h, t) ==
    /\ h \in Hilos /\ En(h, "libre")
    /\ sesion[t] \in {"ESPERANDO_ENERGIA", "ACTIVA"}
    /\ sesion' = [sesion EXCEPT ![t] = "cerrada"]
    /\ Empieza(h, "ses_libera", t)
    /\ UNCHANGED <<turno, sillaDe, silla, vale, timer, cruzada>> /\ UNCHANGED <<fijo, proceso>>

\* confirmar has yet to put the turn EN_USO, which the close will not see.
Pierde(t) == \E g \in Slots : TurnoDe(g) = t /\ En(g, "conf_turno")

LiberaSoloSilla(h) ==
    LET t == TurnoDe(h) IN
    /\ En(h, "ses_libera")
    /\ silla' = [silla EXCEPT ![sillaDe[t]] = "LIBRE"]
    /\ perdido' = [perdido EXCEPT ![t] = @ \/ Pierde(t)]
    /\ Termina(h)
    /\ UNCHANGED <<turno, sillaDe, orden, origen, sesion, vale, timer, cruzada>>
    /\ UNCHANGED proceso

\* ... and then frees the chair and closes the turn, if it says EN_USO; confirmar
\* may have yet to write it.
LiberaSesion(h) ==
    LET t == TurnoDe(h) IN
    /\ En(h, "ses_libera")
    /\ silla' = [silla EXCEPT ![sillaDe[t]] = "LIBRE"]
    /\ IF turno[t] = "EN_USO"
       THEN \E fin \in {"COMPLETADA", "CANCELADA"} : turno' = [turno EXCEPT ![t] = fin]
       ELSE UNCHANGED turno
    /\ perdido' = [perdido EXCEPT ![t] = @ \/ Pierde(t)]
    /\ Termina(h)
    /\ UNCHANGED <<sillaDe, orden, origen, sesion, vale, timer, cruzada>> /\ UNCHANGED proceso

VenceVale(v) ==
    /\ vale[v] = "DISPONIBLE"
    /\ vale' = [vale EXCEPT ![v] = "VENCIDO"]
    /\ UNCHANGED <<turno, sillaDe, sesion, silla, timer, hilo, cruzada>>
    /\ UNCHANGED <<fijo, proceso>>

-----------------------------------------------------------------------------
(***************************************************************************)
(* Joining, paying, giving up.                                             *)
(***************************************************************************)

\* unirse: the transaction, and the timer it arms.
Unirse(t) ==
    /\ arranque.fase = "listo"
    /\ turno[t] = "ninguno"
    /\ turno' = [turno EXCEPT ![t] = "ESPERANDO_PAGO"]
    /\ timer' = [timer EXCEPT ![t] = "pago"]
    /\ UNCHANGED <<sillaDe, sesion, silla, vale, hilo, cruzada>> /\ UNCHANGED <<fijo, proceso>>

\* expirarEsperaPago, by the customer or because the preference failed: the timer,
\* whichever it is, is gone before the first await.
Cancelar(h, t) ==
    /\ Atiende(h)
    /\ turno[t] # "ninguno" /\ origen[t] = Nada
    /\ ~Tardias => turno[t] \in {"ESPERANDO_PAGO", "CANCELADA"}
    /\ timer' = [timer EXCEPT ![t] = "no"]
    /\ Empieza(h, "expira", t)
    /\ UNCHANGED <<turno, sillaDe, sesion, silla, vale, cruzada>> /\ UNCHANGED <<fijo, proceso>>

ExpirarEsperaPago(h) ==
    LET t == TurnoDe(h) IN
    /\ En(h, "expira")
    /\ IF turno[t] = "ESPERANDO_PAGO"
       THEN turno' = [turno EXCEPT ![t] = "CANCELADA"]
       ELSE UNCHANGED turno
    /\ Termina(h)
    /\ UNCHANGED <<sillaDe, sesion, silla, vale, timer, cruzada>> /\ UNCHANGED <<fijo, proceso>>

\* procesarPagoAprobado: an approved payment of the turn.
PagoAprobado(h, t) ==
    /\ Atiende(h)
    /\ turno[t] # "ninguno" /\ origen[t] = Nada
    /\ ~Tardias => turno[t] \in {"ESPERANDO_PAGO", "CANCELADA"}
    /\ timer' = [timer EXCEPT ![t] = "no"]
    /\ Empieza(h, "encola", t)
    /\ UNCHANGED <<turno, sillaDe, sesion, silla, vale, cruzada>> /\ UNCHANGED <<fijo, proceso>>

\* pagadoEn is now: later than any other.
Fechados == {t \in Turno : orden[t] > 0}
Ahora == 1 + Cardinality(Fechados)

Encolar(h) ==
    LET t == TurnoDe(h) IN
    /\ En(h, "encola")
    /\ IF turno[t] = "ESPERANDO_PAGO"
       THEN /\ turno' = [turno EXCEPT ![t] = "EN_COLA"]
            /\ orden' = [orden EXCEPT ![t] = Ahora]
            /\ SigueAsignando(h)
       ELSE Termina(h) /\ UNCHANGED <<turno, orden>>
    /\ UNCHANGED <<sillaDe, origen, sesion, silla, vale, timer, cruzada, perdido>>
    /\ UNCHANGED proceso

-----------------------------------------------------------------------------
(***************************************************************************)
(* intentarAsignar: after a payment, a voucher or an expired window, and   *)
(* every five seconds.                                                     *)
(***************************************************************************)
\* findFirst by pagadoEn.
PrimeroCualquiera(t) == turno[t] = "EN_COLA"
Primero(t) ==
    turno[t] = "EN_COLA" /\ \A u \in Turno : turno[u] = "EN_COLA" => orden[t] <= orden[u]

\* The tick begins with the read of the first turn, and ends there if there is none.
Tick(h) ==
    /\ Atiende(h)
    /\ \E t \in Turno : Primero(t) /\ Empieza(h, "asg_libres", t)
    /\ UNCHANGED <<turno, sillaDe, sesion, silla, vale, timer, cruzada>>
    /\ UNCHANGED <<fijo, proceso>>

AsignarTurno(h) ==
    /\ En(h, "asg_turno")
    /\ \/ \E t \in Turno : Primero(t) /\ Empieza(h, "asg_libres", t)
       \/ (\A t \in Turno : turno[t] # "EN_COLA") /\ Termina(h)
    /\ UNCHANGED <<turno, sillaDe, sesion, silla, vale, timer, cruzada>>
    /\ UNCHANGED <<fijo, proceso>>

\* A free chair that is online, if there is one.
AsignarLibres(h) ==
    /\ En(h, "asg_libres")
    /\ \/ \E s \in Silla : silla[s] = "LIBRE"
              /\ hilo' = [hilo EXCEPT ![h].pc = "asg_reserva", ![h].silla = s]
       \/ Termina(h)
    /\ UNCHANGED <<turno, sillaDe, sesion, silla, vale, timer, cruzada>>
    /\ UNCHANGED <<fijo, proceso>>

ReservableSinMirar(s) == silla[s] # "EN_USO"
Reservable(s) == silla[s] = "LIBRE"

AsignarReserva(h) ==
    LET s == SillaDe(h) IN
    /\ En(h, "asg_reserva")
    /\ IF Reservable(s)
       THEN silla' = [silla EXCEPT ![s] = "RESERVADA"] /\ Sigue(h, "asg_asigna")
       ELSE SigueAsignando(h) /\ UNCHANGED silla
    /\ UNCHANGED <<turno, sillaDe, sesion, vale, timer, cruzada>> /\ UNCHANGED <<fijo, proceso>>

AsignarSinSilla(h) ==
    /\ En(h, "asg_asigna")
    /\ IF turno[TurnoDe(h)] = "EN_COLA"
       THEN /\ turno' = [turno EXCEPT ![TurnoDe(h)] = "ASIGNADO"]
            /\ timer' = [timer EXCEPT ![TurnoDe(h)] = "ventana"]
            /\ SigueAsignando(h)
       ELSE Sigue(h, "asg_devuelve") /\ UNCHANGED <<turno, timer>>
    /\ UNCHANGED <<sillaDe, sesion, silla, vale, cruzada>> /\ UNCHANGED <<fijo, proceso>>

AsignarTurnoASilla(h) ==
    LET t == TurnoDe(h) IN
    /\ En(h, "asg_asigna")
    /\ IF turno[t] = "EN_COLA"
       THEN /\ turno' = [turno EXCEPT ![t] = "ASIGNADO"]
            /\ sillaDe' = [sillaDe EXCEPT ![t] = SillaDe(h)]
            /\ timer' = [timer EXCEPT ![t] = "ventana"]
            /\ SigueAsignando(h)
       ELSE Sigue(h, "asg_devuelve") /\ UNCHANGED <<turno, sillaDe, timer>>
    /\ UNCHANGED <<sesion, silla, vale, cruzada>> /\ UNCHANGED <<fijo, proceso>>

DevolverSilla(s) == silla' = [silla EXCEPT ![s] = IF @ = "RESERVADA" THEN "LIBRE" ELSE @]

AsignarDevuelveNada(h) ==
    /\ En(h, "asg_devuelve")
    /\ SigueAsignando(h)
    /\ UNCHANGED <<turno, sillaDe, sesion, silla, vale, timer, cruzada>>
    /\ UNCHANGED <<fijo, proceso>>

\* The turn was given a chair by another run: this one goes back.
AsignarDevuelve(h) ==
    /\ En(h, "asg_devuelve")
    /\ DevolverSilla(SillaDe(h))
    /\ SigueAsignando(h)
    /\ UNCHANGED <<turno, sillaDe, sesion, vale, timer, cruzada>> /\ UNCHANGED <<fijo, proceso>>

-----------------------------------------------------------------------------
(***************************************************************************)
(* confirmar and expirarVentanaConfirmacion: each reads ASIGNADO, and      *)
(* writes afterwards without looking again.                                *)
(***************************************************************************)
Confirmando(g, t) == TurnoDe(g) = t /\ hilo[g].pc \in {"conf_crea", "conf_activa", "conf_turno"}
Venciendo(g, t) == TurnoDe(g) = t /\ En(g, "ven_cancela")

Confirmable(t) == turno[t] = "ASIGNADO"

\* The read of the turn: a call that finds another state is refused.
Confirmar(h, t) ==
    /\ Atiende(h)
    /\ Confirmable(t)
    /\ timer' = [timer EXCEPT ![t] = "no"]
    /\ cruzada' = [cruzada EXCEPT ![sillaDe[t]] = @ \/ \E g \in Slots : Venciendo(g, t)]
    /\ hilo' = [hilo EXCEPT ![h] = [pc |-> "conf_crea", turno |-> t, silla |-> sillaDe[t],
                                    vale |-> Nada]]
    /\ UNCHANGED <<turno, sillaDe, sesion, silla, vale>> /\ UNCHANGED <<fijo, proceso>>

\* The unique externalReference lets one confirmation create the session.
ConfirmarCrea(h) ==
    LET t == TurnoDe(h) IN
    /\ En(h, "conf_crea")
    /\ IF sesion[t] = "ninguna"
       THEN sesion' = [sesion EXCEPT ![t] = "PENDIENTE"] /\ Sigue(h, "conf_activa")
       ELSE Termina(h) /\ UNCHANGED sesion
    /\ UNCHANGED <<turno, sillaDe, silla, vale, timer, cruzada>> /\ UNCHANGED <<fijo, proceso>>

\* activarSesion: if the relay does not answer the session waits for power, with
\* the chair as it is; it does not throw.
ConfirmarActiva(h) ==
    LET t == TurnoDe(h) IN
    /\ En(h, "conf_activa")
    /\ \/ /\ sesion' = [sesion EXCEPT ![t] = "ACTIVA"]
          /\ silla' = [silla EXCEPT ![SillaDe(h)] = "EN_USO"]
       \/ sesion' = [sesion EXCEPT ![t] = "ESPERANDO_ENERGIA"] /\ UNCHANGED silla
    /\ Sigue(h, "conf_turno")
    /\ UNCHANGED <<turno, sillaDe, vale, timer, cruzada>> /\ UNCHANGED <<fijo, proceso>>

ConfirmarTurno(h) ==
    /\ En(h, "conf_turno")
    /\ turno' = [turno EXCEPT ![TurnoDe(h)] = "EN_USO"]
    /\ Termina(h)
    /\ UNCHANGED <<sillaDe, sesion, silla, vale, timer, cruzada>> /\ UNCHANGED <<fijo, proceso>>

VencerLee(h) ==
    LET t == TurnoDe(h) IN
    /\ En(h, "ven_lee")
    /\ IF turno[t] = "ASIGNADO"
       THEN /\ cruzada' = [cruzada EXCEPT ![sillaDe[t]] = @ \/ \E g \in Slots : Confirmando(g, t)]
            /\ hilo' = [hilo EXCEPT ![h].pc = "ven_cancela", ![h].silla = sillaDe[t]]
       ELSE Termina(h) /\ UNCHANGED cruzada
    /\ UNCHANGED <<turno, sillaDe, sesion, silla, vale, timer>> /\ UNCHANGED <<fijo, proceso>>

VencerCancela(h) ==
    /\ En(h, "ven_cancela")
    /\ turno' = [turno EXCEPT ![TurnoDe(h)] = "CANCELADA"]
    /\ Sigue(h, "ven_libera")
    /\ UNCHANGED <<sillaDe, sesion, silla, vale, timer, cruzada>> /\ UNCHANGED <<fijo, proceso>>

VencerLibera(h) ==
    /\ En(h, "ven_libera")
    /\ DevolverSilla(SillaDe(h))
    /\ SigueAsignando(h)
    /\ UNCHANGED <<turno, sillaDe, sesion, vale, timer, cruzada>> /\ UNCHANGED <<fijo, proceso>>

-----------------------------------------------------------------------------
(***************************************************************************)
(* canjearCredito, with CreditosService.                                   *)
(***************************************************************************)
Canjeable(v) == vale[v] = "DISPONIBLE"

\* canjearCredito up to tomar, one conditional update. A refusal (the lockout of the
\* address, a place without power) changes no row.
Canjear(h, v) ==
    /\ Atiende(h)
    /\ Canjeable(v)
    /\ vale' = [vale EXCEPT ![v] = "CANJEADO"]
    /\ hilo' = [hilo EXCEPT ![h] = [pc |-> "can_crea", turno |-> Nada, silla |-> Nada, vale |-> v]]
    /\ UNCHANGED <<turno, sillaDe, sesion, silla, timer, cruzada>> /\ UNCHANGED <<fijo, proceso>>

ReferenciaLibreSiempre(v) == TRUE
ReferenciaLibre(v) == \A t \in Turno : origen[t] # v

\* The turn goes straight to the queue, with the date of the payment the voucher
\* stands for. The insert may fail, and its answer may be lost.
CanjearCrea(h) ==
    LET v == hilo[h].vale IN
    /\ En(h, "can_crea")
    /\ \/ \E t \in Turno :
            /\ turno[t] = "ninguno" /\ ReferenciaLibre(v)
            /\ turno' = [turno EXCEPT ![t] = "EN_COLA"]
            /\ origen' = [origen EXCEPT ![t] = v]
            /\ \E fecha \in 0..(Ahora - 1) : orden' = [orden EXCEPT ![t] = fecha]
            /\ SigueAsignando(h) \/ Sigue(h, "can_devuelve")
       \/ Sigue(h, "can_devuelve") /\ UNCHANGED <<turno, origen, orden>>
    /\ UNCHANGED <<sillaDe, sesion, silla, vale, timer, cruzada, perdido>> /\ UNCHANGED proceso

CanjearDevuelve(h) ==
    LET v == hilo[h].vale IN
    /\ En(h, "can_devuelve")
    /\ vale' = [vale EXCEPT ![v] = IF @ = "CANJEADO" THEN "DISPONIBLE" ELSE @]
    /\ Termina(h)
    /\ UNCHANGED <<turno, sillaDe, sesion, silla, timer, cruzada>> /\ UNCHANGED <<fijo, proceso>>

-----------------------------------------------------------------------------
(***************************************************************************)
(* Timers, crashes and the bootstrap.                                      *)
(***************************************************************************)
\* confirmar has a session open and has not put the turn EN_USO.
AMedias(h) == hilo[h].pc \in {"conf_activa", "conf_turno"}
\* cerrarYLiberar has closed the session of the turn, and not the turn.
ConTurnoAbierto(h, t) == TurnoDe(h) = t /\ En(h, "ses_libera")

DispararTimer(h, t) ==
    /\ h \in Hilos /\ En(h, "libre")
    /\ timer[t] # "no"
    /\ timer' = [timer EXCEPT ![t] = "no"]
    /\ Empieza(h, IF timer[t] = "pago" THEN "expira" ELSE "ven_lee", t)
    /\ UNCHANGED <<turno, sillaDe, sesion, silla, vale, cruzada>> /\ UNCHANGED <<fijo, proceso>>

Reiniciar ==
    /\ reinicios < MaxReinicios
    /\ reinicios' = reinicios + 1
    /\ timer' = [t \in Turno |-> "no"]
    /\ hilo' = [h \in Slots |-> Libre]
    /\ arranque' = [fase |-> "pago_lee", lista |-> {}]
    /\ cruzada' = [s \in Silla |-> cruzada[s] \/ \E h \in Slots : SillaDe(h) = s /\ AMedias(h)]
    /\ perdido' = [t \in Turno |-> perdido[t] \/ \E h \in Slots : ConTurnoAbierto(h, t)]
    /\ UNCHANGED <<turno, sillaDe, orden, origen, sesion, silla, vale, fallas>>

\* The statement a call waits for throws, and nobody undoes what it has done. In
\* the bootstrap it is the process that does not start.
Falla(h) ==
    /\ fallas < MaxFallas /\ ~En(h, "libre")
    /\ fallas' = fallas + 1
    /\ Termina(h)
    /\ cruzada' = [s \in Silla |-> cruzada[s] \/ (SillaDe(h) = s /\ AMedias(h))]
    /\ perdido' = [t \in Turno |-> perdido[t] \/ ConTurnoAbierto(h, t)]
    /\ UNCHANGED <<turno, sillaDe, orden, origen, sesion, silla, vale, timer, arranque,
                   reinicios>>

ArranqueLeeSoloPagos ==
    /\ En(Arr, "libre")
    /\ \/ /\ arranque.fase = "pago_lee"
          /\ arranque' = [fase |-> "pago", lista |-> {t \in Turno : turno[t] = "ESPERANDO_PAGO"}]
       \/ arranque.fase = "ventana_lee" /\ arranque' = [fase |-> "ventana", lista |-> {}]
    /\ UNCHANGED <<turno, sillaDe, sesion, silla, vale, timer, hilo, cruzada, reinicios, fallas>>
    /\ UNCHANGED fijo

\* The bootstrap reads the turns of one state, and takes them one by one.
ArranqueLee ==
    /\ En(Arr, "libre")
    /\ \/ /\ arranque.fase = "pago_lee"
          /\ arranque' = [fase |-> "pago", lista |-> {t \in Turno : turno[t] = "ESPERANDO_PAGO"}]
       \/ /\ arranque.fase = "ventana_lee"
          /\ arranque' = [fase |-> "ventana", lista |-> {t \in Turno : turno[t] = "ASIGNADO"}]
    /\ UNCHANGED <<turno, sillaDe, sesion, silla, vale, timer, hilo, cruzada, reinicios, fallas>>
    /\ UNCHANGED fijo

\* Each has its timer armed again, or is expired there and then.
ArranqueTurno(t) ==
    /\ En(Arr, "libre") /\ t \in arranque.lista
    /\ arranque' = [arranque EXCEPT !.lista = @ \ {t}]
    /\ \/ /\ timer' = [timer EXCEPT ![t] = arranque.fase]
          /\ UNCHANGED hilo
       \/ /\ timer' = [timer EXCEPT ![t] = "no"]
          /\ Empieza(Arr, IF arranque.fase = "pago" THEN "expira" ELSE "ven_lee", t)
    /\ UNCHANGED <<turno, sillaDe, sesion, silla, vale, cruzada, reinicios, fallas>>
    /\ UNCHANGED fijo

ArranqueSigue ==
    /\ En(Arr, "libre") /\ arranque.lista = {}
    /\ \/ /\ arranque.fase = "pago"
          /\ arranque' = [arranque EXCEPT !.fase = "ventana_lee"] /\ UNCHANGED hilo
       \/ /\ arranque.fase = "ventana"
          /\ arranque' = [arranque EXCEPT !.fase = "listo"]
          /\ Empieza(Arr, "asg_turno", Nada)
    /\ UNCHANGED <<turno, sillaDe, sesion, silla, vale, timer, cruzada, reinicios, fallas>>
    /\ UNCHANGED fijo

-----------------------------------------------------------------------------
Afuera ==
    \/ \E s \in Silla : OcupaAjeno(s)
    \/ \E t \in Turno : VuelveEnergia(t) \/ VenceHuerfana(t)
    \/ \E v \in Vale : VenceVale(v)

Pedido(h) ==
    \/ \E t \in Turno :
        \/ Cancelar(h, t)
        \/ PagoAprobado(h, t)
        \/ Confirmar(h, t)
        \/ DispararTimer(h, t)
        \/ CierraSesion(h, t)
    \/ \E v \in Vale : Canjear(h, v)
    \/ Tick(h)

Paso(h) ==
    \/ ExpirarEsperaPago(h)
    \/ Encolar(h)
    \/ AsignarTurno(h)
    \/ AsignarLibres(h)
    \/ AsignarReserva(h)
    \/ AsignarTurnoASilla(h)
    \/ AsignarDevuelve(h)
    \/ ConfirmarCrea(h)
    \/ ConfirmarActiva(h)
    \/ ConfirmarTurno(h)
    \/ VencerLee(h)
    \/ VencerCancela(h)
    \/ VencerLibera(h)
    \/ CanjearCrea(h)
    \/ CanjearDevuelve(h)
    \/ LiberaSesion(h)

Arranque ==
    \/ ArranqueLee
    \/ \E t \in Turno : ArranqueTurno(t)
    \/ ArranqueSigue

Next ==
    \/ Afuera
    \/ \E t \in Turno : Unirse(t)
    \/ \E h \in Hilos : Pedido(h) \/ Falla(h)
    \/ \E h \in Slots : Paso(h)
    \/ Arranque
    \/ Reiniciar

Spec == Init /\ [][Next]_vars

-----------------------------------------------------------------------------
(***************************************************************************)
(* What the queue promises.                                                *)
(***************************************************************************)
Abierta(t) == sesion[t] \in {"ESPERANDO_ENERGIA", "ACTIVA"}
EnCurso(t, pcs) == \E h \in Slots : TurnoDe(h) = t /\ hilo[h].pc \in pcs
\* No call has been cut short.
Entera == reinicios = 0 /\ fallas = 0
\* The turn holds the chair: it may confirm it, or its session runs there.
Ocupa(t, s) ==
    sillaDe[t] = s /\ ((turno[t] = "ASIGNADO" /\ sesion[t] # "cerrada") \/ Abierta(t))

\* A chair is given to one turn at a time, however many runs of intentarAsignar
\* overlap, unless a confirmation and the expiry of its window both passed their
\* check on it.
UnaSillaUnTurno ==
    \A s \in Silla : ~cruzada[s] =>
        \A t, u \in Turno : Ocupa(t, s) /\ Ocupa(u, s) => t = u

\* While no call is cut short, a chair the queue reserved is held by a turn, by the
\* run that is assigning it or by the one that is about to give it back.
ReservadaConDuenio ==
    \A s \in Silla : Entera /\ silla[s] = "RESERVADA" =>
        \/ \E t \in Turno : Ocupa(t, s)
        \/ \E h \in Slots : SillaDe(h) = s /\
              hilo[h].pc \in {"asg_asigna", "asg_devuelve", "ven_libera", "conf_activa"}
        \/ \E t \in Turno : sillaDe[t] = s /\ EnCurso(t, {"ses_libera"})

\* A turn that waits for its payment or for its customer has the timer of that
\* wait, a call at work on it, or the bootstrap still to come; the exception is a
\* turn whose session was created before a crash, which nobody can confirm again.
\* It says nothing of the relay: see SinRespuestaSigueAsignado.
TurnoConDespertador ==
    fallas = 0 => \A t \in Turno :
        /\ turno[t] = "ESPERANDO_PAGO" =>
              \/ timer[t] = "pago"
              \/ EnCurso(t, {"expira", "encola"})
              \/ arranque.fase = "pago_lee"
              \/ arranque.fase = "pago" /\ t \in arranque.lista
        /\ turno[t] = "ASIGNADO" =>
              \/ timer[t] = "ventana"
              \/ EnCurso(t, {"ven_lee", "ven_cancela", "conf_crea", "conf_activa", "conf_turno"})
              \/ arranque.fase \in {"pago_lee", "pago", "ventana_lee"}
              \/ arranque.fase = "ventana" /\ t \in arranque.lista
              \/ reinicios > 0 /\ sesion[t] # "ninguna"

\* Whoever paid first sits first: a turn in the queue is not overtaken by one
\* that paid after it (intentarAsignar, "el mas antiguo primero").
SinAdelantos ==
    [][\A t, u \in Turno :
          turno[u] = "EN_COLA" /\ turno'[u] = "ASIGNADO"
            /\ turno[t] = "EN_COLA" /\ origen[t] = Nada => orden[u] <= orden[t]]_vars

\* A voucher buys one turn at most, and while no call is cut short one that
\* is spent has bought it or is in the hands of a call that will (canjearCredito).
ValeUnTurno ==
    \A v \in Vale :
        /\ \A t, u \in Turno : origen[t] = v /\ origen[u] = v => t = u
        /\ vale[v] = "CANJEADO" /\ Entera =>
              \/ \E t \in Turno : origen[t] = v
              \/ \E h \in Slots : hilo[h].vale = v

\* A turn in use has a session that runs, or that is being closed, through restarts
\* and overlapping calls (cerrarYLiberar closes the turn with the session).  It says
\* nothing of a turn that the close missed, and there are two: its call was cut
\* between the claim and the transaction, and no bootstrap looks at turns EN_USO; or
\* an emergency stop fell before confirmar put the turn EN_USO.
EnUsoConSesion ==
    \A t \in Turno : turno[t] = "EN_USO" =>
        Abierta(t) \/ EnCurso(t, {"ses_libera"}) \/ perdido[t]

(***************************************************************************)
(* What the calls in flight know, on which the proofs rest.                *)
(***************************************************************************)

\* A turn that is not yet paid for.
SinPagar == {"ninguno", "ESPERANDO_PAGO"}

SinTurno == {"libre", "asg_turno", "can_crea", "can_devuelve"}
ConVale == {"can_crea", "can_devuelve"}
Asignando == {"asg_libres", "asg_reserva", "asg_asigna", "asg_devuelve"}
Eligiendo == Asignando \ {"asg_devuelve"}
ConSilla == Asignando \ {"asg_libres"}
Confirmada == {"conf_crea", "conf_activa", "conf_turno"}

\* A call names the rows its next statement writes; the turn it assigns was paid
\* for, the one it confirms has a chair, and it holds a voucher until it is a turn.
BienPuesta(c) ==
    /\ c.pc \notin SinTurno => c.turno \in Turno
    /\ c.pc \in Asignando => turno[c.turno] \notin SinPagar
    /\ c.pc \in ConSilla => c.silla \in Silla
    /\ c.pc \in Confirmada => sillaDe[c.turno] \in Silla
    /\ c.pc \in ConVale <=> c.vale # Nada

\* The bootstrap has rows left only while it goes through them.
Coherente ==
    /\ \A h \in Slots : BienPuesta(hilo[h])
    /\ arranque.lista # {} => arranque.fase \in {"pago", "ventana"}

\* No date is later than now, and a turn that is not paid for has neither date nor
\* voucher.
Fechas ==
    \A t \in Turno :
        /\ orden[t] <= Cardinality(Fechados)
        /\ turno[t] \in SinPagar => orden[t] = 0 /\ origen[t] = Nada

\* The turn a run of intentarAsignar has picked is still the first of those that paid.
ConElPrimero(c) ==
    c.pc \in Eligiendo /\ turno[c.turno] = "EN_COLA" =>
        \A t \in Turno : turno[t] = "EN_COLA" /\ origen[t] = Nada => orden[c.turno] <= orden[t]
EligeAlPrimero == \A h \in Slots : ConElPrimero(hilo[h])

IInv == TypeOK /\ Coherente /\ Fechas /\ EligeAlPrimero /\ ValeUnTurno

\* The comment of confirmar, "Si esto falla (ej. Shelly no responde), el turno queda
\* ASIGNADO sin timer": a turn is not in use while its relay does not answer.  It does
\* not hold, since activarSesion does not throw then: see the findings in the README.
SinRespuestaSigueAsignado ==
    \A t \in Turno : sesion[t] = "ESPERANDO_ENERGIA" => turno[t] # "EN_USO"

\* Every turn that was used is closed with its session.  It does not hold, for the
\* two reasons of EnUsoConSesion: see the findings in the README.
NingunTurnoPerdido == \A t \in Turno : turno[t] = "EN_USO" => ~perdido[t]

\* The heading of confirmar, "ASIGNADO -> EN_USO (cliente confirma presencia)": a
\* turn begins to be used only while it is assigned.  It does not hold: see the
\* findings in the README.
ConfirmaSoloAsignado ==
    [][\A t \in Turno : turno'[t] = "EN_USO" => turno[t] \in {"ASIGNADO", "EN_USO"}]_vars
=============================================================================
