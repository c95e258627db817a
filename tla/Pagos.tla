------------------------------- MODULE Pagos -------------------------------
(***************************************************************************)
(* PagosService: what becomes of the money.  Mercado Pago notifies a       *)
(* payment by webhook and, when the customer comes back to the site, by    *)
(* the browser; every notification asks Mercado Pago for the status the    *)
(* payment has, registers it in the table `pagos`, and hands an approved   *)
(* payment over to the session or the turn it pays for.  What cannot be    *)
(* handed over goes to the list the owner reviews.                         *)
(*                                                                         *)
(* As in Sesiones, a call in flight stands at an await and one step is the *)
(* awaited statement with the code that follows up to the next await.      *)
(* Reads of rows that never change (the session or turn of a reference,    *)
(* its price) share the step before.  A destination, session or turn, is   *)
(* seen as a payment sees it: it waits for a payment, it has been given,   *)
(* or it takes no payment any more.                                        *)
(***************************************************************************)
EXTENDS Naturals

CONSTANTS
    Pago,           \* payment ids of Mercado Pago
    Sesion,         \* destinations that are a session (a chair paid directly)
    Turno,          \* destinations that are a turn of the queue
    Desconocida,    \* an external_reference that is of no session and no turn
    SinReferencia,  \* no external_reference at all
    Referencias,    \* what the payments may carry: a set of functions
    Hilos,          \* slots for calls in flight
    Nada,           \* no payment in a slot
    MaxReinicios    \* bound: restarts of the backend

Destino == Sesion \cup Turno
Referencia == Destino \cup {Desconocida, SinReferencia}

ASSUME DestinosAssumption ==
    /\ Sesion \cap Turno = {}
    /\ Desconocida \notin Destino /\ SinReferencia \notin Destino
    /\ Desconocida # SinReferencia
ASSUME ReferenciasAssumption == Referencias \subseteq [Pago -> Referencia]
ASSUME NadaAssumption == Nada \notin Pago
ASSUME ReiniciosAssumption == MaxReinicios \in Nat

VARIABLES
    ref,        \* the external_reference of the payment, never changed
    alcanza,    \* its amount is enough and in pesos, never changed
    mp,         \* the status of the payment at Mercado Pago
    registro,   \* Pago.estado, "ausente" before the row is created
    revision,   \* Pago.requiereRevision
    resolucion, \* Pago.resolucion, "ninguna" while resueltoEn is null
    destino,    \* what the session or turn is for a payment
    hilo,       \* calls in flight
    vales,      \* vouchers the owner gave for the payment
    aplicado,   \* history: times the payment was handed over to its destination
    sirvio,     \* history: the payment activated its session or queued its turn
    reinicios   \* restarts so far

vars == <<ref, alcanza, mp, registro, revision, resolucion, destino, hilo, vales,
          aplicado, sirvio, reinicios>>

-----------------------------------------------------------------------------
\* Status at Mercado Pago: en_proceso stands for any that is neither approved
\* nor one of ESTADOS_DE_REEMBOLSO.
EstadoMP == {"inexistente", "en_proceso", "approved", "devuelto"}
EstadoPago == {"ausente", "RECHAZADO", "APROBADO", "REEMBOLSADO"}
Acciones == {"emitir_vale", "marcar_reembolsado", "ignorar"}
EstadoDestino == {"espera", "dado", "cerrado"}

\* The awaits: the query to Mercado Pago, the statements on `pagos`, the
\* activation of the destination, and those of the owner's resolution.
Pcs == {"libre", "consultar", "buscar", "actualizar", "crear", "reembolsar",
        "act_leer", "act_rele", "encolar", "marcar", "resolver", "vale"}
Llamada == [pc: Pcs, pago: Pago \cup {Nada}, status: EstadoMP,
            leido: EstadoPago, accion: Acciones \cup {"ninguna"}]
Libre == [pc |-> "libre", pago |-> Nada, status |-> "inexistente",
          leido |-> "ausente", accion |-> "ninguna"]

\* The row has been approved at some time.
Aprobado(p) == registro[p] \in {"APROBADO", "REEMBOLSADO"}

TypeOK ==
    /\ ref \in [Pago -> Referencia]
    /\ alcanza \in [Pago -> BOOLEAN]
    /\ mp \in [Pago -> EstadoMP]
    /\ registro \in [Pago -> EstadoPago]
    /\ revision \in [Pago -> BOOLEAN]
    /\ resolucion \in [Pago -> Acciones \cup {"ninguna"}]
    /\ destino \in [Destino -> EstadoDestino]
    /\ hilo \in [Hilos -> Llamada]
    /\ \A h \in Hilos : hilo[h].pc # "libre" => hilo[h].pago \in Pago
    /\ vales \in [Pago -> Nat]
    /\ aplicado \in [Pago -> Nat]
    /\ sirvio \in [Pago -> BOOLEAN]
    /\ reinicios \in 0..MaxReinicios

Init ==
    /\ ref \in Referencias
    /\ alcanza \in [Pago -> BOOLEAN]
    /\ mp = [p \in Pago |-> "inexistente"]
    /\ registro = [p \in Pago |-> "ausente"]
    /\ revision = [p \in Pago |-> FALSE]
    /\ resolucion = [p \in Pago |-> "ninguna"]
    /\ destino = [d \in Destino |-> "espera"]
    /\ hilo = [h \in Hilos |-> Libre]
    /\ vales = [p \in Pago |-> 0]
    /\ aplicado = [p \in Pago |-> 0]
    /\ sirvio = [p \in Pago |-> FALSE]
    /\ reinicios = 0

-----------------------------------------------------------------------------
(***************************************************************************)
(* Vocabulary of the steps.                                                *)
(***************************************************************************)
cobro == <<ref, alcanza>>
fila == <<registro, revision, resolucion>>
historia == <<aplicado, sirvio>>

En(h, pc) == hilo[h].pc = pc
PagoDe(h) == hilo[h].pago
Sigue(h, pc) == hilo' = [hilo EXCEPT ![h].pc = pc]
Termina(h) == hilo' = [hilo EXCEPT ![h] = Libre]
Empieza(h, llamada) == hilo' = [hilo EXCEPT ![h] = llamada]

-----------------------------------------------------------------------------
(***************************************************************************)
(* Outside: Mercado Pago, and the life of the destinations.                *)
(***************************************************************************)
Sucede(a, b) ==
    \/ a = "inexistente" /\ b \in {"en_proceso", "approved"}
    \/ a = "en_proceso" /\ b \in {"approved", "devuelto"}
    \/ a = "approved" /\ b = "devuelto"

\* The payment changes at Mercado Pago.
CambiaEnMP(p, b) ==
    /\ Sucede(mp[p], b)
    /\ mp' = [mp EXCEPT ![p] = b]
    /\ UNCHANGED <<destino, hilo, vales, reinicios>> /\ UNCHANGED <<cobro, fila, historia>>

\* The session or turn expires or is cancelled (expirarPagoPendiente, and
\* expirarEsperaPago of the queue), or ends (cerrarYLiberar): at any moment here.
CierraDestino(d) ==
    /\ destino[d] # "cerrado"
    /\ destino' = [destino EXCEPT ![d] = "cerrado"]
    /\ UNCHANGED <<mp, hilo, vales, reinicios>> /\ UNCHANGED <<cobro, fila, historia>>

-----------------------------------------------------------------------------
(***************************************************************************)
(* procesarNotificacionPago and confirmarRetornoSilla/Turno.               *)
(***************************************************************************)

\* A webhook, at any time and any number of times. It is answered at once, so
\* what happens to the call later is nobody's to retry.
Webhook(h, p) ==
    /\ En(h, "libre") /\ mp[p] # "inexistente"
    /\ Empieza(h, [Libre EXCEPT !.pc = "consultar", !.pago = p])
    /\ UNCHANGED <<mp, destino, vales, reinicios>> /\ UNCHANGED <<cobro, fila, historia>>

\* The query of the status may fail: the call ends there.
Consultar(h) ==
    /\ En(h, "consultar")
    /\ \/ hilo' = [hilo EXCEPT ![h].pc = "buscar", ![h].status = mp[PagoDe(h)]]
       \/ Termina(h)
    /\ UNCHANGED <<mp, destino, vales, reinicios>> /\ UNCHANGED <<cobro, fila, historia>>

\* The browser comes back: the same, if Mercado Pago says approved and the
\* reference is of the chair or turn the browser says.
Retorno(h, p) ==
    /\ En(h, "libre")
    /\ mp[p] = "approved" /\ ref[p] \in Destino
    /\ Empieza(h, [Libre EXCEPT !.pc = "buscar", !.pago = p, !.status = "approved"])
    /\ UNCHANGED <<mp, destino, vales, reinicios>> /\ UNCHANGED <<cobro, fila, historia>>

\* procesarPagoVerificado looks the row up and decides what to do.
Buscar(h) ==
    LET p == PagoDe(h)
        aprueba == hilo[h].status = "approved" IN
    /\ En(h, "buscar")
    /\ CASE registro[p] = "APROBADO" /\ hilo[h].status = "devuelto" -> Sigue(h, "reembolsar")
         [] registro[p] = "APROBADO" /\ hilo[h].status # "devuelto" -> Termina(h)
         [] registro[p] # "APROBADO" /\ ref[p] \in Destino \cup {Desconocida} /\ aprueba ->
              Sigue(h, "actualizar")
         [] registro[p] # "APROBADO" /\ ref[p] \in Destino /\ ~aprueba -> Sigue(h, "crear")
         [] OTHER -> Termina(h)
    /\ UNCHANGED <<mp, destino, vales, reinicios>> /\ UNCHANGED <<cobro, fila, historia>>

\* An approved payment that cannot be handed over, whatever its destination.
NoAplicableSinMonto(p) == ref[p] = Desconocida
NoAplicable(p) == ref[p] = Desconocida \/ ~alcanza[p]

\* registrarEstadoPago has said that this call is the one to apply the payment.
Aplica(h) ==
    LET p == PagoDe(h) IN
    /\ IF NoAplicable(p)
       THEN Termina(h) /\ UNCHANGED aplicado
       ELSE /\ Sigue(h, IF ref[p] \in Sesion THEN "act_leer" ELSE "encolar")
            /\ aplicado' = [aplicado EXCEPT ![p] = @ + 1]

\* The states a row can be moved to APROBADO from.
ActualizableSiempre(p) == registro[p] # "ausente"
Actualizable(p) == registro[p] = "RECHAZADO"

Actualizar(h) ==
    LET p == PagoDe(h) IN
    /\ En(h, "actualizar")
    /\ IF Actualizable(p)
       THEN /\ registro' = [registro EXCEPT ![p] = "APROBADO"]
            /\ revision' = [revision EXCEPT ![p] = NoAplicable(p)]
            /\ Aplica(h)
       ELSE /\ Sigue(h, "crear")
            /\ UNCHANGED <<registro, revision, aplicado>>
    /\ UNCHANGED <<mp, resolucion, destino, vales, sirvio, reinicios>> /\ UNCHANGED cobro

\* The state of a new row: Mercado Pago's is not kept as it is.
EstadoCrudo(aprueba) == IF aprueba THEN "approved" ELSE "RECHAZADO"
EstadoNuevo(aprueba) == IF aprueba THEN "APROBADO" ELSE "RECHAZADO"

\* The insert; the unique key lets one call in.
Crear(h) ==
    LET p == PagoDe(h)
        aprueba == hilo[h].status = "approved" IN
    /\ En(h, "crear")
    /\ IF registro[p] = "ausente"
       THEN /\ registro' = [registro EXCEPT ![p] = EstadoNuevo(aprueba)]
            /\ revision' = [revision EXCEPT ![p] = aprueba /\ NoAplicable(p)]
            /\ IF aprueba THEN Aplica(h) ELSE Termina(h) /\ UNCHANGED aplicado
       ELSE Termina(h) /\ UNCHANGED <<registro, revision, aplicado>>
    /\ UNCHANGED <<mp, resolucion, destino, vales, sirvio, reinicios>> /\ UNCHANGED cobro

\* procesarReembolsoDeAprobado.
Reembolsar(h) ==
    LET p == PagoDe(h) IN
    /\ En(h, "reembolsar")
    /\ IF registro[p] = "APROBADO"
       THEN /\ registro' = [registro EXCEPT ![p] = "REEMBOLSADO"]
            /\ revision' = [revision EXCEPT ![p] = TRUE]
       ELSE UNCHANGED <<registro, revision>>
    /\ Termina(h)
    /\ UNCHANGED <<mp, resolucion, destino, vales, reinicios>> /\ UNCHANGED <<cobro, historia>>

\* activarSesion: it turns the relay on for a session that waits for a payment or,
\* paid already, for power; one that is ACTIVA stays as it is; the others refuse.
ActivarLee(h) ==
    LET d == ref[PagoDe(h)] IN
    /\ En(h, "act_leer")
    /\ \/ destino[d] # "cerrado" /\ Sigue(h, "act_rele")
       \/ destino[d] = "dado"    /\ Termina(h)
       \/ destino[d] = "cerrado" /\ Sigue(h, "marcar")
    /\ UNCHANGED <<mp, destino, vales, reinicios>> /\ UNCHANGED <<cobro, fila, historia>>

\* ACTIVA or ESPERANDO_ENERGIA, whatever the session is by now.
ActivarConfirma(h) ==
    LET p == PagoDe(h) IN
    /\ En(h, "act_rele")
    /\ destino' = [destino EXCEPT ![ref[p]] = "dado"]
    /\ sirvio' = [sirvio EXCEPT ![p] = TRUE]
    /\ Termina(h)
    /\ UNCHANGED <<mp, vales, aplicado, reinicios>> /\ UNCHANGED <<cobro, fila>>

\* Mutant: the update of the turn asks nothing of its state.
EncolarSiempre(h) ==
    LET p == PagoDe(h) IN
    /\ En(h, "encolar")
    /\ destino' = [destino EXCEPT ![ref[p]] = "dado"]
    /\ sirvio' = [sirvio EXCEPT ![p] = TRUE]
    /\ Termina(h)
    /\ UNCHANGED <<mp, vales, aplicado, reinicios>> /\ UNCHANGED <<cobro, fila>>

EncolarSinConflicto(h) ==
    LET p == PagoDe(h)
        d == ref[p] IN
    /\ En(h, "encolar")
    /\ IF destino[d] = "espera"
       THEN destino' = [destino EXCEPT ![d] = "dado"] /\ sirvio' = [sirvio EXCEPT ![p] = TRUE]
       ELSE UNCHANGED <<destino, sirvio>>
    /\ Termina(h)
    /\ UNCHANGED <<mp, vales, aplicado, reinicios>> /\ UNCHANGED <<cobro, fila>>

\* ColaService.procesarPagoAprobado: only a turn that waits for its payment.
Encolar(h) ==
    LET p == PagoDe(h)
        d == ref[p] IN
    /\ En(h, "encolar")
    /\ IF destino[d] = "espera"
       THEN /\ destino' = [destino EXCEPT ![d] = "dado"]
            /\ sirvio' = [sirvio EXCEPT ![p] = TRUE]
            /\ Termina(h)
       ELSE Sigue(h, "marcar") /\ UNCHANGED <<destino, sirvio>>
    /\ UNCHANGED <<mp, vales, aplicado, reinicios>> /\ UNCHANGED <<cobro, fila>>

\* marcarParaRevision.
Marcar(h) ==
    /\ En(h, "marcar")
    /\ revision' = [revision EXCEPT ![PagoDe(h)] = TRUE]
    /\ Termina(h)
    /\ UNCHANGED <<mp, registro, resolucion, destino, vales, reinicios>> /\ UNCHANGED <<cobro, historia>>

-----------------------------------------------------------------------------
(***************************************************************************)
(* resolverPagoParaRevision.                                               *)
(***************************************************************************)

\* The rows the list of the panel is taken from.  It shows the newest fifty of them
\* (take); an older one is seen when enough of those have been resolved.
EnRevision(p) == revision[p] /\ resolucion[p] = "ninguna"

\* It reads the row, and keeps the state it had.
Resolver(h, p, a) ==
    /\ En(h, "libre")
    /\ EnRevision(p)
    /\ Empieza(h, [Libre EXCEPT !.pc = "resolver", !.pago = p,
                                !.leido = registro[p], !.accion = a])
    /\ UNCHANGED <<mp, destino, vales, reinicios>> /\ UNCHANGED <<cobro, fila, historia>>

SinResolverSiempre(p) == TRUE
SinResolver(p) == resolucion[p] = "ninguna"

\* The conditional update that claims the resolution.
ResolverReclama(h) ==
    LET p == PagoDe(h)
        a == hilo[h].accion IN
    /\ En(h, "resolver")
    /\ IF SinResolver(p)
       THEN /\ resolucion' = [resolucion EXCEPT ![p] = a]
            /\ registro' = [registro EXCEPT ![p] =
                              IF a = "marcar_reembolsado" THEN "REEMBOLSADO" ELSE hilo[h].leido]
            /\ IF a = "emitir_vale" THEN Sigue(h, "vale") ELSE Termina(h)
       ELSE Termina(h) /\ UNCHANGED <<resolucion, registro>>
    /\ UNCHANGED <<mp, revision, destino, vales, reinicios>> /\ UNCHANGED <<cobro, historia>>

ResolverEmite(h) ==
    /\ En(h, "vale")
    /\ vales' = [vales EXCEPT ![PagoDe(h)] = @ + 1]
    /\ Termina(h)
    /\ UNCHANGED <<mp, destino, reinicios>> /\ UNCHANGED <<cobro, fila, historia>>

-----------------------------------------------------------------------------
\* The process dies; the notifications it has answered do not come again.
Reiniciar ==
    /\ reinicios < MaxReinicios
    /\ reinicios' = reinicios + 1
    /\ hilo' = [h \in Hilos |-> Libre]
    /\ UNCHANGED <<mp, destino, vales>> /\ UNCHANGED <<cobro, fila, historia>>

Afuera ==
    \/ \E p \in Pago, b \in EstadoMP : CambiaEnMP(p, b)
    \/ \E d \in Destino : CierraDestino(d)

Pedido(h) ==
    \E p \in Pago :
        \/ Webhook(h, p)
        \/ Retorno(h, p)
        \/ \E a \in Acciones : Resolver(h, p, a)

Paso(h) ==
    \/ Consultar(h)
    \/ Buscar(h)
    \/ Actualizar(h)
    \/ Crear(h)
    \/ Reembolsar(h)
    \/ ActivarLee(h)
    \/ ActivarConfirma(h)
    \/ Encolar(h)
    \/ Marcar(h)
    \/ ResolverReclama(h)
    \/ ResolverEmite(h)

Next ==
    \/ Afuera
    \/ \E h \in Hilos : Pedido(h) \/ Paso(h)
    \/ Reiniciar

Spec == Init /\ [][Next]_vars

-----------------------------------------------------------------------------
(***************************************************************************)
(* What the service promises.                                              *)
(***************************************************************************)
EnCurso(p) == \E h \in Hilos : PagoDe(h) = p

\* A payment is handed over to its session or turn at most once, whatever
\* webhooks and returns race (registrarEstadoPago: "true solo al proceso que
\* debe aplicar el pago").
SeAplicaUnaVez == \A p \in Pago : aplicado[p] <= 1

\* Another payment has paid for the same session.
PagadaPorOtro(p) ==
    ref[p] \in Sesion /\
        \E q \in Pago \ {p} : ref[q] = ref[p] /\ aplicado[q] > 0

\* Until the process dies, an approved payment nobody is working on bought its
\* session or turn, or is flagged for the owner, except for a session somebody
\* paid twice (procesarPagoDeSesion, procesarPagoDeTurno, marcarParaRevision).
AprobadoSirveOSeRevisa ==
    \A p \in Pago : reinicios = 0 /\ Aprobado(p) /\ ~EnCurso(p) =>
        sirvio[p] \/ revision[p] \/ PagadaPorOtro(p)

\* A session or turn is given against a payment Mercado Pago approved, of the
\* right amount and currency, that the table has as approved.
DadoEstaPago ==
    \A p \in Pago : sirvio[p] =>
        Aprobado(p) /\ alcanza[p] /\ mp[p] \in {"approved", "devuelto"}

\* A reviewed payment gives one voucher at most, and only if the owner chose a
\* voucher, however many times the panel sends the resolution.
UnValePorRevision ==
    \A p \in Pago : vales[p] <= IF resolucion[p] = "emitir_vale" THEN 1 ELSE 0

\* A payment leaves the list of the owner only by being resolved.
RevisionPersiste ==
    [][\A p \in Pago : EnRevision(p) => EnRevision(p)' \/ resolucion'[p] # "ninguna"]_vars

\* The comment of ESTADOS_DE_REEMBOLSO: a refunded payment "queda para que el
\* dueno lo resuelva a mano desde /admin/pagos/revision".  It does not hold once
\* the payment had been resolved: see the findings in the README.
ReembolsoALaVista ==
    [][\A h \in Hilos, p \in Pago :
          Reembolsar(h) /\ PagoDe(h) = p /\ registro'[p] # registro[p] => EnRevision(p)']_vars

\* The comment of registrarEstadoPago: a notification is registered "de forma
\* atomica frente a la carrera entre el Webhook y el back_url".  A call with an
\* approved status does not end with the row saying RECHAZADO.  It does not hold:
\* see the findings in the README.
AprobacionNoSePierde ==
    [][\A h \in Hilos : Crear(h) /\ hilo[h].status = "approved"
          => registro'[PagoDe(h)] # "RECHAZADO"]_vars

-----------------------------------------------------------------------------
(***************************************************************************)
(* Pagos implements Cobros: the calls in flight, the status they read, the *)
(* state of the row and the crashes are not seen there.                    *)
(***************************************************************************)
pagados == {p \in Pago : mp[p] \in {"approved", "devuelto"}}
entrega == [p \in Pago |-> IF sirvio[p] THEN "dado"
                           ELSE IF aplicado[p] > 0 THEN "tomado" ELSE "nada"]
lista == [p \in Pago |-> IF resolucion[p] # "ninguna" THEN resolucion[p]
                         ELSE IF revision[p] THEN "en_lista" ELSE "fuera"]
conVale == {p \in Pago : vales[p] > 0}

Promesa == INSTANCE Cobros WITH Pago <- Pago, Turno <- Turno, ref <- ref, pagados <- pagados,
                                entrega <- entrega, lista <- lista, conVale <- conVale

\* However the webhook, the return of the browser, their retries, the owner and
\* a crash interleave, every step of a call is one step of the life of one
\* payment as Cobros has it, or nothing: it is taken once, what it bought is
\* given once, a turn to one payment, and a review is resolved once
\* (procesarPagoVerificado, registrarEstadoPago, resolverPagoParaRevision).
ImplementaCobros == Promesa!Spec

-----------------------------------------------------------------------------
(***************************************************************************)
(* The inductive invariant behind those properties.                        *)
(***************************************************************************)

\* A call that registered the approval and has not handed the payment over yet.
EnEntrega(h) == hilo[h].pc \in {"act_leer", "act_rele", "encolar", "marcar"}

\* What a call in flight knows is still true.
LlamadaCoherente(h) ==
    LET c == hilo[h]
        p == PagoDe(h) IN
    /\ c.pc # "libre" /\ c.status = "approved" => mp[p] \in {"approved", "devuelto"}
    /\ c.pc = "actualizar" => c.status = "approved"
    /\ c.pc \in {"actualizar", "crear"} => ref[p] # SinReferencia
    /\ c.pc \in {"act_leer", "act_rele"} => ref[p] \in Sesion
    /\ c.pc = "encolar" => ref[p] \in Turno
    /\ EnEntrega(h) => c.status = "approved" /\ Aprobado(p) /\ alcanza[p] /\ aplicado[p] > 0
    /\ c.pc = "resolver" => c.leido \in {"APROBADO", "REEMBOLSADO"} /\ revision[p]
    /\ c.pc = "vale" => resolucion[p] = "emitir_vale" /\ vales[p] = 0

\* What a row and the history say agrees.
FilaCoherente(p) ==
    /\ revision[p] => Aprobado(p)
    /\ aplicado[p] <= 1
    /\ aplicado[p] > 0 => Aprobado(p)
    /\ sirvio[p] => aplicado[p] > 0 /\ alcanza[p] /\ mp[p] \in {"approved", "devuelto"}
    /\ vales[p] <= IF resolucion[p] = "emitir_vale" THEN 1 ELSE 0

\* A voucher is issued by the one call that claimed the resolution.
UnaEmision ==
    \A g, h \in Hilos : En(g, "vale") /\ En(h, "vale") /\ PagoDe(g) = PagoDe(h) => g = h

\* What is given was given for some payment.
DadoPorAlguien ==
    \A d \in Destino : destino[d] = "dado" => \E q \in Pago : ref[q] = d /\ sirvio[q]

\* An approval is somewhere: spent, flagged, or in the hands of a call.
Cubierto(p) ==
    \/ sirvio[p] \/ revision[p] \/ PagadaPorOtro(p)
    \/ \E h \in Hilos : PagoDe(h) = p /\ EnEntrega(h)
NadaSePierde == \A p \in Pago : Aprobado(p) => Cubierto(p)

Coherente ==
    /\ TypeOK
    /\ \A h \in Hilos : LlamadaCoherente(h)
    /\ \A p \in Pago : FilaCoherente(p)
    /\ UnaEmision
    /\ DadoPorAlguien

IInv == Coherente /\ (reinicios = 0 => NadaSePierde)

=============================================================================
