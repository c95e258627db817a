------------------------------- MODULE Compra -------------------------------
(* How a customer buys, from the QR to the page that follows the massage: one   *)
(* browser with several tabs, the checkout requests those tabs have in flight,  *)
(* the hosted checkout of Mercado Pago and the reservations of the backend.     *)
(*                                                                              *)
(* The browser keeps two things. `sesionActiva` is in localStorage: every tab   *)
(* reads and writes it. `turnoPendiente` is in sessionStorage: each tab has its *)
(* own and it dies with the tab. Everything the tabs send comes from one        *)
(* address, so the cap on unpaid reservations is theirs to share.               *)
(*                                                                              *)
(* A reservation is a session (a chair taken until it is paid) or a turn of the *)
(* queue. What happens to it once delivered belongs to Sesiones and Cola: here  *)
(* it only moves forward (Avanza). What a payment leaves in the database        *)
(* belongs to Pagos: here it is registered once and delivered once.             *)
EXTENDS Naturals, FiniteSets

CONSTANTS Pestana,          \* the tabs of the browser
          MaxReservas,      \* bound: reservations ever made
          MaxPendientes,    \* MAX_PENDIENTES_POR_IP
          NumSillas         \* chairs of the place

Nada == 0
Reserva == 1 .. MaxReservas

ASSUME CompraAssumption ==
    /\ MaxReservas \in Nat /\ MaxPendientes \in Nat \ {0} /\ NumSillas \in Nat
    /\ Nada \notin Pestana

VARIABLES
    reserva,         \* id -> [tipo, estado, pago, registro], the rows and their payments
    candado,         \* the tab whose request holds the advisory lock, or Nada
    pedido,          \* tab -> its checkout request: [paso, tipo, id]
    pagina,          \* tab -> the page it shows: [en, id]
    leido,           \* tab -> the state the landing's check was answered
    sesionActiva,    \* localStorage: the session the browser remembers
    turnoPendiente,  \* tab -> sessionStorage: the turn the tab remembers
    retorno,         \* id -> the confirmation sent on returning
    ultima           \* history: the last session recorded and not given up

vars == <<reserva, candado, pedido, pagina, leido, sesionActiva, turnoPendiente,
          retorno, ultima>>
servidor == <<reserva, candado, retorno>>
navegador == <<pagina, leido, sesionActiva, turnoPendiente, ultima>>

EnCurso == {"ESPERANDO_ENERGIA", "ACTIVA", "SALIDA"}
Terminal == {"COMPLETADA", "CANCELADA"}
Estado == EnCurso \cup Terminal \cup {"ninguna", "PENDIENTE", "EN_COLA"}
Paginas == {"cerrada", "chequeo", "landing", "mp", "exito", "fracaso",
            "turno", "exitoTurno", "fracasoTurno"}
Fila == [tipo : {"sesion", "turno"}, estado : Estado, pago : {"no", "abierto", "approved"},
         registro : {"no", "enCurso", "activando", "hecho", "revivida"}]
Solicitud == [paso : {"no", "entrar", "reservar", "preferencia", "responder"},
              tipo : {"sesion", "turno"}, id : Reserva \cup {Nada}]
Vista == [en : Paginas, id : Reserva \cup {Nada}]
SinPedido == [paso |-> "no", tipo |-> "sesion", id |-> Nada]
Cerrada == [en |-> "cerrada", id |-> Nada]
SinReserva == [tipo |-> "sesion", estado |-> "ninguna", pago |-> "no", registro |-> "no"]

Init ==
    /\ reserva = [r \in Reserva |-> SinReserva]
    /\ candado = Nada
    /\ pedido = [t \in Pestana |-> SinPedido]
    /\ pagina = [t \in Pestana |-> Cerrada]
    /\ leido = [t \in Pestana |-> "ninguna"]
    /\ sesionActiva = Nada
    /\ turnoPendiente = [t \in Pestana |-> Nada]
    /\ retorno = [r \in Reserva |-> "no"]
    /\ ultima = Nada
-----------------------------------------------------------------------------
(* Rows *)

Pendientes == {r \in Reserva : reserva[r].estado = "PENDIENTE"}

\* contarReservasPendientesPorIp: unpaid sessions and unpaid turns together.
HayCupo == Cardinality(Pendientes) < MaxPendientes

SillasTomadas ==
    {r \in Reserva : reserva[r].tipo = "sesion" /\ reserva[r].estado \in {"PENDIENTE"} \cup EnCurso}

Libres == {r \in Reserva : reserva[r].estado = "ninguna"}
Siguiente == CHOOSE r \in Libres : TRUE

\* expirarPagoPendiente and expirarEsperaPago: only what is still unpaid.
expirar(r) == [reserva EXCEPT ![r].estado = IF @ = "PENDIENTE" THEN "CANCELADA" ELSE @]

\* Mutant: unirse without pg_advisory_xact_lock.
SinCandado == TRUE

CandadoLibre == candado = Nada
-----------------------------------------------------------------------------
(* The page /silla/[id] *)

recordar(r) == sesionActiva' = r /\ ultima' = r

\* Mutant: olvidarSesionActiva clears whatever is stored.
olvidarCualquiera(r) == Nada

\* olvidarSesionActiva: only if what is stored is still that session.
olvidar(r) == IF sesionActiva = r THEN Nada ELSE sesionActiva

olvidarTurno(t, r) == [turnoPendiente EXCEPT ![t] = IF @ = r THEN Nada ELSE @]

Mostrar(t, en, r) == pagina' = [pagina EXCEPT ![t] = [en |-> en, id |-> r]]

\* The landing mounts: the turn of this tab first, then the session of the browser.
AbrirLanding(t, pendiente) ==
    \/ pendiente # Nada /\ Mostrar(t, "turno", pendiente)
    \/ pendiente = Nada /\ sesionActiva # Nada /\ Mostrar(t, "chequeo", sesionActiva)
    \/ pendiente = Nada /\ sesionActiva = Nada /\ Mostrar(t, "landing", Nada)

\* A QR is scanned: a new tab, with a sessionStorage of its own.
Escanear(t) ==
    /\ pagina[t].en = "cerrada" /\ pedido[t] = SinPedido
    /\ AbrirLanding(t, Nada)
    /\ UNCHANGED <<servidor, pedido, leido, sesionActiva, turnoPendiente, ultima>>

\* "Volver a intentar", the back button, or a link of the page.
Volver(t) ==
    /\ pagina[t].en \in {"mp", "exito", "fracaso", "turno", "exitoTurno", "fracasoTurno"}
    /\ AbrirLanding(t, turnoPendiente[t])
    /\ UNCHANGED <<servidor, pedido, leido, sesionActiva, turnoPendiente, ultima>>

Cerrar(t) ==
    /\ pagina[t].en # "cerrada"
    /\ pagina' = [pagina EXCEPT ![t] = Cerrada]
    /\ leido' = [leido EXCEPT ![t] = "ninguna"]
    /\ turnoPendiente' = [turnoPendiente EXCEPT ![t] = Nada]
    /\ UNCHANGED <<servidor, pedido, sesionActiva, ultima>>

\* The browser restores a tab: the page of the session mounts again, with no payment.
Recargar(t) ==
    /\ pagina[t].en = "exito" /\ recordar(pagina[t].id)
    /\ UNCHANGED <<servidor, pedido, pagina, leido, turnoPendiente>>

\* rutaSesionActiva: the backend says how the remembered session is...
ResponderChequeo(t) ==
    /\ pagina[t].en = "chequeo" /\ leido[t] = "ninguna"
    /\ leido' = [leido EXCEPT ![t] = reserva[pagina[t].id].estado]
    /\ UNCHANGED <<servidor, pedido, pagina, sesionActiva, turnoPendiente, ultima>>

\* ... and later the tab acts on the answer. A session under way takes it to its page.
SeguirSesion(t) ==
    /\ pagina[t].en = "chequeo" /\ leido[t] \in EnCurso
    /\ Mostrar(t, "exito", pagina[t].id)
    /\ recordar(pagina[t].id)
    /\ leido' = [leido EXCEPT ![t] = "ninguna"]
    /\ UNCHANGED <<servidor, pedido, turnoPendiente>>

\* One that is over is forgotten; an unpaid one is kept; an error shows the landing.
MostrarLanding(t) ==
    /\ pagina[t].en = "chequeo" /\ leido[t] \notin EnCurso
    /\ sesionActiva' = IF leido[t] \in Terminal THEN olvidar(pagina[t].id) ELSE sesionActiva
    /\ Mostrar(t, "landing", Nada)
    /\ leido' = [leido EXCEPT ![t] = "ninguna"]
    /\ UNCHANGED <<servidor, pedido, turnoPendiente, ultima>>

\* pagar and unirmeACola
Comprar(t, tipo) ==
    /\ pagina[t].en = "landing" /\ pedido[t] = SinPedido
    /\ pedido' = [pedido EXCEPT ![t] = [paso |-> "entrar", tipo |-> tipo, id |-> Nada]]
    /\ UNCHANGED <<servidor, navegador>>

\* A voucher is redeemed: a turn that owes nothing, remembered by this tab only.
Canjear(t) ==
    /\ \/ pagina[t].en = "landing"
       \/ pagina[t].en = "exito" /\ reserva[pagina[t].id].estado \in Terminal
    /\ pedido[t] = SinPedido /\ Libres # {}
    /\ reserva' = [reserva EXCEPT ![Siguiente] = [@ EXCEPT !.tipo = "turno", !.estado = "EN_COLA"]]
    /\ turnoPendiente' = [turnoPendiente EXCEPT ![t] = Siguiente]
    /\ Mostrar(t, "turno", Siguiente)
    /\ UNCHANGED <<candado, retorno, pedido, leido, sesionActiva, ultima>>
-----------------------------------------------------------------------------
(* iniciarCheckout and unirse, as they run in the backend *)

Paso(t, paso) == pedido' = [pedido EXCEPT ![t].paso = paso]

\* No chair in service or with power, or Turnstile did not vouch for the customer.
Rechazar(t) ==
    /\ pedido[t].paso = "entrar" \/ (pedido[t].paso = "reservar" /\ pedido[t].tipo = "sesion")
    /\ pedido' = [pedido EXCEPT ![t] = SinPedido]
    /\ UNCHANGED <<servidor, navegador>>

\* iniciarCheckout counts before it reserves, with nothing held in between.
ContarSesion(t) ==
    /\ pedido[t].paso = "entrar" /\ pedido[t].tipo = "sesion"
    /\ IF HayCupo THEN Paso(t, "reservar") ELSE pedido' = [pedido EXCEPT ![t] = SinPedido]
    /\ UNCHANGED <<servidor, navegador>>

Insertar(t) ==
    /\ reserva' = [reserva EXCEPT ![Siguiente].tipo = pedido[t].tipo,
                                  ![Siguiente].estado = "PENDIENTE"]
    /\ pedido' = [pedido EXCEPT ![t].paso = "preferencia", ![t].id = Siguiente]

\* crearSesionPendiente: a chair that is free, or nothing.
ReservarSilla(t) ==
    /\ pedido[t].paso = "reservar" /\ pedido[t].tipo = "sesion" /\ Libres # {}
    /\ IF Cardinality(SillasTomadas) < NumSillas
       THEN Insertar(t)
       ELSE pedido' = [pedido EXCEPT ![t] = SinPedido] /\ UNCHANGED reserva
    /\ UNCHANGED <<candado, retorno, navegador>>

\* unirse: pg_advisory_xact_lock, then the count...
ContarTurno(t) ==
    /\ pedido[t].paso = "entrar" /\ pedido[t].tipo = "turno" /\ CandadoLibre
    /\ IF HayCupo
       THEN Paso(t, "reservar") /\ candado' = t
       ELSE pedido' = [pedido EXCEPT ![t] = SinPedido] /\ UNCHANGED candado
    /\ UNCHANGED <<reserva, retorno, navegador>>

\* Mutant: the request ends without ending its transaction.
CrearTurnoSinSoltar(t) ==
    /\ pedido[t].paso = "reservar" /\ pedido[t].tipo = "turno" /\ Libres # {}
    /\ Insertar(t)
    /\ UNCHANGED <<candado, retorno, navegador>>

\* ... and the row, in the same transaction: the commit lets the lock go.
CrearTurno(t) ==
    /\ pedido[t].paso = "reservar" /\ pedido[t].tipo = "turno" /\ Libres # {}
    /\ Insertar(t)
    /\ candado' = Nada
    /\ UNCHANGED <<retorno, navegador>>

crearPreferencia(t) ==
    /\ pedido[t].paso = "preferencia"
    /\ reserva' = [reserva EXCEPT ![pedido[t].id].pago = "abierto"]
    /\ Paso(t, "responder")
    /\ UNCHANGED <<candado, retorno, navegador>>

\* Mercado Pago did not answer: the reservation is undone before the error goes out.
PreferenciaFalla(t) ==
    /\ pedido[t].paso = "preferencia"
    /\ reserva' = expirar(pedido[t].id)
    /\ pedido' = [pedido EXCEPT ![t] = SinPedido]
    /\ UNCHANGED <<candado, retorno, navegador>>

\* The answer arrives: the tab stores the id and leaves for Mercado Pago.
Partir(t) ==
    /\ pedido[t].paso = "responder" /\ pagina[t].en = "landing"
    /\ IF pedido[t].tipo = "sesion"
       THEN recordar(pedido[t].id) /\ UNCHANGED turnoPendiente
       ELSE /\ turnoPendiente' = [turnoPendiente EXCEPT ![t] = pedido[t].id]
            /\ UNCHANGED <<sesionActiva, ultima>>
    /\ Mostrar(t, "mp", pedido[t].id)
    /\ pedido' = [pedido EXCEPT ![t] = SinPedido]
    /\ UNCHANGED <<servidor, leido>>

\* The answer is lost, or the tab that waited for it is gone.
PerderRespuesta(t) ==
    /\ pedido[t].paso = "responder"
    /\ pedido' = [pedido EXCEPT ![t] = SinPedido]
    /\ UNCHANGED <<servidor, navegador>>

\* The timer of three minutes, for as long as the row is unpaid. Activating clears it, but
\* not the handler of one that had already fired.
Vence(r) ==
    /\ reserva[r].estado = "PENDIENTE"
    /\ reserva' = expirar(r)
    /\ UNCHANGED <<candado, retorno, pedido, navegador>>
-----------------------------------------------------------------------------
(* Mercado Pago, and the way back *)

\* The customer pays. Until then the payment is open: not tried, rejected or pending,
\* which send the customer to the same page.
Aprobar(r) ==
    /\ reserva[r].pago = "abierto"
    /\ reserva' = [reserva EXCEPT ![r].pago = "approved"]
    /\ UNCHANGED <<candado, retorno, pedido, navegador>>

\* The page of the hosted checkout sends the customer to a back_url, in the same
\* tab or in another one. Only an approved payment goes to /exito.
RegresarConPago(t, u) ==
    /\ pagina[t].en = "mp" /\ pedido[u] = SinPedido /\ (u = t \/ pagina[u].en = "cerrada")
    /\ LET r == pagina[t].id IN
         /\ reserva[r].pago = "approved"
         /\ retorno' = [retorno EXCEPT ![r] = IF @ = "no" THEN "consultar" ELSE @]
         /\ IF reserva[r].tipo = "sesion"
            THEN Mostrar(u, "exito", r) /\ recordar(r)
            ELSE Mostrar(u, "exitoTurno", r) /\ UNCHANGED <<sesionActiva, ultima>>
    /\ UNCHANGED <<reserva, candado, pedido, leido, turnoPendiente>>

\* /fracaso gives the reservation up: it asks the backend to cancel and forgets it.
RegresarSinPago(t, u) ==
    /\ pagina[t].en = "mp" /\ pedido[u] = SinPedido /\ (u = t \/ pagina[u].en = "cerrada")
    /\ LET r == pagina[t].id IN
         /\ reserva[r].pago # "approved"
         /\ IF reserva[r].tipo = "sesion"
            THEN /\ Mostrar(u, "fracaso", r)
                 /\ sesionActiva' = olvidar(r)
                 /\ ultima' = IF ultima = r THEN Nada ELSE ultima
                 /\ UNCHANGED turnoPendiente
            ELSE /\ Mostrar(u, "fracasoTurno", r)
                 /\ turnoPendiente' = olvidarTurno(u, r)
                 /\ UNCHANGED <<sesionActiva, ultima>>
    /\ UNCHANGED <<servidor, pedido, leido>>

\* cancelarCheckout and cancelarTurno. A request that is lost, or that arrives when the page
\* is gone, does nothing that the timer does not do (Vence).
LlegaCancelacion(r) ==
    /\ \E t \in Pestana : pagina[t].en \in {"fracaso", "fracasoTurno"} /\ pagina[t].id = r
    /\ reserva' = expirar(r)
    /\ UNCHANGED <<candado, retorno, pedido, navegador>>

\* The link of /cola/[turnoId]/exito.
VerTurno(t) ==
    /\ pagina[t].en = "exitoTurno"
    /\ Mostrar(t, "turno", pagina[t].id)
    /\ UNCHANGED <<servidor, pedido, leido, sesionActiva, turnoPendiente, ultima>>

\* The poll of the page of the session, or of the turn, finds that it is over.
VerFin(t) ==
    /\ pagina[t].en \in {"exito", "turno"} /\ reserva[pagina[t].id].estado \in Terminal
    /\ IF pagina[t].en = "exito"
       THEN sesionActiva' = olvidar(pagina[t].id) /\ UNCHANGED turnoPendiente
       ELSE turnoPendiente' = olvidarTurno(t, pagina[t].id) /\ UNCHANGED sesionActiva
    /\ UNCHANGED <<servidor, pedido, pagina, leido, ultima>>
-----------------------------------------------------------------------------
(* The payment reaches the backend: by the webhook, or by the page that returns *)

\* procesarPagoVerificado writes the row of the payment before it delivers.
Notificar(r) ==
    /\ reserva[r].pago = "approved" /\ reserva[r].registro = "no"
    /\ reserva' = [reserva EXCEPT ![r].registro = "enCurso"]
    /\ UNCHANGED <<candado, retorno, pedido, navegador>>

\* activarSesion looks at the session and asks for the relay. What is no longer unpaid
\* is left for review.
ActivarLee(r) ==
    /\ reserva[r].registro = "enCurso" /\ reserva[r].tipo = "sesion"
    /\ reserva' = [reserva EXCEPT ![r].registro =
                        IF reserva[r].estado = "PENDIENTE" THEN "activando" ELSE "hecho"]
    /\ UNCHANGED <<candado, retorno, pedido, navegador>>

\* The relay answered or it did not: the session starts, or waits for the power. The
\* update asks for no state, so a session cancelled meanwhile is under way again.
ActivarConfirma(r, estado) ==
    /\ reserva[r].registro = "activando" /\ estado \in {"ACTIVA", "ESPERANDO_ENERGIA"}
    /\ LET registro == IF reserva[r].estado = "PENDIENTE" THEN "hecho" ELSE "revivida" IN
         reserva' = [reserva EXCEPT ![r].estado = estado, ![r].registro = registro]
    /\ UNCHANGED <<candado, retorno, pedido, navegador>>

\* procesarPagoAprobado: a turn that is still unpaid enters the queue, in one update.
Encolar(r) ==
    /\ reserva[r].registro = "enCurso" /\ reserva[r].tipo = "turno"
    /\ reserva' = [reserva EXCEPT ![r].registro = "hecho",
                                  ![r].estado = IF @ = "PENDIENTE" THEN "EN_COLA" ELSE @]
    /\ UNCHANGED <<candado, retorno, pedido, navegador>>

\* confirmarRetornoSilla and confirmarRetornoTurno run the same delivery, unless the
\* row of the payment is there already...
ProcesarRetorno(r) ==
    /\ retorno[r] = "consultar" /\ reserva[r].registro = "no"
    /\ reserva' = [reserva EXCEPT ![r].registro = "enCurso"]
    /\ retorno' = [retorno EXCEPT ![r] = "entregar"]
    /\ UNCHANGED <<candado, pedido, navegador>>

Confirmado(r) ==
    IF reserva[r].tipo = "sesion" THEN reserva[r].estado = "ACTIVA"
    ELSE reserva[r].estado \notin {"PENDIENTE", "CANCELADA"}

\* ... and then answer by the state of the reservation: what is not Confirmado
\* "ya vencio".
ResponderRetorno(r) ==
    /\ \/ retorno[r] = "consultar" /\ reserva[r].registro # "no"
       \/ retorno[r] = "entregar" /\ reserva[r].registro \in {"hecho", "revivida"}
    /\ retorno' = [retorno EXCEPT ![r] = "no"]
    /\ UNCHANGED <<reserva, candado, pedido, navegador>>

\* Mercado Pago does not answer obtenerPago: the page is told the payment is unknown.
RetornoFalla(r) ==
    /\ retorno[r] = "consultar"
    /\ retorno' = [retorno EXCEPT ![r] = "no"]
    /\ UNCHANGED <<reserva, candado, pedido, navegador>>

\* The rest of the life of a reservation, which Sesiones and Cola model: activarSesion
\* and vencerEsperaEnergia, finalizarSesion, cerrarYLiberar with the close of the turn.
Avanza(r, estado) ==
    /\ <<reserva[r].estado, estado>> \in
            {<<"ESPERANDO_ENERGIA", "ACTIVA">>, <<"ESPERANDO_ENERGIA", "CANCELADA">>,
             <<"ACTIVA", "SALIDA">>, <<"ACTIVA", "COMPLETADA">>, <<"SALIDA", "COMPLETADA">>,
             <<"EN_COLA", "COMPLETADA">>, <<"EN_COLA", "CANCELADA">>}
    /\ reserva' = [reserva EXCEPT ![r].estado = estado]
    /\ UNCHANGED <<candado, retorno, pedido, navegador>>
-----------------------------------------------------------------------------
DeLaPestana(t) ==
    \/ Escanear(t) \/ Volver(t) \/ Cerrar(t) \/ Recargar(t)
    \/ ResponderChequeo(t) \/ SeguirSesion(t) \/ MostrarLanding(t)
    \/ \E tipo \in {"sesion", "turno"} : Comprar(t, tipo)
    \/ Canjear(t)
    \/ \E u \in Pestana : RegresarConPago(t, u) \/ RegresarSinPago(t, u)
    \/ VerTurno(t) \/ VerFin(t)

DelPedido(t) ==
    \/ Rechazar(t) \/ ContarSesion(t) \/ ReservarSilla(t) \/ ContarTurno(t) \/ CrearTurno(t)
    \/ crearPreferencia(t) \/ PreferenciaFalla(t) \/ Partir(t) \/ PerderRespuesta(t)

DeLaReserva(r) ==
    \/ Vence(r) \/ LlegaCancelacion(r)
    \/ Aprobar(r) \/ Notificar(r) \/ ProcesarRetorno(r) \/ ResponderRetorno(r) \/ RetornoFalla(r)
    \/ ActivarLee(r) \/ Encolar(r)
    \/ \E estado \in Estado : ActivarConfirma(r, estado) \/ Avanza(r, estado)

Next ==
    \/ \E t \in Pestana : DeLaPestana(t) \/ DelPedido(t)
    \/ \E r \in Reserva : DeLaReserva(r)

Spec == Init /\ [][Next]_vars
-----------------------------------------------------------------------------
(* Properties *)

\* Every variable has its type; the row of a payment never precedes the payment; and
\* the lock is held exactly while a request is between its count and its row.
TypeOK ==
    /\ reserva \in [Reserva -> Fila]
    /\ \A r \in Reserva : reserva[r].registro # "no" => reserva[r].pago = "approved"
    /\ pedido \in [Pestana -> Solicitud] /\ pagina \in [Pestana -> Vista]
    /\ candado \in Pestana \cup {Nada}
    /\ \A t \in Pestana :
            candado = t <=> (pedido[t].paso = "reservar" /\ pedido[t].tipo = "turno")
    /\ leido \in [Pestana -> Estado]
    /\ sesionActiva \in Reserva \cup {Nada} /\ ultima \in Reserva \cup {Nada}
    /\ turnoPendiente \in [Pestana -> Reserva \cup {Nada}]
    /\ retorno \in [Reserva -> {"no", "consultar", "entregar"}]

\* A page that follows a reservation, and a request that has made one, name one.
Coherente ==
    \A t \in Pestana :
        /\ pagina[t].en \notin {"cerrada", "landing"} => pagina[t].id \in Reserva
        /\ pedido[t].paso \in {"preferencia", "responder"} => pedido[t].id \in Reserva

TurnosPendientes == {r \in Pendientes : reserva[r].tipo = "turno"}

\* A reservation gets one preference, from the request that made it, and only a paid one
\* is confirmed.
Tramites ==
    /\ \A r \in Reserva : reserva[r].estado = "ninguna" => reserva[r].pago = "no"
    /\ \A r \in Reserva : retorno[r] # "no" => reserva[r].pago = "approved"
    /\ \A t \in Pestana : pedido[t].paso = "preferencia" =>
            /\ reserva[pedido[t].id].pago = "no" /\ reserva[pedido[t].id].estado # "ninguna"
            /\ \A s \in Pestana : pedido[s].paso = "preferencia" /\ pedido[s].id = pedido[t].id
                                 => s = t

\* An answer in the hands of the landing is still true of a session that is over, unless
\* its activation brought the session back.
LeidoCierto ==
    \A t \in Pestana :
        /\ pagina[t].en # "chequeo" => leido[t] = "ninguna"
        /\ leido[t] \in Terminal => \/ reserva[pagina[t].id].estado \in Terminal
                                  \/ reserva[pagina[t].id].registro = "revivida"

\* However many requests of one address are in flight at once, unpaid turns never
\* exceed the cap (the comment of cola.service.ts:200-204). Sessions are counted without
\* the lock, so the same is not claimed of the two together.
TopeDeTurnos == Cardinality(TurnosPendientes) <= MaxPendientes

\* While the last session the browser recorded is not over, and the customer did not
\* land on its /fracaso page, it is the one the browser remembers: no other tab, closing
\* an older session or answering an older check, makes the landing forget it. The
\* exception is a session cancelled while activarSesion waited for the relay: the browser
\* may forget it between its cancellation and its start.
SesionRecordada ==
    /\ ultima # Nada /\ reserva[ultima].estado \notin Terminal
    /\ reserva[ultima].registro # "revivida"
    => sesionActiva = ultima

\* What makes the cap inductive: from its count to its row, the request that holds the lock
\* has room for its turn.
CupoReservado ==
    \A t \in Pestana : pedido[t].paso = "reservar" /\ pedido[t].tipo = "turno"
                       => Cardinality(TurnosPendientes) < MaxPendientes

IInv ==
    /\ TypeOK /\ Coherente /\ Tramites /\ LeidoCierto
    /\ SesionRecordada /\ CupoReservado /\ TopeDeTurnos

\* What the page says on returning: "El pago fue aprobado, pero la reserva ya vencio"
\* (pagos.service.ts:189 and 223) is only answered of a reservation that was cancelled.
\* It does not hold: see the findings in the README.
AvisoVerdadero ==
    [][\A r \in Reserva : ResponderRetorno(r) /\ ~Confirmado(r)
                            => reserva[r].estado = "CANCELADA"]_vars
=============================================================================
