# Silla-Autonomas in TLA+

A verification project for the self-service massage chairs: the backend
(`src/backend`, NestJS, Prisma and PostgreSQL, one process; Mercado Pago takes
the payments, Shelly Cloud switches the chairs) and the pages of the customer
(`src/frontend`, Next.js). Everything here is read off the code; paths are
relative to `src/backend/src` unless they say otherwise.

Contents: [inventory](#inventory), [modules](#modules), [Sesiones](#sesiones),
[Pagos and Cobros](#pagos), [Cola](#cola), [Rele](#rele), [Reloj and Cortes](#reloj-and-cortes),
[Pantallas and Vista](#pantallas-and-vista), [Compra](#compra), [runs](#runs),
[findings](#findings), [proofs](#proofs), [not modelled](#what-is-not-modelled).

## Inventory

The backend is a single Node process (`src/docs/DEPLOY.md:122`). Code between two `await`s is
atomic; at every `await` any other request, timer or interval may run. There is one lock
(`pg_advisory_xact_lock`, in `unirse`): otherwise the code protects itself with conditional
updates (`updateMany ... where estado = X`, then `count`), and where it forgets to, two handlers
overlap. Timers live in memory (`Map<string, NodeJS.Timeout>`) and are rebuilt from the tables
when the process starts.

| Part | State it keeps | Operations | Talks to |
| --- | --- | --- | --- |
| **SesionesService** `sesiones/sesiones.service.ts` | `Sesion.estado`, `Silla.estado`, the closing reason, the cut, one timer per session | reserve, activate, finish, return pulse, close, wait for power, resume, emergency stop, manual activation, expiry of a payment, bootstrap | Shelly (ON, OFF, pulse), Creditos (voucher), Cola (the turn of the session), Heartbeat |
| **EnergiaService** `sesiones/energia.service.ts` | nothing but the flag of a pass in progress | every 15 s: register a cut, resume, close as a cut, retry or give up on sessions waiting for power, sweep orphan relays | Sesiones, Heartbeat, Shelly |
| **PagosService** `pagos/` | `Pago` (unique `paymentIdMp`), review flags | checkout, cancel, webhook, browser return, refund, review | Mercado Pago, Sesiones, Cola, Creditos |
| **ColaService** `cola/cola.service.ts` | `Turno.estado`, the reserved chair, one timer per turn, a cache | join, expire, assign, confirm, window expiry, redeem a voucher, bootstrap, tick | Sesiones, Creditos, Sillas |
| **CreditosService** `creditos/` | `Credito.estado`, failed attempts per IP | issue, take, link, expire | Cola, Pagos, Sesiones |
| **ShellyService** `shelly/shelly.service.ts` | time of the last call | ON with auto-off, OFF, pulse, list devices, throttle, retry on 429 | Shelly Cloud |
| **HeartbeatService** `shelly/heartbeat.service.ts` | last reading of every device | poll, `estaOffline` | Shelly |
| **SillasService**, **TtlCache** `sillas/`, `common/ttl-cache.ts` | cached public state | read, invalidate | database |
| **reloj.util** `sesiones/reloj.util.ts` | none | remaining seconds of a session | none |
| **Admin** `admin/` | token version, login lockout | login, logout, CRUD, review | Sesiones, Pagos |
| **Reservations per IP** `common/reservas-pendientes.util.ts` | none: it counts rows | the cap of unpaid reservations | Pagos, Cola |
| **Frontend** `src/frontend` | what the browser remembers (`localStorage`, `sessionStorage`), the chain of polls of each page | buy, return, poll, follow a session or a turn | HTTP, Mercado Pago |

Entity states, as written by the code: `Silla` LIBRE, PAGO_PENDIENTE,
RESERVADA, EN_USO (FUERA_DE_SERVICIO is in the schema, no code writes it);
`Sesion` PENDIENTE, ESPERANDO_ENERGIA, ACTIVA, SALIDA, COMPLETADA, CANCELADA
(ESPERANDO_CONFIRMACION is reachable only through `esperarConfirmacion`, which
nothing calls); `Turno` ESPERANDO_PAGO, EN_COLA, ASIGNADO, EN_USO, COMPLETADA,
CANCELADA; `Credito` DISPONIBLE, CANJEADO, VENCIDO; `Pago` PENDIENTE, APROBADO,
RECHAZADO, REEMBOLSADO.

What makes it hard:

- a handler reads, awaits the relay for about a second, and writes; meanwhile a
  timer, a pass of EnergiaService, a webhook or the owner acts on the same row;
- the session and its chair are two rows written by two statements, with the
  process able to die between them;
- a timer is one slot per session: a handler that arrives late can clear the
  timer another handler has armed;
- payments arrive late, twice, by two roads (webhook and browser return), or
  after the session was given up;
- power cuts come in any state of a session, and the reading that shows them is
  old when it is used;
- relay commands queue behind one another, are refused for their rate and tried
  again later, out of order;
- what a page shows went through a cache that some writers clear and others do
  not, and through a poll that stops when the tab is hidden;
- the tabs of one browser share what it remembers.

What makes each part correct:

- Sesiones and Energia: a chair is never stranded, never lent twice; an
  unfinished session always has something that will move it on; a customer gets
  the massage or a voucher, not both and not neither; a session in a cut is
  settled as a cut; every session ends.
- Pagos: every approved payment has exactly one destination (session, turn,
  voucher, refund or the review list), whatever the order and number of
  notifications and whatever crash falls between two writes.
- Cola: one chair for one turn, a confirmed turn keeps its chair, an unconfirmed
  window ends, order of arrival, no paid turn left without a timer or a place.
- Creditos: a voucher is spent at most once, and one that is spent buys a turn.
- Limit per IP: no address holds more unpaid turns than allowed.
- Shelly, Heartbeat, Energia: a cut that is registered is a real one, and the
  relay ends up as the sessions say.
- The clock: a customer gets the minutes that were paid, or a voucher for the
  rest; the relay opens by itself; the session ends.
- Caches and pages: an answer is not older than its cache allows, and a page in
  view ends up showing the database.
- The browser: it remembers the session the customer should be taken back to.

## Modules

| Module | Models | Composes |
| --- | --- | --- |
| `Sesiones` | the lending of chairs: SesionesService, EnergiaService, the checkout calls of PagosService | |
| `Pagos` | registration of payments, refunds, review, crash between two writes | sessions and turns as destinations; refines `Cobros` |
| `Cobros` | abstract: the life of a payment, without calls in flight | |
| `Cola` | turns, assignment, confirmation, timers, bootstrap; vouchers taken, redeemed and expired | sessions and chairs as the queue sees them |
| `Rele` | the relay: ShellyService's chain of requests, HeartbeatService, the pass and the orphan sweep of EnergiaService | the session as they see it |
| `Reloj` | the arithmetic of a session as pure operators | |
| `Cortes` | one massage against the clock, power, network, cloud and restarts | `Reloj` |
| `Pantallas` | what the endpoints answer and the pages show, as pure operators | |
| `Vista` | caches, invalidations, polls and tabs | `Pantallas` |
| `Compra` | tabs, checkout requests, the cap per IP, Mercado Pago and the way back | sessions and turns as the browser sees them |
| `Sesiones_proofs`, `SesionesClientes_proofs` | theorems of `Sesiones`: the chairs; the customers | |
| `Pagos_proofs`, `Cola_proofs`, `Rele_proofs`, `Cortes_proofs`, `Vista_proofs`, `Compra_proofs` | theorems of those modules | |
| `MCSesiones` ... `MCCompra` | model values, symmetries and initial states of the runs | |

Each concern is in one module, with the others as an environment that may do
whatever they do: `Sesiones` has every interleaving of the handlers but no clock;
`Cortes` has the clock and one session; `Rele` has the order of the commands;
`Vista` has one handler at a time and every order of reads and polls. One model of
all of it would be out of TLC's reach, and each of those hazards needs little of
the others.

Still worth writing: an abstract queue (the life of a turn, its chair and its place, without
calls in flight) refined by `Cola` as `Cobros` is by `Pagos`.

## Sesiones

### State

| Variable | In the code |
| --- | --- |
| `silla`, `estado`, `sillaDe`, `manual`, `motivo` | `Silla.estado`, `Sesion.estado`, `sillaId`, `esManual`, `motivoCierre` |
| `cortada`, `cortes` | `Sesion.interrumpidaEn` is set, `Sesion.cortes` |
| `timer` | the entry of `SesionesService.timers`, named by its callback |
| `hilo` | the handlers in flight: the await each stands at, its session or chair, its options |
| `pasada` | rows `EnergiaService.revisar` has read and not yet looked at, as they were read |
| `arranque`, `reinicios` | how far `onApplicationBootstrap` is; restarts |
| `enlace`, `pagos`, `revision`, `vale` | the checkout link was handed out; approved payments applied; a payment was flagged; voucher of the session |
| `revivida` | history: `activarSesion` wrote a closed session back to life |

### Steps

A call in flight holds a slot of `hilo`. One action is the awaited statement (a
query, a conditional update, a relay command) together with all the code that
runs after it up to the next await; the code before the first await of a handler
(`cancelarTimer`, in most) belongs to the step that calls the handler. So a
handler like `finalizarSesion` is a chain of actions
(`FinalizarLee`, `FinalizarDetecta`, `FinalizarRegistraCorte`, `FinalizarApaga`,
`FinalizarASalida`, `FinalizarProgramaRetorno`, then `Cerrar`, `Liberar`,
`EmitirVale` of `cerrarYLiberar`) with any other action in between. The bootstrap
and the pass of EnergiaService are handlers with a slot of their own, because
each awaits one session before it takes the next; a pass works on the rows as it
read them. `Reiniciar` empties the slots and the timers and leaves the tables.

### Abstractions

- Time: an armed timer may fire at any moment, and a comparison of the clock with
  a threshold may go either way. `finProgramado`, `salidaHasta`, the compensation
  of a cut and the minutes without power are therefore choices here; `Cortes` has
  their values.
- Heartbeat and relay: a reading is any reading; a command answers or fails. The
  relay itself, the order of its commands and `apagarRelesHuerfanos` are in `Rele`.
- Statements that write none of these variables share the step before or after
  them (the `turno.updateMany` of an emergency stop, `finSesionActual`,
  `salidaHasta`, the read of `expirarPagoPendiente`).
- `AplicarPago` sets `revision` together with the read that refuses the payment;
  in the code `marcarParaRevision` is a later write, which `Pagos` has as a step.
- The reason `completada_tras_reinicio` counts as `tiempo_cumplido`.
- The database answers: the failures here are crashes, relay commands, Mercado
  Pago's preference, and the voucher.

### Assumptions

- `BaseRapida`: when a relay command answers, the statements sent earlier for that
  session are done. Shelly commands leave at least 1.1 s apart
  (`ESPACIADO_MS`, `shelly/shelly.service.ts:130` and `185-194`); statements take
  milliseconds. It is a constant: the theorems hold with and without it, but for those
  that say otherwise.
- The first pass of EnergiaService, an interval after the start, finds the
  bootstrap finished.
- An HTTP call is attended after the bootstrap (Nest runs
  `onApplicationBootstrap` before it listens).

### Properties

- `TypeOK`.
- `SillaConDuenio`: until the first crash, a chair that is not LIBRE has an
  unfinished session, or a call in flight still due to create its session or to
  free it. (A crash between the two writes does strand a chair: `Reiniciar` right
  after `ReservarSilla`. The bootstrap looks at sessions, not at chairs.)
- `SesionConDespertador`: an unfinished session has the timer of its state, or a
  call that will settle it, or an open cut that EnergiaService follows, or the
  bootstrap still to come.
- `ExclusivaSalvoRevivida`: one unfinished session per chair, and its chair is
  not LIBRE, unless a session of that chair was revived by the unconditional
  commit of `activarSesion` (line 436).
- `ValeOMasaje`: no second voucher, and no voucher for a massage that was given, of a
  session that was not revived. A revived one can have both: `activarSesion` writes
  ACTIVA over the close of the wait for power that issued its voucher.
- `PagoConDestino`: until the first crash, an applied payment of a CANCELADA
  session has its voucher (or a logged failure of it), an emergency stop, or a
  review flag.
- `CorteSeResuelve`: with a return pulse, an open cut ends as a cut.
- `SesionTermina`: every unfinished session ends.
- `IInv`: the inductive invariant of the proofs.

### Fairness

`Justicia`: awaited statements answer (weak, per call); the bootstrap goes on and
the interval of EnergiaService keeps running (weak); an armed timer fires
(strong: `reintentar` cancels a timer and arms it again, but for the same
deadline, and one past due for at once, so a timer that is always armed again
still fires); a cut that lasts is closed (strong: the pass closes any row cut for
twice `UMBRAL_CORTE_SEG` whatever the heartbeat says,
`sesiones/energia.service.ts:89-97`). Nothing is assumed of customers, of the
owner, of the relay or of Mercado Pago.

## Pagos

### State

| Variable | In the code |
| --- | --- |
| `mp` | the status Mercado Pago answers (`en_proceso` is any that is neither approved nor in `ESTADOS_DE_REEMBOLSO`) |
| `ref`, `alcanza` | `external_reference`; the amount is enough and the currency ARS: never change |
| `registro`, `revision`, `resolucion` | `Pago.estado`, `requiereRevision`, `resolucion` with `resueltoEn` |
| `destino` | the session or turn as a payment sees it: `espera` (PENDIENTE, ESPERANDO_PAGO), `dado` (ESPERANDO_ENERGIA, ACTIVA; EN_COLA and after), `cerrado` (the rest, SALIDA among them) |
| `hilo` | calls in flight: the await, the payment, the status Mercado Pago gave, the state the resolution read |
| `vales` | vouchers `resolverPagoParaRevision` issued |
| `aplicado`, `sirvio` | history: times `registrarEstadoPago` said "apply it"; the payment activated or queued something |

### Steps

`Webhook` or `Retorno` start a call at any time, any number of times; then one
action per await: `Consultar` (the answer of Mercado Pago, or a failure),
`Buscar` (`procesarPagoVerificado` looks the row up and chooses), `Actualizar` and
`Crear` (the two statements of `registrarEstadoPago`), `Reembolsar`, and the
hand-over: `ActivarLee` and `ActivarConfirma` for a session, `Encolar` for a turn,
`Marcar` when either refuses. `Resolver`, `ResolverReclama`, `ResolverEmite` are the
owner's resolution. `CambiaEnMP` and `CierraDestino` are the surroundings: the
payment moves at Mercado Pago, and a session or turn expires, is cancelled or
ends (`expirarPagoPendiente`, `expirarEsperaPago`, `cerrarYLiberar`) at any moment, which
is more than their own conditions allow. `Reiniciar` drops the calls and keeps the tables.

Reads of what never changes (the session or turn of a reference, its price)
share the step before. The browser's road starts after its query and its check of
the reference, which keep nothing. A refused hand-over of a turn is one
conditional update (`cola/cola.service.ts:281-295`), so it has one step; that of a
session reads, awaits the relay and writes whatever the session is by then
(`sesiones.service.ts:392-462`), so it has two. How a session goes on after it was
given (retries, cuts) is the subject of `Sesiones`. Failures of the database are
left out; a crash can stand for any of them.

### Cobros, and the refinement

`Cobros` says what the service promises without saying how: a payment that was
made is taken once, to be handed over; what it bought is given once, and a turn
to one payment only; a payment that could not be handed over, or was refunded,
enters the owner's list once and leaves it by one resolution; a resolution by
voucher issues one. `Pagos` defines `pagados`, `entrega`, `lista` and `conVale` from its
rows and histories, and `ImplementaCobros` is `Cobros!Spec` under that mapping:
the calls in flight, the status each of them read, repeated and crossing
notifications and restarts are all stutters. The run checks it on the instance
of `pagos_base`; `Implementa` proves it.

### Properties

- `SeAplicaUnaVez`: one call at most applies a payment.
- `AprobadoSirveOSeRevisa`: until the process dies, an approved payment nobody is
  working on served its session or turn, is flagged for review, or is of a
  session another payment paid for. The last case is real: `activarSesion` returns
  an ACTIVA session as if it had activated it, so a second payment of the same
  checkout is neither used nor flagged.
- `DadoEstaPago`: nothing is given without an approved, sufficient payment.
- `UnValePorRevision`: a resolution gives one voucher at most.
- `RevisionPersiste`: a payment leaves the owner's list only when resolved. The list is
  here every row that is flagged and not resolved; the panel shows the newest fifty of
  them (`take`, `pagos.service.ts:540-544`), and an older one when those are resolved.

The exception for crashes is real too: a webhook is answered before it is worked
on (`webhooks.controller.ts:70-75`), and after a crash between `registrarEstadoPago`
and the activation a repeated notification finds the row APROBADO and stops.

## Cola

### State

| Variable | In the code |
| --- | --- |
| `turno`, `sillaDe`, `orden`, `origen` | `Turno.estado`, `sillaId`, `pagadoEn` (its place among the other dates), the voucher in `externalReference` |
| `silla` | `Silla.estado`; AJENA is a chair taken by whoever pays for it directly (PAGO_PENDIENTE, EN_USO) |
| `sesion` | the session `turno-sesion:id`, `cerrada` once it is COMPLETADA or CANCELADA |
| `vale` | `Credito.estado` |
| `timer` | `ColaService.timers`: `pago` (expirarEsperaPago) or `ventana` (expirarVentanaConfirmacion) |
| `hilo`, `arranque`, `reinicios`, `fallas` | calls in flight; the bootstrap and the rows it has read; restarts; calls that threw |
| `cruzada` | history: on this chair a confirmation and an expiry of the same turn both read ASIGNADO, or a confirmation was cut short with its session open |
| `perdido` | history: the close of the session of this turn did not reach the turn |

### Steps

As in `Sesiones`, one action per awaited statement. `intentarAsignar` is the loop
`AsignarTurno` (first turn by date), `AsignarLibres` (a free chair, if one is
online), `AsignarReserva`, `AsignarTurnoASilla` and, if the turn is gone,
`AsignarDevuelve`; the tick, a payment, a voucher, an expired window and the
bootstrap start it, and any number of them overlap. `Confirmar` ... `ConfirmarTurno`
and `VencerLee` ... `VencerLibera` are the two handlers of an assigned turn.
`Canjear` and the two steps after it are `canjearCredito`. A request whose first
query refuses it changes nothing and has no step. `Falla` ends a call at its
await, as an error of the database does; `Reiniciar` ends all of them.

### Abstractions and assumptions

- A session of a turn is ESPERANDO_ENERGIA or ACTIVA until `CierraSesion`; what
  happens in between, SALIDA among it, is the subject of `Sesiones`. So is what the
  owner does to a chair that is still RESERVADA.
- A session closes at any moment after `activarSesion` has written it, the two
  statements before `confirmar` puts the turn EN_USO among them, where only an emergency
  stop can fall: the others come minutes later.
- Whether a chair is online, and the code of a turn, are choices; so is the date a
  voucher stands for, which is a past one. Payments have increasing dates.
- The bootstrap ends before a request or the tick is attended.
- The failure of a preference in `unirse` is a `Cancelar`, which runs the same code.
- `Tardias` says whether payments and cancellations reach a turn that is past
  them. The endpoint does not forbid it. It is TRUE in `cola_base`. In
  `cola_reinicio` it is FALSE, because there a late cancellation clears the timer
  of the confirmation window (line 257), and `TurnoConDespertador` is false: the
  mistake `sesiones_cancelar_tarde` shows for sessions.
- The fifty rounds of `intentarAsignar` are not counted: the tick starts it again.

### Properties

- `UnaSillaUnTurno`: no chair is held by two turns, unless the chair is `cruzada`.
- `ReservadaConDuenio`: a RESERVADA chair belongs to somebody. Stated until a call is
  cut short: after that the chair may stay RESERVADA, and the bootstrap, which
  looks at turns, does not see it.
- `TurnoConDespertador`: a turn that waits has its timer, or a call at work, or the
  bootstrap ahead. Left out: the turn whose session was created before a crash,
  which a second confirmation cannot confirm (its session exists) although it has
  cleared the timer. It says nothing of the relay: a confirmation whose relay does not
  answer ends EN_USO, see the findings (`SinRespuestaSigueAsignado`).
- `SinAdelantos`: turns are assigned in the order they were paid.
- `ValeUnTurno`: a voucher is one turn at most, and one that is spent is a turn
  or in the hands of a call.
- `EnUsoConSesion`: a turn EN_USO has a session that runs or is being closed, through
  restarts, failed calls and closes at any time, unless the close missed the turn
  (`perdido`). There are two ways: the call was cut between the claim of the close and the
  transaction that follows, or it ran before `confirmar` put the turn EN_USO. Such a
  turn stays EN_USO for ever; see the findings (`NingunTurnoPerdido`).
- `IInv`: the inductive invariant of the proofs.

## Rele

### State

| Variable | In the code |
| --- | --- |
| `luz`, `nube`, `rele`, `autoOff` | the premises have power; the cloud takes the device for online; the contact; a `toggle_after` is pending |
| `orden` | the `setRele` calls in flight: in the chain, or waiting outside it after a rate limit; what their handler does next |
| `cadena` | `ShellyService.cadena`: the request in flight and those behind it |
| `latido`, `salud`, `trasComando` | `HeartbeatService.chequear`; the `SaludSilla` of the chair with its age; the age of `ultimoComando` |
| `sesion`, `cortada`, `vence` | the last session of the chair as this code sees it |
| `pasada`, `huerfano` | the pass of EnergiaService and the reading it began with; `huerfanosDesde` |
| `turno` | the `@Interval` callbacks still due in this unit of time |
| `abierto`, `corteFalso` | history: the contact was open since the last ON; a cut was registered though it never was |

### Steps

A command takes its place in the chain (`Pide`), is executed and answered, executed
with its answer lost, refused for its rate or refused for good (`EjecutaYResponde`,
`EjecutaSinRespuesta`, `RateLimit` with `Reintenta`, `Rechaza`), and its handler goes
on (`Concluye`). The heartbeat and the pass are callbacks of a unit of 30 s; a pass
decides on the session with the current reading (`RevisaEspera`, `RevisaCierra`,
`RevisaReanuda`, `RevisaCorte`, `RevisaReleAbierto`, `RevisaOmite`) and sweeps with the
reading it began with (`Lista`, `Barre`, `BarreApaga`).

Abstractions: instants are ages that stop growing when no comparison can tell them
apart; one chair; how long a cut has lasted is a choice; the pass runs as often as
the heartbeat (in the code twice as often); the return pulse is left out, one more
ON and OFF of the same kind. A unit of time that ends with a request unanswered is
one of the faults `MaxFallos` counts.

### Properties

- `CorteVerdadero`: a cut inferred from an open contact is real, because
  `arranqueYaAsentado` keeps out the readings taken before the last command.
- `ActivaRecuperaRele`: a session that goes on with its contact open gets it back,
  whatever opened it: a retried OFF that overtook the ON, the sweep with its old
  list, a cut the cloud never saw, a lost answer.
- `HuerfanoSeApaga`: a contact closed with nobody behind it is opened.

## Reloj and Cortes

`Reloj` is `calcularReloj` with the arithmetic of resumes (`Devolver`), vouchers
(`MinutosDelVale`) and dates of cuts (`inicioDelCorte`, `CorteAlCierre`), in any unit
of time. `Cortes` is one massage on a discrete clock.

### State

| Variable | In the code |
| --- | --- |
| `hora` | `Date.now()`, in units of the 30 s of the heartbeat |
| `luz`, `red`, `rele`, `autoOff` | power and network of the device, its contact, when its `toggle_after` is due |
| `nube`, `desfase`, `api` | what the cloud believes and for how long it has been wrong; it answers at all |
| `salud`, `comando` | `SaludSilla` with its four instants; `ultimoComando` |
| `estado`, `fin`, `interrumpida`, `compensado`, `salidaHasta`, `motivo`, `vale` | the row of the session, and the minutes of its voucher |
| `timer`, `reanuda`, `pulso`, `toca`, `vivo` | the timer of the session with its deadline; `reanudarTrasCorte` and `iniciarRetorno` between their awaits, and for how long the second has waited; callbacks due; the process runs |
| `apagones`, `fallas`, `caidas`, `masaje` | counters of faults; history: the units of current the customer had |

### Steps

In one unit the reading, the pass, the timers and the world come in any order, and `Tic` moves
the clock when everything due has run. `TimerFin` is `finalizarSesion` with
`detectarCorteAlCierre`; `TimerRetorno`, `RetornoEnciende` and `RetornoEscribe` are
`iniciarRetorno` before, at and after the answer of its ON, and `TimerSalida` is `cerrarSalida`;
`PasadaCierra`, `PasadaReanuda`, `PasadaRegistra`, `PasadaReleAbierto` the pass;
`ReanudaEnciende`, `ReanudaReclama`, `ReanudaPrograma` the three statements of a resume; `Cae`
and `Arranca` a restart. A command is accepted or refused at once, but for the ON of the return
pulse, which takes up to `Latencia` units (throttle, chain and retries) because the end of the
exit is dated by its answer; delays and order of the others are the subject of `Rele`. `masaje`
counts the units of current while the session is ACTIVA, the grace for pressing START included.

### Properties

- `ApagaSolo`: a closed contact always has a `toggle_after` pending, no later than a margin
  after the end of the session: a backend that dies leaves no chair on. The margin is exact
  because a resume's ON takes no time here; in the code its `toggle_after` is computed before
  the command (`restanteSeg`) and falls later by its latency. The device is taken to stay off
  when power returns (`initial_state` off).
- `DaLoPagado`: a massage closed as served gave the minutes that were paid, but for
  `PerdidaPorCorte`, what the readings cannot see of each loss of the device, and once for
  `Resto`, the remainder that `cerrarPorCorte` does not turn into a voucher, if a cut ended
  it. An open contact counts from the first reading after the start has settled
  (`Asentado + 1`); a device that is back before the cloud has missed it is read open a unit
  later, and a unit later still by a pass that runs before the reading of its unit (`Demora + 2`). A resume
  gives back the time in the dark, so nothing else is lost.
- `ValePorLoQueFalta`: massage and voucher of a session closed by a cut add up to what was
  paid, but for the same. Both are stated without failures of the cloud and restarts, which
  hide a cut for as long as they last: with three faults TLC finds a cut under a cloud that
  fails after which a short voucher is issued.
- `LiberarNoSube`: the wait the pages announce (`segundosHastaProximaSilla`, which is
  `segundosParaLiberar` of a chair that has its power) goes up only when a cut is compensated,
  or when the return pulse is dated by the answer of its ON, and then by no more than that ON
  took and to no more than the pulse; not when the exit begins, is closed or is stopped. That
  it never goes up is `BajaDeCorrido`, see the findings.
- `TerminaSiempre`: the session ends.

## Pantallas and Vista

`Pantallas` holds what the endpoints answer for given rows (`estadoDeSilla`,
`estadoDeSesion`, `estadoDeTurno`) and the blocks the pages show for an answer
(`exito`, `paginaTurno`, `landing`, `detalle`). `Vista` moves a database under them.

### State

| Variable | In the code |
| --- | --- |
| `historia` | every state the database has had; the rest are indices of it |
| `escritor` | the handler at work: the writes and invalidations it has left |
| `entrada`, `cargas` | `TtlCache.entradas`: the promise each cache holds and its life; what each read has seen, or that it is in flight |
| `pestana` | the kind of page, `document.visibilityState`, `errorConfirmacion` |
| `sondeos`, `timeoutRef`, `vista` | the cycles of the hook, the one whose timer it remembers, its last answer |
| `hace`, `confirmado` | history: the database at the last ticks; the last write of each row by a handler that has ended |

### Steps

Every handler of SesionesService and ColaService that writes what a page shows is a
list of statements in the order of the code, a write or an invalidation each
(`activarSesion`, `cerrarYLiberar` ...), run one at a time by `Paso`. A poll asks the
caches of its endpoint one after the other, joins the read in flight or starts one
(`Pide`, `Lee`, `Recibe`), then sets the state of the hook and its timer (`Aplica`); it may
be refused or told to wait (`Rechaza`). `Oculta` and `Muestra` are the tab losing and
regaining the screen, with what `alCambiarVisibilidad` does about the polls.

### Properties

- `RespuestaVigente`: an answer is not older than its Ttl, nor than a handler that
  had ended when it was asked for (the turn excepted when SesionesService writes it,
  which leaves its cache alone).
- `SeActualizaSola`: a page that stays in view ends up showing the database as it is.
- `ValeALaVista`: the voucher of a cut shows on the page that was open.

## Compra

### State

| Variable | In the code |
| --- | --- |
| `reserva` | the sessions and turns of one address, with the payment each has and how far the backend is with it |
| `candado` | the transaction that holds `pg_advisory_xact_lock` |
| `pedido` | the checkout request of each tab: `iniciarCheckout` or `unirse`, at which await |
| `pagina`, `leido` | the page of each tab; what `rutaSesionActiva` was answered |
| `sesionActiva`, `turnoPendiente` | `localStorage`, shared by the tabs; `sessionStorage`, one for each |
| `retorno` | the confirmation that each return sent |
| `ultima` | history: the last session recorded and not given up |

### Steps

A tab opens on a QR, follows what the browser remembers, or shows the landing
(`Escanear`, `ResponderChequeo`, `SeguirSesion`, `MostrarLanding`); it buys a session or a
turn, whose request runs through the count, the row and the preference
(`ContarSesion`, `ReservarSilla`; `ContarTurno`, `CrearTurno` under the lock;
`crearPreferencia`); it leaves for Mercado Pago and returns, in that tab or in
another one, paid or not (`RegresarConPago`, `RegresarSinPago`). `Notificar`,
`ProcesarRetorno` are the two roads of a payment into the backend, which then delivers
it: a turn in one conditional update (`Encolar`), a session in two steps with the relay
in between (`ActivarLee`, `ActivarConfirma`), the second of which writes without
looking, so that a session cancelled meanwhile is under way again. `ResponderRetorno`
is what the page is told. Answers may be lost, a tab closed or restored. A cancellation
reaches the backend while its page is open (`LlegaCancelacion`) or not at all: one that
arrives later does what the timer of the reservation does (`Vence`).

Abstractions: one address; a pending payment and a rejected one are an open one,
since both go to the same page; what becomes of a reservation after it was
delivered only moves forward (`Avanza`); Turnstile, a chair out of service and a
failed preference are choices.

### Properties

- `TopeDeTurnos`: the cap on unpaid turns holds, however many requests are in flight.
- `SesionRecordada`: while the last session recorded is not over and was not given up
  on its page, it is the one the browser remembers. It excepts a session that was
  cancelled while `activarSesion` waited for the relay: the browser is told it is over,
  forgets it, and the activation brings it back (`registro = "revivida"`).
- `IInv`: the inductive invariant of the proofs.

## Runs

| Run | Instance | Shows |
| --- | --- | --- |
| `sesiones_base` | 1 chair, 2 sessions (one with return pulse, one without), cuts, one restart | the safety properties under payments, expiries, cuts and a crash; 3.06 million states |
| `sesiones_operador` | 2 chairs, 2 sessions, emergency stops, manual activations, late cancellations | `IInv` with the owner and the customer against the timers; 0.95 million states |
| `sesiones_vida` | 1 chair, 1 session with return pulse, cuts, one restart | `SesionTermina` under `Justicia` |
| `sesiones_cancelar_tarde` | 1 chair, 1 session, late cancellation | refutes a comment, see below |
| `pagos_base` | 2 payments of the same session, turn or unknown reference, each of the right amount or not, 2 calls at once, one restart | the safety properties of `Pagos` and that it implements `Cobros`; 2.68 million states |
| `cola_base` | 2 turns, 2 chairs, 1 voucher, 2 calls and the bootstrap's, late payments and cancellations, one call that fails | the safety properties of `Cola` but the two below; 2.43 million states |
| `cola_reinicio` | 2 turns, 2 chairs, 2 calls, one restart and one call that fails | the timers and the turns in use through a bootstrap; 3.73 million states |
| `rele_base` | 1 chair whose device restores its last state, one retry, one fault | that the relay ends up as the sessions say; 0.23 million states |
| `cortes_base` | a massage of three minutes, a cut threshold of two and a half, any two faults | what the customer gets, that the relay opens and the session ends; 1.35 million states |
| `vista_base` | one tab of each kind over each stage of a purchase, one handler, 3 reads, 2 cycles, one failure or hiding | caches, polls and pages; 0.41 million states |
| `compra_base` | 2 tabs, 2 reservations, a cap of 1, 1 chair | the cap and what the browser remembers; 2.41 million states |
| `compra_aviso_falso` | 2 tabs, 1 reservation | refutes a message, see below |

**Sesiones, Pagos, Cola.** Two slots for calls besides those of EnergiaService and of
the bootstrap: enough for a timer against a request while a pass or the bootstrap is
in the middle of its own work, which makes three handlers on one session. One
approved payment per session, one cut, one restart: each is a thing that happens or
does not, and what a second one would meet (a timer already cleared, a cut already
claimed) is already reached by the first with another handler. Two sessions are
needed for one to take the other's chair; with one chair they must meet on it, and
the second chair of `sesiones_operador` is there for the actions that must not reach
another chair. `ExclusivaSalvoRevivida` and `SesionConDespertador` are not checked with
`operador`'s entry points: they do not hold there. `activarManual` puts a session on a
chair that waits for a payment (`sesiones.service.ts:1043` refuses only EN_USO), and a
late cancellation clears a timer that is not its own.

In `pagos_base` payments and slots are symmetric. Two payments meet only at a
destination they share, so they share it; three calls on one payment would add
nothing that two do not, because every decision is a conditional statement that
one call wins and another loses. In the runs of `Cola` turns, chairs and slots are
symmetric. Two turns and two chairs are the least at which two runs of the
assignment can pick the same turn for different chairs, or the same chair for
different turns; a turn that joins by voucher and one that pays make the two orders.
A voucher and late requests with a failure are in `cola_base`; a restart, and a restart
together with a failure, which is what can cut the close of a session on both sides of a
bootstrap, in `cola_reinicio`.

**Rele.** One chair: devices share nothing but the chain. One fault is one command
retried out of order, one answer lost, one slow unit or one cut; with two faults every
property holds as well (about four minutes). One batch of ten devices per reading:
with `Lotes = 2` `CorteVerdadero` fails, see the findings. Deadlock is checked.

**Cortes.** The ratios of the code are kept where a comparison depends on them: the threshold is
shorter than the massage, a fresh reading shorter than the threshold, the grace of a resume and
the remainder that is forgiven a unit each. Two faults of any kind, each of any length: a cut
during a resume, a restart during a cut, a cloud that fails while the power does. The clock
stops at 45 units, after any session with two faults has ended (`TerminaSiempre` would fail
otherwise); the backend is up by unit 12. The ON of the return pulse takes up to a unit
(`Latencia`; the run passes as well with two units, a longer pulse and one fault). `BaseRapida`
is TRUE: a timer does not fire between the last two statements of a resume.

**Vista.** One handler from every stage of a purchase, against every order of its
statements, reads and polls; what handlers do to each other is in `Sesiones` and
`Cola`. Three reads in flight are one more than a poll with two caches needs, two
cycles are what a hiding can leave (`HayLugar`: a tab comes back while there is room for its
cycle); one event is a failed read, a refusal, another
visit or a hiding.

**Compra.** Two tabs are the least that share what the browser remembers, two
reservations the least that can replace one another or exceed a cap of one. Tabs are
symmetric.

`CHECK_DEADLOCK FALSE` in all runs but `rele_base`, because a system whose sessions are
closed, whose tabs are gone and that is not asked for more has stopped, rightly.

**Fairness.** `sesiones_vida`: see [Sesiones](#fairness). `Rele`: requests are answered,
waits and intervals end, the cloud notices the device; nothing of customers, owner or
power. `Cortes`: the event loop runs what is due, the pulse included (a request is answered or
given up), time passes and a backend that fell
is started again; nothing of power, network or cloud. `Vista`: handlers, reads and
requests come to an end and timers fire; nobody has to look, pay or confirm. All of it
is Node's event loop, the deadlines of HTTP requests and the process manager. The
safety of `Pagos`, `Cola` and `Compra` needs none.

Every property of a passing run has a mutant in `PROJECT.json`: a small wrong
version of a mapped definition (a dropped guard, a forgotten row of a set, a
handler that forgets to go on) under which TLC finds that property violated.

## Findings

Two runs keep a disagreement between the code and what the repository says:

- `sesiones_cancelar_tarde`. `expirarPagoPendiente` clears the session's timer
  before it looks at the session (line 1063). A cancellation that arrives after
  the payment clears the end timer of an ACTIVA session, which then has nothing
  to end it until a restart. `pagos/pagos.service.ts:142-144` says it does
  nothing in that case.
- `compra_aviso_falso`. `confirmarRetornoSilla` and `confirmarRetornoTurno` answer "El
  pago fue aprobado, pero la reserva ya venció. Avisá al encargado." whenever the
  reservation has not been delivered by then (`pagos.service.ts:187-191`, `221-225`). If
  the webhook has written the row of the payment and is still awaiting the relay,
  `procesarPagoVerificado` returns at once (256-266) and a customer whose payment is
  good is told that it came too late. A session waiting for power gets the same.

The following were met while modelling. Those that name a property are stated in the
module; putting it in the `.cfg` that is mentioned shows the behaviour.

- `LiberaSoloLaPropia` (`sesiones_cancelar_tarde` with two sessions). `cerrarYLiberar`
  frees the chair whoever holds it (`sesiones.service.ts:975-978`), and line 974 says
  "solo si sigue tomada por ESTA sesion".
- `CorteNuncaCumplido` (`sesiones_base` with one session without pulse). Without a
  return pulse `finalizarSesion` closes an ACTIVA session without looking at the cut
  again (lines 755-760); a cut registered while the OFF is awaited ends as a finished
  massage, without a voucher. Lines 725-727 say such a session is not given for
  finished; the branch with the pulse does check (line 774).
- `ReembolsoALaVista` (`pagos_base`). A refund of a payment the owner had resolved sets
  `requiereRevision` again but leaves `resueltoEn` (`pagos.service.ts:326-333`), and the
  list shows only rows without it (line 542). Lines 38-42 say the owner is to resolve
  it from that list.
- `AprobacionNoSePierde` (`pagos_base`). `registrarEstadoPago` is an update and then an
  insert. A call with an older status that inserts RECHAZADO between the two makes the
  approved call's insert fail on the unique key; it returns false, and the approval
  is dropped until Mercado Pago notifies again. Lines 491-495 call the registration
  atomic against that race.
- `ConfirmaSoloAsignado` (`cola_base`). `confirmar` and `expirarVentanaConfirmacion` both
  read ASIGNADO and write later without a condition (`cola.service.ts:368-401`,
  `414-420`). If they cross, a CANCELADA turn becomes EN_USO with its session on a
  chair that has gone back and may be the next turn's.
- `NingunTurnoPerdido` (`cola_base`, `cola_reinicio`).
  `cerrarYLiberar` claims the session in one statement (`sesiones.service.ts:960`) and
  closes its turn in the transaction after it (973-987), if the turn says EN_USO by then.
  A crash or an error between the two leaves the turn EN_USO for ever, since no bootstrap
  looks at turns EN_USO; so does an emergency stop between the commit of `activarSesion`
  and the `turno.update` of `confirmar` (`cola.service.ts:396-401`), which then writes
  EN_USO on the turn of a closed session. Lines 936-937 of `sesiones.service.ts` name what
  follows as what the close is there to prevent: the customer is "EN_USO" for ever and is
  sent to that screen at every scan.
- `SinRespuestaSigueAsignado` (`cola_base`). "Si esto falla (ej. Shelly no responde), el turno
  queda ASIGNADO sin timer" (`cola.service.ts:392-395`): `activarSesion` does not throw
  when the relay does not answer, it leaves the session in ESPERANDO_ENERGIA and returns
  it (`sesiones.service.ts:427-429`), and the turn becomes EN_USO.
- `BajaDeCorrido` (`cortes_base`). The wait for the chair is "un solo número que baja de
  corrido" (`sesiones/reloj.util.ts:41-46`), but `iniciarRetorno` dates the end of the
  exit by the answer of its ON (`sesiones.service.ts:876-892`), which is later than the
  old end by as long as the command took: the announced wait goes up at the return pulse.
- `LaSesionSigue` (`cortes_base` with `BaseRapida = FALSE`). `reanudarTrasCorte` claims the
  cut, moves the end of the session and only two awaits later replaces its timer
  (`sesiones.service.ts:608-625`); the old timer, if due in between, closes the
  session without the time given back. Lines 546-548 say it goes on.
- `CorteVerdadero` (`rele_base` with `Lotes = 2`). `listarDispositivos` dates the whole
  list when its last batch has answered, so with more than ten devices the reading
  of a chair in the first batch is dated after a command that came between, and
  an open contact from before the ON is taken for a cut. `shelly.service.ts:35-41`
  says `leidoEn` is when the reading was taken.
- `UnaSolaCadena` (`vista_base`). A tab hidden and shown while its poll is in flight
  starts a second chain of polls (`src/frontend/src/hooks/useEstadoSilla.ts:72-88`);
  both go on until the page is left. Harmless but for the traffic, and
  `SeActualizaSola` holds with both.
- `/silla/[id]/exito` falls back on the state of the chair "para cuando no tenemos el
  id" (`page.tsx:42-43`), but does so too while its session has not answered yet (line
  105): with another customer on the chair it says "Pago confirmado" meanwhile.
- The sweep of orphan relays can send an OFF while the ON of a new activation is in
  flight; `energia.service.ts:25-28` counts on the confirmation time to avoid it. The
  pass after it gives the relay back (`ActivaRecuperaRele`).
- `silla/[id]/page.tsx:36-39` says that who scans a QR again is taken to their turn;
  `turnoPendiente` is in `sessionStorage`, and a scan opens a tab without it.
- `pendingUrl` sends a payment that is pending to `/fracaso`, which cancels the
  reservation and says that nothing was charged (`pagos.service.ts:126`); if it is
  approved later it goes to the review list.
- `iniciarCheckout` counts the reservations of an address outside any lock
  (`pagos.service.ts:95`), which `cola.service.ts:200-204` explains and avoids: sessions
  of one address can pass the cap together. `TopeDeTurnos` is about turns.
- A page of a finished session that the browser restores records that session again
  (`Recargar`), and its poll then empties the slot: a newer session is forgotten.
  `SesionRecordada` speaks of the last one recorded, which by then is the old one.

## Proofs

`Sesiones_proofs` (checked with tlapm 1.4.5) proves, for every set of chairs,
sessions and slots, every bound, every set of entry points, and with `BaseRapida`
either way, from the named assumptions of `Sesiones`:

- `TipoCorrecto`: `Spec => []TypeOK`;
- `Invariante`: `Spec => []IInv`;
- `SillaNoAbandonada`: `Spec => []SillaConDuenio`.

`SillaConDuenio` alone is not inductive. A chair EN_USO whose only unfinished
session is PENDIENTE would satisfy it, and the expiry of that session would then
leave the chair EN_USO for ever, because `expirarPagoPendiente` frees only a chair
in PAGO_PENDIENTE. `IInv` says more: a chair EN_USO has a session that is already
paid (`EnMarchaEn`) or a call about to free it whatever it holds (`EnUsoConDuenio`);
a chair PAGO_PENDIENTE has any owner (`PagoPendienteConDuenio`); and what a call,
a timer, a pass or the bootstrap names is a row that exists, with an emergency
stop on the chair of its session (`Coherente`).

The argument:

1. `Coherente` is inductive by itself (`CoherenteInductiva`, from one lemma for
   each group of actions).
2. Most steps are quiet: they keep every chair, keep or advance every session
   within the unfinished states, and take no call away from a chair
   (`Quieto`, lemmas `PasosQuietos`, `PedidosQuietos`, `EnergiaQuieta`,
   `ArranqueQuieto`). A quiet step keeps both owner clauses (`QuietoConserva`).
3. What is left closes a session, claims a chair or frees one. `Entrega` is the
   hand-over: a call that closes a session becomes, in the same step, the call
   that owes its chair. `PasosRuidosos` takes those actions one by one.
4. `IInvInductiva` puts them together; a restart makes the owner clauses vacuous
   (`ReiniciosSoloAlReiniciar` covers the other steps).

`Pagos_proofs` proves all five safety properties of `Pagos` and its type
invariant, for any payments, references, slots and restarts: `TipoCorrecto`,
`AplicadoUnaVez`, `GiradoContraPago`, `UnVale`, `NadaPerdido`, `RevisionResuelta`.
None is inductive alone. The invariant `IInv` of `Pagos` adds:

- `LlamadaCoherente`: what a call in flight knows is still true. An approval it
  read is still an approval or has been refunded; a call that delivers
  (`EnEntrega`) has its row approved and its right to apply used; one about to
  issue a voucher has the resolution it claimed and no voucher yet.
- `FilaCoherente`: a flagged or applied row is approved. So `Actualizar` and
  `Crear`, which write rows that are not, never meet one, and neither applies
  twice nor takes a flag away.
- `UnaEmision`: the call that claimed a resolution is the only one to issue it.
- `DadoPorAlguien`: what is given was given for some payment, which is why a call
  that finds its session ACTIVA leaves a payment that another one doubled.
- `NadaSePierde` (until the first restart): an approval is spent, flagged, doubled,
  or in the hands of a delivering call. It needs the four above: `PasoNoPierde`
  takes the actions one by one, and `SigueCubierto` is the frame of each.

`Cola_proofs` proves, for any finite set of turns, any chairs, vouchers and slots,
any number of restarts and failed calls, and with `Tardias` either way:
`TipoCorrecto`, `ValeGastado` (`Spec => []ValeUnTurno`) and `EnOrden`
(`Spec => SinAdelantos`). The invariant `IInv` of `Cola` adds to them:

- `BienPuesta`: what a call in flight names exists: the turn a run is assigning
  was paid for, a turn being confirmed has a chair, and a call holds a voucher
  exactly while it redeems it.
- `Fechas`: no date is later than now, and a turn that is not paid for has
  neither date nor voucher. So a voucher is never written over another, and a
  turn that enters the queue by a payment is dated after every other.
- `EligeAlPrimero`: the turn that a run of `intentarAsignar` picked some awaits ago
  is, if still in the queue, the first of those that paid. Only redeemed
  vouchers, which carry the date of an older payment, may be inserted before it,
  and `SinAdelantos` does not count them.

Most steps neither date a turn nor spend a voucher (`Avanza`) and change one call
to one that knows the truth (`Cambia`): `AvanzaConserva` is their common proof. The
rest (a payment, the three statements of a voucher, a failure, a restart) are
taken one by one. `EnOrden` follows because only `AsignarTurnoASilla` assigns
(`AsignaSuTurno`).

`Pagos_proofs` also proves `Implementa`, `Spec => ImplementaCobros`: the initial states
map to initial states and every step maps to a step of `Cobros` or to a stutter
(`PasoImplementa`, from one lemma for each kind of step: `PasoMudo`, `PasoQuePaga`,
`PasoQueToma`, `PasoQueDa`, `PasoQueDeriva`). Besides `IInv` it needs `Asentados`,
inductive relative to it: a resolved row is still flagged, a registered approval was
made at Mercado Pago, and what a payment gave is no longer waiting to be given, which
is why a turn is never given twice.

`Compra_proofs` proves, for any tabs, any bound on reservations, any cap and any number
of chairs: `TipoCorrecto`, `CupoRespetado` (`Spec => []TopeDeTurnos`) and `NoSeOlvida`
(`Spec => []SesionRecordada`). What a request and what a reservation may change is said
once each (`PedidoConserva`, `FilaConserva`), and every step is an instance of it. The
invariant `IInv` adds to them:

- `Coherente` and `Tramites`: a page or a request that follows a reservation names one;
  a reservation gets one preference, from the request that made it; only a paid one
  is confirmed.
- `LeidoCierto`: what the landing was answered of a session that is over is still true
  when it acts on it, because nothing but an activation that was already waiting for the
  relay leaves COMPLETADA or CANCELADA. So the slot is emptied only for a session that
  is over or was revived, and `olvidar` compares before it does.
- `CupoReservado`: from its count to its row, the request that holds the lock has room
  for its turn. With it the cap is inductive: `TypeOK` says that only one request is
  between those two steps, and every other step is quiet (`Quieto`: it adds no unpaid
  turn and lets no request past its count).

`SesionesClientes_proofs` proves the rest of the safety of `Sesiones`, what the customer sees:
`MasajeOVale`, `NingunPagoPerdido`, `UnClientePorSilla`, `CorteComoCorte` and `NadieOlvidado`.
Most steps only move a call from one await to the next (`Callada`); the others are taken one
by one for each invariant. What is added to each property:

- `MasajeOVale` (`CierreUnico`), which speaks of sessions that were not revived: such a
  session has one call at most that closed it, the one that won the conditional update, and
  only that call may still issue its voucher.
- `NingunPagoPerdido` (`PagoAtendido`, `PagoConEnlace`): a paid session that is still
  PENDIENTE has a call activating it; a paid one that is CANCELADA has its voucher, its
  reason, its flag, or a call in flight that is not done with it.
- `UnClientePorSilla` (no operator's entry point; `UnDuenio`): a chair has one owner at most,
  an unfinished session, or the call that will create it or free the chair.
- `CorteComoCorte` (`MaxPagos <= 1`; `UnaActivacion`, `PasadaUnica`, `CierraConRetorno`): one
  activation of a session is in flight at a time and none once the massage has begun; the pass
  works on one row of it; a session with a return pulse is never closed straight from the
  massage.
- `NadieOlvidado` (`MaxPagos <= 1`, `BaseRapida`, `"cancelar"` not among the `Entradas`): with
  those, a call past its check of the session still finds it begun (`PasoVigente`), a cut the
  pass or `cerrarPorCorte` has read is still open (`CorteAlDia`), and the bootstrap works
  alone (`ArranqueVigente`). So a call that clears a timer is the one that will arm the next.

The hypotheses are not for convenience: without each of them TLC shows the property
violated. A second payment of a session whose pass read ESPERANDO_ENERGIA activates it, and the
pass then clears the timer of the end; so does the last statement of a call that was overtaken, if
statements may take longer than a relay command; a late cancellation is the finding
`sesiones_cancelar_tarde`; a manual activation takes a chair that waits for a payment. A second
payment may also take a session in a cut back to ESPERANDO_ENERGIA, from where it ends as one
that had no power.

`Cola_proofs` also proves what keeps turns and chairs together, as invariants on top of `IInv`, each
stated for one turn or one chair: `NadieSigueSentado` (`Vida` and `Uso`), `ReservadaConAlguien`
(`UnDuenio`), `UnTurnoPorSilla` (`UnVencimiento`, `SinCruce`, `UnDuenio`) and `NadieEsperaEnVano`
(`Despertador`). `UnDuenio` is the heart of it: a chair that is taken has one owner, a turn, the run
that reserved it (which won a conditional update) or the call that is about to give it back, as
long as the chair is not `cruzada`. `PasoDeLaCola` separates the steps that touch a chair, or a
turn that has one, from the others. `NadieEsperaEnVano` assumes `~Tardias`: a late payment or
cancellation clears the timer of the window.

`Rele_proofs` proves `TipoCorrecto` and `CorteEsVerdad`, with `Lotes = 1` (with two batches it
is false, see the findings). `CorteVerdadero` needs `LecturaVerdadera`, that a reading later
than the last command does not contradict the contact, which an ON whose answer is lost would
break, were it not that its session is then waiting for power or has its cut open
(`ReanudaCortada`).

`Cortes_proofs` proves `TipoCorrecto`, `SeApagaSolo` and `EsperaNoSube` for any times and any
number of cuts, failures and restarts, with `BaseRapida` either way; and, with `BaseRapida`,
`ServidoEsPagado` (`DaLoPagado`) and `ValeEsLoQueFalta` (`ValePorLoQueFalta`) for any times and
any number, length and order of cuts. `ApagaSolo` needs `FinProgramado` (the timer of a session
that runs is set for its end), `LecturasPasadas` and `CorteAntesDelFin`: a resume asks for its
`toggle_after` before it claims the cut, with an end computed from the instant of the cut, which
has to lie before the end it replaces. It assumes that `GRACIA_REINICIO_SEG` is not zero
(`TiemposAssumption`); a resume without grace could ask for an ON of no time at all.
`EsperaNoSube` rests on `PulsoBien`: from the moment the ON of the pulse is asked for until the
pulse is dated, the end of the exit that is on record is short of a whole pulse by no more than
the ON has taken.

The last two speak of a session that is over. Their invariant (`Cuenta`) keeps the accounts
of the one that runs (`CuentaAbierta`): the units in the dark (`oscuro`) are paid by what the
resumes gave back, by the cut that is registered, and by what is forgiven of each loss
(`credito`). It is not inductive without two more facts. While the session is in the dark and
nobody has noted it, what is forgiven of that loss is not used up yet (`SinNotar`): it has
lasted no longer than the cloud has not answered, than the last reading that took the contact
for closed allows, and than the last order. And between the ON of a resume and its claim
(`ReanudaPaga`) the end it computed is ahead and the relay stays on until then, or a second
loss has its own credit. From the source they assume two things of the times
(`TiemposAssumption`): a reading is not stale at once (`Fresca` is not zero: three minutes
against a heartbeat of 30 seconds) and a turn is a whole number of minutes (`duracionMin`),
without which a voucher in minutes would round the difference away. The hypothesis
`BaseRapida` is the environment's, as in the runs.

`Vista_proofs` proves `TipoCorrecto` and `NadaViejo` (`Spec => []RespuestaVigente`), for any
lifetime of the caches, any polling interval, any number of handlers, reads and cycles. An
answer that leaves carries nothing that makes it recent, so the invariant follows it back: a
request waits for a read that is still to be done or has seen enough (`Sondeos`); it took it
from a cache that holds only such reads (`Entradas`); that is so because every handler clears,
in a later step, each cache it has written behind (`Escritor`, one lemma for each handler); and
an entry has lived as many ticks as its read can be old (`Historia`). With the invalidations of
`activarSesion` moved before its writes the lemma of that handler is the one that fails.

Only model-checked: the liveness properties
`SesionTermina`, `ActivaRecuperaRele`, `HuerfanoSeApaga`, `TerminaSiempre`, `SeActualizaSola`,
`ValeALaVista`, which under fairness are beyond the prover.

## What is not modelled

- The admin panel: CRUD of chairs and prices, listings, login and the token version.
  What the owner does to sessions, chairs and payments is in `Sesiones`, `Rele` and
  `Pagos`.
- The lockouts of login and of redemption: counters in memory that gate two endpoints
  and touch nothing of the lending.
- The HTTP layer: validation, CORS, request throttling (a library), startup checks;
  Turnstile is a refusal in `Compra`.
- Signatures of notifications, parsing, titles, prices and URLs of Mercado Pago.
- The estimate of the wait of the queue, codes of vouchers and turns, the layout of the
  pages.
- `esperarConfirmacion`, which nothing calls.
- Failures of the database other than those a crash can stand for.

`PROJECT.json` lists every part with its status, and under `hazards` what is hard to
test in this code, each at its line, with the property that covers it or the reason why
none does.
