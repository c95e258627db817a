----------------------------- MODULE Rele_proofs -----------------------------
(***************************************************************************)
(* What TLAPS proves of Rele for any times, retries, faults and entry      *)
(* points:                                                                 *)
(*                                                                         *)
(*   TipoCorrecto     every variable has its type: no command is retried   *)
(*                    more than Reintentos times, no age passes its limit; *)
(*   CorteEsVerdad    while one request reads every chair, a cut inferred  *)
(*                    from an open contact is a real one.                  *)
(*                                                                         *)
(* CorteVerdadero is not inductive.  It needs that a reading later than    *)
(* the last command does not contradict the contact (LecturaVerdadera),    *)
(* which an ON whose answer is lost would break, were it not that the      *)
(* session is then waiting for its power or has its cut open               *)
(* (ReanudaCortada).                                                       *)
(***************************************************************************)
EXTENDS Rele, TLAPS

\* The contact cannot have been closed all along without power, nor open now.
SinContacto == ~luz \/ ~rele => abierto

\* Only "enciende" turns a session on, and a command that waits has a retry left.
OrdenCoherente ==
    /\ orden["enciende"].para \in {"nada", "activar", "reanudar"}
    /\ \A q \in Quienes \ {"enciende"} : orden[q].para \notin {"activar", "reanudar"}
    /\ \A q \in Quienes : orden[q].paso = "pausa" => orden[q].intento < Reintentos

\* While a resume is in flight, the cut it resumes from is registered.
ReanudaCortada == orden["enciende"].para = "reanudar" /\ sesion = "ACTIVA" => cortada

\* With one request in each reading nothing is kept from one to the next.
LecturaUnica == Lotes = 1 => ~latido.online

\* What the pass would take for a cut is one.
LecturaVerdadera ==
    Lotes = 1 /\ Abierta /\ salud.posterior /\ salud.online /\ ~salud.rele => abierto

CorteSiUnLote == Lotes = 1 => CorteVerdadero

IInv ==
    /\ TypeOK /\ SinContacto /\ OrdenCoherente /\ ReanudaCortada
    /\ LecturaUnica /\ LecturaVerdadera /\ CorteSiUnLote

USE TiemposAssumption, ReintentosAssumption, LotesAssumption, RestauraAssumption,
    EventosAssumption, FallosAssumption
    DEF TiemposAssumption, ReintentosAssumption, LotesAssumption, RestauraAssumption,
        EventosAssumption, FallosAssumption

-----------------------------------------------------------------------------
(* Types.                                                                  *)

TipoPedidos == orden \in [Quienes -> Orden] /\ cadena \in Seq(Pedidos)
TipoFila ==
    sesion \in ConSesion \cup {"LIBRE", "PENDIENTE"} /\ cortada \in BOOLEAN /\ vence \in BOOLEAN
TipoAparato == luz \in BOOLEAN /\ nube \in BOOLEAN /\ rele \in BOOLEAN /\ autoOff \in BOOLEAN
TipoHistoria == abierto \in BOOLEAN /\ corteFalso \in BOOLEAN

LEMMA Partes ==
    TypeOK <=> /\ TipoAparato /\ TipoPedidos /\ TipoFila /\ TipoHistoria
               /\ latido \in Latido /\ salud \in Salud
               /\ trasComando \in 0..Asentado + 1
               /\ pasada \in Pasada /\ huerfano \in 0..Confirma + 1
               /\ turno \subseteq {"latido", "pasada"} /\ fallos \in 0..MaxFallos
BY DEF TypeOK, TipoAparato, TipoPedidos, TipoFila, TipoHistoria

LEMMA PartesPrima ==
    TypeOK' <=> /\ TipoAparato' /\ TipoPedidos' /\ TipoFila' /\ TipoHistoria'
                /\ latido' \in Latido /\ salud' \in Salud
                /\ trasComando' \in 0..Asentado + 1
                /\ pasada' \in Pasada /\ huerfano' \in 0..Confirma + 1
                /\ turno' \subseteq {"latido", "pasada"} /\ fallos' \in 0..MaxFallos
BY DEF TypeOK, TipoAparato, TipoPedidos, TipoFila, TipoHistoria

LEMMA LibresTipo ==
    /\ SinOrden \in Orden /\ SinOrden.paso = "libre" /\ SinOrden.para = "nada"
    /\ SinSalud \in Salud /\ PasadaLibre \in Pasada
    /\ LatidoLibre \in Latido /\ LatidoLibre.online = FALSE
<1>1. SinOrden \in Orden /\ SinOrden.paso = "libre" /\ SinOrden.para = "nada"
  BY DEF SinOrden, Orden, Pasos, Fines
<1>2. SinSalud \in Salud
  BY DEF SinSalud, Salud
<1>3. PasadaLibre \in Pasada
  BY <1>2 DEF PasadaLibre, Pasada
<1>4. LatidoLibre \in Latido /\ LatidoLibre.online = FALSE
  BY DEF LatidoLibre, Latido
<1> QED BY <1>1, <1>2, <1>3, <1>4

\* A command enters the chain.
LEMMA PideTipo ==
    ASSUME TipoPedidos, OrdenCoherente, NEW q \in Quienes, NEW para \in Fines, Pide(q, para),
           para \in {"activar", "reanudar"} <=> q = "enciende"
    PROVE  TipoPedidos' /\ OrdenCoherente'
<1> DEFINE o == [paso |-> "cola", para |-> para, intento |-> 0]
<1>1. o \in Orden /\ o.paso = "cola" /\ o.para = para
  BY DEF Orden, Pasos
<1>2. orden' = [orden EXCEPT ![q] = o] /\ cadena' = Append(cadena, q)
  BY DEF Pide
<1> HIDE DEF o
<1>3. TipoPedidos'
  <2>1. q \in Pedidos
    BY DEF Pedidos
  <2> QED BY <1>1, <1>2, <2>1 DEF TipoPedidos
<1>4. \A r \in Quienes : orden'[r] = IF r = q THEN o ELSE orden[r]
  BY <1>2 DEF TipoPedidos
<1>5. "enciende" \in Quienes
  BY DEF Quienes
<1> QED BY <1>1, <1>3, <1>4, <1>5 DEF OrdenCoherente

\* The answer of the one in flight: the chain moves on.
LEMMA SaleTipo ==
    ASSUME TipoPedidos, NEW p, EnVuelo(p)
    PROVE  Tail(cadena) \in Seq(Pedidos)
BY DEF TipoPedidos, EnVuelo

LEMMA ConcluyeTipo ==
    ASSUME TipoFila, NEW para \in Fines, NEW ok \in BOOLEAN, Concluye(para, ok)
    PROVE  TipoFila'
BY DEF Concluye, TipoFila, ConSesion, QuedaLibre, fila

\* The command of q is over, for its handler and for the pass.
LEMMA VuelveTipo ==
    ASSUME TypeOK, OrdenCoherente, NEW q \in Quienes, NEW ok \in BOOLEAN, EnVuelo(q), Vuelve(q, ok)
    PROVE  /\ TipoPedidos' /\ OrdenCoherente' /\ TipoFila'
           /\ pasada' \in Pasada /\ huerfano' \in 0..Confirma + 1
           /\ orden' = [orden EXCEPT ![q] = SinOrden]
<1>1. TipoPedidos /\ TipoFila /\ pasada \in Pasada /\ huerfano \in 0..Confirma + 1
  BY Partes
<1>2. orden' = [orden EXCEPT ![q] = SinOrden] /\ cadena' = Tail(cadena)
  BY DEF Vuelve
<1>3. TipoPedidos'
  BY <1>1, <1>2, SaleTipo, LibresTipo DEF TipoPedidos
<1>4. OrdenCoherente'
  <2>1. \A r \in Quienes : orden'[r] = IF r = q THEN SinOrden ELSE orden[r]
    BY <1>1, <1>2 DEF TipoPedidos
  <2>2. "enciende" \in Quienes
    BY DEF Quienes
  <2> QED BY <2>1, <2>2, LibresTipo DEF OrdenCoherente
<1>5. TipoFila'
  <2>1. orden[q].para \in Fines
    BY <1>1 DEF TipoPedidos, Orden
  <2> QED BY <1>1, <2>1, ConcluyeTipo DEF Vuelve
<1>6. pasada' \in Pasada
  BY <1>1, LibresTipo DEF Vuelve, Pasada
<1>7. huerfano' \in 0..Confirma + 1
  BY <1>1 DEF Vuelve
<1> QED BY <1>2, <1>3, <1>4, <1>5, <1>6, <1>7

\* The pass begins with a copy of the reading.
LEMMA EmpiezaTipo ==
    ASSUME TypeOK, NEW pc \in {"libre", "enciende", "apaga", "lista"}, EmpiezaPasada(pc)
    PROVE  pasada' \in Pasada /\ turno' \subseteq {"latido", "pasada"}
BY LibresTipo DEF TypeOK, EmpiezaPasada, Pasada

LEMMA AceptadoTipo ==
    ASSUME TypeOK, Aceptado
    PROVE  salud' \in Salud /\ trasComando' \in 0..Asentado + 1 /\ salud'.posterior = FALSE
<1>1. salud \in Salud
  BY Partes
<1>2. salud' = [salud EXCEPT !.posterior = FALSE] /\ trasComando' = 0
  BY DEF Aceptado
<1>3. [salud EXCEPT !.posterior = FALSE] \in Salud
  BY <1>1 DEF Salud
<1>4. [salud EXCEPT !.posterior = FALSE].posterior = FALSE
  BY <1>1 DEF Salud
<1>5. 0 \in 0..Asentado + 1
  OBVIOUS
<1> QED BY <1>2, <1>3, <1>4, <1>5

LEMMA EnvejeceTipo ==
    ASSUME NEW s \in Salud
    PROVE  /\ Envejece(s) \in Salud
           /\ Envejece(s).online = s.online /\ Envejece(s).rele = s.rele
           /\ Envejece(s).posterior = s.posterior
BY DEF Envejece, Salud

LEMMA ObedeceTipo ==
    ASSUME TipoAparato, TipoHistoria, NEW q \in Quienes, Obedece(q),
           UNCHANGED <<luz, nube, corteFalso>>
    PROVE  TipoAparato' /\ TipoHistoria'
<1> (q = "enciende") \in BOOLEAN /\ (q # "enciende") \in BOOLEAN
  OBVIOUS
<1> QED BY DEF TipoAparato, TipoHistoria, Obedece

-----------------------------------------------------------------------------
(* Every step keeps the types.                                             *)

LEMMA TipoResponde ==
    ASSUME TypeOK, OrdenCoherente, Responde
    PROVE  TypeOK' /\ OrdenCoherente'
<1> PICK q \in Quienes : EjecutaYResponde(q) \/ EjecutaSinRespuesta(q) \/ Rechaza(q)
  BY DEF Responde
<1> USE Partes, PartesPrima
<1>1. CASE EjecutaYResponde(q)
  <2>1. EnVuelo(q) /\ Vuelve(q, TRUE) /\ Obedece(q) /\ Aceptado
    BY <1>1 DEF EjecutaYResponde
  <2>2. UNCHANGED <<luz, nube, latido, turno, corteFalso, fallos>>
    BY <1>1 DEF EjecutaYResponde, Vuelve
  <2> QED BY <2>1, <2>2, VuelveTipo, ObedeceTipo, AceptadoTipo
<1>2. CASE EjecutaSinRespuesta(q)
  <2>1. EnVuelo(q) /\ Vuelve(q, FALSE) /\ Obedece(q) /\ fallos < MaxFallos /\ fallos' = fallos + 1
    BY <1>2 DEF EjecutaSinRespuesta
  <2>2. UNCHANGED <<luz, nube, latido, turno, corteFalso, salud, trasComando>>
    BY <1>2 DEF EjecutaSinRespuesta, Vuelve
  <2>3. fallos' \in 0..MaxFallos
    BY <2>1
  <2> QED BY <2>1, <2>2, <2>3, VuelveTipo, ObedeceTipo
<1>3. CASE Rechaza(q)
  <2>1. EnVuelo(q) /\ Vuelve(q, FALSE)
    BY <1>3 DEF Rechaza
  <2>2. UNCHANGED <<luz, nube, rele, autoOff, abierto, latido, turno, corteFalso, salud,
                    trasComando>>
    BY <1>3 DEF Rechaza, Vuelve
  <2>3. fallos' \in 0..MaxFallos
    BY <1>3 DEF Rechaza
  <2>4. TipoAparato' /\ TipoHistoria'
    BY <2>2 DEF TipoAparato, TipoHistoria
  <2> QED BY <2>1, <2>2, <2>3, <2>4, VuelveTipo
<1> QED BY <1>1, <1>2, <1>3

\* The retry after a rate limit: it enters the chain again, one attempt later.
LEMMA TipoReintentos ==
    ASSUME TypeOK, OrdenCoherente, NEW q \in Quienes, RateLimit(q) \/ Reintenta(q)
    PROVE  TypeOK' /\ OrdenCoherente'
<1> USE Partes, PartesPrima
<1>1. "enciende" \in Quienes /\ q \in Pedidos
  BY DEF Quienes, Pedidos
<1>2. orden[q] \in Orden /\ orden[q].intento \in 0..Reintentos
  BY DEF TipoPedidos, Orden
<1>3. CASE RateLimit(q)
  <2> DEFINE o == [orden[q] EXCEPT !.paso = "pausa"]
  <2>1. o \in Orden /\ o.para = orden[q].para /\ o.intento = orden[q].intento
    BY <1>2 DEF Orden, Pasos
  <2>2. orden' = [orden EXCEPT ![q] = o] /\ cadena' = Tail(cadena) /\ EnVuelo(q)
        /\ orden[q].intento < Reintentos
    BY <1>3 DEF RateLimit
  <2> HIDE DEF o
  <2>3. TipoPedidos'
    BY <2>1, <2>2, SaleTipo DEF TipoPedidos
  <2>4. \A r \in Quienes : orden'[r] = IF r = q THEN o ELSE orden[r]
    BY <2>2 DEF TipoPedidos
  <2>5. OrdenCoherente'
    BY <1>1, <2>1, <2>2, <2>4 DEF OrdenCoherente
  <2>6. fallos' \in 0..MaxFallos
    BY <1>3 DEF RateLimit
  <2>7. UNCHANGED <<aparato, latido, salud, trasComando, fila, pasada, huerfano, turno, historia>>
    BY <1>3 DEF RateLimit
  <2> QED BY <2>3, <2>5, <2>6, <2>7
          DEF aparato, fila, historia, TipoAparato, TipoFila, TipoHistoria
<1>4. CASE Reintenta(q)
  <2> DEFINE o == [orden[q] EXCEPT !.paso = "cola", !.intento = @ + 1]
  <2>1. orden[q].intento + 1 \in 0..Reintentos
    BY <1>2, <1>4 DEF Reintenta, OrdenCoherente
  <2>2. o \in Orden /\ o.para = orden[q].para /\ o.paso = "cola"
    BY <1>2, <2>1 DEF Orden, Pasos
  <2>3. orden' = [orden EXCEPT ![q] = o] /\ cadena' = Append(cadena, q)
    BY <1>4 DEF Reintenta
  <2> HIDE DEF o
  <2>4. TipoPedidos'
    BY <1>1, <2>2, <2>3 DEF TipoPedidos
  <2>5. \A r \in Quienes : orden'[r] = IF r = q THEN o ELSE orden[r]
    BY <2>3 DEF TipoPedidos
  <2>6. OrdenCoherente'
    BY <1>1, <2>2, <2>5 DEF OrdenCoherente
  <2>7. UNCHANGED <<aparato, latido, salud, trasComando, fila, pasada, huerfano, turno,
                    fallos, historia>>
    BY <1>4 DEF Reintenta
  <2> QED BY <2>4, <2>6, <2>7 DEF aparato, fila, historia, TipoAparato, TipoFila, TipoHistoria
<1> QED BY <1>3, <1>4

LEMMA TipoHeartbeat ==
    ASSUME TypeOK, OrdenCoherente, Heartbeat
    PROVE  TypeOK' /\ OrdenCoherente'
<1> USE Partes, PartesPrima
<1>1. "lectura" \in Pedidos
  BY DEF Pedidos
<1>2. OrdenCoherente' /\ orden' = orden
  BY DEF Heartbeat, Latir, Lee, LeeFalla, OrdenCoherente
<1>3. CASE Latir
  <2>1. latido' \in Latido
    BY <1>3 DEF Latir, Latido
  <2>2. TipoPedidos' /\ turno' \subseteq {"latido", "pasada"}
    BY <1>1, <1>3 DEF Latir, TipoPedidos
  <2>3. UNCHANGED <<aparato, salud, trasComando, fila, pasada, huerfano, fallos, historia>>
    BY <1>3 DEF Latir
  <2> QED BY <1>2, <2>1, <2>2, <2>3
          DEF aparato, fila, historia, TipoAparato, TipoFila, TipoHistoria
<1>4. CASE Lee
  <2> DEFINE dato == IF latido.pc = "lote1" THEN [online |-> nube, rele |-> rele]
                     ELSE [online |-> latido.online, rele |-> latido.rele]
             lote2 == [pc |-> "lote2", online |-> dato.online, rele |-> dato.rele]
             lectura == [hay |-> TRUE, online |-> dato.online, rele |-> dato.rele,
                         edad |-> 0, posterior |-> TRUE]
  <2>1. dato.online \in BOOLEAN /\ dato.rele \in BOOLEAN
    BY DEF TipoAparato, Latido
  <2>2. lote2 \in Latido /\ lectura \in Salud
    BY <2>1 DEF Latido, Salud
  <2>3. \/ latido' = lote2 /\ cadena' = Append(Tail(cadena), "lectura") /\ salud' = salud
        \/ latido' = LatidoLibre /\ cadena' = Tail(cadena) /\ salud' = lectura
    BY <1>4 DEF Lee
  <2>4. Tail(cadena) \in Seq(Pedidos)
    BY <1>4, SaleTipo DEF Lee
  <2> HIDE DEF lote2, lectura, dato
  <2>5. TipoPedidos' /\ latido' \in Latido /\ salud' \in Salud
    <3>1. latido' \in Latido /\ salud' \in Salud
      BY <2>2, <2>3, LibresTipo
    <3>2. Append(Tail(cadena), "lectura") \in Seq(Pedidos)
      BY <1>1, <2>4
    <3>3. cadena' \in Seq(Pedidos)
      BY <2>3, <2>4, <3>2
    <3> QED BY <1>2, <3>1, <3>3 DEF TipoPedidos
  <2>6. UNCHANGED <<aparato, trasComando, fila, pasada, huerfano, turno, fallos, historia>>
    BY <1>4 DEF Lee
  <2> QED BY <1>2, <2>5, <2>6 DEF aparato, fila, historia, TipoAparato, TipoFila, TipoHistoria
<1>5. CASE LeeFalla
  <2>1. TipoPedidos' /\ latido' \in Latido
    BY <1>2, <1>5, SaleTipo, LibresTipo DEF LeeFalla, TipoPedidos
  <2>2. fallos' \in 0..MaxFallos
    BY <1>5 DEF LeeFalla
  <2>3. UNCHANGED <<aparato, salud, trasComando, fila, pasada, huerfano, turno, historia>>
    BY <1>5 DEF LeeFalla
  <2> QED BY <1>2, <2>1, <2>2, <2>3
          DEF aparato, fila, historia, TipoAparato, TipoFila, TipoHistoria
<1> QED BY <1>3, <1>4, <1>5 DEF Heartbeat

\* The first half of the pass: what it decides about the session.
LEMMA TipoRevisa ==
    ASSUME TypeOK, OrdenCoherente, Revisa
    PROVE  TypeOK' /\ OrdenCoherente'
<1> USE Partes, PartesPrima
<1>1. {"activar", "reanudar", "corte"} \subseteq Fines /\ {"enciende", "apaga"} \subseteq Quienes
  BY DEF Fines, Quienes
<1>2. UNCHANGED <<aparato, latido, salud, trasComando, huerfano, fallos, sesion, vence, abierto>>
  BY DEF Revisa, RevisaOmite, RevisaEspera, RevisaCierra, RevisaReanuda, RevisaCorte,
         RevisaReleAbierto, fila, historia
<1>3. pasada' \in Pasada /\ turno' \subseteq {"latido", "pasada"}
  <2>1. PICK pc \in {"libre", "enciende", "apaga", "lista"} : EmpiezaPasada(pc)
    BY DEF Revisa, RevisaOmite, RevisaEspera, RevisaCierra, RevisaReanuda, RevisaCorte,
           RevisaReleAbierto
  <2> QED BY <2>1, EmpiezaTipo
<1>4. TipoFila'
  BY <1>2 DEF Revisa, RevisaOmite, RevisaEspera, RevisaCierra, RevisaReanuda, RevisaCorte,
              RevisaReleAbierto, fila, TipoFila
<1>5. TipoHistoria'
  <2>1. (corteFalso \/ ~abierto) \in BOOLEAN
    BY DEF TipoHistoria
  <2>2. corteFalso' = corteFalso \/ corteFalso' = (corteFalso \/ ~abierto)
    BY DEF Revisa, RevisaOmite, RevisaEspera, RevisaCierra, RevisaReanuda, RevisaCorte,
           RevisaReleAbierto, historia
  <2> QED BY <1>2, <2>1, <2>2 DEF TipoHistoria
<1>6. TipoPedidos' /\ OrdenCoherente'
  <2>1. CASE RevisaOmite \/ RevisaCorte
    BY <2>1 DEF RevisaOmite, RevisaCorte, pedidos, TipoPedidos, OrdenCoherente
  <2>2. CASE RevisaEspera \/ RevisaReanuda \/ RevisaReleAbierto
    <3>1. PICK para \in {"activar", "reanudar"} : Pide("enciende", para)
      BY <2>2 DEF RevisaEspera, RevisaReanuda, RevisaReleAbierto
    <3> QED BY <1>1, <3>1, PideTipo
  <2>3. CASE RevisaCierra
    <3>1. Pide("apaga", "corte")
      BY <2>3 DEF RevisaCierra
    <3> QED BY <1>1, <3>1, PideTipo
  <2> QED BY <2>1, <2>2, <2>3 DEF Revisa
<1> QED BY <1>2, <1>3, <1>4, <1>5, <1>6 DEF aparato, TipoAparato

\* The second half of the pass, and the callbacks that find it running.
LEMMA TipoBarrido ==
    ASSUME TypeOK, OrdenCoherente, Barrido \/ Omite
    PROVE  TypeOK' /\ OrdenCoherente'
<1> USE Partes, PartesPrima
<1>1. UNCHANGED <<aparato, latido, salud, trasComando, fila, fallos, historia>>
  BY DEF Barrido, Lista, Barre, BarreApaga, Omite
<1>2. pasada' \in Pasada
  <2>1. (sesion \in ConSesion) \in BOOLEAN
    OBVIOUS
  <2> QED BY <2>1, LibresTipo DEF Barrido, Lista, Barre, BarreApaga, Omite, Pasada
<1>3. huerfano' \in 0..Confirma + 1
  BY DEF Barrido, Lista, Barre, BarreApaga, Omite
<1>4. turno' \subseteq {"latido", "pasada"}
  BY DEF Barrido, Lista, Barre, BarreApaga, Omite
<1>5. TipoPedidos' /\ OrdenCoherente'
  <2>1. CASE BarreApaga
    <3>1. Pide("barrido", "barrido") /\ "barrido" \in Quienes /\ "barrido" \in Fines
      BY <2>1 DEF BarreApaga, Quienes, Fines
    <3> QED BY <3>1, PideTipo
  <2>2. CASE Lista \/ Barre \/ Omite
    BY <2>2 DEF Lista, Barre, Omite, pedidos, TipoPedidos, OrdenCoherente
  <2> QED BY <2>1, <2>2 DEF Barrido
<1> QED BY <1>1, <1>2, <1>3, <1>4, <1>5
        DEF aparato, fila, historia, TipoAparato, TipoFila, TipoHistoria

LEMMA TipoCliente ==
    ASSUME TypeOK, OrdenCoherente, Cliente
    PROVE  TypeOK' /\ OrdenCoherente'
<1> USE Partes, PartesPrima
<1>1. UNCHANGED <<aparato, latido, salud, trasComando, pasada, huerfano, turno, fallos, historia>>
  BY DEF Cliente, Reserva, Paga, Expira, Vence, Finaliza, Parada
<1>2. TipoFila'
  BY DEF Cliente, Reserva, Paga, Expira, Vence, Finaliza, Parada, fila, TipoFila, QuedaLibre
<1>3. TipoPedidos' /\ OrdenCoherente'
  <2>1. /\ {"activar", "fin", "parada"} \subseteq Fines
        /\ {"enciende", "apaga", "parada"} \subseteq Quienes
    BY DEF Fines, Quienes
  <2>2. CASE Paga
    <3>1. Pide("enciende", "activar")
      BY <2>2 DEF Paga
    <3> QED BY <2>1, <3>1, PideTipo
  <2>3. CASE Finaliza
    <3>1. Pide("apaga", "fin")
      BY <2>3 DEF Finaliza
    <3> QED BY <2>1, <3>1, PideTipo
  <2>4. CASE Parada
    <3>1. Pide("parada", "parada")
      BY <2>4 DEF Parada
    <3> QED BY <2>1, <3>1, PideTipo
  <2>5. CASE Reserva \/ Expira \/ Vence
    BY <2>5 DEF Reserva, Expira, Vence, pedidos, TipoPedidos, OrdenCoherente
  <2> QED BY <2>2, <2>3, <2>4, <2>5 DEF Cliente
<1> QED BY <1>1, <1>2, <1>3 DEF aparato, historia, TipoAparato, TipoHistoria

LEMMA TipoLocal ==
    ASSUME TypeOK, OrdenCoherente, Local
    PROVE  TypeOK' /\ OrdenCoherente'
<1> USE Partes, PartesPrima
<1>1. UNCHANGED <<pedidos, latido, salud, trasComando, fila, pasada, huerfano, turno, corteFalso>>
  BY DEF Local, CortaLuz, VuelveLuz, NubeVe, AutoOff, historia
<1>2. fallos' \in 0..MaxFallos
  BY DEF Local, CortaLuz, VuelveLuz, NubeVe, AutoOff
<1>3. TipoHistoria'
  BY <1>1 DEF Local, CortaLuz, VuelveLuz, NubeVe, AutoOff, historia, TipoHistoria
<1>4. TipoAparato'
  <2>1. (Restaura /\ rele) \in BOOLEAN
    BY DEF TipoAparato
  <2> QED BY <2>1 DEF Local, CortaLuz, VuelveLuz, NubeVe, AutoOff, TipoAparato
<1> QED BY <1>1, <1>2, <1>3, <1>4 DEF pedidos, fila, TipoPedidos, TipoFila, OrdenCoherente

LEMMA TipoTic ==
    ASSUME TypeOK, OrdenCoherente, Tic
    PROVE  TypeOK' /\ OrdenCoherente'
<1> USE Partes, PartesPrima
<1>1. UNCHANGED <<aparato, pedidos, latido, fila, abierto, corteFalso>>
  BY DEF Tic
<1>2. salud' \in Salud
  BY EnvejeceTipo DEF Tic
<1>3. pasada' \in Pasada
  <2>1. Envejece(pasada.foto) \in Salud
    BY EnvejeceTipo DEF Pasada
  <2> QED BY <2>1 DEF Tic, Pasada
<1>4. trasComando' \in 0..Asentado + 1 /\ huerfano' \in 0..Confirma + 1
  BY DEF Tic
<1>5. turno' \subseteq {"latido", "pasada"} /\ fallos' \in 0..MaxFallos
  BY DEF Tic
<1> QED BY <1>1, <1>2, <1>3, <1>4, <1>5
        DEF aparato, pedidos, fila, TipoAparato, TipoPedidos, TipoFila, TipoHistoria, OrdenCoherente

LEMMA TipoInicial == Init => TypeOK /\ OrdenCoherente
<1> SUFFICES ASSUME Init PROVE TypeOK /\ OrdenCoherente
  OBVIOUS
<1>1. \A q \in Quienes : orden[q] = SinOrden
  BY DEF Init
<1>2. OrdenCoherente
  BY <1>1, LibresTipo DEF OrdenCoherente, Quienes
<1>3. TipoPedidos /\ TipoFila /\ TipoAparato /\ TipoHistoria
  <2>1. cadena \in Seq(Pedidos)
    BY DEF Init
  <2>2. orden \in [Quienes -> Orden]
    BY LibresTipo DEF Init
  <2> QED BY <2>1, <2>2 DEF Init, TipoPedidos, TipoFila, TipoAparato, TipoHistoria, ConSesion
<1>4. trasComando \in 0..Asentado + 1 /\ huerfano \in 0..Confirma + 1 /\ fallos \in 0..MaxFallos
  BY DEF Init
<1> QED BY <1>2, <1>3, <1>4, Partes, LibresTipo DEF Init

LEMMA TipoPaso ==
    ASSUME TypeOK, OrdenCoherente, [Next]_vars
    PROVE  TypeOK' /\ OrdenCoherente'
<1>1. CASE UNCHANGED vars
  BY <1>1 DEF vars, TypeOK, OrdenCoherente
<1>2. CASE Next
  BY <1>2, TipoResponde, TipoReintentos, TipoHeartbeat, TipoRevisa, TipoBarrido, TipoCliente,
     TipoLocal, TipoTic DEF Next
<1> QED BY <1>1, <1>2

\* Every variable keeps its type: in particular no command is sent more than
\* Reintentos times again (postConReintentoRateLimit), and a session is in one
\* of the states this code knows.
THEOREM TipoCorrecto == Spec => []TypeOK
<1>1. Init => TypeOK /\ OrdenCoherente
  BY TipoInicial
<1>2. TypeOK /\ OrdenCoherente /\ [Next]_vars => (TypeOK /\ OrdenCoherente)'
  BY TipoPaso
<1> QED BY <1>1, <1>2, PTL DEF Spec


-----------------------------------------------------------------------------
(* A cut that is inferred is a real one.                                   *)

\* The contact and the history of it: the actions of the premises and of the
\* device, and the commands.
LEMMA SinContactoPaso ==
    ASSUME SinContacto, [Next]_vars
    PROVE  SinContacto'
<1>1. CASE UNCHANGED <<luz, rele, abierto>>
  BY <1>1 DEF SinContacto
<1>2. CASE Local
  BY <1>2 DEF Local, CortaLuz, VuelveLuz, NubeVe, AutoOff, SinContacto, historia
<1>3. CASE Responde
  <2>1. PICK q \in Quienes : EjecutaYResponde(q) \/ EjecutaSinRespuesta(q) \/ Rechaza(q)
    BY <1>3 DEF Responde
  <2>2. luz' = luz /\ (Obedece(q) \/ UNCHANGED <<rele, abierto>>)
    BY <2>1 DEF EjecutaYResponde, EjecutaSinRespuesta, Rechaza, Vuelve
  <2> QED BY <2>2 DEF SinContacto, Obedece
<1>4. ASSUME NEW q \in Quienes, RateLimit(q) \/ Reintenta(q) PROVE UNCHANGED <<luz, rele, abierto>>
  BY <1>4 DEF RateLimit, Reintenta, aparato, historia
<1>5. CASE Heartbeat \/ Revisa \/ Barrido \/ Omite
  <2>1. UNCHANGED <<luz, rele, abierto>>
    BY <1>5 DEF Heartbeat, Latir, Lee, LeeFalla, Revisa, RevisaOmite, RevisaEspera, RevisaCierra,
       RevisaReanuda, RevisaCorte, RevisaReleAbierto, Barrido, Lista, Barre, BarreApaga, Omite,
       aparato, historia
  <2> QED BY <1>1, <2>1
<1>6. CASE Cliente \/ Tic
  <2>1. UNCHANGED <<luz, rele, abierto>>
    BY <1>6 DEF Cliente, Reserva, Paga, Expira, Vence, Finaliza, Parada, Tic, aparato, historia
  <2> QED BY <1>1, <2>1
<1>7. CASE UNCHANGED vars
  BY <1>1, <1>7 DEF vars
<1> QED BY <1>1, <1>2, <1>3, <1>4, <1>5, <1>6, <1>7 DEF Next

\* What a command leaves behind when it is over: the session it turned on, or
\* one whose cut it closed, has just had its command accepted; a session whose
\* command failed is not one that counts.
LEMMA VuelveDeja ==
    ASSUME IInv, NEW q \in Quienes, NEW ok \in BOOLEAN, Vuelve(q, ok)
    PROVE  /\ ReanudaCortada'
           /\ Abierta' => Abierta \/ (ok /\ q = "enciende")
           /\ ~ok /\ q = "enciende" => ~Abierta'
           /\ UNCHANGED corteFalso
<1>1. orden \in [Quienes -> Orden] /\ "enciende" \in Quienes /\ OrdenCoherente /\ ReanudaCortada
  BY Partes DEF IInv, TipoPedidos, Quienes
<1>2. orden' = [orden EXCEPT ![q] = SinOrden] /\ Concluye(orden[q].para, ok)
      /\ UNCHANGED corteFalso
  BY DEF Vuelve
<1>3. orden'["enciende"] = IF q = "enciende" THEN SinOrden ELSE orden["enciende"]
  BY <1>1, <1>2
<1>4. CASE q = "enciende"
  <2>1. ReanudaCortada'
    BY <1>3, <1>4, LibresTipo DEF ReanudaCortada
  <2>2. orden[q].para = "activar" \/ orden[q].para = "reanudar"
    BY <1>1, <1>2, <1>4 DEF OrdenCoherente, Concluye
  <2>3. ASSUME Abierta' PROVE ok
    <3>1. CASE orden[q].para = "activar"
      BY <1>2, <2>3, <3>1 DEF Concluye, Abierta
    <3>2. CASE orden[q].para = "reanudar" /\ ~ok
      <4>1. UNCHANGED fila
        BY <1>2, <3>2 DEF Concluye
      <4> QED BY <1>1, <1>4, <2>3, <3>2, <4>1 DEF Abierta, ReanudaCortada, fila
    <3> QED BY <2>2, <3>1, <3>2
  <2> QED BY <1>2, <1>4, <2>1, <2>3
<1>5. CASE q # "enciende"
  <2>1. orden[q].para \notin {"activar", "reanudar"}
    BY <1>1, <1>5 DEF OrdenCoherente
  <2>2. QuedaLibre \/ UNCHANGED fila
    BY <1>2, <2>1 DEF Concluye
  <2>3. Abierta' => Abierta
    BY <2>2 DEF QuedaLibre, Abierta, fila
  <2>4. ReanudaCortada'
    BY <1>1, <1>3, <1>5, <2>2 DEF QuedaLibre, ReanudaCortada, fila
  <2> QED BY <1>2, <1>5, <2>3, <2>4
<1> QED BY <1>4, <1>5

\* The rest of the invariant.
Verdad == ReanudaCortada /\ LecturaUnica /\ LecturaVerdadera /\ CorteSiUnLote

LEMMA VerdadResponde ==
    ASSUME IInv, Responde
    PROVE  Verdad'
<1> PICK q \in Quienes : EjecutaYResponde(q) \/ EjecutaSinRespuesta(q) \/ Rechaza(q)
  BY DEF Responde
<1>1. LecturaUnica'
  BY DEF IInv, LecturaUnica, EjecutaYResponde, EjecutaSinRespuesta, Rechaza, Vuelve
<1>2. CASE EjecutaYResponde(q)
  <2>1. Vuelve(q, TRUE) /\ Aceptado
    BY <1>2 DEF EjecutaYResponde
  <2>2. ~salud'.posterior
    BY <2>1, AceptadoTipo DEF IInv
  <2> QED BY <1>1, <2>1, <2>2, VuelveDeja DEF Verdad, IInv, LecturaVerdadera, CorteSiUnLote,
             CorteVerdadero
<1>3. CASE EjecutaSinRespuesta(q)
  <2>1. Vuelve(q, FALSE) /\ Obedece(q) /\ salud' = salud
    BY <1>3 DEF EjecutaSinRespuesta
  <2>2. LecturaVerdadera'
    <3>1. CASE q = "enciende"
      BY <2>1, <3>1, VuelveDeja DEF LecturaVerdadera
    <3>2. CASE q # "enciende"
      BY <2>1, <3>2 DEF LecturaVerdadera, Obedece
    <3> QED BY <3>1, <3>2
  <2> QED BY <1>1, <2>1, <2>2, VuelveDeja DEF Verdad, IInv, CorteSiUnLote, CorteVerdadero
<1>4. CASE Rechaza(q)
  <2>1. Vuelve(q, FALSE) /\ salud' = salud /\ abierto' = abierto
    BY <1>4 DEF Rechaza
  <2>2. LecturaVerdadera'
    BY <2>1, VuelveDeja DEF LecturaVerdadera, IInv
  <2> QED BY <1>1, <2>1, <2>2, VuelveDeja DEF Verdad, IInv, CorteSiUnLote, CorteVerdadero
<1> QED BY <1>2, <1>3, <1>4

LEMMA VerdadReintentos ==
    ASSUME IInv, NEW q \in Quienes, RateLimit(q) \/ Reintenta(q)
    PROVE  Verdad'
<1>1. orden \in [Quienes -> Orden] /\ "enciende" \in Quienes
  BY Partes DEF IInv, TipoPedidos, Quienes
<1>2. orden'["enciende"].para = orden["enciende"].para
  <2>1. \/ orden' = [orden EXCEPT ![q].paso = "pausa"]
        \/ orden' = [orden EXCEPT ![q].paso = "cola", ![q].intento = @ + 1]
    BY DEF RateLimit, Reintenta
  <2>2. orden["enciende"] \in Orden
    BY <1>1
  <2>3. CASE q = "enciende"
    BY <1>1, <2>1, <2>2, <2>3 DEF Orden
  <2>4. CASE q # "enciende"
    BY <1>1, <2>1, <2>4
  <2> QED BY <2>3, <2>4
<1>3. UNCHANGED <<sesion, cortada, latido, salud, abierto, corteFalso>>
  BY DEF RateLimit, Reintenta, fila, historia
<1> QED BY <1>2, <1>3 DEF IInv, Verdad, ReanudaCortada, LecturaUnica, LecturaVerdadera,
           CorteSiUnLote, CorteVerdadero, Abierta

\* A reading taken in one request says what the contact is.
LEMMA VerdadHeartbeat ==
    ASSUME IInv, Heartbeat
    PROVE  Verdad'
<1>1. UNCHANGED <<orden, sesion, cortada, abierto, corteFalso>>
  BY DEF Heartbeat, Latir, Lee, LeeFalla, fila, historia
<1>2. ReanudaCortada' /\ CorteSiUnLote'
  BY <1>1 DEF IInv, ReanudaCortada, CorteSiUnLote, CorteVerdadero
<1>3. latido \in Latido /\ SinContacto /\ LecturaUnica /\ LecturaVerdadera
  BY Partes DEF IInv
<1>4. CASE Latir
  <2>1. latido'.online = latido.online /\ salud' = salud
    BY <1>3, <1>4 DEF Latir, Latido
  <2> QED BY <1>1, <1>2, <1>3, <2>1 DEF Verdad, LecturaUnica, LecturaVerdadera, Abierta
<1>5. CASE LeeFalla
  BY <1>1, <1>2, <1>3, <1>5, LibresTipo
  DEF LeeFalla, Verdad, LecturaUnica, LecturaVerdadera, Abierta
<1>6. CASE Lee
  <2>1. CASE Lotes = 2
    BY <1>2, <2>1 DEF Verdad, LecturaUnica, LecturaVerdadera
  <2>2. CASE Lotes = 1
    <3> DEFINE dato == IF latido.pc = "lote1" THEN [online |-> nube, rele |-> rele]
                       ELSE [online |-> latido.online, rele |-> latido.rele]
    <3>1. dato.online /\ ~dato.rele => ~rele
      BY <1>3, <2>2 DEF LecturaUnica
    <3>2. salud' = [hay |-> TRUE, online |-> dato.online, rele |-> dato.rele,
                    edad |-> 0, posterior |-> TRUE]
          /\ latido' = LatidoLibre
      BY <1>6, <2>2 DEF Lee
    <3> HIDE DEF dato
    <3>3. salud'.online = dato.online /\ salud'.rele = dato.rele
      BY <3>2
    <3> QED BY <1>1, <1>2, <1>3, <3>1, <3>2, <3>3, LibresTipo
            DEF Verdad, LecturaUnica, LecturaVerdadera, SinContacto
  <2> QED BY <2>1, <2>2
<1> QED BY <1>4, <1>5, <1>6 DEF Heartbeat

\* The pass registers the cut it infers, and asks for the resume in the same step.
LEMMA VerdadRevisa ==
    ASSUME IInv, Revisa
    PROVE  Verdad'
<1>1. orden \in [Quienes -> Orden] /\ "enciende" \in Quienes /\ "apaga" \in Quienes
      /\ cortada \in BOOLEAN
  BY Partes DEF IInv, TipoPedidos, TipoFila, Quienes
<1>2. UNCHANGED <<latido, salud, sesion, abierto>>
  BY DEF Revisa, RevisaOmite, RevisaEspera, RevisaCierra, RevisaReanuda, RevisaCorte,
         RevisaReleAbierto, fila, historia
<1>3. cortada' = cortada \/ cortada' = TRUE
  BY DEF Revisa, RevisaOmite, RevisaEspera, RevisaCierra, RevisaReanuda, RevisaCorte,
         RevisaReleAbierto, fila
<1>4. LecturaUnica' /\ LecturaVerdadera'
  BY <1>2, <1>3 DEF IInv, LecturaUnica, LecturaVerdadera, Abierta
<1>5. CorteSiUnLote'
  <2>1. CASE RevisaReleAbierto
    <3>1. Lotes = 1 => abierto
      BY <2>1 DEF RevisaReleAbierto, VerReleAbierto, arranqueYaAsentado, IInv, LecturaVerdadera
    <3> QED BY <2>1, <3>1 DEF RevisaReleAbierto, IInv, CorteSiUnLote, CorteVerdadero
  <2>2. CASE RevisaOmite \/ RevisaEspera \/ RevisaCierra \/ RevisaReanuda \/ RevisaCorte
    BY <2>2 DEF RevisaOmite, RevisaEspera, RevisaCierra, RevisaReanuda, RevisaCorte, historia,
       IInv, CorteSiUnLote, CorteVerdadero
  <2> QED BY <2>1, <2>2 DEF Revisa
<1>6. ReanudaCortada'
  <2>1. CASE RevisaOmite \/ RevisaCorte \/ RevisaCierra
    <3>1. orden'["enciende"] = orden["enciende"]
      BY <1>1, <2>1 DEF RevisaOmite, RevisaCorte, RevisaCierra, Pide, pedidos
    <3> QED BY <1>2, <1>3, <3>1 DEF IInv, ReanudaCortada
  <2>2. CASE RevisaEspera
    <3>1. orden'["enciende"].para = "activar"
      BY <1>1, <2>2 DEF RevisaEspera, Pide
    <3> QED BY <3>1 DEF ReanudaCortada
  <2>3. CASE RevisaReanuda \/ RevisaReleAbierto
    BY <2>3 DEF RevisaReanuda, RevisaReleAbierto, Reanudar, fila, ReanudaCortada
  <2> QED BY <2>1, <2>2, <2>3 DEF Revisa
<1> QED BY <1>4, <1>5, <1>6 DEF Verdad

LEMMA VerdadBarrido ==
    ASSUME IInv, Barrido \/ Omite \/ Local \/ Tic
    PROVE  Verdad'
<1>1. orden \in [Quienes -> Orden] /\ "enciende" \in Quienes /\ salud \in Salud
  BY Partes DEF IInv, TipoPedidos, Quienes
<1>2. orden'["enciende"] = orden["enciende"]
  BY <1>1 DEF Barrido, Lista, Barre, BarreApaga, Omite, Local, CortaLuz, VuelveLuz, NubeVe,
     AutoOff, Tic, Pide, pedidos
<1>3. UNCHANGED <<latido, sesion, cortada, corteFalso>> /\ (abierto' = abierto \/ abierto' = TRUE)
  BY DEF Barrido, Lista, Barre, BarreApaga, Omite, Local, CortaLuz, VuelveLuz, NubeVe,
     AutoOff, Tic, fila, historia
<1>4. salud' = salud \/ salud' = Envejece(salud)
  BY DEF Barrido, Lista, Barre, BarreApaga, Omite, Local, CortaLuz, VuelveLuz, NubeVe,
     AutoOff, Tic
<1>5. salud'.online = salud.online /\ salud'.rele = salud.rele /\ salud'.posterior = salud.posterior
  BY <1>1, <1>4, EnvejeceTipo
<1> QED BY <1>2, <1>3, <1>5 DEF IInv, Verdad, ReanudaCortada, LecturaUnica, LecturaVerdadera,
           CorteSiUnLote, CorteVerdadero, Abierta

LEMMA VerdadCliente ==
    ASSUME IInv, Cliente
    PROVE  Verdad'
<1>1. orden \in [Quienes -> Orden] /\ "enciende" \in Quienes
  BY Partes DEF IInv, TipoPedidos, Quienes
<1>2. UNCHANGED <<latido, salud, abierto, corteFalso>>
  BY DEF Cliente, Reserva, Paga, Expira, Vence, Finaliza, Parada, historia
<1>3. (sesion' = sesion /\ cortada' = cortada) \/ sesion' # "ACTIVA"
  BY DEF Cliente, Reserva, Paga, Expira, Vence, Finaliza, Parada, fila, QuedaLibre
<1>4. orden'["enciende"] = orden["enciende"] \/ orden'["enciende"].para = "activar"
  BY <1>1 DEF Cliente, Reserva, Paga, Expira, Vence, Finaliza, Parada, Pide, pedidos
<1> QED BY <1>2, <1>3, <1>4 DEF IInv, Verdad, ReanudaCortada, LecturaUnica, LecturaVerdadera,
           CorteSiUnLote, CorteVerdadero, Abierta

LEMMA VerdadPaso ==
    ASSUME IInv, [Next]_vars
    PROVE  Verdad'
<1>1. CASE UNCHANGED vars
  BY <1>1 DEF vars, IInv, Verdad, ReanudaCortada, LecturaUnica, LecturaVerdadera,
           CorteSiUnLote, CorteVerdadero, Abierta
<1>2. CASE Next
  BY <1>2, VerdadResponde, VerdadReintentos, VerdadHeartbeat, VerdadRevisa, VerdadBarrido,
     VerdadCliente DEF Next
<1> QED BY <1>1, <1>2

LEMMA Invariante == Spec => []IInv
<1>1. Init => IInv
  <2> SUFFICES ASSUME Init PROVE IInv
    OBVIOUS
  <2>1. orden["enciende"].para = "nada" /\ latido.online = FALSE
    BY LibresTipo DEF Init, Quienes
  <2> QED BY <2>1, TipoInicial DEF Init, IInv, SinContacto, ReanudaCortada, LecturaUnica,
             LecturaVerdadera, CorteSiUnLote, CorteVerdadero
<1>2. IInv /\ [Next]_vars => IInv'
  <2> SUFFICES ASSUME IInv, [Next]_vars PROVE IInv'
    OBVIOUS
  <2>1. TypeOK' /\ OrdenCoherente'
    BY TipoPaso DEF IInv
  <2>2. SinContacto'
    BY SinContactoPaso DEF IInv
  <2> QED BY <2>1, <2>2, VerdadPaso DEF IInv, Verdad
<1> QED BY <1>1, <1>2, PTL DEF Spec

\* With up to ten chairs (one request in each reading), a cut that the pass
\* infers from an open contact is a real one, whatever is refused, lost,
\* delayed or retried: the readings that arranqueYaAsentado lets through are
\* later than the last command that was accepted.
THEOREM CorteEsVerdad ==
    ASSUME Lotes = 1
    PROVE  Spec => []CorteVerdadero
<1>1. IInv => CorteVerdadero
  BY DEF IInv, CorteSiUnLote
<1> QED BY <1>1, Invariante, PTL

=============================================================================
