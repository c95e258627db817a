---------------------------- MODULE Pagos_proofs ----------------------------
(***************************************************************************)
(* What TLAPS proves of Pagos for any payments, sessions, turns, slots and *)
(* restarts:                                                               *)
(*                                                                         *)
(*   TipoCorrecto       every variable has its type;                       *)
(*   AplicadoUnaVez     no payment is handed over twice;                   *)
(*   GiradoContraPago   nothing is given that was not paid for;            *)
(*   UnVale             a review gives one voucher at most;                *)
(*   NadaPerdido        until the process dies, an approved payment serves *)
(*                      or is flagged;                                     *)
(*   RevisionResuelta   only a resolution takes a payment off the list.    *)
(*                                                                         *)
(* Coherente is inductive by itself; NadaSePierde needs it, and the call   *)
(* that has registered an approval as the witness of what is not done yet. *)
(***************************************************************************)
EXTENDS Pagos, TLAPS

\* Writing a Boolean column of one payment.
LEMMA EscribeBooleano ==
    ASSUME NEW f \in [Pago -> BOOLEAN], NEW p, NEW b \in BOOLEAN
    PROVE  [f EXCEPT ![p] = b] \in [Pago -> BOOLEAN]
OBVIOUS

\* What TypeOK says of the calls.
TipoHilo ==
    /\ hilo \in [Hilos -> Llamada]
    /\ \A h \in Hilos : hilo[h].pc # "libre" => hilo[h].pago \in Pago

\* The three things an action does to its slot keep it well typed.
LEMMA EmpiezaTipo ==
    ASSUME TipoHilo, NEW h \in Hilos, NEW c \in Llamada, c.pago \in Pago, Empieza(h, c)
    PROVE  TipoHilo'
BY DEF TipoHilo, Empieza

LEMMA SigueTipo ==
    ASSUME TipoHilo, NEW h \in Hilos, NEW pc \in Pcs, ~En(h, "libre"), Sigue(h, pc)
    PROVE  TipoHilo'
<1>1. \A g \in Hilos : hilo'[g] = IF g = h THEN [hilo[h] EXCEPT !.pc = pc] ELSE hilo[g]
  BY DEF TipoHilo, Sigue
<1>2. hilo[h] \in Llamada /\ hilo[h].pago \in Pago
  BY DEF TipoHilo, En
<1>3. [hilo[h] EXCEPT !.pc = pc] \in Llamada /\ [hilo[h] EXCEPT !.pc = pc].pago \in Pago
  BY <1>2 DEF Llamada
<1>4. hilo' \in [Hilos -> Llamada]
  BY <1>1, <1>3 DEF TipoHilo, Sigue
<1> QED BY <1>1, <1>3, <1>4 DEF TipoHilo

LEMMA TerminaTipo ==
    ASSUME TipoHilo, NEW h \in Hilos, Termina(h)
    PROVE  TipoHilo'
<1>1. Libre \in Llamada /\ Libre.pc = "libre"
  BY DEF Libre, Llamada, Pcs, EstadoMP, EstadoPago
<1> QED BY <1>1 DEF TipoHilo, Termina

-----------------------------------------------------------------------------
(***************************************************************************)
(* Coherente is inductive.                                                 *)
(***************************************************************************)

\* One awaited statement of a call in flight (Paso).
LEMMA PasoCoherente ==
    ASSUME Coherente, NEW h \in Hilos, Paso(h)
    PROVE  Coherente'
<1> USE NadaAssumption, DestinosAssumption, ReferenciasAssumption, ReiniciosAssumption
    DEF Coherente, TypeOK, Llamada, Pcs, Libre, Destino, Referencia, EstadoMP, EstadoPago,
        Acciones, EstadoDestino, cobro, fila, historia, En, PagoDe, Aprobado,
        LlamadaCoherente, EnEntrega, FilaCoherente, UnaEmision, DadoPorAlguien
<1>1. ASSUME Consultar(h) PROVE Coherente'
  <2>1. TypeOK'
    BY <1>1 DEF Consultar, Termina
  <2>2. (\A g \in Hilos : LlamadaCoherente(g))'
    BY <1>1 DEF Consultar, Termina
  <2>3. (\A q \in Pago : FilaCoherente(q))'
    BY <1>1 DEF Consultar, Termina
  <2>4. UnaEmision'
    BY <1>1 DEF Consultar, Termina
  <2>5. DadoPorAlguien'
    BY <1>1 DEF Consultar, Termina
  <2> QED BY <2>1, <2>2, <2>3, <2>4, <2>5
<1>2. ASSUME Buscar(h) PROVE Coherente'
  <2>1. TypeOK'
    BY <1>2 DEF Buscar, Sigue, Termina
  <2>2. (\A g \in Hilos : LlamadaCoherente(g))'
    BY <1>2 DEF Buscar, Sigue, Termina
  <2>3. (\A q \in Pago : FilaCoherente(q))'
    BY <1>2 DEF Buscar, Sigue, Termina
  <2>4. UnaEmision'
    BY <1>2 DEF Buscar, Sigue, Termina
  <2>5. DadoPorAlguien'
    BY <1>2 DEF Buscar, Sigue, Termina
  <2> QED BY <2>1, <2>2, <2>3, <2>4, <2>5
<1>3. ASSUME Actualizar(h) PROVE Coherente'
  <2>1. TypeOK'
    <3>1. revision' \in [Pago -> BOOLEAN]
      <4>1. \/ revision' = revision
            \/ revision' = [revision EXCEPT ![PagoDe(h)] = NoAplicable(PagoDe(h))]
        BY <1>3 DEF Actualizar
      <4>2. revision \in [Pago -> BOOLEAN] /\ NoAplicable(PagoDe(h)) \in BOOLEAN
        BY DEF NoAplicable
      <4> QED BY ONLY <4>1, <4>2, EscribeBooleano
    <3> QED BY <1>3, <3>1 DEF Actualizar, Actualizable, Aplica, NoAplicable, Sigue, Termina
  <2>2. (\A g \in Hilos : LlamadaCoherente(g))'
    BY <1>3 DEF Actualizar, Actualizable, Aplica, NoAplicable, Sigue, Termina
  <2>3. (\A q \in Pago : FilaCoherente(q))'
    BY <1>3 DEF Actualizar, Actualizable, Aplica, NoAplicable, Sigue, Termina
  <2>4. UnaEmision'
    BY <1>3 DEF Actualizar, Actualizable, Aplica, NoAplicable, Sigue, Termina
  <2>5. DadoPorAlguien'
    BY <1>3 DEF Actualizar, Actualizable, Aplica, NoAplicable, Sigue, Termina
  <2> QED BY <2>1, <2>2, <2>3, <2>4, <2>5
<1>4. ASSUME Crear(h) PROVE Coherente'
  <2>1. TypeOK'
    <3>1. revision' \in [Pago -> BOOLEAN]
      <4>1. \/ revision' = revision
            \/ revision' = [revision EXCEPT ![PagoDe(h)] =
                               (hilo[h].status = "approved" /\ NoAplicable(PagoDe(h)))]
        BY <1>4 DEF Crear
      <4>2. /\ revision \in [Pago -> BOOLEAN]
            /\ (hilo[h].status = "approved" /\ NoAplicable(PagoDe(h))) \in BOOLEAN
        BY DEF NoAplicable
      <4> QED BY ONLY <4>1, <4>2, EscribeBooleano
    <3>2. TipoHilo'
      <4>1. /\ TipoHilo /\ ~En(h, "libre")
            /\ (IF ref[PagoDe(h)] \in Sesion THEN "act_leer" ELSE "encolar") \in Pcs
        BY <1>4 DEF TipoHilo, Crear
      <4>2. Sigue(h, IF ref[PagoDe(h)] \in Sesion THEN "act_leer" ELSE "encolar") \/ Termina(h)
        BY <1>4 DEF Crear, Aplica
      <4> QED BY ONLY <4>1, <4>2, SigueTipo, TerminaTipo, h \in Hilos
    <3>3. registro' \in [Pago -> EstadoPago]
      BY <1>4 DEF Crear, EstadoNuevo
    <3>4. aplicado' \in [Pago -> Nat]
      BY <1>4 DEF Crear, Aplica
    <3> QED BY <1>4, <3>1, <3>2, <3>3, <3>4 DEF Crear, TipoHilo
  <2>2. (\A g \in Hilos : LlamadaCoherente(g))'
    BY <1>4 DEF Crear, EstadoNuevo, Aplica, NoAplicable, Sigue, Termina
  <2>3. (\A q \in Pago : FilaCoherente(q))'
    BY <1>4 DEF Crear, EstadoNuevo, Aplica, NoAplicable, Sigue, Termina
  <2>4. UnaEmision'
    BY <1>4 DEF Crear, EstadoNuevo, Aplica, NoAplicable, Sigue, Termina
  <2>5. DadoPorAlguien'
    BY <1>4 DEF Crear, EstadoNuevo, Aplica, NoAplicable, Sigue, Termina
  <2> QED BY <2>1, <2>2, <2>3, <2>4, <2>5
<1>5. ASSUME Reembolsar(h) PROVE Coherente'
  <2>1. TypeOK'
    <3>1. revision' \in [Pago -> BOOLEAN]
      <4>1. \/ revision' = revision
            \/ revision' = [revision EXCEPT ![PagoDe(h)] = TRUE]
        BY <1>5 DEF Reembolsar
      <4>2. revision \in [Pago -> BOOLEAN] /\ TRUE \in BOOLEAN
        BY DEF NoAplicable
      <4> QED BY ONLY <4>1, <4>2, EscribeBooleano
    <3> QED BY <1>5, <3>1 DEF Reembolsar, Termina
  <2>2. (\A g \in Hilos : LlamadaCoherente(g))'
    BY <1>5 DEF Reembolsar, Termina
  <2>3. (\A q \in Pago : FilaCoherente(q))'
    BY <1>5 DEF Reembolsar, Termina
  <2>4. UnaEmision'
    BY <1>5 DEF Reembolsar, Termina
  <2>5. DadoPorAlguien'
    BY <1>5 DEF Reembolsar, Termina
  <2> QED BY <2>1, <2>2, <2>3, <2>4, <2>5
<1>6. ASSUME ActivarLee(h) PROVE Coherente'
  <2>1. TypeOK'
    <3>1. TipoHilo'
      <4>1. TipoHilo /\ ~En(h, "libre") /\ "marcar" \in Pcs /\ "act_rele" \in Pcs
        BY <1>6 DEF TipoHilo, ActivarLee
      <4>2. Sigue(h, "act_rele") \/ Sigue(h, "marcar") \/ Termina(h)
        BY <1>6 DEF ActivarLee
      <4> QED BY ONLY <4>1, <4>2, SigueTipo, TerminaTipo, h \in Hilos
    <3> QED BY <1>6, <3>1 DEF ActivarLee, TipoHilo
  <2>2. (\A g \in Hilos : LlamadaCoherente(g))'
    BY <1>6 DEF ActivarLee, Sigue, Termina
  <2>3. (\A q \in Pago : FilaCoherente(q))'
    BY <1>6 DEF ActivarLee, Sigue, Termina
  <2>4. UnaEmision'
    BY <1>6 DEF ActivarLee, Sigue, Termina
  <2>5. DadoPorAlguien'
    BY <1>6 DEF ActivarLee, Sigue, Termina
  <2> QED BY <2>1, <2>2, <2>3, <2>4, <2>5
<1>7. ASSUME ActivarConfirma(h) PROVE Coherente'
  <2>1. TypeOK'
    BY <1>7 DEF ActivarConfirma, Termina
  <2>2. (\A g \in Hilos : LlamadaCoherente(g))'
    BY <1>7 DEF ActivarConfirma, Termina
  <2>3. (\A q \in Pago : FilaCoherente(q))'
    BY <1>7 DEF ActivarConfirma, Termina
  <2>4. UnaEmision'
    BY <1>7 DEF ActivarConfirma, Termina
  <2>5. DadoPorAlguien'
    BY <1>7 DEF ActivarConfirma, Termina
  <2> QED BY <2>1, <2>2, <2>3, <2>4, <2>5
<1>8. ASSUME Encolar(h) PROVE Coherente'
  <2>1. TypeOK'
    <3>1. sirvio' \in [Pago -> BOOLEAN]
      <4>1. \/ sirvio' = sirvio
            \/ sirvio' = [sirvio EXCEPT ![PagoDe(h)] = TRUE]
        BY <1>8 DEF Encolar
      <4>2. sirvio \in [Pago -> BOOLEAN] /\ TRUE \in BOOLEAN
        OBVIOUS
      <4> QED BY ONLY <4>1, <4>2, EscribeBooleano
    <3>2. TipoHilo'
      <4>1. TipoHilo /\ ~En(h, "libre") /\ "marcar" \in Pcs
        BY <1>8 DEF TipoHilo, Encolar
      <4>2. Sigue(h, "marcar") \/ Termina(h)
        BY <1>8 DEF Encolar
      <4> QED BY ONLY <4>1, <4>2, SigueTipo, TerminaTipo, h \in Hilos
    <3>3. destino' \in [Destino -> EstadoDestino]
      BY <1>8 DEF Encolar
    <3> QED BY <1>8, <3>1, <3>2, <3>3 DEF Encolar, TipoHilo
  <2>2. (\A g \in Hilos : LlamadaCoherente(g))'
    <3>1. ASSUME NEW g \in Hilos, g # h PROVE LlamadaCoherente(g)'
      <4>1. hilo'[g] = hilo[g]
        BY <1>8, <3>1 DEF Encolar, Sigue, Termina
      <4> QED BY <1>8, <4>1 DEF Encolar
    <3>2. LlamadaCoherente(h)'
      <4>1. CASE Termina(h)
        BY <1>8, <4>1 DEF Termina
      <4>2. CASE Sigue(h, "marcar")
        <5>1. /\ hilo'[h].pc = "marcar" /\ hilo'[h].pago = hilo[h].pago
              /\ hilo'[h].status = hilo[h].status
          BY <4>2 DEF Sigue
        <5> QED BY <1>8, <5>1 DEF Encolar
      <4> QED BY <1>8, <4>1, <4>2 DEF Encolar
    <3> QED BY <3>1, <3>2
  <2>3. (\A q \in Pago : FilaCoherente(q))'
    BY <1>8 DEF Encolar, Sigue, Termina
  <2>4. UnaEmision'
    BY <1>8 DEF Encolar, Sigue, Termina
  <2>5. DadoPorAlguien'
    BY <1>8 DEF Encolar, Sigue, Termina
  <2> QED BY <2>1, <2>2, <2>3, <2>4, <2>5
<1>9. ASSUME Marcar(h) PROVE Coherente'
  <2>1. TypeOK'
    BY <1>9 DEF Marcar, Termina
  <2>2. (\A g \in Hilos : LlamadaCoherente(g))'
    BY <1>9 DEF Marcar, Termina
  <2>3. (\A q \in Pago : FilaCoherente(q))'
    BY <1>9 DEF Marcar, Termina
  <2>4. UnaEmision'
    BY <1>9 DEF Marcar, Termina
  <2>5. DadoPorAlguien'
    BY <1>9 DEF Marcar, Termina
  <2> QED BY <2>1, <2>2, <2>3, <2>4, <2>5
<1>10. ASSUME ResolverReclama(h) PROVE Coherente'
  <2>1. TypeOK'
    <3>1. TipoHilo'
      <4>1. TipoHilo /\ ~En(h, "libre") /\ "vale" \in Pcs
        BY <1>10 DEF TipoHilo, ResolverReclama
      <4>2. Sigue(h, "vale") \/ Termina(h)
        BY <1>10 DEF ResolverReclama
      <4> QED BY ONLY <4>1, <4>2, SigueTipo, TerminaTipo, h \in Hilos
    <3>2. registro' \in [Pago -> EstadoPago]
      BY <1>10 DEF ResolverReclama
    <3>3. resolucion' \in [Pago -> Acciones \cup {"ninguna"}]
      BY <1>10 DEF ResolverReclama
    <3> QED BY <1>10, <3>1, <3>2, <3>3 DEF ResolverReclama, TipoHilo
  <2>2. (\A g \in Hilos : LlamadaCoherente(g))'
    BY <1>10 DEF ResolverReclama, SinResolver, Sigue, Termina
  <2>3. (\A q \in Pago : FilaCoherente(q))'
    BY <1>10 DEF ResolverReclama, SinResolver, Sigue, Termina
  <2>4. UnaEmision'
    BY <1>10 DEF ResolverReclama, SinResolver, Sigue, Termina
  <2>5. DadoPorAlguien'
    BY <1>10 DEF ResolverReclama, SinResolver, Sigue, Termina
  <2> QED BY <2>1, <2>2, <2>3, <2>4, <2>5
<1>11. ASSUME ResolverEmite(h) PROVE Coherente'
  <2>1. TypeOK'
    BY <1>11 DEF ResolverEmite, Termina
  <2>2. (\A g \in Hilos : LlamadaCoherente(g))'
    BY <1>11 DEF ResolverEmite, Termina
  <2>3. (\A q \in Pago : FilaCoherente(q))'
    BY <1>11 DEF ResolverEmite, Termina
  <2>4. UnaEmision'
    BY <1>11 DEF ResolverEmite, Termina
  <2>5. DadoPorAlguien'
    BY <1>11 DEF ResolverEmite, Termina
  <2> QED BY <2>1, <2>2, <2>3, <2>4, <2>5
<1> QED BY <1>1, <1>2, <1>3, <1>4, <1>5, <1>6, <1>7, <1>8, <1>9, <1>10, <1>11 DEF Paso

\* A webhook, a browser or the owner starts a call (Pedido).
LEMMA PedidoCoherente ==
    ASSUME Coherente, NEW h \in Hilos, Pedido(h)
    PROVE  Coherente'
<1> USE NadaAssumption, DestinosAssumption, ReferenciasAssumption, ReiniciosAssumption
    DEF Coherente, TypeOK, Llamada, Pcs, Libre, Destino, Referencia, EstadoMP, EstadoPago,
        Acciones, EstadoDestino, cobro, fila, historia, En, PagoDe, Aprobado,
        LlamadaCoherente, EnEntrega, FilaCoherente, UnaEmision, DadoPorAlguien
<1>1. ASSUME NEW p \in Pago, Webhook(h, p) PROVE Coherente'
  <2> DEFINE c == [Libre EXCEPT !.pc = "consultar", !.pago = p]
  <2>0. /\ Empieza(h, c)
        /\ c \in Llamada /\ c.pago = p
    BY <1>1 DEF Webhook
  <2>1. TypeOK'
    <3>1. TipoHilo
      BY DEF TipoHilo
    <3>2. TipoHilo'
      BY ONLY <2>0, <3>1, EmpiezaTipo, h \in Hilos, p \in Pago
    <3> QED BY <1>1, <3>2 DEF Webhook, TipoHilo
  <2>2. (\A g \in Hilos : LlamadaCoherente(g))'
    BY <1>1, <2>0 DEF Webhook, Empieza
  <2>3. (\A q \in Pago : FilaCoherente(q))'
    BY <1>1, <2>0 DEF Webhook, Empieza
  <2>4. UnaEmision'
    BY <1>1, <2>0 DEF Webhook, Empieza
  <2>5. DadoPorAlguien'
    BY <1>1, <2>0 DEF Webhook, Empieza
  <2> QED BY <2>1, <2>2, <2>3, <2>4, <2>5
<1>2. ASSUME NEW p \in Pago, Retorno(h, p) PROVE Coherente'
  <2> DEFINE c == [Libre EXCEPT !.pc = "buscar", !.pago = p, !.status = "approved"]
  <2>0. /\ Empieza(h, c)
        /\ c \in Llamada /\ c.pago = p
    BY <1>2 DEF Retorno
  <2>1. TypeOK'
    <3>1. TipoHilo
      BY DEF TipoHilo
    <3>2. TipoHilo'
      BY ONLY <2>0, <3>1, EmpiezaTipo, h \in Hilos, p \in Pago
    <3> QED BY <1>2, <3>2 DEF Retorno, TipoHilo
  <2>2. (\A g \in Hilos : LlamadaCoherente(g))'
    BY <1>2, <2>0 DEF Retorno, Empieza
  <2>3. (\A q \in Pago : FilaCoherente(q))'
    BY <1>2, <2>0 DEF Retorno, Empieza
  <2>4. UnaEmision'
    BY <1>2, <2>0 DEF Retorno, Empieza
  <2>5. DadoPorAlguien'
    BY <1>2, <2>0 DEF Retorno, Empieza
  <2> QED BY <2>1, <2>2, <2>3, <2>4, <2>5
<1>3. ASSUME NEW p \in Pago, NEW a \in Acciones, Resolver(h, p, a) PROVE Coherente'
  <2> DEFINE c == [Libre EXCEPT !.pc = "resolver", !.pago = p, !.leido = registro[p], !.accion = a]
  <2>0. /\ Empieza(h, c)
        /\ c \in Llamada /\ c.pago = p
    BY <1>3 DEF Resolver, EnRevision
  <2>1. TypeOK'
    <3>1. TipoHilo
      BY DEF TipoHilo
    <3>2. TipoHilo'
      BY ONLY <2>0, <3>1, EmpiezaTipo, h \in Hilos, p \in Pago
    <3> QED BY <1>3, <3>2 DEF Resolver, EnRevision, TipoHilo
  <2>2. (\A g \in Hilos : LlamadaCoherente(g))'
    BY <1>3, <2>0 DEF Resolver, EnRevision, Empieza
  <2>3. (\A q \in Pago : FilaCoherente(q))'
    BY <1>3, <2>0 DEF Resolver, EnRevision, Empieza
  <2>4. UnaEmision'
    BY <1>3, <2>0 DEF Resolver, EnRevision, Empieza
  <2>5. DadoPorAlguien'
    BY <1>3, <2>0 DEF Resolver, EnRevision, Empieza
  <2> QED BY <2>1, <2>2, <2>3, <2>4, <2>5
<1> QED BY ONLY Pedido(h), <1>1, <1>2, <1>3 DEF Pedido

\* Mercado Pago and the life of the destinations (Afuera).
LEMMA AfueraCoherente ==
    ASSUME Coherente, Afuera
    PROVE  Coherente'
<1> USE NadaAssumption, DestinosAssumption, ReferenciasAssumption, ReiniciosAssumption
    DEF Coherente, TypeOK, Llamada, Pcs, Libre, Destino, Referencia, EstadoMP, EstadoPago,
        Acciones, EstadoDestino, cobro, fila, historia, En, PagoDe, Aprobado,
        LlamadaCoherente, EnEntrega, FilaCoherente, UnaEmision, DadoPorAlguien
<1>1. ASSUME NEW p \in Pago, NEW b \in EstadoMP, CambiaEnMP(p, b) PROVE Coherente'
  BY <1>1 DEF CambiaEnMP, Sucede
<1>2. ASSUME NEW d \in Destino, CierraDestino(d) PROVE Coherente'
  BY <1>2 DEF CierraDestino
<1> QED BY ONLY Afuera, <1>1, <1>2 DEF Afuera

LEMMA CoherenteInductiva == Coherente /\ [Next]_vars => Coherente'
<1> SUFFICES ASSUME Coherente, [Next]_vars PROVE Coherente'
  OBVIOUS
<1>1. CASE Afuera
  BY <1>1, AfueraCoherente
<1>2. ASSUME NEW h \in Hilos, Pedido(h) PROVE Coherente'
  BY <1>2, PedidoCoherente
<1>3. ASSUME NEW h \in Hilos, Paso(h) PROVE Coherente'
  BY <1>3, PasoCoherente
<1>4. CASE Reiniciar
  <2> USE NadaAssumption, DestinosAssumption, ReferenciasAssumption, ReiniciosAssumption
      DEF Coherente, TypeOK, Llamada, Pcs, Libre, Destino, Referencia, EstadoMP, EstadoPago,
          Acciones, EstadoDestino, cobro, fila, historia, En, PagoDe, Aprobado,
          LlamadaCoherente, EnEntrega, FilaCoherente, UnaEmision, DadoPorAlguien
  <2> QED BY <1>4 DEF Reiniciar
<1>5. CASE UNCHANGED vars
  <2> USE NadaAssumption, DestinosAssumption, ReferenciasAssumption, ReiniciosAssumption
      DEF Coherente, TypeOK, Llamada, Pcs, Libre, Destino, Referencia, EstadoMP, EstadoPago,
          Acciones, EstadoDestino, cobro, fila, historia, En, PagoDe, Aprobado,
          LlamadaCoherente, EnEntrega, FilaCoherente, UnaEmision, DadoPorAlguien
  <2> QED BY <1>5 DEF vars
<1> QED BY <1>1, <1>2, <1>3, <1>4, <1>5 DEF Next

LEMMA InicioCoherente == Init => Coherente
<1> USE NadaAssumption, DestinosAssumption, ReferenciasAssumption, ReiniciosAssumption
    DEF Coherente, TypeOK, Llamada, Pcs, Libre, Destino, Referencia, EstadoMP, EstadoPago,
        Acciones, EstadoDestino, cobro, fila, historia, En, PagoDe, Aprobado,
        LlamadaCoherente, EnEntrega, FilaCoherente, UnaEmision, DadoPorAlguien
<1> QED BY DEF Init

-----------------------------------------------------------------------------
(***************************************************************************)
(* No approval is lost while the process lives.                            *)
(***************************************************************************)

\* An approval stays covered if what covers it stays and only the call of h moves.
LEMMA SigueCubierto ==
    ASSUME NEW h \in Hilos, NEW p \in Pago, Cubierto(p), UNCHANGED ref,
           sirvio[p] => sirvio'[p], revision[p] => revision'[p],
           \A q \in Pago : aplicado[q] > 0 => aplicado'[q] > 0,
           \A g \in Hilos \ {h} : hilo'[g] = hilo[g],
           EnEntrega(h) /\ PagoDe(h) = p => Cubierto(p)'
    PROVE  Cubierto(p)'
<1>1. CASE sirvio[p] \/ revision[p]
  BY <1>1 DEF Cubierto
<1>2. CASE PagadaPorOtro(p)
  <2>1. PagadaPorOtro(p)'
    BY <1>2 DEF PagadaPorOtro
  <2> QED BY <2>1 DEF Cubierto
<1>3. ASSUME NEW g \in Hilos \ {h}, PagoDe(g) = p, EnEntrega(g) PROVE Cubierto(p)'
  BY <1>3 DEF Cubierto, PagoDe, EnEntrega
<1> QED BY <1>1, <1>2, <1>3 DEF Cubierto

LEMMA PasoNoPierde ==
    ASSUME Coherente, NadaSePierde, NEW h \in Hilos, Paso(h),
           NEW c \in Pago, PagoDe(h) = c
    PROVE  NadaSePierde'
<1> DEFINE Otros == \A g \in Hilos \ {h} : hilo'[g] = hilo[g]
<1>0. /\ hilo \in [Hilos -> Llamada]
      /\ revision \in [Pago -> BOOLEAN] /\ sirvio \in [Pago -> BOOLEAN]
  BY DEF Coherente, TypeOK
\* The call was not delivering anything, and approves no row.
<1>1. ASSUME Otros, ~EnEntrega(h), UNCHANGED <<ref, sirvio, aplicado>>,
             \A p \in Pago : revision[p] => revision'[p],
             \A p \in Pago : Aprobado(p)' => Aprobado(p)
      PROVE  NadaSePierde'
  BY <1>1, SigueCubierto DEF NadaSePierde
\* The call was delivering a payment, and leaves the rows as they are.
<1>2. ASSUME Otros, UNCHANGED <<ref, aplicado, registro>>,
             \A p \in Pago : revision[p] => revision'[p],
             \A p \in Pago : sirvio[p] => sirvio'[p],
             Cubierto(c)'
      PROVE  NadaSePierde'
  BY <1>2, SigueCubierto DEF NadaSePierde, Aprobado
\* The call may approve its row, which nobody had approved: then it delivers it.
<1>3. ASSUME Otros, ~EnEntrega(h), UNCHANGED <<ref, sirvio>>,
             ~Aprobado(c), Aprobado(c)' => Cubierto(c)',
             \A p \in Pago \ {c} : registro'[p] = registro[p] /\ revision'[p] = revision[p],
             \A q \in Pago : aplicado[q] > 0 => aplicado'[q] > 0
      PROVE  NadaSePierde'
  <2> SUFFICES ASSUME NEW p \in Pago, p # c, Aprobado(p)' PROVE Cubierto(p)'
    BY <1>3 DEF NadaSePierde
  <2>1. Cubierto(p)
    BY <1>3 DEF NadaSePierde, Aprobado
  <2> QED BY <1>3, <2>1, SigueCubierto
<1>4. CASE Consultar(h)
  <2>1. /\ Otros /\ ~EnEntrega(h) /\ UNCHANGED <<ref, sirvio, aplicado, revision, registro>>
    BY <1>0, <1>4 DEF Consultar, Termina, En, EnEntrega, cobro, fila, historia
  <2> QED BY <1>1, <2>1 DEF Aprobado
<1>5. CASE Buscar(h)
  <2>1. Otros
    BY <1>0, <1>5 DEF Buscar, Sigue, Termina
  <2>2. ~EnEntrega(h) /\ UNCHANGED <<ref, sirvio, aplicado, revision, registro>>
    BY <1>5 DEF Buscar, En, EnEntrega, cobro, fila, historia
  <2> QED BY <1>1, <2>1, <2>2 DEF Aprobado
<1>6. CASE Reembolsar(h)
  <2>1. /\ Otros /\ ~EnEntrega(h) /\ UNCHANGED <<ref, sirvio, aplicado>>
    BY <1>0, <1>6 DEF Reembolsar, Termina, En, EnEntrega, cobro, historia
  <2>2. \A p \in Pago : revision[p] => revision'[p]
    BY <1>0, <1>6 DEF Reembolsar
  <2>3. \A p \in Pago : Aprobado(p)' => Aprobado(p)
    BY <1>6 DEF Reembolsar, Aprobado, Coherente, TypeOK
  <2> QED BY <1>1, <2>1, <2>2, <2>3
<1>7. CASE ResolverReclama(h)
  <2>1. /\ Otros /\ ~EnEntrega(h) /\ UNCHANGED <<ref, sirvio, aplicado, revision>>
    BY <1>0, <1>7 DEF ResolverReclama, Sigue, Termina, En, EnEntrega, cobro, historia
  <2>2. Aprobado(c)
    BY <1>0, <1>7 DEF ResolverReclama, Coherente, LlamadaCoherente, FilaCoherente, En
  <2>3. \A p \in Pago \ {c} : registro'[p] = registro[p]
    BY <1>7 DEF ResolverReclama, Coherente, TypeOK
  <2>4. \A p \in Pago : Aprobado(p)' => Aprobado(p)
    BY <2>2, <2>3 DEF Aprobado
  <2> QED BY <1>1, <2>1, <2>4
<1>8. CASE ResolverEmite(h)
  <2>1. /\ Otros /\ ~EnEntrega(h) /\ UNCHANGED <<ref, sirvio, aplicado, revision, registro>>
    BY <1>0, <1>8 DEF ResolverEmite, Termina, En, EnEntrega, cobro, fila, historia
  <2> QED BY <1>1, <2>1 DEF Aprobado
<1>9. CASE Marcar(h)
  <2>1. Otros /\ UNCHANGED <<ref, aplicado, registro, sirvio>>
    BY <1>0, <1>9 DEF Marcar, Termina, cobro, historia
  <2>2. revision' = [revision EXCEPT ![c] = TRUE]
    BY <1>9 DEF Marcar
  <2>3. revision'[c] /\ \A p \in Pago : revision[p] => revision'[p]
    BY ONLY <1>0, <2>2
  <2>4. Cubierto(c)'
    BY <2>3 DEF Cubierto
  <2> QED BY <1>2, <2>1, <2>3, <2>4
<1>10. CASE ActivarLee(h)
  <2>1. Otros /\ UNCHANGED <<ref, aplicado, registro, sirvio, revision>>
    BY <1>0, <1>10 DEF ActivarLee, Sigue, Termina, cobro, fila, historia
  <2>2. CASE Sigue(h, "act_rele") \/ Sigue(h, "marcar")
    <3>1. PagoDe(h)' = c /\ EnEntrega(h)'
      <4>1. \E pc \in {"act_rele", "marcar"} : hilo' = [hilo EXCEPT ![h].pc = pc]
        BY <2>2 DEF Sigue
      <4> QED BY <1>0, <4>1 DEF EnEntrega, PagoDe, Llamada
    <3>2. Cubierto(c)'
      BY <3>1 DEF Cubierto
    <3> QED BY <1>2, <2>1, <3>2
  <2>3. CASE destino[ref[c]] = "dado"
    <3>1. ref[c] \in Sesion
      BY <1>10 DEF ActivarLee, Coherente, LlamadaCoherente, En
    <3>2. PICK q \in Pago : ref[q] = ref[c] /\ sirvio[q]
      BY <2>3, <3>1 DEF Coherente, DadoPorAlguien, Destino
    <3>3. aplicado[q] > 0
      BY <3>2 DEF Coherente, FilaCoherente
    <3>4. (sirvio[c] \/ PagadaPorOtro(c))'
      BY <2>1, <3>1, <3>2, <3>3 DEF PagadaPorOtro
    <3> QED BY <1>2, <2>1, <3>4 DEF Cubierto
  <2> QED BY <1>10, <2>2, <2>3 DEF ActivarLee
<1>11. CASE ActivarConfirma(h)
  <2>1. Otros /\ UNCHANGED <<ref, aplicado, registro, revision>>
    BY <1>0, <1>11 DEF ActivarConfirma, Termina, cobro, fila
  <2>2. sirvio' = [sirvio EXCEPT ![c] = TRUE]
    BY <1>11 DEF ActivarConfirma
  <2>3. sirvio'[c] /\ \A p \in Pago : sirvio[p] => sirvio'[p]
    BY ONLY <1>0, <2>2
  <2> QED BY <1>2, <2>1, <2>3 DEF Cubierto
<1>12. CASE Encolar(h)
  <2>1. Otros /\ UNCHANGED <<ref, aplicado, registro, revision>>
    BY <1>0, <1>12 DEF Encolar, Sigue, Termina, cobro, fila
  <2>2. CASE sirvio' = [sirvio EXCEPT ![c] = TRUE]
    <3>1. sirvio'[c] /\ \A p \in Pago : sirvio[p] => sirvio'[p]
      BY ONLY <1>0, <2>2
    <3> QED BY <1>2, <2>1, <3>1 DEF Cubierto
  <2>3. CASE Sigue(h, "marcar") /\ UNCHANGED sirvio
    <3>1. PagoDe(h)' = c /\ EnEntrega(h)'
      BY <1>0, <2>3 DEF Sigue, EnEntrega, PagoDe
    <3> QED BY <1>2, <2>1, <2>3, <3>1 DEF Cubierto
  <2> QED BY <1>12, <2>2, <2>3 DEF Encolar
\* What Aplica leaves of an approval: it is delivered, or NoAplicable flagged it.
<1>13. ASSUME Aplica(h), NoAplicable(c) => revision'[c]
       PROVE  /\ Otros /\ Cubierto(c)'
              /\ \A q \in Pago : aplicado[q] > 0 => aplicado'[q] > 0
  <2>1. Otros
    BY <1>0, <1>13 DEF Aplica, Sigue, Termina
  <2>2. \A q \in Pago : aplicado[q] > 0 => aplicado'[q] > 0
    BY <1>13 DEF Aplica, Coherente, TypeOK
  <2>3. CASE ~NoAplicable(c)
    <3>1. PagoDe(h)' = c /\ EnEntrega(h)'
      <4>1. \E pc \in {"act_leer", "encolar"} : hilo' = [hilo EXCEPT ![h].pc = pc]
        BY <1>13, <2>3 DEF Aplica, Sigue
      <4> QED BY <1>0, <4>1 DEF EnEntrega, PagoDe, Llamada
    <3> QED BY <2>1, <2>2, <3>1 DEF Cubierto
  <2> QED BY <1>13, <2>1, <2>2, <2>3 DEF Cubierto
<1>14. CASE Actualizar(h)
  <2>1. ~EnEntrega(h) /\ UNCHANGED <<ref, sirvio>>
    BY <1>14 DEF Actualizar, En, EnEntrega, cobro
  <2>2. CASE Actualizable(c)
    <3>1. ~Aprobado(c)
      BY <2>2 DEF Actualizable, Aprobado
    <3>2. \A p \in Pago \ {c} : registro'[p] = registro[p] /\ revision'[p] = revision[p]
      BY <1>0, <1>14, <2>2 DEF Actualizar, Coherente, TypeOK
    <3>3. Aplica(h) /\ (NoAplicable(c) => revision'[c])
      BY <1>0, <1>14, <2>2 DEF Actualizar
    <3> QED BY <1>3, <1>13, <2>1, <3>1, <3>2, <3>3
  <2>3. CASE ~Actualizable(c)
    <3>1. Otros /\ UNCHANGED <<registro, revision, aplicado>>
      BY <1>0, <1>14, <2>3 DEF Actualizar, Sigue
    <3> QED BY <1>1, <2>1, <3>1 DEF Aprobado
  <2> QED BY <2>2, <2>3
<1>15. CASE Crear(h)
  <2>1. ~EnEntrega(h) /\ UNCHANGED <<ref, sirvio>>
    BY <1>15 DEF Crear, En, EnEntrega, cobro
  <2>2. CASE registro[c] = "ausente"
    <3>1. ~Aprobado(c)
      BY <2>2 DEF Aprobado
    <3>2. \A p \in Pago \ {c} : registro'[p] = registro[p] /\ revision'[p] = revision[p]
      BY <1>0, <1>15, <2>2 DEF Crear, Coherente, TypeOK
    <3>3. CASE hilo[h].status = "approved"
      <4>1. Aplica(h)
        BY <1>15, <2>2, <3>3 DEF Crear
      <4>2. revision' = [revision EXCEPT ![c] = hilo[h].status = "approved" /\ NoAplicable(c)]
        BY <1>15, <2>2 DEF Crear
      <4>3. NoAplicable(c) => revision'[c]
        BY <1>0, <3>3, <4>2
      <4> QED BY <1>3, <1>13, <2>1, <3>1, <3>2, <4>1, <4>3
    <3>4. CASE hilo[h].status # "approved"
      <4>1. Otros /\ UNCHANGED aplicado
        BY <1>0, <1>15, <2>2, <3>4 DEF Crear, Termina
      <4>2. registro'[c] = "RECHAZADO"
        BY <1>15, <2>2, <3>4 DEF Crear, EstadoNuevo, Coherente, TypeOK
      <4> QED BY <1>3, <2>1, <3>1, <3>2, <4>1, <4>2 DEF Aprobado
    <3> QED BY <3>3, <3>4
  <2>3. CASE registro[c] # "ausente"
    <3>1. Otros /\ UNCHANGED <<registro, revision, aplicado>>
      BY <1>0, <1>15, <2>3 DEF Crear, Termina
    <3> QED BY <1>1, <2>1, <3>1 DEF Aprobado
  <2> QED BY <2>2, <2>3
<1> QED BY <1>4, <1>5, <1>6, <1>7, <1>8, <1>9, <1>10, <1>11, <1>12, <1>14, <1>15 DEF Paso

\* What starts a call takes a free slot, which delivers nothing.
LEMMA PedidoNoPierde ==
    ASSUME Coherente, NadaSePierde, NEW h \in Hilos, Pedido(h)
    PROVE  NadaSePierde'
<1>1. /\ En(h, "libre") /\ UNCHANGED <<ref, sirvio, aplicado, revision, registro>>
      /\ \E c : Empieza(h, c)
  BY DEF Pedido, Webhook, Retorno, Resolver, cobro, fila, historia
<1>2. hilo \in [Hilos -> Llamada]
  BY DEF Coherente, TypeOK
<1>3. (\A g \in Hilos \ {h} : hilo'[g] = hilo[g]) /\ ~EnEntrega(h)
  BY <1>1, <1>2 DEF Empieza, En, EnEntrega
<1> QED BY <1>1, <1>3, SigueCubierto DEF NadaSePierde, Aprobado

LEMMA IInvInductiva == IInv /\ [Next]_vars => IInv'
<1> SUFFICES ASSUME IInv, [Next]_vars PROVE IInv'
  OBVIOUS
<1>1. Coherente /\ Coherente'
  BY CoherenteInductiva DEF IInv
<1> SUFFICES ASSUME reinicios' = 0 PROVE NadaSePierde'
  BY <1>1 DEF IInv
<1>2. ASSUME NEW h \in Hilos, Pedido(h) \/ Paso(h) PROVE reinicios' = reinicios
  BY <1>2 DEF Pedido, Paso, Webhook, Retorno, Resolver, Consultar, Buscar, Actualizar, Crear,
       Reembolsar, ActivarLee, ActivarConfirma, Encolar, Marcar, ResolverReclama, ResolverEmite
<1>3. ASSUME NEW h \in Hilos, Pedido(h) PROVE NadaSePierde'
  BY <1>1, <1>2, <1>3, PedidoNoPierde DEF IInv
<1>4. ASSUME NEW h \in Hilos, Paso(h) PROVE NadaSePierde'
  <2>1. PagoDe(h) \in Pago
    BY <1>1, <1>4 DEF Paso, Consultar, Buscar, Actualizar, Crear, Reembolsar, ActivarLee,
       ActivarConfirma, Encolar, Marcar, ResolverReclama, ResolverEmite, En, PagoDe,
       Coherente, TypeOK
  <2> QED BY <1>1, <1>2, <1>4, <2>1, PasoNoPierde DEF IInv
<1>5. CASE Afuera \/ UNCHANGED vars
  <2>1. UNCHANGED <<reinicios, ref, sirvio, revision, aplicado, hilo, registro>>
    BY <1>5 DEF Afuera, CambiaEnMP, CierraDestino, vars, cobro, fila, historia
  <2> QED BY <2>1 DEF IInv, NadaSePierde, Cubierto, Aprobado, PagadaPorOtro, EnEntrega, PagoDe
<1>6. ~Reiniciar
  BY <1>1 DEF Reiniciar, Coherente, TypeOK
<1> QED BY <1>3, <1>4, <1>5, <1>6 DEF Next

LEMMA IInvSiempre == Spec => []IInv
<1>1. Init => IInv
  BY InicioCoherente DEF IInv, Init, NadaSePierde, Aprobado
<1> QED BY <1>1, IInvInductiva, PTL DEF Spec

-----------------------------------------------------------------------------
(***************************************************************************)
(* Pagos implements Cobros.                                                *)
(***************************************************************************)

\* What Coherente does not say of the rows and the refinement needs.
Asentado(p) ==
    /\ resolucion[p] # "ninguna" => revision[p]
    /\ Aprobado(p) => mp[p] \in {"approved", "devuelto"}
    /\ sirvio[p] => ref[p] \in Destino /\ destino[ref[p]] # "espera"
Asentados == \A p \in Pago : Asentado(p)

\* It survives a step that only adds to what it asks for.
LEMMA SigueAsentado ==
    ASSUME NEW p \in Pago, Asentado(p), UNCHANGED ref,
           resolucion'[p] # "ninguna" => resolucion[p] # "ninguna" \/ revision'[p],
           revision[p] => revision'[p],
           Aprobado(p)' => Aprobado(p) \/ mp'[p] \in {"approved", "devuelto"},
           mp[p] \in {"approved", "devuelto"} => mp'[p] \in {"approved", "devuelto"},
           sirvio'[p] => sirvio[p] \/ (ref[p] \in Destino /\ destino'[ref[p]] = "dado"),
           \A d \in Destino : destino[d] # "espera" => destino'[d] # "espera"
    PROVE  Asentado(p)'
BY DEF Asentado

LEMMA PasoAsienta ==
    ASSUME Coherente, Asentados, NEW h \in Hilos, Paso(h)
    PROVE  Asentados'
<1> DEFINE c == PagoDe(h)
<1> SUFFICES ASSUME NEW p \in Pago PROVE Asentado(p)'
  BY DEF Asentados
<1>0. /\ c \in Pago
      /\ \A r \in {registro, revision, resolucion, mp, sirvio} : DOMAIN r = Pago
      /\ DOMAIN destino = Destino
      /\ Asentado(p)
      /\ hilo[h].status = "approved" => mp[c] \in {"approved", "devuelto"}
  BY DEF Coherente, TypeOK, Asentados, LlamadaCoherente, Paso, Consultar, Buscar, Actualizar,
     Crear, Reembolsar, ActivarLee, ActivarConfirma, Encolar, Marcar, ResolverReclama,
     ResolverEmite, En, PagoDe
<1>1. CASE Consultar(h) \/ Buscar(h) \/ ActivarLee(h) \/ ResolverEmite(h)
  <2>1. UNCHANGED <<ref, resolucion, revision, registro, mp, sirvio, destino>>
    BY <1>1 DEF Consultar, Buscar, ActivarLee, ResolverEmite, cobro, fila, historia
  <2> QED BY <1>0, <2>1 DEF Asentado, Aprobado
<1>2. CASE Actualizar(h)
  <2>1. UNCHANGED <<ref, resolucion, mp, sirvio, destino>>
    BY <1>2 DEF Actualizar, cobro
  <2>2. CASE p # c \/ ~Actualizable(c)
    <3>1. registro'[p] = registro[p] /\ revision'[p] = revision[p]
      BY <1>0, <1>2, <2>2 DEF Actualizar
    <3> QED BY <1>0, <2>1, <3>1 DEF Asentado, Aprobado
  <2>3. CASE p = c /\ Actualizable(c)
    <3>1. hilo[h].status = "approved" /\ ~revision[p]
      BY <1>2, <2>3 DEF Actualizar, Actualizable, En, PagoDe, Coherente, LlamadaCoherente,
         FilaCoherente, Aprobado
    <3> QED BY <1>0, <2>1, <2>3, <3>1 DEF Asentado
  <2> QED BY <2>2, <2>3
<1>3. CASE Crear(h)
  <2>1. UNCHANGED <<ref, resolucion, mp, sirvio, destino>>
    BY <1>3 DEF Crear, cobro
  <2>2. CASE p # c \/ registro[c] # "ausente"
    <3>1. registro'[p] = registro[p] /\ revision'[p] = revision[p]
      BY <1>0, <1>3, <2>2 DEF Crear
    <3> QED BY <1>0, <2>1, <3>1 DEF Asentado, Aprobado
  <2>3. CASE p = c /\ registro[c] = "ausente"
    <3>1. ~revision[p] /\ (Aprobado(p)' => hilo[h].status = "approved")
      BY <1>0, <1>3, <2>3 DEF Crear, EstadoNuevo, Coherente, FilaCoherente, Aprobado
    <3> QED BY <1>0, <2>1, <2>3, <3>1 DEF Asentado
  <2> QED BY <2>2, <2>3
<1>4. CASE Reembolsar(h)
  <2>1. UNCHANGED <<ref, resolucion, mp, sirvio, destino>>
    BY <1>4 DEF Reembolsar, cobro, historia
  <2>2. /\ revision[p] => revision'[p]
        /\ Aprobado(p)' => Aprobado(p)
    BY <1>0, <1>4 DEF Reembolsar, Aprobado
  <2> QED BY <1>0, <2>1, <2>2 DEF Asentado
<1>5. CASE Marcar(h)
  <2>1. UNCHANGED <<ref, resolucion, registro, mp, sirvio, destino>>
    BY <1>5 DEF Marcar, cobro, historia
  <2>2. revision[p] => revision'[p]
    BY <1>0, <1>5 DEF Marcar
  <2> QED BY <1>0, <2>1, <2>2 DEF Asentado, Aprobado
<1>6. CASE ResolverReclama(h)
  <2>1. UNCHANGED <<ref, revision, mp, sirvio, destino>>
    BY <1>6 DEF ResolverReclama, cobro, historia
  <2>2. revision[c] /\ Aprobado(c)
    BY <1>0, <1>6 DEF ResolverReclama, En, PagoDe, Coherente, LlamadaCoherente, FilaCoherente
  <2>3. p # c => registro'[p] = registro[p] /\ resolucion'[p] = resolucion[p]
    BY <1>0, <1>6 DEF ResolverReclama
  <2> QED BY <1>0, <2>1, <2>2, <2>3 DEF Asentado, Aprobado
<1>7. CASE ActivarConfirma(h)
  <2>1. UNCHANGED <<ref, resolucion, revision, registro, mp>>
    BY <1>7 DEF ActivarConfirma, cobro, fila
  <2>2. ref[c] \in Destino
    BY <1>7 DEF ActivarConfirma, En, PagoDe, Coherente, LlamadaCoherente, Destino
  <2>3. /\ destino' = [destino EXCEPT ![ref[c]] = "dado"]
        /\ sirvio' = [sirvio EXCEPT ![c] = TRUE]
    BY <1>7 DEF ActivarConfirma
  <2> QED BY <1>0, <2>1, <2>2, <2>3, SigueAsentado DEF Aprobado
<1>8. CASE Encolar(h)
  <2>1. UNCHANGED <<ref, resolucion, revision, registro, mp>>
    BY <1>8 DEF Encolar, cobro, fila
  <2>2. ref[c] \in Destino
    BY <1>8 DEF Encolar, En, PagoDe, Coherente, LlamadaCoherente, Destino
  <2>3. \/ /\ destino' = [destino EXCEPT ![ref[c]] = "dado"]
           /\ sirvio' = [sirvio EXCEPT ![c] = TRUE]
        \/ UNCHANGED <<destino, sirvio>>
    BY <1>8 DEF Encolar
  <2> QED BY <1>0, <2>1, <2>2, <2>3, SigueAsentado DEF Aprobado
<1> QED BY <1>1, <1>2, <1>3, <1>4, <1>5, <1>6, <1>7, <1>8 DEF Paso

LEMMA AsentadosSiempre == Spec => []Asentados
<1>1. Init => Asentados
  BY DEF Init, Asentados, Asentado, Aprobado
<1>2. IInv /\ Asentados /\ [Next]_vars => Asentados'
  <2> SUFFICES ASSUME IInv, Asentados, [Next]_vars PROVE Asentados'
    OBVIOUS
  <2>0. Coherente
    BY DEF IInv
  <2>1. ASSUME NEW h \in Hilos, Paso(h) PROVE Asentados'
    BY <2>0, <2>1, PasoAsienta
  <2>2. ASSUME NEW h \in Hilos, Pedido(h) PROVE Asentados'
    <3>1. UNCHANGED <<ref, resolucion, revision, registro, mp, sirvio, destino>>
      BY <2>2 DEF Pedido, Webhook, Retorno, Resolver, cobro, fila, historia
    <3> QED BY <3>1 DEF Asentados, Asentado, Aprobado
  <2>3. CASE Reiniciar \/ UNCHANGED vars
    <3>1. UNCHANGED <<ref, resolucion, revision, registro, mp, sirvio, destino>>
      BY <2>3 DEF Reiniciar, vars, cobro, fila, historia
    <3> QED BY <3>1 DEF Asentados, Asentado, Aprobado
  <2>4. ASSUME NEW q \in Pago, NEW b \in EstadoMP, CambiaEnMP(q, b) PROVE Asentados'
    <3>1. UNCHANGED <<ref, resolucion, revision, registro, sirvio, destino>>
      BY <2>4 DEF CambiaEnMP, cobro, fila, historia
    <3>2. mp \in [Pago -> EstadoMP]
      BY <2>0 DEF Coherente, TypeOK
    <3>3. \A p \in Pago : mp[p] \in {"approved", "devuelto"} => mp'[p] \in {"approved", "devuelto"}
      BY <2>4, <3>2 DEF CambiaEnMP, Sucede
    <3> QED BY <3>1, <3>3 DEF Asentados, Asentado, Aprobado
  <2>5. ASSUME NEW d \in Destino, CierraDestino(d) PROVE Asentados'
    <3>1. UNCHANGED <<ref, resolucion, revision, registro, sirvio, mp>>
      BY <2>5 DEF CierraDestino, cobro, fila, historia
    <3>2. \A e \in Destino : destino[e] # "espera" => destino'[e] # "espera"
      BY <2>0, <2>5 DEF CierraDestino, Coherente, TypeOK
    <3> QED BY <3>1, <3>2 DEF Asentados, Asentado, Aprobado
  <2> QED BY <2>1, <2>2, <2>3, <2>4, <2>5 DEF Next, Afuera
<1> QED BY <1>1, <1>2, IInvSiempre, PTL DEF Spec

\* A step that touches nothing the owner or a customer sees is none of Cobros.
LEMMA PasoMudo ==
    ASSUME UNCHANGED <<ref, mp, sirvio, aplicado, resolucion, revision, vales>>
    PROVE  UNCHANGED Promesa!vars
BY DEF Promesa!vars, pagados, entrega, lista, conVale

\* The steps of Cobros, one component of the mapping each.
LEMMA PasoQuePaga ==
    ASSUME NEW p \in Pago, NEW b, mp \in [Pago -> EstadoMP], mp' = [mp EXCEPT ![p] = b],
           mp[p] \in {"approved", "devuelto"} => b \in {"approved", "devuelto"},
           UNCHANGED <<ref, sirvio, aplicado, resolucion, revision, vales>>
    PROVE  Promesa!Pagar(p) \/ UNCHANGED Promesa!vars
<1>1. UNCHANGED <<entrega, lista, conVale>>
  BY DEF entrega, lista, conVale
<1>2. CASE p \notin pagados /\ b \in {"approved", "devuelto"}
  <2>1. pagados' = pagados \cup {p}
    BY <1>2 DEF pagados
  <2> QED BY <1>1, <1>2, <2>1 DEF Promesa!Pagar
<1>3. CASE p \in pagados \/ b \notin {"approved", "devuelto"}
  <2>1. pagados' = pagados
    BY <1>3 DEF pagados
  <2> QED BY <1>1, <2>1 DEF Promesa!vars
<1> QED BY <1>2, <1>3

LEMMA PasoQueToma ==
    ASSUME NEW p \in Pago, aplicado \in [Pago -> Nat], aplicado[p] = 0, ~sirvio[p],
           ~revision[p], resolucion[p] = "ninguna", mp[p] \in {"approved", "devuelto"},
           aplicado' = [aplicado EXCEPT ![p] = @ + 1],
           UNCHANGED <<ref, mp, sirvio, resolucion, vales>>,
           \A q \in Pago : revision'[q] <=> revision[q]
    PROVE  Promesa!Tomar(p)
<1>1. UNCHANGED <<pagados, lista, conVale>>
  <2>1. \A q \in Pago : (IF revision'[q] THEN "en_lista" ELSE "fuera") =
                        (IF revision[q] THEN "en_lista" ELSE "fuera")
    OBVIOUS
  <2> QED BY <2>1 DEF pagados, lista, conVale
<1>2. /\ p \in pagados /\ entrega[p] = "nada" /\ lista[p] = "fuera"
  <2>1. p \in pagados
    BY DEF pagados
  <2>2. entrega[p] = "nada"
    BY DEF entrega
  <2>3. lista[p] = "fuera"
    BY DEF lista
  <2> QED BY <2>1, <2>2, <2>3
<1>3. entrega' = [entrega EXCEPT ![p] = "tomado"]
  <2>1. aplicado'[p] > 0 /\ \A q \in Pago \ {p} : aplicado'[q] = aplicado[q]
    OBVIOUS
  <2>2. \A q \in Pago : entrega'[q] = IF q = p THEN "tomado" ELSE entrega[q]
    BY <2>1 DEF entrega
  <2> QED BY <2>2 DEF entrega
<1> QED BY <1>1, <1>2, <1>3 DEF Promesa!Tomar

LEMMA PasoQueDa ==
    ASSUME NEW p \in Pago, sirvio \in [Pago -> BOOLEAN], aplicado[p] > 0,
           ref[p] \in Turno => \A q \in Pago : ref[q] = ref[p] => ~sirvio[q],
           sirvio' = [sirvio EXCEPT ![p] = TRUE],
           UNCHANGED <<ref, mp, aplicado, resolucion, revision, vales>>
    PROVE  Promesa!Dar(p) \/ UNCHANGED Promesa!vars
<1>1. UNCHANGED <<pagados, lista, conVale>>
  BY DEF pagados, lista, conVale
<1>2. CASE sirvio[p]
  <2>1. sirvio' = sirvio
    BY <1>2
  <2> QED BY <1>1, <2>1 DEF Promesa!vars, entrega
<1>3. CASE ~sirvio[p]
  <2>1. entrega[p] = "tomado"
    BY <1>3 DEF entrega
  <2>2. ref[p] \in Turno => \A q \in Pago : ref[q] = ref[p] => entrega[q] # "dado"
    BY DEF entrega
  <2>3. entrega' = [entrega EXCEPT ![p] = "dado"]
    BY DEF entrega
  <2> QED BY <1>1, <2>1, <2>2, <2>3 DEF Promesa!Dar
<1> QED BY <1>2, <1>3

LEMMA PasoQueDeriva ==
    ASSUME NEW p \in Pago, mp[p] \in {"approved", "devuelto"},
           revision'[p], \A q \in Pago \ {p} : revision'[q] <=> revision[q],
           UNCHANGED <<ref, mp, sirvio, aplicado, resolucion, vales>>
    PROVE  Promesa!Derivar(p) \/ UNCHANGED Promesa!vars
<1>1. UNCHANGED <<pagados, entrega, conVale>>
  BY DEF pagados, entrega, conVale
<1>2. CASE resolucion[p] # "ninguna" \/ revision[p]
  <2>1. lista' = lista
    BY <1>2 DEF lista
  <2> QED BY <1>1, <2>1 DEF Promesa!vars
<1>3. CASE resolucion[p] = "ninguna" /\ ~revision[p]
  <2>1. p \in pagados /\ lista[p] = "fuera"
    BY <1>3 DEF pagados, lista
  <2>2. lista' = [lista EXCEPT ![p] = "en_lista"]
    BY <1>3 DEF lista
  <2> QED BY <1>1, <2>1, <2>2 DEF Promesa!Derivar
<1> QED BY <1>2, <1>3

\* Every awaited statement is a step of Cobros on the payment of the call, or
\* none: the claims are what Tomar, Dar, Derivar and Resolver need to be alone.
LEMMA PasoImplementa ==
    ASSUME Coherente, Asentados, NEW h \in Hilos, Paso(h)
    PROVE  Promesa!Next \/ UNCHANGED Promesa!vars
<1> DEFINE c == PagoDe(h)
<1>0. /\ c \in Pago /\ Asentado(c)
      /\ aplicado \in [Pago -> Nat] /\ sirvio \in [Pago -> BOOLEAN]
      /\ revision \in [Pago -> BOOLEAN] /\ vales \in [Pago -> Nat]
      /\ resolucion \in [Pago -> Acciones \cup {"ninguna"}]
      /\ hilo[h] \in Llamada
      /\ LlamadaCoherente(h) /\ FilaCoherente(c)
  BY DEF Coherente, TypeOK, Asentados, Paso, Consultar, Buscar, Actualizar,
     Crear, Reembolsar, ActivarLee, ActivarConfirma, Encolar, Marcar, ResolverReclama,
     ResolverEmite, En, PagoDe
<1>1. CASE Consultar(h) \/ Buscar(h) \/ ActivarLee(h)
  BY <1>1, PasoMudo DEF Consultar, Buscar, ActivarLee, cobro, fila, historia
\* Approving a row takes the payment or sends it to the owner.
<1>2. ASSUME Aplica(h), ~Aprobado(c), hilo[h].status = "approved", hilo[h].pc # "libre",
             revision' = [revision EXCEPT ![c] = NoAplicable(c)],
             UNCHANGED <<ref, mp, sirvio, resolucion, vales>>
      PROVE  Promesa!Next \/ UNCHANGED Promesa!vars
  <2>1. /\ mp[c] \in {"approved", "devuelto"} /\ aplicado[c] = 0 /\ ~sirvio[c] /\ ~revision[c]
        /\ resolucion[c] = "ninguna"
    BY <1>0, <1>2 DEF LlamadaCoherente, FilaCoherente, Asentado, PagoDe
  <2>2. CASE NoAplicable(c)
    <3>1. revision'[c] /\ \A q \in Pago \ {c} : revision'[q] <=> revision[q]
      BY <1>0, <1>2, <2>2
    <3>2. UNCHANGED aplicado
      BY <1>2, <2>2 DEF Aplica
    <3> QED BY <1>0, <1>2, <2>1, <3>1, <3>2, PasoQueDeriva DEF Promesa!Next
  <2>3. CASE ~NoAplicable(c)
    <3>1. \A q \in Pago : revision'[q] <=> revision[q]
      BY <1>0, <1>2, <2>1, <2>3
    <3>2. aplicado' = [aplicado EXCEPT ![c] = @ + 1]
      BY <1>2, <2>3 DEF Aplica
    <3> QED BY <1>0, <1>2, <2>1, <3>1, <3>2, PasoQueToma DEF Promesa!Next
  <2> QED BY <2>2, <2>3
<1>3. CASE Actualizar(h)
  <2>1. /\ UNCHANGED <<ref, mp, sirvio, resolucion, vales>>
        /\ hilo[h].status = "approved" /\ hilo[h].pc # "libre"
    BY <1>0, <1>3 DEF Actualizar, LlamadaCoherente, En, cobro
  <2>2. CASE Actualizable(c)
    BY <1>2, <1>3, <2>1, <2>2 DEF Actualizar, Actualizable, Aprobado
  <2>3. CASE ~Actualizable(c)
    BY <1>3, <2>1, <2>3, PasoMudo DEF Actualizar
  <2> QED BY <2>2, <2>3
<1>4. CASE Crear(h)
  <2>1. UNCHANGED <<ref, mp, sirvio, resolucion, vales>> /\ hilo[h].pc # "libre"
    BY <1>4 DEF Crear, En, cobro
  <2>2. CASE registro[c] = "ausente" /\ hilo[h].status = "approved"
    <3>1. Aplica(h) /\ ~Aprobado(c)
      BY <1>4, <2>2 DEF Crear, Aprobado
    <3>2. revision' = [revision EXCEPT ![c] = (hilo[h].status = "approved" /\ NoAplicable(c))]
      BY <1>4, <2>2 DEF Crear
    <3>3. (hilo[h].status = "approved" /\ NoAplicable(c)) = NoAplicable(c)
      BY <2>2 DEF NoAplicable
    <3>4. revision' = [revision EXCEPT ![c] = NoAplicable(c)]
      BY ONLY <3>2, <3>3
    <3> QED BY <1>2, <2>1, <2>2, <3>1, <3>4
  <2>3. CASE registro[c] = "ausente" /\ hilo[h].status # "approved"
    <3>1. UNCHANGED aplicado
      BY <1>4, <2>3 DEF Crear
    <3>2. ~revision[c]
      BY <1>0, <2>3 DEF FilaCoherente, Aprobado
    <3>3. revision' = [revision EXCEPT ![c] = (hilo[h].status = "approved" /\ NoAplicable(c))]
      BY <1>4, <2>3 DEF Crear
    <3>4. revision' = revision
      BY <1>0, <2>3, <3>2, <3>3
    <3> QED BY <2>1, <3>1, <3>4, PasoMudo
  <2>4. CASE registro[c] # "ausente"
    BY <1>4, <2>1, <2>4, PasoMudo DEF Crear
  <2> QED BY <2>2, <2>3, <2>4
<1>5. CASE Reembolsar(h)
  <2>1. UNCHANGED <<ref, mp, sirvio, aplicado, resolucion, vales>>
    BY <1>5 DEF Reembolsar, cobro, historia
  <2>2. CASE registro[c] = "APROBADO"
    <3>1. revision' = [revision EXCEPT ![c] = TRUE] /\ mp[c] \in {"approved", "devuelto"}
      BY <1>0, <1>5, <2>2 DEF Reembolsar, Asentado, Aprobado
    <3>2. revision'[c] /\ \A q \in Pago \ {c} : revision'[q] <=> revision[q]
      BY <1>0, <3>1
    <3> QED BY <1>0, <2>1, <3>1, <3>2, PasoQueDeriva DEF Promesa!Next
  <2>3. CASE registro[c] # "APROBADO"
    BY <1>5, <2>1, <2>3, PasoMudo DEF Reembolsar
  <2> QED BY <2>2, <2>3
<1>6. CASE Marcar(h)
  <2>1. UNCHANGED <<ref, mp, sirvio, aplicado, resolucion, vales>>
    BY <1>6 DEF Marcar, cobro, historia
  <2>2. revision' = [revision EXCEPT ![c] = TRUE] /\ mp[c] \in {"approved", "devuelto"}
    BY <1>0, <1>6 DEF Marcar, LlamadaCoherente, EnEntrega, En, PagoDe
  <2>3. revision'[c] /\ \A q \in Pago \ {c} : revision'[q] <=> revision[q]
    BY <1>0, <2>2
  <2> QED BY <1>0, <2>1, <2>2, <2>3, PasoQueDeriva DEF Promesa!Next
<1>7. CASE ActivarConfirma(h)
  <2>1. UNCHANGED <<ref, mp, aplicado, resolucion, revision, vales>>
    BY <1>7 DEF ActivarConfirma, cobro, fila
  <2>2. sirvio' = [sirvio EXCEPT ![c] = TRUE] /\ aplicado[c] > 0 /\ ref[c] \notin Turno
    BY <1>0, <1>7, DestinosAssumption
       DEF ActivarConfirma, LlamadaCoherente, EnEntrega, En, PagoDe
  <2> QED BY <1>0, <2>1, <2>2, PasoQueDa DEF Promesa!Next
<1>8. CASE Encolar(h)
  <2>1. UNCHANGED <<ref, mp, aplicado, resolucion, revision, vales>>
    BY <1>8 DEF Encolar, cobro, fila
  <2>2. CASE destino[ref[c]] = "espera"
    <3>1. sirvio' = [sirvio EXCEPT ![c] = TRUE] /\ aplicado[c] > 0
      BY <1>0, <1>8, <2>2 DEF Encolar, LlamadaCoherente, EnEntrega, En, PagoDe
    <3>2. \A q \in Pago : ref[q] = ref[c] => ~sirvio[q]
      BY <2>2 DEF Asentados, Asentado
    <3> QED BY <1>0, <2>1, <3>1, <3>2, PasoQueDa DEF Promesa!Next
  <2>3. CASE destino[ref[c]] # "espera"
    BY <1>8, <2>1, <2>3, PasoMudo DEF Encolar
  <2> QED BY <2>2, <2>3
<1>9. CASE ResolverReclama(h)
  <2> DEFINE a == hilo[h].accion
  <2>1. /\ UNCHANGED <<ref, mp, sirvio, aplicado, revision, vales>>
        /\ revision[c] /\ a \in Acciones \cup {"ninguna"}
    BY <1>0, <1>9 DEF ResolverReclama, LlamadaCoherente, Llamada, En, PagoDe, cobro, historia
  <2>2. CASE resolucion' = resolucion
    BY <2>1, <2>2, PasoMudo
  <2>3. CASE resolucion' # resolucion
    <3>1. resolucion[c] = "ninguna" /\ resolucion' = [resolucion EXCEPT ![c] = a] /\ a # "ninguna"
      BY <1>0, <1>9, <2>3 DEF ResolverReclama, SinResolver
    <3>2. UNCHANGED <<pagados, entrega, conVale>>
      BY <2>1 DEF pagados, entrega, conVale
    <3>3. lista[c] = "en_lista"
      BY <1>0, <2>1, <3>1 DEF lista
    <3>4. \A q \in Pago : lista'[q] = IF q = c THEN a ELSE lista[q]
      BY <1>0, <2>1, <3>1 DEF lista
    <3>5. lista' = [lista EXCEPT ![c] = a]
      BY <3>4 DEF lista
    <3>6. a \in Promesa!Resoluciones
      BY <2>1, <3>1 DEF Acciones, Promesa!Resoluciones
    <3>7. Promesa!Resolver(c, a)
      BY <2>1, <3>2, <3>3, <3>5 DEF Promesa!Resolver
    <3> QED BY <1>0, <3>6, <3>7 DEF Promesa!Next
  <2> QED BY <2>2, <2>3
<1>10. CASE ResolverEmite(h)
  <2>1. /\ UNCHANGED <<ref, mp, sirvio, aplicado, resolucion, revision>>
        /\ vales' = [vales EXCEPT ![c] = @ + 1]
        /\ resolucion[c] = "emitir_vale" /\ vales[c] = 0
    BY <1>0, <1>10 DEF ResolverEmite, LlamadaCoherente, En, PagoDe, cobro, fila, historia
  <2>2. UNCHANGED <<pagados, entrega, lista>>
    BY <2>1 DEF pagados, entrega, lista
  <2>3. lista[c] = "emitir_vale" /\ c \notin conVale
    <3>1. lista[c] = "emitir_vale"
      BY <1>0, <2>1 DEF lista
    <3>2. c \notin conVale
      BY <2>1 DEF conVale
    <3> QED BY <3>1, <3>2
  <2>4. vales'[c] > 0 /\ \A q \in Pago \ {c} : vales'[q] = vales[q]
    BY <1>0, <2>1
  <2>5. conVale' = conVale \cup {c}
    BY <1>0, <2>4 DEF conVale
  <2>6. Promesa!Emitir(c)
    BY <2>1, <2>2, <2>3, <2>5 DEF Promesa!Emitir
  <2> QED BY <1>0, <2>6 DEF Promesa!Next
<1> QED BY <1>1, <1>3, <1>4, <1>5, <1>6, <1>7, <1>8, <1>9, <1>10 DEF Paso

-----------------------------------------------------------------------------
(***************************************************************************)
(* The theorems.                                                           *)
(***************************************************************************)

\* Every variable of PagosService has its type in every reachable state.
THEOREM TipoCorrecto == Spec => []TypeOK
<1>1. IInv => TypeOK
  BY DEF IInv, Coherente
<1> QED BY <1>1, IInvSiempre, PTL

\* registrarEstadoPago gives one call only the right to apply a payment.
THEOREM AplicadoUnaVez == Spec => []SeAplicaUnaVez
<1>1. IInv => SeAplicaUnaVez
  BY DEF IInv, Coherente, FilaCoherente, SeAplicaUnaVez
<1> QED BY <1>1, IInvSiempre, PTL

\* procesarPagoVerificado gives a session or a turn only against a payment
\* Mercado Pago approved, of the right amount, registered as approved.
THEOREM GiradoContraPago == Spec => []DadoEstaPago
<1>1. IInv => DadoEstaPago
  BY DEF IInv, Coherente, FilaCoherente, DadoEstaPago
<1> QED BY <1>1, IInvSiempre, PTL

\* resolverPagoParaRevision gives one voucher at most per reviewed payment.
THEOREM UnVale == Spec => []UnValePorRevision
<1>1. IInv => UnValePorRevision
  BY DEF IInv, Coherente, FilaCoherente, UnValePorRevision
<1> QED BY <1>1, IInvSiempre, PTL

\* Until the process dies, an approved payment no call is working on served
\* its destination, is flagged for the owner, or paid a session already paid.
THEOREM NadaPerdido == Spec => []AprobadoSirveOSeRevisa
<1>1. IInv => AprobadoSirveOSeRevisa
  BY DEF IInv, NadaSePierde, Cubierto, AprobadoSirveOSeRevisa, EnCurso
<1> QED BY <1>1, IInvSiempre, PTL

\* A payment leaves the owner's list only by being resolved.
THEOREM RevisionResuelta == Spec => RevisionPersiste
<1> DEFINE Persiste == \A p \in Pago : EnRevision(p) => EnRevision(p)' \/ resolucion'[p] # "ninguna"
<1>1. IInv /\ [Next]_vars => [Persiste]_vars
  <2> SUFFICES ASSUME IInv, Next, NEW p \in Pago, revision[p] PROVE revision'[p]
    BY DEF EnRevision
  <2>1. revision \in [Pago -> BOOLEAN] /\ Aprobado(p)
    BY DEF IInv, Coherente, TypeOK, FilaCoherente
  <2>2. ASSUME NEW h \in Hilos, Actualizar(h) PROVE revision'[p]
    BY <2>1, <2>2 DEF Actualizar, Actualizable, Aprobado
  <2>3. ASSUME NEW h \in Hilos, Crear(h) PROVE revision'[p]
    BY <2>1, <2>3 DEF Crear, Aprobado
  <2>4. ASSUME NEW h \in Hilos, Reembolsar(h) \/ Marcar(h) PROVE revision'[p]
    BY <2>1, <2>4 DEF Reembolsar, Marcar
  <2>5. ASSUME NEW h \in Hilos, Pedido(h) PROVE revision'[p]
    BY <2>5 DEF Pedido, Webhook, Retorno, Resolver, fila
  <2>6. CASE Afuera \/ Reiniciar
    BY <2>6 DEF Afuera, CambiaEnMP, CierraDestino, Reiniciar, fila
  <2>7. ASSUME NEW h \in Hilos, Paso(h) PROVE revision'[p]
    BY <2>2, <2>3, <2>4, <2>7 DEF Paso, Consultar, Buscar, ActivarLee, ActivarConfirma, Encolar,
       ResolverReclama, ResolverEmite, fila
  <2> QED BY <2>5, <2>6, <2>7 DEF Next
<1> QED BY <1>1, IInvSiempre, PTL DEF Spec, RevisionPersiste

\* PagosService implements Cobros: the calls in flight, the status they read,
\* their retries and a crash are nothing but stutters of the life of a payment.
THEOREM Implementa == Spec => ImplementaCobros
<1>1. Init => Promesa!Init
  <2> SUFFICES ASSUME Init PROVE Promesa!Init
    OBVIOUS
  <2>1. pagados = {}
    BY DEF Init, pagados
  <2>2. entrega = [p \in Pago |-> "nada"]
    BY DEF Init, entrega
  <2>3. lista = [p \in Pago |-> "fuera"]
    BY DEF Init, lista
  <2>4. conVale = {}
    <3>1. \A p \in Pago : vales[p] = 0
      BY DEF Init
    <3> QED BY <3>1 DEF conVale
  <2> QED BY <2>1, <2>2, <2>3, <2>4 DEF Promesa!Init
<1>2. IInv /\ Asentados /\ [Next]_vars => [Promesa!Next]_(Promesa!vars)
  <2> SUFFICES ASSUME IInv, Asentados, [Next]_vars
               PROVE  Promesa!Next \/ UNCHANGED Promesa!vars
    OBVIOUS
  <2>0. Coherente
    BY DEF IInv
  <2>1. ASSUME NEW h \in Hilos, Paso(h) PROVE Promesa!Next \/ UNCHANGED Promesa!vars
    BY <2>0, <2>1, PasoImplementa
  <2>2. ASSUME NEW h \in Hilos, Pedido(h) PROVE UNCHANGED Promesa!vars
    BY <2>2, PasoMudo DEF Pedido, Webhook, Retorno, Resolver, cobro, fila, historia
  <2>3. CASE Reiniciar \/ UNCHANGED vars
    BY <2>3, PasoMudo DEF Reiniciar, vars, cobro, fila, historia
  <2>4. ASSUME NEW d \in Destino, CierraDestino(d) PROVE UNCHANGED Promesa!vars
    BY <2>4, PasoMudo DEF CierraDestino, cobro, fila, historia
  <2>5. ASSUME NEW p \in Pago, NEW b \in EstadoMP, CambiaEnMP(p, b)
        PROVE  Promesa!Next \/ UNCHANGED Promesa!vars
    <3>1. /\ mp \in [Pago -> EstadoMP] /\ mp' = [mp EXCEPT ![p] = b]
          /\ mp[p] \in {"approved", "devuelto"} => b \in {"approved", "devuelto"}
          /\ UNCHANGED <<ref, sirvio, aplicado, resolucion, revision, vales>>
      BY <2>0, <2>5 DEF CambiaEnMP, Sucede, Coherente, TypeOK, cobro, fila, historia
    <3> QED BY <3>1, PasoQuePaga DEF Promesa!Next
  <2> QED BY <2>1, <2>2, <2>3, <2>4, <2>5 DEF Next, Afuera
<1> QED BY <1>1, <1>2, IInvSiempre, AsentadosSiempre, PTL DEF Spec, ImplementaCobros, Promesa!Spec

=============================================================================
