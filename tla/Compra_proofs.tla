---------------------------- MODULE Compra_proofs ----------------------------
(* Theorems of Compra, for any tabs, any number of reservations and of chairs and *)
(* any cap. IInv is inductive. Its parts but the cap are Base, and each lemma      *)
(* Base... shows that the steps of one actor keep them: of a tab, of a request     *)
(* (PedidoConserva says what a request may change) and of a reservation            *)
(* (FilaConserva). The cap follows apart: every step but two is Quieto, which      *)
(* cannot exceed it, and those two, the count and the row of unirse, are the ones  *)
(* the lock keeps together.                                                        *)
EXTENDS Compra, FiniteSetTheorems, TLAPS

Base == TypeOK /\ Coherente /\ Tramites /\ LeidoCierto /\ SesionRecordada

\* What the names stand for.
LEMMA Nombres ==
    /\ Nada \notin Reserva /\ Nada \notin Pestana
    /\ EnCurso = {"ESPERANDO_ENERGIA", "ACTIVA", "SALIDA"}
    /\ Terminal = {"COMPLETADA", "CANCELADA"}
    /\ Estado = {"ESPERANDO_ENERGIA", "ACTIVA", "SALIDA", "COMPLETADA", "CANCELADA",
                 "ninguna", "PENDIENTE", "EN_COLA"}
    /\ Paginas = {"cerrada", "chequeo", "landing", "mp", "exito", "fracaso",
                  "turno", "exitoTurno", "fracasoTurno"}
BY CompraAssumption DEF Nada, Reserva, EnCurso, Terminal, Estado, Paginas

\* The row that is inserted was free.
LEMMA LibreLibre ==
    ASSUME Libres # {}
    PROVE  Siguiente \in Reserva /\ reserva[Siguiente].estado = "ninguna"
BY DEF Libres, Siguiente

\* One row changes, one request takes a step: everything else stays.
LEMMA FilaPone ==
    ASSUME reserva \in [Reserva -> Fila], NEW r \in Reserva, NEW f \in Fila,
           reserva' = [reserva EXCEPT ![r] = f]
    PROVE  /\ reserva' \in [Reserva -> Fila]
           /\ \A s \in Reserva : reserva'[s] = IF s = r THEN f ELSE reserva[s]
OBVIOUS

\* A request ends.
LEMMA PasoFin ==
    ASSUME pedido \in [Pestana -> Solicitud], NEW t \in Pestana,
           pedido' = [pedido EXCEPT ![t] = SinPedido]
    PROVE  /\ pedido' \in [Pestana -> Solicitud]
           /\ \A s \in Pestana : pedido'[s] = IF s = t THEN SinPedido ELSE pedido[s]
BY DEF SinPedido, Solicitud

\* A request takes a step, and no other does.
LEMMA PasoPone ==
    ASSUME pedido \in [Pestana -> Solicitud], NEW t \in Pestana,
           NEW p \in {"no", "entrar", "reservar", "preferencia", "responder"}, Paso(t, p)
    PROVE  /\ pedido' \in [Pestana -> Solicitud]
           /\ \A s \in Pestana : s # t => pedido'[s] = pedido[s]
           /\ pedido'[t] = [pedido[t] EXCEPT !.paso = p]
<1>1. [pedido[t] EXCEPT !.paso = p] \in Solicitud
  BY DEF Solicitud
<1> QED BY <1>1 DEF Paso

\* A page is shown, and no other changes.
LEMMA MostrarPone ==
    ASSUME pagina \in [Pestana -> Vista], NEW t \in Pestana, NEW en \in Paginas,
           NEW q \in Reserva \cup {Nada}, Mostrar(t, en, q)
    PROVE  /\ pagina' \in [Pestana -> Vista]
           /\ \A s \in Pestana : s # t => pagina'[s] = pagina[s]
           /\ pagina'[t].en = en /\ pagina'[t].id = q
<1>1. [en |-> en, id |-> q] \in Vista
  BY DEF Vista
<1> QED BY <1>1 DEF Mostrar

\* The landing opens: a page of the tab that opens it, with a reservation or without.
LEMMA LandingPone ==
    ASSUME TypeOK, NEW t \in Pestana, NEW pendiente \in Reserva \cup {Nada},
           AbrirLanding(t, pendiente)
    PROVE  /\ pagina' \in [Pestana -> Vista]
           /\ \A s \in Pestana : s # t => pagina'[s] = pagina[s]
           /\ pagina'[t].en \in {"turno", "chequeo", "landing"}
           /\ pagina'[t].en # "landing" => pagina'[t].id \in Reserva
<1>1. CASE pendiente # Nada /\ Mostrar(t, "turno", pendiente)
  BY <1>1, MostrarPone, Nombres DEF TypeOK
<1>2. CASE sesionActiva # Nada /\ Mostrar(t, "chequeo", sesionActiva)
  BY <1>2, MostrarPone, Nombres DEF TypeOK
<1>3. CASE Mostrar(t, "landing", Nada)
  BY <1>3, MostrarPone, Nombres DEF TypeOK
<1> QED BY <1>1, <1>2, <1>3 DEF AbrirLanding

\* Forgetting leaves nothing, or a reservation.
LEMMA OlvidarTipo ==
    ASSUME TypeOK, NEW t \in Pestana, NEW q \in Reserva
    PROVE  /\ olvidar(q) \in Reserva \cup {Nada}
           /\ olvidarTurno(t, q) \in [Pestana -> Reserva \cup {Nada}]
BY DEF olvidar, olvidarTurno, TypeOK

\* What a tab does.
LEMMA BasePestana ==
    ASSUME Base, NEW t \in Pestana, DeLaPestana(t)
    PROVE  Base'
<1>1. CASE Escanear(t)
  <2>0. /\ pagina' \in [Pestana -> Vista]
        /\ \A s \in Pestana : s # t => pagina'[s] = pagina[s]
        /\ pagina'[t].en \in {"turno", "chequeo", "landing"}
        /\ pagina'[t].en # "landing" => pagina'[t].id \in Reserva
    BY <1>1, LandingPone, Nombres DEF Escanear, Base, TypeOK
  <2>1. TypeOK'
    BY <2>0, <1>1 DEF Escanear, servidor, Base, TypeOK
  <2>2. Coherente'
    BY <2>0, <1>1 DEF Escanear, Base, Coherente
  <2>3. LeidoCierto'
    BY <2>0, <1>1, Nombres DEF Escanear, servidor, Base, TypeOK, LeidoCierto
  <2>4. SesionRecordada'
    BY Nombres, <1>1 DEF Escanear, AbrirLanding, Mostrar, Base, TypeOK, SesionRecordada,
       Coherente, servidor, navegador
  <2>5. Tramites'
    BY Nombres, <1>1 DEF Escanear, AbrirLanding, Mostrar, Base, TypeOK, Tramites,
       Coherente, servidor, navegador
  <2> QED BY <2>1, <2>2, <2>3, <2>4, <2>5 DEF Base
<1>2. CASE Volver(t)
  <2>0. /\ pagina' \in [Pestana -> Vista]
        /\ \A s \in Pestana : s # t => pagina'[s] = pagina[s]
        /\ pagina'[t].en \in {"turno", "chequeo", "landing"}
        /\ pagina'[t].en # "landing" => pagina'[t].id \in Reserva
    BY <1>2, LandingPone, Nombres DEF Volver, Base, TypeOK
  <2>1. TypeOK'
    BY <2>0, <1>2 DEF Volver, servidor, Base, TypeOK
  <2>2. Coherente'
    BY <2>0, <1>2 DEF Volver, Base, Coherente
  <2>3. LeidoCierto'
    BY <2>0, <1>2, Nombres DEF Volver, servidor, Base, TypeOK, LeidoCierto
  <2>4. SesionRecordada'
    BY Nombres, <1>2 DEF Volver, AbrirLanding, Mostrar, Base, TypeOK, SesionRecordada,
       Coherente, servidor, navegador
  <2>5. Tramites'
    BY Nombres, <1>2 DEF Volver, AbrirLanding, Mostrar, Base, TypeOK, Tramites, Coherente,
       servidor, navegador
  <2> QED BY <2>1, <2>2, <2>3, <2>4, <2>5 DEF Base
<1>3. CASE Cerrar(t)
  <2>1. TypeOK'
    BY Nombres, <1>3 DEF Cerrar, Cerrada, Base, TypeOK, Coherente, Tramites, servidor,
       navegador, Vista
  <2>2. Coherente'
    BY Nombres, <1>3 DEF Cerrar, Cerrada, Base, TypeOK, Coherente, servidor, navegador
  <2>3. LeidoCierto'
    BY Nombres, <1>3 DEF Cerrar, Cerrada, Base, TypeOK, LeidoCierto, Coherente, servidor,
       navegador
  <2>4. SesionRecordada'
    BY Nombres, <1>3 DEF Cerrar, Cerrada, Base, TypeOK, SesionRecordada, Coherente,
       servidor, navegador
  <2>5. Tramites'
    BY Nombres, <1>3 DEF Cerrar, Cerrada, Base, TypeOK, Tramites, Coherente, servidor,
       navegador
  <2> QED BY <2>1, <2>2, <2>3, <2>4, <2>5 DEF Base
<1>4. CASE Recargar(t)
  <2>1. TypeOK'
    BY Nombres, <1>4 DEF Recargar, recordar, Base, TypeOK, Coherente, Tramites, servidor,
       navegador
  <2>2. Coherente'
    BY Nombres, <1>4 DEF Recargar, recordar, Base, TypeOK, Coherente, servidor, navegador
  <2>3. LeidoCierto'
    BY Nombres, <1>4 DEF Recargar, recordar, Base, TypeOK, LeidoCierto, Coherente,
       servidor, navegador
  <2>4. SesionRecordada'
    BY Nombres, <1>4 DEF Recargar, recordar, Base, TypeOK, SesionRecordada, Coherente,
       servidor, navegador
  <2>5. Tramites'
    BY Nombres, <1>4 DEF Recargar, recordar, Base, TypeOK, Tramites, Coherente, servidor,
       navegador
  <2> QED BY <2>1, <2>2, <2>3, <2>4, <2>5 DEF Base
<1>5. CASE ResponderChequeo(t)
  <2>1. TypeOK'
    BY Nombres, <1>5 DEF ResponderChequeo, Base, TypeOK, Coherente, Tramites, servidor,
       navegador, Fila
  <2>2. Coherente'
    BY Nombres, <1>5 DEF ResponderChequeo, Base, TypeOK, Coherente, servidor, navegador
  <2>3. LeidoCierto'
    BY Nombres, <1>5 DEF ResponderChequeo, Base, TypeOK, LeidoCierto, Coherente, servidor,
       navegador
  <2>4. SesionRecordada'
    BY Nombres, <1>5 DEF ResponderChequeo, Base, TypeOK, SesionRecordada, Coherente,
       servidor, navegador
  <2>5. Tramites'
    BY Nombres, <1>5 DEF ResponderChequeo, Base, TypeOK, Tramites, Coherente, servidor,
       navegador
  <2> QED BY <2>1, <2>2, <2>3, <2>4, <2>5 DEF Base
<1>6. CASE SeguirSesion(t)
  <2>1. TypeOK'
    BY Nombres, <1>6 DEF SeguirSesion, Mostrar, recordar, Base, TypeOK, Coherente,
       Tramites, servidor, navegador, Vista
  <2>2. Coherente'
    BY Nombres, <1>6 DEF SeguirSesion, Mostrar, recordar, Base, TypeOK, Coherente,
       servidor, navegador
  <2>3. LeidoCierto'
    BY Nombres, <1>6 DEF SeguirSesion, Mostrar, recordar, Base, TypeOK, LeidoCierto,
       Coherente, servidor, navegador
  <2>4. SesionRecordada'
    BY Nombres, <1>6 DEF SeguirSesion, Mostrar, recordar, Base, TypeOK, SesionRecordada,
       Coherente, servidor, navegador
  <2>5. Tramites'
    BY Nombres, <1>6 DEF SeguirSesion, Mostrar, recordar, Base, TypeOK, Tramites,
       Coherente, servidor, navegador
  <2> QED BY <2>1, <2>2, <2>3, <2>4, <2>5 DEF Base
<1>7. CASE MostrarLanding(t)
  <2>1. TypeOK'
    BY Nombres, <1>7 DEF MostrarLanding, Mostrar, olvidar, Base, TypeOK, Coherente,
       Tramites, servidor, navegador, Vista
  <2>2. Coherente'
    BY Nombres, <1>7 DEF MostrarLanding, Mostrar, olvidar, Base, TypeOK, Coherente,
       servidor, navegador
  <2>3. LeidoCierto'
    BY Nombres, <1>7 DEF MostrarLanding, Mostrar, olvidar, Base, TypeOK, LeidoCierto,
       Coherente, servidor, navegador
  <2>4. SesionRecordada'
    BY Nombres, <1>7 DEF MostrarLanding, olvidar, Base, TypeOK, SesionRecordada,
       LeidoCierto, servidor, navegador
  <2>5. Tramites'
    BY Nombres, <1>7 DEF MostrarLanding, Mostrar, olvidar, Base, TypeOK, Tramites,
       Coherente, servidor, navegador
  <2> QED BY <2>1, <2>2, <2>3, <2>4, <2>5 DEF Base
<1>8. CASE \E tipo \in {"sesion", "turno"} : Comprar(t, tipo)
  <2>1. TypeOK'
    BY Nombres, <1>8 DEF Comprar, Base, TypeOK, Coherente, Tramites, servidor, navegador,
       SinPedido, Solicitud
  <2>2. Coherente'
    BY Nombres, <1>8 DEF Comprar, Base, TypeOK, Coherente, servidor, navegador
  <2>3. LeidoCierto'
    BY Nombres, <1>8 DEF Comprar, Base, TypeOK, LeidoCierto, Coherente, servidor, navegador
  <2>4. SesionRecordada'
    BY Nombres, <1>8 DEF Comprar, Base, TypeOK, SesionRecordada, Coherente, servidor,
       navegador
  <2>5. Tramites'
    BY Nombres, <1>8 DEF Comprar, Base, TypeOK, Tramites, Coherente, servidor, navegador
  <2> QED BY <2>1, <2>2, <2>3, <2>4, <2>5 DEF Base
<1>9. CASE Canjear(t)
  <2>1. TypeOK'
    <3>1. reserva' \in [Reserva -> Fila]
      <4> DEFINE f == [reserva[Siguiente] EXCEPT !.tipo = "turno", !.estado = "EN_COLA"]
      <4>1. Siguiente \in Reserva /\ reserva' = [reserva EXCEPT ![Siguiente] = f]
        BY <1>9, LibreLibre DEF Canjear
      <4>2. reserva[Siguiente] \in Fila
        BY <4>1 DEF Base, TypeOK
      <4>3. f \in Fila
        BY <4>2, Nombres DEF Fila
      <4> HIDE DEF f
      <4> QED BY <4>1, <4>3, FilaPone DEF Base, TypeOK
    <3>2. \A s \in Reserva : reserva'[s].registro # "no" => reserva'[s].pago = "approved"
      BY Nombres, LibreLibre, <1>9 DEF Canjear, Mostrar, Base, TypeOK, Coherente, Tramites,
         servidor, navegador
    <3>3. pedido' \in [Pestana -> Solicitud]
      BY Nombres, LibreLibre, <1>9 DEF Canjear, Mostrar, Base, TypeOK, Coherente, Tramites,
         servidor, navegador
    <3>4. pagina' \in [Pestana -> Vista]
      BY Nombres, LibreLibre, <1>9 DEF Canjear, Mostrar, Base, TypeOK, Coherente, Tramites,
         servidor, navegador, Vista
    <3>5. candado' \in Pestana \cup {Nada}
      BY Nombres, LibreLibre, <1>9 DEF Canjear, Mostrar, Base, TypeOK, Coherente, Tramites,
         servidor, navegador
    <3>6. \A s \in Pestana :
          candado' = s <=> (pedido'[s].paso = "reservar" /\ pedido'[s].tipo = "turno")
      BY Nombres, LibreLibre, <1>9 DEF Canjear, Mostrar, Base, TypeOK, Coherente, Tramites,
         servidor, navegador
    <3>7. /\ leido' \in [Pestana -> Estado] /\ sesionActiva' \in Reserva \cup {Nada}
         /\ ultima' \in Reserva \cup {Nada} /\ turnoPendiente' \in [Pestana -> Reserva \cup {Nada}]
         /\ retorno' \in [Reserva -> {"no", "consultar", "entregar"}]
      BY Nombres, LibreLibre, <1>9 DEF Canjear, Mostrar, Base, TypeOK, Coherente, Tramites,
         servidor, navegador
    <3> QED BY <3>1, <3>2, <3>3, <3>4, <3>5, <3>6, <3>7 DEF TypeOK
  <2>2. Coherente'
    BY Nombres, LibreLibre, <1>9 DEF Canjear, Mostrar, Base, TypeOK, Coherente, servidor,
       navegador
  <2>3. LeidoCierto'
    BY Nombres, LibreLibre, <1>9 DEF Canjear, Mostrar, Base, TypeOK, LeidoCierto,
       Coherente, servidor, navegador
  <2>4. SesionRecordada'
    BY Nombres, LibreLibre, <1>9 DEF Canjear, Mostrar, Base, TypeOK, SesionRecordada,
       Coherente, servidor, navegador
  <2>5. Tramites'
    BY Nombres, LibreLibre, <1>9 DEF Canjear, Mostrar, Base, TypeOK, Tramites, Coherente,
       servidor, navegador
  <2> QED BY <2>1, <2>2, <2>3, <2>4, <2>5 DEF Base
<1>10. CASE \E u \in Pestana : RegresarConPago(t, u)
  <2>1. TypeOK'
    <3>1. reserva' \in [Reserva -> Fila]
      BY Nombres, <1>10 DEF RegresarConPago, Mostrar, recordar, Base, TypeOK, Coherente,
         Tramites, servidor, navegador
    <3>2. \A s \in Reserva : reserva'[s].registro # "no" => reserva'[s].pago = "approved"
      BY Nombres, <1>10 DEF RegresarConPago, Mostrar, recordar, Base, TypeOK, Coherente,
         Tramites, servidor, navegador
    <3>3. pedido' \in [Pestana -> Solicitud]
      BY Nombres, <1>10 DEF RegresarConPago, Mostrar, recordar, Base, TypeOK, Coherente,
         Tramites, servidor, navegador
    <3>4. pagina' \in [Pestana -> Vista]
      BY Nombres, <1>10 DEF RegresarConPago, Mostrar, recordar, Base, TypeOK, Coherente,
         Tramites, servidor, navegador, Vista
    <3>5. candado' \in Pestana \cup {Nada}
      BY Nombres, <1>10 DEF RegresarConPago, Mostrar, recordar, Base, TypeOK, Coherente,
         Tramites, servidor, navegador
    <3>6. \A s \in Pestana :
          candado' = s <=> (pedido'[s].paso = "reservar" /\ pedido'[s].tipo = "turno")
      BY Nombres, <1>10 DEF RegresarConPago, Mostrar, recordar, Base, TypeOK, Coherente,
         Tramites, servidor, navegador
    <3>7. /\ leido' \in [Pestana -> Estado] /\ sesionActiva' \in Reserva \cup {Nada}
         /\ ultima' \in Reserva \cup {Nada} /\ turnoPendiente' \in [Pestana -> Reserva \cup {Nada}]
         /\ retorno' \in [Reserva -> {"no", "consultar", "entregar"}]
      BY Nombres, <1>10 DEF RegresarConPago, Mostrar, recordar, Base, TypeOK, Coherente,
         Tramites, servidor, navegador
    <3> QED BY <3>1, <3>2, <3>3, <3>4, <3>5, <3>6, <3>7 DEF TypeOK
  <2>2. Coherente'
    <3>1. /\ pagina[t].id \in Reserva /\ pedido' = pedido
          /\ \E u \in Pestana, en \in {"exito", "exitoTurno"} : Mostrar(u, en, pagina[t].id)
      BY <1>10 DEF RegresarConPago, Base, Coherente
    <3>2. \A s \in Pestana : pagina'[s] = pagina[s] \/ pagina'[s].id \in Reserva
      BY <3>1, MostrarPone, Nombres DEF Base, TypeOK
    <3> QED BY <3>1, <3>2 DEF Base, Coherente
  <2>3. LeidoCierto'
    BY Nombres, <1>10 DEF RegresarConPago, Mostrar, recordar, Base, TypeOK, LeidoCierto,
       Coherente, servidor, navegador
  <2>4. SesionRecordada'
    BY Nombres, <1>10 DEF RegresarConPago, Mostrar, recordar, Base, TypeOK,
       SesionRecordada, Coherente, servidor, navegador
  <2>5. Tramites'
    BY Nombres, <1>10 DEF RegresarConPago, Mostrar, recordar, Base, TypeOK, Tramites,
       Coherente, servidor, navegador
  <2> QED BY <2>1, <2>2, <2>3, <2>4, <2>5 DEF Base
<1>11. CASE \E u \in Pestana : RegresarSinPago(t, u)
  <2>1. TypeOK'
    <3>1. reserva' \in [Reserva -> Fila]
      BY Nombres, <1>11 DEF RegresarSinPago, Mostrar, olvidar, olvidarTurno, Base, TypeOK,
         Coherente, Tramites, servidor, navegador
    <3>2. \A s \in Reserva : reserva'[s].registro # "no" => reserva'[s].pago = "approved"
      BY Nombres, <1>11 DEF RegresarSinPago, Mostrar, olvidar, olvidarTurno, Base, TypeOK,
         Coherente, Tramites, servidor, navegador
    <3>3. pedido' \in [Pestana -> Solicitud]
      BY Nombres, <1>11 DEF RegresarSinPago, Mostrar, olvidar, olvidarTurno, Base, TypeOK,
         Coherente, Tramites, servidor, navegador
    <3>4. pagina' \in [Pestana -> Vista]
      BY Nombres, <1>11 DEF RegresarSinPago, Mostrar, olvidar, olvidarTurno, Base, TypeOK,
         Coherente, Tramites, servidor, navegador, Vista
    <3>5. candado' \in Pestana \cup {Nada}
      BY Nombres, <1>11 DEF RegresarSinPago, Mostrar, olvidar, olvidarTurno, Base, TypeOK,
         Coherente, Tramites, servidor, navegador
    <3>6. \A s \in Pestana :
          candado' = s <=> (pedido'[s].paso = "reservar" /\ pedido'[s].tipo = "turno")
      BY Nombres, <1>11 DEF RegresarSinPago, Mostrar, olvidar, olvidarTurno, Base, TypeOK,
         Coherente, Tramites, servidor, navegador
    <3>7. /\ leido' \in [Pestana -> Estado] /\ sesionActiva' \in Reserva \cup {Nada}
         /\ ultima' \in Reserva \cup {Nada} /\ turnoPendiente' \in [Pestana -> Reserva \cup {Nada}]
         /\ retorno' \in [Reserva -> {"no", "consultar", "entregar"}]
      <4>1. pagina[t].id \in Reserva
        BY <1>11 DEF RegresarSinPago, Base, Coherente
      <4> QED BY <1>11, <4>1, OlvidarTipo DEF RegresarSinPago, servidor, Base, TypeOK
    <3> QED BY <3>1, <3>2, <3>3, <3>4, <3>5, <3>6, <3>7 DEF TypeOK
  <2>2. Coherente'
    <3>1. /\ pagina[t].id \in Reserva /\ pedido' = pedido
          /\ \E u \in Pestana, en \in {"fracaso", "fracasoTurno"} : Mostrar(u, en, pagina[t].id)
      BY <1>11 DEF RegresarSinPago, Base, Coherente
    <3>2. \A s \in Pestana : pagina'[s] = pagina[s] \/ pagina'[s].id \in Reserva
      BY <3>1, MostrarPone, Nombres DEF Base, TypeOK
    <3> QED BY <3>1, <3>2 DEF Base, Coherente
  <2>3. LeidoCierto'
    BY Nombres, <1>11 DEF RegresarSinPago, Mostrar, olvidar, olvidarTurno, Base, TypeOK,
       LeidoCierto, Coherente, servidor, navegador, SinPedido
  <2>4. SesionRecordada'
    BY Nombres, <1>11 DEF RegresarSinPago, Mostrar, olvidar, olvidarTurno, Base, TypeOK,
       SesionRecordada, Coherente, servidor, navegador
  <2>5. Tramites'
    BY Nombres, <1>11 DEF RegresarSinPago, Mostrar, olvidar, olvidarTurno, Base, TypeOK,
       Tramites, Coherente, servidor, navegador
  <2> QED BY <2>1, <2>2, <2>3, <2>4, <2>5 DEF Base
<1>12. CASE VerTurno(t)
  <2>1. TypeOK'
    BY Nombres, <1>12 DEF VerTurno, Mostrar, Base, TypeOK, Coherente, Tramites, servidor,
       navegador, Vista
  <2>2. Coherente'
    BY Nombres, <1>12 DEF VerTurno, Mostrar, Base, TypeOK, Coherente, servidor, navegador
  <2>3. LeidoCierto'
    BY Nombres, <1>12 DEF VerTurno, Mostrar, Base, TypeOK, LeidoCierto, Coherente,
       servidor, navegador
  <2>4. SesionRecordada'
    BY Nombres, <1>12 DEF VerTurno, Mostrar, Base, TypeOK, SesionRecordada, Coherente,
       servidor, navegador
  <2>5. Tramites'
    BY Nombres, <1>12 DEF VerTurno, Mostrar, Base, TypeOK, Tramites, Coherente, servidor,
       navegador
  <2> QED BY <2>1, <2>2, <2>3, <2>4, <2>5 DEF Base
<1>13. CASE VerFin(t)
  <2>1. TypeOK'
    <3>1. pagina[t].id \in Reserva
      BY <1>13 DEF VerFin, Base, Coherente
    <3> QED BY <1>13, <3>1, OlvidarTipo DEF VerFin, servidor, Base, TypeOK
  <2>2. Coherente'
    BY Nombres, <1>13 DEF VerFin, olvidar, olvidarTurno, Base, TypeOK, Coherente, servidor,
       navegador
  <2>3. LeidoCierto'
    BY Nombres, <1>13 DEF VerFin, olvidar, olvidarTurno, Base, TypeOK, LeidoCierto,
       Coherente, servidor, navegador
  <2>4. SesionRecordada'
    BY Nombres, <1>13 DEF VerFin, olvidar, olvidarTurno, Base, TypeOK, SesionRecordada,
       Coherente, servidor, navegador
  <2>5. Tramites'
    BY Nombres, <1>13 DEF VerFin, olvidar, olvidarTurno, Base, TypeOK, Tramites, Coherente,
       servidor, navegador
  <2> QED BY <2>1, <2>2, <2>3, <2>4, <2>5 DEF Base
<1> QED
  BY <1>1, <1>2, <1>3, <1>4, <1>5, <1>6, <1>7, <1>8, <1>9, <1>10, <1>11, <1>12, <1>13
  DEF DeLaPestana

\* A request takes a step, with or without a row: what the tabs show and hold stays.
LEMMA PedidoConserva ==
    ASSUME Base, NEW t \in Pestana, NEW p \in Solicitud, pedido' = [pedido EXCEPT ![t] = p],
           UNCHANGED <<retorno, navegador>>, reserva' \in [Reserva -> Fila],
           candado' \in Pestana \cup {Nada},
           \A s \in Pestana \ {t} : candado' = s <=> candado = s,
           candado' = t <=> (p.paso = "reservar" /\ p.tipo = "turno"),
           \A r \in Reserva :
               /\ reserva'[r].registro = reserva[r].registro
               /\ reserva[r].pago = "approved" => reserva'[r].pago = "approved"
               /\ reserva'[r].estado = "ninguna" => reserva'[r].pago = "no"
               /\ reserva[r].estado \in Terminal => reserva'[r].estado \in Terminal,
           \A s \in Pestana \ {t} : pedido[s].paso = "preferencia" =>
               /\ reserva'[pedido[s].id] = reserva[pedido[s].id]
               /\ p.paso = "preferencia" => p.id # pedido[s].id,
           p.paso \in {"preferencia", "responder"} => p.id \in Reserva,
           p.paso = "preferencia" => reserva'[p.id].pago = "no" /\ reserva'[p.id].estado # "ninguna"
    PROVE  Base'
<1>1. /\ pedido' \in [Pestana -> Solicitud] /\ pedido'[t] = p
      /\ \A s \in Pestana : s # t => pedido'[s] = pedido[s]
  BY DEF Base, TypeOK
<1>2. TypeOK'
  <2>1. \A r \in Reserva : reserva'[r].registro # "no" => reserva'[r].pago = "approved"
    BY DEF Base, TypeOK
  <2>2. \A s \in Pestana :
            candado' = s <=> (pedido'[s].paso = "reservar" /\ pedido'[s].tipo = "turno")
    BY <1>1 DEF Base, TypeOK
  <2> QED BY <1>1, <2>1, <2>2 DEF navegador, Base, TypeOK
<1>3. Coherente'
  BY <1>1 DEF navegador, Base, Coherente
<1>4. Tramites'
  <2>1. \A r \in Reserva : retorno'[r] # "no" => reserva'[r].pago = "approved"
    BY DEF Base, Tramites
  <2>2. ASSUME NEW s \in Pestana, pedido'[s].paso = "preferencia"
        PROVE  /\ reserva'[pedido'[s].id].pago = "no"
               /\ reserva'[pedido'[s].id].estado # "ninguna"
               /\ \A u \in Pestana :
                     pedido'[u].paso = "preferencia" /\ pedido'[u].id = pedido'[s].id
                                     => u = s
    BY <1>1, <2>2 DEF Base, Tramites
  <2> QED BY <2>1, <2>2 DEF Tramites
<1>5. LeidoCierto'
  <2>1. ASSUME NEW s \in Pestana, leido[s] \in Terminal
        PROVE  \/ reserva'[pagina[s].id].estado \in Terminal
               \/ reserva'[pagina[s].id].registro = "revivida"
    <3>1. pagina[s].id \in Reserva
      BY <2>1, Nombres DEF Base, LeidoCierto, Coherente
    <3> QED BY <2>1, <3>1 DEF Base, LeidoCierto
  <2> QED BY <2>1 DEF navegador, Base, LeidoCierto
<1>6. SesionRecordada'
  BY DEF navegador, Base, TypeOK, SesionRecordada
<1> QED BY <1>2, <1>3, <1>4, <1>5, <1>6 DEF Base

\* The request goes on, or ends, without touching a row.
LEMMA SinFila ==
    ASSUME Base, NEW t \in Pestana, NEW p \in Solicitud, pedido' = [pedido EXCEPT ![t] = p],
           UNCHANGED <<reserva, retorno, navegador>>,
           p.paso \notin {"preferencia", "responder"}, candado' \in Pestana \cup {Nada},
           \A s \in Pestana \ {t} : candado' = s <=> candado = s,
           candado' = t <=> (p.paso = "reservar" /\ p.tipo = "turno")
    PROVE  Base'
BY PedidoConserva DEF Base, TypeOK, Tramites

\* A row is inserted, in a place that was free.
LEMMA ConFila ==
    ASSUME Base, NEW t \in Pestana, Insertar(t), Libres # {},
           UNCHANGED <<retorno, navegador>>, candado' \in Pestana \cup {Nada},
           candado' # t, \A s \in Pestana \ {t} : candado' = s <=> candado = s
    PROVE  Base'
<1> DEFINE p == [pedido[t] EXCEPT !.paso = "preferencia", !.id = Siguiente]
           f == [reserva[Siguiente] EXCEPT !.tipo = pedido[t].tipo, !.estado = "PENDIENTE"]
<1>1. /\ Siguiente \in Reserva /\ reserva[Siguiente].estado = "ninguna"
      /\ reserva[Siguiente].pago = "no" /\ reserva[Siguiente].registro = "no"
      /\ pedido[t] \in Solicitud /\ reserva[Siguiente] \in Fila
  BY LibreLibre DEF Base, TypeOK, Tramites
<1>2. p \in Solicitud /\ p.paso = "preferencia" /\ p.id = Siguiente
  BY <1>1 DEF Solicitud
<1>3. f \in Fila /\ f.estado = "PENDIENTE" /\ f.pago = "no" /\ f.registro = "no"
  BY <1>1, Nombres DEF Fila, Solicitud
<1>4. pedido' = [pedido EXCEPT ![t] = p] /\ reserva' = [reserva EXCEPT ![Siguiente] = f]
  BY DEF Insertar
<1> HIDE DEF p, f
<1>5. /\ reserva' \in [Reserva -> Fila]
      /\ \A r \in Reserva : reserva'[r] = IF r = Siguiente THEN f ELSE reserva[r]
  BY <1>1, <1>3, <1>4, FilaPone DEF Base, TypeOK
<1>6. \A s \in Pestana \ {t} : pedido[s].paso = "preferencia"
          => pedido[s].id \in Reserva /\ pedido[s].id # Siguiente
  BY <1>1 DEF Base, Coherente, Tramites
<1>7. \A r \in Reserva :
          /\ reserva'[r].registro = reserva[r].registro
          /\ reserva[r].pago = "approved" => reserva'[r].pago = "approved"
          /\ reserva'[r].estado = "ninguna" => reserva'[r].pago = "no"
          /\ reserva[r].estado \in Terminal => reserva'[r].estado \in Terminal
  BY <1>1, <1>3, <1>5, Nombres DEF Base, Tramites
<1>8. \A s \in Pestana \ {t} : pedido[s].paso = "preferencia" =>
          /\ reserva'[pedido[s].id] = reserva[pedido[s].id]
          /\ p.paso = "preferencia" => p.id # pedido[s].id
  BY <1>2, <1>5, <1>6
<1>9. reserva'[p.id].pago = "no" /\ reserva'[p.id].estado # "ninguna" /\ p.id \in Reserva
  BY <1>1, <1>2, <1>3, <1>5
<1>10. candado' = t <=> (p.paso = "reservar" /\ p.tipo = "turno")
  BY <1>2
<1> QED BY <1>2, <1>4, <1>5, <1>7, <1>8, <1>9, <1>10, PedidoConserva

\* What a request does.
LEMMA BasePedido ==
    ASSUME Base, NEW t \in Pestana, DelPedido(t)
    PROVE  Base'
<1>0. /\ pedido[t] \in Solicitud /\ SinPedido \in Solicitud /\ SinPedido.paso = "no"
      /\ candado \in Pestana \cup {Nada} /\ t # Nada
      /\ candado = t <=> (pedido[t].paso = "reservar" /\ pedido[t].tipo = "turno")
  BY Nombres DEF Base, TypeOK, SinPedido, Solicitud
<1>1. CASE Rechazar(t)
  BY <1>0, <1>1, SinFila DEF Rechazar, servidor
<1>2. CASE ContarSesion(t)
  <2>1. CASE Paso(t, "reservar")
    <3> DEFINE p == [pedido[t] EXCEPT !.paso = "reservar"]
    <3>1. /\ p \in Solicitud /\ p.paso = "reservar" /\ p.tipo = "sesion" /\ candado # t
          /\ pedido' = [pedido EXCEPT ![t] = p]
      BY <1>0, <1>2, <2>1 DEF ContarSesion, Paso, Solicitud
    <3> HIDE DEF p
    <3> QED BY <1>0, <1>2, <3>1, SinFila DEF ContarSesion, servidor
  <2>2. CASE pedido' = [pedido EXCEPT ![t] = SinPedido]
    BY <1>0, <1>2, <2>2, SinFila DEF ContarSesion, servidor
  <2> QED BY <1>2, <2>1, <2>2 DEF ContarSesion
<1>3. CASE ReservarSilla(t)
  <2>1. CASE Insertar(t)
    BY <1>0, <1>3, <2>1, ConFila DEF ReservarSilla
  <2>2. CASE pedido' = [pedido EXCEPT ![t] = SinPedido] /\ UNCHANGED reserva
    BY <1>0, <1>3, <2>2, SinFila DEF ReservarSilla
  <2> QED BY <1>3, <2>1, <2>2 DEF ReservarSilla
<1>4. CASE ContarTurno(t)
  <2>1. CASE Paso(t, "reservar") /\ candado' = t
    <3> DEFINE p == [pedido[t] EXCEPT !.paso = "reservar"]
    <3>1. /\ p \in Solicitud /\ p.paso = "reservar" /\ p.tipo = "turno"
          /\ pedido' = [pedido EXCEPT ![t] = p]
      BY <1>0, <1>4, <2>1 DEF ContarTurno, Paso, Solicitud
    <3>2. \A s \in Pestana \ {t} : candado' # s /\ candado # s
      BY <1>4, <2>1, Nombres DEF ContarTurno, CandadoLibre
    <3> HIDE DEF p
    <3> QED BY <1>0, <1>4, <2>1, <3>1, <3>2, SinFila DEF ContarTurno
  <2>2. CASE pedido' = [pedido EXCEPT ![t] = SinPedido] /\ UNCHANGED candado
    BY <1>0, <1>4, <2>2, SinFila DEF ContarTurno
  <2> QED BY <1>4, <2>1, <2>2 DEF ContarTurno
<1>5. CASE CrearTurno(t)
  <2>1. candado' = Nada /\ \A s \in Pestana \ {t} : candado' # s /\ candado # s
    BY <1>0, <1>5, Nombres DEF CrearTurno
  <2> QED BY <1>0, <1>5, <2>1, ConFila DEF CrearTurno
<1>6. CASE crearPreferencia(t) \/ PreferenciaFalla(t)
  <2> DEFINE q == pedido[t].id
  <2>1. /\ q \in Reserva /\ reserva[q] \in Fila /\ reserva[q].pago = "no"
        /\ reserva[q].registro = "no" /\ reserva[q].estado # "ninguna" /\ candado # t
        /\ \A s \in Pestana \ {t} : pedido[s].paso = "preferencia"
                                    => pedido[s].id \in Reserva /\ pedido[s].id # q
    BY <1>0, <1>6 DEF crearPreferencia, PreferenciaFalla, Base, TypeOK, Coherente, Tramites
  <2>2. PICK p \in Solicitud : /\ pedido' = [pedido EXCEPT ![t] = p]
                               /\ p.paso = "no" \/ (p.paso = "responder" /\ p.id = q)
    <3>1. CASE crearPreferencia(t)
      <4>1. [pedido[t] EXCEPT !.paso = "responder"] \in Solicitud
        BY <1>0 DEF Solicitud
      <4> QED BY <1>0, <3>1, <4>1 DEF crearPreferencia, Paso, Solicitud
    <3>2. CASE PreferenciaFalla(t)
      BY <1>0, <3>2 DEF PreferenciaFalla
    <3> QED BY <1>6, <3>1, <3>2
  <2>3. PICK f \in Fila :
            /\ reserva' = [reserva EXCEPT ![q] = f] /\ f.registro = "no" /\ f.estado # "ninguna"
            /\ f.estado = reserva[q].estado \/ f.estado = "CANCELADA"
    <3>1. CASE crearPreferencia(t)
      <4>1. /\ [reserva[q] EXCEPT !.pago = "abierto"] \in Fila
            /\ [reserva[q] EXCEPT !.pago = "abierto"].registro = "no"
            /\ [reserva[q] EXCEPT !.pago = "abierto"].estado = reserva[q].estado
        BY <2>1 DEF Fila
      <4> QED BY <2>1, <3>1, <4>1 DEF crearPreferencia
    <3>2. CASE PreferenciaFalla(t)
      <4> DEFINE g == [reserva[q] EXCEPT !.estado = IF @ = "PENDIENTE" THEN "CANCELADA" ELSE @]
      <4>1. g \in Fila /\ g.registro = "no" /\ g.estado \in {"CANCELADA", reserva[q].estado}
        BY <2>1, Nombres DEF Fila
      <4>2. reserva' = [reserva EXCEPT ![q] = g]
        BY <3>2 DEF PreferenciaFalla, expirar
      <4> HIDE DEF g
      <4> QED BY <2>1, <4>1, <4>2
    <3> QED BY <1>6, <3>1, <3>2
  <2>4. UNCHANGED <<candado, retorno, navegador>>
    BY <1>6 DEF crearPreferencia, PreferenciaFalla
  <2> HIDE DEF q
  <2>5. /\ reserva' \in [Reserva -> Fila]
        /\ \A r \in Reserva : reserva'[r] = IF r = q THEN f ELSE reserva[r]
    BY <2>1, <2>3, FilaPone DEF Base, TypeOK
  <2>6. \A r \in Reserva :
            /\ reserva'[r].registro = reserva[r].registro
            /\ reserva[r].pago = "approved" => reserva'[r].pago = "approved"
            /\ reserva'[r].estado = "ninguna" => reserva'[r].pago = "no"
            /\ reserva[r].estado \in Terminal => reserva'[r].estado \in Terminal
    BY <2>1, <2>3, <2>5, Nombres DEF Base, Tramites
  <2> QED BY <1>0, <2>1, <2>2, <2>4, <2>5, <2>6, PedidoConserva
<1>7. CASE PerderRespuesta(t)
  BY <1>0, <1>7, SinFila DEF PerderRespuesta, servidor
<1>8. CASE Partir(t)
  <2>1. TypeOK'
    <3>1. pedido[t].id \in Reserva
      BY <1>8 DEF Partir, Base, Coherente
    <3>2. pagina' \in [Pestana -> Vista]
      BY <1>8, <3>1, MostrarPone, Nombres DEF Partir, Base, TypeOK
    <3>3. /\ pedido' \in [Pestana -> Solicitud]
          /\ \A s \in Pestana : pedido'[s] = IF s = t THEN SinPedido ELSE pedido[s]
      BY <1>8, PasoFin DEF Partir, Base, TypeOK
    <3> QED BY <1>8, <3>1, <3>2, <3>3 DEF Partir, recordar, servidor, SinPedido, Base, TypeOK
  <2>2. Coherente'
    BY Nombres, <1>8 DEF Partir, Mostrar, recordar, Base, TypeOK, Coherente, servidor,
       navegador, SinPedido
  <2>3. LeidoCierto'
    BY Nombres, <1>8 DEF Partir, Mostrar, recordar, Base, TypeOK, LeidoCierto, Coherente,
       servidor, navegador
  <2>4. SesionRecordada'
    BY Nombres, <1>8 DEF Partir, Mostrar, recordar, Base, TypeOK, SesionRecordada,
       Coherente, servidor, navegador
  <2>5. Tramites'
    BY Nombres, <1>8 DEF Partir, Mostrar, recordar, Base, TypeOK, Tramites, Coherente,
       servidor, navegador, SinPedido
  <2> QED BY <2>1, <2>2, <2>3, <2>4, <2>5 DEF Base
<1> QED
  BY <1>1, <1>2, <1>3, <1>4, <1>5, <1>6, <1>7, <1>8 DEF DelPedido

\* One row changes and nothing else of what the requests and the tabs hold. A payment is
\* only approved, and what is over stays over unless it is revived.
LEMMA FilaConserva ==
    ASSUME Base, NEW r \in Reserva, NEW f \in Fila,
           reserva' = [reserva EXCEPT ![r] = f], UNCHANGED <<candado, pedido, navegador>>,
           retorno' \in [Reserva -> {"no", "consultar", "entregar"}],
           \A s \in Reserva : retorno'[s] # "no" => retorno[s] # "no",
           f.pago # reserva[r].pago => reserva[r].pago = "abierto" /\ f.pago = "approved",
           f.registro # "no" => f.pago = "approved",
           reserva[r].registro = "revivida" => f.registro = "revivida",
           f.estado # reserva[r].estado => f.estado # "ninguna" /\ reserva[r].estado # "ninguna",
           reserva[r].estado \in Terminal => f.estado \in Terminal \/ f.registro = "revivida"
    PROVE  Base'
<1>1. /\ reserva' \in [Reserva -> Fila]
      /\ \A s \in Reserva : reserva'[s] = IF s = r THEN f ELSE reserva[s]
  BY FilaPone DEF Base, TypeOK
<1>2. TypeOK'
  BY <1>1 DEF navegador, Base, TypeOK
<1>3. Coherente'
  BY DEF navegador, Base, Coherente
<1>4. Tramites'
  <2>1. \A s \in Reserva : reserva'[s].estado = "ninguna" => reserva'[s].pago = "no"
    BY <1>1 DEF Base, Tramites
  <2>2. \A s \in Reserva : retorno'[s] # "no" => reserva'[s].pago = "approved"
    BY <1>1 DEF Base, Tramites
  <2>3. ASSUME NEW t \in Pestana, pedido'[t].paso = "preferencia"
        PROVE  /\ reserva'[pedido'[t].id].pago = "no"
               /\ reserva'[pedido'[t].id].estado # "ninguna"
    <3>1. pedido[t].paso = "preferencia" /\ pedido[t].id \in Reserva /\ pedido'[t].id = pedido[t].id
      BY <2>3 DEF Base, Coherente
    <3>2. reserva[pedido[t].id].pago = "no" /\ reserva[pedido[t].id].estado # "ninguna"
      BY <3>1 DEF Base, Tramites
    <3> QED BY <1>1, <3>1, <3>2
  <2> QED BY <2>1, <2>2, <2>3 DEF Base, Tramites
<1>5. LeidoCierto'
  <2>1. ASSUME NEW t \in Pestana, leido[t] \in Terminal
        PROVE  \/ reserva'[pagina[t].id].estado \in Terminal
               \/ reserva'[pagina[t].id].registro = "revivida"
    <3>1. pagina[t].en = "chequeo" /\ pagina[t].id \in Reserva
      BY <2>1, Nombres DEF Base, LeidoCierto, Coherente
    <3>2. \/ reserva[pagina[t].id].estado \in Terminal
          \/ reserva[pagina[t].id].registro = "revivida"
      BY <2>1 DEF Base, LeidoCierto
    <3> QED BY <1>1, <3>1, <3>2
  <2> QED BY <2>1 DEF navegador, Base, LeidoCierto
<1>6. SesionRecordada'
  BY <1>1 DEF navegador, Base, TypeOK, SesionRecordada
<1> QED BY <1>2, <1>3, <1>4, <1>5, <1>6 DEF Base

\* What happens to a reservation, whoever does it.
LEMMA BaseReserva ==
    ASSUME Base, NEW r \in Reserva, DeLaReserva(r)
    PROVE  Base'
<1>0. /\ reserva[r] \in Fila /\ reserva = [reserva EXCEPT ![r] = reserva[r]]
      /\ reserva[r].registro # "no" => reserva[r].pago = "approved"
      /\ reserva[r].estado = "ninguna" => reserva[r].pago = "no"
      /\ retorno \in [Reserva -> {"no", "consultar", "entregar"}]
  BY DEF Base, TypeOK, Tramites
<1>1. CASE Vence(r) \/ LlegaCancelacion(r)
  <2> DEFINE f == [reserva[r] EXCEPT !.estado = IF @ = "PENDIENTE" THEN "CANCELADA" ELSE @]
  <2>1. reserva' = [reserva EXCEPT ![r] = f]
    BY <1>1 DEF Vence, LlegaCancelacion, expirar
  <2>2. /\ f \in Fila /\ f.pago = reserva[r].pago /\ f.registro = reserva[r].registro
        /\ f.estado = IF reserva[r].estado = "PENDIENTE" THEN "CANCELADA" ELSE reserva[r].estado
    BY <1>0, Nombres DEF Fila
  <2>3. UNCHANGED <<candado, pedido, navegador, retorno>>
    BY <1>1 DEF Vence, LlegaCancelacion
  <2> HIDE DEF f
  <2> QED BY <1>0, <2>1, <2>2, <2>3, FilaConserva, Nombres
<1>2. CASE ResponderRetorno(r) \/ RetornoFalla(r)
  <2>1. /\ UNCHANGED <<reserva, candado, pedido, navegador>>
        /\ retorno' = retorno \/ retorno' = [retorno EXCEPT ![r] = "no"]
    BY <1>2 DEF ResponderRetorno, RetornoFalla, servidor
  <2> QED BY <1>0, <2>1, FilaConserva
<1>3. CASE Aprobar(r)
  <2> DEFINE f == [reserva[r] EXCEPT !.pago = "approved"]
  <2>1. /\ reserva' = [reserva EXCEPT ![r] = f] /\ reserva[r].pago = "abierto"
        /\ UNCHANGED <<candado, pedido, navegador, retorno>>
    BY <1>3 DEF Aprobar
  <2>2. /\ f \in Fila /\ f.pago = "approved" /\ f.registro = reserva[r].registro
        /\ f.estado = reserva[r].estado
    BY <1>0 DEF Fila
  <2> HIDE DEF f
  <2> QED BY <1>0, <2>1, <2>2, FilaConserva
<1>4. CASE Notificar(r) \/ ProcesarRetorno(r)
  <2> DEFINE f == [reserva[r] EXCEPT !.registro = "enCurso"]
  <2>1. /\ reserva' = [reserva EXCEPT ![r] = f]
        /\ UNCHANGED <<candado, pedido, navegador>>
        /\ \/ retorno' = retorno
           \/ retorno[r] # "no" /\ retorno' = [retorno EXCEPT ![r] = "entregar"]
    BY <1>4 DEF Notificar, ProcesarRetorno
  <2>2. reserva[r].registro = "no" /\ reserva[r].pago = "approved"
    BY <1>4 DEF Notificar, ProcesarRetorno, Base, Tramites
  <2>3. /\ f \in Fila /\ f.pago = reserva[r].pago /\ f.registro = "enCurso"
        /\ f.estado = reserva[r].estado
    BY <1>0 DEF Fila
  <2> HIDE DEF f
  <2> QED BY <1>0, <2>1, <2>2, <2>3, FilaConserva
<1>5. CASE ActivarLee(r)
  <2> DEFINE f == [reserva[r] EXCEPT !.registro =
                      IF reserva[r].estado = "PENDIENTE" THEN "activando" ELSE "hecho"]
  <2>1. /\ reserva' = [reserva EXCEPT ![r] = f] /\ reserva[r].registro = "enCurso"
        /\ UNCHANGED <<candado, pedido, navegador, retorno>>
    BY <1>5 DEF ActivarLee
  <2>2. f \in Fila /\ f.pago = reserva[r].pago /\ f.estado = reserva[r].estado
    BY <1>0 DEF Fila
  <2> HIDE DEF f
  <2> QED BY <1>0, <2>1, <2>2, FilaConserva
<1>6. CASE \E estado \in Estado : ActivarConfirma(r, estado)
  <2>1. PICK estado \in {"ACTIVA", "ESPERANDO_ENERGIA"} : ActivarConfirma(r, estado)
    BY <1>6 DEF ActivarConfirma
  <2> DEFINE g == IF reserva[r].estado = "PENDIENTE" THEN "hecho" ELSE "revivida"
             f == [reserva[r] EXCEPT !.estado = estado, !.registro = g]
  <2>2. /\ reserva' = [reserva EXCEPT ![r] = f] /\ reserva[r].registro = "activando"
        /\ UNCHANGED <<candado, pedido, navegador, retorno>>
    BY <2>1 DEF ActivarConfirma
  <2>3. f \in Fila /\ f.pago = reserva[r].pago /\ f.estado = estado /\ f.registro = g
    BY <1>0, Nombres DEF Fila
  <2>4. /\ reserva[r].estado \in Terminal => g = "revivida"
        /\ reserva[r].estado # "ninguna"
    BY <1>0, <2>2, Nombres
  <2> HIDE DEF f, g
  <2> QED BY <1>0, <2>2, <2>3, <2>4, FilaConserva
<1>7. CASE Encolar(r)
  <2> DEFINE f == [reserva[r] EXCEPT !.registro = "hecho",
                                     !.estado = IF @ = "PENDIENTE" THEN "EN_COLA" ELSE @]
  <2>1. /\ reserva' = [reserva EXCEPT ![r] = f] /\ reserva[r].registro = "enCurso"
        /\ UNCHANGED <<candado, pedido, navegador, retorno>>
    BY <1>7 DEF Encolar
  <2>2. /\ f \in Fila /\ f.pago = reserva[r].pago
        /\ f.estado = IF reserva[r].estado = "PENDIENTE" THEN "EN_COLA" ELSE reserva[r].estado
    BY <1>0, Nombres DEF Fila
  <2> HIDE DEF f
  <2> QED BY <1>0, <2>1, <2>2, FilaConserva, Nombres
<1>8. CASE \E estado \in Estado : Avanza(r, estado)
  <2>1. PICK estado \in Estado : Avanza(r, estado)
    BY <1>8
  <2> DEFINE f == [reserva[r] EXCEPT !.estado = estado]
  <2>2. /\ reserva' = [reserva EXCEPT ![r] = f]
        /\ UNCHANGED <<candado, pedido, navegador, retorno>>
        /\ reserva[r].estado \notin Terminal \cup {"ninguna"} /\ estado # "ninguna"
    BY <2>1, Nombres DEF Avanza
  <2>3. /\ f \in Fila /\ f.pago = reserva[r].pago /\ f.registro = reserva[r].registro
        /\ f.estado = estado
    BY <1>0 DEF Fila
  <2> HIDE DEF f
  <2> QED BY <1>0, <2>2, <2>3, FilaConserva
<1> QED
  BY <1>1, <1>2, <1>3, <1>4, <1>5, <1>6, <1>7, <1>8 DEF DeLaReserva

-----------------------------------------------------------------------------
\* A step that neither adds an unpaid turn nor lets a request pass the count.
Quieto ==
    /\ TurnosPendientes' \subseteq TurnosPendientes
    /\ \A s \in Pestana : pedido'[s].paso = "reservar" /\ pedido'[s].tipo = "turno"
                        => pedido[s].paso = "reservar" /\ pedido[s].tipo = "turno"

\* The sets that are counted are finite, so that cardinalities can be compared.
LEMMA Finitos ==
    /\ IsFiniteSet(Pendientes) /\ IsFiniteSet(TurnosPendientes)
    /\ Cardinality(Pendientes) \in Nat /\ Cardinality(TurnosPendientes) \in Nat
    /\ Cardinality(TurnosPendientes) <= Cardinality(Pendientes)
<1>1. IsFiniteSet(Reserva)
  BY CompraAssumption, FS_Interval DEF Reserva
<1>2. IsFiniteSet(Pendientes)
  BY <1>1, FS_Subset DEF Pendientes
<1>3. TurnosPendientes \in SUBSET Pendientes
  BY DEF TurnosPendientes
<1> QED BY <1>2, <1>3, FS_Subset, FS_CardinalityType

\* A quiet step keeps the cap.
LEMMA QuietoConserva ==
    ASSUME CupoReservado, TopeDeTurnos, Quieto
    PROVE  CupoReservado' /\ TopeDeTurnos'
<1>1. Cardinality(TurnosPendientes') <= Cardinality(TurnosPendientes)
  BY Finitos, FS_Subset DEF Quieto
<1>2. Cardinality(TurnosPendientes') \in Nat /\ Cardinality(TurnosPendientes) \in Nat
  BY Finitos, FS_Subset, FS_CardinalityType DEF Quieto
<1> QED
  BY <1>1, <1>2, CompraAssumption DEF Quieto, CupoReservado, TopeDeTurnos

\* What a tab does is quiet: only requests make a reservation that has to be paid.
LEMMA QuietaPestana ==
    ASSUME Base, NEW t \in Pestana, DeLaPestana(t)
    PROVE  Quieto
<1>1. CASE UNCHANGED reserva /\ UNCHANGED pedido
  BY <1>1 DEF Quieto, TurnosPendientes, Pendientes
<1>2. CASE \E tipo \in {"sesion", "turno"} : Comprar(t, tipo)
  BY <1>2 DEF Comprar, servidor, Quieto, TurnosPendientes, Pendientes, Base, TypeOK
<1>3. CASE Canjear(t)
  <2>1. Siguiente \in Reserva
    BY <1>3, LibreLibre DEF Canjear
  <2>2. /\ \A q \in Reserva : q # Siguiente => reserva'[q] = reserva[q]
        /\ reserva'[Siguiente].estado = "EN_COLA"
    BY <1>3, <2>1 DEF Canjear, Base, TypeOK, Fila
  <2> QED BY <1>3, <2>2 DEF Canjear, Quieto, TurnosPendientes, Pendientes
<1> QED
  BY <1>1, <1>2, <1>3 DEF DeLaPestana, Escanear, Volver, Cerrar, Recargar, ResponderChequeo,
     SeguirSesion, MostrarLanding, RegresarConPago, RegresarSinPago, VerTurno, VerFin, servidor

\* A reservation that changes is delivered, ended or cancelled, never made unpaid again.
LEMMA QuietaReserva ==
    ASSUME Base, NEW r \in Reserva, DeLaReserva(r)
    PROVE  Quieto
<1>1. \A q \in Reserva : /\ reserva'[q].tipo = reserva[q].tipo
                         /\ reserva'[q].estado = "PENDIENTE" => reserva[q].estado = "PENDIENTE"
  <2>1. CASE Vence(r) \/ LlegaCancelacion(r)
    BY <2>1 DEF Vence, LlegaCancelacion, expirar, Base, TypeOK, Fila
  <2>2. CASE Aprobar(r) \/ Notificar(r)
    BY <2>2 DEF Aprobar, Notificar, Base, TypeOK, Fila
  <2>3. CASE ProcesarRetorno(r) \/ ActivarLee(r) \/ Encolar(r)
    BY <2>3 DEF ProcesarRetorno, ActivarLee, Encolar, Base, TypeOK, Fila
  <2>4. CASE \E estado \in Estado : ActivarConfirma(r, estado)
    BY <2>4 DEF ActivarConfirma, Base, TypeOK, Fila
  <2>5. CASE \E estado \in Estado : Avanza(r, estado)
    BY <2>5 DEF Avanza, Base, TypeOK, Fila
  <2>6. CASE ResponderRetorno(r) \/ RetornoFalla(r)
    BY <2>6 DEF ResponderRetorno, RetornoFalla, servidor
  <2>7. \/ Vence(r) \/ LlegaCancelacion(r) \/ Aprobar(r) \/ Notificar(r) \/ ProcesarRetorno(r)
        \/ ActivarLee(r) \/ Encolar(r)
        \/ \E estado \in Estado : ActivarConfirma(r, estado)
        \/ \E estado \in Estado : Avanza(r, estado)
        \/ ResponderRetorno(r) \/ RetornoFalla(r)
    BY DEF DeLaReserva
  <2> QED BY <2>1, <2>2, <2>3, <2>4, <2>5, <2>6, <2>7
<1>2. UNCHANGED pedido
  BY DEF DeLaReserva, Vence, LlegaCancelacion, Aprobar, Notificar,
     ProcesarRetorno, ResponderRetorno, RetornoFalla, ActivarLee, ActivarConfirma, Encolar, Avanza
<1> QED BY <1>1, <1>2 DEF Quieto, TurnosPendientes, Pendientes

\* The two steps of unirse that matter, and the rest of the requests.
LEMMA CupoPedido ==
    ASSUME Base, CupoReservado, TopeDeTurnos, NEW t \in Pestana, DelPedido(t)
    PROVE  CupoReservado' /\ TopeDeTurnos'
<1>1. CASE ContarTurno(t)
  <2>1. UNCHANGED TurnosPendientes
    BY <1>1 DEF ContarTurno, TurnosPendientes, Pendientes
  <2>2. \A s \in Pestana : s # t => pedido'[s] = pedido[s]
    BY <1>1, PasoPone, PasoFin DEF ContarTurno, Base, TypeOK
  <2>3. HayCupo \/ pedido'[t] = SinPedido
    BY <1>1, PasoFin DEF ContarTurno, Base, TypeOK
  <2>4. HayCupo => Cardinality(TurnosPendientes) < MaxPendientes
    BY Finitos, CompraAssumption DEF HayCupo
  <2>5. SinPedido.paso # "reservar"
    BY DEF SinPedido
  <2> QED BY <2>1, <2>2, <2>3, <2>4, <2>5 DEF CupoReservado, TopeDeTurnos
<1>2. CASE CrearTurno(t)
  <2>1. Siguiente \in Reserva /\ reserva[Siguiente].estado = "ninguna"
    BY <1>2, LibreLibre DEF CrearTurno
  <2>2. TurnosPendientes' \subseteq TurnosPendientes \cup {Siguiente}
    BY <1>2, <2>1 DEF CrearTurno, Insertar, TurnosPendientes, Pendientes, Base, TypeOK
  <2>3. Cardinality(TurnosPendientes) < MaxPendientes
    BY <1>2 DEF CrearTurno, CupoReservado
  <2>4. TopeDeTurnos'
    <3>1. /\ IsFiniteSet(TurnosPendientes \cup {Siguiente})
          /\ Cardinality(TurnosPendientes \cup {Siguiente}) <= Cardinality(TurnosPendientes) + 1
      <4>1. Cardinality(TurnosPendientes \cup {Siguiente}) =
               IF Siguiente \in TurnosPendientes THEN Cardinality(TurnosPendientes)
               ELSE Cardinality(TurnosPendientes) + 1
        BY Finitos, FS_AddElement
      <4> QED BY <4>1, Finitos, FS_AddElement
    <3>2. /\ Cardinality(TurnosPendientes') <= Cardinality(TurnosPendientes \cup {Siguiente})
          /\ Cardinality(TurnosPendientes') \in Nat
          /\ Cardinality(TurnosPendientes \cup {Siguiente}) \in Nat
      BY <3>1, <2>2, FS_Subset, FS_CardinalityType
    <3> QED BY <3>1, <3>2, <2>3, Finitos, CompraAssumption DEF TopeDeTurnos
  <2>5. \A s \in Pestana : ~(pedido'[s].paso = "reservar" /\ pedido'[s].tipo = "turno")
    BY <1>2 DEF CrearTurno, Insertar, Base, TypeOK, Solicitud
  <2> QED BY <2>4, <2>5 DEF CupoReservado
<1>3. CASE ReservarSilla(t)
  <2>1. TurnosPendientes' \subseteq TurnosPendientes
    <3>1. CASE Insertar(t)
      <4>1. Siguiente \in Reserva
        BY <1>3, LibreLibre DEF ReservarSilla
      <4>2. /\ \A q \in Reserva : q # Siguiente => reserva'[q] = reserva[q]
            /\ reserva'[Siguiente].tipo = "sesion"
        BY <1>3, <3>1, <4>1 DEF ReservarSilla, Insertar, Base, TypeOK, Fila
      <4> QED BY <4>2 DEF TurnosPendientes, Pendientes
    <3>2. CASE UNCHANGED reserva
      BY <3>2 DEF TurnosPendientes, Pendientes
    <3> QED BY <1>3, <3>1, <3>2 DEF ReservarSilla
  <2>2. /\ \A s \in Pestana : s # t => pedido'[s] = pedido[s]
        /\ pedido'[t].paso # "reservar"
    BY <1>3 DEF ReservarSilla, Insertar, SinPedido, Base, TypeOK, Solicitud
  <2> QED BY <2>1, <2>2, QuietoConserva DEF Quieto
<1>4. CASE ContarSesion(t)
  <2>1. UNCHANGED TurnosPendientes
    BY <1>4 DEF ContarSesion, servidor, TurnosPendientes, Pendientes
  <2>2. \A s \in Pestana : s # t => pedido'[s] = pedido[s]
    BY <1>4, PasoPone, PasoFin DEF ContarSesion, Base, TypeOK
  <2>3. pedido'[t].tipo = "sesion"
    <3>1. pedido[t] \in Solicitud /\ pedido[t].tipo = "sesion"
      BY <1>4 DEF ContarSesion, Base, TypeOK
    <3>2. [pedido[t] EXCEPT !.paso = "reservar"].tipo = "sesion" /\ SinPedido.tipo = "sesion"
      BY <3>1 DEF Solicitud, SinPedido
    <3>3. pedido'[t] \in {[pedido[t] EXCEPT !.paso = "reservar"], SinPedido}
      BY <1>4, PasoPone, PasoFin DEF ContarSesion, Base, TypeOK
    <3> QED BY <3>2, <3>3
  <2> QED BY <2>1, <2>2, <2>3, QuietoConserva DEF Quieto
<1>5. CASE crearPreferencia(t)
  <2>1. \A q \in Reserva : /\ reserva'[q].tipo = reserva[q].tipo
                           /\ reserva'[q].estado = reserva[q].estado
    BY <1>5 DEF crearPreferencia, Base, TypeOK, Coherente, Fila
  <2>2. /\ \A s \in Pestana : s # t => pedido'[s] = pedido[s]
        /\ pedido'[t].paso # "reservar"
    BY <1>5, PasoPone DEF crearPreferencia, Base, TypeOK, Solicitud
  <2> QED BY <2>1, <2>2, QuietoConserva DEF Quieto, TurnosPendientes, Pendientes
<1>6. CASE Rechazar(t) \/ PreferenciaFalla(t) \/ Partir(t) \/ PerderRespuesta(t)
  <2>1. \A q \in Reserva : /\ reserva'[q].tipo = reserva[q].tipo
                           /\ reserva'[q].estado = "PENDIENTE" => reserva[q].estado = "PENDIENTE"
    BY <1>6 DEF Rechazar, PreferenciaFalla, Partir, PerderRespuesta, servidor, expirar,
       Base, TypeOK, Coherente, Fila
  <2>2. pedido' = [pedido EXCEPT ![t] = SinPedido]
    BY <1>6 DEF Rechazar, PreferenciaFalla, Partir, PerderRespuesta
  <2>3. \A s \in Pestana : pedido'[s] = pedido[s] \/ pedido'[s].paso = "no"
    BY <2>2, PasoFin DEF Base, TypeOK, SinPedido
  <2>4. TurnosPendientes' \subseteq TurnosPendientes
    <3>1. ASSUME NEW q \in TurnosPendientes' PROVE q \in TurnosPendientes
      BY <2>1, <3>1 DEF TurnosPendientes, Pendientes
    <3> QED BY <3>1
  <2> QED BY <2>3, <2>4, QuietoConserva DEF Quieto
<1> QED
  BY <1>1, <1>2, <1>3, <1>4, <1>5, <1>6 DEF DelPedido
-----------------------------------------------------------------------------
\* The invariant holds before anybody scans a QR.
LEMMA Inicial == Init => IInv
<1> SUFFICES ASSUME Init PROVE IInv
  OBVIOUS
<1>1. SinReserva \in Fila /\ SinPedido \in Solicitud /\ Cerrada \in Vista
  BY Nombres DEF SinReserva, Fila, SinPedido, Solicitud, Cerrada, Vista
<1>2. TypeOK
  BY <1>1, Nombres DEF Init, TypeOK, SinReserva, SinPedido
<1>3. Coherente /\ Tramites /\ LeidoCierto /\ SesionRecordada
  BY Nombres DEF Init, Coherente, Tramites, LeidoCierto, SesionRecordada, SinReserva, SinPedido,
     Cerrada
<1>4. TurnosPendientes = {}
  BY DEF Init, TurnosPendientes, Pendientes, SinReserva
<1>5. CupoReservado /\ TopeDeTurnos
  BY <1>4, FS_EmptySet, CompraAssumption DEF Init, CupoReservado, TopeDeTurnos, SinPedido
<1> QED BY <1>2, <1>3, <1>5 DEF IInv

\* Every step keeps it: the step is of a tab, of a request or of a reservation.
LEMMA Inductiva == IInv /\ [Next]_vars => IInv'
<1> SUFFICES ASSUME IInv, [Next]_vars PROVE IInv'
  OBVIOUS
<1>0. Base /\ CupoReservado /\ TopeDeTurnos
  BY DEF IInv, Base
<1>1. CASE \E t \in Pestana : DeLaPestana(t)
  BY <1>0, <1>1, BasePestana, QuietaPestana, QuietoConserva DEF IInv, Base
<1>2. CASE \E t \in Pestana : DelPedido(t)
  BY <1>0, <1>2, BasePedido, CupoPedido DEF IInv, Base
<1>3. CASE \E r \in Reserva : DeLaReserva(r)
  BY <1>0, <1>3, BaseReserva, QuietaReserva, QuietoConserva DEF IInv, Base
<1>4. CASE UNCHANGED vars
  BY <1>4 DEF vars, IInv, TypeOK, Coherente, Tramites, LeidoCierto, SesionRecordada,
     CupoReservado, TopeDeTurnos, TurnosPendientes, Pendientes
<1> QED BY <1>1, <1>2, <1>3, <1>4 DEF Next

\* So it always holds.
LEMMA Invariante == Spec => []IInv
BY Inicial, Inductiva, PTL DEF Spec

\* Every variable keeps its type and the lock is held exactly between a count and its row,
\* whatever the tabs, the reservations and the requests in flight.
THEOREM TipoCorrecto == Spec => []TypeOK
<1>1. IInv => TypeOK
  BY DEF IInv
<1> QED BY <1>1, Invariante, PTL

\* The advisory lock of unirse keeps the unpaid turns of an address within the cap, for
\* any number of tabs buying at once and any cap.
THEOREM CupoRespetado == Spec => []TopeDeTurnos
<1>1. IInv => TopeDeTurnos
  BY DEF IInv
<1> QED BY <1>1, Invariante, PTL

\* The browser never forgets the session it recorded last while that session is under
\* way, whatever other tabs close, poll or were answered before; one that was cancelled
\* while activarSesion waited for the relay, and came back, is excepted.
THEOREM NoSeOlvida == Spec => []SesionRecordada
<1>1. IInv => SesionRecordada
  BY DEF IInv
<1> QED BY <1>1, Invariante, PTL
=============================================================================
