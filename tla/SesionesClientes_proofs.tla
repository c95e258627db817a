---------------------- MODULE SesionesClientes_proofs ----------------------
(***************************************************************************)
(* What TLAPS proves of Sesiones from the customers' side, for any chairs, *)
(* sessions, slots, cuts and restarts:                                     *)
(*                                                                         *)
(*   ValeOMasaje              a session that was not revived never gives   *)
(*                            the massage and a voucher;                   *)
(*   PagoConDestino           no payment ends in nothing;                  *)
(*   ExclusivaSalvoRevivida   two customers never share a chair, where no  *)
(*                            operator takes one;                          *)
(*   CorteSeResuelve          a cut is settled as a cut, where a session   *)
(*                            is paid once;                                *)
(*   SesionConDespertador     nobody forgets a session, where it is paid   *)
(*                            once, a relay command outlasts a statement   *)
(*                            and no late cancellation comes.              *)
(*                                                                         *)
(* Most steps only move a call from an await to the next (Callada); the    *)
(* others are taken one by one for each invariant.                         *)
(***************************************************************************)
EXTENDS Sesiones_proofs

\* The calls in flight of a session that stand at one of these awaits.
EnVuelo(s, pcs) == {h \in Llamadas : hilo[h].ses = s /\ hilo[h].pc \in pcs}
DeActivar == {"act_leer", "act_rele", "act_commit", "act_espera"}
TrasCerrar == {"liberar", "vale"}
DeOperador == {"man_crear", "emg_buscar", "emg_sesion", "emg_silla"}

\* The awaits between two writes of what a customer is owed.
Notables == {"crear_sesion", "crear_pref", "exp_silla"} \cup DeActivar \cup TrasCerrar

\* The mode of a call about to close a session: with a return pulse, never
\* straight from the massage.
BienCerrada(c) == c.modo \in Cierres /\ (c.ses \in ConRetorno => c.modo # "fin")

\* A step of the call h that neither leaves nor reaches such an await.
Callada(h) ==
    /\ UNCHANGED <<silla, estado, sillaDe, manual, motivo>>
    /\ UNCHANGED <<enlace, pagos, revision, vale, revivida>>
    /\ \A g \in Llamadas : g # h => hilo'[g] = hilo[g]
    /\ hilo[h].pc \notin Notables /\ hilo'[h].pc \notin Notables
    /\ hilo'[h].pc = "cerrar" => BienCerrada(hilo'[h])
    /\ hilo'[h].pc \in PcSilla => h \in Hilos \/ hilo[h].pc \in PcSilla
    /\ hilo'[h].pc \in DeOperador =>
           hilo[h].pc \in DeOperador \/ {"manual", "emergencia"} \cap Entradas # {}
    /\ \/ hilo[h].pc \in {"libre"} \cup PcSilla
       \/ hilo'[h].pc = "libre"
       \/ hilo'[h].ses = hilo[h].ses

\* The calls that only move on.
LEMMA PasosCallados ==
    ASSUME Coherente, NEW h \in Llamadas,
           \/ VencerEsperaLee(h) \/ CerrarPorCorteLee(h) \/ CerrarPorCorteApaga(h)
           \/ FinalizarLee(h) \/ FinalizarDetecta(h) \/ FinalizarRegistraCorte(h)
           \/ FinalizarApaga(h) \/ FinalizarProgramaRetorno(h) \/ IniciarRetornoLee(h)
           \/ IniciarRetornoRele(h) \/ IniciarRetornoPrograma(h) \/ CerrarSalidaLee(h)
           \/ CerrarSalidaApaga(h) \/ ReanudarLee(h) \/ ReanudarRele(h)
           \/ ReanudarReclama(h) \/ ReanudarPrograma(h) \/ EmergenciaBusca(h)
    PROVE  Callada(h)
<1> USE HilosAssumption, NadaAssumption DEF Llamadas, Callada, Notables, DeActivar, TrasCerrar,
    DeOperador, BienCerrada, Coherente, TypeOK, HiloCoherente, LlamadaCoherente, Existe, Llamada,
    PcSilla, PcSesion, Cierres, filas, cuentas, En, SesionDe
<1>1. ASSUME VencerEsperaLee(h) PROVE Callada(h)
  BY <1>1 DEF VencerEsperaLee, SigueEn, Termina, Libre
<1>2. ASSUME CerrarPorCorteLee(h) PROVE Callada(h)
  BY <1>2 DEF CerrarPorCorteLee, Sigue, Termina, Libre
<1>3. ASSUME CerrarPorCorteApaga(h) PROVE Callada(h)
  BY <1>3 DEF CerrarPorCorteApaga, ReleResponde, SigueEn
<1>4. ASSUME FinalizarLee(h) PROVE Callada(h)
  BY <1>4 DEF FinalizarLee, Sigue, Termina, Libre
<1>5. ASSUME FinalizarDetecta(h) PROVE Callada(h)
  BY <1>5 DEF FinalizarDetecta, Sigue
<1>6. ASSUME FinalizarRegistraCorte(h) PROVE Callada(h)
  BY <1>6 DEF FinalizarRegistraCorte, Termina, Sigue, Libre
<1>7. ASSUME FinalizarApaga(h) PROVE Callada(h)
  BY <1>7 DEF FinalizarApaga, ReleResponde, Sigue, SigueEn
<1>8. ASSUME FinalizarProgramaRetorno(h) PROVE Callada(h)
  BY <1>8 DEF FinalizarProgramaRetorno, Termina, Libre
<1>9. ASSUME IniciarRetornoLee(h) PROVE Callada(h)
  BY <1>9 DEF IniciarRetornoLee, Sigue, Termina, Libre
<1>10. ASSUME IniciarRetornoRele(h) PROVE Callada(h)
  BY <1>10 DEF IniciarRetornoRele, ReleResponde, Sigue, EmpezarCerrarSalida, Empieza
<1>11. ASSUME IniciarRetornoPrograma(h) PROVE Callada(h)
  BY <1>11 DEF IniciarRetornoPrograma, Termina, Libre
<1>12. ASSUME CerrarSalidaLee(h) PROVE Callada(h)
  BY <1>12 DEF CerrarSalidaLee, Sigue, Termina, Libre
<1>13. ASSUME CerrarSalidaApaga(h) PROVE Callada(h)
  BY <1>13 DEF CerrarSalidaApaga, ReleResponde, SigueEn
<1>14. ASSUME ReanudarLee(h) PROVE Callada(h)
  BY <1>14 DEF ReanudarLee, LeerParaReanudar, Empieza, Termina, Libre
<1>15. ASSUME ReanudarRele(h) PROVE Callada(h)
  BY <1>15 DEF ReanudarRele, ReleResponde, Sigue, Termina, Libre
<1>16. ASSUME ReanudarReclama(h) PROVE Callada(h)
  BY <1>16 DEF ReanudarReclama, Sigue, Termina, Libre
<1>17. ASSUME ReanudarPrograma(h) PROVE Callada(h)
  BY <1>17 DEF ReanudarPrograma, Termina, Libre
<1>18. ASSUME EmergenciaBusca(h) PROVE Callada(h)
  BY <1>18 DEF EmergenciaBusca, Sigue
<1> QED BY <1>1, <1>2, <1>3, <1>4, <1>5, <1>6, <1>7, <1>8, <1>9, <1>10, <1>11, <1>12,
           <1>13, <1>14, <1>15, <1>16, <1>17, <1>18

\* So do the requests that only start a call, and the timers.
LEMMA PedidosCallados ==
    ASSUME Coherente, NEW h \in Hilos,
           \/ \E t \in Silla : ActivarManual(h, t) \/ DetenerEmergencia(h, t)
           \/ \E s \in Sesion : CancelarCheckout(h, s) \/ DispararTimer(h, s)
    PROVE  Callada(h)
<1> USE HilosAssumption, NadaAssumption DEF Llamadas, Callada, Notables, DeActivar, TrasCerrar,
    DeOperador, BienCerrada, Coherente, TypeOK, HiloCoherente, LlamadaCoherente, Existe, Llamada,
    PcSilla, PcSesion, Cierres, filas, cuentas, En, SesionDe
<1>1. ASSUME NEW t \in Silla, ActivarManual(h, t) PROVE Callada(h)
  BY <1>1 DEF ActivarManual, Atiende, EmpiezaEnSilla
<1>2. ASSUME NEW t \in Silla, DetenerEmergencia(h, t) PROVE Callada(h)
  BY <1>2 DEF DetenerEmergencia, Atiende, EmpiezaEnSilla
<1>3. ASSUME NEW s \in Sesion, CancelarCheckout(h, s) PROVE Callada(h)
  BY <1>3 DEF CancelarCheckout, Atiende, EmpezarExpirarPago, Empieza
<1>4. ASSUME NEW s \in Sesion, DispararTimer(h, s) PROVE Callada(h)
  BY <1>4 DEF DispararTimer, EmpezarExpirarPago, EmpezarVencerEspera,
      EmpezarFinalizar, EmpezarIniciarRetorno, EmpezarCerrarSalida, Empieza
<1> QED BY <1>1, <1>2, <1>3, <1>4

\* EnergiaService, unless it retries an activation.
LEMMA EnergiaCallada ==
    ASSUME Coherente,
           \/ Revisar
           \/ \E f \in pasada : \/ RevisarOmite(f) \/ RevisarCierra(f)
                                \/ RevisarReanuda(f) \/ RevisarRegistra(f)
    PROVE  Callada(HiloEnergia)
<1> USE HilosAssumption, NadaAssumption DEF Llamadas, Callada, Notables, DeActivar, TrasCerrar,
    DeOperador, BienCerrada, Coherente, TypeOK, HiloCoherente, LlamadaCoherente, Existe, Llamada,
    PcSilla, PcSesion, Cierres, filas, cuentas, En, SesionDe
<1>1. ASSUME Revisar PROVE Callada(HiloEnergia)
  BY <1>1 DEF Revisar
<1>2. ASSUME NEW f \in pasada, RevisarOmite(f) PROVE Callada(HiloEnergia)
  BY <1>2 DEF RevisarOmite, Decide
<1>3. ASSUME NEW f \in pasada, RevisarCierra(f) PROVE Callada(HiloEnergia)
  BY <1>3 DEF RevisarCierra, Decide, EmpezarCerrarPorCorte, Empieza
<1>4. ASSUME NEW f \in pasada, RevisarReanuda(f) PROVE Callada(HiloEnergia)
  BY <1>4 DEF RevisarReanuda, Decide, LeerParaReanudar, Empieza, Termina, Libre
<1>5. ASSUME NEW f \in pasada, RevisarRegistra(f) PROVE Callada(HiloEnergia)
  BY <1>5 DEF RevisarRegistra, Decide, Empieza
<1> QED BY <1>1, <1>2, <1>3, <1>4, <1>5

\* The bootstrap.
LEMMA ArranqueCallado ==
    ASSUME Coherente, Arranque
    PROVE  Callada(HiloArranque)
<1> USE HilosAssumption, NadaAssumption DEF Llamadas, Callada, Notables, DeActivar, TrasCerrar,
    DeOperador, BienCerrada, Coherente, TypeOK, HiloCoherente, LlamadaCoherente, Existe, Llamada,
    PcSilla, PcSesion, Cierres, filas, cuentas, En, SesionDe
<1>1. ASSUME ArranqueLee PROVE Callada(HiloArranque)
  BY <1>1 DEF ArranqueLee
<1>2. ASSUME NEW s \in Sesion, ArranqueRecupera(s) PROVE Callada(HiloArranque)
  BY <1>2 DEF ArranqueRecupera, EmpezarFinalizar, EmpezarCerrarSalida,
      EmpezarVencerEspera, EmpezarExpirarPago, Empieza
<1> QED BY <1>1, <1>2 DEF Arranque

\* The others are these.
Ruidosa(h) ==
    \/ \E s \in Sesion : \/ CrearSesion(h, s) \/ CrearManual(h, s)
                         \/ h \in Hilos /\ AplicarPago(h, s)
    \/ \E t \in Silla : h \in Hilos /\ ReservarSilla(h, t)
    \/ CrearPreferencia(h) \/ ExpirarPago(h) \/ ExpirarPagoLibera(h)
    \/ ActivarLee(h) \/ ActivarRele(h) \/ ActivarConfirma(h) \/ MarcarEsperandoEnergia(h)
    \/ Cerrar(h) \/ Liberar(h) \/ EmitirVale(h) \/ FinalizarASalida(h)
    \/ EmergenciaCancela(h) \/ EmergenciaLibera(h)
    \/ h = HiloEnergia /\ \E f \in pasada : RevisarEspera(f)

\* A step is a restart, or a step of one call.
LEMMA PasoDeUnaLlamada ==
    ASSUME Coherente, Next, ~Reiniciar
    PROVE  \E h \in Llamadas : Callada(h) \/ Ruidosa(h)
<1>1. CASE \E h \in Llamadas : Paso(h)
  BY <1>1, PasosCallados DEF Paso, Ruidosa
<1>2. CASE Pedido \/ \E h \in Hilos, s \in Sesion : DispararTimer(h, s)
  BY <1>2, PedidosCallados DEF Pedido, Ruidosa, Llamadas
<1>3. CASE Energia
  BY <1>3, EnergiaCallada DEF Energia, Ruidosa, Llamadas
<1>4. CASE Arranque
  BY <1>4, ArranqueCallado DEF Llamadas
<1> QED BY <1>1, <1>2, <1>3, <1>4 DEF Next

-----------------------------------------------------------------------------
(***************************************************************************)
(* One close, one voucher.                                                 *)
(***************************************************************************)

\* A session is closed once, by one call, and only that call may give it a
\* voucher.
CierreUnicoDe(s) ==
    /\ estado[s] \notin Cerradas => EnVuelo(s, TrasCerrar) = {} /\ vale[s] = "no"
    /\ \A h, g \in EnVuelo(s, TrasCerrar) : h = g
    /\ \A h \in EnVuelo(s, TrasCerrar) :
          /\ vale[s] = "no"
          /\ hilo[h].pc = "vale" \/ DaVale(s, hilo[h].modo) => estado[s] = "CANCELADA"
    /\ vale[s] # "duplicado"
    /\ vale[s] = "emitido" => estado[s] = "CANCELADA"

\* Unless it is written back to life.
CierreUnico == \A s \in Sesion : ~revivida[s] => CierreUnicoDe(s)

\* A step that leaves the session and the calls that closed it alone.
LEMMA CierreIntacto ==
    ASSUME NEW s, CierreUnicoDe(s), EnVuelo(s, TrasCerrar)' = EnVuelo(s, TrasCerrar),
           \A h \in EnVuelo(s, TrasCerrar) : hilo'[h] = hilo[h],
           estado'[s] = estado[s] \/ (estado[s] \notin Cerradas /\ estado'[s] # "INEXISTENTE")
                                  \/ estado'[s] = "CANCELADA",
           vale'[s] = vale[s], manual'[s] = manual[s] \/ EnVuelo(s, TrasCerrar) = {}
    PROVE  CierreUnicoDe(s)'
BY DEF CierreUnicoDe, DaVale, Cerradas
\* A session not marked as written back was not closed.
LEMMA ReviveCasos ==
    ASSUME NEW s, NEW r \in Sesion, revivida \in [Sesion -> BOOLEAN], Revive(s), ~revivida'[r]
    PROVE  ~revivida[r] /\ (r = s => estado[r] \in Vivas)
<1>1. CASE r = s
  <2>1. revivida'[r] = (revivida[r] \/ estado[r] \notin Vivas)
    BY <1>1, Zenon DEF Revive
  <2> QED BY <2>1, Zenon
<1>2. CASE r # s
  BY <1>2 DEF Revive
<1> QED BY <1>1, <1>2

\* A call that is not closing the session does not disturb its close.
LEMMA CierreAjeno ==
    ASSUME NEW s, NEW h \in Llamadas, CierreUnicoDe(s),
           \A g \in Llamadas : g # h => hilo'[g] = hilo[g],
           hilo[h].ses = s => hilo[h].pc \notin TrasCerrar,
           hilo'[h].ses = s => hilo'[h].pc \notin TrasCerrar,
           \/ estado'[s] = estado[s]
           \/ estado[s] \notin Cerradas /\ estado'[s] # "INEXISTENTE"
           \/ estado'[s] = "CANCELADA",
           vale'[s] = vale[s], manual'[s] = manual[s] \/ estado[s] \notin Cerradas
    PROVE  CierreUnicoDe(s)'
<1>1. EnVuelo(s, TrasCerrar)' = EnVuelo(s, TrasCerrar)
  BY DEF EnVuelo
<1>2. \A g \in EnVuelo(s, TrasCerrar) : hilo'[g] = hilo[g]
  BY DEF EnVuelo
<1>3. manual'[s] = manual[s] \/ EnVuelo(s, TrasCerrar) = {}
  BY DEF CierreUnicoDe
<1> QED BY <1>1, <1>2, <1>3, CierreIntacto

\* Every step of a call preserves CierreUnico.
LEMMA CierreUnicoPaso ==
    ASSUME Coherente, CierreUnico, NEW h \in Llamadas, Callada(h) \/ Ruidosa(h)
    PROVE  CierreUnico'
<1> USE NadaAssumption, HilosAssumption DEF Llamadas
<1>1. SUFFICES ASSUME NEW r \in Sesion, ~revivida'[r] PROVE CierreUnicoDe(r)'
  BY DEF CierreUnico
<1> DEFINE Ajeno ==
      /\ \A g \in Llamadas : g # h => hilo'[g] = hilo[g]
      /\ hilo[h].ses = r => hilo[h].pc \notin TrasCerrar
      /\ hilo'[h].ses = r => hilo'[h].pc \notin TrasCerrar
      /\ \/ estado'[r] = estado[r]
         \/ estado[r] \notin Cerradas /\ estado'[r] # "INEXISTENTE"
         \/ estado'[r] = "CANCELADA"
      /\ vale'[r] = vale[r]
      /\ manual'[r] = manual[r] \/ estado[r] \notin Cerradas
      /\ ~revivida[r]
<1>2. SUFFICES ASSUME ~Ajeno PROVE CierreUnicoDe(r)'
  BY CierreAjeno DEF CierreUnico
<1> USE DEF Coherente, TypeOK, HiloCoherente, LlamadaCoherente, Existe, Llamada,
    PcSilla, PcSesion, filas, cuentas, En, SesionDe, SillaDe, TrasCerrar, Cerradas,
    Libre, Termina, Sigue, Empieza
<1>3. ASSUME Callada(h) PROVE Ajeno
  BY <1>1, <1>3 DEF Callada, Notables
<1>4. ASSUME NEW s \in Sesion, CrearSesion(h, s) \/ CrearManual(h, s) PROVE Ajeno
  BY <1>1, <1>4 DEF CrearSesion, CrearManual
<1>5. ASSUME NEW s \in Sesion, h \in Hilos, AplicarPago(h, s) PROVE Ajeno
  BY <1>1, <1>5 DEF AplicarPago, Atiende, LeerParaActivar
<1>6. ASSUME NEW t \in Silla, h \in Hilos, ReservarSilla(h, t) PROVE Ajeno
  BY <1>1, <1>6 DEF ReservarSilla, Atiende, EmpiezaEnSilla
<1>7. ASSUME CrearPreferencia(h) PROVE Ajeno
  BY <1>1, <1>7 DEF CrearPreferencia, EmpezarExpirarPago
<1>8. ASSUME ExpirarPago(h) PROVE Ajeno
  BY <1>1, <1>8 DEF ExpirarPago
<1>9. ASSUME ExpirarPagoLibera(h) PROVE Ajeno
  BY <1>1, <1>9 DEF ExpirarPagoLibera
<1>10. ASSUME ActivarLee(h) \/ ActivarRele(h) PROVE Ajeno
  BY <1>1, <1>10 DEF ActivarLee, LeerParaActivar, ActivarRele, ReleResponde
<1>11. ASSUME ActivarConfirma(h) \/ MarcarEsperandoEnergia(h) PROVE Ajeno
  <2>1. /\ \A g \in Llamadas : g # h => hilo'[g] = hilo[g]
        /\ hilo[h].pc \notin TrasCerrar /\ hilo'[h].pc \notin TrasCerrar
        /\ vale' = vale /\ manual' = manual
        /\ r # SesionDe(h) => estado'[r] = estado[r]
        /\ estado'[r] # "INEXISTENTE" \/ r # SesionDe(h)
    BY <1>11 DEF ActivarConfirma, MarcarEsperandoEnergia
  <2>2. ~revivida[r] /\ (r = SesionDe(h) => estado[r] \in Vivas)
    BY <1>1, <1>11, ReviveCasos DEF ActivarConfirma, MarcarEsperandoEnergia
  <2> QED BY <2>1, <2>2 DEF Vivas
<1>12. ASSUME FinalizarASalida(h) PROVE Ajeno
  BY <1>1, <1>12 DEF FinalizarASalida, PuedeSalir
<1>13. ASSUME EmergenciaCancela(h) \/ EmergenciaLibera(h) PROVE Ajeno
  BY <1>1, <1>13 DEF EmergenciaCancela, EmergenciaLibera
<1>14. ASSUME h = HiloEnergia, NEW f \in pasada, RevisarEspera(f) PROVE Ajeno
  BY <1>1, <1>14 DEF RevisarEspera, Decide, EmpezarVencerEspera, LeerParaActivar
<1>15. ASSUME Cerrar(h) PROVE CierreUnicoDe(r)'
  BY <1>1, <1>2, <1>15 DEF Cerrar, Reclama, Desde, EstadoFinal, CierreUnico,
     CierreUnicoDe, EnVuelo, DaVale
<1>16. ASSUME Liberar(h) PROVE CierreUnicoDe(r)'
  BY <1>1, <1>2, <1>16 DEF Liberar, CierreUnico, CierreUnicoDe, EnVuelo, DaVale
<1>17. ASSUME EmitirVale(h) PROVE CierreUnicoDe(r)'
  BY <1>1, <1>2, <1>17 DEF EmitirVale, CierreUnico, CierreUnicoDe, EnVuelo, DaVale
<1> QED BY <1>2, <1>3, <1>4, <1>5, <1>6, <1>7, <1>8, <1>9, <1>10, <1>11, <1>12, <1>13,
           <1>14, <1>15, <1>16, <1>17 DEF Ruidosa
\* CierreUnico is inductive next to Coherente.
LEMMA CierreUnicoInductivo ==
    /\ Init => CierreUnico
    /\ Coherente /\ CierreUnico /\ [Next]_vars => CierreUnico'
<1>1. Init => CierreUnico
  BY DEF Init, CierreUnico, CierreUnicoDe, EnVuelo, Libre, TrasCerrar, Cerradas
<1>2. ASSUME Coherente, CierreUnico, [Next]_vars PROVE CierreUnico'
  <2>1. CASE Reiniciar
    <3>1. \A s \in Sesion : EnVuelo(s, TrasCerrar)' = {}
      BY <2>1 DEF Reiniciar, EnVuelo, Libre, TrasCerrar
    <3> QED BY <1>2, <2>1, <3>1 DEF Reiniciar, CierreUnico, CierreUnicoDe, cuentas
  <2>2. CASE UNCHANGED vars
    BY <1>2, <2>2 DEF vars, CierreUnico, CierreUnicoDe, EnVuelo, DaVale
  <2>3. CASE Next /\ ~Reiniciar
    BY <1>2, <2>3, PasoDeUnaLlamada, CierreUnicoPaso
  <2> QED BY <1>2, <2>1, <2>2, <2>3
<1> QED BY <1>1, <1>2

\* A session that activarSesion did not write back to life gives the massage or
\* the voucher, never both and never two vouchers (ValeOMasaje), with any number of
\* payments, cuts and restarts.  One that it did can give both: its wait for
\* power had been closed, with a voucher, while the relay was awaited.
THEOREM MasajeOVale == Spec => []ValeOMasaje
<1>1. Spec => [](Coherente /\ CierreUnico)
  BY CoherenteInductiva, CierreUnicoInductivo, PTL DEF Spec
<1>2. CierreUnico => ValeOMasaje
  BY DEF CierreUnico, CierreUnicoDe, ValeOMasaje
<1> QED BY <1>1, <1>2, PTL

-----------------------------------------------------------------------------
(***************************************************************************)
(* No payment ends in nothing.                                             *)
(***************************************************************************)

\* Only sessions with a checkout are paid, and an operator's has none.
PagoConEnlaceDe(s) ==
    /\ manual[s] => Existe(s) /\ ~enlace[s]
    /\ pagos[s] > 0 => enlace[s]
    /\ \A h \in EnVuelo(s, {"crear_pref"}) : ~manual[s]
PagoConEnlace == \A s \in Sesion : PagoConEnlaceDe(s)

\* A step that opens no checkout, pays nothing and creates no session.
LEMMA EnlaceIntacto ==
    ASSUME NEW s, NEW h \in Llamadas, PagoConEnlaceDe(s),
           \A g \in Llamadas : g # h => hilo'[g] = hilo[g],
           hilo'[h].ses = s => hilo'[h].pc # "crear_pref",
           enlace'[s] = enlace[s], manual'[s] = manual[s],
           pagos'[s] = pagos[s] \/ enlace[s],
           estado[s] # "INEXISTENTE" => estado'[s] # "INEXISTENTE"
    PROVE  PagoConEnlaceDe(s)'
BY DEF PagoConEnlaceDe, EnVuelo, Existe

\* Every step of a call preserves it.
LEMMA PagoConEnlacePaso ==
    ASSUME Coherente, PagoConEnlace, NEW h \in Llamadas, Callada(h) \/ Ruidosa(h)
    PROVE  PagoConEnlace'
<1> USE NadaAssumption, HilosAssumption DEF Llamadas
<1>1. SUFFICES ASSUME NEW r \in Sesion PROVE PagoConEnlaceDe(r)'
  BY DEF PagoConEnlace
<1> DEFINE Intacto ==
      /\ \A g \in Llamadas : g # h => hilo'[g] = hilo[g]
      /\ hilo'[h].ses = r => hilo'[h].pc # "crear_pref"
      /\ enlace'[r] = enlace[r] /\ manual'[r] = manual[r]
      /\ pagos'[r] = pagos[r] \/ enlace[r]
      /\ estado[r] # "INEXISTENTE" => estado'[r] # "INEXISTENTE"
<1>2. SUFFICES ASSUME ~Intacto PROVE PagoConEnlaceDe(r)'
  BY EnlaceIntacto DEF PagoConEnlace
<1> USE DEF Coherente, TypeOK, HiloCoherente, LlamadaCoherente, ReferenciasCoherentes,
    Existe, Llamada, PcSilla, PcSesion, filas, cuentas, En, SesionDe, SillaDe,
    Libre, Termina, Sigue, Empieza
<1>3. ASSUME Callada(h) PROVE Intacto
  BY <1>1, <1>3 DEF Callada, Notables
<1>4. ASSUME NEW s \in Sesion, CrearSesion(h, s) PROVE PagoConEnlaceDe(r)'
  BY <1>2, <1>4 DEF CrearSesion, PagoConEnlace, PagoConEnlaceDe, EnVuelo
<1>5. ASSUME NEW s \in Sesion, CrearManual(h, s) PROVE PagoConEnlaceDe(r)'
  BY <1>2, <1>5 DEF CrearManual, PagoConEnlace, PagoConEnlaceDe, EnVuelo
<1>6. ASSUME NEW s \in Sesion, h \in Hilos, AplicarPago(h, s) PROVE Intacto
  BY <1>1, <1>6 DEF AplicarPago, Atiende, LeerParaActivar
<1>7. ASSUME NEW t \in Silla, h \in Hilos, ReservarSilla(h, t) PROVE Intacto
  BY <1>1, <1>7 DEF ReservarSilla, Atiende, EmpiezaEnSilla
<1>8. ASSUME CrearPreferencia(h) PROVE PagoConEnlaceDe(r)'
  BY <1>2, <1>8 DEF CrearPreferencia, EmpezarExpirarPago, PagoConEnlace, PagoConEnlaceDe, EnVuelo
<1>9. ASSUME ExpirarPago(h) \/ ExpirarPagoLibera(h) PROVE Intacto
  BY <1>1, <1>9 DEF ExpirarPago, ExpirarPagoLibera
<1>10. ASSUME ActivarLee(h) \/ ActivarRele(h) PROVE Intacto
  BY <1>1, <1>10 DEF ActivarLee, LeerParaActivar, ActivarRele, ReleResponde
<1>11. ASSUME ActivarConfirma(h) \/ MarcarEsperandoEnergia(h) PROVE Intacto
  BY <1>1, <1>11 DEF ActivarConfirma, MarcarEsperandoEnergia
<1>12. ASSUME FinalizarASalida(h) \/ Cerrar(h) PROVE Intacto
  BY <1>1, <1>12 DEF FinalizarASalida, Cerrar, EstadoFinal
<1>13. ASSUME EmergenciaCancela(h) \/ EmergenciaLibera(h) PROVE Intacto
  BY <1>1, <1>13 DEF EmergenciaCancela, EmergenciaLibera
<1>14. ASSUME h = HiloEnergia, NEW f \in pasada, RevisarEspera(f) PROVE Intacto
  BY <1>1, <1>14 DEF RevisarEspera, Decide, EmpezarVencerEspera, LeerParaActivar
<1>15. ASSUME Liberar(h) \/ EmitirVale(h) PROVE Intacto
  BY <1>1, <1>15 DEF Liberar, EmitirVale
<1> QED BY <1>2, <1>3, <1>4, <1>5, <1>6, <1>7, <1>8, <1>9, <1>10, <1>11, <1>12, <1>13,
           <1>14, <1>15 DEF Ruidosa

\* PagoConEnlace is inductive next to Coherente.
LEMMA PagoConEnlaceInductivo ==
    /\ Init => PagoConEnlace
    /\ Coherente /\ PagoConEnlace /\ [Next]_vars => PagoConEnlace'
<1>1. Init => PagoConEnlace
  BY DEF Init, PagoConEnlace, PagoConEnlaceDe, EnVuelo, Libre
<1>2. ASSUME Coherente, PagoConEnlace, [Next]_vars PROVE PagoConEnlace'
  <2>1. CASE Reiniciar
    <3>1. \A s \in Sesion : EnVuelo(s, {"crear_pref"})' = {}
      BY <2>1 DEF Reiniciar, EnVuelo, Libre
    <3> QED BY <1>2, <2>1, <3>1 DEF Reiniciar, PagoConEnlace, PagoConEnlaceDe, Existe,
               cuentas, filas
  <2>2. CASE UNCHANGED vars
    BY <1>2, <2>2 DEF vars, PagoConEnlace, PagoConEnlaceDe, EnVuelo, Existe
  <2>3. CASE Next /\ ~Reiniciar
    BY <1>2, <2>3, PasoDeUnaLlamada, PagoConEnlacePaso
  <2> QED BY <1>2, <2>1, <2>2, <2>3
<1> QED BY <1>1, <1>2

Activando == DeActivar \ {"act_leer"}

\* A paid session that waits for its activation, or that was closed without a
\* voucher, has a call in flight that is not done with it.
PagoAtendidoDe(s) ==
    pagos[s] > 0 =>
        /\ estado[s] = "PENDIENTE" => EnVuelo(s, Activando) # {}
        /\ estado[s] = "CANCELADA" =>
              \/ vale[s] # "no" \/ motivo[s] = "parada_de_emergencia" \/ revision[s]
              \/ EnVuelo(s, Activando) # {}
              \/ \E h \in EnVuelo(s, TrasCerrar) : hilo[h].modo \in {"energia", "corte"}
PagoAtendido == \A s \in Sesion : PagoAtendidoDe(s)

\* A step of a call that is not done with the session, and goes on with it.
LEMMA PagoIntacto ==
    ASSUME NEW s, NEW h \in Llamadas, PagoAtendidoDe(s),
           \A g \in Llamadas : g # h => hilo'[g] = hilo[g],
           hilo[h].ses = s /\ hilo[h].pc \in Activando =>
               hilo'[h].ses = s /\ hilo'[h].pc \in Activando,
           hilo[h].ses = s => hilo[h].pc \notin TrasCerrar,
           estado'[s] = estado[s], pagos'[s] = pagos[s], vale'[s] = vale[s],
           motivo'[s] = motivo[s], revision'[s] = revision[s]
    PROVE  PagoAtendidoDe(s)'
<1>1. EnVuelo(s, Activando) # {} => EnVuelo(s, Activando)' # {}
  BY DEF EnVuelo
<1>2. \A g \in EnVuelo(s, TrasCerrar) : g \in EnVuelo(s, TrasCerrar)' /\ hilo'[g] = hilo[g]
  BY DEF EnVuelo
<1> QED BY <1>1, <1>2 DEF PagoAtendidoDe

\* Every step of a call preserves it.
LEMMA PagoAtendidoPaso ==
    ASSUME Coherente, PagoConEnlace, PagoAtendido, NEW h \in Llamadas,
           Callada(h) \/ Ruidosa(h)
    PROVE  PagoAtendido'
<1> USE NadaAssumption, HilosAssumption DEF Llamadas
<1>1. SUFFICES ASSUME NEW r \in Sesion, pagos'[r] > 0 PROVE PagoAtendidoDe(r)'
  BY DEF PagoAtendido, PagoAtendidoDe
<1> DEFINE Intacto ==
      /\ \A g \in Llamadas : g # h => hilo'[g] = hilo[g]
      /\ hilo[h].ses = r /\ hilo[h].pc \in Activando =>
             hilo'[h].ses = r /\ hilo'[h].pc \in Activando
      /\ hilo[h].ses = r => hilo[h].pc \notin TrasCerrar
      /\ estado'[r] = estado[r] /\ pagos'[r] = pagos[r] /\ vale'[r] = vale[r]
      /\ motivo'[r] = motivo[r] /\ revision'[r] = revision[r]
<1>2. SUFFICES ASSUME ~Intacto PROVE PagoAtendidoDe(r)'
  BY PagoIntacto DEF PagoAtendido
<1> USE DEF Coherente, TypeOK, HiloCoherente, LlamadaCoherente, ReferenciasCoherentes,
    Existe, Llamada, PcSilla, PcSesion, filas, cuentas, En, SesionDe, SillaDe,
    Libre, Termina, Sigue, Empieza, Activando, DeActivar, TrasCerrar
<1>3. ASSUME Callada(h) PROVE Intacto
  BY <1>1, <1>3 DEF Callada, Notables
<1>4. ASSUME NEW s \in Sesion, CrearSesion(h, s) \/ CrearManual(h, s) PROVE Intacto
  <2>1. pagos[r] > 0
    BY <1>1, <1>4 DEF CrearSesion, CrearManual
  <2>2. r # s
    BY <2>1, <1>4 DEF CrearSesion, CrearManual, PagoConEnlace, PagoConEnlaceDe
  <2> QED BY <2>2, <1>4 DEF CrearSesion, CrearManual
<1>5. ASSUME NEW s \in Sesion, h \in Hilos, AplicarPago(h, s) PROVE PagoAtendidoDe(r)'
  <2>1. CASE r = s
    BY <1>5, <2>1 DEF AplicarPago, Atiende, LeerParaActivar, Activables, PagoAtendidoDe,
       EnVuelo, Cerradas
  <2>2. CASE r # s
    BY <1>2, <1>5, <2>2 DEF AplicarPago, Atiende, LeerParaActivar
  <2> QED BY <2>1, <2>2
<1>6. ASSUME NEW t \in Silla, h \in Hilos, ReservarSilla(h, t) PROVE Intacto
  BY <1>1, <1>6 DEF ReservarSilla, Atiende, EmpiezaEnSilla
<1>7. ASSUME CrearPreferencia(h) PROVE Intacto
  BY <1>1, <1>7 DEF CrearPreferencia, EmpezarExpirarPago
<1>8. ASSUME ExpirarPago(h) PROVE PagoAtendidoDe(r)'
  BY <1>1, <1>2, <1>8 DEF ExpirarPago, PagoAtendido, PagoAtendidoDe, EnVuelo
<1>9. ASSUME ExpirarPagoLibera(h) PROVE Intacto
  BY <1>1, <1>9 DEF ExpirarPagoLibera
<1>10. ASSUME ActivarLee(h) \/ ActivarRele(h) PROVE Intacto
  BY <1>1, <1>10 DEF ActivarLee, LeerParaActivar, ActivarRele, ReleResponde
<1>11. ASSUME ActivarConfirma(h) \/ MarcarEsperandoEnergia(h) PROVE PagoAtendidoDe(r)'
  BY <1>1, <1>2, <1>11 DEF ActivarConfirma, MarcarEsperandoEnergia, PagoAtendidoDe
<1>12. ASSUME FinalizarASalida(h) PROVE PagoAtendidoDe(r)'
  BY <1>1, <1>2, <1>12 DEF FinalizarASalida, PagoAtendidoDe
<1>13. ASSUME EmergenciaCancela(h) \/ EmergenciaLibera(h) PROVE PagoAtendidoDe(r)'
  BY <1>1, <1>2, <1>13 DEF EmergenciaCancela, EmergenciaLibera, PagoAtendidoDe
<1>14. ASSUME h = HiloEnergia, NEW f \in pasada, RevisarEspera(f) PROVE Intacto
  BY <1>1, <1>14 DEF RevisarEspera, Decide, EmpezarVencerEspera, LeerParaActivar
<1>15. ASSUME Cerrar(h) PROVE PagoAtendidoDe(r)'
  BY <1>1, <1>2, <1>15 DEF Cerrar, EstadoFinal, PagoAtendidoDe, EnVuelo
<1>16. ASSUME Liberar(h) PROVE PagoAtendidoDe(r)'
  <2>1. CASE r # SesionDe(h)
    BY <1>2, <1>16, <2>1 DEF Liberar
  <2>2. CASE r = SesionDe(h)
    <3>1. /\ UNCHANGED <<estado, pagos, vale, motivo, revision, manual>>
          /\ \A g \in Llamadas : g # h => hilo'[g] = hilo[g]
          /\ hilo[h].pc = "liberar"
      BY <1>16 DEF Liberar
    <3>2. ~manual[r]
      BY <1>1, <3>1 DEF PagoConEnlace, PagoConEnlaceDe
    <3>3. hilo[h].modo \in {"energia", "corte"} =>
              hilo'[h].ses = r /\ hilo'[h].pc = "vale" /\ hilo'[h].modo = hilo[h].modo
      BY <1>16, <2>2, <3>2 DEF Liberar, DaVale
    <3>4. \A g \in EnVuelo(r, Activando) : g \in EnVuelo(r, Activando)'
      BY <3>1 DEF EnVuelo
    <3>5. ASSUME NEW g \in EnVuelo(r, TrasCerrar), hilo[g].modo \in {"energia", "corte"}
          PROVE  \E k \in EnVuelo(r, TrasCerrar)' : hilo'[k].modo \in {"energia", "corte"}
      BY <3>1, <3>3, <3>5 DEF EnVuelo
    <3> QED BY ONLY PagoAtendido, r \in Sesion, <3>1, <3>4, <3>5 DEF PagoAtendido, PagoAtendidoDe
  <2> QED BY <2>1, <2>2
<1>17. ASSUME EmitirVale(h) PROVE PagoAtendidoDe(r)'
  <2>1. CASE r # SesionDe(h)
    BY <1>2, <1>17, <2>1 DEF EmitirVale
  <2>2. CASE r = SesionDe(h)
    <3>1. vale'[r] # "no"
      BY <1>17, <2>2 DEF EmitirVale, Vales
    <3>2. estado'[r] = estado[r] /\ pagos'[r] = pagos[r] /\ hilo[h].pc = "vale"
      BY <1>17 DEF EmitirVale
    <3>3. \A g \in EnVuelo(r, Activando) : g \in EnVuelo(r, Activando)'
      BY <1>17 DEF EmitirVale, EnVuelo
    <3> QED BY <3>1, <3>2, <3>3 DEF PagoAtendido, PagoAtendidoDe
  <2> QED BY <2>1, <2>2
<1> QED BY <1>2, <1>3, <1>4, <1>5, <1>6, <1>7, <1>8, <1>9, <1>10, <1>11, <1>12, <1>13,
           <1>14, <1>15, <1>16, <1>17 DEF Ruidosa

\* Until the process dies, no applied payment ends in nothing (PagoConDestino),
\* however many payments, cuts, timeouts and operators meet in one session.
THEOREM NingunPagoPerdido == Spec => []PagoConDestino
<1> DEFINE Inv == Coherente /\ PagoConEnlace /\ (reinicios = 0 => PagoAtendido)
<1>1. Init => Inv
  BY CoherenteInductiva, PagoConEnlaceInductivo DEF Init, PagoAtendido, PagoAtendidoDe
<1>2. Inv /\ [Next]_vars => Inv'
  <2> SUFFICES ASSUME Inv, [Next]_vars, reinicios' = 0, ~(UNCHANGED vars) PROVE PagoAtendido'
    <3>1. CASE UNCHANGED vars
      BY <3>1, CoherenteInductiva, PagoConEnlaceInductivo DEF vars, PagoAtendido,
         PagoAtendidoDe, EnVuelo
    <3> QED BY <3>1, CoherenteInductiva, PagoConEnlaceInductivo
  <2>1. ~Reiniciar
    BY BoundsAssumption DEF Reiniciar, Coherente, TypeOK
  <2>2. reinicios = 0
    BY <2>1, ReiniciosSoloAlReiniciar
  <2> QED BY <2>1, <2>2, PasoDeUnaLlamada, PagoAtendidoPaso
<1>3. Inv => PagoConDestino
  <2> SUFFICES ASSUME Inv, NEW s \in Sesion, reinicios = 0, pagos[s] > 0,
                      estado[s] = "CANCELADA", ~EnCurso(s)
               PROVE  vale[s] # "no" \/ motivo[s] = "parada_de_emergencia" \/ revision[s]
    BY DEF PagoConDestino
  <2>1. EnVuelo(s, Activando) = {} /\ EnVuelo(s, TrasCerrar) = {}
    BY DEF EnCurso, EnVuelo, Activando, DeActivar, TrasCerrar
  <2> QED BY <2>1 DEF PagoAtendido, PagoAtendidoDe
<1> QED BY <1>1, <1>2, <1>3, PTL DEF Spec

-----------------------------------------------------------------------------
(***************************************************************************)
(* One customer per chair, where no operator takes chairs.                 *)
(***************************************************************************)
SinOperadores == {"manual", "emergencia"} \cap Entradas = {}
SinOperador == \A h \in Llamadas : hilo[h].pc \notin DeOperador

\* A row that does not exist names no chair.
FilaSinUsar == \A s \in Sesion : ~Existe(s) => sillaDe[s] = Nada

SinRevividas(t) == \A s \in Sesion : sillaDe[s] = t => ~revivida[s]

\* A chair has one owner at most: a session, or the call that will create it or
\* free the chair; and a chair with an owner is not LIBRE.
UnDuenioDe(t) ==
    /\ \A r, s \in VivasEn(t) : r = s
    /\ \A g, h \in Llamadas : SigueConSilla(g, t) /\ SigueConSilla(h, t) => g = h
    /\ VivasEn(t) # {} => \A h \in Llamadas : ~SigueConSilla(h, t)
    /\ VivasEn(t) # {} \/ (\E h \in Llamadas : SigueConSilla(h, t)) => silla[t] # "LIBRE"
UnDuenio == \A t \in Silla : SinRevividas(t) => UnDuenioDe(t)

\* A step that leaves the chair with the owner it has.
LEMMA DuenioIntacto ==
    ASSUME NEW t, UnDuenioDe(t), VivasEn(t)' = VivasEn(t),
           \A g \in Llamadas : SigueConSilla(g, t)' <=> SigueConSilla(g, t),
           silla[t] # "LIBRE" => silla'[t] # "LIBRE"
    PROVE  UnDuenioDe(t)'
BY DEF UnDuenioDe

\* No step brings an operator in.
LEMMA SinOperadorPaso ==
    ASSUME SinOperadores, Coherente, SinOperador, NEW h \in Llamadas,
           Callada(h) \/ Ruidosa(h)
    PROVE  SinOperador'
<1> SUFFICES ASSUME NEW g \in Llamadas PROVE hilo'[g].pc \notin DeOperador
  BY DEF SinOperador
<1> USE HilosAssumption DEF Llamadas, Coherente, TypeOK, Llamada, En, SesionDe, Libre,
    Termina, Sigue, Empieza, SinOperador, DeOperador, SinOperadores
<1>1. CASE Callada(h)
  BY <1>1 DEF Callada
<1>2. ASSUME NEW s \in Sesion, CrearSesion(h, s) \/ CrearManual(h, s)
      PROVE  hilo'[g].pc \notin DeOperador
  BY <1>2 DEF CrearSesion, CrearManual
<1>3. ASSUME h \in Hilos, NEW s \in Sesion, AplicarPago(h, s)
      PROVE  hilo'[g].pc \notin DeOperador
  BY <1>3 DEF AplicarPago, LeerParaActivar
<1>4. ASSUME h \in Hilos, NEW t \in Silla, ReservarSilla(h, t)
      PROVE  hilo'[g].pc \notin DeOperador
  BY <1>4 DEF ReservarSilla, EmpiezaEnSilla
<1>5. CASE CrearPreferencia(h) \/ ExpirarPago(h) \/ ExpirarPagoLibera(h)
  BY <1>5 DEF CrearPreferencia, EmpezarExpirarPago, ExpirarPago, ExpirarPagoLibera
<1>6. CASE ActivarLee(h) \/ ActivarRele(h) \/ ActivarConfirma(h) \/ MarcarEsperandoEnergia(h)
  BY <1>6 DEF ActivarLee, LeerParaActivar, ActivarRele, ReleResponde, ActivarConfirma,
     MarcarEsperandoEnergia
<1>7. CASE Cerrar(h) \/ Liberar(h) \/ EmitirVale(h) \/ FinalizarASalida(h)
  BY <1>7 DEF Cerrar, Liberar, EmitirVale, FinalizarASalida
<1>8. CASE EmergenciaCancela(h) \/ EmergenciaLibera(h)
  BY <1>8 DEF EmergenciaCancela, EmergenciaLibera
<1>9. ASSUME h = HiloEnergia, NEW f \in pasada, RevisarEspera(f)
      PROVE  hilo'[g].pc \notin DeOperador
  BY <1>9 DEF RevisarEspera, EmpezarVencerEspera, LeerParaActivar
<1> QED BY <1>1, <1>2, <1>3, <1>4, <1>5, <1>6, <1>7, <1>8, <1>9 DEF Ruidosa

\* Every step of a call keeps one owner per chair.
LEMMA UnDuenioPaso ==
    ASSUME Coherente, SinOperador, SinOperador', FilaSinUsar, UnDuenio, NEW h \in Llamadas,
           Callada(h) \/ Ruidosa(h)
    PROVE  UnDuenio'
<1> USE NadaAssumption, HilosAssumption DEF Llamadas
<1>1. SUFFICES ASSUME NEW t \in Silla, SinRevividas(t)' PROVE UnDuenioDe(t)'
  BY DEF UnDuenio
<1> DEFINE Intacto ==
      /\ SinRevividas(t)
      /\ VivasEn(t)' = VivasEn(t)
      /\ \A g \in Llamadas : SigueConSilla(g, t)' <=> SigueConSilla(g, t)
      /\ silla[t] # "LIBRE" => silla'[t] # "LIBRE"
<1>2. SUFFICES ASSUME ~Intacto PROVE UnDuenioDe(t)'
  BY DuenioIntacto DEF UnDuenio
<1> USE DEF Coherente, TypeOK, HiloCoherente, LlamadaCoherente, Existe, Llamada,
    PcSilla, PcSesion, filas, cuentas, En, SesionDe, SillaDe, Libre, Termina, Sigue,
    Empieza, DeOperador, SinRevividas, VivasEn, SigueConSilla, Vivas
<1>3. ASSUME Callada(h) PROVE Intacto
  BY <1>1, <1>3 DEF Callada, Notables, TrasCerrar, SinOperador
<1>4. ASSUME NEW s \in Sesion, CrearSesion(h, s) PROVE UnDuenioDe(t)'
  BY <1>1, <1>4 DEF CrearSesion, FilaDeSilla, UnDuenio, UnDuenioDe, FilaSinUsar
<1>5. ASSUME NEW s \in Sesion, h \in Hilos, AplicarPago(h, s) PROVE Intacto
  BY <1>1, <1>5 DEF AplicarPago, Atiende, LeerParaActivar
<1>6. ASSUME NEW u \in Silla, h \in Hilos, ReservarSilla(h, u) PROVE UnDuenioDe(t)'
  BY <1>1, <1>6 DEF ReservarSilla, Atiende, EmpiezaEnSilla, SillaLibre, UnDuenio, UnDuenioDe
<1>7. ASSUME CrearPreferencia(h) PROVE Intacto
  BY <1>1, <1>7 DEF CrearPreferencia, EmpezarExpirarPago
<1>8. ASSUME ExpirarPago(h) PROVE UnDuenioDe(t)'
  BY <1>1, <1>8 DEF ExpirarPago, UnDuenio, UnDuenioDe
<1>9. ASSUME ExpirarPagoLibera(h) PROVE UnDuenioDe(t)'
  BY <1>1, <1>9 DEF ExpirarPagoLibera, UnDuenio, UnDuenioDe
<1>10. ASSUME ActivarLee(h) \/ ActivarRele(h) PROVE Intacto
  BY <1>1, <1>10 DEF ActivarLee, LeerParaActivar, ActivarRele, ReleResponde
<1>11. ASSUME ActivarConfirma(h) \/ MarcarEsperandoEnergia(h) PROVE Intacto
  <2>1. \A r \in Sesion : sillaDe[r] = t =>
            ~revivida[r] /\ (r = SesionDe(h) => estado[r] \in Vivas)
    BY <1>1, <1>11, ReviveCasos DEF ActivarConfirma, MarcarEsperandoEnergia
  <2>2. VivasEn(t)' = VivasEn(t)
    BY <2>1, <1>11 DEF ActivarConfirma, MarcarEsperandoEnergia
  <2>3. \A g \in Llamadas : SigueConSilla(g, t)' <=> SigueConSilla(g, t)
    BY <1>11 DEF ActivarConfirma, MarcarEsperandoEnergia
  <2>4. silla[t] # "LIBRE" => silla'[t] # "LIBRE"
    BY <1>11 DEF ActivarConfirma, MarcarEsperandoEnergia
  <2> QED BY <2>1, <2>2, <2>3, <2>4
<1>12. ASSUME FinalizarASalida(h) PROVE Intacto
  BY <1>1, <1>12 DEF FinalizarASalida, PuedeSalir
<1>13. ASSUME h = HiloEnergia, NEW f \in pasada, RevisarEspera(f) PROVE Intacto
  BY <1>1, <1>13 DEF RevisarEspera, Decide, EmpezarVencerEspera, LeerParaActivar
<1>14. ASSUME Cerrar(h) PROVE UnDuenioDe(t)'
  BY <1>1, <1>14 DEF Cerrar, Reclama, Desde, EstadoFinal, UnDuenio, UnDuenioDe
<1>15. ASSUME Liberar(h) PROVE UnDuenioDe(t)'
  BY <1>1, <1>15 DEF Liberar, UnDuenio, UnDuenioDe
<1>16. ASSUME EmitirVale(h) PROVE Intacto
  BY <1>1, <1>16 DEF EmitirVale
<1>17. ASSUME NEW s \in Sesion PROVE ~CrearManual(h, s)
  BY DEF SinOperador, CrearManual
<1>18. ~EmergenciaCancela(h) /\ ~EmergenciaLibera(h)
  BY DEF SinOperador, EmergenciaCancela, EmergenciaLibera
<1> QED BY <1>2, <1>3, <1>4, <1>5, <1>6, <1>7, <1>8, <1>9, <1>10, <1>11, <1>12, <1>13,
           <1>14, <1>15, <1>16, <1>17, <1>18 DEF Ruidosa

\* A row once created stays, so the chair it names counts.
LEMMA FilaSinUsarPaso ==
    ASSUME Coherente, FilaSinUsar, NEW h \in Llamadas, Callada(h) \/ Ruidosa(h)
    PROVE  FilaSinUsar'
<1> SUFFICES ASSUME NEW r \in Sesion, ~Existe(r)' PROVE sillaDe'[r] = Nada
  BY DEF FilaSinUsar
<1> USE DEF Coherente, TypeOK, filas, Existe, FilaSinUsar, EstadoSesion
<1>1. CASE Callada(h)
  BY <1>1 DEF Callada
<1>2. ASSUME NEW s \in Sesion, CrearSesion(h, s) \/ CrearManual(h, s)
      PROVE  sillaDe'[r] = Nada
  BY <1>2 DEF CrearSesion, CrearManual, FilaDeSilla
<1>3. ASSUME NEW s \in Sesion, AplicarPago(h, s) PROVE sillaDe'[r] = Nada
  BY <1>3 DEF AplicarPago
<1>4. ASSUME NEW t \in Silla, ReservarSilla(h, t) PROVE sillaDe'[r] = Nada
  BY <1>4 DEF ReservarSilla
<1>5. CASE CrearPreferencia(h) \/ ExpirarPago(h) \/ ExpirarPagoLibera(h)
  BY <1>5 DEF CrearPreferencia, ExpirarPago, ExpirarPagoLibera
<1>6. CASE ActivarLee(h) \/ ActivarRele(h) \/ ActivarConfirma(h) \/ MarcarEsperandoEnergia(h)
  BY <1>6 DEF ActivarLee, ActivarRele, ActivarConfirma, MarcarEsperandoEnergia
<1>7. CASE Cerrar(h) \/ Liberar(h) \/ EmitirVale(h) \/ FinalizarASalida(h)
  BY <1>7 DEF Cerrar, EstadoFinal, Liberar, EmitirVale, FinalizarASalida
<1>8. CASE EmergenciaCancela(h) \/ EmergenciaLibera(h)
  BY <1>8 DEF EmergenciaCancela, EmergenciaLibera
<1>9. ASSUME NEW f \in pasada, RevisarEspera(f) PROVE sillaDe'[r] = Nada
  BY <1>9 DEF RevisarEspera, Decide
<1> QED BY <1>1, <1>2, <1>3, <1>4, <1>5, <1>6, <1>7, <1>8, <1>9 DEF Ruidosa

\* After a restart no call owns a chair.
LEMMA ReiniciarSuelta ==
    ASSUME Coherente, UnDuenio, FilaSinUsar, Reiniciar
    PROVE  SinOperador' /\ FilaSinUsar' /\ UnDuenio'
<1>1. SinOperador' /\ FilaSinUsar'
  BY DEF Reiniciar, SinOperador, DeOperador, Libre, FilaSinUsar, Existe, filas
<1>2. \A t \in Silla, g \in Llamadas : ~SigueConSilla(g, t)'
  BY DEF Reiniciar, SigueConSilla, Libre
<1>3. \A t \in Silla : SinRevividas(t)' => SinRevividas(t)
  BY DEF Reiniciar, SinRevividas, filas, cuentas
<1>4. \A t \in Silla : VivasEn(t)' = VivasEn(t)
  BY DEF Reiniciar, VivasEn, filas
<1>5. silla' = silla
  BY DEF Reiniciar
<1>6. UnDuenio'
  BY <1>2, <1>3, <1>4, <1>5 DEF UnDuenio, UnDuenioDe
<1> QED BY <1>1, <1>6

\* Where no operator takes chairs, two customers never share one, and the chair
\* of an unfinished session is never offered, unless a closed session of that
\* chair was written back to life (ExclusivaSalvoRevivida). With an operator it
\* fails: neither an activation by hand nor the end of an emergency stop looks
\* at who has the chair.
THEOREM UnClientePorSilla ==
    ASSUME SinOperadores
    PROVE  Spec => []ExclusivaSalvoRevivida
<1> DEFINE Inv == Coherente /\ SinOperador /\ FilaSinUsar /\ UnDuenio
<1>1. Init => Inv
  BY CoherenteInductiva DEF Init, SinOperador, FilaSinUsar, UnDuenio, UnDuenioDe,
     VivasEn, SigueConSilla, Libre, DeOperador, Vivas, Existe
<1>2. Inv /\ [Next]_vars => Inv'
  <2> SUFFICES ASSUME Inv, [Next]_vars PROVE Inv'
    OBVIOUS
  <2>1. Coherente'
    BY CoherenteInductiva
  <2>2. CASE Reiniciar
    BY <2>1, <2>2, ReiniciarSuelta
  <2>3. CASE UNCHANGED vars
    BY <2>1, <2>3 DEF vars, SinOperador, FilaSinUsar, UnDuenio, UnDuenioDe, Existe,
       VivasEn, SigueConSilla, SillaDe, SinRevividas
  <2>4. CASE Next /\ ~Reiniciar
    <3>1. PICK h \in Llamadas : Callada(h) \/ Ruidosa(h)
      BY <2>4, PasoDeUnaLlamada
    <3>2. SinOperador'
      BY <3>1, SinOperadorPaso
    <3> QED BY <2>1, <3>1, <3>2, FilaSinUsarPaso, UnDuenioPaso
  <2> QED BY <2>2, <2>3, <2>4
<1>3. Inv => ExclusivaSalvoRevivida
  BY DEF ExclusivaSalvoRevivida, UnDuenio, UnDuenioDe, SinRevividas
<1> QED BY <1>1, <1>2, <1>3, PTL DEF Spec

-----------------------------------------------------------------------------
(***************************************************************************)
(* One activation at a time, and the cut is settled as a cut.              *)
(***************************************************************************)

\* Only EnergiaService resumes a massage after a cut, or closes it for the cut.
DeEnergia == {"cor_leer", "cor_off", "rea_leer", "rea_rele", "rea_cas", "rea_silla"}

\* A row of the pass is the only one of its session, and not of the session
\* EnergiaService is working on.
PasadaUnica ==
    /\ \A f, g \in pasada : f.ses = g.ses => f = g
    /\ hilo[HiloEnergia].pc # "libre" => \A f \in pasada : hilo[HiloEnergia].ses # f.ses
    /\ hilo[HiloEnergia].pc \notin PcSilla
    /\ \A h \in Llamadas : hilo[h].pc \in DeEnergia => h = HiloEnergia

\* A call in flight leaves the pass alone, and goes on with its session.
LEMMA PasoConSuSesion ==
    ASSUME Coherente, NEW h \in Llamadas, Paso(h)
    PROVE  /\ pasada' = pasada
           /\ hilo[h].pc # "libre"
           /\ \A g \in Llamadas : g # h => hilo'[g] = hilo[g]
           /\ hilo'[h].pc \in PcSilla => hilo[h].pc \in PcSilla
           /\ hilo'[h].pc \in DeEnergia => hilo[h].pc \in DeEnergia
           /\ hilo'[h].pc # "cor_leer"
           /\ \/ hilo[h].pc \in PcSilla
              \/ hilo'[h].pc = "libre"
              \/ hilo'[h].ses = hilo[h].ses
<1> DEFINE Meta == /\ pasada' = pasada
                   /\ hilo[h].pc # "libre"
                   /\ \A g \in Llamadas : g # h => hilo'[g] = hilo[g]
                   /\ hilo'[h].pc \in PcSilla => hilo[h].pc \in PcSilla
                   /\ hilo'[h].pc \in DeEnergia => hilo[h].pc \in DeEnergia
                   /\ hilo'[h].pc # "cor_leer"
                   /\ \/ hilo[h].pc \in PcSilla
                      \/ hilo'[h].pc = "libre"
                      \/ hilo'[h].ses = hilo[h].ses
<1> USE DEF Llamadas, Coherente, TypeOK, Llamada, control, En, SesionDe, PcSilla, Libre,
    DeEnergia, Termina, Sigue, SigueEn, Empieza, ReleResponde
<1>1. ASSUME NEW s \in Sesion, CrearSesion(h, s) \/ CrearManual(h, s) PROVE Meta
  BY <1>1 DEF CrearSesion, CrearManual
<1>2. CASE CrearPreferencia(h) \/ ExpirarPago(h) \/ ExpirarPagoLibera(h)
  BY <1>2 DEF CrearPreferencia, EmpezarExpirarPago, ExpirarPago, ExpirarPagoLibera
<1>3. CASE ActivarLee(h) \/ ActivarRele(h) \/ ActivarConfirma(h) \/ MarcarEsperandoEnergia(h)
  BY <1>3 DEF ActivarLee, LeerParaActivar, ActivarRele, ActivarConfirma,
     MarcarEsperandoEnergia
<1>4. CASE Cerrar(h) \/ Liberar(h) \/ EmitirVale(h) \/ VencerEsperaLee(h)
  BY <1>4 DEF Cerrar, Liberar, EmitirVale, VencerEsperaLee
<1>5. CASE CerrarPorCorteLee(h) \/ CerrarPorCorteApaga(h) \/ FinalizarLee(h)
  BY <1>5 DEF CerrarPorCorteLee, CerrarPorCorteApaga, FinalizarLee
<1>6. CASE FinalizarDetecta(h) \/ FinalizarRegistraCorte(h) \/ FinalizarApaga(h)
  BY <1>6 DEF FinalizarDetecta, FinalizarRegistraCorte, FinalizarApaga
<1>7. CASE FinalizarASalida(h) \/ FinalizarProgramaRetorno(h) \/ IniciarRetornoLee(h)
  BY <1>7 DEF FinalizarASalida, FinalizarProgramaRetorno, IniciarRetornoLee
<1>8. CASE IniciarRetornoRele(h) \/ IniciarRetornoPrograma(h)
  BY <1>8 DEF IniciarRetornoRele, EmpezarCerrarSalida, IniciarRetornoPrograma
<1>9. CASE CerrarSalidaLee(h) \/ CerrarSalidaApaga(h)
  BY <1>9 DEF CerrarSalidaLee, CerrarSalidaApaga
<1>10. CASE ReanudarLee(h) \/ ReanudarRele(h) \/ ReanudarReclama(h) \/ ReanudarPrograma(h)
  BY <1>10 DEF ReanudarLee, LeerParaReanudar, ReanudarRele, ReanudarReclama,
     ReanudarPrograma
<1>11. CASE EmergenciaBusca(h) \/ EmergenciaCancela(h) \/ EmergenciaLibera(h)
  BY <1>11 DEF EmergenciaBusca, EmergenciaCancela, EmergenciaLibera
<1> QED BY <1>1, <1>2, <1>3, <1>4, <1>5, <1>6, <1>7, <1>8, <1>9, <1>10, <1>11 DEF Paso

\* The entry points, the timers and the bootstrap leave EnergiaService alone.
LEMMA EntradaAjena ==
    ASSUME Coherente,
           Pedido \/ (\E h \in Hilos, s \in Sesion : DispararTimer(h, s)) \/ Arranque
    PROVE  /\ pasada' = pasada
           /\ hilo'[HiloEnergia] = hilo[HiloEnergia]
           /\ \A g \in Llamadas : hilo'[g].pc \in DeEnergia => hilo'[g] = hilo[g]
<1> USE HilosAssumption DEF Llamadas, Coherente, TypeOK, Libre, DeEnergia, Empieza,
    EmpiezaEnSilla, Termina, EmpezarExpirarPago, EmpezarVencerEspera, EmpezarFinalizar,
    EmpezarIniciarRetorno, EmpezarCerrarSalida
<1>1. CASE Pedido
  BY <1>1 DEF Pedido, control, ReservarSilla, ActivarManual, DetenerEmergencia,
     CancelarCheckout, AplicarPago, LeerParaActivar
<1>2. ASSUME NEW h \in Hilos, NEW s \in Sesion, DispararTimer(h, s)
      PROVE  /\ pasada' = pasada /\ hilo'[HiloEnergia] = hilo[HiloEnergia]
             /\ \A g \in Llamadas : hilo'[g].pc \in DeEnergia => hilo'[g] = hilo[g]
  BY <1>2 DEF DispararTimer, control
<1>3. CASE Arranque
  BY <1>3 DEF Arranque, ArranqueLee, ArranqueRecupera
<1> QED BY <1>1, <1>2, <1>3

\* PasadaUnica is inductive next to Coherente.
LEMMA PasadaUnicaInductiva ==
    /\ Init => PasadaUnica
    /\ Coherente /\ PasadaUnica /\ [Next]_vars => PasadaUnica'
<1> USE HilosAssumption DEF Llamadas
<1>1. Init => PasadaUnica
  BY DEF Init, PasadaUnica, Libre, PcSilla, DeEnergia
<1>2. ASSUME Coherente, PasadaUnica, [Next]_vars PROVE PasadaUnica'
  <2>1. CASE UNCHANGED vars
    BY <1>2, <2>1 DEF vars, PasadaUnica
  <2>2. ASSUME NEW h \in Llamadas, Paso(h) PROVE PasadaUnica'
    BY <1>2, <2>2, PasoConSuSesion DEF PasadaUnica
  <2>3. CASE \/ Pedido \/ Arranque
             \/ \E h \in Hilos, s \in Sesion : DispararTimer(h, s)
    BY <1>2, <2>3, EntradaAjena DEF PasadaUnica
  <2>4. CASE Revisar
    BY <1>2, <2>4 DEF PasadaUnica, Revisar, En
  <2>5. ASSUME NEW f \in pasada, Decide(f),
               \/ hilo' = hilo \/ Termina(HiloEnergia)
               \/ \E pc, m : pc \notin PcSilla /\ Empieza(HiloEnergia, pc, f.ses, m)
        PROVE  PasadaUnica'
    <3>1. /\ pasada' = pasada \ {f}
          /\ hilo'[HiloEnergia].pc = "libre" \/ hilo'[HiloEnergia].ses = f.ses
          /\ hilo'[HiloEnergia].pc \notin PcSilla
          /\ \A g \in Llamadas : g # HiloEnergia => hilo'[g] = hilo[g]
      BY <1>2, <2>5 DEF Coherente, TypeOK, Decide, Empieza, Termina, Libre, En, PcSilla
    <3> QED BY <1>2, <3>1 DEF PasadaUnica
  <2>6. CASE Energia
    BY <2>4, <2>5, <2>6 DEF Energia, RevisarOmite, RevisarEspera, RevisarCierra,
       RevisarReanuda, RevisarRegistra, LeerParaActivar, EmpezarVencerEspera,
       EmpezarCerrarPorCorte, LeerParaReanudar, PcSilla
  <2>7. CASE Reiniciar
    BY <2>7 DEF Reiniciar, PasadaUnica, Libre, PcSilla, DeEnergia
  <2> QED BY <1>2, <2>1, <2>2, <2>3, <2>6, <2>7 DEF Next
<1> QED BY <1>1, <1>2

\* Only a new pass reads rows.
LEMMA PasadaMengua ==
    ASSUME Coherente, Next, ~Revisar
    PROVE  pasada' \subseteq pasada
<1>1. CASE \E h \in Llamadas : Paso(h)
  BY <1>1, PasoConSuSesion
<1>2. CASE Pedido \/ \E h \in Hilos, s \in Sesion : DispararTimer(h, s)
  BY <1>2 DEF Pedido, control, ReservarSilla, ActivarManual, DetenerEmergencia,
     CancelarCheckout, AplicarPago, DispararTimer
<1>3. CASE Energia
  BY <1>3 DEF Energia, RevisarOmite, RevisarEspera, RevisarCierra, RevisarReanuda,
     RevisarRegistra, Decide
<1>4. CASE Arranque \/ Reiniciar
  BY <1>4 DEF Arranque, ArranqueLee, ArranqueRecupera, Reiniciar
<1> QED BY <1>1, <1>2, <1>3, <1>4 DEF Next

\* One activation at a time of a session: the payment's (or the operator's),
\* then those of EnergiaService; none once the massage has begun.
UnaActivacionDe(s) ==
    /\ \A g, h \in EnVuelo(s, DeActivar) : g = h
    /\ EnVuelo(s, DeActivar) # {} =>
          /\ estado[s] \in {"PENDIENTE", "ESPERANDO_ENERGIA", "CANCELADA"}
          /\ pagos[s] > 0 \/ manual[s]
    /\ \A h \in EnVuelo(s, DeActivar) : h # HiloEnergia =>
          /\ estado[s] # "ESPERANDO_ENERGIA"
          /\ \A f \in pasada : f.ses = s => f.estado = "ACTIVA"
    /\ estado[s] = "ESPERANDO_ENERGIA" => pagos[s] > 0 \/ manual[s]
    /\ \A f \in pasada : f.ses = s /\ f.estado = "ESPERANDO_ENERGIA" =>
          /\ estado[s] \notin {"PENDIENTE", "ACTIVA", "SALIDA"}
          /\ pagos[s] > 0 \/ manual[s]
UnaActivacion == \A s \in Sesion : UnaActivacionDe(s)

\* A step that starts no activation and does not start the massage.
LEMMA ActivacionIntacta ==
    ASSUME Coherente, NEW s \in Sesion, NEW h \in Llamadas, UnaActivacionDe(s),
           pasada' \subseteq pasada,
           \A g \in Llamadas : g # h => hilo'[g] = hilo[g],
           hilo'[h].ses = s /\ hilo'[h].pc \in DeActivar =>
               hilo[h].ses = s /\ hilo[h].pc \in DeActivar,
           \/ estado'[s] = estado[s]
           \/ estado'[s] = "CANCELADA"
           \/ estado[s] \in {"ACTIVA", "SALIDA"} /\ estado'[s] # "ESPERANDO_ENERGIA",
           pagos'[s] = pagos[s], manual'[s] = manual[s]
    PROVE  UnaActivacionDe(s)'
<1>1. EnVuelo(s, DeActivar)' \subseteq EnVuelo(s, DeActivar)
  BY DEF EnVuelo
<1> QED BY <1>1 DEF UnaActivacionDe

\* Every step of a call preserves it, if a session is paid once.
LEMMA UnaActivacionPaso ==
    ASSUME MaxPagos \leq 1, Coherente, PagoConEnlace, PasadaUnica, UnaActivacion,
           NEW h \in Llamadas, Callada(h) \/ Ruidosa(h), pasada' \subseteq pasada
    PROVE  UnaActivacion'
<1> USE NadaAssumption, HilosAssumption, BoundsAssumption DEF Llamadas
<1>1. SUFFICES ASSUME NEW r \in Sesion PROVE UnaActivacionDe(r)'
  BY DEF UnaActivacion
<1> DEFINE Intacta ==
      /\ \A g \in Llamadas : g # h => hilo'[g] = hilo[g]
      /\ hilo'[h].ses = r /\ hilo'[h].pc \in DeActivar =>
             hilo[h].ses = r /\ hilo[h].pc \in DeActivar
      /\ \/ estado'[r] = estado[r]
         \/ estado'[r] = "CANCELADA"
         \/ estado[r] \in {"ACTIVA", "SALIDA"} /\ estado'[r] # "ESPERANDO_ENERGIA"
      /\ pagos'[r] = pagos[r] /\ manual'[r] = manual[r]
<1>2. SUFFICES ASSUME ~Intacta PROVE UnaActivacionDe(r)'
  BY ActivacionIntacta DEF UnaActivacion
<1> USE DEF Coherente, TypeOK, HiloCoherente, LlamadaCoherente, ReferenciasCoherentes,
    Existe, Llamada, PcSilla, PcSesion, filas, cuentas, En, SesionDe, SillaDe,
    Libre, Termina, Sigue, Empieza, DeActivar
<1>3. ASSUME Callada(h) PROVE Intacta
  BY <1>1, <1>3 DEF Callada, Notables
<1>4. ASSUME NEW s \in Sesion, CrearSesion(h, s) PROVE UnaActivacionDe(r)'
  BY <1>1, <1>2, <1>4 DEF CrearSesion, UnaActivacion, UnaActivacionDe, EnVuelo
<1>5. ASSUME NEW s \in Sesion, CrearManual(h, s) PROVE UnaActivacionDe(r)'
  BY <1>1, <1>2, <1>5 DEF CrearManual, UnaActivacion, UnaActivacionDe, EnVuelo
<1>6. ASSUME NEW s \in Sesion, h \in Hilos, AplicarPago(h, s) PROVE UnaActivacionDe(r)'
  <2>1. CASE r # s
    BY <1>2, <1>6, <2>1 DEF AplicarPago, LeerParaActivar
  <2>2. CASE r = s
    <3>1. pagos[r] = 0 /\ ~manual[r]
      BY <1>6, <2>2 DEF AplicarPago, PagoConEnlace, PagoConEnlaceDe
    <3>2. /\ EnVuelo(r, DeActivar) = {} /\ estado[r] # "ESPERANDO_ENERGIA"
          /\ \A f \in pasada : f.ses = r => f.estado # "ESPERANDO_ENERGIA"
      BY <3>1 DEF UnaActivacion, UnaActivacionDe
    <3>3. EnVuelo(r, DeActivar)' \subseteq {h}
      BY <1>6, <3>2 DEF AplicarPago, LeerParaActivar, EnVuelo
    <3>4. EnVuelo(r, DeActivar)' # {} => estado[r] = "PENDIENTE"
      BY <1>6, <2>2, <3>2 DEF AplicarPago, LeerParaActivar, Activables, EnVuelo
    <3>5. /\ pagos'[r] > 0 /\ estado' = estado
          /\ \A f \in pasada : f.ses = r => f.estado = "ACTIVA"
      BY <1>6, <2>2, <3>1, <3>2 DEF AplicarPago, Fila
    <3> QED BY <3>2, <3>3, <3>4, <3>5 DEF UnaActivacionDe
  <2> QED BY <2>1, <2>2
<1>7. ASSUME NEW t \in Silla, h \in Hilos, ReservarSilla(h, t) PROVE Intacta
  BY <1>1, <1>7 DEF ReservarSilla, Atiende, EmpiezaEnSilla
<1>8. ASSUME CrearPreferencia(h) \/ ExpirarPago(h) \/ ExpirarPagoLibera(h) PROVE Intacta
  BY <1>1, <1>8 DEF CrearPreferencia, EmpezarExpirarPago, ExpirarPago, ExpirarPagoLibera
<1>9. ASSUME ActivarLee(h) \/ ActivarRele(h) PROVE Intacta
  BY <1>1, <1>9 DEF ActivarLee, LeerParaActivar, ActivarRele, ReleResponde
<1>10. ASSUME ActivarConfirma(h) PROVE UnaActivacionDe(r)'
  BY <1>1, <1>2, <1>10 DEF ActivarConfirma, UnaActivacion, UnaActivacionDe, EnVuelo,
     PasadaUnica
<1>11. ASSUME MarcarEsperandoEnergia(h) PROVE UnaActivacionDe(r)'
  BY <1>1, <1>2, <1>11 DEF MarcarEsperandoEnergia, UnaActivacion, UnaActivacionDe, EnVuelo
<1>12. ASSUME FinalizarASalida(h) PROVE Intacta
  BY <1>1, <1>12 DEF FinalizarASalida, PuedeSalir
<1>13. ASSUME EmergenciaCancela(h) \/ EmergenciaLibera(h) PROVE Intacta
  BY <1>1, <1>13 DEF EmergenciaCancela, EmergenciaLibera
<1>14. ASSUME h = HiloEnergia, NEW f \in pasada, RevisarEspera(f) PROVE UnaActivacionDe(r)'
  BY <1>1, <1>2, <1>14 DEF RevisarEspera, Decide, EmpezarVencerEspera, LeerParaActivar,
     Activables, UnaActivacion, UnaActivacionDe, EnVuelo, Fila
<1>15. ASSUME Cerrar(h) PROVE Intacta
  BY <1>1, <1>15 DEF Cerrar, Reclama, Desde, EstadoFinal
<1>16. ASSUME Liberar(h) \/ EmitirVale(h) PROVE Intacta
  BY <1>1, <1>16 DEF Liberar, EmitirVale
<1> QED BY <1>2, <1>3, <1>4, <1>5, <1>6, <1>7, <1>8, <1>9, <1>10, <1>11, <1>12, <1>13,
           <1>14, <1>15, <1>16 DEF Ruidosa

\* A new pass reads the activations as they stand.
LEMMA UnaActivacionPasada ==
    ASSUME Coherente, UnaActivacion, Revisar
    PROVE  UnaActivacion'
<1> SUFFICES ASSUME NEW r \in Sesion PROVE UnaActivacionDe(r)'
  BY DEF UnaActivacion
<1>1. EnVuelo(r, DeActivar)' = EnVuelo(r, DeActivar)
  BY DEF Revisar, EnVuelo
<1>2. \A f \in pasada' : f.estado = estado[f.ses] /\ f.estado \in {"ACTIVA", "ESPERANDO_ENERGIA"}
  BY DEF Revisar
<1> QED BY <1>1, <1>2 DEF Revisar, filas, cuentas, UnaActivacion, UnaActivacionDe

\* UnaActivacion is inductive next to the invariants it leans on.
LEMMA UnaActivacionInductiva ==
    ASSUME MaxPagos \leq 1
    PROVE  /\ Init => UnaActivacion
           /\ Coherente /\ PagoConEnlace /\ PasadaUnica /\ UnaActivacion /\ [Next]_vars
                => UnaActivacion'
<1>1. Init => UnaActivacion
  BY DEF Init, UnaActivacion, UnaActivacionDe, EnVuelo, Libre, DeActivar
<1>2. ASSUME Coherente, PagoConEnlace, PasadaUnica, UnaActivacion, [Next]_vars
      PROVE  UnaActivacion'
  <2>1. CASE Reiniciar
    <3>1. \A s \in Sesion : EnVuelo(s, DeActivar)' = {}
      BY <2>1 DEF Reiniciar, EnVuelo, Libre, DeActivar
    <3>2. pasada' = {} /\ UNCHANGED <<estado, pagos, manual>>
      BY <2>1 DEF Reiniciar, filas, cuentas
    <3> QED BY <1>2, <3>1, <3>2 DEF UnaActivacion, UnaActivacionDe
  <2>2. CASE UNCHANGED vars
    BY <1>2, <2>2 DEF vars, UnaActivacion, UnaActivacionDe, EnVuelo
  <2>3. CASE Revisar
    BY <1>2, <2>3, UnaActivacionPasada
  <2>4. CASE Next /\ ~Reiniciar /\ ~Revisar
    BY <1>2, <2>4, PasoDeUnaLlamada, PasadaMengua, UnaActivacionPaso
  <2> QED BY <1>2, <2>1, <2>2, <2>3, <2>4
<1> QED BY <1>1, <1>2

\* A session with a return pulse is never closed straight from the massage.
CierraConRetorno == \A h \in Llamadas : hilo[h].pc = "cerrar" => BienCerrada(hilo[h])

\* Nor do the steps that are not quiet close one.
LEMMA CierraConRetornoInductivo ==
    /\ Init => CierraConRetorno
    /\ Coherente /\ CierraConRetorno /\ [Next]_vars => CierraConRetorno'
<1>1. Init => CierraConRetorno
  BY DEF Init, CierraConRetorno, Libre
<1>2. ASSUME Coherente, CierraConRetorno, NEW h \in Llamadas, Callada(h) \/ Ruidosa(h)
      PROVE  CierraConRetorno'
  <2> USE DEF Llamadas, Coherente, TypeOK, Llamada, En, SesionDe, Libre, Termina, Sigue, Empieza
  <2> DEFINE Ajena == /\ \A g \in Llamadas : g # h => hilo'[g] = hilo[g]
                      /\ hilo'[h].pc = "cerrar" => BienCerrada(hilo'[h])
  <2>1. CASE Callada(h)
    BY <1>2, <2>1 DEF Callada, CierraConRetorno
  <2>2. ASSUME NEW s \in Sesion, CrearSesion(h, s) \/ CrearManual(h, s) PROVE Ajena
    BY <1>2, <2>2 DEF CrearSesion, CrearManual
  <2>3. ASSUME NEW s \in Sesion, h \in Hilos, AplicarPago(h, s) PROVE Ajena
    BY <1>2, <2>3 DEF AplicarPago, LeerParaActivar
  <2>4. ASSUME NEW t \in Silla, h \in Hilos, ReservarSilla(h, t) PROVE Ajena
    BY <1>2, <2>4 DEF ReservarSilla, EmpiezaEnSilla
  <2>5. ASSUME CrearPreferencia(h) \/ ExpirarPago(h) \/ ExpirarPagoLibera(h)
        PROVE  Ajena
    BY <1>2, <2>5 DEF CrearPreferencia, EmpezarExpirarPago, ExpirarPago, ExpirarPagoLibera
  <2>6. ASSUME ActivarLee(h) \/ ActivarRele(h) \/ ActivarConfirma(h) \/ MarcarEsperandoEnergia(h)
        PROVE  Ajena
    BY <1>2, <2>6 DEF ActivarLee, LeerParaActivar, ActivarRele, ReleResponde,
       ActivarConfirma, MarcarEsperandoEnergia
  <2>7. ASSUME Cerrar(h) \/ Liberar(h) \/ EmitirVale(h) \/ FinalizarASalida(h)
        PROVE  Ajena
    BY <1>2, <2>7 DEF Cerrar, Liberar, EmitirVale, FinalizarASalida
  <2>8. ASSUME EmergenciaCancela(h) \/ EmergenciaLibera(h)
        PROVE  Ajena
    BY <1>2, <2>8 DEF EmergenciaCancela, EmergenciaLibera
  <2>9. ASSUME h = HiloEnergia, NEW f \in pasada, RevisarEspera(f) PROVE Ajena
    BY <1>2, <2>9 DEF RevisarEspera, EmpezarVencerEspera, LeerParaActivar
  <2>10. Callada(h) \/ Ajena
    BY <1>2, <2>2, <2>3, <2>4, <2>5, <2>6, <2>7, <2>8, <2>9 DEF Ruidosa
  <2> QED BY <1>2, <2>1, <2>10 DEF CierraConRetorno
<1>3. ASSUME Coherente, CierraConRetorno, [Next]_vars PROVE CierraConRetorno'
  <2>1. CASE Reiniciar
    BY <2>1 DEF Reiniciar, CierraConRetorno, Libre
  <2>2. CASE UNCHANGED vars
    BY <1>3, <2>2 DEF vars, CierraConRetorno
  <2> QED BY <1>2, <1>3, <2>1, <2>2, PasoDeUnaLlamada
<1> QED BY <1>1, <1>3

\* Where a session is paid once, a session with a return pulse that is in the
\* middle of a cut is settled as a cut, whoever settles it (CorteSeResuelve).
\* A second payment may write such a session back to waiting for power.
THEOREM CorteComoCorte ==
    ASSUME MaxPagos \leq 1
    PROVE  Spec => CorteSeResuelve
<1> DEFINE Inv == Coherente /\ PagoConEnlace /\ PasadaUnica /\ UnaActivacion /\ CierraConRetorno
           Resuelve == \A s \in ConRetorno :
               estado[s] = "ACTIVA" /\ cortada[s] /\ estado'[s] # "ACTIVA"
                   => motivo'[s] \in MotivosDeCorte
<1>1. Spec => []Inv
  BY CoherenteInductiva, PagoConEnlaceInductivo, PasadaUnicaInductiva,
     UnaActivacionInductiva, CierraConRetornoInductivo, PTL DEF Spec
<1>2. ASSUME Inv, NEW h \in Llamadas, Callada(h) \/ Ruidosa(h),
             NEW r \in ConRetorno, estado[r] = "ACTIVA", cortada[r], estado'[r] # "ACTIVA"
      PROVE  motivo'[r] \in MotivosDeCorte
  <2> USE RetornoAssumption DEF Coherente, TypeOK, HiloCoherente, LlamadaCoherente, Existe,
      Llamada, PcSilla, PcSesion, filas, cuentas, En, SesionDe, Termina, Sigue
  <2>1. r \in Sesion
    OBVIOUS
  <2>2. ~Callada(h)
    BY <1>2 DEF Callada
  <2>3. \A s \in Sesion : ~CrearSesion(h, s) /\ ~CrearManual(h, s) /\ ~AplicarPago(h, s)
    BY <1>2, <2>1 DEF CrearSesion, CrearManual, AplicarPago
  <2>4. ~CrearPreferencia(h) /\ ~ExpirarPago(h) /\ ~ExpirarPagoLibera(h)
    BY <1>2, <2>1 DEF CrearPreferencia, ExpirarPago, ExpirarPagoLibera
  <2>5. /\ \A t \in Silla : ~ReservarSilla(h, t)
        /\ \A f \in pasada : ~RevisarEspera(f)
    BY <1>2, <2>1 DEF ReservarSilla, RevisarEspera, Decide
  <2>6. ~ActivarLee(h) /\ ~ActivarRele(h) /\ ~ActivarConfirma(h)
    BY <1>2, <2>1 DEF ActivarLee, ActivarRele, ActivarConfirma
  <2>7. ~MarcarEsperandoEnergia(h)
    BY <1>2, <2>1 DEF MarcarEsperandoEnergia, UnaActivacion, UnaActivacionDe, EnVuelo,
       DeActivar
  <2>8. ~Liberar(h) /\ ~EmitirVale(h) /\ ~FinalizarASalida(h) /\ ~EmergenciaLibera(h)
    BY <1>2, <2>1 DEF Liberar, EmitirVale, FinalizarASalida, PuedeSalir, EmergenciaLibera
  <2>9. CASE Cerrar(h)
    BY <1>2, <2>1, <2>9 DEF Cerrar, Reclama, Desde, MotivoDe, MotivosDeCorte,
       CierraConRetorno, BienCerrada, Cierres
  <2>10. CASE EmergenciaCancela(h)
    BY <1>2, <2>1, <2>10 DEF EmergenciaCancela, MotivosDeCorte
  <2> QED BY <1>2, <2>2, <2>3, <2>4, <2>5, <2>6, <2>7, <2>8, <2>9, <2>10 DEF Ruidosa
<1>3. Inv /\ [Next]_vars => [Resuelve]_vars
  <2> SUFFICES ASSUME Inv, Next PROVE Resuelve
    OBVIOUS
  <2>1. CASE Reiniciar
    BY <2>1, RetornoAssumption DEF Reiniciar
  <2>2. CASE ~Reiniciar
    BY <1>2, <2>2, PasoDeUnaLlamada
  <2> QED BY <2>1, <2>2
<1> QED BY <1>1, <1>3, PTL DEF Spec, CorteSeResuelve

-----------------------------------------------------------------------------
(***************************************************************************)
(* Nobody forgets a session.                                               *)
(***************************************************************************)

\* The massage has begun: whatever follows, it is not activated again.
Empezada(s) ==
    /\ estado[s] \in {"ACTIVA", "SALIDA", "COMPLETADA", "CANCELADA"}
    /\ EnVuelo(s, DeActivar) = {}

\* A session that has begun stays so, and does not go back to the massage.
LEMMA EmpezadaEstable ==
    ASSUME Coherente, NEW h \in Llamadas, Callada(h) \/ Ruidosa(h), NEW r \in Sesion, Empezada(r)
    PROVE  Empezada(r)' /\ (estado[r] # "ACTIVA" => estado'[r] # "ACTIVA")
<1> USE HilosAssumption, NadaAssumption DEF Llamadas
<1> DEFINE Meta == /\ \A g \in Llamadas : g # h => hilo'[g] = hilo[g]
                   /\ ~(hilo'[h].ses = r /\ hilo'[h].pc \in DeActivar)
                   /\ \/ estado'[r] = estado[r]
                      \/ estado'[r] \in {"SALIDA", "COMPLETADA", "CANCELADA"}
<1>1. SUFFICES Meta
  BY DEF Empezada, EnVuelo
<1>2. ~(hilo[h].ses = r /\ hilo[h].pc \in DeActivar)
  BY DEF Empezada, EnVuelo
<1> USE DEF Coherente, TypeOK, HiloCoherente, LlamadaCoherente, Existe, Llamada,
    PcSilla, PcSesion, filas, cuentas, En, SesionDe, Libre, Termina, Sigue, Empieza,
    Empezada, DeActivar
<1>3. ASSUME Callada(h) PROVE Meta
  BY <1>3 DEF Callada, Notables
<1>4. ASSUME NEW s \in Sesion, CrearSesion(h, s) \/ CrearManual(h, s) PROVE Meta
  BY <1>4 DEF CrearSesion, CrearManual
<1>5. ASSUME NEW s \in Sesion, h \in Hilos, AplicarPago(h, s) PROVE Meta
  BY <1>5 DEF AplicarPago, LeerParaActivar, Activables
<1>6. ASSUME NEW t \in Silla, h \in Hilos, ReservarSilla(h, t) PROVE Meta
  BY <1>6 DEF ReservarSilla, EmpiezaEnSilla
<1>7. ASSUME CrearPreferencia(h) \/ ExpirarPago(h) \/ ExpirarPagoLibera(h) PROVE Meta
  BY <1>7 DEF CrearPreferencia, EmpezarExpirarPago, ExpirarPago, ExpirarPagoLibera
<1>8. ASSUME ActivarLee(h) \/ ActivarRele(h) PROVE Meta
  BY <1>2, <1>8 DEF ActivarLee, LeerParaActivar, ActivarRele, ReleResponde
<1>9. ASSUME ActivarConfirma(h) \/ MarcarEsperandoEnergia(h) PROVE Meta
  BY <1>2, <1>9 DEF ActivarConfirma, MarcarEsperandoEnergia
<1>10. ASSUME Cerrar(h) PROVE Meta
  BY <1>10 DEF Cerrar, EstadoFinal
<1>11. ASSUME Liberar(h) \/ EmitirVale(h) \/ FinalizarASalida(h) PROVE Meta
  BY <1>11 DEF Liberar, EmitirVale, FinalizarASalida
<1>12. ASSUME EmergenciaCancela(h) \/ EmergenciaLibera(h) PROVE Meta
  BY <1>12 DEF EmergenciaCancela, EmergenciaLibera
<1>13. ASSUME h = HiloEnergia, NEW f \in pasada, RevisarEspera(f) PROVE Meta
  BY <1>13 DEF RevisarEspera, Decide, EmpezarVencerEspera, LeerParaActivar, Activables
<1> QED BY <1>3, <1>4, <1>5, <1>6, <1>7, <1>8, <1>9, <1>10, <1>11, <1>12, <1>13 DEF Ruidosa

\* Until it has its link, the session of a checkout is PENDIENTE or cancelled.
SinEnlaceDe(s) ==
    /\ Existe(s) /\ ~enlace[s] /\ ~manual[s] =>
          estado[s] \in {"PENDIENTE", "CANCELADA"} /\ EnVuelo(s, DeActivar) = {}
    /\ EnVuelo(s, {"crear_pref"}) # {} => ~enlace[s]
    /\ \A g, h \in EnVuelo(s, {"crear_pref"}) : g = h
SinEnlace == \A s \in Sesion : SinEnlaceDe(s)

\* Every step of a call preserves it.
LEMMA SinEnlacePaso ==
    ASSUME Coherente, UnaActivacion, SinEnlace, NEW h \in Llamadas, Callada(h) \/ Ruidosa(h)
    PROVE  SinEnlace'
<1> USE HilosAssumption, NadaAssumption DEF Llamadas
<1>1. SUFFICES ASSUME NEW r \in Sesion PROVE SinEnlaceDe(r)'
  BY DEF SinEnlace
<1> DEFINE Ajena == /\ \A g \in Llamadas : g # h => hilo'[g] = hilo[g]
                    /\ hilo'[h].ses = r /\ hilo'[h].pc \in DeActivar =>
                          \/ enlace[r] \/ manual[r]
                          \/ hilo[h].ses = r /\ hilo[h].pc \in DeActivar
                    /\ hilo'[h].ses = r => hilo'[h].pc # "crear_pref"
                    /\ \/ estado'[r] = estado[r]
                       \/ estado[r] # "INEXISTENTE" /\ estado'[r] = "CANCELADA"
                       \/ estado[r] \notin {"PENDIENTE", "CANCELADA", "INEXISTENTE"}
                    /\ enlace'[r] = enlace[r] /\ manual'[r] = manual[r]
<1>2. ASSUME Ajena PROVE SinEnlaceDe(r)'
  <2>1. EnVuelo(r, {"crear_pref"})' \subseteq EnVuelo(r, {"crear_pref"})
    BY <1>2 DEF EnVuelo
  <2>2. ~enlace[r] /\ ~manual[r] =>
            EnVuelo(r, DeActivar)' \subseteq EnVuelo(r, DeActivar)
    BY <1>2 DEF EnVuelo
  <2>3. enlace[r] \in BOOLEAN /\ manual[r] \in BOOLEAN
    BY DEF Coherente, TypeOK
  <2> QED BY <1>2, <2>1, <2>2, <2>3 DEF SinEnlace, SinEnlaceDe, Existe
<1> USE DEF Coherente, TypeOK, HiloCoherente, LlamadaCoherente, ReferenciasCoherentes,
    Existe, Llamada, PcSilla, PcSesion, filas, cuentas, En, SesionDe, Libre, Termina, Sigue,
    Empieza, DeActivar
<1>3. ASSUME Callada(h) PROVE Ajena
  BY <1>3 DEF Callada, Notables
<1>4. ASSUME NEW s \in Sesion, CrearSesion(h, s) PROVE SinEnlaceDe(r)'
  BY <1>2, <1>4 DEF CrearSesion, SinEnlace, SinEnlaceDe, EnVuelo
<1>5. ASSUME NEW s \in Sesion, CrearManual(h, s) PROVE SinEnlaceDe(r)'
  BY <1>2, <1>5 DEF CrearManual, SinEnlace, SinEnlaceDe, EnVuelo
<1>6. ASSUME NEW s \in Sesion, h \in Hilos, AplicarPago(h, s) PROVE Ajena
  <2>1. UNCHANGED <<estado, enlace, manual>> /\ enlace[s]
    BY <1>6 DEF AplicarPago
  <2>2. /\ \A g \in Llamadas : g # h => hilo'[g] = hilo[g]
        /\ hilo'[h].ses = r => r = s /\ hilo'[h].pc # "crear_pref"
    BY <1>6 DEF AplicarPago, LeerParaActivar
  <2> QED BY ONLY <2>1, <2>2, Zenon
<1>7. ASSUME NEW t \in Silla, h \in Hilos, ReservarSilla(h, t) PROVE Ajena
  BY <1>7 DEF ReservarSilla, EmpiezaEnSilla
<1>8. ASSUME CrearPreferencia(h) PROVE SinEnlaceDe(r)'
  BY <1>2, <1>8 DEF CrearPreferencia, EmpezarExpirarPago, SinEnlace, SinEnlaceDe, EnVuelo
<1>9. ASSUME ExpirarPago(h) \/ ExpirarPagoLibera(h) PROVE Ajena
  BY <1>9 DEF ExpirarPago, ExpirarPagoLibera
<1>10. ASSUME ActivarLee(h) \/ ActivarRele(h) PROVE Ajena
  BY <1>10 DEF ActivarLee, LeerParaActivar, ActivarRele, ReleResponde
<1>11. ASSUME ActivarConfirma(h) \/ MarcarEsperandoEnergia(h) PROVE SinEnlaceDe(r)'
  BY <1>2, <1>11 DEF ActivarConfirma, MarcarEsperandoEnergia, SinEnlace, SinEnlaceDe, EnVuelo
<1>12. ASSUME Cerrar(h) PROVE Ajena
  BY <1>12 DEF Cerrar, Reclama, Desde, EstadoFinal
<1>13. ASSUME Liberar(h) \/ EmitirVale(h) \/ FinalizarASalida(h) PROVE Ajena
  BY <1>13 DEF Liberar, EmitirVale, FinalizarASalida, PuedeSalir
<1>14. ASSUME EmergenciaCancela(h) \/ EmergenciaLibera(h) PROVE Ajena
  BY <1>14 DEF EmergenciaCancela, EmergenciaLibera
<1>15. ASSUME h = HiloEnergia, NEW f \in pasada, RevisarEspera(f) PROVE Ajena
  <2>1. /\ UNCHANGED <<estado, enlace, manual>>
        /\ f.ses \in Sesion /\ f.estado = "ESPERANDO_ENERGIA"
    BY <1>15 DEF RevisarEspera, Decide, Fila
  <2>2. /\ \A g \in Llamadas : g # h => hilo'[g] = hilo[g]
        /\ hilo'[h].ses = r => r = f.ses /\ hilo'[h].pc # "crear_pref"
        /\ hilo'[h].ses = r /\ hilo'[h].pc \in DeActivar => estado[r] \in Activables
    BY <1>15 DEF RevisarEspera, EmpezarVencerEspera, LeerParaActivar
  <2>3. hilo'[h].ses = r /\ hilo'[h].pc \in DeActivar => estado[r] = "ESPERANDO_ENERGIA"
    BY <1>15, <2>1, <2>2 DEF UnaActivacion, UnaActivacionDe, Activables
  <2>4. estado[r] = "ESPERANDO_ENERGIA" => enlace[r] \/ manual[r]
    BY DEF SinEnlace, SinEnlaceDe
  <2> QED BY ONLY <2>1, <2>2, <2>3, <2>4, Zenon
<1> QED BY <1>2, <1>3, <1>4, <1>5, <1>6, <1>7, <1>8, <1>9, <1>10, <1>11, <1>12, <1>13,
           <1>14, <1>15 DEF Ruidosa

\* SinEnlace is inductive next to Coherente and UnaActivacion.
LEMMA SinEnlaceInductivo ==
    /\ Init => SinEnlace
    /\ Coherente /\ UnaActivacion /\ SinEnlace /\ [Next]_vars => SinEnlace'
<1>1. Init => SinEnlace
  BY DEF Init, SinEnlace, SinEnlaceDe, EnVuelo, Libre, Existe
<1>2. ASSUME Coherente, UnaActivacion, SinEnlace, [Next]_vars PROVE SinEnlace'
  <2>1. CASE Reiniciar
    <3>1. \A s \in Sesion : EnVuelo(s, DeActivar)' = {} /\ EnVuelo(s, {"crear_pref"})' = {}
      BY <2>1 DEF Reiniciar, EnVuelo, Libre, DeActivar
    <3> QED BY <1>2, <2>1, <3>1 DEF Reiniciar, SinEnlace, SinEnlaceDe, Existe, filas, cuentas
  <2>2. CASE UNCHANGED vars
    BY <1>2, <2>2 DEF vars, SinEnlace, SinEnlaceDe, EnVuelo, Existe
  <2> QED BY <1>2, <2>1, <2>2, PasoDeUnaLlamada, SinEnlacePaso
<1> QED BY <1>1, <1>2

\* The steps that write interrumpidaEn.
EscribeCorte ==
    \/ \E h \in Llamadas : \/ FinalizarRegistraCorte(h) \/ ReanudarReclama(h)
                           \/ ActivarConfirma(h) \/ Cerrar(h) \/ EmergenciaCancela(h)
    \/ \E f \in pasada : RevisarRegistra(f)

\* The others leave it alone.
LEMMA CorteIntacto ==
    ASSUME Next, ~EscribeCorte
    PROVE  cortada' = cortada
<1>1. CASE \E h \in Llamadas : Paso(h)
  BY <1>1 DEF Paso, EscribeCorte, corte, CrearSesion, CrearManual, CrearPreferencia,
      ExpirarPago, ExpirarPagoLibera, ActivarLee, ActivarRele,
      MarcarEsperandoEnergia, Liberar, EmitirVale,
      VencerEsperaLee, CerrarPorCorteLee, CerrarPorCorteApaga, FinalizarLee,
      FinalizarDetecta, FinalizarApaga,
      FinalizarASalida, FinalizarProgramaRetorno, IniciarRetornoLee,
      IniciarRetornoRele, IniciarRetornoPrograma, CerrarSalidaLee,
      CerrarSalidaApaga, ReanudarLee, ReanudarRele,
      ReanudarPrograma, EmergenciaBusca, EmergenciaLibera
<1>2. CASE Pedido \/ \E h \in Hilos, s \in Sesion : DispararTimer(h, s)
  BY <1>2 DEF Pedido, DispararTimer, corte, ReservarSilla, ActivarManual,
      DetenerEmergencia, CancelarCheckout, AplicarPago
<1>3. CASE Energia \/ Arranque \/ Reiniciar
  BY <1>3 DEF Energia, Arranque, EscribeCorte, Revisar, RevisarOmite, RevisarEspera,
      RevisarCierra, RevisarReanuda, ArranqueLee, ArranqueRecupera, Reiniciar, Decide, corte
<1> QED BY <1>1, <1>2, <1>3 DEF Next

\* Only a session in its massage has a cut open.
CorteEnActiva == \A s \in Sesion : cortada[s] => estado[s] = "ACTIVA"

\* A cut is opened during the massage, closed with it or by the resume, and a
\* session in the middle of a cut does not go on to its return pulse.
LEMMA CortePaso ==
    ASSUME Coherente, UnaActivacion, CorteEnActiva, Next, NEW r \in Sesion
    PROVE  /\ cortada'[r] => estado'[r] = "ACTIVA"
           /\ cortada[r] /\ estado'[r] = "ACTIVA" =>
                 cortada'[r] \/ \E h \in Llamadas : ReanudarReclama(h) /\ SesionDe(h) = r
           /\ estado'[r] = "SALIDA" =>
                 \/ estado[r] = "SALIDA"
                 \/ estado[r] = "ACTIVA" /\ ~cortada[r] /\ EnVuelo(r, {"fin_salida"}) # {}
<1> DEFINE Meta ==
           /\ cortada'[r] => estado'[r] = "ACTIVA"
           /\ cortada[r] /\ estado'[r] = "ACTIVA" =>
                 cortada'[r] \/ \E h \in Llamadas : ReanudarReclama(h) /\ SesionDe(h) = r
           /\ estado'[r] = "SALIDA" =>
                 \/ estado[r] = "SALIDA"
                 \/ estado[r] = "ACTIVA" /\ ~cortada[r] /\ EnVuelo(r, {"fin_salida"}) # {}
<1> USE DEF Coherente, TypeOK, HiloCoherente, LlamadaCoherente, Existe, Llamada,
    PcSilla, PcSesion, En, SesionDe, CorteEnActiva
<1>1. CASE Reiniciar
  BY <1>1 DEF Reiniciar, corte
<1>2. ASSUME NEW h \in Llamadas, Callada(h), cortada' = cortada PROVE Meta
  BY <1>2 DEF Callada
<1>3. ASSUME NEW h \in Llamadas, FinalizarRegistraCorte(h) PROVE Meta
  BY <1>3 DEF FinalizarRegistraCorte, PuedeMarcarCorte, MarcarCorte, corte
<1>4. ASSUME NEW h \in Llamadas, ReanudarReclama(h) PROVE Meta
  BY <1>4 DEF ReanudarReclama
<1>5. ASSUME NEW f \in pasada, RevisarRegistra(f) PROVE Meta
  BY <1>5 DEF RevisarRegistra, Decide, PuedeMarcarCorte, MarcarCorte, corte
<1>6. ASSUME NEW h \in Llamadas, ActivarConfirma(h) PROVE Meta
  BY <1>6 DEF ActivarConfirma, UnaActivacion, UnaActivacionDe, EnVuelo, DeActivar
<1>7. ASSUME NEW h \in Llamadas, Cerrar(h) PROVE Meta
  BY <1>7 DEF Cerrar, EstadoFinal, Reclama, Desde
<1>8. ASSUME NEW h \in Llamadas, EmergenciaCancela(h) PROVE Meta
  BY <1>8 DEF EmergenciaCancela
<1>9. ASSUME NEW h \in Llamadas, MarcarEsperandoEnergia(h), cortada' = cortada PROVE Meta
  BY <1>9 DEF MarcarEsperandoEnergia, UnaActivacion, UnaActivacionDe, EnVuelo, DeActivar
<1>10. ASSUME NEW h \in Llamadas, ExpirarPago(h) \/ FinalizarASalida(h), cortada' = cortada
       PROVE  Meta
  BY <1>10 DEF ExpirarPago, FinalizarASalida, PuedeSalir, EnVuelo
<1>11. ASSUME NEW h \in Llamadas, NEW s \in Sesion, CrearSesion(h, s) \/ CrearManual(h, s),
              cortada' = cortada
       PROVE  Meta
  BY <1>11 DEF CrearSesion, CrearManual
<1>12. ASSUME NEW h \in Llamadas, Ruidosa(h), cortada' = cortada,
              \A s \in Sesion : ~CrearSesion(h, s) /\ ~CrearManual(h, s),
              ~ActivarConfirma(h), ~MarcarEsperandoEnergia(h), ~Cerrar(h), ~ExpirarPago(h),
              ~FinalizarASalida(h), ~EmergenciaCancela(h)
       PROVE  Meta
  <2>1. estado' = estado
    BY <1>12 DEF Ruidosa, AplicarPago, ReservarSilla, CrearPreferencia, ExpirarPagoLibera,
       ActivarLee, ActivarRele, Liberar, EmitirVale, EmergenciaLibera, RevisarEspera, Decide
  <2> QED BY <1>12, <2>1
<1>13. CASE ~Reiniciar /\ EscribeCorte
  BY <1>3, <1>4, <1>5, <1>6, <1>7, <1>8, <1>13 DEF EscribeCorte
<1>14. CASE ~Reiniciar /\ ~EscribeCorte
  <2>1. cortada' = cortada
    BY <1>14, CorteIntacto
  <2>2. PICK h \in Llamadas : Callada(h) \/ Ruidosa(h)
    BY <1>14, PasoDeUnaLlamada
  <2> QED BY <1>2, <1>6, <1>7, <1>8, <1>9, <1>10, <1>11, <1>12, <2>1, <2>2
<1> QED BY <1>1, <1>13, <1>14

\* The cut of a session that EnergiaService found open is open still, or the
\* session is closed.
CorteVigente(s) ==
    Empezada(s) /\ estado[s] # "SALIDA" /\ (estado[s] = "ACTIVA" => cortada[s])

CorteAlDia ==
    /\ CorteEnActiva
    /\ \A f \in pasada : f.cortada => f.estado = "ACTIVA" /\ CorteVigente(f.ses)
    /\ \A h \in Llamadas : hilo[h].pc = "cor_leer" => CorteVigente(hilo[h].ses)

\* Only the resume ends it.
LEMMA CorteVigenteEstable ==
    ASSUME Coherente, UnaActivacion, CorteEnActiva, Next, ~Reiniciar,
           NEW r \in Sesion, CorteVigente(r),
           \A h \in Llamadas : ReanudarReclama(h) => SesionDe(h) # r
    PROVE  CorteVigente(r)'
<1>1. Empezada(r)' /\ (estado[r] # "ACTIVA" => estado'[r] # "ACTIVA")
  BY PasoDeUnaLlamada, EmpezadaEstable DEF CorteVigente
<1>2. estado[r] = "ACTIVA" => estado'[r] # "SALIDA" /\ (estado'[r] = "ACTIVA" => cortada'[r])
  BY CortePaso DEF CorteVigente
<1>3. estado[r] # "ACTIVA" => estado'[r] # "SALIDA"
  BY CortePaso DEF CorteVigente, CorteEnActiva
<1> QED BY <1>1, <1>2, <1>3 DEF CorteVigente

\* CorteAlDia is inductive next to the invariants it leans on.
LEMMA CorteAlDiaInductivo ==
    /\ Init => CorteAlDia
    /\ Coherente /\ PasadaUnica /\ UnaActivacion /\ CorteAlDia /\ [Next]_vars => CorteAlDia'
<1>1. Init => CorteAlDia
  BY DEF Init, CorteAlDia, CorteEnActiva, Libre
<1>2. ASSUME Coherente, PasadaUnica, UnaActivacion, CorteAlDia, [Next]_vars
      PROVE  CorteAlDia'
  <2>1. CASE UNCHANGED vars
    BY <1>2, <2>1 DEF vars, CorteAlDia, CorteEnActiva, CorteVigente, Empezada, EnVuelo
  <2>2. CASE Reiniciar
    BY <1>2, <2>2 DEF Reiniciar, corte, CorteAlDia, CorteEnActiva, Libre
  <2>3. CASE Next /\ ~Reiniciar
    <3>1. CorteEnActiva'
      BY <1>2, <2>3, CortePaso DEF CorteAlDia, CorteEnActiva
    <3>2. \A h \in Llamadas : ReanudarReclama(h) => h = HiloEnergia /\ hilo[h].pc = "rea_cas"
      BY <1>2 DEF ReanudarReclama, En, PasadaUnica, DeEnergia
    <3>3. ASSUME NEW f \in pasada, f.cortada
          PROVE  f.estado = "ACTIVA" /\ CorteVigente(f.ses)'
      <4>1. f.ses \in Sesion
        BY <1>2 DEF Coherente, TypeOK, Fila
      <4>2. \A h \in Llamadas : ReanudarReclama(h) => SesionDe(h) # f.ses
        BY <1>2, <3>2, <3>3 DEF PasadaUnica, SesionDe
      <4> QED BY <1>2, <2>3, <3>3, <4>1, <4>2, CorteVigenteEstable DEF CorteAlDia
    <3>4. ASSUME NEW g \in Llamadas, hilo[g].pc = "cor_leer", hilo'[g] = hilo[g]
          PROVE  CorteVigente(hilo[g].ses)'
      <4>1. hilo[g].ses \in Sesion /\ g = HiloEnergia
        BY <1>2, <3>4 DEF Coherente, HiloCoherente, LlamadaCoherente, PcSesion, PasadaUnica,
           DeEnergia
      <4>2. \A h \in Llamadas : ~ReanudarReclama(h)
        BY <3>2, <3>4, <4>1
      <4>3. ASSUME NEW r \in Sesion, CorteVigente(r) PROVE CorteVigente(r)'
        BY <1>2, <2>3, <4>2, <4>3, CorteVigenteEstable DEF CorteAlDia
      <4>4. hilo'[g].ses \in Sesion /\ CorteVigente(hilo'[g].ses)
        BY <1>2, <3>4, <4>1 DEF CorteAlDia
      <4> QED BY <4>3, <4>4
    <3>5. CASE Revisar
      <4>1. ASSUME NEW f \in pasada', f.cortada
            PROVE  f.estado = "ACTIVA" /\ CorteVigente(f.ses)'
        <5>1. f.ses \in Sesion /\ f.estado = estado[f.ses] /\ cortada[f.ses]
          BY <3>5, <4>1 DEF Revisar
        <5>2. estado[f.ses] = "ACTIVA"
          BY <1>2, <5>1 DEF CorteAlDia, CorteEnActiva
        <5>3. EnVuelo(f.ses, DeActivar)' = {} /\ UNCHANGED <<estado, cortada>>
          BY <1>2, <3>5, <5>1, <5>2 DEF Revisar, corte, UnaActivacion, UnaActivacionDe, EnVuelo
        <5> QED BY <5>1, <5>2, <5>3 DEF CorteVigente, Empezada
      <4>2. hilo' = hilo
        BY <3>5 DEF Revisar
      <4> QED BY <3>1, <3>4, <4>1, <4>2 DEF CorteAlDia
    <3>6. CASE \E f \in pasada : RevisarCierra(f)
      <4>1. PICK f \in pasada : RevisarCierra(f)
        BY <3>6
      <4>2. \A g \in Llamadas : hilo'[g] = hilo[g] \/ hilo'[g].ses = f.ses
        BY <1>2, <4>1 DEF RevisarCierra, EmpezarCerrarPorCorte, Empieza, Coherente, TypeOK
      <4>3. pasada' \subseteq pasada /\ f.cortada
        BY <4>1 DEF RevisarCierra, Decide
      <4>4. CorteVigente(f.ses)'
        BY <3>3, <4>3
      <4>5. \A g \in Llamadas : hilo'[g].ses = f.ses => CorteVigente(hilo[g].ses)'
        BY <4>4 DEF CorteVigente, Empezada, EnVuelo
      <4> QED BY <3>1, <3>3, <3>4, <4>2, <4>3, <4>5 DEF CorteAlDia
    <3>7. CASE ~Revisar /\ ~\E f \in pasada : RevisarCierra(f)
      <4>1. pasada' \subseteq pasada
        BY <1>2, <2>3, <3>7, PasadaMengua
      <4>2. ASSUME NEW g \in Llamadas, hilo'[g].pc = "cor_leer" PROVE hilo'[g] = hilo[g]
        <5>1. CASE \E h \in Llamadas : Paso(h)
          BY <1>2, <4>2, <5>1, PasoConSuSesion
        <5>2. CASE \/ Pedido \/ Arranque
                   \/ \E h \in Hilos, s \in Sesion : DispararTimer(h, s)
          BY <1>2, <4>2, <5>2, EntradaAjena DEF DeEnergia
        <5>3. CASE Energia
          BY <1>2, <3>7, <4>2, <5>3 DEF Energia, RevisarOmite, RevisarEspera, RevisarReanuda,
             RevisarRegistra, EmpezarVencerEspera, LeerParaActivar, LeerParaReanudar, Empieza,
             Termina, Libre, Coherente, TypeOK
        <5> QED BY <2>3, <5>1, <5>2, <5>3 DEF Next
      <4> QED BY <3>1, <3>3, <3>4, <4>1, <4>2 DEF CorteAlDia
    <3> QED BY <3>5, <3>6, <3>7
  <2> QED BY <1>2, <2>1, <2>2, <2>3
<1> QED BY <1>1, <1>2

\* What a call in flight does to the sessions: only those that were taking or
\* activating a chair move one that is not in its massage, but to close it.
LEMMA PasoEnSuSesion ==
    ASSUME Coherente, NEW h \in Llamadas, Paso(h)
    PROVE  /\ arranque' = arranque
           /\ hilo'[h].pc \in DeActivar => hilo[h].pc \in DeActivar \cup PcSilla
           /\ \A s \in Sesion : s # hilo[h].ses /\ hilo[h].pc \notin PcSilla =>
                 timer'[s] = timer[s] /\ estado'[s] = estado[s]
           /\ \A s \in Sesion : estado[s] # "ACTIVA" /\ hilo[h].pc \notin DeActivar \cup PcSilla =>
                 estado'[s] = estado[s] \/ estado'[s] \in Cerradas
<1> DEFINE Meta ==
           /\ arranque' = arranque
           /\ hilo'[h].pc \in DeActivar => hilo[h].pc \in DeActivar \cup PcSilla
           /\ \A s \in Sesion : s # hilo[h].ses /\ hilo[h].pc \notin PcSilla =>
                 timer'[s] = timer[s] /\ estado'[s] = estado[s]
           /\ \A s \in Sesion : estado[s] # "ACTIVA" /\ hilo[h].pc \notin DeActivar \cup PcSilla =>
                 estado'[s] = estado[s] \/ estado'[s] \in Cerradas
<1> USE DEF Coherente, TypeOK, Llamada, control, En, SesionDe, PcSilla, Libre, DeActivar,
    Cerradas, Termina, Sigue, SigueEn, Empieza, CancelarTimer, Programar
<1>1. ASSUME NEW s \in Sesion, CrearSesion(h, s) \/ CrearManual(h, s) PROVE Meta
  BY <1>1 DEF CrearSesion, CrearManual
<1>2. CASE CrearPreferencia(h) \/ ExpirarPago(h) \/ ExpirarPagoLibera(h)
  BY <1>2 DEF CrearPreferencia, EmpezarExpirarPago, ExpirarPago, ExpirarPagoLibera
<1>3. CASE ActivarLee(h) \/ ActivarRele(h) \/ ActivarConfirma(h) \/ MarcarEsperandoEnergia(h)
  BY <1>3 DEF ActivarLee, LeerParaActivar, ActivarRele, ActivarConfirma, ReleResponde,
     MarcarEsperandoEnergia
<1>4. CASE Cerrar(h) \/ Liberar(h) \/ EmitirVale(h) \/ VencerEsperaLee(h)
  BY <1>4 DEF Cerrar, EstadoFinal, Liberar, EmitirVale, VencerEsperaLee
<1>5. CASE CerrarPorCorteLee(h) \/ CerrarPorCorteApaga(h) \/ FinalizarLee(h)
  BY <1>5 DEF CerrarPorCorteLee, CerrarPorCorteApaga, FinalizarLee, ReleResponde
<1>6. CASE FinalizarDetecta(h) \/ FinalizarRegistraCorte(h) \/ FinalizarApaga(h)
  BY <1>6 DEF FinalizarDetecta, FinalizarRegistraCorte, FinalizarApaga, ReleResponde
<1>7. CASE FinalizarASalida(h) \/ FinalizarProgramaRetorno(h) \/ IniciarRetornoLee(h)
  BY <1>7 DEF FinalizarASalida, PuedeSalir, FinalizarProgramaRetorno, IniciarRetornoLee
<1>8. CASE IniciarRetornoRele(h) \/ IniciarRetornoPrograma(h)
  BY <1>8 DEF IniciarRetornoRele, EmpezarCerrarSalida, IniciarRetornoPrograma, ReleResponde
<1>9. CASE CerrarSalidaLee(h) \/ CerrarSalidaApaga(h)
  BY <1>9 DEF CerrarSalidaLee, CerrarSalidaApaga, ReleResponde
<1>10. CASE ReanudarLee(h) \/ ReanudarRele(h) \/ ReanudarReclama(h) \/ ReanudarPrograma(h)
  BY <1>10 DEF ReanudarLee, LeerParaReanudar, ReanudarRele, ReanudarReclama,
     ReanudarPrograma, ReleResponde
<1>11. CASE EmergenciaBusca(h) \/ EmergenciaCancela(h) \/ EmergenciaLibera(h)
  BY <1>11 DEF EmergenciaBusca, EmergenciaCancela, EmergenciaLibera
<1> QED BY <1>1, <1>2, <1>3, <1>4, <1>5, <1>6, <1>7, <1>8, <1>9, <1>10, <1>11 DEF Paso

\* While the bootstrap runs nothing is activated, and its list holds sessions
\* that nobody else moves, but to close them.
ArranqueVigente ==
    /\ arranque.fase < Listo =>
          pasada = {} /\ \A h \in Llamadas : hilo[h].pc \notin DeActivar \cup PcSilla
    /\ arranque.fase \in {0, Listo} => arranque.lista = {}
    /\ arranque.fase = 0 =>
          (\A h \in Llamadas : hilo[h] = Libre) /\ (\A s \in Sesion : timer[s] = "ninguno")
    /\ arranque.fase = 1 => \A s \in arranque.lista :
          timer[s] = "ninguno" /\ \A h \in Llamadas : hilo[h].pc = "libre" \/ hilo[h].ses # s
    /\ \A s \in arranque.lista : estado[s] = Fases[arranque.fase] \/ estado[s] \in Cerradas

\* It is inductive next to Coherente.
LEMMA ArranqueVigenteInductivo ==
    /\ Init => ArranqueVigente
    /\ Coherente /\ ArranqueVigente /\ [Next]_vars => ArranqueVigente'
<1> USE HilosAssumption, NadaAssumption DEF Llamadas, Listo
<1>1. Init => ArranqueVigente
  BY DEF Init, ArranqueVigente
<1>2. ASSUME Coherente, ArranqueVigente, [Next]_vars PROVE ArranqueVigente'
  <2>1. CASE UNCHANGED vars
    BY <1>2, <2>1 DEF vars, ArranqueVigente
  <2>2. CASE Reiniciar
    BY <1>2, <2>2 DEF Reiniciar, ArranqueVigente, Libre, DeActivar, PcSilla
  <2>3. CASE Pedido \/ Energia
    <3>1. arranque.fase = Listo /\ arranque' = arranque /\ arranque.lista = {}
      BY <1>2, <2>3 DEF ArranqueVigente, Coherente, TypeOK, Pedido, ReservarSilla,
         ActivarManual, DetenerEmergencia, CancelarCheckout, AplicarPago, Atiende, control,
         Energia, Revisar, RevisarOmite, RevisarEspera, RevisarCierra, RevisarReanuda,
         RevisarRegistra, Decide
    <3> QED BY <3>1 DEF ArranqueVigente
  <2>4. ASSUME NEW h \in Llamadas, Paso(h), arranque.fase < Listo PROVE ArranqueVigente'
    <3>1. /\ arranque' = arranque /\ pasada' = pasada
          /\ hilo[h].pc \notin DeActivar \cup PcSilla /\ hilo[h].pc # "libre"
          /\ hilo'[h].pc \notin DeActivar \cup PcSilla
          /\ hilo'[h].pc = "libre" \/ hilo'[h].ses = hilo[h].ses
          /\ \A g \in Llamadas : g # h => hilo'[g] = hilo[g]
      BY <1>2, <2>4, PasoConSuSesion, PasoEnSuSesion DEF ArranqueVigente
    <3>2. arranque.fase # 0 /\ \A s \in arranque.lista : s \in Sesion
      BY <1>2, <2>4, <3>1 DEF ArranqueVigente, Libre, Coherente, TypeOK
    <3>3. arranque.fase = 1 => \A s \in arranque.lista :
              /\ s # hilo[h].ses
              /\ timer'[s] = "ninguno"
              /\ \A g \in Llamadas : hilo'[g].pc = "libre" \/ hilo'[g].ses # s
      BY <1>2, <2>4, <3>1, <3>2, PasoEnSuSesion DEF ArranqueVigente
    <3>4. \A s \in arranque.lista :
              estado'[s] = Fases[arranque.fase] \/ estado'[s] \in Cerradas
      <4>1. ASSUME NEW s \in arranque.lista, arranque.fase = 1
            PROVE  estado'[s] = Fases[arranque.fase] \/ estado'[s] \in Cerradas
        BY <1>2, <2>4, <3>1, <3>2, <3>3, <4>1, PasoEnSuSesion DEF ArranqueVigente
      <4>2. ASSUME NEW s \in arranque.lista, arranque.fase # 1
            PROVE  estado'[s] = Fases[arranque.fase] \/ estado'[s] \in Cerradas
        <5>1. arranque.fase \in {2, 3, 4}
          BY <1>2, <2>4, <3>2, <4>2 DEF Coherente, TypeOK
        <5>2. estado[s] # "ACTIVA"
          BY <1>2, <4>2, <5>1 DEF ArranqueVigente, Fases, Cerradas
        <5>3. estado[s] \in Cerradas => estado'[s] \in Cerradas
          BY <1>2, <2>4, <3>1, <3>2, <5>2, PasoEnSuSesion DEF Cerradas
        <5> QED BY <1>2, <2>4, <3>1, <3>2, <5>2, <5>3, PasoEnSuSesion DEF ArranqueVigente
      <4> QED BY <4>1, <4>2
    <3> QED BY <1>2, <2>4, <3>1, <3>2, <3>3, <3>4 DEF ArranqueVigente
  <2>5. ASSUME NEW h \in Hilos, NEW s \in Sesion, DispararTimer(h, s), arranque.fase < Listo
        PROVE  ArranqueVigente'
    BY <1>2, <2>5 DEF DispararTimer, EmpezarExpirarPago, EmpezarVencerEspera,
       EmpezarFinalizar, EmpezarIniciarRetorno, EmpezarCerrarSalida, Empieza, CancelarTimer,
       ArranqueVigente, control, DeActivar, PcSilla, Coherente, TypeOK
  <2>6. CASE ArranqueLee
    BY <1>2, <2>6 DEF ArranqueLee, ArranqueVigente, Coherente, TypeOK, Libre, Fases
  <2>7. ASSUME NEW s \in Sesion, ArranqueRecupera(s) PROVE ArranqueVigente'
    BY <1>2, <2>7 DEF ArranqueRecupera, EmpezarFinalizar, EmpezarCerrarSalida,
       EmpezarVencerEspera, EmpezarExpirarPago, Empieza, Programar, CancelarTimer,
       ArranqueVigente, DeActivar, PcSilla, Coherente, TypeOK
  <2>8. ASSUME \/ \E h \in Llamadas : Paso(h)
               \/ \E h \in Hilos, s \in Sesion : DispararTimer(h, s),
               ~(arranque.fase < Listo)
        PROVE  ArranqueVigente'
    <3>1. arranque' = arranque /\ arranque.fase = Listo /\ arranque.lista = {}
      BY <1>2, <2>8, PasoEnSuSesion DEF DispararTimer, control, ArranqueVigente, Coherente,
         TypeOK
    <3> QED BY <3>1 DEF ArranqueVigente
  <2> QED BY <1>2, <2>1, <2>2, <2>3, <2>4, <2>5, <2>6, <2>7, <2>8 DEF Next, Arranque
<1> QED BY <1>1, <1>2

\* The awaits that come after a check of the state of the session, and that
\* write a timer or open the way to one.
TrasComprobar == {"fin_salida", "fin_silla", "ret_rele", "ret_silla", "rea_cas", "rea_silla"}

\* Each has one step that reaches it, of a call in flight.
LEMMA QuienLlega ==
    ASSUME Coherente, Next, NEW x \in Llamadas, hilo'[x].pc \in TrasComprobar,
           hilo'[x] # hilo[x]
    PROVE  /\ Paso(x)
           /\ hilo'[x].ses = hilo[x].ses
           /\ \/ FinalizarApaga(x) /\ hilo'[x].pc = "fin_salida"
              \/ FinalizarASalida(x) /\ PuedeSalir(SesionDe(x)) /\ hilo'[x].pc = "fin_silla"
              \/ IniciarRetornoLee(x) /\ estado[SesionDe(x)] = "SALIDA" /\ hilo'[x].pc = "ret_rele"
              \/ IniciarRetornoRele(x) /\ hilo'[x].pc = "ret_silla"
              \/ ReanudarRele(x) /\ hilo'[x].pc = "rea_cas"
              \/ ReanudarReclama(x) /\ estado[SesionDe(x)] = "ACTIVA" /\ hilo'[x].pc = "rea_silla"
<1> USE HilosAssumption DEF Llamadas, Coherente, TypeOK, Llamada, En, SesionDe, Libre,
    Termina, Sigue, SigueEn, Empieza, EmpiezaEnSilla, TrasComprobar
<1> DEFINE Llega ==
      /\ hilo'[x].ses = hilo[x].ses
      /\ \/ FinalizarApaga(x) /\ hilo'[x].pc = "fin_salida"
         \/ FinalizarASalida(x) /\ PuedeSalir(SesionDe(x)) /\ hilo'[x].pc = "fin_silla"
         \/ IniciarRetornoLee(x) /\ estado[SesionDe(x)] = "SALIDA" /\ hilo'[x].pc = "ret_rele"
         \/ IniciarRetornoRele(x) /\ hilo'[x].pc = "ret_silla"
         \/ ReanudarRele(x) /\ hilo'[x].pc = "rea_cas"
         \/ ReanudarReclama(x) /\ estado[SesionDe(x)] = "ACTIVA" /\ hilo'[x].pc = "rea_silla"
<1>1. CASE \/ Pedido \/ Energia \/ Arranque \/ Reiniciar
           \/ \E h \in Hilos, s \in Sesion : DispararTimer(h, s)
  <2>1. CASE Pedido
    BY <2>1 DEF Pedido, ReservarSilla, ActivarManual, DetenerEmergencia, CancelarCheckout,
       AplicarPago, LeerParaActivar, EmpezarExpirarPago
  <2>2. CASE Energia
    BY <2>2 DEF Energia, Revisar, RevisarOmite, RevisarEspera, RevisarCierra,
       RevisarReanuda, RevisarRegistra, EmpezarVencerEspera, EmpezarCerrarPorCorte,
       LeerParaActivar, LeerParaReanudar
  <2>3. CASE Arranque
    BY <2>3 DEF Arranque, ArranqueLee, ArranqueRecupera, EmpezarFinalizar,
       EmpezarCerrarSalida, EmpezarVencerEspera, EmpezarExpirarPago
  <2>4. CASE Reiniciar
    BY <2>4 DEF Reiniciar
  <2>5. ASSUME NEW h \in Hilos, NEW s \in Sesion, DispararTimer(h, s) PROVE FALSE
    BY <2>5 DEF DispararTimer, EmpezarExpirarPago, EmpezarVencerEspera, EmpezarFinalizar,
       EmpezarIniciarRetorno, EmpezarCerrarSalida
  <2> QED BY <1>1, <2>1, <2>2, <2>3, <2>4, <2>5
<1>2. ASSUME NEW h \in Llamadas, Paso(h) PROVE Paso(x) /\ Llega
  <2>1. h = x
    BY <1>2, PasoConSuSesion
  <2>2. ASSUME NEW s \in Sesion, CrearSesion(x, s) \/ CrearManual(x, s) PROVE Llega
    BY <2>2 DEF CrearSesion, CrearManual
  <2>3. CASE CrearPreferencia(x) \/ ExpirarPago(x) \/ ExpirarPagoLibera(x)
    BY <2>3 DEF CrearPreferencia, EmpezarExpirarPago, ExpirarPago, ExpirarPagoLibera
  <2>4. CASE \/ ActivarLee(x) \/ ActivarRele(x) \/ ActivarConfirma(x)
             \/ MarcarEsperandoEnergia(x)
    BY <2>4 DEF ActivarLee, LeerParaActivar, ActivarRele, ActivarConfirma, ReleResponde,
       MarcarEsperandoEnergia
  <2>5. CASE Cerrar(x) \/ Liberar(x) \/ EmitirVale(x) \/ VencerEsperaLee(x)
    BY <2>5 DEF Cerrar, Liberar, EmitirVale, VencerEsperaLee
  <2>6. CASE CerrarPorCorteLee(x) \/ CerrarPorCorteApaga(x) \/ FinalizarLee(x)
    BY <2>6 DEF CerrarPorCorteLee, CerrarPorCorteApaga, FinalizarLee, ReleResponde
  <2>7. CASE FinalizarDetecta(x) \/ FinalizarRegistraCorte(x) \/ FinalizarProgramaRetorno(x)
             \/ IniciarRetornoPrograma(x)
    BY <2>7 DEF FinalizarDetecta, FinalizarRegistraCorte, FinalizarProgramaRetorno,
       IniciarRetornoPrograma
  <2>8. ASSUME FinalizarApaga(x) PROVE Llega
    <3>1. hilo'[x].ses = hilo[x].ses /\ hilo'[x].pc = "fin_salida"
      BY <2>8 DEF FinalizarApaga, ReleResponde
    <3> QED BY <2>8, <3>1
  <2>9. ASSUME FinalizarASalida(x) PROVE Llega
    <3>1. hilo'[x].ses = hilo[x].ses /\ hilo'[x].pc = "fin_silla" /\ PuedeSalir(hilo[x].ses)
      BY <2>9 DEF FinalizarASalida
    <3> QED BY <2>9, <3>1
  <2>14. ASSUME IniciarRetornoLee(x) PROVE Llega
    <3>1. /\ hilo'[x].ses = hilo[x].ses /\ hilo'[x].pc = "ret_rele"
          /\ estado[hilo[x].ses] = "SALIDA"
      BY <2>14 DEF IniciarRetornoLee
    <3> QED BY <2>14, <3>1
  <2>15. ASSUME IniciarRetornoRele(x) PROVE Llega
    <3>1. hilo'[x].ses = hilo[x].ses /\ hilo'[x].pc = "ret_silla"
      BY <2>15 DEF IniciarRetornoRele, EmpezarCerrarSalida, ReleResponde
    <3> QED BY <2>15, <3>1
  <2>10. CASE CerrarSalidaLee(x) \/ CerrarSalidaApaga(x)
    BY <2>10 DEF CerrarSalidaLee, CerrarSalidaApaga, ReleResponde
  <2>11. CASE ReanudarLee(x) \/ ReanudarPrograma(x)
    BY <2>11 DEF ReanudarLee, LeerParaReanudar, ReanudarPrograma
  <2>16. ASSUME ReanudarRele(x) PROVE Llega
    <3>1. hilo'[x].ses = hilo[x].ses /\ hilo'[x].pc = "rea_cas"
      BY <2>16 DEF ReanudarRele, ReleResponde
    <3> QED BY <2>16, <3>1
  <2>17. ASSUME ReanudarReclama(x) PROVE Llega
    <3>1. /\ hilo'[x].ses = hilo[x].ses /\ hilo'[x].pc = "rea_silla"
          /\ estado[hilo[x].ses] = "ACTIVA"
      BY <2>17 DEF ReanudarReclama
    <3> QED BY <2>17, <3>1
  <2>12. CASE EmergenciaBusca(x) \/ EmergenciaCancela(x) \/ EmergenciaLibera(x)
    BY <2>12 DEF EmergenciaBusca, EmergenciaCancela, EmergenciaLibera
  <2>13. Llega
    BY <1>2, <2>1, <2>2, <2>3, <2>4, <2>5, <2>6, <2>7, <2>8, <2>9, <2>10, <2>11, <2>12,
       <2>14, <2>15, <2>16, <2>17 DEF Paso
  <2> QED BY <1>2, <2>1, <2>13
<1> QED BY <1>1, <1>2 DEF Next

\* A call past its check of the state of the session still finds it begun: on
\* its way out for the return pulse, in its massage for the resume, where the
\* relay outlasts the statements already sent.
PasoVigente ==
    \A h \in Llamadas :
        /\ hilo[h].pc \in {"fin_silla", "ret_rele", "ret_silla"} =>
              Empezada(hilo[h].ses) /\ estado[hilo[h].ses] # "ACTIVA"
        /\ hilo[h].pc = "rea_silla" => Empezada(hilo[h].ses) /\ estado[hilo[h].ses] # "SALIDA"
        /\ hilo[h].pc \in {"rea_cas", "rea_silla"} => EnVuelo(hilo[h].ses, {"fin_salida"}) = {}

\* It is inductive next to the invariants it leans on.
LEMMA PasoVigenteInductivo ==
    ASSUME BaseRapida
    PROVE  /\ Init => PasoVigente
           /\ Coherente /\ UnaActivacion /\ CorteEnActiva /\ PasoVigente /\ [Next]_vars
                => PasoVigente'
<1>1. Init => PasoVigente
  BY DEF Init, PasoVigente, Libre
<1>2. ASSUME Coherente, UnaActivacion, CorteEnActiva, PasoVigente, [Next]_vars
      PROVE  PasoVigente'
  <2>1. CASE UNCHANGED vars
    BY <1>2, <2>1 DEF vars, PasoVigente, Empezada, EnVuelo
  <2>2. CASE Reiniciar
    BY <1>2, <2>2 DEF Reiniciar, PasoVigente, Libre
  <2>3. CASE Next /\ ~Reiniciar
    <3> DEFINE Al(g) ==
          /\ hilo[g].pc \in {"fin_silla", "ret_rele", "ret_silla"} =>
                Empezada(hilo[g].ses) /\ estado[hilo[g].ses] # "ACTIVA"
          /\ hilo[g].pc = "rea_silla" =>
                Empezada(hilo[g].ses) /\ estado[hilo[g].ses] # "SALIDA"
          /\ hilo[g].pc \in {"rea_cas", "rea_silla"} => EnVuelo(hilo[g].ses, {"fin_salida"}) = {}
    <3>1. SUFFICES ASSUME NEW x \in Llamadas, hilo'[x].pc \in TrasComprobar PROVE Al(x)'
      BY DEF PasoVigente, TrasComprobar
    <3>2. Coherente'
      BY <1>2, CoherenteInductiva
    <3>3. hilo'[x].ses = hilo[x].ses /\ hilo'[x].ses \in Sesion
      BY <1>2, <2>3, <3>1, <3>2, QuienLlega DEF Coherente, HiloCoherente, LlamadaCoherente,
         PcSesion, TrasComprobar
    <3>4. PICK r \in Sesion : hilo[x].ses = r /\ hilo'[x].ses = r
      BY <3>3
    <3>9. PICK k \in Llamadas : Callada(k) \/ Ruidosa(k)
      BY <1>2, <2>3, PasoDeUnaLlamada
    <3>5. Empezada(r) => Empezada(r)' /\ (estado[r] # "ACTIVA" => estado'[r] # "ACTIVA")
      BY <1>2, <3>9, EmpezadaEstable
    <3>6. estado[r] \in {"ACTIVA", "SALIDA"} => Empezada(r)
      BY <1>2, <3>4 DEF UnaActivacion, UnaActivacionDe, Empezada
    <3>7. CASE hilo'[x] = hilo[x]
      <4>1. hilo[x].pc \in {"rea_cas", "rea_silla"} => EnVuelo(r, {"fin_salida"}) = {}
        BY <1>2, <3>4, <3>7 DEF PasoVigente
      <4>2. ASSUME hilo[x].pc \in {"rea_cas", "rea_silla"}, NEW y \in Llamadas,
                   hilo'[y].ses = r, hilo'[y].pc = "fin_salida"
            PROVE  FALSE
        <5>1. hilo'[y] # hilo[y]
          BY <4>1, <4>2 DEF EnVuelo
        <5>2. FinalizarApaga(y) /\ hilo[y].ses = r
          BY <1>2, <2>3, <4>2, <5>1, QuienLlega DEF TrasComprobar
        <5> QED BY <3>4, <3>7, <4>2, <5>2 DEF FinalizarApaga, ReleResponde, PcRele, SesionDe
      <4>3. hilo'[x].pc \in {"rea_cas", "rea_silla"} => EnVuelo(r, {"fin_salida"})' = {}
        BY <3>4, <3>7, <4>2 DEF EnVuelo
      <4>4. hilo[x].pc = "rea_silla" => estado'[r] # "SALIDA"
        BY <1>2, <2>3, <3>4, <4>1, CortePaso DEF PasoVigente
      <4> QED BY <1>2, <3>4, <3>5, <3>7, <4>3, <4>4 DEF PasoVigente
    <3>8. CASE hilo'[x] # hilo[x]
      <4> USE DEF SesionDe, En
      <4>1. Paso(x) /\ \A g \in Llamadas : g # x => hilo'[g] = hilo[g]
        BY <1>2, <2>3, <3>1, <3>8, QuienLlega, PasoConSuSesion
      <4>2. CASE FinalizarApaga(x) /\ hilo'[x].pc = "fin_salida"
        BY <4>2
      <4>3. CASE FinalizarASalida(x) /\ PuedeSalir(SesionDe(x)) /\ hilo'[x].pc = "fin_silla"
        <5>1. estado'[r] # "ACTIVA" /\ estado[r] = "ACTIVA"
          BY <1>2, <3>4, <4>3 DEF FinalizarASalida, PuedeSalir, Coherente, TypeOK
        <5> QED BY <3>4, <3>5, <3>6, <4>3, <5>1
      <4>4. CASE IniciarRetornoLee(x) /\ estado[SesionDe(x)] = "SALIDA" /\ hilo'[x].pc = "ret_rele"
        BY <3>4, <3>5, <3>6, <4>4
      <4>5. CASE IniciarRetornoRele(x) /\ hilo'[x].pc = "ret_silla"
        <5>1. hilo[x].pc = "ret_rele"
          BY <4>5 DEF IniciarRetornoRele, ReleResponde
        <5> QED BY <1>2, <3>4, <3>5, <4>5, <5>1 DEF PasoVigente
      <4>6. CASE ReanudarRele(x) /\ hilo'[x].pc = "rea_cas"
        <5>1. \A g \in Llamadas : hilo[g].ses = r => hilo[g].pc # "fin_salida"
          BY <3>4, <4>6 DEF ReanudarRele, ReleResponde, PcRele
        <5>2. EnVuelo(r, {"fin_salida"})' = {}
          BY <4>1, <4>6, <5>1 DEF EnVuelo
        <5> QED BY <3>4, <4>6, <5>2
      <4>7. CASE ReanudarReclama(x) /\ estado[SesionDe(x)] = "ACTIVA" /\ hilo'[x].pc = "rea_silla"
        <5>1. hilo[x].pc = "rea_cas" /\ estado' = estado
          BY <4>7 DEF ReanudarReclama
        <5>2. EnVuelo(r, {"fin_salida"}) = {}
          BY <1>2, <3>4, <5>1 DEF PasoVigente
        <5>3. EnVuelo(r, {"fin_salida"})' = {}
          BY <4>1, <4>7, <5>2 DEF EnVuelo
        <5> QED BY <3>4, <3>5, <3>6, <4>7, <5>1, <5>3
      <4> QED BY <1>2, <2>3, <3>1, <3>8, <4>2, <4>3, <4>4, <4>5, <4>6, <4>7, QuienLlega
    <3> QED BY <3>7, <3>8
  <2> QED BY <1>2, <2>1, <2>2, <2>3
<1> QED BY <1>1, <1>2

\* The call h settles the session s from the state it is in.
LaAtiende(h, s) ==
    /\ hilo[h].ses = s
    /\ \/ estado[s] \in Activables /\ hilo[h].pc \in DeActivar
       \/ estado[s] = "PENDIENTE" /\ hilo[h].pc = "exp_cas"
       \/ estado[s] = "ESPERANDO_ENERGIA" /\ hilo[h].pc = "ven_leer"
       \/ estado[s] = "ACTIVA" /\ hilo[h].pc \in
            {"fin_leer", "fin_detectar", "fin_corte", "fin_off", "fin_salida",
             "cor_leer", "cor_off", "rea_silla"}
       \/ estado[s] = "SALIDA" /\ hilo[h].pc \in
            {"fin_silla", "ret_leer", "ret_rele", "ret_silla", "sal_leer", "sal_off"}
       \/ hilo[h].pc = "cerrar" /\ estado[s] = Desde(hilo[h].modo)
       \/ hilo[h].pc = "emg_sesion"

\* SesionConDespertador of one session.
Despierta(s) ==
    estado[s] \in Vivas =>
        \/ timer[s] \in Despertador(estado[s])
        \/ \E h \in Llamadas : LaAtiende(h, s)
        \/ estado[s] = "ACTIVA" /\ cortada[s]
        \/ PorRecuperar(s)

\* What a step of the call h may do to the session r: settle it, leave
\* something that will, or leave it as it was.
NoLaOlvida(h, r) ==
    \/ estado'[r] \notin Vivas
    \/ timer'[r] \in Despertador(estado'[r])
    \/ LaAtiende(h, r)'
    \/ estado'[r] = "ACTIVA" /\ cortada'[r]
    \/ /\ estado'[r] = estado[r]
       /\ estado[r] = "ACTIVA" /\ cortada[r] => cortada'[r]
       /\ ~LaAtiende(h, r)
       /\ timer'[r] = timer[r] \/ timer[r] \notin Despertador(estado[r])

\* That is enough.
LEMMA SigueDespierta ==
    ASSUME NEW h \in Llamadas, NEW r \in Sesion, Despierta(r), NoLaOlvida(h, r),
           arranque' = arranque, \A g \in Llamadas : g # h => hilo'[g] = hilo[g]
    PROVE  Despierta(r)'
<1>1. PorRecuperar(r) /\ estado'[r] = estado[r] => PorRecuperar(r)'
  BY DEF PorRecuperar
<1>2. \A g \in Llamadas : g # h /\ LaAtiende(g, r) /\ estado'[r] = estado[r] => LaAtiende(g, r)'
  BY DEF LaAtiende
<1> QED BY <1>1, <1>2 DEF Despierta, NoLaOlvida

\* The steps of the calls in flight.
LEMMA PasoNoOlvida ==
    ASSUME Coherente, PagoConEnlace, UnaActivacion, SinEnlace, CorteAlDia, PasoVigente,
           NEW h \in Llamadas, Paso(h), NEW r \in Sesion
    PROVE  NoLaOlvida(h, r)
<1> USE DEF Coherente, TypeOK, HiloCoherente, LlamadaCoherente, Existe, Llamada, PcSilla,
    PcSesion, filas, corte, cuentas, En, SesionDe, Libre, Termina, Sigue, SigueEn, Empieza,
    Programar, CancelarTimer, Vivas, Activables, DeActivar, Despertador, NoLaOlvida,
    LaAtiende, Desde
<1>1. ASSUME NEW s \in Sesion, CrearSesion(h, s) PROVE NoLaOlvida(h, r)
  BY <1>1 DEF CrearSesion
<1>2. ASSUME NEW s \in Sesion, CrearManual(h, s) PROVE NoLaOlvida(h, r)
  BY <1>2 DEF CrearManual
<1>3. CASE CrearPreferencia(h)
  <2>1. estado[SesionDe(h)] \in {"PENDIENTE", "CANCELADA"}
    BY <1>3 DEF CrearPreferencia, PagoConEnlace, PagoConEnlaceDe, SinEnlace, SinEnlaceDe, EnVuelo
  <2> QED BY <1>3, <2>1 DEF CrearPreferencia, EmpezarExpirarPago
<1>4. CASE ExpirarPago(h) \/ ExpirarPagoLibera(h)
  BY <1>4 DEF ExpirarPago, ExpirarPagoLibera
<1>5. CASE ActivarLee(h) \/ ActivarRele(h)
  BY <1>5 DEF ActivarLee, LeerParaActivar, ActivarRele, ReleResponde
<1>6. CASE ActivarConfirma(h) \/ MarcarEsperandoEnergia(h)
  BY <1>6 DEF ActivarConfirma, MarcarEsperandoEnergia
<1>7. CASE Cerrar(h)
  BY <1>7 DEF Cerrar, Reclama, EstadoFinal
<1>8. CASE Liberar(h) \/ EmitirVale(h)
  BY <1>8 DEF Liberar, EmitirVale
<1>9. CASE VencerEsperaLee(h)
  BY <1>9 DEF VencerEsperaLee
<1>10. CASE CerrarPorCorteLee(h)
  BY <1>10 DEF CerrarPorCorteLee, CorteAlDia, CorteVigente
<1>11. CASE CerrarPorCorteApaga(h)
  BY <1>11 DEF CerrarPorCorteApaga, ReleResponde
<1>12. CASE FinalizarLee(h) \/ FinalizarDetecta(h)
  BY <1>12 DEF FinalizarLee, FinalizarDetecta
<1>13. CASE FinalizarRegistraCorte(h)
  BY <1>13 DEF FinalizarRegistraCorte, PuedeMarcarCorte, MarcarCorte
<1>14. CASE FinalizarApaga(h)
  BY <1>14 DEF FinalizarApaga, ReleResponde
<1>15. CASE FinalizarASalida(h)
  BY <1>15 DEF FinalizarASalida, PuedeSalir
<1>16. CASE FinalizarProgramaRetorno(h)
  BY <1>16 DEF FinalizarProgramaRetorno, PasoVigente, Empezada
<1>17. CASE IniciarRetornoLee(h)
  BY <1>17 DEF IniciarRetornoLee
<1>18. CASE IniciarRetornoRele(h)
  BY <1>18 DEF IniciarRetornoRele, EmpezarCerrarSalida, ReleResponde, PasoVigente, Empezada
<1>19. CASE IniciarRetornoPrograma(h)
  BY <1>19 DEF IniciarRetornoPrograma, PasoVigente, Empezada
<1>20. CASE CerrarSalidaLee(h) \/ CerrarSalidaApaga(h)
  BY <1>20 DEF CerrarSalidaLee, CerrarSalidaApaga, ReleResponde
<1>21. CASE ReanudarLee(h) \/ ReanudarRele(h)
  BY <1>21 DEF ReanudarLee, LeerParaReanudar, ReanudarRele, ReleResponde
<1>22. CASE ReanudarReclama(h)
  BY <1>22 DEF ReanudarReclama
<1>23. CASE ReanudarPrograma(h)
  BY <1>23 DEF ReanudarPrograma, PasoVigente, Empezada
<1>24. CASE EmergenciaBusca(h)
  BY <1>24 DEF EmergenciaBusca
<1>25. CASE EmergenciaCancela(h) \/ EmergenciaLibera(h)
  BY <1>25 DEF EmergenciaCancela, EmergenciaLibera
<1> QED BY <1>1, <1>2, <1>3, <1>4, <1>5, <1>6, <1>7, <1>8, <1>9, <1>10, <1>11, <1>12, <1>13,
           <1>14, <1>15, <1>16, <1>17, <1>18, <1>19, <1>20, <1>21, <1>22, <1>23, <1>24, <1>25
           DEF Paso

\* The other steps: requests, timers, EnergiaService and the bootstrap.
LEMMA EntradaNoOlvida ==
    ASSUME Coherente, PasadaUnica, UnaActivacion, CorteAlDia, ArranqueVigente,
           "cancelar" \notin Entradas,
           NEW r \in Sesion, Despierta(r),
           \/ Pedido \/ Energia \/ Arranque
           \/ \E h \in Hilos, s \in Sesion : DispararTimer(h, s)
    PROVE  Despierta(r)'
<1> USE HilosAssumption DEF Llamadas, Coherente, TypeOK, Existe, Llamada, PcSilla,
    PcSesion, filas, corte, cuentas, control, En, SesionDe, Libre, Termina, Empieza, EmpiezaEnSilla,
    Programar, CancelarTimer, Vivas, Activables, DeActivar, Despertador
<1> DEFINE Ajenas(h) == arranque' = arranque /\ \A g \in Llamadas : g # h => hilo'[g] = hilo[g]
<1>1. ASSUME NEW h \in Hilos, NEW t \in Silla,
             ReservarSilla(h, t) \/ ActivarManual(h, t) \/ DetenerEmergencia(h, t)
      PROVE  Despierta(r)'
  <2>1. Ajenas(h) /\ NoLaOlvida(h, r)
    BY <1>1 DEF ReservarSilla, ActivarManual, DetenerEmergencia, Atiende, NoLaOlvida, LaAtiende
  <2> QED BY <2>1, SigueDespierta
<1>2. ASSUME NEW h \in Hilos, NEW s \in Sesion, AplicarPago(h, s) PROVE Despierta(r)'
  <2>1. Ajenas(h) /\ NoLaOlvida(h, r)
    BY <1>2 DEF AplicarPago, LeerParaActivar, Atiende, NoLaOlvida, LaAtiende
  <2> QED BY <2>1, SigueDespierta
<1>3. ASSUME NEW h \in Hilos, NEW s \in Sesion, DispararTimer(h, s) PROVE Despierta(r)'
  <2>1. Ajenas(h) /\ NoLaOlvida(h, r)
    BY <1>3 DEF DispararTimer, EmpezarExpirarPago, EmpezarVencerEspera, EmpezarFinalizar,
       EmpezarIniciarRetorno, EmpezarCerrarSalida, NoLaOlvida, LaAtiende
  <2> QED BY <2>1, SigueDespierta
<1>4. CASE Revisar
  <2>1. Ajenas(HiloEnergia) /\ NoLaOlvida(HiloEnergia, r)
    BY <1>4 DEF Revisar, NoLaOlvida, LaAtiende
  <2> QED BY <2>1, SigueDespierta
<1>5. ASSUME NEW f \in pasada, RevisarOmite(f) \/ RevisarReanuda(f) \/ RevisarRegistra(f)
      PROVE  Despierta(r)'
  <2>1. Ajenas(HiloEnergia)
    BY <1>5 DEF RevisarOmite, RevisarReanuda, RevisarRegistra, Decide, LeerParaReanudar
  <2>2. NoLaOlvida(HiloEnergia, r)
    BY <1>5 DEF RevisarOmite, RevisarReanuda, RevisarRegistra, Decide, LeerParaReanudar,
       PuedeMarcarCorte, MarcarCorte, NoLaOlvida, LaAtiende
  <2> QED BY <2>1, <2>2, SigueDespierta
<1>6. ASSUME NEW f \in pasada, RevisarEspera(f) PROVE Despierta(r)'
  <2>1. f.ses \in Sesion /\ f.estado = "ESPERANDO_ENERGIA"
    BY <1>6 DEF RevisarEspera, Fila
  <2>2. estado[f.ses] \notin {"PENDIENTE", "ACTIVA", "SALIDA"}
    BY <2>1 DEF UnaActivacion, UnaActivacionDe
  <2>3. Ajenas(HiloEnergia)
    BY <1>6 DEF RevisarEspera, Decide, EmpezarVencerEspera, LeerParaActivar
  <2>4. NoLaOlvida(HiloEnergia, r)
    BY <1>6, <2>1, <2>2 DEF RevisarEspera, Decide, EmpezarVencerEspera, LeerParaActivar,
       NoLaOlvida, LaAtiende
  <2> QED BY <2>3, <2>4, SigueDespierta
<1>7. ASSUME NEW f \in pasada, RevisarCierra(f) PROVE Despierta(r)'
  <2>1. f.ses \in Sesion /\ f.cortada
    BY <1>7 DEF RevisarCierra, Fila
  <2>2. estado[f.ses] \in {"ACTIVA", "COMPLETADA", "CANCELADA"}
    BY <2>1 DEF CorteAlDia, CorteVigente, Empezada
  <2>3. Ajenas(HiloEnergia)
    BY <1>7 DEF RevisarCierra, Decide, EmpezarCerrarPorCorte
  <2>4. NoLaOlvida(HiloEnergia, r)
    BY <1>7, <2>1, <2>2 DEF RevisarCierra, Decide, EmpezarCerrarPorCorte, NoLaOlvida, LaAtiende
  <2> QED BY <2>3, <2>4, SigueDespierta
<1>8. CASE ArranqueLee
  <2>1. PorRecuperar(r) => PorRecuperar(r)'
    BY <1>8 DEF ArranqueLee, PorRecuperar, Listo
  <2>2. UNCHANGED <<estado, timer, hilo, cortada>>
    BY <1>8 DEF ArranqueLee
  <2> QED BY <2>1, <2>2 DEF Despierta, LaAtiende
<1>9. ASSUME NEW s \in Sesion, ArranqueRecupera(s) PROVE Despierta(r)'
  <2>1. arranque.fase \in 1..4
    BY <1>9 DEF ArranqueRecupera
  <2>2. /\ \A g \in Llamadas : g # HiloArranque => hilo'[g] = hilo[g]
        /\ UNCHANGED <<estado, cortada>>
        /\ hilo[HiloArranque].pc = "libre"
    BY <1>9 DEF ArranqueRecupera, EmpezarFinalizar, EmpezarCerrarSalida, EmpezarVencerEspera,
       EmpezarExpirarPago
  <2>3. CASE r = s
    <3>1. estado[s] = Fases[arranque.fase] \/ estado[s] \in Cerradas
      BY <1>9 DEF ArranqueRecupera, ArranqueVigente
    <3>2. estado[s] \in Cerradas => Despierta(r)'
      BY <2>2, <2>3 DEF Despierta, Cerradas
    <3>3. ASSUME estado[s] = Fases[arranque.fase]
          PROVE  \/ timer'[s] \in Despertador(estado[s])
                 \/ estado[s] = "ACTIVA" /\ cortada[s]
                 \/ LaAtiende(HiloArranque, s)'
      BY <1>9, <2>1, <2>2, <3>3 DEF ArranqueRecupera, EmpezarFinalizar, EmpezarCerrarSalida,
         EmpezarVencerEspera, EmpezarExpirarPago, Fases, LaAtiende
    <3> QED BY <2>2, <2>3, <3>1, <3>2, <3>3 DEF Despierta
  <2>4. CASE r # s
    <3>1. timer'[r] = timer[r] /\ ~LaAtiende(HiloArranque, r)
      BY <1>9, <2>2, <2>4 DEF ArranqueRecupera, EmpezarFinalizar, EmpezarCerrarSalida,
         EmpezarVencerEspera, EmpezarExpirarPago, LaAtiende
    <3>2. PorRecuperar(r) => PorRecuperar(r)'
      BY <1>9, <2>2, <2>4 DEF ArranqueRecupera, PorRecuperar
    <3>3. \A g \in Llamadas : g # HiloArranque /\ LaAtiende(g, r) => LaAtiende(g, r)'
      BY <2>2 DEF LaAtiende
    <3> QED BY <2>2, <3>1, <3>2, <3>3 DEF Despierta
  <2> QED BY <2>3, <2>4
<1>10. \A h \in Hilos, s \in Sesion : ~CancelarCheckout(h, s)
  BY DEF CancelarCheckout
<1> QED BY <1>1, <1>2, <1>3, <1>4, <1>5, <1>6, <1>7, <1>8, <1>9, <1>10
        DEF Pedido, Energia, Arranque

\* Where a session is paid once, the relay outlasts the statements already sent
\* and no late cancellation comes, every unfinished session has something that
\* will move it on (SesionConDespertador). Without the first two a call that
\* checked the state before an await takes down the timer another one armed.
THEOREM NadieOlvidado ==
    ASSUME MaxPagos \leq 1, BaseRapida, "cancelar" \notin Entradas
    PROVE  Spec => []SesionConDespertador
<1> DEFINE Base == Coherente /\ PagoConEnlace /\ PasadaUnica /\ UnaActivacion
           Inv == /\ Base /\ SinEnlace /\ CorteAlDia /\ ArranqueVigente /\ PasoVigente
                  /\ SesionConDespertador
<1>1. SesionConDespertador <=> \A s \in Sesion : Despierta(s)
  BY DEF SesionConDespertador, Despierta, Atendida, LaAtiende, DeActivar
<1>2. Init => SesionConDespertador
  BY DEF Init, SesionConDespertador, Vivas
<1>3. ASSUME Inv, [Next]_vars PROVE SesionConDespertador'
  <2>1. SUFFICES ASSUME NEW r \in Sesion PROVE Despierta(r)'
    BY DEF SesionConDespertador, Despierta, Atendida, LaAtiende, DeActivar
  <2>2. Despierta(r)
    BY <1>1, <1>3
  <2>3. CASE UNCHANGED vars
    BY <2>2, <2>3 DEF vars, Despierta, LaAtiende, PorRecuperar
  <2>4. CASE Reiniciar
    <3>1. estado'[r] \in Vivas => PorRecuperar(r)'
      BY <2>4 DEF Reiniciar, PorRecuperar, Fases, Vivas
    <3> QED BY <3>1 DEF Despierta
  <2>5. ASSUME NEW h \in Llamadas, Paso(h) PROVE Despierta(r)'
    <3>1. NoLaOlvida(h, r)
      BY <1>3, <2>5, PasoNoOlvida
    <3>2. arranque' = arranque /\ \A g \in Llamadas : g # h => hilo'[g] = hilo[g]
      BY <1>3, <2>5, PasoConSuSesion, PasoEnSuSesion
    <3> QED BY <2>2, <3>1, <3>2, SigueDespierta
  <2>6. CASE \/ Pedido \/ Energia \/ Arranque
             \/ \E h \in Hilos, s \in Sesion : DispararTimer(h, s)
    BY <1>3, <2>2, <2>6, EntradaNoOlvida
  <2> QED BY <1>3, <2>3, <2>4, <2>5, <2>6 DEF Next
<1>4. Init => Inv
  BY <1>2, CoherenteInductiva, PagoConEnlaceInductivo, PasadaUnicaInductiva,
     UnaActivacionInductiva, SinEnlaceInductivo, CorteAlDiaInductivo,
     ArranqueVigenteInductivo, PasoVigenteInductivo
<1>5. Inv /\ [Next]_vars => Inv'
  BY <1>3, CoherenteInductiva, PagoConEnlaceInductivo, PasadaUnicaInductiva,
     UnaActivacionInductiva, SinEnlaceInductivo, CorteAlDiaInductivo,
     ArranqueVigenteInductivo, PasoVigenteInductivo DEF CorteAlDia
<1>6. Inv => SesionConDespertador
  OBVIOUS
<1> QED BY <1>4, <1>5, <1>6, PTL DEF Spec
=============================================================================
