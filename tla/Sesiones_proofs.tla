-------------------------- MODULE Sesiones_proofs --------------------------
(***************************************************************************)
(* What TLAPS proves of Sesiones for any chairs, sessions, slots and       *)
(* bounds, and for any mix of entry points:                                *)
(*                                                                         *)
(*   TipoCorrecto        every variable has its type;                      *)
(*   Invariante          IInv, the inductive invariant;                    *)
(*   SillaNoAbandonada   no chair is stranded before the first crash.      *)
(*                                                                         *)
(* Coherente is inductive by itself: what a call, a timer, a pass or the   *)
(* bootstrap names exists.  On top of it, a chair in use has an owner.     *)
(***************************************************************************)
EXTENDS Sesiones, TLAPS

(***************************************************************************)
(* Step by step, Coherente is preserved.  Cases are split where a handler  *)
(* goes two ways.                                                          *)
(***************************************************************************)

\* Writing a Boolean column of one session.
LEMMA EscribeBooleano ==
    ASSUME NEW f \in [Sesion -> BOOLEAN], NEW s, NEW b \in BOOLEAN
    PROVE  [f EXCEPT ![s] = b] \in [Sesion -> BOOLEAN]
OBVIOUS

\* One awaited statement of a call in flight (Paso).
LEMMA PasoCoherente ==
    ASSUME Coherente, NEW h \in Llamadas, Paso(h)
    PROVE  Coherente'
<1> USE NadaAssumption, BoundsAssumption, HilosAssumption DEF Llamadas,
       Coherente, TypeOK, HiloCoherente, Listo, LlamadaCoherente,
       ReferenciasCoherentes, Existe, Llamada, Pcs, PcSilla, PcSesion,
       Modos, Cierres, Libre, Fila, EstadoSilla, EstadoSesion, Motivos,
       Timers, Vales, filas, corte, control, cuentas, En, SesionDe, SillaDe
<1>1. ASSUME NEW s \in Sesion, CrearSesion(h, s) PROVE Coherente'
  BY <1>1 DEF CrearSesion, FilaDeSilla, Programar, Empieza
<1>2. ASSUME NEW s \in Sesion, CrearManual(h, s) PROVE Coherente'
  BY <1>2 DEF CrearManual, FilaDeSilla, Empieza
<1>3. ASSUME CrearPreferencia(h) PROVE Coherente'
  <2>1. TypeOK'
    <3>1. hilo' \in [Llamadas -> Llamada]
      BY <1>3 DEF CrearPreferencia, Termina, EmpezarExpirarPago, Empieza
    <3>2. enlace' \in [Sesion -> BOOLEAN]
      <4>1. enlace' = enlace \/ enlace' = [enlace EXCEPT ![SesionDe(h)] = TRUE]
        BY <1>3 DEF CrearPreferencia
      <4>2. enlace \in [Sesion -> BOOLEAN]
        OBVIOUS
      <4> QED BY ONLY <4>1, <4>2, EscribeBooleano
    <3>3. timer' \in [Sesion -> Timers]
      BY <1>3 DEF CrearPreferencia, EmpezarExpirarPago, CancelarTimer
    <3> QED BY <1>3, <3>1, <3>2, <3>3 DEF CrearPreferencia
  <2>2. HiloCoherente'
    BY <1>3 DEF CrearPreferencia, Termina, EmpezarExpirarPago,
      CancelarTimer, Empieza
  <2>3. ReferenciasCoherentes'
    BY <1>3 DEF CrearPreferencia, Termina, EmpezarExpirarPago,
      CancelarTimer, Empieza
  <2> QED BY <1>3, <2>1, <2>2, <2>3 DEF CrearPreferencia
<1>4. ASSUME ExpirarPago(h) PROVE Coherente'
  <2>1. CASE estado[SesionDe(h)] = "PENDIENTE"
    <3>1. TypeOK'
      BY <1>4, <2>1 DEF ExpirarPago, Sigue, Termina
    <3>2. HiloCoherente'
      BY <1>4, <2>1 DEF ExpirarPago, Sigue, Termina
    <3>3. ReferenciasCoherentes'
      BY <1>4, <2>1 DEF ExpirarPago, Sigue, Termina
    <3> QED BY <1>4, <2>1, <3>1, <3>2, <3>3 DEF ExpirarPago
  <2>2. CASE estado[SesionDe(h)] # "PENDIENTE"
    BY <1>4, <2>2 DEF ExpirarPago, Sigue, Termina
  <2> QED BY <2>1, <2>2
<1>5. ASSUME ExpirarPagoLibera(h) PROVE Coherente'
  BY <1>5 DEF ExpirarPagoLibera, Termina
<1>6. ASSUME ActivarLee(h) PROVE Coherente'
  BY <1>6 DEF ActivarLee, LeerParaActivar, Activables, CancelarTimer,
    Empieza, Termina
<1>7. ASSUME ActivarRele(h) PROVE Coherente'
  BY <1>7 DEF ActivarRele, ReleResponde, Sigue, Llamadas, PcRele
<1>8. ASSUME ActivarConfirma(h) PROVE Coherente'
  BY <1>8 DEF ActivarConfirma, Programar, Revive, Termina, Vivas
<1>9. ASSUME MarcarEsperandoEnergia(h) PROVE Coherente'
  BY <1>9 DEF MarcarEsperandoEnergia, Programar, Revive, Termina, Vivas
<1>10. ASSUME Cerrar(h) PROVE Coherente'
  <2>1. CASE Reclama(SesionDe(h), hilo[h].modo)
    <3>1. TypeOK'
      <4>1. hilo' \in [Llamadas -> Llamada]
        BY <1>10, <2>1 DEF Cerrar, Sigue
      <4>2. estado' \in [Sesion -> EstadoSesion]
        BY <1>10, <2>1 DEF Cerrar, EstadoFinal
      <4>3. motivo' \in [Sesion -> Motivos]
        BY <1>10, <2>1 DEF Cerrar, MotivoDe
      <4>4. cortada' \in [Sesion -> BOOLEAN]
        <5>1. cortada' = [cortada EXCEPT ![SesionDe(h)] = FALSE]
          BY <1>10, <2>1 DEF Cerrar
        <5>2. cortada \in [Sesion -> BOOLEAN]
          OBVIOUS
        <5> QED BY ONLY <5>1, <5>2, EscribeBooleano
      <4> QED BY <1>10, <2>1, <4>1, <4>2, <4>3, <4>4 DEF Cerrar
    <3>2. HiloCoherente'
      BY <1>10, <2>1 DEF Cerrar, Reclama, EstadoFinal, MotivoDe, Sigue,
        Termina, Desde
    <3>3. ReferenciasCoherentes'
      BY <1>10, <2>1 DEF Cerrar, Reclama, EstadoFinal, MotivoDe, Sigue,
        Termina, Desde
    <3> QED BY <1>10, <2>1, <3>1, <3>2, <3>3 DEF Cerrar
  <2>2. CASE ~Reclama(SesionDe(h), hilo[h].modo)
    BY <1>10, <2>2 DEF Cerrar, Reclama, EstadoFinal, MotivoDe, Sigue,
      Termina, Desde
  <2> QED BY <2>1, <2>2
<1>11. ASSUME Liberar(h) PROVE Coherente'
  BY <1>11 DEF Liberar, Tomadas, DaVale, Sigue, Termina
<1>12. ASSUME EmitirVale(h) PROVE Coherente'
  BY <1>12 DEF EmitirVale, Termina
<1>13. ASSUME VencerEsperaLee(h) PROVE Coherente'
  BY <1>13 DEF VencerEsperaLee, SigueEn, Termina
<1>14. ASSUME CerrarPorCorteLee(h) PROVE Coherente'
  BY <1>14 DEF CerrarPorCorteLee, Sigue, Termina
<1>15. ASSUME CerrarPorCorteApaga(h) PROVE Coherente'
  BY <1>15 DEF CerrarPorCorteApaga, ReleResponde, SigueEn, Llamadas, PcRele
<1>16. ASSUME FinalizarLee(h) PROVE Coherente'
  BY <1>16 DEF FinalizarLee, Sigue, Termina
<1>17. ASSUME FinalizarDetecta(h) PROVE Coherente'
  BY <1>17 DEF FinalizarDetecta, Sigue
<1>18. ASSUME FinalizarRegistraCorte(h) PROVE Coherente'
  <2>1. CASE PuedeMarcarCorte(SesionDe(h))
    <3>1. TypeOK'
      <4>1. hilo' \in [Llamadas -> Llamada]
        BY <1>18, <2>1 DEF FinalizarRegistraCorte, Termina
      <4>2. cortes' \in [Sesion -> 0..MaxCortes]
        BY <1>18, <2>1 DEF FinalizarRegistraCorte, MarcarCorte
      <4>3. cortada' \in [Sesion -> BOOLEAN]
        <5>1. cortada' = [cortada EXCEPT ![SesionDe(h)] = TRUE]
          BY <1>18, <2>1 DEF FinalizarRegistraCorte, MarcarCorte
        <5>2. cortada \in [Sesion -> BOOLEAN]
          OBVIOUS
        <5> QED BY ONLY <5>1, <5>2, EscribeBooleano
      <4> QED BY <1>18, <2>1, <4>1, <4>2, <4>3 DEF FinalizarRegistraCorte
    <3>2. HiloCoherente'
      BY <1>18, <2>1 DEF FinalizarRegistraCorte, PuedeMarcarCorte,
        MarcarCorte, Termina, Sigue
    <3>3. ReferenciasCoherentes'
      BY <1>18, <2>1 DEF FinalizarRegistraCorte, PuedeMarcarCorte,
        MarcarCorte, Termina, Sigue
    <3> QED BY <1>18, <2>1, <3>1, <3>2, <3>3 DEF FinalizarRegistraCorte
  <2>2. CASE ~PuedeMarcarCorte(SesionDe(h))
    BY <1>18, <2>2 DEF FinalizarRegistraCorte, PuedeMarcarCorte,
      MarcarCorte, Termina, Sigue
  <2> QED BY <2>1, <2>2
<1>19. ASSUME FinalizarApaga(h) PROVE Coherente'
  BY <1>19 DEF FinalizarApaga, ReleResponde, Sigue, SigueEn, Llamadas,
    PcRele
<1>20. ASSUME FinalizarASalida(h) PROVE Coherente'
  BY <1>20 DEF FinalizarASalida, PuedeSalir, Sigue, Termina
<1>21. ASSUME FinalizarProgramaRetorno(h) PROVE Coherente'
  BY <1>21 DEF FinalizarProgramaRetorno, Programar, Termina
<1>22. ASSUME IniciarRetornoLee(h) PROVE Coherente'
  BY <1>22 DEF IniciarRetornoLee, Sigue, Termina
<1>23. ASSUME IniciarRetornoRele(h) PROVE Coherente'
  BY <1>23 DEF IniciarRetornoRele, ReleResponde, Sigue, EmpezarCerrarSalida,
    Llamadas, PcRele, CancelarTimer, Empieza
<1>24. ASSUME IniciarRetornoPrograma(h) PROVE Coherente'
  BY <1>24 DEF IniciarRetornoPrograma, Programar, Termina
<1>25. ASSUME CerrarSalidaLee(h) PROVE Coherente'
  BY <1>25 DEF CerrarSalidaLee, Sigue, Termina
<1>26. ASSUME CerrarSalidaApaga(h) PROVE Coherente'
  BY <1>26 DEF CerrarSalidaApaga, ReleResponde, SigueEn, Llamadas, PcRele
<1>27. ASSUME ReanudarLee(h) PROVE Coherente'
  BY <1>27 DEF ReanudarLee, LeerParaReanudar, Empieza, Termina
<1>28. ASSUME ReanudarRele(h) PROVE Coherente'
  BY <1>28 DEF ReanudarRele, ReleResponde, Sigue, Termina, Llamadas, PcRele
<1>29. ASSUME ReanudarReclama(h) PROVE Coherente'
  <2>1. CASE estado[SesionDe(h)] = "ACTIVA" /\ cortada[SesionDe(h)]
    <3>1. TypeOK'
      <4>1. hilo' \in [Llamadas -> Llamada]
        BY <1>29, <2>1, SMTT(30) DEF ReanudarReclama, Sigue
      <4>2. cortada' \in [Sesion -> BOOLEAN]
        <5>1. cortada' = [cortada EXCEPT ![SesionDe(h)] = FALSE]
          BY <1>29, <2>1 DEF ReanudarReclama
        <5>2. cortada \in [Sesion -> BOOLEAN]
          OBVIOUS
        <5> QED BY ONLY <5>1, <5>2, EscribeBooleano
      <4> QED BY <1>29, <2>1, <4>1, <4>2 DEF ReanudarReclama
    <3>2. HiloCoherente'
      BY <1>29, <2>1 DEF ReanudarReclama, Sigue, Termina
    <3>3. ReferenciasCoherentes'
      BY <1>29, <2>1 DEF ReanudarReclama, Sigue, Termina
    <3> QED BY <1>29, <2>1, <3>1, <3>2, <3>3 DEF ReanudarReclama
  <2>2. CASE ~(estado[SesionDe(h)] = "ACTIVA" /\ cortada[SesionDe(h)])
    BY <1>29, <2>2 DEF ReanudarReclama, Sigue, Termina
  <2> QED BY <2>1, <2>2
<1>30. ASSUME ReanudarPrograma(h) PROVE Coherente'
  BY <1>30 DEF ReanudarPrograma, Programar, Termina
<1>31. ASSUME EmergenciaBusca(h) PROVE Coherente'
  BY <1>31 DEF EmergenciaBusca, EnMarchaEn, Sigue, CancelarTimer, EnMarcha,
    Vivas
<1>32. ASSUME EmergenciaCancela(h) PROVE Coherente'
  BY <1>32 DEF EmergenciaCancela, Sigue
<1>33. ASSUME EmergenciaLibera(h) PROVE Coherente'
  BY <1>33 DEF EmergenciaLibera, Termina
<1> QED BY <1>1, <1>2, <1>3, <1>4, <1>5, <1>6, <1>7, <1>8, <1>9, <1>10,
    <1>11, <1>12, <1>13, <1>14, <1>15, <1>16, <1>17, <1>18, <1>19, <1>20,
    <1>21, <1>22, <1>23, <1>24, <1>25, <1>26, <1>27, <1>28, <1>29, <1>30,
    <1>31, <1>32, <1>33 DEF Paso

\* A request, or a timer that fires (Pedido, DispararTimer).
LEMMA PedidoCoherente ==
    ASSUME Coherente, NEW h \in Hilos,
           \/ \E t \in Silla : \/ ReservarSilla(h, t)
                               \/ ActivarManual(h, t)
                               \/ DetenerEmergencia(h, t)
           \/ \E s \in Sesion : \/ CancelarCheckout(h, s)
                                \/ AplicarPago(h, s)
                                \/ DispararTimer(h, s)
    PROVE  Coherente'
<1> USE NadaAssumption, BoundsAssumption, HilosAssumption DEF Llamadas,
       Coherente, TypeOK, HiloCoherente, Listo, LlamadaCoherente,
       ReferenciasCoherentes, Existe, Llamada, Pcs, PcSilla, PcSesion,
       Modos, Cierres, Libre, Fila, EstadoSilla, EstadoSesion, Motivos,
       Timers, Vales, filas, corte, control, cuentas, En, SesionDe, SillaDe
<1>1. ASSUME NEW t \in Silla, ReservarSilla(h, t) PROVE Coherente'
  BY <1>1 DEF ReservarSilla, Atiende, QuedaId, SillaLibre, EmpiezaEnSilla,
    Llamadas
<1>2. ASSUME NEW t \in Silla, ActivarManual(h, t) PROVE Coherente'
  BY <1>2 DEF ActivarManual, Atiende, QuedaId, EmpiezaEnSilla, Llamadas
<1>3. ASSUME NEW t \in Silla, DetenerEmergencia(h, t) PROVE Coherente'
  BY <1>3 DEF DetenerEmergencia, Atiende, EmpiezaEnSilla
<1>4. ASSUME NEW s \in Sesion, CancelarCheckout(h, s) PROVE Coherente'
  BY <1>4 DEF CancelarCheckout, Atiende, EmpezarExpirarPago, CancelarTimer,
    Empieza
<1>5. ASSUME NEW s \in Sesion, AplicarPago(h, s) PROVE Coherente'
  <2>1. CASE estado[s] \in Activables
    <3>1. TypeOK'
      <4>1. hilo' \in [Llamadas -> Llamada]
        BY <1>5, <2>1 DEF AplicarPago, Atiende, LeerParaActivar,
          Empieza
      <4>2. pagos' \in [Sesion -> 0..MaxPagos]
        BY <1>5, <2>1 DEF AplicarPago
      <4>3. revision' \in [Sesion -> BOOLEAN]
        BY <1>5, <2>1 DEF AplicarPago
      <4>4. timer' \in [Sesion -> Timers]
        BY <1>5, <2>1 DEF AplicarPago, LeerParaActivar, CancelarTimer
      <4> QED BY <1>5, <2>1, <4>1, <4>2, <4>3, <4>4 DEF AplicarPago
    <3>2. HiloCoherente'
      BY <1>5, <2>1 DEF AplicarPago, Atiende, LeerParaActivar, CancelarTimer, Empieza
    <3>3. ReferenciasCoherentes'
      BY <1>5, <2>1 DEF AplicarPago, Atiende, LeerParaActivar, CancelarTimer, Empieza
    <3> QED BY <1>5, <2>1, <3>1, <3>2, <3>3 DEF AplicarPago
  <2>2. CASE estado[s] \notin Activables
    <3>1. TypeOK'
      <4>1. hilo' \in [Llamadas -> Llamada]
        <5>1. Termina(h)
          BY <1>5, <2>2 DEF AplicarPago, LeerParaActivar
        <5> QED BY <5>1 DEF Termina
      <4>2. pagos' \in [Sesion -> 0..MaxPagos]
        BY <1>5 DEF AplicarPago
      <4>3. revision' \in [Sesion -> BOOLEAN]
        BY <1>5 DEF AplicarPago
      <4> QED BY <1>5, <2>2, <4>1, <4>2, <4>3 DEF AplicarPago, LeerParaActivar
    <3>2. HiloCoherente'
      BY <1>5, <2>2 DEF AplicarPago, LeerParaActivar, Termina
    <3>3. ReferenciasCoherentes'
      BY <1>5, <2>2 DEF AplicarPago, LeerParaActivar
    <3> QED BY <1>5, <3>1, <3>2, <3>3 DEF AplicarPago
  <2> QED BY <2>1, <2>2
<1>6. ASSUME NEW s \in Sesion, DispararTimer(h, s) PROVE Coherente'
  BY <1>6 DEF DispararTimer, EmpezarExpirarPago, EmpezarVencerEspera,
    EmpezarFinalizar, EmpezarIniciarRetorno, EmpezarCerrarSalida,
    CancelarTimer, Empieza
<1> QED BY <1>1, <1>2, <1>3, <1>4, <1>5, <1>6 DEF Llamadas

\* A step of EnergiaService (Energia).
LEMMA EnergiaCoherente ==
    ASSUME Coherente, Energia
    PROVE  Coherente'
<1> USE NadaAssumption, BoundsAssumption, HilosAssumption DEF Llamadas,
       Coherente, TypeOK, HiloCoherente, Listo, LlamadaCoherente,
       ReferenciasCoherentes, Existe, Llamada, Pcs, PcSilla, PcSesion,
       Modos, Cierres, Libre, Fila, EstadoSilla, EstadoSesion, Motivos,
       Timers, Vales, filas, corte, control, cuentas, En, SesionDe, SillaDe
<1>1. ASSUME Revisar PROVE Coherente'
  BY <1>1 DEF Revisar
<1>2. ASSUME NEW f \in pasada, RevisarOmite(f) PROVE Coherente'
  BY <1>2 DEF RevisarOmite, Decide
<1>3. ASSUME NEW f \in pasada, RevisarEspera(f) PROVE Coherente'
  BY <1>3 DEF RevisarEspera, Decide, EmpezarVencerEspera, LeerParaActivar,
    CancelarTimer, Empieza, Activables, Termina
<1>4. ASSUME NEW f \in pasada, RevisarCierra(f) PROVE Coherente'
  BY <1>4 DEF RevisarCierra, Decide, EmpezarCerrarPorCorte, CancelarTimer,
    Empieza
<1>5. ASSUME NEW f \in pasada, RevisarReanuda(f) PROVE Coherente'
  BY <1>5 DEF RevisarReanuda, Decide, LeerParaReanudar, Empieza, Termina
<1>6. ASSUME NEW f \in pasada, RevisarRegistra(f) PROVE Coherente'
  <2>1. CASE PuedeMarcarCorte(f.ses)
    <3>1. TypeOK'
      <4>1. hilo' \in [Llamadas -> Llamada]
        BY <1>6, <2>1 DEF RevisarRegistra, Decide, Empieza
      <4>2. cortes' \in [Sesion -> 0..MaxCortes]
        BY <1>6, <2>1 DEF RevisarRegistra, MarcarCorte
      <4>3. cortada' \in [Sesion -> BOOLEAN]
        <5>1. cortada' = [cortada EXCEPT ![f.ses] = TRUE]
          BY <1>6, <2>1 DEF RevisarRegistra, MarcarCorte
        <5>2. cortada \in [Sesion -> BOOLEAN]
          OBVIOUS
        <5> QED BY ONLY <5>1, <5>2, EscribeBooleano
      <4> QED BY <1>6, <2>1, <4>1, <4>2, <4>3 DEF RevisarRegistra, Decide
    <3>2. HiloCoherente'
      BY <1>6, <2>1 DEF RevisarRegistra, Decide, PuedeMarcarCorte,
        MarcarCorte, Empieza
    <3>3. ReferenciasCoherentes'
      BY <1>6, <2>1 DEF RevisarRegistra, Decide, PuedeMarcarCorte,
        MarcarCorte, Empieza
    <3> QED BY <1>6, <2>1, <3>1, <3>2, <3>3 DEF RevisarRegistra, Decide
  <2>2. CASE ~PuedeMarcarCorte(f.ses)
    BY <1>6, <2>2 DEF RevisarRegistra, Decide, PuedeMarcarCorte,
      MarcarCorte, Empieza
  <2> QED BY <2>1, <2>2
<1> QED BY <1>1, <1>2, <1>3, <1>4, <1>5, <1>6 DEF Energia

\* A step of the bootstrap, or a restart (Arranque, Reiniciar).
LEMMA ArranqueCoherente ==
    ASSUME Coherente, Arranque \/ Reiniciar
    PROVE  Coherente'
<1> USE NadaAssumption, BoundsAssumption, HilosAssumption DEF Llamadas,
       Coherente, TypeOK, HiloCoherente, Listo, LlamadaCoherente,
       ReferenciasCoherentes, Existe, Llamada, Pcs, PcSilla, PcSesion,
       Modos, Cierres, Libre, Fila, EstadoSilla, EstadoSesion, Motivos,
       Timers, Vales, filas, corte, control, cuentas, En, SesionDe, SillaDe
<1>1. ASSUME ArranqueLee PROVE Coherente'
  BY <1>1 DEF ArranqueLee, Fases
<1>2. ASSUME NEW s \in Sesion, ArranqueRecupera(s) PROVE Coherente'
  BY <1>2 DEF ArranqueRecupera, Programar, EmpezarFinalizar,
    EmpezarCerrarSalida, EmpezarVencerEspera, EmpezarExpirarPago,
    CancelarTimer, Empieza
<1>3. ASSUME Reiniciar PROVE Coherente'
  BY <1>3 DEF Reiniciar, Llamadas
<1> QED BY <1>1, <1>2, <1>3 DEF Arranque

\* Every step preserves Coherente.
LEMMA CoherenteInductiva ==
    /\ Init => Coherente
    /\ Coherente /\ [Next]_vars => Coherente'
<1>1. Init => Coherente
  BY NadaAssumption, BoundsAssumption DEF Init, Coherente, TypeOK,
      HiloCoherente,
      LlamadaCoherente, ReferenciasCoherentes, Existe, Llamada, Libre, Pcs, PcSilla,
      PcSesion, Modos, Listo, EstadoSilla, EstadoSesion, Motivos, Timers, Vales
<1>2. ASSUME Coherente, [Next]_vars PROVE Coherente'
  <2>1. CASE UNCHANGED vars
    BY <1>2, <2>1 DEF vars, Coherente, TypeOK, HiloCoherente, LlamadaCoherente,
        ReferenciasCoherentes, Existe
  <2>2. CASE \E h \in Llamadas : Paso(h)
    BY <1>2, <2>2, PasoCoherente
  <2>3. CASE Pedido \/ \E h \in Hilos, s \in Sesion : DispararTimer(h, s)
    BY <1>2, <2>3, PedidoCoherente DEF Pedido
  <2>4. CASE Energia
    BY <1>2, <2>4, EnergiaCoherente
  <2>5. CASE Arranque \/ Reiniciar
    BY <1>2, <2>5, ArranqueCoherente
  <2> QED BY <1>2, <2>1, <2>2, <2>3, <2>4, <2>5 DEF Next
<1> QED BY <1>1, <1>2

\* Every variable has its type, in every behaviour (TypeOK).
THEOREM TipoCorrecto == Spec => []TypeOK
<1>1. Spec => []Coherente
  BY CoherenteInductiva, PTL DEF Spec
<1>2. Coherente => TypeOK
  BY DEF Coherente
<1> QED BY <1>1, <1>2, PTL

-----------------------------------------------------------------------------

(***************************************************************************)
(* Most steps move no session and are taken by a call that holds no chair. *)
(***************************************************************************)
Quieto(h) ==
    /\ UNCHANGED <<silla, estado, sillaDe>>
    /\ hilo[h].pc \notin {"crear_sesion", "emg_silla", "exp_silla", "liberar"}
    /\ \A g \in Llamadas : g # h => hilo'[g] = hilo[g]

\* A quiet step leaves every chair with its owner.
LEMMA QuietoConserva ==
    ASSUME NEW h \in Llamadas, Quieto(h), EnUsoConDuenio, PagoPendienteConDuenio
    PROVE  EnUsoConDuenio' /\ PagoPendienteConDuenio'
<1>1. \A g \in Llamadas, t \in Silla : SigueConSilla(g, t) => g # h
  BY DEF SigueConSilla, Quieto
<1>2. \A g \in Llamadas, t \in Silla : SigueConSilla(g, t) =>
           SigueConSilla(g, t)' /\ hilo'[g].pc = hilo[g].pc
  BY <1>1 DEF SigueConSilla, SillaDe, Quieto
<1>3. \A t \in Silla : VivasEn(t)' = VivasEn(t) /\ EnMarchaEn(t)' = EnMarchaEn(t)
  BY DEF Quieto, VivasEn, EnMarchaEn
<1> QED BY <1>2, <1>3 DEF Quieto, EnUsoConDuenio, PagoPendienteConDuenio

\* The quiet steps of a call in flight.
LEMMA PasosQuietos ==
    ASSUME Coherente, NEW h \in Llamadas,
           \/ CrearPreferencia(h) \/ ActivarLee(h) \/ ActivarRele(h)
           \/ EmitirVale(h) \/ VencerEsperaLee(h) \/ CerrarPorCorteLee(h)
           \/ CerrarPorCorteApaga(h) \/ FinalizarLee(h) \/ FinalizarDetecta(h)
           \/ FinalizarRegistraCorte(h) \/ FinalizarApaga(h) \/ FinalizarProgramaRetorno(h)
           \/ IniciarRetornoLee(h) \/ IniciarRetornoRele(h) \/ IniciarRetornoPrograma(h)
           \/ CerrarSalidaLee(h) \/ CerrarSalidaApaga(h) \/ ReanudarLee(h)
           \/ ReanudarRele(h) \/ ReanudarReclama(h) \/ ReanudarPrograma(h)
           \/ EmergenciaBusca(h)
    PROVE  Quieto(h)
<1> USE HilosAssumption DEF Llamadas, Quieto, Coherente, TypeOK,
    HiloCoherente, LlamadaCoherente, Existe, Llamada, Pcs, PcSilla, PcSesion,
    filas, En, SesionDe, SillaDe
<1>1. ASSUME CrearPreferencia(h) PROVE Quieto(h)
  BY <1>1 DEF CrearPreferencia, Termina, EmpezarExpirarPago, Libre, Empieza
<1>2. ASSUME ActivarLee(h) PROVE Quieto(h)
  BY <1>2 DEF ActivarLee, LeerParaActivar, Empieza, Termina, Libre
<1>3. ASSUME ActivarRele(h) PROVE Quieto(h)
  BY <1>3 DEF ActivarRele, ReleResponde, Sigue
<1>4. ASSUME EmitirVale(h) PROVE Quieto(h)
  BY <1>4 DEF EmitirVale, Termina, Libre
<1>5. ASSUME VencerEsperaLee(h) PROVE Quieto(h)
  BY <1>5 DEF VencerEsperaLee, SigueEn, Termina, Libre
<1>6. ASSUME CerrarPorCorteLee(h) PROVE Quieto(h)
  BY <1>6 DEF CerrarPorCorteLee, Sigue, Termina, Libre
<1>7. ASSUME CerrarPorCorteApaga(h) PROVE Quieto(h)
  BY <1>7 DEF CerrarPorCorteApaga, ReleResponde, SigueEn
<1>8. ASSUME FinalizarLee(h) PROVE Quieto(h)
  BY <1>8 DEF FinalizarLee, Sigue, Termina, Libre
<1>9. ASSUME FinalizarDetecta(h) PROVE Quieto(h)
  BY <1>9 DEF FinalizarDetecta, Sigue
<1>10. ASSUME FinalizarRegistraCorte(h) PROVE Quieto(h)
  BY <1>10 DEF FinalizarRegistraCorte, Termina, Sigue, Libre
<1>11. ASSUME FinalizarApaga(h) PROVE Quieto(h)
  BY <1>11 DEF FinalizarApaga, ReleResponde, Sigue, SigueEn
<1>12. ASSUME FinalizarProgramaRetorno(h) PROVE Quieto(h)
  BY <1>12 DEF FinalizarProgramaRetorno, Termina, Libre
<1>13. ASSUME IniciarRetornoLee(h) PROVE Quieto(h)
  BY <1>13 DEF IniciarRetornoLee, Sigue, Termina, Libre
<1>14. ASSUME IniciarRetornoRele(h) PROVE Quieto(h)
  BY <1>14 DEF IniciarRetornoRele, ReleResponde, Sigue, EmpezarCerrarSalida,
      Empieza
<1>15. ASSUME IniciarRetornoPrograma(h) PROVE Quieto(h)
  BY <1>15 DEF IniciarRetornoPrograma, Termina, Libre
<1>16. ASSUME CerrarSalidaLee(h) PROVE Quieto(h)
  BY <1>16 DEF CerrarSalidaLee, Sigue, Termina, Libre
<1>17. ASSUME CerrarSalidaApaga(h) PROVE Quieto(h)
  BY <1>17 DEF CerrarSalidaApaga, ReleResponde, SigueEn
<1>18. ASSUME ReanudarLee(h) PROVE Quieto(h)
  BY <1>18 DEF ReanudarLee, LeerParaReanudar, Empieza, Termina, Libre
<1>19. ASSUME ReanudarRele(h) PROVE Quieto(h)
  BY <1>19 DEF ReanudarRele, ReleResponde, Sigue, Termina, Libre
<1>20. ASSUME ReanudarReclama(h) PROVE Quieto(h)
  BY <1>20 DEF ReanudarReclama, Sigue, Termina, Libre
<1>21. ASSUME ReanudarPrograma(h) PROVE Quieto(h)
  BY <1>21 DEF ReanudarPrograma, Termina, Libre
<1>22. ASSUME EmergenciaBusca(h) PROVE Quieto(h)
  BY <1>22 DEF EmergenciaBusca, Sigue
<1> QED BY <1>1, <1>2, <1>3, <1>4, <1>5, <1>6, <1>7, <1>8, <1>9, <1>10, <1>11,
    <1>12, <1>13, <1>14, <1>15, <1>16, <1>17, <1>18, <1>19, <1>20, <1>21,
    <1>22

\* Every request but the one that claims a chair is quiet, and so is a timer.
LEMMA PedidosQuietos ==
    ASSUME Coherente, NEW h \in Hilos,
           \/ \E t \in Silla : ActivarManual(h, t) \/ DetenerEmergencia(h, t)
           \/ \E s \in Sesion : \/ CancelarCheckout(h, s)
                                \/ AplicarPago(h, s)
                                \/ DispararTimer(h, s)
    PROVE  Quieto(h)
<1> USE HilosAssumption DEF Llamadas, Quieto, Coherente, TypeOK,
    HiloCoherente, LlamadaCoherente, Existe, Llamada, Pcs, PcSilla, PcSesion,
    filas, En, SesionDe, SillaDe
<1>1. ASSUME NEW t \in Silla, ActivarManual(h, t) PROVE Quieto(h)
  BY <1>1 DEF ActivarManual, Atiende, EmpiezaEnSilla
<1>2. ASSUME NEW t \in Silla, DetenerEmergencia(h, t) PROVE Quieto(h)
  BY <1>2 DEF DetenerEmergencia, Atiende, EmpiezaEnSilla
<1>3. ASSUME NEW s \in Sesion, CancelarCheckout(h, s) PROVE Quieto(h)
  BY <1>3 DEF CancelarCheckout, Atiende, EmpezarExpirarPago, Empieza
<1>4. ASSUME NEW s \in Sesion, AplicarPago(h, s) PROVE Quieto(h)
  BY <1>4 DEF AplicarPago, Atiende, LeerParaActivar, Empieza, Termina, Libre
<1>5. ASSUME NEW s \in Sesion, DispararTimer(h, s) PROVE Quieto(h)
  BY <1>5 DEF DispararTimer, EmpezarExpirarPago, EmpezarVencerEspera,
      EmpezarFinalizar, EmpezarIniciarRetorno, EmpezarCerrarSalida, Empieza
<1> QED BY <1>1, <1>2, <1>3, <1>4, <1>5

\* EnergiaService works in its own slot and writes no state of a session by itself.
LEMMA EnergiaQuieta ==
    ASSUME Coherente, Energia
    PROVE  Quieto(HiloEnergia)
<1> USE HilosAssumption DEF Llamadas, Quieto, Coherente, TypeOK,
    HiloCoherente, LlamadaCoherente, Existe, Llamada, Pcs, PcSilla, PcSesion,
    filas, En, SesionDe, SillaDe
<1>1. ASSUME Revisar PROVE Quieto(HiloEnergia)
  BY <1>1 DEF Revisar
<1>2. ASSUME NEW f \in pasada, RevisarOmite(f) PROVE Quieto(HiloEnergia)
  BY <1>2 DEF RevisarOmite, Decide
<1>3. ASSUME NEW f \in pasada, RevisarEspera(f) PROVE Quieto(HiloEnergia)
  BY <1>3 DEF RevisarEspera, Decide, EmpezarVencerEspera, LeerParaActivar,
      Empieza, Termina, Libre
<1>4. ASSUME NEW f \in pasada, RevisarCierra(f) PROVE Quieto(HiloEnergia)
  BY <1>4 DEF RevisarCierra, Decide, EmpezarCerrarPorCorte, Empieza
<1>5. ASSUME NEW f \in pasada, RevisarReanuda(f) PROVE Quieto(HiloEnergia)
  BY <1>5 DEF RevisarReanuda, Decide, LeerParaReanudar, Empieza, Termina,
      Libre
<1>6. ASSUME NEW f \in pasada, RevisarRegistra(f) PROVE Quieto(HiloEnergia)
  BY <1>6 DEF RevisarRegistra, Decide, Empieza
<1> QED BY <1>1, <1>2, <1>3, <1>4, <1>5, <1>6 DEF Energia

\* So does the bootstrap.
LEMMA ArranqueQuieto ==
    ASSUME Coherente, Arranque
    PROVE  Quieto(HiloArranque)
<1> USE HilosAssumption DEF Llamadas, Quieto, Coherente, TypeOK,
    HiloCoherente, LlamadaCoherente, Existe, Llamada, Pcs, PcSilla, PcSesion,
    filas, En, SesionDe, SillaDe
<1>1. ASSUME ArranqueLee PROVE Quieto(HiloArranque)
  BY <1>1 DEF ArranqueLee
<1>2. ASSUME NEW s \in Sesion, ArranqueRecupera(s) PROVE Quieto(HiloArranque)
  BY <1>2 DEF ArranqueRecupera, EmpezarFinalizar, EmpezarCerrarSalida,
      EmpezarVencerEspera, EmpezarExpirarPago, Empieza
<1> QED BY <1>1, <1>2 DEF Arranque

\* A call that holds no chair moves its session, and the chair of that session
\* keeps an owner: the session is still under way, or the call now has to free
\* the chair.
LEMMA Entrega ==
    ASSUME NEW h \in Llamadas, NEW s \in Sesion, s = SesionDe(h),
           EnUsoConDuenio, PagoPendienteConDuenio,
           UNCHANGED <<silla, sillaDe>>,
           hilo[h].pc \notin {"crear_sesion", "emg_silla", "exp_silla", "liberar"},
           \A g \in Llamadas : g # h => hilo'[g] = hilo[g],
           \A r \in Sesion : r # s => estado'[r] = estado[r],
           hilo'[h].ses = s,
           \/ estado'[s] \in EnMarcha
           \/ hilo'[h].pc = "liberar"
           \/ estado[s] \notin EnMarcha /\ hilo'[h].pc = "exp_silla"
    PROVE  EnUsoConDuenio' /\ PagoPendienteConDuenio'
<1>1. \A g \in Llamadas, t \in Silla : SigueConSilla(g, t) =>
          g # h /\ SigueConSilla(g, t)' /\ hilo'[g].pc = hilo[g].pc
  BY DEF SigueConSilla, SillaDe
<1>2. \A t \in Silla, r \in Sesion : r # s =>
          /\ r \in VivasEn(t) <=> r \in VivasEn(t)'
          /\ r \in EnMarchaEn(t) <=> r \in EnMarchaEn(t)'
  BY DEF VivasEn, EnMarchaEn
<1>3. ASSUME NEW t \in Silla, s \in EnMarchaEn(t), s \notin EnMarchaEn(t)'
      PROVE  SigueConSilla(h, t)' /\ hilo'[h].pc = "liberar"
  <2>1. sillaDe'[s] = t /\ estado[s] \in EnMarcha
    BY <1>3 DEF EnMarchaEn
  <2>2. hilo'[h].pc = "liberar"
    BY <1>3, <2>1 DEF EnMarchaEn
  <2> QED BY <2>1, <2>2 DEF SigueConSilla, SillaDe
<1>4. \A t \in Silla : s \in VivasEn(t) => s \in VivasEn(t)' \/ SigueConSilla(h, t)'
  BY DEF VivasEn, EnMarcha, SigueConSilla, SillaDe
<1>5. \A t \in Silla : VivasEn(t) \subseteq Sesion /\ EnMarchaEn(t) \subseteq Sesion
  BY DEF VivasEn, EnMarchaEn
<1>6. EnUsoConDuenio'
  BY <1>1, <1>2, <1>3, <1>5 DEF EnUsoConDuenio
<1>7. PagoPendienteConDuenio'
  BY <1>1, <1>2, <1>4, <1>5 DEF PagoPendienteConDuenio
<1> QED BY <1>6, <1>7

\* The steps that move a session or a chair.  For each, the owner of a chair in
\* use, then the owner of a chair that waits for a payment.
LEMMA PasosRuidosos ==
    ASSUME Coherente, EnUsoConDuenio, PagoPendienteConDuenio, NEW h \in Llamadas,
           \/ \E s \in Sesion : CrearSesion(h, s) \/ CrearManual(h, s)
           \/ \E t \in Silla : h \in Hilos /\ ReservarSilla(h, t)
           \/ ExpirarPago(h) \/ ExpirarPagoLibera(h) \/ ActivarConfirma(h)
           \/ MarcarEsperandoEnergia(h) \/ Cerrar(h) \/ Liberar(h)
           \/ FinalizarASalida(h) \/ EmergenciaCancela(h) \/ EmergenciaLibera(h)
    PROVE  EnUsoConDuenio' /\ PagoPendienteConDuenio'
<1> USE NadaAssumption DEF Coherente, TypeOK, HiloCoherente, LlamadaCoherente,
    Existe, Llamada, Pcs, PcSilla, PcSesion, filas, En, SesionDe, SillaDe,
    EstadoSilla, EstadoSesion, Vivas, EnMarcha, VivasEn, EnMarchaEn,
    SigueConSilla, EnUsoConDuenio, PagoPendienteConDuenio
<1>1. ASSUME NEW s \in Sesion, CrearSesion(h, s)
      PROVE  EnUsoConDuenio' /\ PagoPendienteConDuenio'
  <2>1. EnUsoConDuenio'
    BY <1>1 DEF CrearSesion, FilaDeSilla, Empieza
  <2>2. PagoPendienteConDuenio'
    BY <1>1 DEF CrearSesion, FilaDeSilla, Empieza
  <2> QED BY <2>1, <2>2
<1>2. ASSUME NEW s \in Sesion, CrearManual(h, s)
      PROVE  EnUsoConDuenio' /\ PagoPendienteConDuenio'
  <2>1. EnUsoConDuenio'
    BY <1>2 DEF CrearManual, FilaDeSilla, Empieza
  <2>2. PagoPendienteConDuenio'
    BY <1>2 DEF CrearManual, FilaDeSilla, Empieza
  <2> QED BY <2>1, <2>2
<1>3. ASSUME ExpirarPago(h)
      PROVE  EnUsoConDuenio' /\ PagoPendienteConDuenio'
  <2> DEFINE s == SesionDe(h)
  <2>1. CASE estado[s] = "PENDIENTE"
    <3>1. /\ UNCHANGED <<silla, sillaDe>>
          /\ s \in Sesion /\ hilo'[h].ses = s
          /\ hilo[h].pc \notin {"crear_sesion", "emg_silla", "exp_silla", "liberar"}
      BY <1>3, <2>1 DEF ExpirarPago, Sigue, Termina, Coherente, TypeOK,
          HiloCoherente, LlamadaCoherente, En, SesionDe, Llamada,
          PcSesion, filas
    <3>2. /\ \A g \in Llamadas : g # h => hilo'[g] = hilo[g]
          /\ \A r \in Sesion : r # s => estado'[r] = estado[r]
      BY <1>3, <2>1 DEF ExpirarPago, Sigue, Termina, Coherente, TypeOK, SesionDe
    <3>3. \/ estado'[s] \in EnMarcha
          \/ hilo'[h].pc = "liberar"
          \/ estado[s] \notin EnMarcha /\ hilo'[h].pc = "exp_silla"
      BY <1>3, <2>1, <3>1 DEF ExpirarPago, Sigue, Termina, Coherente,
          TypeOK, EnMarcha, Vivas, Llamada, SesionDe
    <3> QED BY <3>1, <3>2, <3>3, Entrega, SMTT(30)
  <2>2. CASE estado[s] # "PENDIENTE"
    <3>1. Quieto(h)
      BY <1>3, <2>2 DEF ExpirarPago, Sigue, Termina, Quieto, Coherente,
          TypeOK, En, SesionDe, filas, Libre
    <3> QED BY <3>1, QuietoConserva
  <2> QED BY <2>1, <2>2
<1>4. ASSUME ExpirarPagoLibera(h)
      PROVE  EnUsoConDuenio' /\ PagoPendienteConDuenio'
  <2>1. EnUsoConDuenio'
    BY <1>4 DEF ExpirarPagoLibera, Termina, Libre
  <2>2. PagoPendienteConDuenio'
    BY <1>4 DEF ExpirarPagoLibera, Termina, Libre
  <2> QED BY <2>1, <2>2
<1>5. ASSUME ActivarConfirma(h)
      PROVE  EnUsoConDuenio' /\ PagoPendienteConDuenio'
  <2>1. EnUsoConDuenio'
    BY <1>5, SMTT(30) DEF ActivarConfirma, Termina, Libre
  <2>2. PagoPendienteConDuenio'
    BY <1>5 DEF ActivarConfirma, Termina, Libre
  <2> QED BY <2>1, <2>2
<1>6. ASSUME MarcarEsperandoEnergia(h)
      PROVE  EnUsoConDuenio' /\ PagoPendienteConDuenio'
  <2>1. EnUsoConDuenio'
    BY <1>6 DEF MarcarEsperandoEnergia, Termina, Libre
  <2>2. PagoPendienteConDuenio'
    BY <1>6 DEF MarcarEsperandoEnergia, Termina, Libre
  <2> QED BY <2>1, <2>2
<1>7. ASSUME Cerrar(h)
      PROVE  EnUsoConDuenio' /\ PagoPendienteConDuenio'
  <2> DEFINE s == SesionDe(h)
  <2>1. CASE Reclama(s, hilo[h].modo)
    <3>1. /\ UNCHANGED <<silla, sillaDe>>
          /\ s \in Sesion /\ hilo'[h].ses = s
          /\ hilo[h].pc \notin {"crear_sesion", "emg_silla", "exp_silla", "liberar"}
      BY <1>7, <2>1 DEF Cerrar, Sigue, Termina, Coherente, TypeOK,
          HiloCoherente, LlamadaCoherente, En, SesionDe, Llamada,
          PcSesion, filas
    <3>2. /\ \A g \in Llamadas : g # h => hilo'[g] = hilo[g]
          /\ \A r \in Sesion : r # s => estado'[r] = estado[r]
      BY <1>7, <2>1 DEF Cerrar, Sigue, Termina, Coherente, TypeOK, SesionDe
    <3>3. \/ estado'[s] \in EnMarcha
          \/ hilo'[h].pc = "liberar"
          \/ estado[s] \notin EnMarcha /\ hilo'[h].pc = "exp_silla"
      BY <1>7, <2>1, <3>1 DEF Cerrar, Sigue, Termina, Coherente, TypeOK,
          EnMarcha, Vivas, Llamada, SesionDe
    <3> QED BY <3>1, <3>2, <3>3, Entrega, SMTT(30)
  <2>2. CASE ~Reclama(s, hilo[h].modo)
    <3>1. Quieto(h)
      BY <1>7, <2>2 DEF Cerrar, Sigue, Termina, Quieto, Coherente, TypeOK,
          En, SesionDe, filas, Libre
    <3> QED BY <3>1, QuietoConserva
  <2> QED BY <2>1, <2>2
<1>8. ASSUME Liberar(h)
      PROVE  EnUsoConDuenio' /\ PagoPendienteConDuenio'
  <2> DEFINE u == SillaDe(h)
  <2>1. /\ u \in Silla /\ silla'[u] = "LIBRE"
        /\ \A t \in Silla : t # u => silla'[t] = silla[t]
    BY <1>8 DEF Liberar, Tomadas, Coherente, TypeOK, HiloCoherente,
        LlamadaCoherente,
        Existe, En, SillaDe, PcSesion
  <2>2. \A g \in Llamadas : g # h => hilo'[g] = hilo[g]
    BY <1>8 DEF Liberar, Sigue, Termina, Coherente, TypeOK
  <2>3. \A t \in Silla : t # u => ~SigueConSilla(h, t)
    BY <1>8 DEF Liberar, En, SigueConSilla
  <2>4. \A g \in Llamadas, t \in Silla : t # u /\ SigueConSilla(g, t) =>
            SigueConSilla(g, t)' /\ hilo'[g].pc = hilo[g].pc
    BY <1>8, <2>2, <2>3 DEF Liberar, filas, SigueConSilla, SillaDe
  <2>5. \A t \in Silla : VivasEn(t)' = VivasEn(t) /\ EnMarchaEn(t)' = EnMarchaEn(t)
    BY <1>8 DEF Liberar, filas, VivasEn, EnMarchaEn
  <2> QED BY <2>1, <2>4, <2>5 DEF EnUsoConDuenio, PagoPendienteConDuenio
<1>9. ASSUME FinalizarASalida(h)
      PROVE  EnUsoConDuenio' /\ PagoPendienteConDuenio'
  <2> DEFINE s == SesionDe(h)
  <2>1. CASE PuedeSalir(s)
    <3>1. /\ UNCHANGED <<silla, sillaDe>>
          /\ s \in Sesion /\ hilo'[h].ses = s
          /\ hilo[h].pc \notin {"crear_sesion", "emg_silla", "exp_silla", "liberar"}
      BY <1>9, <2>1 DEF FinalizarASalida, Sigue, Termina, Coherente,
          TypeOK, HiloCoherente, LlamadaCoherente, En, SesionDe, Llamada,
          PcSesion, filas
    <3>2. /\ \A g \in Llamadas : g # h => hilo'[g] = hilo[g]
          /\ \A r \in Sesion : r # s => estado'[r] = estado[r]
      BY <1>9, <2>1 DEF FinalizarASalida, Sigue, Termina, Coherente,
          TypeOK, SesionDe
    <3>3. \/ estado'[s] \in EnMarcha
          \/ hilo'[h].pc = "liberar"
          \/ estado[s] \notin EnMarcha /\ hilo'[h].pc = "exp_silla"
      BY <1>9, <2>1, <3>1 DEF FinalizarASalida, Sigue, Termina, Coherente,
          TypeOK, EnMarcha, Vivas, Llamada, SesionDe
    <3> QED BY <3>1, <3>2, <3>3, Entrega, SMTT(30)
  <2>2. CASE ~PuedeSalir(s)
    <3>1. Quieto(h)
      BY <1>9, <2>2 DEF FinalizarASalida, Sigue, Termina, Quieto,
          Coherente, TypeOK, En, SesionDe, filas, Libre
    <3> QED BY <3>1, QuietoConserva
  <2> QED BY <2>1, <2>2
<1>10. ASSUME EmergenciaCancela(h)
      PROVE  EnUsoConDuenio' /\ PagoPendienteConDuenio'
  <2>1. EnUsoConDuenio'
    BY <1>10 DEF EmergenciaCancela, Sigue
  <2>2. PagoPendienteConDuenio'
    BY <1>10 DEF EmergenciaCancela, Sigue
  <2> QED BY <2>1, <2>2
<1>11. ASSUME EmergenciaLibera(h)
      PROVE  EnUsoConDuenio' /\ PagoPendienteConDuenio'
  <2>1. EnUsoConDuenio'
    BY <1>11 DEF EmergenciaLibera, Termina, Libre
  <2>2. PagoPendienteConDuenio'
    BY <1>11 DEF EmergenciaLibera, Termina, Libre
  <2> QED BY <2>1, <2>2
<1>12. ASSUME NEW t \in Silla, ReservarSilla(h, t)
      PROVE  EnUsoConDuenio' /\ PagoPendienteConDuenio'
  <2>1. EnUsoConDuenio'
    BY <1>12, SMTT(30) DEF ReservarSilla, Atiende, SillaLibre, EmpiezaEnSilla
  <2>2. PagoPendienteConDuenio'
    BY <1>12 DEF ReservarSilla, Atiende, SillaLibre, EmpiezaEnSilla
  <2> QED BY <2>1, <2>2
<1> QED BY <1>1, <1>2, <1>3, <1>4, <1>5, <1>6, <1>7, <1>8, <1>9, <1>10, <1>11,
    <1>12

\* Only Reiniciar counts a restart.
LEMMA ReiniciosSoloAlReiniciar ==
    ASSUME Next, ~Reiniciar
    PROVE  reinicios' = reinicios
<1>1. CASE \E h \in Llamadas : Paso(h)
  BY <1>1 DEF Paso, control, CrearSesion, CrearManual, CrearPreferencia,
      ExpirarPago, ExpirarPagoLibera, ActivarLee, ActivarRele,
      ActivarConfirma, MarcarEsperandoEnergia, Cerrar, Liberar, EmitirVale,
      VencerEsperaLee, CerrarPorCorteLee, CerrarPorCorteApaga, FinalizarLee,
      FinalizarDetecta, FinalizarRegistraCorte, FinalizarApaga,
      FinalizarASalida, FinalizarProgramaRetorno, IniciarRetornoLee,
      IniciarRetornoRele, IniciarRetornoPrograma, CerrarSalidaLee,
      CerrarSalidaApaga, ReanudarLee, ReanudarRele, ReanudarReclama,
      ReanudarPrograma, EmergenciaBusca, EmergenciaCancela, EmergenciaLibera
<1>2. CASE Pedido \/ \E h \in Hilos, s \in Sesion : DispararTimer(h, s)
  BY <1>2 DEF Pedido, DispararTimer, control, ReservarSilla, ActivarManual,
      DetenerEmergencia, CancelarCheckout, AplicarPago
<1>3. CASE Energia \/ Arranque
  BY <1>3 DEF Energia, Arranque, Revisar, RevisarOmite, RevisarEspera,
      RevisarCierra, RevisarReanuda, RevisarRegistra, ArranqueLee,
      ArranqueRecupera, Decide
<1> QED BY <1>1, <1>2, <1>3 DEF Next

-----------------------------------------------------------------------------
\* IInv is inductive: a quiet step leaves the owners alone, the others hand the
\* chair over, and after a restart nothing is claimed.
LEMMA IInvInductiva == IInv /\ [Next]_vars => IInv'
<1> SUFFICES ASSUME IInv, [Next]_vars PROVE IInv'
  OBVIOUS
<1>1. Coherente /\ Coherente'
  BY CoherenteInductiva DEF IInv
<1>2. reinicios \in Nat
  BY <1>1, BoundsAssumption DEF Coherente, TypeOK
<1>3. SUFFICES ASSUME reinicios' = 0 PROVE EnUsoConDuenio' /\ PagoPendienteConDuenio'
  BY <1>1 DEF IInv
<1>4. CASE Reiniciar
  BY <1>2, <1>3, <1>4 DEF Reiniciar
<1>5. CASE ~Reiniciar /\ Next
  <2>1. reinicios = 0
    BY <1>1, <1>3, <1>5, ReiniciosSoloAlReiniciar
  <2>2. EnUsoConDuenio /\ PagoPendienteConDuenio
    BY <2>1 DEF IInv
  <2>3. CASE \E h \in Llamadas : Paso(h)
    <3>1. PICK h \in Llamadas : Paso(h)
      BY <2>3
    <3> QED BY <1>1, <2>2, <3>1, PasosQuietos, PasosRuidosos, QuietoConserva DEF Paso
  <2>4. CASE Pedido \/ \E h \in Hilos, s \in Sesion : DispararTimer(h, s)
    BY <1>1, <2>2, <2>4, PedidosQuietos, PasosRuidosos, QuietoConserva DEF
        Pedido, Llamadas
  <2>5. CASE Energia
    BY <1>1, <2>2, <2>5, EnergiaQuieta, QuietoConserva DEF Llamadas
  <2>6. CASE Arranque
    BY <1>1, <2>2, <2>6, ArranqueQuieto, QuietoConserva DEF Llamadas
  <2> QED BY <1>5, <2>3, <2>4, <2>5, <2>6 DEF Next
<1>6. CASE UNCHANGED vars
  BY <1>3, <1>6 DEF IInv, vars, EnUsoConDuenio, PagoPendienteConDuenio, VivasEn,
      EnMarchaEn, SigueConSilla, SillaDe
<1> QED BY <1>4, <1>5, <1>6

\* The inductive invariant holds in every behaviour (IInv).
THEOREM Invariante == Spec => []IInv
<1>1. Init => IInv
  BY CoherenteInductiva DEF Init, IInv, EnUsoConDuenio, PagoPendienteConDuenio
<1> QED BY <1>1, IInvInductiva, PTL DEF Spec

\* Until the process dies no chair is stranded (SillaConDuenio): whatever the
\* interleaving of payments, timeouts, power cuts and operators, a chair that is
\* not LIBRE has an unfinished session or a call that still has to free it.
THEOREM SillaNoAbandonada == Spec => []SillaConDuenio
<1>1. IInv => SillaConDuenio
  <2> SUFFICES ASSUME IInv, reinicios = 0, NEW t \in Silla, silla[t] # "LIBRE"
               PROVE  VivasEn(t) # {} \/ \E h \in Llamadas : SigueConSilla(h, t)
    BY DEF SillaConDuenio
  <2>1. silla[t] \in {"PAGO_PENDIENTE", "EN_USO"}
    BY DEF IInv, Coherente
  <2>2. CASE silla[t] = "PAGO_PENDIENTE"
    BY <2>2 DEF IInv, PagoPendienteConDuenio
  <2>3. CASE silla[t] = "EN_USO"
    BY <2>3 DEF IInv, EnUsoConDuenio, EnMarchaEn, VivasEn, EnMarcha
  <2> QED BY <2>1, <2>2, <2>3
<1> QED BY <1>1, Invariante, PTL
=============================================================================
