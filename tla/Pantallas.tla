------------------------------ MODULE Pantallas ------------------------------
(***************************************************************************)
(* What the public endpoints answer from the rows they read, and which     *)
(* blocks the pages put on the screen for an answer.                       *)
(*                                                                         *)
(* A snapshot of the database is a record: the customer's session (sesion, *)
(* corte, motivo), the chair (silla), the session of somebody else on it   *)
(* (otra), the customer's turn (turno), the voucher of the session (vale), *)
(* the heartbeat (offline), and the point the massage has reached on the   *)
(* clock (momento).  `fila` and `vigente` are rows that may come from a    *)
(* cache; `vivo` is what is read at the moment of the answer.              *)
(***************************************************************************)

Si(condicion, bloque) == IF condicion THEN {bloque} ELSE {}

\* calcularReloj.fase, always taken from the row and the clock of now.
fase(sesion, corte, vivo) ==
    CASE sesion = "ACTIVA" /\ ~corte -> IF vivo.momento = "gracia" THEN "GRACIA" ELSE "MASAJE"
      [] sesion = "SALIDA" -> IF vivo.momento = "pausa" THEN "PAUSA" ELSE "RETORNO"
      [] OTHER -> "NINGUNA"

ocupante(d) == IF d.sesion \in {"ACTIVA", "SALIDA"} THEN d.sesion
               ELSE IF d.otra THEN "ACTIVA" ELSE "NINGUNA"

\* SillasService.estadoPublico: the clock of the session on a chair in use.
\* seSabeCuando is segundosParaLiberar /= null.
estadoDeSilla(fila, vigente, vivo) ==
    LET enUso == fila.silla = "EN_USO" IN
    [estado |-> fila.silla,
     fase |-> IF enUso THEN fase(ocupante(vigente), FALSE, vivo) ELSE "NINGUNA",
     seSabeCuando |-> enUso /\ ocupante(vigente) # "NINGUNA" /\ ~vigente.corte,
     sinEnergia |-> vivo.offline]

\* SesionesService.estadoPublico: the clock stands still during a cut.
estadoDeSesion(fila, vivo) ==
    [estado |-> fila.sesion, fase |-> fase(fila.sesion, fila.corte, vivo),
     interrumpida |-> fila.corte, motivo |-> fila.motivo, credito |-> vivo.vale]

\* ColaService.estadoTurno.  The session is linked from EN_USO on.
estadoDeTurno(fila, vivo) ==
    LET vinculada == fila.turno \in {"EN_USO", "COMPLETADA", "CANCELADA"} IN
    [estado |-> fila.turno,
     sesionEstado |-> IF vinculada THEN fila.sesion ELSE "NINGUNA",
     interrumpida |-> vinculada /\ fila.corte,
     fase |-> IF fila.turno = "EN_USO" THEN fase(fila.sesion, fila.corte, vivo) ELSE "NINGUNA",
     sinEnergia |-> fila.turno = "EN_COLA" /\ vivo.offline,
     sillasLibres |-> fila.turno = "EN_COLA" /\ vivo.silla = "LIBRE" /\ ~vivo.offline,
     credito |-> vinculada /\ vivo.vale]

-----------------------------------------------------------------------------
\* The page /silla/[id]/exito: s is the answer of the session, c that of the
\* chair ("NINGUNA" when there is none yet), fallo is errorConfirmacion.
tituloExito(s, c, fallo) ==
    LET sin == s.estado = "NINGUNA" /\ c.estado = "EN_USO" IN
    CASE s.estado = "ESPERANDO_CONFIRMACION" -> "Pago confirmado"
      [] s.estado = "ESPERANDO_ENERGIA" -> "Pago confirmado"
      [] s.estado = "ACTIVA" /\ s.interrumpida -> "En pausa"
      [] s.credito -> "sin titulo"
      [] s.estado \in {"COMPLETADA", "SALIDA"} \/ (sin /\ c.fase \in {"PAUSA", "RETORNO"}) ->
            "Termino"
      [] s.estado = "CANCELADA" /\ s.motivo = "parada_de_emergencia" -> "Se detuvo"
      [] s.estado = "CANCELADA" -> "Se cancelo"
      [] s.estado = "ACTIVA" \/ sin -> "Pago confirmado"
      [] fallo -> "No pudimos confirmar"
      [] OTHER -> "Confirmando"

\* Mutant: the card only for a massage that was interrupted.
tarjetaValeSoloPorCorte(s) == Si(s.credito /\ s.motivo = "corte_de_energia", "vale")

\* TarjetaCredito: any voucher of the session, whatever the state.
tarjetaVale(s) == Si(s.credito, "vale")

exito(s, c, fallo, tieneId) ==
    LET ninguna == s.estado = "NINGUNA"
        activaSinSesion == ninguna /\ c.estado = "EN_USO"
        salidaSinSesion == activaSinSesion /\ c.fase \in {"PAUSA", "RETORNO"}
        enCurso == s.estado = "ACTIVA" /\ ~s.interrumpida
        cancelada == s.estado = "CANCELADA" /\ ~s.credito
        enTurno == \/ activaSinSesion
                   \/ s.estado \in {"ESPERANDO_CONFIRMACION", "ACTIVA", "ESPERANDO_ENERGIA", "SALIDA"}
        cargandoSesion == tieneId /\ ninguna /\ ~fallo
    IN  [titulo |-> tituloExito(s, c, fallo),
         bloques |->
            UNION {Si(s.estado = "ESPERANDO_CONFIRMACION", "confirmar"),
                   Si(s.estado = "SALIDA" \/ salidaSinSesion, "avisoFase"),
                   Si(enCurso \/ (activaSinSesion /\ ~salidaSinSesion), "enCurso"),
                   Si(s.estado = "ACTIVA" /\ s.interrumpida, "avisoCorte"),
                   Si(s.estado = "ESPERANDO_ENERGIA", "sinLuz"),
                   tarjetaVale(s),
                   Si(s.estado = "COMPLETADA", "gracias"),
                   Si(cancelada /\ s.motivo = "parada_de_emergencia", "detenida"),
                   Si(cancelada /\ s.motivo # "parada_de_emergencia", "cancelada"),
                   Si(ninguna /\ ~activaSinSesion, IF fallo THEN "error" ELSE "verificando"),
                   Si(~enTurno /\ ~cargandoSesion, "volver")}]

\* The page /cola/[turnoId].
paginaTurno(t) ==
    LET enUso == t.estado = "EN_USO"
        seBaja == t.fase \in {"PAUSA", "RETORNO"}
    IN  UNION {Si(t.estado = "ESPERANDO_PAGO", "confirmandoPago"),
               Si(t.estado = "EN_COLA" /\ t.sinEnergia, "localSinLuz"),
               Si(t.estado = "EN_COLA" /\ ~t.sinEnergia,
                  IF t.sillasLibres THEN "asignando" ELSE "esperando"),
               Si(t.estado = "ASIGNADO", "confirmar"),
               Si(enUso /\ t.interrumpida, "avisoCorte"),
               Si(enUso /\ t.sesionEstado = "ESPERANDO_ENERGIA", "sinLuz"),
               Si(enUso /\ ~t.interrumpida /\ seBaja, "avisoFase"),
               Si(/\ enUso /\ ~t.interrumpida /\ ~seBaja
                  /\ t.sesionEstado # "ESPERANDO_ENERGIA", "enCurso"),
               Si(t.estado = "COMPLETADA", "gracias"),
               Si(t.estado = "CANCELADA", IF t.credito THEN "vale" ELSE "cancelada"),
               Si(t.estado \in {"COMPLETADA", "CANCELADA"}, "volver")}

\* The landing of a chair: what is offered and what is told of its wait.
landing(e) ==
    LET sinEnergia == e.sinEnergia /\ e.estado # "FUERA_DE_SERVICIO"
        ocupada == e.estado \notin {"NINGUNA", "LIBRE", "FUERA_DE_SERVICIO"}
    IN  UNION {Si(e.estado = "NINGUNA", "cargando"),
               Si(e.estado # "NINGUNA" /\ sinEnergia, "sinConexion"),
               Si(e.estado = "LIBRE" /\ ~sinEnergia, "pagar"),
               Si(e.estado = "EN_USO" /\ ~sinEnergia,
                  IF e.seSabeCuando THEN "seLibera" ELSE "sinReloj"),
               Si(e.estado \in {"PAGO_PENDIENTE", "RESERVADA"} /\ ~sinEnergia, "reservado"),
               Si(ocupada \/ (e.estado # "NINGUNA" /\ sinEnergia), "cola"),
               Si(e.estado = "FUERA_DE_SERVICIO", "mantenimiento")}

\* The half of a chair on the TV screen.
detalle(e) ==
    CASE e.estado = "NINGUNA" -> {"conectando"}
      [] e.estado = "FUERA_DE_SERVICIO" -> {"mantenimiento"}
      [] e.sinEnergia -> {"sinConexion"}
      [] e.estado = "LIBRE" -> {"escanea"}
      [] e.estado \in {"PAGO_PENDIENTE", "RESERVADA"} -> {"reservado"}
      [] e.fase = "PAUSA" -> {"termino"}
      [] e.fase = "RETORNO" -> {"start dos veces"}
      [] e.fase = "GRACIA" -> {"start y ok"}
      [] OTHER -> {"reloj"}
=============================================================================
