-------------------------------- MODULE Reloj --------------------------------
(***************************************************************************)
(* The arithmetic of a session: calcularReloj (reloj.util.ts), what a      *)
(* resume gives back and what a voucher is worth (sesiones.service.ts).    *)
(* Times are naturals in one unit; `minuto` is the number of units in a    *)
(* minute.                                                                 *)
(***************************************************************************)
EXTENDS Integers

Menor(a, b) == IF a < b THEN a ELSE b
Mayor(a, b) == IF a > b THEN a ELSE b

\* Mutant: the wait for the chair leaves out the exit phase.
calcularRelojSinSalida(s, ahora) ==
    LET real == Mayor(0, s.fin - ahora)
    IN  CASE s.estado = "ACTIVA" -> [segundosParaLiberar |-> real]
          [] s.estado = "SALIDA" -> [segundosParaLiberar |-> Mayor(0, s.salidaHasta - ahora)]
          [] OTHER -> [segundosParaLiberar |-> 0]

\* A session as calcularReloj takes it: finProgramado and salidaHasta.
calcularReloj(s, ahora) ==
    LET real  == Mayor(0, s.fin - ahora)
        resto == Mayor(0, s.salidaHasta - ahora)
        enPausa == resto > s.retorno
    IN  CASE s.estado = "ACTIVA" ->
               [segundosRestantes |-> Menor(real, s.duracion),
                fase |-> IF real > s.duracion THEN "GRACIA" ELSE "MASAJE",
                segundosSalida |-> 0,
                segundosParaLiberar |->
                    real + (IF s.retorno > 0 THEN s.pausa + s.retorno ELSE 0)]
          [] s.estado = "SALIDA" ->
               [segundosRestantes |-> 0,
                fase |-> IF enPausa THEN "PAUSA" ELSE "RETORNO",
                segundosSalida |-> IF enPausa THEN resto - s.retorno ELSE resto,
                segundosParaLiberar |-> resto]
          [] OTHER ->
               [segundosRestantes |-> 0, fase |-> "NINGUNA",
                segundosSalida |-> 0, segundosParaLiberar |-> 0]

\* Mutant: a resume gives back the restart, and not the time in the dark.
DevolverElReinicio(ahora, interrumpidaEn, gracia) == gracia

\* reanudarTrasCorte: the time in the dark, and a little more.
Devolver(ahora, interrumpidaEn, gracia) == Mayor(0, ahora - interrumpidaEn) + gracia

\* Mutant: a voucher for more than the turn that was paid.
MinutosDelValeSinTope(resto, duracion, minuto) == Mayor(1, (resto + minuto - 1) \div minuto)

\* cerrarPorCorte: whole minutes, at least one and at most the whole turn.
MinutosDelVale(resto, duracion, minuto) ==
    Menor(duracion \div minuto, Mayor(1, (resto + minuto - 1) \div minuto))

\* inicioDelCorte of EnergiaService, never before the start of the session.
inicioDelCorte(inicio, ultimoOnline, ultimoChequeo) ==
    Mayor(inicio, IF ultimoOnline > 0 THEN ultimoOnline ELSE ultimoChequeo)

\* detectarCorteAlCierre: never before the start nor the last command.
CorteAlCierre(desde, leidoEn, inicio, comando) ==
    Mayor(IF desde > 0 THEN desde ELSE leidoEn, Mayor(inicio, comando))

=============================================================================
