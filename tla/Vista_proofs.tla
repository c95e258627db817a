----------------------------- MODULE Vista_proofs -----------------------------
(***************************************************************************)
(* Theorems about Vista, for every lifetime of the caches (Ttl), every     *)
(* polling interval and every bound on handlers, reads, cycles and         *)
(* failures.                                                               *)
(*                                                                         *)
(* TipoCorrecto  the caches, the reads and the cycles hold what they are   *)
(*               meant to.                                                 *)
(* NadaViejo     no answer is older than what its request could count on:  *)
(*               the state of Ttl ticks before, and what the handlers that *)
(*               had ended wrote.                                          *)
(*                                                                         *)
(* RespuestaVigente speaks of answers that have left; nothing it says is   *)
(* kept by a step alone.  IInv carries it back along the answer's way: a   *)
(* request that waits (Sondeos) waits for a read that is still to be done  *)
(* or that has seen enough; it got it from a cache (Entradas) that holds   *)
(* such a read only, and that is because every handler clears, in a later  *)
(* step, each cache it has written behind (Escritor).  A read counts as    *)
(* many ticks as its entry has lived, which is where the ghost `hace` is   *)
(* needed in order (Historia).                                             *)
(***************************************************************************)
EXTENDS Vista, SequenceTheorems, TLAPS

\* A sequence, whatever its elements.
EsSecuencia(s) == Len(s) \in Nat /\ s = [k \in 1..Len(s) |-> s[k]]

\* Every cache a step of a handler must renew is cleared by a later step of it.
Limpia(pasos, c, k) == \E j \in 1..Len(pasos) : j > k /\ c \in pasos[j].limpia
Programa(servicio, pasos) ==
    /\ EsSecuencia(pasos) /\ Len(pasos) <= 8
    /\ \A k \in 1..Len(pasos) : \A c \in Toca(servicio, pasos[k].campos) : Limpia(pasos, c, k)

\* The database only grows, and what the handlers know of it is its past.
Historia ==
    /\ EsSecuencia(historia) /\ ahora >= 1
    /\ confirmado \in [Caches -> 1..ahora]
    /\ hace \in [1..Ttl -> 1..ahora]
    /\ \A i, j \in 1..Ttl : i <= j => hace[i] <= hace[j]
Escritor ==
    /\ escritor = [pasos |-> escritor.pasos, servicio |-> escritor.servicio,
                   hasta |-> escritor.hasta, van |-> escritor.van]
    /\ escritor.van \in 0..MaxManejos
    /\ escritor.hasta \in [Caches -> 0..ahora]
    /\ Programa(escritor.servicio, escritor.pasos)

\* A cache holds a read that is still to be done, or one that has seen every handler
\* that has ended, the writes of the one that runs that it will not clear any more,
\* and the ticks since it began.
AlDia(c, e) ==
    \/ cargas[e.carga] = 0
    \/ /\ cargas[e.carga] >= hace[e.resta]
       /\ cargas[e.carga] >= confirmado[c]
       /\ cargas[e.carga] >= escritor.hasta[c] \/ Limpia(escritor.pasos, c, 0)
Entradas ==
    /\ entrada \in [Caches -> [carga : 0..MaxCargas, resta : 0..Ttl]]
    /\ \A c \in Caches : entrada[c].carga # 0 => entrada[c].resta >= 1 /\ AlDia(c, entrada[c])
Cargas ==
    /\ cargas \in [1..MaxCargas -> 0..ahora]
    /\ \A l \in 1..MaxCargas : cargas[l] # 0 => EnUso(l, entrada, sondeos)

\* A request that waits will be answered from a read that is still to be done, or
\* from one that has seen what it counts on.
Fases == {"no", "pregunta", "espera", "vuelve", "duerme"}
Sondeado == [fase : Fases, etapa : 1..2, carga : 0..MaxCargas, leido : Seq(Nat),
             piso : Seq(Nat), vivo : Nat, error : BOOLEAN, espera : Nat]
SondeoBien(s) ==
    /\ s.etapa = 2 => hook = "silla"
    /\ s.fase = "espera" <=> s.carga # 0
    /\ \A k \in 1..Len(s.leido) : k <= Len(s.piso) /\ s.piso[k] <= s.leido[k]
    /\ \A k \in 1..Len(s.piso) : s.piso[k] <= ahora
    /\ s.fase \in {"no", "pregunta", "duerme"} => Len(s.piso) = Len(s.leido)
    /\ s.fase = "espera" =>
          /\ Len(s.piso) = Len(s.leido) + 1
          /\ cargas[s.carga] = 0 \/ cargas[s.carga] >= s.piso[Len(s.piso)]
Sondeos ==
    /\ sondeos \in [1..MaxSondeos -> Sondeado]
    /\ \A i \in 1..MaxSondeos : SondeoBien(sondeos[i])
    /\ timeoutRef \in 0..MaxSondeos /\ eventos \in 0..MaxEventos
    /\ timeoutRef # 0 => sondeos[timeoutRef].fase = "duerme"

\* A tab is of one kind.
Pestana == "tipo" \in DOMAIN pestana

IInv == Historia /\ Escritor /\ Entradas /\ Cargas /\ Sondeos

-----------------------------------------------------------------------------
(***************************************************************************)
(* Sequences.                                                              *)
(***************************************************************************)
\* What the operators on sequences do to one whose elements have no type.
LEMMA SecuenciaDe ==
    ASSUME NEW s, EsSecuencia(s)
    PROVE  \A S : (\A k \in 1..Len(s) : s[k] \in S) => s \in Seq(S)
BY DEF EsSecuencia

\* A member of Seq(S) is its own list of elements.
LEMMA DeSecuencia ==
    ASSUME NEW S, NEW s \in Seq(S)
    PROVE  EsSecuencia(s)
BY DEF EsSecuencia

\* Append keeps what there is and adds one element at the end.
LEMMA Agrega ==
    ASSUME NEW s, EsSecuencia(s), NEW e
    PROVE  /\ EsSecuencia(Append(s, e)) /\ Len(Append(s, e)) = Len(s) + 1
           /\ \A k \in 1..Len(s) : Append(s, e)[k] = s[k]
           /\ Append(s, e)[Len(s) + 1] = e
<1>1. PICK S : S = {s[k] : k \in 1..Len(s)} \cup {e}
  OBVIOUS
<1>2. s \in Seq(S) /\ e \in S
  BY <1>1, SecuenciaDe
<1>3. /\ Append(s, e) \in Seq(S) /\ Len(Append(s, e)) = Len(s) + 1
      /\ \A k \in 1..Len(s) : Append(s, e)[k] = s[k]
      /\ Append(s, e)[Len(s) + 1] = e
  BY <1>2, AppendProperties
<1>4. EsSecuencia(Append(s, e))
  BY <1>3, DeSecuencia
<1> QED BY <1>3, <1>4

\* Head and Tail take a sequence apart.
LEMMA Quita ==
    ASSUME NEW s, EsSecuencia(s), s # <<>>
    PROVE  /\ EsSecuencia(Tail(s)) /\ Len(Tail(s)) = Len(s) - 1
           /\ \A k \in 1..Len(Tail(s)) : Tail(s)[k] = s[k + 1]
           /\ Head(s) = s[1] /\ Len(s) >= 1
<1>1. PICK S : S = {s[k] : k \in 1..Len(s)}
  OBVIOUS
<1>2. s \in Seq(S)
  BY <1>1, SecuenciaDe
<1>3. /\ Tail(s) \in Seq(S) /\ Len(Tail(s)) = Len(s) - 1
      /\ \A k \in 1..Len(Tail(s)) : Tail(s)[k] = s[k + 1]
      /\ Head(s) = s[1] /\ Len(s) >= 1
  BY <1>2
<1>4. EsSecuencia(Tail(s))
  BY <1>3, DeSecuencia
<1> QED BY <1>3, <1>4

\* Concatenation keeps both parts, the second one shifted.
LEMMA Junta ==
    ASSUME NEW s, EsSecuencia(s), NEW r, EsSecuencia(r)
    PROVE  /\ EsSecuencia(s \o r) /\ Len(s \o r) = Len(s) + Len(r)
           /\ \A k \in 1..Len(s) : (s \o r)[k] = s[k]
           /\ \A k \in 1..Len(r) : (s \o r)[Len(s) + k] = r[k]
<1>1. PICK S : S = {s[k] : k \in 1..Len(s)} \cup {r[k] : k \in 1..Len(r)}
  OBVIOUS
<1>2. s \in Seq(S) /\ r \in Seq(S)
  BY <1>1, SecuenciaDe
<1>3. /\ s \o r \in Seq(S) /\ Len(s \o r) = Len(s) + Len(r)
      /\ \A k \in 1..(Len(s) + Len(r)) :
            (s \o r)[k] = IF k <= Len(s) THEN s[k] ELSE r[k - Len(s)]
  BY <1>2, ConcatProperties
<1>4. EsSecuencia(s \o r)
  BY <1>3, DeSecuencia
<1> QED BY <1>2, <1>3, <1>4

-----------------------------------------------------------------------------
(***************************************************************************)
(* The handlers clear after them what they write.                          *)
(***************************************************************************)
\* A handler followed by another clears what both write.
LEMMA JuntaProgramas ==
    ASSUME NEW sv, NEW s, Programa(sv, s), NEW r, Programa(sv, r), Len(s) + Len(r) <= 8
    PROVE  Programa(sv, s \o r)
<1> USE DEF Programa, Limpia
<1>1. /\ EsSecuencia(s \o r) /\ Len(s \o r) = Len(s) + Len(r)
      /\ \A k \in 1..Len(s) : (s \o r)[k] = s[k]
      /\ \A k \in 1..Len(r) : (s \o r)[Len(s) + k] = r[k]
      /\ Len(s) \in Nat /\ Len(r) \in Nat
  BY Junta DEF EsSecuencia
<1>2. ASSUME NEW k \in 1..Len(s \o r), NEW c \in Toca(sv, (s \o r)[k].campos)
      PROVE  Limpia(s \o r, c, k)
  <2>1. CASE k <= Len(s)
    <3>1. PICK j \in 1..Len(s) : j > k /\ c \in s[j].limpia
      <4>1. k \in 1..Len(s) /\ (s \o r)[k] = s[k]
        BY ONLY <1>1, <1>2, <2>1
      <4> QED BY <1>2, <4>1
    <3> QED BY ONLY <1>1, <3>1, <1>2, <2>1 DEF Limpia
  <2>2. CASE k > Len(s)
    <3>1. PICK i \in 1..Len(r) : k = Len(s) + i
      BY <1>1, <2>2
    <3>2. PICK j \in 1..Len(r) : j > i /\ c \in r[j].limpia
      BY <1>1, <1>2, <3>1
    <3>3. Len(s) + j \in 1..Len(s \o r) /\ Len(s) + j > k
      BY ONLY <1>1, <3>1, <3>2
    <3> QED BY ONLY <1>1, <3>2, <3>3 DEF Limpia
  <2> QED BY <1>1, <2>1, <2>2
<1> QED BY <1>1, <1>2

\* activarSesion clears the session and both caches of the chair after it writes them.
LEMMA ActivarSesionCierra ==
    ASSUME NEW sv
    PROVE  Programa(sv, activarSesion) /\ Len(activarSesion) = 3
BY DEF Programa, Limpia, EsSecuencia, activarSesion, Escribe, InvalidaSesion, InvalidaSilla,
       Toca, Si

\* marcarEsperandoEnergia clears the session after it writes it.
LEMMA MarcarCierra ==
    ASSUME NEW sv
    PROVE  Programa(sv, marcarEsperandoEnergia) /\ Len(marcarEsperandoEnergia) = 2
BY DEF Programa, Limpia, EsSecuencia, marcarEsperandoEnergia, Escribe, InvalidaSesion, Toca, Si

\* cerrarYLiberar clears the session and the chair, each after its write; the turn is
\* left to the Ttl.
LEMMA CerrarYLiberarCierra ==
    ASSUME NEW estado, NEW motivo, NEW estadoTurno
    PROVE  /\ Programa("sesiones", cerrarYLiberar(estado, motivo, estadoTurno))
           /\ Len(cerrarYLiberar(estado, motivo, estadoTurno)) = 4
BY DEF Programa, Limpia, EsSecuencia, cerrarYLiberar, Escribe, InvalidaSesion, InvalidaSilla,
       Toca, Si

\* A voucher is not cached.
LEMMA EmitirValeCierra == Programa("sesiones", emitirVale) /\ Len(emitirVale) = 1
BY DEF Programa, Limpia, EsSecuencia, emitirVale, Escribe, Toca, Si

\* A closure that owes a voucher, and what an emergency stop does to the turn.
LEMMA CierreConValeCierra ==
    ASSUME NEW estado, NEW motivo, NEW estadoTurno
    PROVE  Programa("sesiones", cerrarYLiberar(estado, motivo, estadoTurno) \o emitirVale)
<1>1. PICK s : s = cerrarYLiberar(estado, motivo, estadoTurno)
  OBVIOUS
<1>2. PICK r : r = emitirVale
  OBVIOUS
<1>3. Len(s) = 4 /\ Len(r) = 1
  BY ONLY <1>1, <1>2, CerrarYLiberarCierra, EmitirValeCierra, Zenon
<1>4. Len(s) + Len(r) <= 8
  BY ONLY <1>3
<1> QED BY ONLY <1>1, <1>2, <1>4, CerrarYLiberarCierra, EmitirValeCierra, JuntaProgramas, Zenon

\* A handler runs, and its steps clear what they write.
Maneja == \E sv \in {"sesiones", "cola"} : \E ps : Corre(sv, ps) /\ Programa(sv, ps)

\* The handlers of payments and of the queue clear after them what they write.
LEMMA LosDePagoYCola ==
    ASSUME PagoYCola
    PROVE  Maneja
<1> USE DEF Programa, Limpia, EsSecuencia, Escribe, InvalidaSesion, InvalidaSilla,
        InvalidaTurno, Toca, Si
<1>1. ASSUME PagoAprobado PROVE Maneja
  BY ONLY <1>1, ActivarSesionCierra, MarcarCierra DEF PagoAprobado, Maneja
<1>2. ASSUME ExpirarPagoPendiente PROVE Maneja
  <2>1. PICK ps : ps = <<Escribe([sesion |-> "CANCELADA", motivo |-> "pago_no_recibido"]),
                        InvalidaSesion, Escribe([silla |-> "LIBRE"]), InvalidaSilla>>
    OBVIOUS
  <2>2. Corre("sesiones", ps)
    BY ONLY <1>2, <2>1 DEF ExpirarPagoPendiente
  <2>3. Programa("sesiones", ps)
    BY <2>1
  <2> QED BY ONLY <2>2, <2>3 DEF Maneja
<1>3. ASSUME ProcesarPagoAprobado PROVE Maneja
  <2>1. PICK ps : ps = <<Escribe([turno |-> "EN_COLA"]), InvalidaTurno>>
    OBVIOUS
  <2>2. Corre("cola", ps)
    BY ONLY <1>3, <2>1 DEF ProcesarPagoAprobado
  <2>3. Programa("cola", ps)
    BY <2>1
  <2> QED BY ONLY <2>2, <2>3 DEF Maneja
<1>4. ASSUME IntentarAsignar PROVE Maneja
  <2>1. PICK ps : ps = <<Escribe([silla |-> "RESERVADA"]), InvalidaSilla,
                        Escribe([turno |-> "ASIGNADO"]), InvalidaTurno>>
    OBVIOUS
  <2>2. Corre("cola", ps)
    BY ONLY <1>4, <2>1 DEF IntentarAsignar
  <2>3. Programa("cola", ps)
    BY <2>1
  <2> QED BY ONLY <2>2, <2>3 DEF Maneja
<1>5. ASSUME ExpirarVentana PROVE Maneja
  <2>1. PICK ps : ps = <<Escribe([turno |-> "CANCELADA"]), InvalidaTurno,
                        Escribe([silla |-> "LIBRE"]), InvalidaSilla>>
    OBVIOUS
  <2>2. Corre("cola", ps)
    BY ONLY <1>5, <2>1 DEF ExpirarVentana
  <2>3. Programa("cola", ps)
    BY <2>1
  <2> QED BY ONLY <2>2, <2>3 DEF Maneja
<1>6. ASSUME ExpirarEsperaPago PROVE Maneja
  <2>1. PICK ps : ps = <<Escribe([turno |-> "CANCELADA"]), InvalidaTurno>>
    OBVIOUS
  <2>2. Corre("cola", ps)
    BY ONLY <1>6, <2>1 DEF ExpirarEsperaPago
  <2>3. Programa("cola", ps)
    BY <2>1
  <2> QED BY ONLY <2>2, <2>3 DEF Maneja
<1>7. ASSUME OtroCliente PROVE Maneja
  <2>1. PICK ps : ps = <<Escribe([otra |-> TRUE, silla |-> "EN_USO", momento |-> "gracia"]),
                        InvalidaSilla>>
    OBVIOUS
  <2>2. Corre("sesiones", ps)
    BY ONLY <1>7, <2>1 DEF OtroCliente
  <2>3. Programa("sesiones", ps)
    BY <2>1
  <2> QED BY ONLY <2>2, <2>3 DEF Maneja
<1> QED BY ONLY PagoYCola, <1>1, <1>2, <1>3, <1>4, <1>5, <1>6, <1>7 DEF PagoYCola

\* So do the handlers of a massage, cut or not.
LEMMA LosDelMasaje ==
    ASSUME Masaje
    PROVE  Maneja
<1> USE DEF Programa, Limpia, EsSecuencia, Escribe, InvalidaSesion, InvalidaSilla,
        Toca, Si
<1>1. ASSUME Activar PROVE Maneja
  BY ONLY <1>1, ActivarSesionCierra DEF Activar, Maneja
<1>2. ASSUME VencerEsperaEnergia PROVE Maneja
  BY ONLY <1>2, CierreConValeCierra DEF VencerEsperaEnergia, Maneja
<1>3. ASSUME RegistrarCorte PROVE Maneja
  <2>1. PICK ps : ps = <<Escribe([corte |-> TRUE]), InvalidaSesion>>
    OBVIOUS
  <2>2. Corre("sesiones", ps)
    BY ONLY <1>3, <2>1 DEF RegistrarCorte
  <2>3. Programa("sesiones", ps)
    BY <2>1
  <2> QED BY ONLY <2>2, <2>3 DEF Maneja
<1>4. ASSUME ReanudarTrasCorte PROVE Maneja
  <2>1. PICK ps : ps = <<Escribe([corte |-> FALSE, sesion |-> "ACTIVA"]), InvalidaSesion,
                        Escribe([silla |-> "EN_USO"]), InvalidaSilla>>
    OBVIOUS
  <2>2. Corre("sesiones", ps)
    BY ONLY <1>4, <2>1 DEF ReanudarTrasCorte
  <2>3. Programa("sesiones", ps)
    BY <2>1
  <2> QED BY ONLY <2>2, <2>3 DEF Maneja
<1>5. ASSUME CerrarPorCorte PROVE Maneja
  BY ONLY <1>5, CerrarYLiberarCierra, CierreConValeCierra DEF CerrarPorCorte, Maneja
<1>6. ASSUME FinalizarSesion PROVE Maneja
  <2>1. PICK ps : ps = <<Escribe([sesion |-> "SALIDA", momento |-> "pausa"]),
                         InvalidaSesion, Escribe([silla |-> "EN_USO"]), InvalidaSilla>>
    OBVIOUS
  <2>2. \/ Corre("sesiones", ps)
        \/ Corre("sesiones", cerrarYLiberar("COMPLETADA", "tiempo_cumplido", "COMPLETADA"))
    BY ONLY <1>6, <2>1 DEF FinalizarSesion
  <2>3. Programa("sesiones", ps)
    BY <2>1
  <2> QED BY ONLY <2>2, <2>3, CerrarYLiberarCierra DEF Maneja
<1>7. ASSUME IniciarRetorno PROVE Maneja
  <2>1. PICK ps : ps = <<Escribe([sesion |-> "SALIDA", momento |-> "retorno"]),
                        InvalidaSesion, Escribe([silla |-> "EN_USO"]), InvalidaSilla>>
    OBVIOUS
  <2>2. Corre("sesiones", ps)
    BY ONLY <1>7, <2>1 DEF IniciarRetorno
  <2>3. Programa("sesiones", ps)
    BY <2>1
  <2> QED BY ONLY <2>2, <2>3 DEF Maneja
<1>8. ASSUME CerrarSalida PROVE Maneja
  BY ONLY <1>8, CerrarYLiberarCierra DEF CerrarSalida, Maneja
<1>9. ASSUME DetenerEmergencia PROVE Maneja
  <2>1. PICK s : s = <<Escribe([sesion |-> "CANCELADA", motivo |-> "parada_de_emergencia",
                                corte |-> FALSE]), InvalidaSesion>>
    OBVIOUS
  <2>2. PICK r : r = IF db.turno = "EN_USO" THEN <<Escribe([turno |-> "CANCELADA"])>> ELSE <<>>
    OBVIOUS
  <2>3. PICK f : f = <<Escribe([silla |-> "LIBRE"]), InvalidaSilla>>
    OBVIOUS
  <2>4. Programa("sesiones", s) /\ Len(s) = 2
    BY <2>1
  <2>5. Programa("sesiones", r) /\ Len(r) \in {0, 1}
    BY <2>2
  <2>6. Programa("sesiones", f) /\ Len(f) = 2
    BY <2>3
  <2>7. Len(s) + Len(r) <= 8 /\ EsSecuencia(s) /\ EsSecuencia(r)
    BY ONLY <2>4, <2>5 DEF Programa
  <2>8. PICK q : q = s \o r
    OBVIOUS
  <2>9. Programa("sesiones", q)
    <3>1. Programa("sesiones", s \o r)
      BY ONLY <2>4, <2>5, <2>7, JuntaProgramas, Zenon
    <3> QED BY ONLY <2>8, <3>1, Zenon
  <2>10. Len(q) = Len(s) + Len(r)
    BY ONLY <2>7, <2>8, Junta, Zenon
  <2>11. Len(q) + Len(f) <= 8
    <3>1. Len(q) \in Nat /\ Len(f) \in Nat /\ Len(s) \in Nat /\ Len(r) \in Nat
      BY ONLY <2>4, <2>5, <2>6, <2>9 DEF Programa, EsSecuencia
    <3>2. Len(s) = 2 /\ Len(f) = 2 /\ Len(r) <= 1
      BY ONLY <2>4, <2>5, <2>6, <3>1
    <3> QED BY ONLY <2>10, <3>1, <3>2
  <2>12. Programa("sesiones", q \o f)
    BY ONLY <2>6, <2>9, <2>11, JuntaProgramas, Zenon
  <2> QED BY ONLY <1>9, <2>1, <2>2, <2>3, <2>8, <2>12 DEF DetenerEmergencia, Maneja
<1> QED BY ONLY Masaje, <1>1, <1>2, <1>3, <1>4, <1>5, <1>6, <1>7, <1>8, <1>9
        DEF Masaje

\* So does confirmar, whichever way the session of the turn begins.
LEMMA ElDeLaPagina ==
    ASSUME ConfirmarTurno
    PROVE  Maneja
<1>1. PICK a \in {activarSesion, marcarEsperandoEnergia} :
          Corre("cola", <<Escribe([sesion |-> "PENDIENTE"])>> \o a
                        \o <<Escribe([turno |-> "EN_USO"]), InvalidaTurno>>)
  BY DEF ConfirmarTurno
<1>2. PICK f : f = <<Escribe([turno |-> "EN_USO"]), InvalidaTurno>>
  OBVIOUS
<1>3. Programa("cola", f) /\ Len(f) = 2
  BY <1>2 DEF Programa, Limpia, EsSecuencia, Escribe, InvalidaTurno, Toca, Si
<1>4. PICK s : s = <<Escribe([sesion |-> "PENDIENTE"])>> \o a
  OBVIOUS
<1>5. Programa("cola", s) /\ Len(s) <= 4
  <2>1. CASE a = activarSesion
    <3>1. s = <<Escribe([sesion |-> "PENDIENTE"])>> \o
              <<Escribe([sesion |-> "ACTIVA", corte |-> FALSE, silla |-> "EN_USO",
                         momento |-> "gracia"]), InvalidaSesion, InvalidaSilla>>
      BY <1>4, <2>1 DEF activarSesion
    <3>2. /\ EsSecuencia(s) /\ Len(s) = 4
          /\ s[1] = Escribe([sesion |-> "PENDIENTE"])
          /\ s[2] = Escribe([sesion |-> "ACTIVA", corte |-> FALSE, silla |-> "EN_USO",
                             momento |-> "gracia"])
          /\ s[3] = InvalidaSesion /\ s[4] = InvalidaSilla
      BY <3>1 DEF EsSecuencia
    <3> QED BY ONLY <3>2 DEF Programa, Limpia, Escribe, InvalidaSesion, InvalidaSilla, Toca, Si
  <2>2. CASE a = marcarEsperandoEnergia
    <3>1. s = <<Escribe([sesion |-> "PENDIENTE"])>> \o
              <<Escribe([sesion |-> "ESPERANDO_ENERGIA"]), InvalidaSesion>>
      BY <1>4, <2>2 DEF marcarEsperandoEnergia
    <3>2. /\ EsSecuencia(s) /\ Len(s) = 3
          /\ s[1] = Escribe([sesion |-> "PENDIENTE"])
          /\ s[2] = Escribe([sesion |-> "ESPERANDO_ENERGIA"])
          /\ s[3] = InvalidaSesion
      BY <3>1 DEF EsSecuencia
    <3> QED BY ONLY <3>2 DEF Programa, Limpia, Escribe, InvalidaSesion, Toca, Si
  <2> QED BY <2>1, <2>2
<1>6. Len(s) + Len(f) <= 8
  BY ONLY <1>3, <1>5 DEF Programa, EsSecuencia
<1>7. Programa("cola", s \o f)
  BY ONLY <1>3, <1>5, <1>6, JuntaProgramas, Zenon
<1>8. Corre("cola", s \o f)
  BY ONLY <1>1, <1>2, <1>4, Zenon
<1> QED BY ONLY <1>7, <1>8 DEF Maneja

\* A handler that begins changes nothing yet.
LEMMA ManejaConserva ==
    ASSUME IInv, Maneja
    PROVE  IInv'
<1>0. PICK sv \in {"sesiones", "cola"} : \E ps : Corre(sv, ps) /\ Programa(sv, ps)
  BY DEF Maneja
<1>1. PICK ps : Corre(sv, ps) /\ Programa(sv, ps)
  BY <1>0
<1>2. /\ escritor' = [pasos |-> ps, servicio |-> sv, hasta |-> [c \in Caches |-> 0],
                      van |-> escritor.van + 1]
      /\ escritor.van < MaxManejos
      /\ UNCHANGED <<historia, confirmado, memoria, hace, tab, eventos>>
  BY <1>1 DEF Corre, SinEscritor, IInv, Escritor
<1>3. Historia' /\ Cargas' /\ Sondeos'
  BY <1>2 DEF IInv, Historia, Cargas, Sondeos, SondeoBien, EnUso, ahora, hook, memoria, tab
<1>4. Escritor'
  BY <1>1, <1>2, CotasAssumption DEF IInv, Historia, Escritor, EsSecuencia, ahora
<1>5. Entradas'
  BY <1>2 DEF IInv, Historia, Entradas, AlDia, Cargas, memoria
<1> QED BY <1>3, <1>4, <1>5 DEF IInv

-----------------------------------------------------------------------------
(***************************************************************************)
(* Each step keeps what the caches and the requests count on.              *)
(***************************************************************************)
\* The reads are forgotten with their last holder, and not before.
LEMMA QuedanEnUso ==
    ASSUME Cargas, cargas' = Quedan(cargas, entrada', sondeos'), ahora' \in Nat, ahora <= ahora',
           ahora \in Nat
    PROVE  /\ Cargas'
           /\ \A l \in 1..MaxCargas : EnUso(l, entrada', sondeos') => cargas'[l] = cargas[l]
BY CotasAssumption DEF Cargas, Quedan

\* Requests in flight stand what happens to the reads of others, and theirs being done.
LEMMA SondeosQuietos ==
    ASSUME Sondeos, UNCHANGED tab, eventos' \in 0..MaxEventos, ahora' \in Nat, ahora <= ahora',
           ahora \in Nat, cargas' \in [1..MaxCargas -> Nat],
           \A i \in 1..MaxSondeos : sondeos[i].carga # 0 =>
               \/ cargas'[sondeos[i].carga] = cargas[sondeos[i].carga]
               \/ cargas'[sondeos[i].carga] >= ahora
    PROVE  Sondeos'
<1>1. UNCHANGED <<sondeos, timeoutRef, hook>>
  BY DEF tab, hook
<1>2. ASSUME NEW i \in 1..MaxSondeos PROVE SondeoBien(sondeos[i])'
  <2>1. PICK s \in Sondeado : s = sondeos[i] /\ SondeoBien(s)
    BY DEF Sondeos
  <2>2. /\ s.carga \in 0..MaxCargas
        /\ s.carga # 0 => cargas'[s.carga] = cargas[s.carga] \/ cargas'[s.carga] >= ahora
    BY <2>1 DEF Sondeado
  <2>3. s.piso \in Seq(Nat) /\ Len(s.piso) \in Nat /\ \A k \in 1..Len(s.piso) : s.piso[k] \in Nat
    BY <2>1 DEF Sondeado
  <2>4. s.leido \in Seq(Nat) /\ Len(s.leido) \in Nat
    BY <2>1 DEF Sondeado
  <2>5. s.fase = "espera" =>
           /\ Len(s.piso) = Len(s.leido) + 1
           /\ cargas'[s.carga] = 0 \/ cargas'[s.carga] >= s.piso[Len(s.piso)]
    <3> SUFFICES ASSUME s.fase = "espera"
                 PROVE  /\ Len(s.piso) = Len(s.leido) + 1
                        /\ cargas'[s.carga] = 0 \/ cargas'[s.carga] >= s.piso[Len(s.piso)]
      OBVIOUS
    <3>1. /\ Len(s.piso) = Len(s.leido) + 1
          /\ cargas[s.carga] = 0 \/ cargas[s.carga] >= s.piso[Len(s.piso)]
          /\ s.carga # 0
      BY <2>1 DEF SondeoBien
    <3>2. Len(s.piso) \in 1..Len(s.piso)
      BY <3>1, <2>3, <2>4
    <3>3. PICK n \in Nat : n = s.piso[Len(s.piso)] /\ n <= ahora
      BY <2>1, <2>3, <3>2 DEF SondeoBien
    <3>4. cargas'[s.carga] \in Nat
      BY <2>2, <3>1, CotasAssumption
    <3> QED BY <2>2, <3>1, <3>3, <3>4
  <2>6. \A k \in 1..Len(s.piso) : s.piso[k] <= ahora'
    BY <2>1, <2>3 DEF SondeoBien
  <2>7. SondeoBien(s)'
    BY <1>1, <2>1, <2>5, <2>6 DEF SondeoBien
  <2> QED BY <1>1, <2>1, <2>7
<1> QED BY <1>1, <1>2 DEF Sondeos

\* The handler writes, or clears.
LEMMA PasoConserva ==
    ASSUME IInv, Paso
    PROVE  IInv'
<1> USE DEF IInv
<1>1. PICK p : p = Head(escritor.pasos)
  OBVIOUS
<1>2. PICK pasos : pasos = escritor.pasos
  OBVIOUS
<1>3. /\ EsSecuencia(pasos) /\ pasos # <<>> /\ p = pasos[1] /\ Len(pasos) \in 1..8
      /\ \A k \in 1..Len(pasos) : \A c \in Toca(escritor.servicio, pasos[k].campos) :
            Limpia(pasos, c, k)
      /\ EsSecuencia(Tail(pasos)) /\ Len(Tail(pasos)) = Len(pasos) - 1
      /\ \A k \in 1..Len(Tail(pasos)) : Tail(pasos)[k] = pasos[k + 1]
  <2>1. EsSecuencia(pasos) /\ pasos # <<>> /\ Len(pasos) <= 8
    BY <1>2 DEF Paso, Escritor, Programa
  <2>2. /\ EsSecuencia(Tail(pasos)) /\ Len(Tail(pasos)) = Len(pasos) - 1
        /\ \A k \in 1..Len(Tail(pasos)) : Tail(pasos)[k] = pasos[k + 1]
        /\ Head(pasos) = pasos[1] /\ Len(pasos) >= 1
    BY ONLY <2>1, Quita, Zenon
  <2>3. \A k \in 1..Len(pasos) : \A c \in Toca(escritor.servicio, pasos[k].campos) :
            Limpia(pasos, c, k)
    BY <1>2 DEF Escritor, Programa
  <2>4. Len(pasos) \in 1..8 /\ p = pasos[1]
    <3>1. Len(pasos) \in Nat
      BY ONLY <2>1 DEF EsSecuencia
    <3>2. Len(pasos) >= 1 /\ Len(pasos) <= 8
      BY ONLY <2>1, <2>2, Zenon
    <3>3. Len(pasos) \in 1..8
      <4>1. PICK n : n = Len(pasos)
        OBVIOUS
      <4>2. n \in Nat /\ n >= 1 /\ n <= 8
        BY ONLY <3>1, <3>2, <4>1, Zenon
      <4>3. n \in 1..8
        BY ONLY <4>2
      <4> QED BY ONLY <4>1, <4>3, Zenon
    <3> QED BY ONLY <1>1, <1>2, <2>2, <3>3, Zenon
  <2> QED BY ONLY <2>1, <2>2, <2>3, <2>4, Zenon
<1>4. PICK h : h = [c \in Caches |-> IF c \in Toca(escritor.servicio, p.campos)
                                     THEN ahora + 1 ELSE escritor.hasta[c]]
  OBVIOUS
<1>5. /\ entrada' = SinEntrada(p.limpia)
      /\ cargas' = Quedan(cargas, entrada', sondeos)
      /\ UNCHANGED <<hace, tab, eventos>>
  BY <1>1 DEF Paso
<1>6. /\ ahora \in Nat /\ ahora' \in Nat /\ ahora <= ahora' /\ ahora >= 1 /\ EsSecuencia(historia')
      /\ DOMAIN p.campos # {} => ahora' = ahora + 1
  <2>1. ahora \in Nat /\ EsSecuencia(historia) /\ ahora >= 1
    BY DEF Historia, EsSecuencia, ahora
  <2>2. PICK nuevo : historia' = IF DOMAIN p.campos = {} THEN historia ELSE Append(historia, nuevo)
    BY <1>1 DEF Paso
  <2>3. CASE DOMAIN p.campos = {}
    BY <2>1, <2>2, <2>3 DEF ahora
  <2>4. CASE DOMAIN p.campos # {}
    <3>1. EsSecuencia(Append(historia, nuevo)) /\ Len(Append(historia, nuevo)) = Len(historia) + 1
      BY ONLY <2>1, Agrega, Zenon
    <3>2. EsSecuencia(historia') /\ Len(historia') = Len(historia) + 1
      BY ONLY <2>2, <2>4, <3>1, Zenon
    <3> QED BY ONLY <2>1, <3>2 DEF ahora, EsSecuencia
  <2> QED BY <2>3, <2>4
<1>7. /\ h \in [Caches -> 0..ahora']
      /\ \A c \in Caches : c \notin Toca(escritor.servicio, p.campos) => h[c] = escritor.hasta[c]
  <2>1. Toca(escritor.servicio, p.campos) # {} => DOMAIN p.campos # {}
    BY DEF Toca, Si
  <2> QED BY ONLY Escritor, <2>1, <1>4, <1>6 DEF Escritor
<1>8. ASSUME NEW c \in Caches, entrada'[c].carga # 0
      PROVE  entrada[c].carga # 0 /\ entrada'[c] = entrada[c] /\ c \notin p.limpia
  BY <1>5, <1>8 DEF SinEntrada, SinEntradaDe
<1>9. Cargas' /\ \A l \in 1..MaxCargas : EnUso(l, entrada', sondeos) => cargas'[l] = cargas[l]
  <2>1. sondeos' = sondeos
    BY <1>5 DEF tab
  <2> QED BY ONLY Cargas, <1>5, <1>6, <2>1, QuedanEnUso, Zenon
<1>10. Sondeos'
  <2>1. cargas' \in [1..MaxCargas -> Nat]
    BY <1>6, <1>9 DEF Cargas
  <2>2. ASSUME NEW i \in 1..MaxSondeos, sondeos[i].carga # 0
        PROVE  cargas'[sondeos[i].carga] = cargas[sondeos[i].carga]
    <3>1. sondeos[i].carga \in 1..MaxCargas
      BY <2>2, CotasAssumption DEF Sondeos, Sondeado
    <3> QED BY <1>9, <3>1 DEF EnUso
  <2>3. eventos' \in 0..MaxEventos
    BY <1>5 DEF Sondeos
  <2> QED BY ONLY Sondeos, <1>5, <1>6, <2>1, <2>2, <2>3, SondeosQuietos
<1>11. hace' \in [1..Ttl -> 1..ahora'] /\ \A i, j \in 1..Ttl : i <= j => hace'[i] <= hace'[j]
  BY <1>5, <1>6 DEF Historia
<1>12. ASSUME NEW c \in Caches, entrada'[c].carga # 0
       PROVE  /\ entrada'[c] = entrada[c] /\ c \notin p.limpia
              /\ entrada[c].carga \in 1..MaxCargas /\ entrada[c].resta \in 1..Ttl
              /\ cargas'[entrada[c].carga] = cargas[entrada[c].carga]
              /\ AlDia(c, entrada[c])
  <2>1. entrada[c].carga # 0 /\ entrada'[c] = entrada[c] /\ c \notin p.limpia
    BY <1>8, <1>12
  <2>2. entrada[c].carga \in 1..MaxCargas /\ entrada[c].resta \in 1..Ttl /\ AlDia(c, entrada[c])
    BY <2>1, CotasAssumption, TiemposAssumption DEF Entradas
  <2>3. EnUso(entrada[c].carga, entrada', sondeos)
    BY <2>1 DEF EnUso
  <2> QED BY <1>9, <2>1, <2>2, <2>3
<1>13. entrada' \in [Caches -> [carga : 0..MaxCargas, resta : 0..Ttl]]
  BY <1>5, CotasAssumption, TiemposAssumption DEF SinEntrada, SinEntradaDe, Entradas
<1>14. CASE Len(pasos) = 1
  <2>1. /\ escritor' = [pasos |-> <<>>, servicio |-> "nadie", hasta |-> [c \in Caches |-> 0],
                        van |-> escritor.van]
        /\ confirmado' = [c \in Caches |-> IF h[c] > 0 THEN h[c] ELSE confirmado[c]]
    BY <1>1, <1>2, <1>4, <1>14 DEF Paso, SinEscritor
  <2>2. Toca(escritor.servicio, p.campos) = {}
    BY <1>3, <1>14 DEF Limpia
  <2>3. Escritor'
    BY <1>6, <2>1, CotasAssumption DEF Escritor, Programa, EsSecuencia
  <2>4. Historia'
    <3>1. confirmado' \in [Caches -> 1..ahora']
      BY <1>6, <1>7, <2>1 DEF Historia
    <3> QED BY <1>6, <1>11, <3>1 DEF Historia
  <2>5. \A c \in Caches : c \notin p.limpia =>
            ~Limpia(pasos, c, 0) /\ h[c] = escritor.hasta[c] /\ escritor'.hasta[c] = 0
    BY ONLY <1>3, <1>7, <1>14, <2>1, <2>2 DEF Limpia
  <2>6. ASSUME NEW c \in Caches, entrada'[c].carga # 0
        PROVE  AlDia(c, entrada[c])'
    <3>1. escritor.pasos = pasos /\ confirmado[c] \in Nat /\ escritor.hasta[c] \in Nat
      BY <1>2, <1>6 DEF Historia, Escritor
    <3>2. confirmado'[c] = IF escritor.hasta[c] > 0 THEN escritor.hasta[c] ELSE confirmado[c]
      BY ONLY <2>1, <2>5, <2>6, <1>12
    <3>3. cargas[entrada[c].carga] \in Nat
      BY <1>6, <1>12, <2>6 DEF Cargas
    <3>4. hace' = hace /\ escritor'.hasta[c] = 0
      BY <1>5, <2>5, <2>6, <1>12
    <3>5. ~Limpia(escritor.pasos, c, 0)
      BY <2>5, <2>6, <1>12, <3>1
    <3> QED BY ONLY c \in Caches, <1>12, <2>6, <3>1, <3>2, <3>3, <3>4, <3>5 DEF AlDia
  <2>7. Entradas'
    BY ONLY <1>13, <2>6, <1>12, TiemposAssumption DEF Entradas
  <2> QED BY ONLY <1>9, <1>10, <2>3, <2>4, <2>7 DEF IInv
<1>15. CASE Len(pasos) # 1
  <2>1. /\ escritor' = [pasos |-> Tail(pasos), servicio |-> escritor.servicio, hasta |-> h,
                        van |-> escritor.van]
        /\ confirmado' = [c \in Caches |-> confirmado[c]]
    BY <1>1, <1>2, <1>4, <1>15 DEF Paso, Escritor
  <2>2. \A c : \A k \in 1..Len(Tail(pasos)) :
            Limpia(pasos, c, k + 1) => Limpia(Tail(pasos), c, k)
    <3> SUFFICES ASSUME NEW c, NEW k \in 1..Len(Tail(pasos)), Limpia(pasos, c, k + 1)
                 PROVE  Limpia(Tail(pasos), c, k)
      OBVIOUS
    <3>1. PICK j \in 1..Len(pasos) : j > k + 1 /\ c \in pasos[j].limpia
      BY DEF Limpia
    <3>2. j - 1 \in 1..Len(Tail(pasos)) /\ j - 1 > k /\ Tail(pasos)[j - 1] = pasos[j]
      BY ONLY <1>3, <3>1, k \in 1..Len(Tail(pasos))
    <3> QED BY ONLY <3>1, <3>2 DEF Limpia
  <2>3. \A c : c \notin p.limpia /\ Limpia(pasos, c, 0) => Limpia(Tail(pasos), c, 0)
    <3> SUFFICES ASSUME NEW c, c \notin p.limpia, Limpia(pasos, c, 0)
                 PROVE  Limpia(Tail(pasos), c, 0)
      OBVIOUS
    <3>1. PICK j \in 1..Len(pasos) : c \in pasos[j].limpia
      BY DEF Limpia
    <3>2. j - 1 \in 1..Len(Tail(pasos)) /\ j - 1 > 0 /\ Tail(pasos)[j - 1] = pasos[j]
      BY ONLY <1>3, <3>1, c \notin p.limpia
    <3> QED BY ONLY <3>1, <3>2 DEF Limpia
  <2>4. \A c \in Toca(escritor.servicio, p.campos) : Limpia(Tail(pasos), c, 0)
    <3> SUFFICES ASSUME NEW c \in Toca(escritor.servicio, p.campos)
                 PROVE  Limpia(Tail(pasos), c, 0)
      OBVIOUS
    <3>1. PICK j \in 1..Len(pasos) : j > 1 /\ c \in pasos[j].limpia
      <4>1. 1 \in 1..Len(pasos) /\ c \in Toca(escritor.servicio, pasos[1].campos)
        BY <1>3
      <4> QED BY ONLY <1>3, <4>1 DEF Limpia
    <3>2. j - 1 \in 1..Len(Tail(pasos)) /\ j - 1 > 0 /\ Tail(pasos)[j - 1] = pasos[j]
      BY ONLY <1>3, <3>1
    <3> QED BY ONLY <3>1, <3>2 DEF Limpia
  <2>5. Programa(escritor.servicio, Tail(pasos))
    <3>1. \A k \in 1..Len(Tail(pasos)) : k + 1 \in 1..Len(pasos) /\ Tail(pasos)[k] = pasos[k + 1]
      BY <1>3
    <3>2. \A k \in 1..Len(Tail(pasos)) :
             \A c \in Toca(escritor.servicio, Tail(pasos)[k].campos) : Limpia(Tail(pasos), c, k)
      BY ONLY <1>3, <2>2, <3>1
    <3> QED BY ONLY <1>3, <3>2 DEF Programa
  <2>6. Escritor'
    BY ONLY Escritor, <1>7, <2>1, <2>5 DEF Escritor
  <2>7. confirmado' = confirmado
    BY ONLY Historia, <2>1 DEF Historia
  <2>8. Historia'
    BY <1>6, <1>11, <2>7 DEF Historia
  <2>9. ASSUME NEW c \in Caches, entrada'[c].carga # 0
        PROVE  AlDia(c, entrada[c])'
    <3>1. escritor.pasos = pasos /\ escritor'.pasos = Tail(pasos) /\ escritor'.hasta = h
      BY <1>2, <2>1
    <3>2. \/ Limpia(Tail(pasos), c, 0)
          \/ h[c] = escritor.hasta[c] /\ ~Limpia(pasos, c, 0)
      BY <1>7, <2>3, <2>4, <2>9, <1>12
    <3>3. hace' = hace
      BY <1>5
    <3> QED BY ONLY c \in Caches, <1>12, <2>7, <2>9, <3>1, <3>2, <3>3 DEF AlDia
  <2>10. Entradas'
    BY ONLY <1>13, <2>9, <1>12, TiemposAssumption DEF Entradas
  <2> QED BY ONLY <1>9, <1>10, <2>6, <2>8, <2>10 DEF IInv
<1> QED BY <1>14, <1>15

\* The clock moves on, or the chair's heartbeat comes or goes: the database has a new state.
LEMMA RelojConserva ==
    ASSUME IInv, Reloj
    PROVE  IInv'
<1> USE DEF IInv
<1>1. PICK nuevo : historia' = Append(historia, nuevo)
  BY DEF Reloj, PasaLaGracia, Latido, Cambia
<1>2. /\ UNCHANGED <<confirmado, entrada, cargas, hace, tab, eventos>>
      /\ escritor' = [escritor EXCEPT !.van = @ + 1] /\ escritor.van < MaxManejos
  BY DEF Reloj, PasaLaGracia, Latido, Cambia, memoria
<1>3. ahora \in Nat /\ ahora' = ahora + 1 /\ EsSecuencia(historia') /\ ahora >= 1
  <2>1. EsSecuencia(historia) /\ Len(historia) >= 1
    BY DEF Historia, ahora
  <2>2. EsSecuencia(Append(historia, nuevo)) /\ Len(Append(historia, nuevo)) = Len(historia) + 1
    BY ONLY <2>1, Agrega, Zenon
  <2> QED BY ONLY <1>1, <2>1, <2>2 DEF ahora, EsSecuencia
<1>4. Historia'
  BY <1>2, <1>3 DEF Historia
<1>5. Escritor' /\ escritor'.pasos = escritor.pasos /\ escritor'.hasta = escritor.hasta
  BY <1>2, <1>3, CotasAssumption DEF Escritor
<1>6. Entradas'
  BY ONLY Entradas, <1>2, <1>5 DEF Entradas, AlDia
<1>7. Cargas'
  BY <1>2, <1>3 DEF Cargas, EnUso, tab
<1>8. Sondeos'
  <2>1. eventos' \in 0..MaxEventos /\ cargas' \in [1..MaxCargas -> Nat]
    BY <1>2, <1>3 DEF Sondeos, Cargas
  <2> QED BY ONLY Sondeos, <1>2, <1>3, <2>1, SondeosQuietos
<1> QED BY <1>4, <1>5, <1>6, <1>7, <1>8

\* A read is done: it sees everything there is.
LEMMA LeeConserva ==
    ASSUME IInv, NEW l \in 1..MaxCargas, Lee(l)
    PROVE  IInv'
<1> USE DEF IInv
<1>1. /\ EnUso(l, entrada, sondeos) /\ cargas' = [cargas EXCEPT ![l] = ahora]
      /\ UNCHANGED <<historia, escritor, confirmado, entrada, hace, tab, eventos>>
  BY DEF Lee, base
<1>2. ahora \in Nat /\ ahora' = ahora /\ ahora >= 1
  BY <1>1 DEF Historia, EsSecuencia, ahora
<1>3. Historia' /\ Escritor'
  BY ONLY Historia, Escritor, <1>1, <1>2 DEF Historia, Escritor
<1>4. Cargas'
  BY <1>1, <1>2 DEF Cargas, EnUso, tab
<1>5. Entradas'
  <2>1. ASSUME NEW c \in Caches, entrada[c].carga # 0 PROVE AlDia(c, entrada[c])'
    <3>1. entrada[c].carga \in 1..MaxCargas /\ entrada[c].resta \in 1..Ttl /\ AlDia(c, entrada[c])
      BY <2>1, CotasAssumption, TiemposAssumption DEF Entradas
    <3>2. CASE entrada[c].carga = l
      <4>1. cargas'[l] = ahora
        BY <1>1 DEF Cargas
      <4>2. /\ hace[entrada[c].resta] <= ahora /\ confirmado[c] <= ahora
            /\ escritor.hasta[c] <= ahora
        BY <1>2, <3>1 DEF Historia, Escritor
      <4> QED BY ONLY <1>1, <3>2, <4>1, <4>2 DEF AlDia
    <3>3. CASE entrada[c].carga # l
      <4>1. cargas'[entrada[c].carga] = cargas[entrada[c].carga]
        BY <1>1, <3>1, <3>3 DEF Cargas
      <4> QED BY ONLY <1>1, <3>1, <4>1 DEF AlDia
    <3> QED BY <3>2, <3>3
  <2> QED BY ONLY Entradas, <1>1, <2>1 DEF Entradas
<1>6. Sondeos'
  <2>1. eventos' \in 0..MaxEventos /\ cargas' \in [1..MaxCargas -> Nat]
    BY <1>1, <1>2, <1>4 DEF Sondeos, Cargas
  <2>2. ASSUME NEW i \in 1..MaxSondeos, sondeos[i].carga # 0
        PROVE  \/ cargas'[sondeos[i].carga] = cargas[sondeos[i].carga]
               \/ cargas'[sondeos[i].carga] >= ahora
    <3>1. sondeos[i].carga \in 1..MaxCargas
      BY <2>2, CotasAssumption DEF Sondeos, Sondeado
    <3> QED BY <1>1, <1>2, <3>1 DEF Cargas
  <2> QED BY ONLY Sondeos, <1>1, <1>2, <2>1, <2>2, SondeosQuietos
<1> QED BY <1>3, <1>4, <1>5, <1>6

\* A read that fails leaves the cache and those who waited for it.
LEMMA LeeFallaConserva ==
    ASSUME IInv, NEW l \in 1..MaxCargas, LeeFalla(l)
    PROVE  IInv'
<1> USE DEF IInv
<1>1. /\ cargas[l] = 0 /\ eventos < MaxEventos /\ eventos' = eventos + 1
      /\ UNCHANGED <<historia, escritor, confirmado, cargas, hace, pestana, timeoutRef>>
  BY DEF LeeFalla, base
<1>2. entrada' = [c \in Caches |-> IF entrada[c].carga = l THEN SinEntradaDe ELSE entrada[c]]
  BY DEF LeeFalla
<1>3. sondeos' = [i \in 1..MaxSondeos |->
            IF sondeos[i].carga = l
            THEN [sondeos[i] EXCEPT !.carga = 0, !.error = TRUE, !.fase = "vuelve"]
            ELSE sondeos[i]]
  BY DEF LeeFalla
<1>4. UNCHANGED <<ahora, hook>>
  BY <1>1 DEF ahora, hook
<1>5. Historia' /\ Escritor'
  BY ONLY Historia, Escritor, <1>1, <1>4 DEF Historia, Escritor
<1>6. Entradas'
  <2>1. ASSUME NEW c \in Caches
        PROVE  /\ entrada'[c] \in [carga : 0..MaxCargas, resta : 0..Ttl]
               /\ entrada'[c].carga # 0 => entrada'[c] = entrada[c]
    <3>1. SinEntradaDe \in [carga : 0..MaxCargas, resta : 0..Ttl] /\ SinEntradaDe.carga = 0
      BY CotasAssumption, TiemposAssumption DEF SinEntradaDe
    <3>2. entrada[c] \in [carga : 0..MaxCargas, resta : 0..Ttl]
      BY DEF Entradas
    <3>3. entrada'[c] = SinEntradaDe \/ entrada'[c] = entrada[c]
      BY ONLY c \in Caches, <1>2
    <3> QED BY ONLY <3>1, <3>2, <3>3, Zenon
  <2>2. ASSUME NEW c \in Caches, entrada'[c].carga # 0, AlDia(c, entrada[c])
        PROVE  AlDia(c, entrada[c])'
    <3>1. UNCHANGED <<historia, escritor, confirmado, cargas, hace>>
      BY <1>1
    <3>2. entrada'[c] = entrada[c]
      BY <2>1, <2>2
    <3> QED BY ONLY <2>2, <3>1, <3>2 DEF AlDia
  <2>3. entrada' \in [Caches -> [carga : 0..MaxCargas, resta : 0..Ttl]]
    BY <1>2, <2>1
  <2> QED BY ONLY Entradas, <2>1, <2>2, <2>3 DEF Entradas
<1>7. Cargas'
  BY <1>1, <1>2, <1>3, <1>4 DEF Cargas, EnUso
<1>8. Sondeos'
  <2>1. ASSUME NEW i \in 1..MaxSondeos
        PROVE  /\ SondeoBien(sondeos[i])' /\ sondeos'[i] \in Sondeado
               /\ sondeos'[i].fase = "duerme" <=> sondeos[i].fase = "duerme"
    <3>1. CASE sondeos[i].carga # l
      BY <1>1, <1>3, <1>4, <3>1 DEF Sondeos, SondeoBien
    <3>2. CASE sondeos[i].carga = l
      <4>1. PICK s \in Sondeado : s = sondeos[i] /\ SondeoBien(s)
        BY DEF Sondeos
      <4>2. sondeos'[i] = [s EXCEPT !.carga = 0, !.error = TRUE, !.fase = "vuelve"]
        BY <1>3, <3>2, <4>1
      <4>3. sondeos'[i] = [fase |-> "vuelve", etapa |-> s.etapa, carga |-> 0,
                           leido |-> s.leido, piso |-> s.piso, vivo |-> s.vivo,
                           error |-> TRUE, espera |-> s.espera]
        BY ONLY <4>2, s \in Sondeado DEF Sondeado
      <4>5. sondeos'[i] \in Sondeado
        BY <4>3, CotasAssumption DEF Sondeado, Fases
      <4>4. s.fase # "duerme"
        BY <3>2, <4>1 DEF SondeoBien
      <4> QED BY <1>4, <4>1, <4>3, <4>4, <4>5 DEF SondeoBien
    <3> QED BY <3>1, <3>2
  <2>2. sondeos' \in [1..MaxSondeos -> Sondeado]
    BY <1>3, <2>1
  <2>3. eventos' \in 0..MaxEventos
    <3>1. eventos \in 0..MaxEventos /\ MaxEventos \in Nat
      BY CotasAssumption DEF Sondeos
    <3>2. eventos < MaxEventos /\ eventos' = eventos + 1
      BY <1>1
    <3> QED BY ONLY <3>1, <3>2
  <2>4. timeoutRef' = timeoutRef
    BY <1>1
  <2> QED BY ONLY Sondeos, <2>1, <2>2, <2>3, <2>4, CotasAssumption DEF Sondeos
<1> QED BY <1>5, <1>6, <1>7, <1>8

\* A cache begins a read.
LEMMA CargarConserva ==
    ASSUME IInv, NEW c \in Caches, NEW l \in 1..MaxCargas, Cargar(c, l),
           UNCHANGED <<historia, escritor, confirmado, cargas, hace>>
    PROVE  /\ Historia' /\ Escritor' /\ Entradas'
           /\ cargas[l] = 0 /\ entrada'[c].carga = l
           /\ \A m \in 1..MaxCargas : \A ss :
                 EnUso(m, entrada, ss) => EnUso(m, entrada', ss)
<1> USE DEF IInv
<1>1. /\ entrada[c].carga = 0 /\ ~EnUso(l, entrada, sondeos)
      /\ entrada' = [entrada EXCEPT ![c] = [carga |-> l, resta |-> Ttl]]
  BY DEF Cargar, CargasLibres, Obtener
<1>2. cargas[l] = 0
  BY <1>1 DEF Cargas
<1>3. Historia' /\ Escritor'
  BY ONLY Historia, Escritor, UNCHANGED <<historia, escritor, confirmado, cargas, hace>>
     DEF Historia, Escritor, ahora
<1>4. /\ entrada'[c] = [carga |-> l, resta |-> Ttl]
      /\ \A d \in Caches : d # c => entrada'[d] = entrada[d]
  BY <1>1 DEF Entradas
<1>5. Entradas'
  BY <1>1, <1>2, <1>4, TiemposAssumption DEF Entradas, AlDia
<1>6. \A m \in 1..MaxCargas : \A ss : EnUso(m, entrada, ss) => EnUso(m, entrada', ss)
  BY <1>1, <1>4 DEF EnUso
<1> QED BY <1>2, <1>3, <1>4, <1>5, <1>6

\* The caches an endpoint goes through are caches.
LEMMA EtapasDelHook ==
    /\ hook \in DOMAIN Etapas
    /\ \A e \in DOMAIN Etapas[hook] : Etapas[hook][e] \in Caches
    /\ 1 \in DOMAIN Etapas[hook] /\ (hook = "silla" => 2 \in DOMAIN Etapas[hook])
<1>1. hook \in {"silla", "sesion", "turno"}
  BY DEF hook, HookDe
<1> QED BY <1>1 DEF Etapas, Caches

\* A read that nobody of this tab waits for changes nothing for those it has.
LEMMA OtraVisitaConserva ==
    ASSUME IInv, OtraVisita
    PROVE  IInv'
<1> USE DEF IInv
<1>1. PICK c \in Caches, l \in 1..MaxCargas :
          /\ Cargar(c, l) /\ eventos < MaxEventos /\ eventos' = eventos + 1
          /\ UNCHANGED <<historia, escritor, confirmado, cargas, hace, tab>>
  BY EtapasDelHook DEF OtraVisita, base
<1>2. Historia' /\ Escritor' /\ Entradas'
  BY <1>1, CargarConserva
<1>3. ahora \in Nat /\ ahora' = ahora /\ sondeos' = sondeos
  BY <1>1 DEF Historia, EsSecuencia, ahora, tab
<1>4. Cargas'
  <2>1. \A m \in 1..MaxCargas : EnUso(m, entrada, sondeos) => EnUso(m, entrada', sondeos)
    BY <1>1, CargarConserva
  <2> QED BY <1>1, <1>3, <2>1 DEF Cargas
<1>5. Sondeos'
  <2>1. eventos' \in 0..MaxEventos /\ cargas' \in [1..MaxCargas -> Nat]
    BY <1>1, <1>3, CotasAssumption DEF Sondeos, Cargas
  <2> QED BY ONLY Sondeos, <1>1, <1>3, <2>1, SondeosQuietos
<1> QED BY <1>2, <1>4, <1>5

\* A cycle that waits for nobody: it is over, it begins or it sleeps.
Quieto(f, n) == [fase |-> f, etapa |-> 1, carga |-> 0, leido |-> <<>>, piso |-> <<>>,
                 vivo |-> 0, error |-> FALSE, espera |-> n]

\* A quiet cycle counts on nothing.
LEMMA QuietoBien ==
    ASSUME NEW f \in {"no", "pregunta", "duerme"}, NEW n \in Nat
    PROVE  Quieto(f, n) \in Sondeado /\ SondeoBien(Quieto(f, n)) /\ SondeoBien(Quieto(f, n))'
<1>1. Quieto(f, n).leido = <<>> /\ Quieto(f, n).piso = <<>> /\ Len(<<>>) = 0 /\ <<>> \in Seq(Nat)
  BY DEF Quieto
<1>2. /\ Quieto(f, n).etapa = 1 /\ Quieto(f, n).carga = 0 /\ Quieto(f, n).fase = f
  BY DEF Quieto
<1>3. Quieto(f, n) \in Sondeado
  BY <1>1, CotasAssumption DEF Quieto, Sondeado, Fases
<1> QED BY ONLY <1>1, <1>2, <1>3, f \in {"no", "pregunta", "duerme"} DEF SondeoBien

\* The cycles the hook makes are quiet.
LEMMA LosQuietos ==
    /\ SinSondeo = Quieto("no", 0) /\ Pregunta = Quieto("pregunta", 0)
    /\ \A n : [SinSondeo EXCEPT !.fase = "duerme", !.espera = n] = Quieto("duerme", n)
<1>1. SinSondeo = Quieto("no", 0)
  BY Zenon DEF SinSondeo, Quieto
<1>2. PICK q \in Sondeado : q = SinSondeo /\ q = Quieto("no", 0)
  BY <1>1, QuietoBien
<1>3. /\ q.etapa = 1 /\ q.carga = 0 /\ q.leido = <<>> /\ q.piso = <<>> /\ q.vivo = 0
      /\ q.error = FALSE /\ q.espera = 0
  BY ONLY <1>2 DEF Quieto
<1>4. Pregunta = Quieto("pregunta", 0)
  <2>1. PICK x : x = [q EXCEPT !.fase = "pregunta"]
    OBVIOUS
  <2>2. x = [fase |-> "pregunta", etapa |-> q.etapa, carga |-> q.carga, leido |-> q.leido,
             piso |-> q.piso, vivo |-> q.vivo, error |-> q.error, espera |-> q.espera]
    BY ONLY <2>1, q \in Sondeado DEF Sondeado
  <2> QED BY ONLY <1>2, <1>3, <2>1, <2>2, Zenon DEF Pregunta, Quieto
<1>5. ASSUME NEW n PROVE [SinSondeo EXCEPT !.fase = "duerme", !.espera = n] = Quieto("duerme", n)
  <2>1. PICK x : x = [q EXCEPT !.fase = "duerme", !.espera = n]
    OBVIOUS
  <2>2. x = [fase |-> "duerme", etapa |-> q.etapa, carga |-> q.carga, leido |-> q.leido,
             piso |-> q.piso, vivo |-> q.vivo, error |-> q.error, espera |-> n]
    BY ONLY <2>1, q \in Sondeado DEF Sondeado
  <2> QED BY ONLY <1>2, <1>3, <2>1, <2>2, Zenon DEF Quieto
<1> QED BY <1>1, <1>4, <1>5

\* The cycle i changes, and the others keep what they wait for.
LEMMA SondeoCambia ==
    ASSUME Sondeos, NEW i \in 1..MaxSondeos, NEW s \in Sondeado, SondeoBien(s)',
           sondeos' = [sondeos EXCEPT ![i] = s],
           UNCHANGED <<hook, ahora>>, eventos' \in 0..MaxEventos,
           timeoutRef' \in 0..MaxSondeos,
           timeoutRef' # 0 => sondeos'[timeoutRef'].fase = "duerme",
           \A j \in 1..MaxSondeos : j # i /\ sondeos[j].carga # 0 =>
               cargas'[sondeos[j].carga] = cargas[sondeos[j].carga]
    PROVE  Sondeos'
<1>1. ASSUME NEW j \in 1..MaxSondeos, j # i PROVE SondeoBien(sondeos[j])'
  <2>1. PICK r : r = sondeos[j] /\ SondeoBien(r)
    BY DEF Sondeos
  <2>2. sondeos'[j] = r
    BY <1>1, <2>1 DEF Sondeos
  <2>3. SondeoBien(r)'
    BY <1>1, <2>1 DEF SondeoBien
  <2> QED BY ONLY <2>2, <2>3 DEF SondeoBien
<1>2. SondeoBien(sondeos[i])'
  <2>1. sondeos'[i] = s
    BY DEF Sondeos
  <2> QED BY ONLY <2>1, SondeoBien(s)' DEF SondeoBien
<1>3. \A j \in 1..MaxSondeos : SondeoBien(sondeos[j])'
  BY ONLY <1>1, <1>2
<1>4. sondeos' \in [1..MaxSondeos -> Sondeado]
  BY DEF Sondeos
<1> QED BY ONLY <1>3, <1>4, eventos' \in 0..MaxEventos, timeoutRef' \in 0..MaxSondeos,
               timeoutRef' # 0 => sondeos'[timeoutRef'].fase = "duerme"
        DEF Sondeos

\* A step of the tab that holds on to the reads it waits for.
LEMMA LaPestana ==
    ASSUME IInv, Sondeos',
           UNCHANGED <<historia, escritor, confirmado, entrada, cargas, hace>>,
           \A j \in 1..MaxSondeos : sondeos[j].carga # 0 => sondeos'[j].carga = sondeos[j].carga
    PROVE  IInv'
<1> USE DEF IInv
<1>1. Historia' /\ Escritor' /\ Entradas'
  BY DEF Historia, Escritor, Entradas, AlDia, ahora
<1>2. Cargas'
  BY CotasAssumption DEF Cargas, EnUso, ahora
<1> QED BY <1>1, <1>2

\* The timer of a cycle fires.
LEMMA DespiertaConserva ==
    ASSUME IInv, NEW i \in 1..MaxSondeos, Despierta(i)
    PROVE  IInv'
<1> USE DEF IInv
<1>1. /\ sondeos[i].fase = "duerme"
      /\ timeoutRef' = IF timeoutRef = i THEN 0 ELSE timeoutRef
      /\ UNCHANGED <<historia, escritor, confirmado, entrada, cargas, hace, pestana, eventos>>
  BY DEF Despierta, base, memoria
<1>2. PICK f \in {"no", "pregunta"} : sondeos' = [sondeos EXCEPT ![i] = Quieto(f, 0)]
  BY LosQuietos DEF Despierta
<1>3. UNCHANGED <<hook, ahora>> /\ sondeos[i].carga = 0
  BY <1>1 DEF hook, ahora, Sondeos, SondeoBien
<1>4. Quieto(f, 0) \in Sondeado /\ SondeoBien(Quieto(f, 0))'
  BY QuietoBien
<1>5. /\ timeoutRef' \in 0..MaxSondeos /\ eventos' \in 0..MaxEventos
      /\ timeoutRef' # 0 => sondeos'[timeoutRef'].fase = "duerme"
  BY <1>1, <1>2, CotasAssumption DEF Sondeos
<1>6. Sondeos'
  BY ONLY Sondeos, i \in 1..MaxSondeos, <1>1, <1>2, <1>3, <1>4, <1>5, SondeoCambia
<1>7. \A j \in 1..MaxSondeos : sondeos[j].carga # 0 => sondeos'[j].carga = sondeos[j].carga
  BY <1>2, <1>3 DEF Sondeos
<1> QED BY <1>1, <1>6, <1>7, LaPestana

\* The answer is shown and the next timer set.
LEMMA AplicaConserva ==
    ASSUME IInv, NEW i \in 1..MaxSondeos, Aplica(i)
    PROVE  IInv'
<1> USE DEF IInv
<1>1. /\ sondeos[i].fase = "vuelve" /\ timeoutRef' = i
      /\ UNCHANGED <<historia, escritor, confirmado, entrada, cargas, hace, pestana, eventos>>
  BY DEF Aplica, base, memoria
<1>2. PICK n \in Nat : sondeos' = [sondeos EXCEPT ![i] = Quieto("duerme", n)]
  <2>1. proximoRetraso(i) \in Nat
    BY TiemposAssumption DEF proximoRetraso, Mayor, Sondeos, Sondeado
  <2> QED BY <2>1, LosQuietos DEF Aplica
<1>3. UNCHANGED <<hook, ahora>> /\ sondeos[i].carga = 0
  BY <1>1 DEF hook, ahora, Sondeos, SondeoBien
<1>4. Quieto("duerme", n) \in Sondeado /\ SondeoBien(Quieto("duerme", n))'
  BY QuietoBien
<1>5. /\ timeoutRef' \in 0..MaxSondeos /\ eventos' \in 0..MaxEventos
      /\ timeoutRef' # 0 => sondeos'[timeoutRef'].fase = "duerme"
  BY <1>1, <1>2, CotasAssumption DEF Sondeos, Quieto
<1>6. Sondeos'
  BY ONLY Sondeos, i \in 1..MaxSondeos, <1>1, <1>2, <1>3, <1>4, <1>5, SondeoCambia
<1>7. \A j \in 1..MaxSondeos : sondeos[j].carga # 0 => sondeos'[j].carga = sondeos[j].carga
  BY <1>2, <1>3 DEF Sondeos
<1> QED BY <1>1, <1>6, <1>7, LaPestana

\* A request that fails counts on nothing any more.
LEMMA RechazaConserva ==
    ASSUME IInv, NEW i \in 1..MaxSondeos, Rechaza(i)
    PROVE  IInv'
<1> USE DEF IInv
<1>1. /\ sondeos[i].fase = "pregunta" /\ eventos < MaxEventos /\ eventos' = eventos + 1
      /\ UNCHANGED <<historia, escritor, confirmado, entrada, cargas, hace, pestana, timeoutRef>>
  BY DEF Rechaza, base, memoria
<1>2. PICK r \in Sondeado : r = sondeos[i] /\ SondeoBien(r)
  BY DEF Sondeos
<1>3. PICK w \in {0, Castigo} :
          sondeos' = [sondeos EXCEPT ![i].fase = "vuelve", ![i].error = TRUE, ![i].espera = w]
  BY DEF Rechaza
<1>4. PICK s : s = [fase |-> "vuelve", etapa |-> r.etapa, carga |-> r.carga, leido |-> r.leido,
                    piso |-> r.piso, vivo |-> r.vivo, error |-> TRUE, espera |-> w]
  OBVIOUS
<1>5. sondeos' = [sondeos EXCEPT ![i] = s]
  <2>1. s = [r EXCEPT !.fase = "vuelve", !.error = TRUE, !.espera = w]
    <3>1. PICK x : x = [r EXCEPT !.fase = "vuelve", !.error = TRUE, !.espera = w]
      OBVIOUS
    <3>2. x = [fase |-> "vuelve", etapa |-> r.etapa, carga |-> r.carga, leido |-> r.leido,
               piso |-> r.piso, vivo |-> r.vivo, error |-> TRUE, espera |-> w]
      BY ONLY <3>1, r \in Sondeado DEF Sondeado
    <3> QED BY ONLY <1>4, <3>1, <3>2, Zenon
  <2>2. \A j \in 1..MaxSondeos : sondeos'[j] = IF j = i THEN s ELSE sondeos[j]
    BY <1>2, <1>3, <2>1 DEF Sondeos
  <2>3. sondeos' = [j \in 1..MaxSondeos |-> sondeos'[j]]
    BY <1>3 DEF Sondeos
  <2> QED BY <2>2, <2>3 DEF Sondeos
<1>6. UNCHANGED <<hook, ahora>> /\ r.carga = 0
  BY <1>1, <1>2 DEF hook, ahora, SondeoBien
<1>7. s \in Sondeado
  BY <1>2, <1>4, TiemposAssumption DEF Sondeado, Fases
<1>8. SondeoBien(s)'
  BY ONLY <1>1, <1>2, <1>4, <1>6 DEF SondeoBien
<1>9. /\ timeoutRef' \in 0..MaxSondeos /\ eventos' \in 0..MaxEventos
      /\ timeoutRef' # 0 => sondeos'[timeoutRef'].fase = "duerme"
  BY <1>1, <1>5, CotasAssumption DEF Sondeos
<1>10. Sondeos'
  BY ONLY Sondeos, i \in 1..MaxSondeos, <1>1, <1>5, <1>6, <1>7, <1>8, <1>9, SondeoCambia
<1>11. \A j \in 1..MaxSondeos : sondeos[j].carga # 0 => sondeos'[j].carga = sondeos[j].carga
  BY <1>2, <1>4, <1>5, <1>6 DEF Sondeos
<1> QED BY <1>1, <1>10, <1>11, LaPestana

\* The piso of a request is within the past.
LEMMA ElPiso ==
    ASSUME Historia, NEW c \in Caches
    PROVE  /\ Mayor(confirmado[c], hace[1]) \in Nat /\ Mayor(confirmado[c], hace[1]) <= ahora
           /\ Mayor(confirmado[c], hace[1]) >= confirmado[c]
           /\ Mayor(confirmado[c], hace[1]) >= hace[1]
           /\ Mayor(confirmado[c], hace[1]) \in {confirmado[c], hace[1]}
<1>1. ahora \in Nat
  BY DEF Historia, EsSecuencia, ahora
<1>2. PICK m, n \in Nat : m = confirmado[c] /\ n = hace[1] /\ m <= ahora /\ n <= ahora
  BY <1>1, TiemposAssumption DEF Historia
<1> QED BY <1>1, <1>2 DEF Mayor

\* A request joins a read that has seen what it counts on, or one that is to be done.
LEMMA Espera ==
    ASSUME NEW s \in Sondeado, SondeoBien(s), s.fase = "pregunta", ahora \in Nat,
           NEW l \in 1..MaxCargas, NEW p \in Nat, p <= ahora,
           cargas[l] = 0 \/ cargas[l] >= p,
           UNCHANGED <<ahora, hook, cargas>>,
           NEW t,
           t = [fase |-> "espera", etapa |-> s.etapa, carga |-> l, leido |-> s.leido,
                piso |-> Append(s.piso, p), vivo |-> s.vivo, error |-> s.error, espera |-> s.espera]
    PROVE  t \in Sondeado /\ SondeoBien(t)' /\ t.carga = l
<1>2. s.piso \in Seq(Nat) /\ s.leido \in Seq(Nat)
  BY DEF Sondeado
<1>3. /\ Append(s.piso, p) \in Seq(Nat) /\ Len(Append(s.piso, p)) = Len(s.piso) + 1
      /\ \A k \in 1..Len(s.piso) : Append(s.piso, p)[k] = s.piso[k]
      /\ Append(s.piso, p)[Len(s.piso) + 1] = p
      /\ Len(s.piso) \in Nat /\ Len(s.leido) \in Nat
  BY <1>2, AppendProperties
<1>4. t \in Sondeado
  <2>1. /\ s.etapa \in 1..2 /\ s.leido \in Seq(Nat) /\ s.vivo \in Nat
        /\ s.error \in BOOLEAN /\ s.espera \in Nat
    BY DEF Sondeado
  <2>2. PICK q : q = Append(s.piso, p) /\ q \in Seq(Nat)
    BY <1>3
  <2>3. "espera" \in Fases /\ l \in 0..MaxCargas
    BY CotasAssumption DEF Fases
  <2>4. t = [fase |-> "espera", etapa |-> s.etapa, carga |-> l, leido |-> s.leido,
             piso |-> q, vivo |-> s.vivo, error |-> s.error, espera |-> s.espera]
    BY <2>2, Zenon
  <2> QED BY ONLY <2>1, <2>2, <2>3, <2>4 DEF Sondeado
<1>5. PICK q : q = Append(s.piso, p)
  OBVIOUS
<1>6. /\ t.fase = "espera" /\ t.etapa = s.etapa /\ t.carga = l /\ t.leido = s.leido /\ t.piso = q
  BY <1>5
<1>7. /\ s.etapa = 2 => hook = "silla"
      /\ Len(s.piso) = Len(s.leido)
      /\ \A k \in 1..Len(s.leido) : k <= Len(s.piso) /\ s.piso[k] <= s.leido[k]
      /\ \A k \in 1..Len(s.piso) : s.piso[k] <= ahora
  BY DEF SondeoBien
<1>8. PICK n \in Nat : n = Len(s.leido)
  BY <1>3
<1>9. /\ Len(q) = n + 1 /\ Len(s.leido) = n /\ q[n + 1] = p
      /\ \A k \in 1..n : q[k] = s.piso[k] /\ s.piso[k] <= s.leido[k] /\ s.piso[k] <= ahora
  BY ONLY <1>3, <1>5, <1>7, <1>8
<1>10. /\ \A k \in 1..n : k <= n + 1 /\ q[k] <= s.leido[k]
       /\ \A k \in 1..(n + 1) : q[k] <= ahora
  BY ONLY <1>9, n \in Nat, p <= ahora
<1>11. SondeoBien(t)'
  BY ONLY <1>6, <1>7, <1>9, <1>10, UNCHANGED <<ahora, hook, cargas>>, l \in 1..MaxCargas,
          cargas[l] = 0 \/ cargas[l] >= p
     DEF SondeoBien
<1> QED BY <1>4, <1>6, <1>11

\* A request joins the read a cache holds, or begins one.
LEMMA PideConserva ==
    ASSUME IInv, NEW i \in 1..MaxSondeos, Pide(i)
    PROVE  IInv'
<1> USE DEF IInv
<1>1. PICK s \in Sondeado : s = sondeos[i] /\ SondeoBien(s)
  BY DEF Sondeos
<1>2. PICK c \in Caches : c = Etapas[hook][s.etapa]
  <2>1. s.etapa \in DOMAIN Etapas[hook]
    BY <1>1, EtapasDelHook DEF SondeoBien, Sondeado
  <2> QED BY <2>1, EtapasDelHook
<1>3. PICK p \in Nat : p = Mayor(confirmado[c], hace[1])
  BY ElPiso
<1>4. /\ s.fase = "pregunta"
      /\ UNCHANGED <<historia, escritor, confirmado, cargas, hace, pestana, timeoutRef, eventos>>
  BY <1>1 DEF Pide, base
<1>5. /\ UNCHANGED <<hook, ahora>> /\ s.carga = 0 /\ ahora \in Nat
      /\ p <= ahora /\ p >= confirmado[c] /\ p >= hace[1] /\ p \in {confirmado[c], hace[1]}
  BY <1>1, <1>3, <1>4, ElPiso DEF hook, ahora, SondeoBien, Historia, EsSecuencia
<1>6. /\ timeoutRef' \in 0..MaxSondeos /\ eventos' \in 0..MaxEventos
      /\ timeoutRef # i
  BY <1>1, <1>4 DEF Sondeos
<1> DEFINE Esperando(l) == [s EXCEPT !.fase = "espera", !.carga = l, !.piso = Append(@, p)]
<1>7. \/ /\ entrada[c].carga # 0 /\ entrada' = entrada
         /\ sondeos' = [sondeos EXCEPT ![i] = Esperando(entrada[c].carga)]
      \/ \E l \in 1..MaxCargas :
            Cargar(c, l) /\ sondeos' = [sondeos EXCEPT ![i] = Esperando(l)]
  BY <1>1, <1>2, <1>3 DEF Pide, Obtener
<1>8. ASSUME NEW l \in 1..MaxCargas, cargas[l] = 0 \/ cargas[l] >= p,
             sondeos' = [sondeos EXCEPT ![i] = Esperando(l)]
      PROVE  /\ Sondeos'
             /\ \A j \in 1..MaxSondeos :
                   sondeos[j].carga # 0 => sondeos'[j].carga = sondeos[j].carga
  <2>1. PICK t : t = Esperando(l)
    OBVIOUS
  <2>2. t \in Sondeado /\ SondeoBien(t)' /\ t.carga = l
    <3>1. /\ SondeoBien(s) /\ s.fase = "pregunta" /\ ahora \in Nat /\ p <= ahora
          /\ cargas[l] = 0 \/ cargas[l] >= p
          /\ UNCHANGED <<ahora, hook, cargas>>
      BY <1>1, <1>4, <1>5, <1>8
    <3>2. t = [s EXCEPT !.fase = "espera", !.carga = l, !.piso = Append(@, p)]
      BY <2>1
    <3>3. t = [fase |-> "espera", etapa |-> s.etapa, carga |-> l, leido |-> s.leido,
               piso |-> Append(s.piso, p), vivo |-> s.vivo, error |-> s.error, espera |-> s.espera]
      BY ONLY <3>2, s \in Sondeado DEF Sondeado
    <3> QED BY ONLY s \in Sondeado, l \in 1..MaxCargas, p \in Nat, <3>1, <3>3, Espera, Zenon
  <2>3. sondeos' = [sondeos EXCEPT ![i] = t]
    BY <1>8, <2>1
  <2>4. timeoutRef' # 0 => sondeos'[timeoutRef'].fase = "duerme"
    BY <1>4, <1>6, <2>3 DEF Sondeos
  <2>5. Sondeos'
    <3>1. \A j \in 1..MaxSondeos : j # i /\ sondeos[j].carga # 0 =>
              cargas'[sondeos[j].carga] = cargas[sondeos[j].carga]
      BY ONLY <1>4
    <3>2. UNCHANGED <<hook, ahora>> /\ timeoutRef' \in 0..MaxSondeos /\ eventos' \in 0..MaxEventos
      BY <1>5, <1>6
    <3>3. t \in Sondeado /\ SondeoBien(t)'
      BY <2>2
    <3> QED BY ONLY Sondeos, i \in 1..MaxSondeos, <3>1, <3>2, <3>3, <2>3, <2>4,
                    SondeoCambia, Zenon
  <2> QED BY <1>1, <1>5, <2>3, <2>5 DEF Sondeos
<1>9. CASE /\ entrada[c].carga # 0 /\ entrada' = entrada
           /\ sondeos' = [sondeos EXCEPT ![i] = Esperando(entrada[c].carga)]
  <2>1. entrada[c].carga \in 1..MaxCargas /\ entrada[c].resta \in 1..Ttl /\ AlDia(c, entrada[c])
    BY <1>9, CotasAssumption, TiemposAssumption DEF Entradas
  <2>2. PICK k \in 1..Ttl : k = entrada[c].resta
    BY <2>1
  <2>3. hace[1] <= hace[k] /\ hace[1] \in Nat /\ hace[k] \in Nat /\ confirmado[c] \in Nat
    BY TiemposAssumption DEF Historia
  <2>4. PICK l \in 1..MaxCargas : l = entrada[c].carga
    BY <2>1
  <2>5. cargas[l] \in Nat
    BY <1>5 DEF Cargas
  <2>6. cargas[l] = 0 \/ cargas[l] >= p
    BY ONLY <1>5, <2>1, <2>2, <2>3, <2>4, <2>5 DEF AlDia
  <2>7. /\ Sondeos'
        /\ \A j \in 1..MaxSondeos :
              sondeos[j].carga # 0 => sondeos'[j].carga = sondeos[j].carga
    BY <1>8, <1>9, <2>4, <2>6
  <2> QED BY <1>4, <1>9, <2>7, LaPestana
<1>10. ASSUME NEW l \in 1..MaxCargas, Cargar(c, l),
              sondeos' = [sondeos EXCEPT ![i] = Esperando(l)]
       PROVE  IInv'
  <2>1. /\ Historia' /\ Escritor' /\ Entradas' /\ cargas[l] = 0
        /\ \A m \in 1..MaxCargas : \A ss : EnUso(m, entrada, ss) => EnUso(m, entrada', ss)
    BY <1>4, <1>10, CargarConserva
  <2>2. /\ Sondeos'
        /\ \A j \in 1..MaxSondeos :
              sondeos[j].carga # 0 => sondeos'[j].carga = sondeos[j].carga
    BY <1>8, <1>10, <2>1
  <2>3. Cargas'
    <3>1. ASSUME NEW m \in 1..MaxCargas, EnUso(m, entrada, sondeos)
          PROVE  EnUso(m, entrada', sondeos')
      <4>1. EnUso(m, entrada', sondeos)
        BY <2>1, <3>1
      <4> QED BY ONLY <2>2, <4>1, m \in 1..MaxCargas DEF EnUso
    <3> QED BY <1>4, <1>5, <3>1 DEF Cargas
  <2> QED BY <2>1, <2>2, <2>3
<1> QED BY <1>7, <1>9, <1>10

\* An answer leaves with what its last read saw, or asks for the next one.
LEMMA Contesta ==
    ASSUME NEW s \in Sondeado, SondeoBien(s), s.fase = "espera", ahora \in Nat,
           NEW n \in Nat, n = cargas[s.carga], n > 0,
           ahora' = ahora, hook' = hook,
           NEW f \in {"pregunta", "vuelve"}, NEW e \in 1..2, e = 2 => hook = "silla",
           NEW v \in Nat, NEW q, q = Append(s.leido, n),
           NEW t, t = [fase |-> f, etapa |-> e, carga |-> 0, leido |-> q, piso |-> s.piso,
                       vivo |-> v, error |-> s.error, espera |-> s.espera]
    PROVE  t \in Sondeado /\ SondeoBien(t)' /\ t.carga = 0
<1>1. /\ s.piso \in Seq(Nat) /\ s.leido \in Seq(Nat) /\ s.error \in BOOLEAN /\ s.espera \in Nat
      /\ Len(s.piso) \in Nat /\ Len(s.leido) \in Nat
  BY DEF Sondeado
<1>2. /\ q \in Seq(Nat) /\ Len(q) = Len(s.leido) + 1
      /\ \A k \in 1..Len(s.leido) : q[k] = s.leido[k]
      /\ q[Len(s.leido) + 1] = n
  BY <1>1, AppendProperties
<1>3. t \in Sondeado
  <2>1. f \in Fases /\ 0 \in 0..MaxCargas
    BY CotasAssumption DEF Fases
  <2> QED BY ONLY <1>1, <1>2, <2>1, e \in 1..2, v \in Nat,
                  t = [fase |-> f, etapa |-> e, carga |-> 0, leido |-> q, piso |-> s.piso,
                       vivo |-> v, error |-> s.error, espera |-> s.espera]
           DEF Sondeado
<1>4. /\ t.fase = f /\ t.etapa = e /\ t.carga = 0 /\ t.leido = q /\ t.piso = s.piso
  OBVIOUS
<1>5. PICK m \in Nat : m = Len(s.leido)
  BY <1>1
<1>6. /\ Len(s.piso) = m + 1 /\ Len(q) = m + 1 /\ q[m + 1] = n
      /\ \A k \in 1..m : q[k] = s.leido[k]
  BY <1>2, <1>5 DEF SondeoBien
<1>7. /\ \A k \in 1..m : s.piso[k] <= s.leido[k]
      /\ \A k \in 1..(m + 1) : s.piso[k] <= ahora
      /\ n >= s.piso[m + 1]
  BY <1>5, <1>6 DEF SondeoBien
<1>8. s.piso[m + 1] \in Nat
  BY <1>1, <1>6
<1>9. \A k \in 1..(m + 1) : k <= m + 1 /\ s.piso[k] <= q[k]
  BY ONLY <1>6, <1>7, <1>8, n \in Nat, m \in Nat
<1>10. SondeoBien(t)'
  BY ONLY <1>4, <1>6, <1>7, <1>9, ahora' = ahora, hook' = hook, e = 2 => hook = "silla",
          f \in {"pregunta", "vuelve"}
     DEF SondeoBien
<1> QED BY <1>3, <1>4, <1>10

\* A request gets its row.
LEMMA RecibeConserva ==
    ASSUME IInv, NEW i \in 1..MaxSondeos, Recibe(i)
    PROVE  IInv'
<1> USE DEF IInv
<1>1. PICK s \in Sondeado : s = sondeos[i] /\ SondeoBien(s)
  BY DEF Sondeos
<1>2. /\ s.fase = "espera" /\ cargas[s.carga] > 0
      /\ cargas' = Quedan(cargas, entrada', sondeos')
      /\ UNCHANGED <<historia, escritor, confirmado, entrada, hace, pestana, timeoutRef, eventos>>
  BY <1>1 DEF Recibe, base
<1>3. UNCHANGED <<hook, ahora>> /\ ahora \in Nat /\ ahora >= 1
  BY <1>2 DEF hook, ahora, Historia, EsSecuencia
<1>4. s.carga \in 1..MaxCargas
  BY <1>1, <1>2, CotasAssumption DEF SondeoBien, Sondeado
<1>5. PICK n \in Nat : n = cargas[s.carga] /\ n > 0
  BY <1>2, <1>3, <1>4 DEF Cargas
<1>6. PICK q : q = Append(s.leido, n)
  OBVIOUS
<1> DEFINE Va(f, e, v) == [fase |-> f, etapa |-> e, carga |-> 0, leido |-> q, piso |-> s.piso,
                           vivo |-> v, error |-> s.error, espera |-> s.espera]
<1>7. PICK f \in {"pregunta", "vuelve"}, e \in 1..2, v \in Nat :
          /\ e = 2 => hook = "silla"
          /\ sondeos' = [sondeos EXCEPT ![i] = Va(f, e, v)]
  <2>1. \/ /\ hook = "silla"
           /\ sondeos' = [sondeos EXCEPT ![i] =
                [s EXCEPT !.fase = "pregunta", !.etapa = 2, !.carga = 0, !.leido = q]]
        \/ sondeos' = [sondeos EXCEPT ![i] =
              [s EXCEPT !.fase = "vuelve", !.carga = 0, !.leido = q, !.vivo = ahora]]
    BY <1>1, <1>5, <1>6 DEF Recibe
  <2>2. s.etapa \in 1..2 /\ s.vivo \in Nat /\ (s.etapa = 2 => hook = "silla")
    BY <1>1 DEF Sondeado, SondeoBien
  <2>3. [s EXCEPT !.fase = "pregunta", !.etapa = 2, !.carga = 0, !.leido = q]
          = [fase |-> "pregunta", etapa |-> 2, carga |-> 0, leido |-> q, piso |-> s.piso,
             vivo |-> s.vivo, error |-> s.error, espera |-> s.espera]
    <3>1. PICK x : x = [s EXCEPT !.fase = "pregunta", !.etapa = 2, !.carga = 0, !.leido = q]
      OBVIOUS
    <3>2. x = [fase |-> "pregunta", etapa |-> 2, carga |-> 0, leido |-> q, piso |-> s.piso,
               vivo |-> s.vivo, error |-> s.error, espera |-> s.espera]
      BY ONLY <3>1, s \in Sondeado DEF Sondeado
    <3> QED BY ONLY <3>1, <3>2, Zenon
  <2>4. [s EXCEPT !.fase = "vuelve", !.carga = 0, !.leido = q, !.vivo = ahora]
          = [fase |-> "vuelve", etapa |-> s.etapa, carga |-> 0, leido |-> q, piso |-> s.piso,
             vivo |-> ahora, error |-> s.error, espera |-> s.espera]
    <3>1. PICK x : x = [s EXCEPT !.fase = "vuelve", !.carga = 0, !.leido = q, !.vivo = ahora]
      OBVIOUS
    <3>2. x = [fase |-> "vuelve", etapa |-> s.etapa, carga |-> 0, leido |-> q, piso |-> s.piso,
               vivo |-> ahora, error |-> s.error, espera |-> s.espera]
      BY ONLY <3>1, s \in Sondeado DEF Sondeado
    <3> QED BY ONLY <3>1, <3>2, Zenon
  <2>5. /\ [s EXCEPT !.fase = "pregunta", !.etapa = 2, !.carga = 0, !.leido = q]
               = Va("pregunta", 2, s.vivo)
        /\ [s EXCEPT !.fase = "vuelve", !.carga = 0, !.leido = q, !.vivo = ahora]
               = Va("vuelve", s.etapa, ahora)
    BY ONLY <2>3, <2>4, Zenon
  <2> HIDE DEF Va
  <2>6. CASE /\ hook = "silla"
             /\ sondeos' = [sondeos EXCEPT ![i] =
                   [s EXCEPT !.fase = "pregunta", !.etapa = 2, !.carga = 0, !.leido = q]]
    <3>1. sondeos' = [sondeos EXCEPT ![i] = Va("pregunta", 2, s.vivo)]
      BY ONLY <2>5, <2>6, Zenon
    <3>2. "pregunta" \in {"pregunta", "vuelve"} /\ 2 \in 1..2
      OBVIOUS
    <3> QED BY ONLY <2>2, <2>6, <3>1, <3>2
  <2>7. CASE sondeos' = [sondeos EXCEPT ![i] =
                [s EXCEPT !.fase = "vuelve", !.carga = 0, !.leido = q, !.vivo = ahora]]
    <3>1. sondeos' = [sondeos EXCEPT ![i] = Va("vuelve", s.etapa, ahora)]
      BY ONLY <2>5, <2>7, Zenon
    <3>2. "vuelve" \in {"pregunta", "vuelve"}
      OBVIOUS
    <3> QED BY ONLY <1>3, <2>2, <3>1, <3>2
  <2> QED BY <2>1, <2>6, <2>7
<1>8. PICK t : t = [fase |-> f, etapa |-> e, carga |-> 0, leido |-> q, piso |-> s.piso,
                    vivo |-> v, error |-> s.error, espera |-> s.espera]
  OBVIOUS
<1>9. t \in Sondeado /\ SondeoBien(t)' /\ t.carga = 0
  <2>1. ahora' = ahora /\ hook' = hook /\ (e = 2 => hook = "silla")
    BY <1>3, <1>7
  <2> QED BY ONLY s \in Sondeado, <1>1, <1>2, <1>3, n \in Nat, <1>5, <2>1, <1>6, <1>8,
                  f \in {"pregunta", "vuelve"}, e \in 1..2, v \in Nat, Contesta, Zenon
<1>10. sondeos' = [sondeos EXCEPT ![i] = t]
  BY ONLY <1>7, <1>8, Zenon
<1>11. /\ Cargas'
       /\ \A l \in 1..MaxCargas : EnUso(l, entrada', sondeos') => cargas'[l] = cargas[l]
  <2>1. ahora' \in Nat /\ ahora <= ahora'
    BY <1>3
  <2> QED BY ONLY Cargas, <1>2, <1>3, <2>1, QuedanEnUso
<1>12. \A j \in 1..MaxSondeos : j # i => sondeos'[j] = sondeos[j]
  BY <1>10 DEF Sondeos
<1>13. Historia' /\ Escritor'
  BY ONLY Historia, Escritor, <1>2, <1>3 DEF Historia, Escritor
<1>14. Entradas'
  <2>1. ASSUME NEW c \in Caches, entrada[c].carga # 0 PROVE AlDia(c, entrada[c])'
    <3>1. entrada[c].carga \in 1..MaxCargas /\ AlDia(c, entrada[c])
      BY <2>1, CotasAssumption DEF Entradas
    <3>2. EnUso(entrada[c].carga, entrada', sondeos')
      BY <1>2 DEF EnUso
    <3>3. cargas'[entrada[c].carga] = cargas[entrada[c].carga]
      BY <1>11, <3>1, <3>2
    <3> QED BY ONLY <1>2, <3>1, <3>3 DEF AlDia
  <2> QED BY ONLY Entradas, <1>2, <2>1 DEF Entradas
<1>15. Sondeos'
  <2>1. \A j \in 1..MaxSondeos : j # i /\ sondeos[j].carga # 0 =>
            cargas'[sondeos[j].carga] = cargas[sondeos[j].carga]
    <3> SUFFICES ASSUME NEW j \in 1..MaxSondeos, j # i, sondeos[j].carga # 0
                 PROVE  cargas'[sondeos[j].carga] = cargas[sondeos[j].carga]
      OBVIOUS
    <3>1. sondeos[j].carga \in 1..MaxCargas
      <4>1. sondeos[j].carga \in 0..MaxCargas
        BY DEF Sondeos, Sondeado
      <4> QED BY ONLY <4>1, sondeos[j].carga # 0, CotasAssumption
    <3>2. EnUso(sondeos[j].carga, entrada', sondeos')
      BY <1>12 DEF EnUso
    <3> QED BY <1>11, <3>1, <3>2
  <2>2. UNCHANGED <<hook, ahora>> /\ timeoutRef' \in 0..MaxSondeos /\ eventos' \in 0..MaxEventos
    BY <1>2, <1>3 DEF Sondeos
  <2>3. timeoutRef' # 0 => sondeos'[timeoutRef'].fase = "duerme"
    BY <1>1, <1>2, <1>12, CotasAssumption DEF Sondeos
  <2> QED BY ONLY Sondeos, i \in 1..MaxSondeos, <2>1, <2>2, <1>9, <1>10, <2>3,
                  SondeoCambia, Zenon
<1> QED BY <1>11, <1>13, <1>14, <1>15

\* A tab that is hidden or shown does not change its hook.
LEMMA MismoHook ==
    ASSUME Pestana, NEW b, pestana' = [pestana EXCEPT !.oculta = b]
    PROVE  Pestana' /\ hook' = hook
<1>1. DOMAIN pestana' = DOMAIN pestana /\ pestana'.tipo = pestana.tipo
  BY DEF Pestana
<1> QED BY ONLY <1>1, Pestana DEF Pestana, hook

\* A hidden tab keeps its cycles.
LEMMA OcultaConserva ==
    ASSUME IInv, Pestana, Oculta
    PROVE  IInv'
<1> USE DEF IInv
<1>1. /\ eventos < MaxEventos /\ eventos' = eventos + 1
      /\ pestana' = [pestana EXCEPT !.oculta = TRUE]
      /\ UNCHANGED <<historia, escritor, confirmado, entrada, cargas, hace, sondeos, timeoutRef>>
  BY DEF Oculta, base, memoria
<1>2. hook' = hook /\ ahora' = ahora
  BY <1>1, MismoHook DEF ahora
<1>3. eventos' \in 0..MaxEventos
  BY <1>1, CotasAssumption DEF Sondeos
<1>4. Sondeos'
  BY ONLY Sondeos, <1>1, <1>2, <1>3 DEF Sondeos, SondeoBien
<1> QED BY <1>1, <1>4, LaPestana

\* The tab that is shown again drops the cycle that slept and begins another.
LEMMA MuestraConserva ==
    ASSUME IInv, Pestana, Muestra
    PROVE  IInv'
<1> USE DEF IInv
<1>1. /\ pestana' = [pestana EXCEPT !.oculta = FALSE]
      /\ UNCHANGED <<historia, escritor, confirmado, entrada, cargas, hace, eventos>>
  BY DEF Muestra, base, memoria
<1>2. hook' = hook /\ ahora' = ahora
  BY <1>1, MismoHook DEF ahora
<1>3. CASE UNCHANGED <<sondeos, timeoutRef>>
  <2>1. Sondeos'
    BY ONLY Sondeos, <1>1, <1>2, <1>3 DEF Sondeos, SondeoBien
  <2> QED BY <1>1, <1>3, <2>1, LaPestana
<1>4. CASE HayLugar /\ sondeos' = alVolver /\ timeoutRef' = 0
  <2>1. PICK sin : sin = IF timeoutRef = 0 THEN sondeos
                         ELSE [sondeos EXCEPT ![timeoutRef] = SinSondeo]
    OBVIOUS
  <2>2. /\ sin \in [1..MaxSondeos -> Sondeado]
        /\ \A j \in 1..MaxSondeos :
              \/ sin[j] = sondeos[j]
              \/ j = timeoutRef /\ sin[j] = Quieto("no", 0)
    <3>1. Quieto("no", 0) \in Sondeado /\ SinSondeo = Quieto("no", 0)
      BY QuietoBien, LosQuietos
    <3> QED BY ONLY Sondeos, <2>1, <3>1 DEF Sondeos
  <2>3. PICK libre \in 1..MaxSondeos :
            libre = (CHOOSE i \in 1..MaxSondeos : sin[i].fase = "no") /\ sin[libre].fase = "no"
    <3>1. PICK i \in 1..MaxSondeos : i = timeoutRef \/ sondeos[i].fase = "no"
      BY <1>4 DEF HayLugar
    <3>2. sin[i].fase = "no"
      <4>1. CASE i = timeoutRef
        <5>1. timeoutRef # 0 /\ SinSondeo = Quieto("no", 0)
          <6>1. timeoutRef # 0
            BY ONLY i = timeoutRef, i \in 1..MaxSondeos, CotasAssumption
          <6> QED BY <6>1, LosQuietos
        <5>2. sin[i] = Quieto("no", 0)
          BY <2>1, <4>1, <5>1 DEF Sondeos
        <5> QED BY ONLY <5>2 DEF Quieto
      <4>2. CASE i # timeoutRef
        BY <2>2, <3>1, <4>2
      <4> QED BY <4>1, <4>2
    <3> QED BY <3>2
  <2>4. sondeos' = [sin EXCEPT ![libre] = Quieto("pregunta", 0)]
    <3>1. Pregunta = Quieto("pregunta", 0)
      BY LosQuietos
    <3>2. alVolver = [sin EXCEPT ![CHOOSE i \in 1..MaxSondeos : sin[i].fase = "no"] = Pregunta]
      BY <2>1 DEF alVolver
    <3> QED BY ONLY <1>4, <2>3, <3>1, <3>2, Zenon
  <2>5. Quieto("pregunta", 0) \in Sondeado
    BY QuietoBien
  <2>6. /\ sondeos' \in [1..MaxSondeos -> Sondeado]
        /\ \A j \in 1..MaxSondeos :
              \/ sondeos'[j] = sondeos[j]
              \/ j = timeoutRef /\ sondeos'[j] = Quieto("no", 0)
              \/ j = libre /\ sondeos'[j] = Quieto("pregunta", 0)
    BY ONLY <2>2, <2>4, <2>5, libre \in 1..MaxSondeos
  <2>7. \A j \in 1..MaxSondeos : SondeoBien(sondeos[j])'
    <3> SUFFICES ASSUME NEW j \in 1..MaxSondeos PROVE SondeoBien(sondeos[j])'
      OBVIOUS
    <3>1. PICK r : r = sondeos[j] /\ SondeoBien(r)
      BY DEF Sondeos
    <3>2. CASE sondeos'[j] = r
      <4>1. SondeoBien(r)'
        BY <1>1, <1>2, <3>1 DEF SondeoBien
      <4> QED BY ONLY <3>2, <4>1 DEF SondeoBien
    <3>3. ASSUME NEW f \in {"no", "pregunta"}, sondeos'[j] = Quieto(f, 0)
          PROVE  SondeoBien(sondeos[j])'
      <4>1. PICK q : q = Quieto(f, 0) /\ SondeoBien(q)'
        <5>1. SondeoBien(Quieto(f, 0))'
          BY QuietoBien
        <5> QED BY ONLY <5>1 DEF SondeoBien, Quieto
      <4> QED BY ONLY <3>3, <4>1 DEF SondeoBien
    <3> QED BY <2>6, <3>1, <3>2, <3>3
  <2>8. \A j \in 1..MaxSondeos : sondeos[j].carga # 0 => sondeos'[j].carga = sondeos[j].carga
    <3> SUFFICES ASSUME NEW j \in 1..MaxSondeos, sondeos[j].carga # 0
                 PROVE  sondeos'[j] = sondeos[j]
      OBVIOUS
    <3>1. sondeos[j].fase = "espera"
      BY DEF Sondeos, SondeoBien
    <3>2. j # timeoutRef
      BY <3>1, CotasAssumption DEF Sondeos
    <3>3. sin[j] = sondeos[j] /\ j # libre
      BY <2>2, <2>3, <3>1, <3>2
    <3> QED BY ONLY <2>2, <2>4, <3>3, j \in 1..MaxSondeos
  <2>9. Sondeos'
    <3>1. eventos' \in 0..MaxEventos /\ 0 \in 0..MaxSondeos
      BY <1>1, CotasAssumption DEF Sondeos
    <3> QED BY ONLY <1>4, <2>6, <2>7, <3>1 DEF Sondeos
  <2> QED BY <1>1, <2>8, <2>9, LaPestana
<1> QED BY <1>3, <1>4 DEF Muestra

\* A tick: the caches age, the timers run, and one more state is Ttl ticks away.
LEMMA TicConserva ==
    ASSUME IInv, Tic
    PROVE  IInv'
<1> USE DEF IInv
<1>1. /\ entrada' = [c \in Caches |-> Caduca(entrada[c])]
      /\ cargas' = Quedan(cargas, entrada', sondeos)
      /\ hace' = Append(Tail(hace), ahora)
      /\ UNCHANGED <<historia, escritor, confirmado, pestana, timeoutRef, eventos>>
  BY DEF Tic, base
<1>2. UNCHANGED <<hook, ahora>> /\ ahora \in Nat /\ ahora >= 1
  BY <1>1 DEF hook, ahora, Historia, EsSecuencia
<1>3. /\ \A k \in 1..Ttl : k < Ttl => hace'[k] = hace[k + 1]
      /\ hace'[Ttl] = ahora /\ hace' \in [1..Ttl -> 1..ahora]
  <2>1. hace \in Seq(1..ahora) /\ Len(hace) = Ttl /\ ahora \in 1..ahora
    <3>1. hace \in [1..Ttl -> 1..ahora]
      BY DEF Historia
    <3> QED BY <1>2, <3>1, TiemposAssumption
  <2>2. PICK r : r = Tail(hace)
    OBVIOUS
  <2>3. /\ r \in Seq(1..ahora) /\ Len(r) = Ttl - 1 /\ \A k \in 1..(Ttl - 1) : r[k] = hace[k + 1]
    BY ONLY <2>1, <2>2, TiemposAssumption
  <2>4. /\ Append(r, ahora) \in Seq(1..ahora) /\ Len(Append(r, ahora)) = Ttl
        /\ \A k \in 1..(Ttl - 1) : Append(r, ahora)[k] = r[k]
        /\ Append(r, ahora)[Ttl] = ahora
    BY ONLY <2>1, <2>3, TiemposAssumption, AppendProperties
  <2>5. PICK z : z = Append(r, ahora) /\ hace' = z
    BY <1>1, <2>2
  <2>6. z \in [1..Ttl -> 1..ahora]
    <3>1. z \in Seq(1..ahora) /\ Len(z) = Ttl
      BY ONLY <2>4, <2>5, Zenon
    <3> QED BY ONLY <3>1, LenProperties
  <2>7. \A k \in 1..Ttl : k < Ttl => z[k] = hace[k + 1]
    <3> SUFFICES ASSUME NEW k \in 1..Ttl, k < Ttl PROVE z[k] = hace[k + 1]
      OBVIOUS
    <3>1. k \in 1..(Ttl - 1)
      BY ONLY k \in 1..Ttl, k < Ttl, TiemposAssumption
    <3>2. Append(r, ahora)[k] = r[k] /\ r[k] = hace[k + 1]
      BY ONLY <2>3, <2>4, <3>1, Zenon
    <3> QED BY ONLY <2>5, <3>2, Zenon
  <2>8. z[Ttl] = ahora
    BY ONLY <2>4, <2>5, Zenon
  <2> QED BY ONLY <2>5, <2>6, <2>7, <2>8
<1>4. Historia'
  <2>1. \A i \in 1..Ttl : hace[i] \in Nat /\ hace[i] <= ahora
    BY <1>2 DEF Historia
  <2>2. \A i, j \in 1..Ttl : i <= j => hace'[i] <= hace'[j]
    <3> SUFFICES ASSUME NEW i \in 1..Ttl, NEW j \in 1..Ttl, i <= j PROVE hace'[i] <= hace'[j]
      OBVIOUS
    <3>1. CASE j < Ttl
      <4>1. i + 1 \in 1..Ttl /\ j + 1 \in 1..Ttl /\ i + 1 <= j + 1 /\ i < Ttl
        BY <3>1, TiemposAssumption
      <4> QED BY <1>3, <3>1, <4>1 DEF Historia
    <3>2. CASE j = Ttl /\ i < Ttl
      <4>1. i + 1 \in 1..Ttl
        BY <3>2, TiemposAssumption
      <4> QED BY <1>3, <2>1, <3>2, <4>1
    <3>3. CASE j = Ttl /\ i = Ttl
      BY <1>2, <1>3, <3>3
    <3> QED BY <3>1, <3>2, <3>3, TiemposAssumption
  <2> QED BY ONLY Historia, <1>1, <1>2, <1>3, <2>2 DEF Historia
<1>5. Escritor'
  BY ONLY Escritor, <1>1, <1>2 DEF Escritor
<1>6. \A j \in 1..MaxSondeos : sondeos'[j] \in Sondeado /\ sondeos'[j].carga = sondeos[j].carga
  <2> SUFFICES ASSUME NEW j \in 1..MaxSondeos
               PROVE  sondeos'[j] \in Sondeado /\ sondeos'[j].carga = sondeos[j].carga
    OBVIOUS
  <2>1. PICK s \in Sondeado : s = sondeos[j]
    BY DEF Sondeos
  <2>2. sondeos'[j] = s \/ (s.espera > 0 /\ sondeos'[j] = [s EXCEPT !.espera = @ - 1])
    BY <2>1 DEF Tic
  <2>3. ASSUME s.espera > 0 PROVE [s EXCEPT !.espera = @ - 1] \in Sondeado
    <3>1. PICK n \in Nat : n = s.espera - 1
      BY <2>3 DEF Sondeado
    <3>2. [s EXCEPT !.espera = n] \in Sondeado
      BY DEF Sondeado
    <3> QED BY ONLY <3>1, <3>2
  <2> QED BY <2>1, <2>2, <2>3 DEF Sondeado
<1>7. /\ Cargas'
      /\ \A l \in 1..MaxCargas : EnUso(l, entrada', sondeos') => cargas'[l] = cargas[l]
  <2>1. ahora' \in Nat /\ ahora <= ahora'
    BY <1>2
  <2>2. cargas' = Quedan(cargas, entrada', sondeos')
    BY <1>1, <1>6 DEF Quedan, EnUso
  <2> QED BY ONLY Cargas, <1>2, <2>1, <2>2, QuedanEnUso
<1>8. Entradas'
  <2>1. ASSUME NEW c \in Caches
        PROVE  /\ entrada'[c] \in [carga : 0..MaxCargas, resta : 0..Ttl]
               /\ entrada'[c].carga # 0 => entrada'[c].resta >= 1 /\ AlDia(c, entrada[c])'
    <3>1. PICK e \in [carga : 0..MaxCargas, resta : 0..Ttl] :
              e = entrada[c] /\ (e.carga # 0 => e.resta >= 1 /\ AlDia(c, e))
      BY DEF Entradas
    <3>2. entrada'[c] = Caduca(e)
      BY <1>1, <3>1
    <3>3. CASE e.resta <= 1
      <4>1. entrada'[c] = SinEntradaDe
        BY <3>2, <3>3 DEF Caduca
      <4> QED BY <4>1, CotasAssumption, TiemposAssumption DEF SinEntradaDe
    <3>4. CASE e.resta > 1
      <4>1. entrada'[c] = [carga |-> e.carga, resta |-> e.resta - 1]
        BY <3>2, <3>4 DEF Caduca
      <4>2. PICK k \in 1..Ttl : k = e.resta /\ k > 1 /\ k - 1 \in 1..Ttl /\ k - 1 < Ttl
        BY <3>4, TiemposAssumption
      <4>3. hace'[k - 1] = hace[k]
        <5>1. k - 1 + 1 = k
          OBVIOUS
        <5> QED BY <1>3, <4>2, <5>1
      <4>4. ASSUME e.carga # 0 PROVE AlDia(c, entrada[c])'
        <5>1. e.carga \in 1..MaxCargas /\ AlDia(c, e)
          BY <3>1, <4>4, CotasAssumption
        <5>2. EnUso(e.carga, entrada', sondeos')
          BY <4>1 DEF EnUso
        <5>3. cargas'[e.carga] = cargas[e.carga]
          BY <1>7, <5>1, <5>2
        <5>4. entrada'[c].carga = e.carga /\ entrada'[c].resta = k - 1
          BY <4>1, <4>2
        <5> QED BY ONLY <1>1, <4>2, <4>3, <5>1, <5>3, <5>4 DEF AlDia
      <4>5. entrada'[c] \in [carga : 0..MaxCargas, resta : 0..Ttl] /\ entrada'[c].resta >= 1
        BY <4>1, <4>2
      <4> QED BY <4>1, <4>4, <4>5
    <3> QED BY <3>3, <3>4
  <2> QED BY <1>1, <2>1 DEF Entradas
<1>9. Sondeos'
  <2>1. ASSUME NEW j \in 1..MaxSondeos
        PROVE  SondeoBien(sondeos[j])' /\ sondeos'[j].fase = sondeos[j].fase
    <3>1. PICK s \in Sondeado : s = sondeos[j] /\ SondeoBien(s)
      BY DEF Sondeos
    <3>2. PICK t \in Sondeado : t = sondeos'[j] /\ t.carga = s.carga
      BY <1>6, <3>1
    <3>3. /\ t.fase = s.fase /\ t.etapa = s.etapa /\ t.carga = s.carga
          /\ t.leido = s.leido /\ t.piso = s.piso
      BY <3>1, <3>2 DEF Tic, Sondeado
    <3>4. s.carga # 0 => cargas'[s.carga] = cargas[s.carga]
      <4> SUFFICES ASSUME s.carga # 0 PROVE cargas'[s.carga] = cargas[s.carga]
        OBVIOUS
      <4>1. s.carga \in 0..MaxCargas
        BY DEF Sondeado
      <4>2. s.carga \in 1..MaxCargas
        BY ONLY <4>1, s.carga # 0, CotasAssumption
      <4>3. EnUso(s.carga, entrada', sondeos')
        BY <3>2 DEF EnUso
      <4> QED BY <1>7, <4>2, <4>3
    <3>5. SondeoBien(t)'
      BY ONLY <1>2, <3>1, <3>3, <3>4 DEF SondeoBien
    <3> QED BY ONLY <3>1, <3>2, <3>3, <3>5 DEF SondeoBien
  <2>2. sondeos' \in [1..MaxSondeos -> Sondeado]
    BY <1>6 DEF Tic
  <2> QED BY ONLY Sondeos, <1>1, <2>1, <2>2, CotasAssumption DEF Sondeos
<1> QED BY <1>4, <1>5, <1>7, <1>8, <1>9

-----------------------------------------------------------------------------
(***************************************************************************)
(* The theorems.                                                           *)
(***************************************************************************)
\* A tab is opened on a database, with everything still to be read.
LEMMA AlPrincipio ==
    ASSUME Init
    PROVE  IInv /\ Pestana
<1> USE DEF Init
<1>1. PICK d : historia = <<d>>
  OBVIOUS
<1>2. ahora = 1 /\ EsSecuencia(historia)
  BY ONLY <1>1 DEF ahora, EsSecuencia
<1>3. Historia
  BY <1>2, TiemposAssumption DEF Historia
<1>4. Escritor
  <2>1. EsSecuencia(<<>>) /\ Len(<<>>) = 0
    BY ONLY DEF EsSecuencia
  <2>2. Programa("nadie", <<>>)
    BY <2>1 DEF Programa
  <2>3. escritor = [pasos |-> <<>>, servicio |-> "nadie", hasta |-> [c \in Caches |-> 0], van |-> 0]
    BY DEF SinEscritor
  <2> QED BY ONLY <1>2, <2>2, <2>3, CotasAssumption DEF Escritor
<1>5. Entradas
  BY CotasAssumption, TiemposAssumption DEF Entradas, SinEntradaDe
<1>6. Cargas
  BY <1>2, CotasAssumption DEF Cargas
<1>7. Sondeos
  <2>1. ASSUME NEW i \in 1..MaxSondeos
        PROVE  sondeos[i] \in {Quieto("no", 0), Quieto("pregunta", 0)}
    BY LosQuietos
  <2>2. \A i \in 1..MaxSondeos : sondeos[i] \in Sondeado /\ SondeoBien(sondeos[i])
    BY ONLY <2>1, QuietoBien, 0 \in Nat
  <2>3. sondeos \in [1..MaxSondeos -> Sondeado]
    BY <2>2
  <2> QED BY <2>2, <2>3, CotasAssumption DEF Sondeos
<1>8. Pestana
  BY DEF Pestana
<1> QED BY <1>3, <1>4, <1>5, <1>6, <1>7, <1>8 DEF IInv

\* The kind of a tab is its kind for good.
LEMMA LaMismaPestana ==
    ASSUME IInv, Pestana, [Next]_vars
    PROVE  Pestana'
<1>1. ASSUME UNCHANGED pestana PROVE Pestana'
  BY <1>1 DEF Pestana
<1>2. CASE UNCHANGED vars
  BY <1>1, <1>2 DEF vars, tab
<1>3. CASE PagoYCola \/ Masaje \/ ConfirmarTurno
  <2>1. Maneja
    BY <1>3, LosDePagoYCola, LosDelMasaje, ElDeLaPagina
  <2> QED BY <1>1, <2>1 DEF Maneja, Corre, tab
<1>4. CASE Reloj
  BY <1>1, <1>4 DEF Reloj, PasaLaGracia, Latido, Cambia, tab
<1>5. CASE Paso
  BY <1>1, <1>5 DEF Paso, tab
<1>6. CASE OtraVisita
  BY <1>1, <1>6 DEF OtraVisita, tab
<1>7. CASE Oculta
  BY <1>7, MismoHook DEF Oculta
<1>8. CASE Muestra
  BY <1>8, MismoHook DEF Muestra
<1>9. CASE Tic
  BY <1>1, <1>9 DEF Tic
<1>10. CASE \E l \in 1..MaxCargas : Lee(l) \/ LeeFalla(l)
  BY <1>1, <1>10 DEF Lee, LeeFalla, tab
<1>11. CASE \E i \in 1..MaxSondeos : Sondeo(i) \/ Rechaza(i)
  BY <1>1, <1>11 DEF Sondeo, Despierta, Pide, Recibe, Aplica, Rechaza
<1> QED BY <1>2, <1>3, <1>4, <1>5, <1>6, <1>7, <1>8, <1>9, <1>10, <1>11 DEF Next

\* Every step keeps the invariant.
LEMMA IInvEsInductivo ==
    ASSUME IInv, Pestana, [Next]_vars
    PROVE  IInv' /\ Pestana'
<1>1. CASE UNCHANGED vars
  <2>1. UNCHANGED <<historia, escritor, confirmado, entrada, cargas, hace, pestana, sondeos,
                    timeoutRef, eventos>>
    BY <1>1 DEF vars, base, memoria, tab
  <2>2. UNCHANGED <<ahora, hook>>
    BY <2>1 DEF ahora, hook
  <2>3. Sondeos'
    BY ONLY IInv, <2>1, <2>2 DEF IInv, Sondeos, SondeoBien
  <2> QED BY <2>1, <2>3, LaPestana, LaMismaPestana
<1>2. CASE PagoYCola \/ Masaje \/ ConfirmarTurno
  <2>1. Maneja
    BY <1>2, LosDePagoYCola, LosDelMasaje, ElDeLaPagina
  <2> QED BY <2>1, ManejaConserva, LaMismaPestana
<1>3. CASE Reloj
  BY <1>3, RelojConserva, LaMismaPestana
<1>4. CASE Paso
  BY <1>4, PasoConserva, LaMismaPestana
<1>5. CASE OtraVisita
  BY <1>5, OtraVisitaConserva, LaMismaPestana
<1>6. CASE Oculta
  BY <1>6, OcultaConserva, LaMismaPestana
<1>7. CASE Muestra
  BY <1>7, MuestraConserva, LaMismaPestana
<1>8. CASE Tic
  BY <1>8, TicConserva, LaMismaPestana
<1>9. CASE \E l \in 1..MaxCargas : Lee(l) \/ LeeFalla(l)
  BY <1>9, LeeConserva, LeeFallaConserva, LaMismaPestana
<1>10. CASE \E i \in 1..MaxSondeos : Sondeo(i) \/ Rechaza(i)
  BY <1>10, DespiertaConserva, PideConserva, RecibeConserva, AplicaConserva, RechazaConserva,
     LaMismaPestana DEF Sondeo
<1> QED BY <1>1, <1>2, <1>3, <1>4, <1>5, <1>6, <1>7, <1>8, <1>9, <1>10 DEF Next

\* The invariant holds in every state.
LEMMA Siempre == Spec => [](IInv /\ Pestana)
<1>1. IInv /\ Pestana /\ [Next]_vars => (IInv /\ Pestana)'
  BY IInvEsInductivo
<1> QED BY AlPrincipio, <1>1, PTL DEF Spec

\* The caches, the reads and the cycles of a hook hold what they are meant to, for any
\* lifetime of the caches, any polling interval and any number of cycles.
THEOREM TipoCorrecto == Spec => []TypeOK
<1>1. ASSUME IInv PROVE TypeOK
  <2> USE <1>1 DEF IInv
  <2>1. escritor.van <= MaxManejos /\ Len(escritor.pasos) <= 8
    BY CotasAssumption DEF Escritor, Programa
  <2>2. entrada \in [Caches -> [carga : 0..MaxCargas, resta : 0..Ttl]]
    BY DEF Entradas
  <2>3. cargas \in [1..MaxCargas -> 0..ahora]
    BY DEF Cargas
  <2>4. hace \in [1..Ttl -> 1..ahora] /\ confirmado \in [Caches -> 1..ahora]
    BY DEF Historia
  <2>5. timeoutRef \in 0..MaxSondeos /\ eventos \in 0..MaxEventos
    BY DEF Sondeos
  <2>6. ASSUME NEW i \in 1..MaxSondeos, sondeos[i].fase = "espera"
        PROVE  sondeos[i].carga > 0
    <3>1. sondeos[i].carga \in 0..MaxCargas /\ sondeos[i].carga # 0
      BY <2>6 DEF Sondeos, SondeoBien, Sondeado
    <3> QED BY ONLY <3>1, CotasAssumption
  <2> QED BY <2>1, <2>2, <2>3, <2>4, <2>5, <2>6 DEF TypeOK
<1> QED BY <1>1, Siempre, PTL

\* No answer is older than what its request could count on when it was sent: the state
\* the database had Ttl ticks before, and all that a handler that had ended wrote to the
\* row.  Whatever the order of writes, invalidations, reads, expiries, failures, hidings
\* and polls that cross each other.
THEOREM NadaViejo == Spec => []RespuestaVigente
<1>1. ASSUME IInv PROVE RespuestaVigente
  <2> SUFFICES ASSUME NEW i \in 1..MaxSondeos, NEW e \in DOMAIN sondeos[i].leido
               PROVE  sondeos[i].leido[e] >= sondeos[i].piso[e]
    BY DEF RespuestaVigente
  <2>1. PICK s \in Sondeado : s = sondeos[i] /\ SondeoBien(s)
    BY <1>1 DEF IInv, Sondeos
  <2>2. s.leido \in Seq(Nat) /\ s.piso \in Seq(Nat)
    BY DEF Sondeado
  <2>3. e \in 1..Len(s.leido) /\ e <= Len(s.piso) /\ s.piso[e] <= s.leido[e]
    BY <2>1, <2>2 DEF SondeoBien
  <2>4. s.leido[e] \in Nat /\ s.piso[e] \in Nat
    BY <2>2, <2>3
  <2> QED BY <2>1, <2>3, <2>4
<1> QED BY <1>1, Siempre, PTL
=============================================================================
