----------------------------- MODULE Cola_proofs -----------------------------
(***************************************************************************)
(* What TLAPS proves of Cola for any turns (finitely many), chairs,        *)
(* vouchers, slots, restarts and failed calls:                             *)
(*                                                                         *)
(*   TipoCorrecto       every variable has its type, and a turn that is    *)
(*                      ASIGNADO or EN_USO has a chair;                    *)
(*   ValeGastado        a voucher is one turn at most, and a spent one is  *)
(*                      a turn or in the hands of a call;                  *)
(*   EnOrden            turns are assigned in the order they were paid;    *)
(*   NadieSigueSentado  a turn in use has a session that somebody closes,  *)
(*                      or is one of those its close missed;               *)
(*   ReservadaConAlguien  a reserved chair is somebody's;                  *)
(*   UnTurnoPorSilla    a chair is given to one turn at a time;            *)
(*   NadieEsperaEnVano  a turn that waits is woken.                        *)
(*                                                                         *)
(* IInv is inductive: one lemma for each group of actions, one step for    *)
(* each action, and in it one for each conjunct.  Vida, Uso,               *)
(* UnVencimiento, SinCruce, UnDuenio and Despertador are inductive on top  *)
(* of it, each stated for one turn or one chair; PasoDeLaCola tells the    *)
(* steps that touch a chair, or a turn that has one, from those that do    *)
(* not.                                                                    *)
(***************************************************************************)
EXTENDS Cola, FiniteSetTheorems, TLAPS

\* The calls in flight are well typed.
TipoHilo == hilo \in [Slots -> Llamada]
\* The slot h becomes c, and no other changes.
Pone(h, c) == \A g \in Slots : hilo'[g] = IF g = h THEN c ELSE hilo[g]
\* ... and what it becomes knows the truth, and holds the voucher it held.
Cambia(h) == \E c : Pone(h, c) /\ BienPuesta(c)' /\ ConElPrimero(c)' /\ c.vale = hilo[h].vale

LEMMA LibreTipo ==
    Libre \in Llamada /\ Libre.turno = Nada /\ Libre.silla = Nada /\ Libre.vale = Nada
BY DEF Libre, Llamada, Pcs

LEMMA EmpiezaPone ==
    ASSUME TipoHilo, NEW h \in Slots, NEW p \in Pcs, NEW t \in Turno \cup {Nada},
           Empieza(h, p, t)
    PROVE  TipoHilo' /\ Pone(h, [pc |-> p, turno |-> t, silla |-> Nada, vale |-> Nada])
<1>1. [pc |-> p, turno |-> t, silla |-> Nada, vale |-> Nada] \in Llamada
  BY DEF Llamada
<1> QED BY <1>1 DEF TipoHilo, Pone, Empieza

LEMMA SiguePone ==
    ASSUME TipoHilo, NEW h \in Slots, NEW p \in Pcs, Sigue(h, p)
    PROVE  TipoHilo' /\ Pone(h, [pc |-> p, turno |-> TurnoDe(h), silla |-> SillaDe(h),
                                  vale |-> hilo[h].vale])
<1>1. hilo[h] \in Llamada
  BY DEF TipoHilo
<1>2. [hilo[h] EXCEPT !.pc = p] = [pc |-> p, turno |-> TurnoDe(h), silla |-> SillaDe(h),
                                    vale |-> hilo[h].vale]
  BY <1>1 DEF Llamada, TurnoDe, SillaDe
<1>3. [hilo[h] EXCEPT !.pc = p] \in Llamada
  BY <1>1 DEF Llamada
<1> QED BY <1>2, <1>3 DEF TipoHilo, Sigue, Pone

LEMMA TerminaPone ==
    ASSUME TipoHilo, NEW h \in Slots, Termina(h)
    PROVE  TipoHilo' /\ Pone(h, [pc |-> "libre", turno |-> Nada, silla |-> Nada,
                                 vale |-> Nada])
<1>1. Libre \in Llamada
  BY DEF Libre, Llamada, Pcs
<1> QED BY <1>1 DEF TipoHilo, Termina, Pone, Libre

LEMMA AsignandoPone ==
    ASSUME TipoHilo, NEW h \in Slots, SigueAsignando(h)
    PROVE  TipoHilo' /\ Pone(h, [pc |-> "asg_turno", turno |-> Nada, silla |-> Nada,
                                  vale |-> Nada])
<1>1. [Libre EXCEPT !.pc = "asg_turno"]
        = [pc |-> "asg_turno", turno |-> Nada, silla |-> Nada, vale |-> Nada]
  BY LibreTipo DEF Llamada
<1>2. [pc |-> "asg_turno", turno |-> Nada, silla |-> Nada, vale |-> Nada] \in Llamada
  BY DEF Llamada, Pcs
<1> QED BY <1>1, <1>2 DEF TipoHilo, Pone, SigueAsignando

\* A call that ends, goes on to assign, or begins.
LEMMA TerminaCambia ==
    ASSUME TipoHilo, NEW h \in Slots, hilo[h].vale = Nada, Termina(h)
    PROVE  TipoHilo' /\ Cambia(h)
<1> DEFINE c == [pc |-> "libre", turno |-> Nada, silla |-> Nada, vale |-> Nada]
<1>1. TipoHilo' /\ Pone(h, c)
  BY TerminaPone
<1>2. BienPuesta(c)' /\ ConElPrimero(c)' /\ c.vale = hilo[h].vale
  BY DEF BienPuesta, ConElPrimero, SinTurno, ConVale, Asignando, Eligiendo, ConSilla,
         Confirmada
<1> QED BY <1>1, <1>2 DEF Cambia

LEMMA AsignandoCambia ==
    ASSUME TipoHilo, NEW h \in Slots, hilo[h].vale = Nada, SigueAsignando(h)
    PROVE  TipoHilo' /\ Cambia(h)
<1> DEFINE c == [pc |-> "asg_turno", turno |-> Nada, silla |-> Nada, vale |-> Nada]
<1>1. TipoHilo' /\ Pone(h, c)
  BY AsignandoPone
<1>2. BienPuesta(c)' /\ ConElPrimero(c)' /\ c.vale = hilo[h].vale
  BY DEF BienPuesta, ConElPrimero, SinTurno, ConVale, Asignando, Eligiendo, ConSilla,
         Confirmada
<1> QED BY <1>1, <1>2 DEF Cambia

LEMMA EmpiezaCambia ==
    ASSUME TipoHilo, NEW h \in Slots, hilo[h].vale = Nada, NEW t \in Turno,
           NEW p \in {"expira", "encola", "ven_lee", "ses_libera"}, Empieza(h, p, t)
    PROVE  TipoHilo' /\ Cambia(h)
<1> DEFINE c == [pc |-> p, turno |-> t, silla |-> Nada, vale |-> Nada]
<1>1. TipoHilo' /\ Pone(h, c)
  BY EmpiezaPone DEF Pcs
<1>2. BienPuesta(c)' /\ ConElPrimero(c)' /\ c.vale = hilo[h].vale
  BY DEF BienPuesta, ConElPrimero, SinTurno, ConVale, Asignando, Eligiendo, ConSilla,
         Confirmada
<1> QED BY <1>1, <1>2 DEF Cambia

\* A run of intentarAsignar takes the first turn.
LEMMA ElegirCambia ==
    ASSUME TipoHilo, NEW h \in Slots, hilo[h].vale = Nada, NEW t \in Turno, Primero(t),
           Empieza(h, "asg_libres", t), UNCHANGED <<turno, orden, origen>>
    PROVE  TipoHilo' /\ Cambia(h)
<1> DEFINE c == [pc |-> "asg_libres", turno |-> t, silla |-> Nada, vale |-> Nada]
<1>1. TipoHilo' /\ Pone(h, c)
  BY EmpiezaPone DEF Pcs
<1>2. BienPuesta(c)' /\ c.vale = hilo[h].vale
  BY DEF BienPuesta, Primero, SinTurno, ConVale, Asignando, ConSilla, Confirmada, SinPagar
<1>3. ConElPrimero(c)'
  BY DEF ConElPrimero, Primero
<1> QED BY <1>1, <1>2, <1>3 DEF Cambia

-----------------------------------------------------------------------------
(***************************************************************************)
(* The steps that neither date a turn nor spend a voucher keep IInv if     *)
(* they change one call at most, to one that knows the truth.              *)
(***************************************************************************)
Avanza ==
    /\ UNCHANGED <<orden, origen, vale, reinicios, fallas>>
    /\ \A t \in Turno :
        /\ turno'[t] \in SinPagar => turno[t] \in SinPagar
        /\ turno'[t] = "EN_COLA" => turno[t] = "EN_COLA"
        /\ sillaDe[t] \in Silla => sillaDe'[t] \in Silla
    /\ arranque'.lista # {} => arranque'.fase \in {"pago", "ventana"}

\* What a call knows stays true.
LEMMA SigueBienPuesta ==
    ASSUME NEW c, BienPuesta(c), Avanza
    PROVE  BienPuesta(c)'
<1>1. c.pc \in Asignando => c.turno \in Turno
  BY DEF BienPuesta, Asignando, SinTurno
<1>2. c.pc \in Confirmada => c.turno \in Turno
  BY DEF BienPuesta, Confirmada, SinTurno
<1> QED BY <1>1, <1>2 DEF BienPuesta, Avanza

LEMMA SigueConElPrimero ==
    ASSUME NEW c, BienPuesta(c), ConElPrimero(c), Avanza
    PROVE  ConElPrimero(c)'
<1>1. c.pc \in Eligiendo => c.turno \in Turno
  BY DEF BienPuesta, Asignando, Eligiendo, SinTurno
<1> QED BY <1>1 DEF ConElPrimero, Avanza

LEMMA QuietoCambia ==
    ASSUME IInv, Avanza, UNCHANGED hilo, NEW h \in Slots
    PROVE  Cambia(h)
<1>1. PICK c : c = hilo[h]
  OBVIOUS
<1>2. BienPuesta(c) /\ ConElPrimero(c)
  BY <1>1 DEF IInv, Coherente, EligeAlPrimero
<1>3. BienPuesta(c)' /\ ConElPrimero(c)'
  BY <1>2, SigueBienPuesta, SigueConElPrimero
<1>4. Pone(h, c)
  BY <1>1 DEF Pone
<1> QED BY <1>1, <1>3, <1>4 DEF Cambia

\* A call that stays with its rows, at another statement.
LEMMA SigueCambia ==
    ASSUME IInv, TipoHilo, Avanza, NEW h \in Slots, NEW p \in Pcs, Sigue(h, p),
           hilo[h].pc \notin SinTurno, p \notin ConVale, p \notin Eligiendo,
           p \in Asignando => hilo[h].pc \in ConSilla,
           p \in Confirmada => hilo[h].pc \in Confirmada
    PROVE  TipoHilo' /\ Cambia(h)
<1>0. PICK c : c = [pc |-> p, turno |-> TurnoDe(h), silla |-> SillaDe(h),
                    vale |-> hilo[h].vale]
  OBVIOUS
<1>1. TipoHilo' /\ Pone(h, c)
  BY <1>0, SiguePone
<1>2. PICK d : d = hilo[h]
  OBVIOUS
<1>3. BienPuesta(d)
  BY <1>2 DEF IInv, Coherente
<1>4. BienPuesta(d)'
  BY <1>3, SigueBienPuesta
<1>5. c.pc = p /\ c.turno = d.turno /\ c.silla = d.silla /\ c.vale = d.vale
  BY <1>0, <1>2 DEF TurnoDe, SillaDe
<1>6. BienPuesta(c)'
  BY <1>2, <1>4, <1>5 DEF BienPuesta, SinTurno, ConVale, Asignando, Eligiendo, ConSilla,
                          Confirmada
<1>7. ConElPrimero(c)'
  BY <1>5 DEF ConElPrimero
<1> QED BY <1>1, <1>2, <1>5, <1>6, <1>7 DEF Cambia

LEMMA AvanzaConserva ==
    ASSUME IInv, TypeOK', Avanza, NEW h \in Slots, Cambia(h)
    PROVE  IInv'
<1>1. PICK c : Pone(h, c) /\ BienPuesta(c)' /\ ConElPrimero(c)' /\ c.vale = hilo[h].vale
  BY DEF Cambia
<1>2. ASSUME NEW g \in Slots
      PROVE  BienPuesta(hilo[g])' /\ ConElPrimero(hilo[g])' /\ hilo'[g].vale = hilo[g].vale
  <2>1. CASE g = h
    <3>1. hilo'[g] = c
      BY <1>1, <2>1 DEF Pone
    <3> QED BY <1>1, <2>1, <3>1 DEF BienPuesta, ConElPrimero
  <2>2. CASE g # h
    <3>1. hilo'[g] = hilo[g]
      BY <1>1, <2>2 DEF Pone
    <3>2. BienPuesta(hilo[g]) /\ ConElPrimero(hilo[g])
      BY DEF IInv, Coherente, EligeAlPrimero
    <3> DEFINE d == hilo[g]
    <3> HIDE DEF d
    <3>3. ASSUME NEW e, BienPuesta(e), ConElPrimero(e) PROVE BienPuesta(e)' /\ ConElPrimero(e)'
      BY <3>3, SigueBienPuesta, SigueConElPrimero
    <3> QED BY <3>1, <3>2, <3>3
  <2> QED BY <2>1, <2>2
<1>3. Coherente'
  BY <1>2 DEF Coherente, Avanza
<1>4. EligeAlPrimero'
  BY <1>2 DEF EligeAlPrimero
<1>5. Fechas'
  BY DEF IInv, Fechas, Fechados, Avanza
<1>6. ValeUnTurno'
  BY <1>2 DEF IInv, ValeUnTurno, Entera, Avanza
<1> QED BY <1>3, <1>4, <1>5, <1>6 DEF IInv

\* A run of intentarAsignar goes on with the turn it has picked.
LEMMA EligiendoCambia ==
    ASSUME IInv, Avanza, NEW h \in Slots, hilo[h].pc \in Eligiendo, NEW s \in Silla,
           NEW p \in {"asg_reserva", "asg_asigna"},
           Pone(h, [pc |-> p, turno |-> TurnoDe(h), silla |-> s, vale |-> hilo[h].vale])
    PROVE  Cambia(h)
<1>1. PICK c : c = [pc |-> p, turno |-> TurnoDe(h), silla |-> s, vale |-> hilo[h].vale]
  OBVIOUS
<1>2. PICK d : d = hilo[h]
  OBVIOUS
<1>3. BienPuesta(d)' /\ ConElPrimero(d)'
  BY <1>2, SigueBienPuesta, SigueConElPrimero DEF IInv, Coherente, EligeAlPrimero
<1>4. c.pc = p /\ c.turno = d.turno /\ c.silla = s /\ c.vale = d.vale
  BY <1>1, <1>2 DEF TurnoDe
<1>5. BienPuesta(c)'
  BY <1>2, <1>3, <1>4
     DEF BienPuesta, SinTurno, ConVale, Asignando, Eligiendo, ConSilla, Confirmada
<1>6. ConElPrimero(c)'
  BY <1>2, <1>3, <1>4 DEF ConElPrimero
<1> QED BY <1>1, <1>2, <1>4, <1>5, <1>6 DEF Cambia

\* A call that is not redeeming a voucher holds none.
LEMMA SinVale ==
    ASSUME IInv, NEW h \in Slots, hilo[h].pc \notin ConVale
    PROVE  hilo[h].vale = Nada
BY DEF IInv, Coherente, BienPuesta

\* What the step lemmas below take from IInv.
LEMMA DeIInv ==
    ASSUME IInv
    PROVE  /\ TypeOK /\ TipoHilo
           /\ \A h \in Slots : hilo[h].pc \notin SinTurno => TurnoDe(h) \in Turno
           /\ \A h \in Slots : hilo[h].pc \in ConSilla => SillaDe(h) \in Silla
           /\ \A h \in Slots : hilo[h].pc \in Confirmada => sillaDe[TurnoDe(h)] \in Silla
           /\ arranque.lista # {} => arranque.fase \in {"pago", "ventana"}
BY DEF IInv, Coherente, BienPuesta, TypeOK, TipoHilo, TurnoDe, SillaDe

-----------------------------------------------------------------------------
(***************************************************************************)
(* Dates and vouchers.                                                     *)
(***************************************************************************)
LEMMA FechadosFinito ==
    IsFiniteSet(Fechados) /\ Cardinality(Fechados) \in Nat
<1>1. Fechados \subseteq Turno
  BY DEF Fechados
<1> QED BY <1>1, TurnoAssumption, FS_Subset, FS_CardinalityType

\* Dating a turn that had no date: none is later than the new number of dates.
LEMMA FechasUna ==
    ASSUME TypeOK, Fechas, NEW t \in Turno, turno[t] \in SinPagar,
           NEW d \in 0..Ahora, orden' = [orden EXCEPT ![t] = d],
           turno' = [turno EXCEPT ![t] = "EN_COLA"],
           \A u \in Turno : u # t => origen'[u] = origen[u]
    PROVE  Fechas'
<1> DEFINE n == Cardinality(Fechados)
<1>1. n \in Nat /\ IsFiniteSet(Fechados) /\ d \in Nat /\ d <= n + 1
  BY FechadosFinito DEF Ahora
<1>2. orden[t] = 0 /\ t \notin Fechados
  <2>1. orden[t] = 0
    BY DEF Fechas
  <2> QED BY <2>1 DEF Fechados
<1>3. Cardinality(Fechados)' = IF d = 0 THEN n ELSE n + 1
  <2>1. CASE d = 0
    <3>1. Fechados' = Fechados
      BY <2>1, <1>2 DEF Fechados, TypeOK
    <3> QED BY <2>1, <3>1
  <2>2. CASE d # 0
    <3>1. Fechados' = Fechados \cup {t}
      BY <2>2, <1>1, <1>2 DEF Fechados, TypeOK
    <3> QED BY <2>2, <3>1, <1>1, <1>2, FS_AddElement
  <2> QED BY <2>1, <2>2
<1>4. ASSUME NEW u \in Turno
      PROVE  /\ orden'[u] <= Cardinality(Fechados)'
             /\ turno'[u] \in SinPagar => orden'[u] = 0 /\ origen'[u] = Nada
  <2>1. CASE u = t
    BY <1>1, <1>3, <2>1 DEF TypeOK, SinPagar
  <2>2. CASE u # t
    BY <1>1, <1>3, <2>2 DEF TypeOK, Fechas
  <2> QED BY <2>1, <2>2
<1> QED BY <1>4 DEF Fechas

\* One call becomes c, which knows the truth, and what the others know stays true.
LEMMA UnoSolo ==
    ASSUME IInv, NEW h \in Slots, NEW c, Pone(h, c), BienPuesta(c)', ConElPrimero(c)',
           \A e \in Llamada :
               BienPuesta(e) /\ ConElPrimero(e) => BienPuesta(e)' /\ ConElPrimero(e)',
           arranque'.lista # {} => arranque'.fase \in {"pago", "ventana"}
    PROVE  Coherente' /\ EligeAlPrimero'
<1>1. ASSUME NEW g \in Slots PROVE BienPuesta(hilo[g])' /\ ConElPrimero(hilo[g])'
  <2>1. CASE g = h
    <3>1. hilo'[g] = c
      BY <2>1 DEF Pone
    <3> QED BY <3>1 DEF BienPuesta, ConElPrimero
  <2>2. CASE g # h
    <3>1. PICK e \in Llamada : e = hilo[g]
      BY DEF IInv, TypeOK
    <3>2. BienPuesta(e) /\ ConElPrimero(e)
      BY <3>1 DEF IInv, Coherente, EligeAlPrimero
    <3>3. BienPuesta(e)' /\ ConElPrimero(e)'
      BY <3>2
    <3>4. hilo'[g] = e
      BY <2>2, <3>1 DEF Pone
    <3> QED BY <3>3, <3>4 DEF BienPuesta, ConElPrimero
  <2> QED BY <2>1, <2>2
<1> QED BY <1>1 DEF Coherente, EligeAlPrimero

-----------------------------------------------------------------------------
(***************************************************************************)
(* Every step keeps IInv.                                                  *)
(***************************************************************************)
\* Another customer, power that comes back, a session or a voucher that expires.
LEMMA AfueraConserva ==
    ASSUME IInv, Afuera
    PROVE  IInv'
<1> USE DeIInv, NadaAssumption, HilosAssumption DEF Slots, En, fijo, proceso
<1>1. ASSUME NEW s \in Silla, OcupaAjeno(s) PROVE IInv'
  <2>1. Avanza
    BY <1>1 DEF OcupaAjeno, Avanza, TypeOK, SinPagar
  <2>2. TipoHilo' /\ Cambia(Arr)
    BY <1>1, <2>1, QuietoCambia DEF OcupaAjeno, TipoHilo
  <2>3. TypeOK'
    BY <1>1, <2>2 DEF OcupaAjeno, TypeOK, TipoHilo, EstadoSilla
  <2> QED BY <2>1, <2>2, <2>3, AvanzaConserva
<1>2. ASSUME NEW t \in Turno, VuelveEnergia(t) PROVE IInv'
  <2>1. Avanza
    BY <1>2 DEF VuelveEnergia, Avanza, TypeOK, SinPagar
  <2>2. TipoHilo' /\ Cambia(Arr)
    BY <1>2, <2>1, QuietoCambia DEF VuelveEnergia, TipoHilo
  <2>3. TypeOK'
    BY <1>2, <2>2 DEF VuelveEnergia, TypeOK, TipoHilo, EstadoSesion, EstadoSilla
  <2> QED BY <2>1, <2>2, <2>3, AvanzaConserva
<1>3. ASSUME NEW t \in Turno, VenceHuerfana(t) PROVE IInv'
  <2>1. Avanza
    BY <1>3 DEF VenceHuerfana, Avanza, TypeOK, SinPagar
  <2>2. TipoHilo' /\ Cambia(Arr)
    BY <1>3, <2>1, QuietoCambia DEF VenceHuerfana, TipoHilo
  <2>3. TypeOK'
    BY <1>3, <2>2 DEF VenceHuerfana, TypeOK, TipoHilo, EstadoSesion
  <2> QED BY <2>1, <2>2, <2>3, AvanzaConserva
<1>4. ASSUME NEW v \in Vale, VenceVale(v) PROVE IInv'
  <2>1. TypeOK'
    BY <1>4 DEF VenceVale, TypeOK, EstadoCredito
  <2>2. Coherente' /\ EligeAlPrimero' /\ Fechas'
    BY <1>4 DEF VenceVale, IInv, Coherente, BienPuesta, EligeAlPrimero, ConElPrimero,
                Fechas, Fechados
  <2>3. ValeUnTurno'
    BY <1>4 DEF VenceVale, IInv, TypeOK, ValeUnTurno, Entera
  <2> QED BY <2>1, <2>2, <2>3 DEF IInv
<1> QED BY <1>1, <1>2, <1>3, <1>4 DEF Afuera

\* A customer joins.
LEMMA UnirseConserva ==
    ASSUME IInv, NEW t0 \in Turno, Unirse(t0)
    PROVE  IInv'
<1> USE DeIInv, NadaAssumption, HilosAssumption DEF Slots, En, fijo, proceso
<1>1. ASSUME NEW t \in Turno, Unirse(t) PROVE IInv'
  <2>1. Avanza
    BY <1>1 DEF Unirse, Avanza, TypeOK, SinPagar
  <2>2. TipoHilo' /\ Cambia(Arr)
    BY <1>1, <2>1, QuietoCambia DEF Unirse, TipoHilo
  <2>3. TypeOK'
    BY <1>1, <2>2 DEF Unirse, TypeOK, TipoHilo, EstadoTurno, Timers
  <2> QED BY <2>1, <2>2, <2>3, AvanzaConserva
<1> QED BY <1>1

\* A request, the tick, or a timer that fires.
LEMMA PedidoConserva ==
    ASSUME IInv, NEW h \in Hilos, Pedido(h)
    PROVE  IInv'
<1> USE DeIInv, NadaAssumption, HilosAssumption DEF Slots, En, fijo, proceso
<1>1. ASSUME NEW t \in Turno, Cancelar(h, t) PROVE IInv'
  <2>1. Avanza
    BY <1>1 DEF Cancelar, Atiende, Avanza, TypeOK, SinPagar
  <2>2. TipoHilo' /\ Cambia(h)
    BY <1>1, <2>1, SinVale, EmpiezaCambia DEF Cancelar, Atiende, ConVale
  <2>3. TypeOK'
    BY <1>1, <2>2 DEF Cancelar, Atiende, TypeOK, TipoHilo, Timers
  <2> QED BY <2>1, <2>2, <2>3, AvanzaConserva
<1>2. ASSUME NEW t \in Turno, PagoAprobado(h, t) PROVE IInv'
  <2>1. Avanza
    BY <1>2 DEF PagoAprobado, Atiende, Avanza, TypeOK, SinPagar
  <2>2. TipoHilo' /\ Cambia(h)
    BY <1>2, <2>1, SinVale, EmpiezaCambia DEF PagoAprobado, Atiende, ConVale
  <2>3. TypeOK'
    BY <1>2, <2>2 DEF PagoAprobado, Atiende, TypeOK, TipoHilo, Timers
  <2> QED BY <2>1, <2>2, <2>3, AvanzaConserva
<1>3. ASSUME NEW t \in Turno, Confirmar(h, t) PROVE IInv'
  <2>1. Avanza
    BY <1>3 DEF Confirmar, Atiende, Confirmable, Avanza, TypeOK, SinPagar
  <2>2. TipoHilo' /\ Cambia(h)
    <3> DEFINE c == [pc |-> "conf_crea", turno |-> t, silla |-> sillaDe[t], vale |-> Nada]
    <3>1. hilo' = [hilo EXCEPT ![h] = c] /\ sillaDe[t] \in Silla /\ UNCHANGED sillaDe
      BY <1>3 DEF Confirmar, Confirmable, TypeOK
    <3>2. PICK d : d = c
      OBVIOUS
    <3>3. d \in Llamada
      BY <3>1, <3>2 DEF Llamada, Pcs
    <3>4. TipoHilo' /\ Pone(h, d)
      BY <3>1, <3>2, <3>3 DEF TipoHilo, Pone
    <3>5. d.vale = Nada /\ d.pc = "conf_crea" /\ d.turno = t
      BY <3>2
    <3>6. BienPuesta(d)' /\ ConElPrimero(d)'
      BY <3>1, <3>5 DEF BienPuesta, ConElPrimero, SinTurno, ConVale, Asignando, Eligiendo,
                        ConSilla, Confirmada
    <3>7. hilo[h].vale = Nada
      BY <1>3, SinVale DEF Confirmar, Atiende, ConVale
    <3> QED BY <3>4, <3>5, <3>6, <3>7 DEF Cambia
  <2>3. TypeOK'
    BY <1>3, <2>2 DEF Confirmar, Atiende, Confirmable, TypeOK, TipoHilo, Timers
  <2> QED BY <2>1, <2>2, <2>3, AvanzaConserva
<1>4. ASSUME NEW t \in Turno, DispararTimer(h, t) PROVE IInv'
  <2>1. Avanza
    BY <1>4 DEF DispararTimer, Avanza, TypeOK, SinPagar
  <2>2. TipoHilo' /\ Cambia(h)
    BY <1>4, <2>1, SinVale, EmpiezaCambia DEF DispararTimer, ConVale
  <2>3. TypeOK'
    BY <1>4, <2>2 DEF DispararTimer, TypeOK, TipoHilo, Timers
  <2> QED BY <2>1, <2>2, <2>3, AvanzaConserva
<1>5. ASSUME NEW t \in Turno, CierraSesion(h, t) PROVE IInv'
  <2>1. Avanza
    BY <1>5 DEF CierraSesion, Avanza, TypeOK, SinPagar
  <2>2. TipoHilo' /\ Cambia(h)
    BY <1>5, <2>1, SinVale, EmpiezaCambia DEF CierraSesion, ConVale
  <2>3. TypeOK'
    BY <1>5, <2>2 DEF CierraSesion, TypeOK, TipoHilo, EstadoSesion
  <2> QED BY <2>1, <2>2, <2>3, AvanzaConserva
<1>6. ASSUME NEW v \in Vale, Canjear(h, v) PROVE IInv'
  <2>0. PICK c : c = [pc |-> "can_crea", turno |-> Nada, silla |-> Nada, vale |-> v]
    OBVIOUS
  <2>1. c \in Llamada /\ hilo' = [hilo EXCEPT ![h] = c]
    <3>1. c \in Llamada
      BY <2>0 DEF Llamada, Pcs
    <3> QED BY <1>6, <2>0, <3>1 DEF Canjear
  <2>2. TipoHilo' /\ Pone(h, c)
    BY <2>1 DEF TipoHilo, Pone
  <2>3. UNCHANGED <<turno, sillaDe, orden, origen, arranque>>
    BY <1>6 DEF Canjear
  <2>4. TypeOK'
    BY <1>6, <2>2 DEF Canjear, TypeOK, TipoHilo, EstadoCredito
  <2>5. Coherente' /\ EligeAlPrimero'
    <3>1. BienPuesta(c)' /\ ConElPrimero(c)'
      BY <2>0 DEF BienPuesta, ConElPrimero, SinTurno, ConVale, Asignando, Eligiendo,
                  ConSilla, Confirmada
    <3>2. ASSUME NEW e \in Llamada, BienPuesta(e), ConElPrimero(e)
          PROVE  BienPuesta(e)' /\ ConElPrimero(e)'
      BY <2>3, <3>2 DEF BienPuesta, ConElPrimero
    <3> QED BY <2>2, <2>3, <3>1, <3>2, UnoSolo
  <2>6. Fechas'
    BY <2>3 DEF IInv, Fechas, Fechados
  <2>7. ValeUnTurno'
    <3>1. hilo[h].vale = Nada
      BY <1>6, SinVale DEF Canjear, Atiende, ConVale
    <3>2. hilo'[h].vale = v
      BY <2>0, <2>2 DEF Pone
    <3>3. \A g \in Slots : g # h => hilo'[g] = hilo[g]
      BY <2>2 DEF Pone
    <3> QED BY <1>6, <3>1, <3>2, <3>3 DEF Canjear, IInv, TypeOK, ValeUnTurno, Entera
  <2> QED BY <2>4, <2>5, <2>6, <2>7 DEF IInv
<1>7. ASSUME Tick(h) PROVE IInv'
  <2>1. Avanza
    BY <1>7 DEF Tick, Atiende, fijo, Avanza, TypeOK, SinPagar
  <2>2. TipoHilo' /\ Cambia(h)
    BY <1>7, <2>1, SinVale, ElegirCambia DEF Tick, Atiende, fijo, ConVale
  <2>3. TypeOK'
    BY <1>7, <2>2 DEF Tick, Atiende, fijo, TypeOK, TipoHilo
  <2> QED BY <2>1, <2>2, <2>3, AvanzaConserva
<1> QED BY <1>1, <1>2, <1>3, <1>4, <1>5, <1>6, <1>7 DEF Pedido

\* One statement of intentarAsignar.
LEMMA AsignarConserva ==
    ASSUME IInv, NEW h \in Slots,
           AsignarTurno(h) \/ AsignarLibres(h) \/ AsignarReserva(h) \/ AsignarTurnoASilla(h)
             \/ AsignarDevuelve(h)
    PROVE  IInv'
<1> USE DeIInv, NadaAssumption, HilosAssumption DEF Slots, En, fijo, proceso
<1>1. ASSUME AsignarTurno(h) PROVE IInv'
  <2>1. Avanza
    BY <1>1 DEF AsignarTurno, fijo, Avanza, TypeOK, SinPagar
  <2>2. TipoHilo' /\ Cambia(h)
    BY <1>1, <2>1, SinVale, ElegirCambia, TerminaCambia DEF AsignarTurno, fijo, ConVale
  <2>3. TypeOK'
    BY <1>1, <2>2 DEF AsignarTurno, fijo, TypeOK, TipoHilo
  <2> QED BY <2>1, <2>2, <2>3, AvanzaConserva
<1>2. ASSUME AsignarLibres(h) PROVE IInv'
  <2>1. Avanza
    BY <1>2 DEF AsignarLibres, Avanza, TypeOK, SinPagar
  <2>2. TipoHilo' /\ Cambia(h)
    <3>1. CASE Termina(h)
      BY <1>2, <3>1, SinVale, TerminaCambia DEF AsignarLibres, ConVale
    <3>2. ASSUME NEW s \in Silla, hilo' = [hilo EXCEPT ![h].pc = "asg_reserva", ![h].silla = s]
          PROVE  TipoHilo' /\ Cambia(h)
      <4>1. TipoHilo' /\ Pone(h, [pc |-> "asg_reserva", turno |-> TurnoDe(h), silla |-> s,
                                  vale |-> hilo[h].vale])
        BY <3>2 DEF TipoHilo, Pone, Llamada, Pcs, TurnoDe
      <4>2. hilo[h].pc \in Eligiendo
        BY <1>2 DEF AsignarLibres, Eligiendo, Asignando
      <4> QED BY <2>1, <4>1, <4>2, EligiendoCambia
    <3> QED BY <1>2, <3>1, <3>2 DEF AsignarLibres
  <2>3. TypeOK'
    BY <1>2, <2>2 DEF AsignarLibres, TypeOK, TipoHilo
  <2> QED BY <2>1, <2>2, <2>3, AvanzaConserva
<1>3. ASSUME AsignarReserva(h) PROVE IInv'
  <2>1. Avanza
    BY <1>3 DEF AsignarReserva, Reservable, Avanza, TypeOK, SinPagar
  <2>2. TipoHilo' /\ Cambia(h)
    <3>1. CASE SigueAsignando(h)
      BY <1>3, <3>1, SinVale, AsignandoCambia DEF AsignarReserva, ConVale
    <3>2. CASE Sigue(h, "asg_asigna")
      <4>1. hilo[h].pc \in Eligiendo /\ SillaDe(h) \in Silla
        BY <1>3 DEF AsignarReserva, Eligiendo, ConSilla, Asignando
      <4>2. TipoHilo' /\ Pone(h, [pc |-> "asg_asigna", turno |-> TurnoDe(h), silla |-> SillaDe(h),
                                  vale |-> hilo[h].vale])
        BY <3>2, SiguePone DEF Pcs
      <4> QED BY <2>1, <4>1, <4>2, EligiendoCambia
    <3> QED BY <1>3, <3>1, <3>2 DEF AsignarReserva
  <2>3. TypeOK'
    BY <1>3, <2>2 DEF AsignarReserva, Reservable, TypeOK, TipoHilo, EstadoSilla
  <2> QED BY <2>1, <2>2, <2>3, AvanzaConserva
<1>4. ASSUME AsignarTurnoASilla(h) PROVE IInv'
  <2>1. Avanza
    BY <1>4 DEF AsignarTurnoASilla, Avanza, TypeOK, SinPagar, ConSilla, Asignando,
                SinTurno
  <2>2. TipoHilo' /\ Cambia(h)
    BY <1>4, <2>1, SinVale, AsignandoCambia, SigueCambia
       DEF AsignarTurnoASilla, SinTurno, ConVale, Asignando, Eligiendo, ConSilla,
           Confirmada, Pcs
  <2>3. TypeOK'
    <3>1. TurnoDe(h) \in Turno /\ SillaDe(h) \in Silla
      BY <1>4 DEF AsignarTurnoASilla, ConSilla, Asignando, SinTurno
    <3>2. CASE turno[TurnoDe(h)] = "EN_COLA"
      BY <1>4, <2>2, <3>1, <3>2 DEF AsignarTurnoASilla, TypeOK, TipoHilo, EstadoTurno,
                                    Timers
    <3>3. CASE turno[TurnoDe(h)] # "EN_COLA"
      BY <1>4, <2>2, <3>3 DEF AsignarTurnoASilla, TypeOK, TipoHilo
    <3> QED BY <3>2, <3>3
  <2> QED BY <2>1, <2>2, <2>3, AvanzaConserva
<1>5. ASSUME AsignarDevuelve(h) PROVE IInv'
  <2>1. Avanza
    BY <1>5 DEF AsignarDevuelve, DevolverSilla, Avanza, TypeOK, SinPagar
  <2>2. TipoHilo' /\ Cambia(h)
    BY <1>5, <2>1, SinVale, AsignandoCambia DEF AsignarDevuelve, DevolverSilla, ConVale
  <2>3. TypeOK'
    BY <1>5, <2>2 DEF AsignarDevuelve, DevolverSilla, TypeOK, TipoHilo, EstadoSilla
  <2> QED BY <2>1, <2>2, <2>3, AvanzaConserva
<1> QED BY <1>1, <1>2, <1>3, <1>4, <1>5

\* One statement of confirmar, of expirarVentanaConfirmacion or of the close of a session.
LEMMA ConfirmarConserva ==
    ASSUME IInv, NEW h \in Slots,
           ConfirmarCrea(h) \/ ConfirmarActiva(h) \/ ConfirmarTurno(h) \/ VencerLee(h)
             \/ VencerCancela(h) \/ VencerLibera(h) \/ LiberaSesion(h)
    PROVE  IInv'
<1> USE DeIInv, NadaAssumption, HilosAssumption DEF Slots, En, fijo, proceso
<1>1. ASSUME ConfirmarCrea(h) PROVE IInv'
  <2>1. Avanza
    BY <1>1 DEF ConfirmarCrea, Avanza, TypeOK, SinPagar
  <2>2. TipoHilo' /\ Cambia(h)
    BY <1>1, <2>1, SinVale, SigueCambia, TerminaCambia
       DEF ConfirmarCrea, SinTurno, ConVale, Asignando, Eligiendo, ConSilla, Confirmada,
           Pcs
  <2>3. TypeOK'
    BY <1>1, <2>2 DEF ConfirmarCrea, TypeOK, TipoHilo, EstadoSesion
  <2> QED BY <2>1, <2>2, <2>3, AvanzaConserva
<1>2. ASSUME ConfirmarActiva(h) PROVE IInv'
  <2>1. Avanza
    BY <1>2 DEF ConfirmarActiva, Avanza, TypeOK, SinPagar
  <2>2. TipoHilo' /\ Cambia(h)
    BY <1>2, <2>1, SinVale, SigueCambia DEF ConfirmarActiva, SinTurno, ConVale, Asignando,
                                            Eligiendo, ConSilla, Confirmada, Pcs
  <2>3. TypeOK'
    BY <1>2, <2>2 DEF ConfirmarActiva, TypeOK, TipoHilo, EstadoSesion, EstadoSilla
  <2> QED BY <2>1, <2>2, <2>3, AvanzaConserva
<1>3. ASSUME ConfirmarTurno(h) PROVE IInv'
  <2>1. Avanza
    BY <1>3 DEF ConfirmarTurno, Avanza, TypeOK, SinPagar
  <2>2. TipoHilo' /\ Cambia(h)
    BY <1>3, <2>1, SinVale, TerminaCambia DEF ConfirmarTurno, ConVale
  <2>3. TypeOK'
    <3>1. TurnoDe(h) \in Turno /\ sillaDe[TurnoDe(h)] \in Silla
      BY <1>3 DEF ConfirmarTurno, Confirmada, SinTurno
    <3> QED BY <1>3, <2>2, <3>1 DEF ConfirmarTurno, TypeOK, TipoHilo, EstadoTurno
  <2> QED BY <2>1, <2>2, <2>3, AvanzaConserva
<1>4. ASSUME VencerLee(h) PROVE IInv'
  <2>1. Avanza
    BY <1>4 DEF VencerLee, Avanza, TypeOK, SinPagar
  <2>2. TipoHilo' /\ Cambia(h)
    <3>1. CASE Termina(h)
      BY <1>4, <3>1, SinVale, TerminaCambia DEF VencerLee, ConVale
    <3>2. ASSUME turno[TurnoDe(h)] = "ASIGNADO",
                 hilo' = [hilo EXCEPT ![h].pc = "ven_cancela", ![h].silla = sillaDe[TurnoDe(h)]]
          PROVE  TipoHilo' /\ Cambia(h)
      <4>1. TurnoDe(h) \in Turno /\ sillaDe[TurnoDe(h)] \in Silla /\ hilo[h].vale = Nada
        BY <1>4, <3>2, SinVale DEF VencerLee, TypeOK, SinTurno, ConVale
      <4>2. PICK c : c = [pc |-> "ven_cancela", turno |-> TurnoDe(h), silla |-> sillaDe[TurnoDe(h)],
                          vale |-> hilo[h].vale]
        OBVIOUS
      <4>3. TipoHilo' /\ Pone(h, c)
        BY <3>2, <4>1, <4>2 DEF TipoHilo, Pone, Llamada, Pcs, TurnoDe
      <4>4. c.pc = "ven_cancela" /\ c.turno = TurnoDe(h)
           /\ c.silla = sillaDe[TurnoDe(h)] /\ c.vale = Nada
        BY <4>1, <4>2
      <4>5. BienPuesta(c)' /\ ConElPrimero(c)'
        BY <4>1, <4>4 DEF BienPuesta, ConElPrimero, SinTurno, ConVale, Asignando,
                          Eligiendo, ConSilla, Confirmada
      <4> QED BY <4>1, <4>3, <4>4, <4>5 DEF Cambia
    <3> QED BY <1>4, <3>1, <3>2 DEF VencerLee
  <2>3. TypeOK'
    BY <1>4, <2>2 DEF VencerLee, TypeOK, TipoHilo
  <2> QED BY <2>1, <2>2, <2>3, AvanzaConserva
<1>5. ASSUME VencerCancela(h) PROVE IInv'
  <2>1. Avanza
    BY <1>5 DEF VencerCancela, Avanza, TypeOK, SinPagar
  <2>2. TipoHilo' /\ Cambia(h)
    BY <1>5, <2>1, SinVale, SigueCambia DEF VencerCancela, SinTurno, ConVale, Asignando,
                                            Eligiendo, ConSilla, Confirmada, Pcs
  <2>3. TypeOK'
    BY <1>5, <2>2 DEF VencerCancela, TypeOK, TipoHilo, EstadoTurno
  <2> QED BY <2>1, <2>2, <2>3, AvanzaConserva
<1>6. ASSUME VencerLibera(h) PROVE IInv'
  <2>1. Avanza
    BY <1>6 DEF VencerLibera, DevolverSilla, Avanza, TypeOK, SinPagar
  <2>2. TipoHilo' /\ Cambia(h)
    BY <1>6, <2>1, SinVale, AsignandoCambia DEF VencerLibera, DevolverSilla, ConVale
  <2>3. TypeOK'
    BY <1>6, <2>2 DEF VencerLibera, DevolverSilla, TypeOK, TipoHilo, EstadoSilla
  <2> QED BY <2>1, <2>2, <2>3, AvanzaConserva
<1>7. ASSUME LiberaSesion(h) PROVE IInv'
  <2>1. Avanza
    BY <1>7 DEF LiberaSesion, Avanza, TypeOK, SinPagar
  <2>2. TipoHilo' /\ Cambia(h)
    BY <1>7, <2>1, SinVale, TerminaCambia DEF LiberaSesion, ConVale
  <2>3. TypeOK'
    <3>1. turno' \in [Turno -> EstadoTurno]
          /\ \A t \in Turno : turno'[t] \in {"ASIGNADO", "EN_USO"} => turno'[t] = turno[t]
      <4>1. CASE UNCHANGED turno
        BY <4>1 DEF TypeOK
      <4>2. CASE \E fin \in {"COMPLETADA", "CANCELADA"} :
                  turno' = [turno EXCEPT ![TurnoDe(h)] = fin]
        BY <4>2 DEF TypeOK, EstadoTurno
      <4> QED BY <1>7, <4>1, <4>2 DEF LiberaSesion
    <3>2. perdido' \in [Turno -> BOOLEAN]
      BY <1>7, Zenon DEF LiberaSesion, TypeOK
    <3>3. \A t \in Turno : turno'[t] \in {"ASIGNADO", "EN_USO"} => sillaDe'[t] \in Silla
      BY <1>7, <3>1 DEF LiberaSesion, TypeOK
    <3>4. silla' \in [Silla -> EstadoSilla]
      BY <1>7 DEF LiberaSesion, TypeOK, EstadoSilla
    <3>5. UNCHANGED <<sillaDe, orden, origen, sesion, vale, timer, cruzada, arranque,
                      reinicios, fallas>>
      BY <1>7 DEF LiberaSesion
    <3> QED BY <2>2, <3>1, <3>2, <3>3, <3>4, <3>5 DEF TypeOK, TipoHilo
  <2> QED BY <2>1, <2>2, <2>3, AvanzaConserva
<1> QED BY <1>1, <1>2, <1>3, <1>4, <1>5, <1>6, <1>7

\* One statement of the handlers of a payment, of an expiry or of a voucher.
LEMMA PagarConserva ==
    ASSUME IInv, NEW h \in Slots,
           ExpirarEsperaPago(h) \/ Encolar(h) \/ CanjearCrea(h) \/ CanjearDevuelve(h)
    PROVE  IInv'
<1> USE DeIInv, NadaAssumption, HilosAssumption DEF Slots, En, fijo, proceso
<1>1. ASSUME ExpirarEsperaPago(h) PROVE IInv'
  <2>1. Avanza
    BY <1>1 DEF ExpirarEsperaPago, Avanza, TypeOK, SinPagar
  <2>2. TipoHilo' /\ Cambia(h)
    BY <1>1, <2>1, SinVale, TerminaCambia DEF ExpirarEsperaPago, ConVale
  <2>3. TypeOK'
    BY <1>1, <2>2 DEF ExpirarEsperaPago, TypeOK, TipoHilo, EstadoTurno
  <2> QED BY <2>1, <2>2, <2>3, AvanzaConserva
<1>2. ASSUME Encolar(h) PROVE IInv'
  <2> DEFINE t == TurnoDe(h)
  <2>1. t \in Turno /\ hilo[h].vale = Nada
    BY <1>2, SinVale DEF Encolar, SinTurno, ConVale
  <2>2. UNCHANGED <<sillaDe, origen, sesion, silla, vale, timer, cruzada, perdido, arranque,
                  reinicios, fallas>>
    BY <1>2 DEF Encolar
  <2>3. CASE turno[t] # "ESPERANDO_PAGO"
    <3>1. Termina(h) /\ UNCHANGED <<turno, orden>>
      BY <1>2, <2>3 DEF Encolar
    <3>2. Avanza
      BY <2>2, <3>1 DEF Avanza
    <3>3. TipoHilo' /\ Cambia(h)
      BY <2>1, <3>1, TerminaCambia
    <3>4. TypeOK'
      BY <2>2, <3>1, <3>3 DEF TypeOK, TipoHilo
    <3> QED BY <3>2, <3>3, <3>4, AvanzaConserva
  <2>4. CASE turno[t] = "ESPERANDO_PAGO"
    <3>1. turno' = [turno EXCEPT ![t] = "EN_COLA"] /\ orden' = [orden EXCEPT ![t] = Ahora]
      BY <1>2, <2>4 DEF Encolar
    <3>2. PICK c : c = [pc |-> "asg_turno", turno |-> Nada, silla |-> Nada, vale |-> Nada]
      OBVIOUS
    <3>3. TipoHilo' /\ Pone(h, c)
      BY <1>2, <2>4, <3>2, AsignandoPone DEF Encolar
    <3>4. Ahora \in Nat /\ Ahora \in 0..Ahora /\ \A u \in Turno : orden[u] < Ahora
      BY FechadosFinito DEF Ahora, IInv, Fechas, TypeOK
    <3>5. TypeOK'
      BY <2>2, <3>1, <3>3, <3>4 DEF TypeOK, TipoHilo, EstadoTurno
    <3>6. Coherente' /\ EligeAlPrimero'
      <4>1. BienPuesta(c)' /\ ConElPrimero(c)'
        BY <3>2 DEF BienPuesta, ConElPrimero, SinTurno, ConVale, Asignando, Eligiendo,
                    ConSilla, Confirmada
      <4>2. ASSUME NEW e \in Llamada, BienPuesta(e), ConElPrimero(e)
            PROVE  BienPuesta(e)' /\ ConElPrimero(e)'
        <5>1. BienPuesta(e)'
          BY <2>1, <2>2, <3>1, <4>2 DEF BienPuesta, Asignando, SinTurno, SinPagar, TypeOK
        <5>2. ASSUME e.pc \in Eligiendo, turno'[e.turno] = "EN_COLA",
                     NEW u \in Turno, turno'[u] = "EN_COLA", origen'[u] = Nada
              PROVE  orden'[e.turno] <= orden'[u]
          <6>1. e.turno \in Turno /\ e.turno # t /\ turno[e.turno] = "EN_COLA"
            BY <2>4, <3>1, <4>2, <5>2
               DEF BienPuesta, Asignando, Eligiendo, SinTurno, SinPagar, TypeOK
          <6>2. CASE u = t
            BY <2>1, <3>1, <3>4, <6>1, <6>2 DEF TypeOK
          <6>3. CASE u # t
            BY <2>2, <3>1, <4>2, <5>2, <6>1, <6>3 DEF ConElPrimero, TypeOK
          <6> QED BY <6>2, <6>3
        <5> QED BY <5>1, <5>2 DEF ConElPrimero
      <4> QED BY <2>2, <3>3, <4>1, <4>2, UnoSolo
    <3>7. Fechas'
      BY <2>1, <2>2, <2>4, <3>1, <3>4, FechasUna DEF IInv, SinPagar
    <3>8. ValeUnTurno'
      <4>1. \A g \in Slots : hilo'[g].vale = hilo[g].vale
        BY <2>1, <3>2, <3>3 DEF Pone
      <4> QED BY <2>2, <4>1 DEF IInv, ValeUnTurno, Entera
    <3> QED BY <3>5, <3>6, <3>7, <3>8 DEF IInv
  <2> QED BY <2>3, <2>4
<1>3. ASSUME CanjearCrea(h) PROVE IInv'
  <2> DEFINE v == hilo[h].vale
  <2>1. v \in Vale /\ v # Nada
    BY <1>3 DEF CanjearCrea, IInv, Coherente, BienPuesta, ConVale, TypeOK, Llamada
  <2>2. UNCHANGED <<sillaDe, sesion, silla, vale, timer, cruzada, perdido, arranque,
                  reinicios, fallas>>
    BY <1>3 DEF CanjearCrea
  <2>3. ASSUME Sigue(h, "can_devuelve")
        PROVE  /\ TipoHilo' /\ \A g \in Slots : hilo'[g].vale = hilo[g].vale
               /\ \E c : Pone(h, c) /\ BienPuesta(c)' /\ ConElPrimero(c)'
    <3>1. PICK c : c = [pc |-> "can_devuelve", turno |-> TurnoDe(h), silla |-> SillaDe(h),
                        vale |-> v]
      OBVIOUS
    <3>2. TipoHilo' /\ Pone(h, c)
      BY <2>3, <3>1, SiguePone DEF Pcs
    <3>3. BienPuesta(c)' /\ ConElPrimero(c)'
      BY <2>1, <3>1 DEF BienPuesta, ConElPrimero, SinTurno, ConVale, Asignando, Eligiendo,
                        ConSilla, Confirmada
    <3>4. \A g \in Slots : hilo'[g].vale = hilo[g].vale
      BY <3>1, <3>2 DEF Pone
    <3> QED BY <3>2, <3>3, <3>4
  <2>4. CASE Sigue(h, "can_devuelve") /\ UNCHANGED <<turno, origen, orden>>
    <3>1. TypeOK'
      BY <2>2, <2>3, <2>4 DEF TypeOK, TipoHilo
    <3>2. ASSUME NEW e \in Llamada, BienPuesta(e), ConElPrimero(e)
          PROVE  BienPuesta(e)' /\ ConElPrimero(e)'
      BY <2>2, <2>4, <3>2 DEF BienPuesta, ConElPrimero
    <3>3. Coherente' /\ EligeAlPrimero'
      BY <2>2, <2>3, <2>4, <3>2, UnoSolo
    <3>4. Fechas'
      BY <2>4 DEF IInv, Fechas, Fechados
    <3>5. ValeUnTurno'
      BY <2>2, <2>3, <2>4 DEF IInv, ValeUnTurno, Entera
    <3> QED BY <3>1, <3>3, <3>4, <3>5 DEF IInv
  <2>5. ASSUME NEW t \in Turno, turno[t] = "ninguno", ReferenciaLibre(v),
               turno' = [turno EXCEPT ![t] = "EN_COLA"], origen' = [origen EXCEPT ![t] = v],
               NEW d \in 0..(Ahora - 1), orden' = [orden EXCEPT ![t] = d],
               SigueAsignando(h) \/ Sigue(h, "can_devuelve")
        PROVE  IInv'
    <3>1. d \in Nat /\ d \in 0..Ahora
      BY <2>5, FechadosFinito DEF Ahora
    <3>2. origen[t] = Nada
      BY <2>5 DEF IInv, Fechas, SinPagar
    <3>3. /\ TipoHilo' /\ \A g \in Slots : g # h => hilo'[g].vale = hilo[g].vale
          /\ \E c : Pone(h, c) /\ BienPuesta(c)' /\ ConElPrimero(c)'
      <4>1. CASE Sigue(h, "can_devuelve")
        BY <2>3, <4>1
      <4>2. CASE SigueAsignando(h)
        <5>1. PICK c : c = [pc |-> "asg_turno", turno |-> Nada, silla |-> Nada,
                            vale |-> Nada]
          OBVIOUS
        <5>2. TipoHilo' /\ Pone(h, c)
          BY <4>2, <5>1, AsignandoPone
        <5>3. BienPuesta(c)' /\ ConElPrimero(c)'
          BY <5>1 DEF BienPuesta, ConElPrimero, SinTurno, ConVale, Asignando, Eligiendo,
                      ConSilla, Confirmada
        <5> QED BY <5>2, <5>3 DEF Pone
      <4> QED BY <2>5, <4>1, <4>2
    <3>4. TypeOK'
      BY <2>1, <2>2, <2>5, <3>1, <3>3 DEF TypeOK, TipoHilo, EstadoTurno
    <3>5. ASSUME NEW e \in Llamada, BienPuesta(e), ConElPrimero(e)
          PROVE  BienPuesta(e)' /\ ConElPrimero(e)'
      <4>1. BienPuesta(e)'
        BY <2>2, <2>5, <3>5 DEF BienPuesta, Asignando, SinTurno, SinPagar, TypeOK
      <4>2. ASSUME e.pc \in Eligiendo, turno'[e.turno] = "EN_COLA",
                   NEW u \in Turno, turno'[u] = "EN_COLA", origen'[u] = Nada
            PROVE  orden'[e.turno] <= orden'[u]
        <5>1. e.turno \in Turno /\ e.turno # t /\ turno[e.turno] = "EN_COLA"
          BY <2>5, <3>5, <4>2 DEF BienPuesta, Asignando, Eligiendo, SinTurno, SinPagar,
                                  TypeOK
        <5>2. u # t
          BY <2>1, <2>5, <4>2 DEF TypeOK
        <5> QED BY <2>5, <3>5, <4>2, <5>1, <5>2 DEF ConElPrimero, TypeOK
      <4> QED BY <4>1, <4>2 DEF ConElPrimero
    <3>6. Coherente' /\ EligeAlPrimero'
      BY <2>2, <3>3, <3>5, UnoSolo
    <3>7. Fechas'
      BY <2>5, <3>1, FechasUna DEF IInv, SinPagar, TypeOK
    <3>8. ValeUnTurno'
      <4>1. origen'[t] = v /\ \A u \in Turno : u # t => origen'[u] = origen[u] /\ origen[u] # v
        BY <2>5 DEF ReferenciaLibre, TypeOK
      <4>2. \A w \in Vale : w # v =>
               /\ \A g \in Slots : hilo[g].vale = w => hilo'[g].vale = w
               /\ \A u \in Turno : origen'[u] = w <=> origen[u] = w
        BY <3>2, <3>3, <4>1
      <4>3. ASSUME NEW w \in Vale, w # v
            PROVE  /\ \A u, x \in Turno : origen'[u] = w /\ origen'[x] = w => u = x
                   /\ vale'[w] = "CANJEADO" /\ Entera' =>
                         \/ \E u \in Turno : origen'[u] = w
                         \/ \E g \in Slots : hilo'[g].vale = w
        BY <2>2, <4>2, <4>3 DEF IInv, ValeUnTurno, Entera
      <4> QED BY <4>1, <4>3 DEF ValeUnTurno
    <3> QED BY <3>4, <3>6, <3>7, <3>8 DEF IInv
  <2> QED BY <1>3, <2>4, <2>5 DEF CanjearCrea
<1>4. ASSUME CanjearDevuelve(h) PROVE IInv'
  <2> DEFINE v == hilo[h].vale
  <2>1. v \in Vale /\ v # Nada
    BY <1>4 DEF CanjearDevuelve, IInv, Coherente, BienPuesta, ConVale, TypeOK, Llamada
  <2>2. UNCHANGED <<turno, sillaDe, sesion, silla, timer, cruzada, perdido, orden, origen,
                  arranque, reinicios, fallas>>
    BY <1>4 DEF CanjearDevuelve
  <2>3. PICK c : c = [pc |-> "libre", turno |-> Nada, silla |-> Nada, vale |-> Nada]
    OBVIOUS
  <2>4. TipoHilo' /\ Pone(h, c)
    BY <1>4, <2>3, TerminaPone DEF CanjearDevuelve
  <2>5. TypeOK'
    BY <1>4, <2>1, <2>2, <2>4 DEF CanjearDevuelve, TypeOK, TipoHilo, EstadoCredito
  <2>6. Coherente' /\ EligeAlPrimero'
    <3>1. BienPuesta(c)' /\ ConElPrimero(c)'
      BY <2>3 DEF BienPuesta, ConElPrimero, SinTurno, ConVale, Asignando, Eligiendo,
                  ConSilla, Confirmada
    <3>2. ASSUME NEW e \in Llamada, BienPuesta(e), ConElPrimero(e)
          PROVE  BienPuesta(e)' /\ ConElPrimero(e)'
      BY <2>2, <3>2 DEF BienPuesta, ConElPrimero
    <3> QED BY <2>2, <2>4, <3>1, <3>2, UnoSolo
  <2>7. Fechas'
    BY <2>2 DEF IInv, Fechas, Fechados
  <2>8. ValeUnTurno'
    <3>1. \A g \in Slots : g # h => hilo'[g] = hilo[g]
      BY <2>4 DEF Pone
    <3>2. vale'[v] # "CANJEADO" /\ \A w \in Vale : w # v => vale'[w] = vale[w]
      BY <1>4, <2>1 DEF CanjearDevuelve, TypeOK
    <3> QED BY <2>2, <3>1, <3>2 DEF IInv, ValeUnTurno, Entera
  <2> QED BY <2>5, <2>6, <2>7, <2>8 DEF IInv
<1> QED BY <1>1, <1>2, <1>3, <1>4

\* The bootstrap.
LEMMA ArranqueConserva ==
    ASSUME IInv, Arranque
    PROVE  IInv'
<1> USE DeIInv, NadaAssumption, HilosAssumption DEF Slots, En, fijo, proceso
<1>1. ASSUME ArranqueLee PROVE IInv'
  <2>1. Avanza
    BY <1>1 DEF ArranqueLee, Fases, Avanza, TypeOK, SinPagar
  <2>2. TipoHilo' /\ Cambia(Arr)
    BY <1>1, <2>1, QuietoCambia DEF ArranqueLee, TipoHilo
  <2>3. TypeOK'
    BY <1>1, <2>2 DEF ArranqueLee, Fases, TypeOK, TipoHilo
  <2> QED BY <2>1, <2>2, <2>3, AvanzaConserva
<1>2. ASSUME NEW t \in Turno, ArranqueTurno(t) PROVE IInv'
  <2>1. Avanza
    BY <1>2 DEF ArranqueTurno, Fases, Avanza, TypeOK, SinPagar
  <2>2. TipoHilo' /\ Cambia(Arr)
    <3>1. CASE UNCHANGED hilo
      BY <2>1, <3>1, QuietoCambia DEF TipoHilo
    <3>2. CASE Empieza(Arr, IF arranque.fase = "pago" THEN "expira" ELSE "ven_lee", t)
      <4>1. hilo[Arr].vale = Nada
        BY <1>2, SinVale DEF ArranqueTurno, ConVale
      <4>2. CASE arranque.fase = "pago"
        BY <3>2, <4>1, <4>2, EmpiezaCambia
      <4>3. CASE arranque.fase # "pago"
        BY <3>2, <4>1, <4>3, EmpiezaCambia
      <4> QED BY <4>2, <4>3
    <3> QED BY <1>2, <3>1, <3>2 DEF ArranqueTurno
  <2>3. TypeOK'
    BY <1>2, <2>2 DEF ArranqueTurno, Fases, TypeOK, TipoHilo, Timers
  <2> QED BY <2>1, <2>2, <2>3, AvanzaConserva
<1>3. ASSUME ArranqueSigue PROVE IInv'
  <2>1. Avanza
    BY <1>3 DEF ArranqueSigue, Fases, Avanza, TypeOK, SinPagar
  <2>2. TipoHilo' /\ Cambia(Arr)
    <3>1. CASE UNCHANGED hilo
      BY <2>1, <3>1, QuietoCambia DEF TipoHilo
    <3>2. CASE Empieza(Arr, "asg_turno", Nada)
      <4>1. SigueAsignando(Arr)
        BY <3>2 DEF Empieza, SigueAsignando, Libre
      <4> QED BY <1>3, <4>1, SinVale, AsignandoCambia DEF ArranqueSigue, ConVale
    <3> QED BY <1>3, <3>1, <3>2 DEF ArranqueSigue
  <2>3. TypeOK'
    BY <1>3, <2>2 DEF ArranqueSigue, Fases, TypeOK, TipoHilo
  <2> QED BY <2>1, <2>2, <2>3, AvanzaConserva
<1> QED BY <1>1, <1>2, <1>3 DEF Arranque
\* A call cut short, and with it the voucher it held.
LEMMA FallaConserva ==
    ASSUME IInv, NEW h \in Hilos, Falla(h)
    PROVE  IInv'
<1> USE DeIInv, NadaAssumption, HilosAssumption, FallasAssumption DEF Slots, En, fijo, proceso
<1>1. UNCHANGED <<turno, sillaDe, sesion, silla, vale, timer, orden, origen, arranque, reinicios>>
  BY DEF Falla
<1>2. PICK c : c = [pc |-> "libre", turno |-> Nada, silla |-> Nada, vale |-> Nada]
  OBVIOUS
<1>3. TipoHilo' /\ Pone(h, c)
  BY <1>2, TerminaPone DEF Falla
<1>4. fallas' = fallas + 1 /\ fallas' \in 0..MaxFallas /\ fallas' # 0
  BY DEF Falla, TypeOK
<1>5. TypeOK'
  <2>1. cruzada' \in [Silla -> BOOLEAN]
    BY Zenon DEF Falla, TypeOK
  <2>2. perdido' \in [Turno -> BOOLEAN]
    BY Zenon DEF Falla, TypeOK
  <2> QED BY <1>1, <1>3, <1>4, <2>1, <2>2 DEF TypeOK, TipoHilo
<1>6. Coherente' /\ EligeAlPrimero'
  <2>1. BienPuesta(c)' /\ ConElPrimero(c)'
    BY <1>2 DEF BienPuesta, ConElPrimero, SinTurno, ConVale, Asignando, Eligiendo,
                ConSilla, Confirmada
  <2>2. ASSUME NEW e \in Llamada, BienPuesta(e), ConElPrimero(e)
        PROVE  BienPuesta(e)' /\ ConElPrimero(e)'
    BY <1>1, <2>2 DEF BienPuesta, ConElPrimero
  <2> QED BY <1>1, <1>3, <2>1, <2>2, UnoSolo
<1>7. Fechas'
  BY <1>1 DEF IInv, Fechas, Fechados
<1>8. ValeUnTurno'
  BY <1>1, <1>4 DEF IInv, ValeUnTurno, Entera
<1> QED BY <1>5, <1>6, <1>7, <1>8 DEF IInv

\* A restart: no call is left.
LEMMA ReiniciarConserva ==
    ASSUME IInv, Reiniciar
    PROVE  IInv'
<1> USE DeIInv, ReiniciosAssumption DEF fijo
<1>1. UNCHANGED <<turno, sillaDe, sesion, silla, vale, orden, origen, fallas>>
  BY DEF Reiniciar
<1>2. hilo' = [h \in Slots |-> Libre] /\ Libre \in Llamada
  BY DEF Reiniciar, Libre, Llamada, Pcs
<1>3. reinicios' \in 0..MaxReinicios /\ reinicios' # 0
  BY DEF Reiniciar, TypeOK
<1>4. TypeOK'
  <2>1. cruzada' \in [Silla -> BOOLEAN]
    BY Zenon DEF Reiniciar, TypeOK
  <2>2. timer' \in [Turno -> Timers] /\ arranque' \in [fase: Fases, lista: SUBSET Turno]
    BY DEF Reiniciar, Timers, Fases
  <2>3. perdido' \in [Turno -> BOOLEAN]
    BY Zenon DEF Reiniciar, TypeOK
  <2> QED BY <1>1, <1>2, <1>3, <2>1, <2>2, <2>3 DEF TypeOK
<1>5. Coherente' /\ EligeAlPrimero'
  BY <1>2 DEF Reiniciar, Coherente, EligeAlPrimero, Libre, BienPuesta, ConElPrimero,
              SinTurno,
              ConVale, Asignando, Eligiendo, ConSilla, Confirmada
<1>6. Fechas'
  BY <1>1 DEF IInv, Fechas, Fechados
<1>7. ValeUnTurno'
  BY <1>1, <1>3 DEF IInv, ValeUnTurno, Entera
<1> QED BY <1>4, <1>5, <1>6, <1>7 DEF IInv

-----------------------------------------------------------------------------
LEMMA InicioIInv == Init => IInv
<1> SUFFICES ASSUME Init PROVE IInv
  OBVIOUS
<1> USE NadaAssumption, HilosAssumption, ReiniciosAssumption, FallasAssumption
    DEF Init, EstadoTurno, EstadoSesion, EstadoSilla, EstadoCredito, Timers, Fases, Pcs,
        Slots, Llamada, Libre, SinPagar, Asignando, ConSilla, Confirmada,
        SinTurno, ConVale, Eligiendo, BienPuesta, ConElPrimero
<1>1. TypeOK
  BY DEF TypeOK
<1>2. Coherente
  BY DEF Coherente
<1>3. Fechas
  <2>1. Fechados = {}
    BY DEF Fechados
  <2> QED BY <2>1, FS_EmptySet DEF Fechas
<1>4. EligeAlPrimero
  BY DEF EligeAlPrimero
<1>5. ValeUnTurno
  BY DEF ValeUnTurno
<1> QED BY <1>1, <1>2, <1>3, <1>4, <1>5 DEF IInv

LEMMA IInvInductiva == IInv /\ [Next]_vars => IInv'
<1> SUFFICES ASSUME IInv, [Next]_vars PROVE IInv'
  OBVIOUS
<1>1. CASE UNCHANGED vars
  BY <1>1 DEF IInv, TypeOK, Coherente, Fechas, EligeAlPrimero, ValeUnTurno, Fechados,
              Entera,
              BienPuesta, ConElPrimero, vars
<1>2. CASE Next
  BY <1>2, AfueraConserva, UnirseConserva, PedidoConserva, FallaConserva, AsignarConserva,
     ConfirmarConserva, PagarConserva, ArranqueConserva, ReiniciarConserva DEF Next, Paso
<1> QED BY <1>1, <1>2

\* The inductive invariant, always.
THEOREM Invariante == Spec => []IInv
BY InicioIInv, IInvInductiva, PTL DEF Spec

\* Every variable has its type, and a turn that is ASIGNADO or EN_USO has a chair.
THEOREM TipoCorrecto == Spec => []TypeOK
<1>1. IInv => TypeOK
  BY DEF IInv
<1> QED BY <1>1, Invariante, PTL

\* canjearCredito: a voucher buys one turn at most, and while no call is cut short a
\* spent one has bought it or is in the hands of a call that will.
THEOREM ValeGastado == Spec => []ValeUnTurno
<1>1. IInv => ValeUnTurno
  BY DEF IInv
<1> QED BY <1>1, Invariante, PTL

\* A turn is assigned only by asignarTurnoASilla, and to the run's own turn.
LEMMA AsignaSuTurno ==
    ASSUME IInv, Next, NEW u \in Turno, turno[u] = "EN_COLA", turno'[u] = "ASIGNADO"
    PROVE  \E h \in Slots : hilo[h].pc \in Eligiendo /\ hilo[h].turno = u
<1> USE DeIInv DEF Slots
<1>1. ASSUME NEW h \in Slots, AsignarTurnoASilla(h)
      PROVE  hilo[h].pc \in Eligiendo /\ hilo[h].turno = u
  BY <1>1 DEF AsignarTurnoASilla, TypeOK, TurnoDe, En, Eligiendo, Asignando
<1>2. ~Afuera /\ ~Arranque /\ ~Reiniciar /\ ~\E t \in Turno : Unirse(t)
  BY DEF Afuera, OcupaAjeno, VuelveEnergia, VenceHuerfana, VenceVale, Arranque,
         ArranqueLee,
         ArranqueTurno, ArranqueSigue, Reiniciar, Unirse, TypeOK
<1>3. ASSUME NEW h \in Hilos PROVE ~Pedido(h) /\ ~Falla(h)
  BY DEF Pedido, Cancelar, PagoAprobado, Confirmar, DispararTimer, CierraSesion, Canjear,
         Tick, Falla
<1>4. ASSUME NEW h \in Slots, Paso(h)
      PROVE  AsignarTurnoASilla(h)
  <2>1. ~ExpirarEsperaPago(h) /\ ~Encolar(h) /\ ~CanjearCrea(h) /\ ~CanjearDevuelve(h)
    BY DEF ExpirarEsperaPago, Encolar, CanjearCrea, CanjearDevuelve, TypeOK
  <2>2. ~AsignarTurno(h) /\ ~AsignarLibres(h) /\ ~AsignarReserva(h) /\ ~AsignarDevuelve(h)
    BY DEF AsignarTurno, AsignarLibres, AsignarReserva, AsignarDevuelve
  <2>3. ~ConfirmarCrea(h) /\ ~ConfirmarActiva(h) /\ ~ConfirmarTurno(h)
    BY DEF ConfirmarCrea, ConfirmarActiva, ConfirmarTurno, TypeOK
  <2>4. ~VencerLee(h) /\ ~VencerCancela(h) /\ ~VencerLibera(h) /\ ~LiberaSesion(h)
    BY DEF VencerLee, VencerCancela, VencerLibera, LiberaSesion, TypeOK
  <2> QED BY <1>4, <2>1, <2>2, <2>3, <2>4 DEF Paso
<1> QED BY <1>1, <1>2, <1>3, <1>4 DEF Next

\* intentarAsignar, "el mas antiguo primero": whatever runs overlap, a turn in the
\* queue is not overtaken by one that was paid after it.
THEOREM EnOrden == Spec => SinAdelantos
<1>1. ASSUME IInv, [Next]_vars, NEW t \in Turno, NEW u \in Turno,
             turno[u] = "EN_COLA", turno'[u] = "ASIGNADO", turno[t] = "EN_COLA", origen[t] = Nada
      PROVE  orden[u] <= orden[t]
  <2>1. Next
    BY <1>1 DEF vars
  <2>2. PICK h \in Slots : hilo[h].pc \in Eligiendo /\ hilo[h].turno = u
    BY <1>1, <2>1, AsignaSuTurno
  <2>3. ConElPrimero(hilo[h])
    BY <1>1 DEF IInv, EligeAlPrimero
  <2> QED BY <1>1, <2>2, <2>3 DEF ConElPrimero
<1>2. IInv /\ [Next]_vars =>
        [\A t, u \in Turno :
            turno[u] = "EN_COLA" /\ turno'[u] = "ASIGNADO"
              /\ turno[t] = "EN_COLA" /\ origen[t] = Nada => orden[u] <= orden[t]]_vars
  BY <1>1
<1> QED BY <1>2, Invariante, PTL DEF Spec, SinAdelantos

-----------------------------------------------------------------------------
(***************************************************************************)
(* Chairs.  A turn is given a chair once; from then on it is confirmed or  *)
(* expires, and its session closes once.                                   *)
(***************************************************************************)
Vencimiento == {"ven_lee", "ven_cancela", "ven_libera"}
Abriendo == {"conf_activa", "conf_turno"}
ConSesion == Abriendo \cup {"ses_libera"}
\* The calls that neither hold a chair nor decide on a turn that has one.
Tranquilos == {"libre", "expira", "encola", "asg_turno", "asg_libres", "asg_reserva",
               "can_crea", "can_devuelve"}
AntesDeSilla == SinPagar \cup {"EN_COLA"}

\* A step that leaves alone the chairs and the turns that have one.
Mansa ==
    /\ \A h \in Slots : \/ hilo'[h] = hilo[h]
                        \/ /\ hilo[h].pc \in Tranquilos /\ hilo'[h].pc \in Tranquilos
                           /\ arranque.fase # "listo" /\ hilo[h].pc \in {"libre", "expira"}
                                => hilo'[h].pc = "libre"
    /\ UNCHANGED <<sillaDe, sesion, silla, cruzada, perdido, arranque, reinicios, fallas>>
    /\ \A t \in Turno :
        /\ timer'[t] = timer[t] \/ timer'[t] \in {"no", "pago"}
        /\ IF turno[t] \in AntesDeSilla
           THEN turno'[t] \in AntesDeSilla \cup {"CANCELADA"}
           ELSE turno'[t] = turno[t]

\* The others.
Brava(h) ==
    \/ \E t \in Turno :
          h \in Hilos /\ (Confirmar(h, t) \/ DispararTimer(h, t) \/ CierraSesion(h, t))
    \/ h \in Hilos /\ Falla(h)
    \/ AsignarReserva(h) \/ AsignarTurnoASilla(h) \/ AsignarDevuelve(h)
    \/ ConfirmarCrea(h) \/ ConfirmarActiva(h) \/ ConfirmarTurno(h)
    \/ VencerLee(h) \/ VencerCancela(h) \/ VencerLibera(h) \/ LiberaSesion(h)
SinLlamada ==
    \/ \E s \in Silla : OcupaAjeno(s)
    \/ \E t \in Turno : VuelveEnergia(t) \/ VenceHuerfana(t)

\* Every step of the service is of one of these kinds.
LEMMA PasoDeLaCola ==
    ASSUME IInv, Next
    PROVE  \/ Mansa \/ \E h \in Slots : Brava(h)
           \/ SinLlamada \/ Arranque \/ Reiniciar
<1> USE HilosAssumption DEF IInv, TypeOK, Slots, Llamada, fijo, proceso, En, TurnoDe, Libre,
    Empieza, Sigue, Termina, SigueAsignando, Mansa, Tranquilos, AntesDeSilla, SinPagar
<1>1. ASSUME NEW v \in Vale, VenceVale(v) PROVE Mansa
  BY <1>1 DEF VenceVale
<1>2. ASSUME NEW t \in Turno, Unirse(t) PROVE Mansa
  BY <1>2 DEF Unirse
<1>3. ASSUME NEW h \in Hilos, NEW t \in Turno, Cancelar(h, t) \/ PagoAprobado(h, t)
      PROVE  Mansa
  BY <1>3 DEF Cancelar, PagoAprobado, Atiende
<1>4. ASSUME NEW h \in Hilos, NEW v \in Vale, Canjear(h, v) PROVE Mansa
  BY <1>4 DEF Canjear, Atiende
<1>5. ASSUME NEW h \in Hilos, Tick(h) PROVE Mansa
  BY <1>5 DEF Tick, Atiende
<1>6. ASSUME NEW h \in Slots, ExpirarEsperaPago(h) \/ Encolar(h) PROVE Mansa
  BY <1>6 DEF ExpirarEsperaPago, Encolar
<1>7. ASSUME NEW h \in Slots, AsignarTurno(h) \/ AsignarLibres(h) PROVE Mansa
  BY <1>7 DEF AsignarTurno, AsignarLibres
<1>8. ASSUME NEW h \in Slots, CanjearCrea(h) \/ CanjearDevuelve(h) PROVE Mansa
  BY <1>8 DEF CanjearCrea, CanjearDevuelve
<1> QED BY <1>1, <1>2, <1>3, <1>4, <1>5, <1>6, <1>7, <1>8
       DEF Next, Afuera, Pedido, Paso, Brava, SinLlamada

\* What comes before a chair and what comes after.  A turn without a chair has no
\* session, no window and no call of either; a call that confirms or expires knows
\* the chair of its turn; one call at a time opens the session, and one closes it.
VidaDe(t) ==
    /\ turno[t] \in AntesDeSilla =>
          /\ sillaDe[t] = Nada /\ sesion[t] = "ninguna" /\ timer[t] # "ventana"
          /\ ~EnCurso(t, Vencimiento \cup Confirmada \cup {"ses_libera"})
          /\ t \in arranque.lista => arranque.fase = "pago"
    /\ sesion[t] # "ninguna" => sillaDe[t] \in Silla
    /\ sesion[t] = "ninguna" => ~EnCurso(t, ConSesion)
    /\ \A h \in Slots : TurnoDe(h) = t =>
          /\ hilo[h].pc \in Confirmada \cup {"ven_cancela", "ven_libera"} => SillaDe(h) = sillaDe[t]
          /\ En(h, "conf_activa") => sesion[t] = "PENDIENTE"
          /\ En(h, "conf_turno") => sesion[t] \notin {"ninguna", "PENDIENTE"}
          /\ En(h, "ses_libera") => sesion[t] = "cerrada"
    /\ \A g, h \in Slots :
          TurnoDe(g) = t /\ TurnoDe(h) = t
            /\ (\/ hilo[g].pc \in Abriendo /\ hilo[h].pc \in Abriendo
                \/ En(g, "ses_libera") /\ En(h, "ses_libera"))
             => g = h
Vida == \A t \in Turno : VidaDe(t)

\* Vida is inductive next to IInv.
LEMMA VidaInductiva ==
    /\ Init => Vida
    /\ IInv /\ Vida /\ [Next]_vars => Vida'
<1> USE NadaAssumption, HilosAssumption DEF EnCurso, En, TurnoDe, SillaDe, Abierta, Slots,
    Vencimiento, Confirmada, ConSesion, Abriendo, AntesDeSilla, SinPagar
<1>1. Init => Vida
  BY DEF Init, Vida, VidaDe, Libre
<1>2. ASSUME IInv, Vida, [Next]_vars PROVE Vida'
  <2>1. SUFFICES ASSUME NEW r \in Turno PROVE VidaDe(r)'
    BY DEF Vida
  <2>2. VidaDe(r)
    BY <1>2 DEF Vida
  <2>3. CASE UNCHANGED vars
    BY <2>2, <2>3 DEF vars, VidaDe
  <2>4. CASE Mansa
    BY <2>2, <2>4 DEF Mansa, Tranquilos, VidaDe
  <2> USE <1>2, <2>2 DEF IInv, TypeOK, Coherente, BienPuesta, SinTurno, ConSilla, Asignando,
      Llamada, fijo, proceso, Libre, Empieza, Sigue, Termina, SigueAsignando, VidaDe, Vida
  <2>5. ASSUME NEW h \in Hilos, NEW t \in Turno, Confirmar(h, t) PROVE VidaDe(r)'
    BY <2>5 DEF Confirmar, Atiende, Confirmable
  <2>6. ASSUME NEW h \in Hilos, NEW t \in Turno, DispararTimer(h, t) PROVE VidaDe(r)'
    <3>1. /\ \A g \in Slots : g # h => hilo'[g] = hilo[g]
          /\ hilo[h].pc = "libre"
          /\ hilo'[h].turno = t /\ timer'[t] = "no" /\ (r # t => timer'[r] = timer[r])
          /\ UNCHANGED <<turno, sillaDe, sesion, arranque>>
      BY <2>6 DEF DispararTimer
    <3>2. hilo'[h].pc \in {"expira", "ven_lee"} /\ (hilo'[h].pc = "ven_lee" => timer[t] = "ventana")
      BY <2>6 DEF DispararTimer, Timers
    <3>3. timer[t] = "ventana" => turno[t] \notin AntesDeSilla
      BY DEF Vida
    <3> QED BY ONLY <2>2, <3>1, <3>2, <3>3, h \in Slots, r \in Turno
       DEF VidaDe, Confirmada, ConSesion, Abriendo, Vencimiento, AntesDeSilla, SinPagar,
           EnCurso, En, TurnoDe, SillaDe, Abierta
  <2>7. ASSUME NEW h \in Hilos, NEW t \in Turno, CierraSesion(h, t) PROVE VidaDe(r)'
    BY <2>7 DEF CierraSesion
  <2>8. ASSUME NEW h \in Hilos, Falla(h) PROVE VidaDe(r)'
    BY <2>8 DEF Falla
  <2>9. ASSUME NEW h \in Slots, AsignarReserva(h) PROVE VidaDe(r)'
    BY <2>9 DEF AsignarReserva
  <2>10. ASSUME NEW h \in Slots, AsignarTurnoASilla(h) PROVE VidaDe(r)'
    BY <2>10 DEF AsignarTurnoASilla
  <2>11. ASSUME NEW h \in Slots, AsignarDevuelve(h) PROVE VidaDe(r)'
    BY <2>11 DEF AsignarDevuelve
  <2>12. ASSUME NEW h \in Slots, ConfirmarCrea(h) PROVE VidaDe(r)'
    <3>1. CASE sesion[TurnoDe(h)] # "ninguna"
      BY <2>12, <3>1 DEF ConfirmarCrea
    <3>2. CASE sesion[TurnoDe(h)] = "ninguna" /\ r # TurnoDe(h)
      <4>1. /\ \A g \in Slots : g # h => hilo'[g] = hilo[g]
            /\ hilo'[h].turno # r /\ sesion'[r] = sesion[r]
            /\ UNCHANGED <<turno, sillaDe, timer, arranque>>
        BY <2>12, <3>2 DEF ConfirmarCrea
      <4> QED BY ONLY <2>2, <4>1, NadaAssumption, h \in Slots, r \in Turno
         DEF VidaDe, Confirmada, ConSesion, Abriendo, Vencimiento, AntesDeSilla, SinPagar,
             EnCurso, En, TurnoDe, SillaDe, Abierta
    <3>3. CASE sesion[TurnoDe(h)] = "ninguna" /\ r = TurnoDe(h)
      <4>1. /\ \A g \in Slots : g # h => hilo'[g] = hilo[g]
            /\ hilo[h].pc = "conf_crea" /\ hilo'[h].pc = "conf_activa"
            /\ hilo'[h].turno = r /\ hilo'[h].silla = hilo[h].silla
            /\ sesion'[r] = "PENDIENTE"
            /\ UNCHANGED <<turno, sillaDe, timer, arranque>>
        BY <2>12, <3>3 DEF ConfirmarCrea
      <4>2. hilo[h].turno = r /\ sillaDe[r] \in Silla
        BY <3>3, <4>1
      <4>3. /\ turno[r] \notin AntesDeSilla
            /\ \A g \in Slots : TurnoDe(g) = r => hilo[g].pc \notin ConSesion
        BY <3>3, <4>1, <4>2
      <4> QED BY ONLY <2>2, <4>1, <4>2, <4>3, h \in Slots, r \in Turno
         DEF VidaDe, Confirmada, ConSesion, Abriendo, Vencimiento, AntesDeSilla, SinPagar,
             EnCurso, En, TurnoDe, SillaDe, Abierta
    <3> QED BY <3>1, <3>2, <3>3
  <2>13. ASSUME NEW h \in Slots, ConfirmarActiva(h) PROVE VidaDe(r)'
    BY <2>13 DEF ConfirmarActiva
  <2>14. ASSUME NEW h \in Slots, ConfirmarTurno(h) PROVE VidaDe(r)'
    BY <2>14 DEF ConfirmarTurno
  <2>15. ASSUME NEW h \in Slots, VencerLee(h) PROVE VidaDe(r)'
    <3>1. CASE turno[TurnoDe(h)] # "ASIGNADO"
      <4>1. /\ \A g \in Slots : g # h => hilo'[g] = hilo[g]
            /\ hilo'[h].turno = Nada
            /\ UNCHANGED <<turno, sillaDe, sesion, timer, arranque>>
        BY <2>15, <3>1 DEF VencerLee
      <4> QED BY ONLY <2>2, <4>1, NadaAssumption, h \in Slots, r \in Turno
         DEF VidaDe, Confirmada, ConSesion, Abriendo, Vencimiento, AntesDeSilla, SinPagar,
             EnCurso, En, TurnoDe, SillaDe, Abierta
    <3>2. CASE turno[TurnoDe(h)] = "ASIGNADO"
      <4>1. /\ \A g \in Slots : g # h => hilo'[g] = hilo[g]
            /\ hilo[h].pc = "ven_lee" /\ hilo'[h].pc = "ven_cancela"
            /\ hilo'[h].turno = hilo[h].turno /\ hilo'[h].silla = sillaDe[hilo[h].turno]
            /\ UNCHANGED <<turno, sillaDe, sesion, timer, arranque>>
        BY <2>15, <3>2 DEF VencerLee
      <4> QED BY ONLY <2>2, <4>1, h \in Slots, r \in Turno
         DEF VidaDe, Confirmada, ConSesion, Abriendo, Vencimiento, AntesDeSilla, SinPagar,
             EnCurso, En, TurnoDe, SillaDe, Abierta
    <3> QED BY <3>1, <3>2
  <2>16. ASSUME NEW h \in Slots, VencerCancela(h) PROVE VidaDe(r)'
    BY <2>16 DEF VencerCancela
  <2>17. ASSUME NEW h \in Slots, VencerLibera(h) PROVE VidaDe(r)'
    BY <2>17 DEF VencerLibera
  <2>18. ASSUME NEW h \in Slots, LiberaSesion(h) PROVE VidaDe(r)'
    BY <2>18 DEF LiberaSesion
  <2>19. CASE SinLlamada
    BY <2>19 DEF SinLlamada, OcupaAjeno, VuelveEnergia, VenceHuerfana
  <2>20. CASE ArranqueLee \/ ArranqueSigue
    BY <2>20 DEF ArranqueLee, ArranqueSigue
  <2>21. ASSUME NEW t \in Turno, ArranqueTurno(t) PROVE VidaDe(r)'
    BY <2>21 DEF ArranqueTurno
  <2>22. CASE Reiniciar
    BY <2>22 DEF Reiniciar
  <2> QED BY <2>3, <2>4, <2>5, <2>6, <2>7, <2>8, <2>9, <2>10, <2>11, <2>12, <2>13, <2>14,
             <2>15, <2>16, <2>17, <2>18, <2>19, <2>20, <2>21, <2>22, PasoDeLaCola
          DEF Brava, Arranque
<1> QED BY <1>1, <1>2

\* A turn in use, or about to be, has a session that is open or being closed, unless
\* its close has missed it.
UsoDe(t) ==
    turno[t] = "EN_USO" \/ EnCurso(t, {"conf_turno"}) =>
        Abierta(t) \/ EnCurso(t, {"ses_libera"}) \/ perdido[t]
Uso == \A t \in Turno : UsoDe(t)

\* Uso is inductive next to IInv and Vida.
LEMMA UsoInductivo ==
    /\ Init => Uso
    /\ IInv /\ Vida /\ Uso /\ [Next]_vars => Uso'
<1> USE HilosAssumption, NadaAssumption DEF EnCurso, En, TurnoDe, SillaDe, Abierta, Slots
<1>1. Init => Uso
  BY DEF Init, Uso, UsoDe, Libre
<1>2. ASSUME IInv, Vida, Uso, [Next]_vars PROVE Uso'
  <2>1. SUFFICES ASSUME NEW r \in Turno PROVE UsoDe(r)'
    BY DEF Uso
  <2>2. UsoDe(r) /\ VidaDe(r)
    BY <1>2 DEF Uso, Vida
  <2>4. CASE UNCHANGED vars
    BY <2>2, <2>4 DEF vars, UsoDe
  <2>5. CASE Mansa
    BY <2>2, <2>5 DEF Mansa, Tranquilos, AntesDeSilla, SinPagar, UsoDe
  <2> USE <1>2, <2>2 DEF IInv, TypeOK, Coherente, BienPuesta, SinTurno, ConSilla, Asignando,
      Confirmada, Llamada, fijo, proceso, Libre, Empieza, Sigue, Termina, SigueAsignando,
      VidaDe, UsoDe
  <2>6. ASSUME NEW h \in Hilos, NEW t \in Turno, Confirmar(h, t) \/ DispararTimer(h, t)
        PROVE  UsoDe(r)'
    BY <2>6 DEF Confirmar, Atiende, DispararTimer
  <2>7. ASSUME NEW h \in Hilos, NEW t \in Turno, CierraSesion(h, t) PROVE UsoDe(r)'
    BY <2>7 DEF CierraSesion
  <2>8. ASSUME NEW h \in Slots, \/ AsignarReserva(h) \/ AsignarTurnoASilla(h)
                                \/ AsignarDevuelve(h)
        PROVE  UsoDe(r)'
    BY <2>8 DEF AsignarReserva, AsignarTurnoASilla, AsignarDevuelve
  <2>9. ASSUME NEW h \in Slots, ConfirmarCrea(h) \/ ConfirmarActiva(h) PROVE UsoDe(r)'
    BY <2>9 DEF ConfirmarCrea, ConfirmarActiva
  <2>10. ASSUME NEW h \in Slots, ConfirmarTurno(h) PROVE UsoDe(r)'
    BY <2>10 DEF ConfirmarTurno
  <2>11. ASSUME NEW h \in Slots, VencerLee(h) \/ VencerCancela(h) \/ VencerLibera(h)
         PROVE  UsoDe(r)'
    BY <2>11 DEF VencerLee, VencerCancela, VencerLibera
  <2>12. ASSUME NEW h \in Slots, LiberaSesion(h) PROVE UsoDe(r)'
    <3>1. /\ \A g \in Slots : g # h => hilo'[g] = hilo[g]
          /\ hilo[h].pc = "ses_libera" /\ hilo'[h].pc = "libre"
          /\ UNCHANGED sesion
      BY <2>12 DEF LiberaSesion
    <3>2. perdido[r] => perdido'[r]
      BY <2>12, Zenon DEF LiberaSesion, IInv, TypeOK
    <3>3. CASE hilo[h].turno # r
      <4>1. turno'[r] = turno[r]
        BY <2>12, <3>3 DEF LiberaSesion
      <4> QED BY ONLY <2>2, <3>1, <3>2, <3>3, <4>1, h \in Slots, r \in Turno
              DEF UsoDe, EnCurso, TurnoDe, Abierta
    <3>4. CASE hilo[h].turno = r
      <4>1. turno'[r] # "EN_USO"
        BY <2>12, <3>4 DEF LiberaSesion
      <4>2. EnCurso(r, {"conf_turno"})' => EnCurso(r, {"conf_turno"})
        BY ONLY <3>1, h \in Slots DEF EnCurso, TurnoDe
      <4>3. EnCurso(r, {"conf_turno"}) => Pierde(r)
        BY DEF Pierde
      <4>4. Pierde(r) => perdido'[r]
        BY <2>12, <3>4, Zenon DEF LiberaSesion, IInv, TypeOK
      <4> QED BY ONLY <4>1, <4>2, <4>3, <4>4 DEF UsoDe
    <3> QED BY <3>3, <3>4
  <2>13. CASE SinLlamada
    BY <2>13 DEF SinLlamada, OcupaAjeno, VuelveEnergia, VenceHuerfana
  <2>14. CASE Arranque
    BY <2>14 DEF Arranque, ArranqueLee, ArranqueSigue, ArranqueTurno
  <2>15. ASSUME NEW h \in Hilos, Falla(h) PROVE UsoDe(r)'
    <3>1. /\ \A g \in Slots : g # h => hilo'[g] = hilo[g]
          /\ hilo'[h].pc = "libre"
          /\ UNCHANGED <<turno, sesion>>
      BY <2>15 DEF Falla
    <3>2. (perdido[r] \/ ConTurnoAbierto(h, r)) => perdido'[r]
      BY <2>15, Zenon DEF Falla
    <3> QED BY ONLY <2>2, <3>1, <3>2, h \in Slots, r \in Turno
            DEF UsoDe, EnCurso, TurnoDe, Abierta, ConTurnoAbierto, En
  <2>16. CASE Reiniciar
    <3>1. \A h \in Slots : hilo'[h].pc = "libre"
      BY <2>16 DEF Reiniciar
    <3>2. UNCHANGED <<turno, sesion>>
      BY <2>16 DEF Reiniciar
    <3>3. (perdido[r] \/ \E h \in Slots : ConTurnoAbierto(h, r)) => perdido'[r]
      BY <2>16, Zenon DEF Reiniciar
    <3> QED BY ONLY <2>2, <3>1, <3>2, <3>3, r \in Turno
            DEF UsoDe, EnCurso, TurnoDe, Abierta, ConTurnoAbierto, En
  <2> QED BY <2>4, <2>5, <2>6, <2>7, <2>8, <2>9, <2>10, <2>11, <2>12, <2>13, <2>14, <2>15,
             <2>16, PasoDeLaCola DEF Brava
<1> QED BY <1>1, <1>2

\* cerrarYLiberar, through failed calls, restarts and a close that falls at any time
\* after activarSesion: a turn in use has a session that is open or being closed, or
\* it is one whose close was cut between its two statements, or came before confirmar
\* put the turn EN_USO.
THEOREM NadieSigueSentado == Spec => []EnUsoConSesion
<1> DEFINE Inv == IInv /\ Vida /\ Uso
<1>1. Init => Inv
  BY InicioIInv, VidaInductiva, UsoInductivo
<1>2. Inv /\ [Next]_vars => Inv'
  BY IInvInductiva, VidaInductiva, UsoInductivo
<1>3. Inv => EnUsoConSesion
  BY DEF Uso, UsoDe, EnUsoConSesion
<1> QED BY <1>1, <1>2, <1>3, PTL DEF Spec

\* intentarAsignar, confirmar and the expiry of the window: while no call is cut short
\* a reserved chair is held by a turn, by the run that assigns it, or by the call that
\* is about to give it back.
THEOREM ReservadaConAlguien == Spec => []ReservadaConDuenio
<1> USE HilosAssumption, NadaAssumption DEF EnCurso, En, TurnoDe, SillaDe, Abierta, Slots, Ocupa
<1>1. Init => ReservadaConDuenio
  BY DEF Init, ReservadaConDuenio
<1>2. ASSUME IInv, Vida, ReservadaConDuenio, [Next]_vars PROVE ReservadaConDuenio'
  <2>1. SUFFICES ASSUME NEW s \in Silla, Entera', silla'[s] = "RESERVADA"
                 PROVE  (\/ \E t \in Turno : Ocupa(t, s)
                         \/ \E h \in Slots : SillaDe(h) = s /\
                               hilo[h].pc \in {"asg_asigna", "asg_devuelve", "ven_libera",
                                              "conf_activa"}
                         \/ \E t \in Turno : sillaDe[t] = s /\ EnCurso(t, {"ses_libera"}))'
    BY DEF ReservadaConDuenio
  <2> DEFINE Llamando(h) ==
               /\ hilo[h].silla = s
               /\ hilo[h].pc \in {"asg_asigna", "asg_devuelve", "ven_libera", "conf_activa"}
             Sentado(t) ==
               /\ sillaDe[t] = s
               /\ (turno[t] = "ASIGNADO" /\ sesion[t] # "cerrada") \/ Abierta(t)
             Saliendo(h) == /\ hilo[h].pc = "ses_libera" /\ hilo[h].turno \in Turno
                            /\ sillaDe[hilo[h].turno] = s
             Bien == \/ \E t \in Turno : Sentado(t)
                     \/ \E h \in Slots : Llamando(h) \/ Saliendo(h)
  <2>2. Entera /\ silla[s] = "RESERVADA" => Bien
    BY <1>2 DEF ReservadaConDuenio
  <2>3. SUFFICES Bien'
    OBVIOUS
  <2> USE <1>2, <2>1 DEF IInv, TypeOK, Coherente, BienPuesta, SinTurno, ConSilla, Asignando,
      Confirmada, Llamada, fijo, proceso, Libre, Empieza, Sigue, Termina, SigueAsignando, Vida,
      VidaDe, Entera
  <2>4. CASE UNCHANGED vars
    BY <2>2, <2>4 DEF vars
  <2>5. CASE Mansa
    BY <2>2, <2>5 DEF Mansa, Tranquilos, AntesDeSilla, SinPagar
  <2>6. ASSUME NEW h \in Hilos, NEW t \in Turno, Confirmar(h, t) \/ DispararTimer(h, t) PROVE Bien'
    BY <2>2, <2>6 DEF Confirmar, Atiende, DispararTimer
  <2>7. ASSUME NEW h \in Hilos, NEW t \in Turno, CierraSesion(h, t) PROVE Bien'
    BY <2>2, <2>7 DEF CierraSesion
  <2>8. ASSUME NEW h \in Slots, AsignarReserva(h) \/ AsignarDevuelve(h) PROVE Bien'
    BY <2>2, <2>8 DEF AsignarReserva, AsignarDevuelve, DevolverSilla
  <2>16. ASSUME NEW h \in Slots, AsignarTurnoASilla(h) PROVE Bien'
    <3>1. PICK t \in Turno : t = hilo[h].turno
      BY <2>16 DEF AsignarTurnoASilla
    <3>2. UNCHANGED <<sesion, silla>> /\ Entera /\ \A g \in Slots : g # h => hilo'[g] = hilo[g]
      BY <2>16 DEF AsignarTurnoASilla
    <3>3. CASE turno[t] = "EN_COLA"
      <4>1. /\ turno'[t] = "ASIGNADO" /\ sillaDe'[t] = hilo[h].silla
            /\ \A u \in Turno : u # t => turno'[u] = turno[u] /\ sillaDe'[u] = sillaDe[u]
        BY <2>16, <3>1, <3>3 DEF AsignarTurnoASilla
      <4>2. /\ ~Sentado(t) /\ sesion[t] = "ninguna"
            /\ \A g \in Slots : hilo[g].pc = "ses_libera" => hilo[g].turno # t
        BY <3>3 DEF AntesDeSilla
      <4>3. \A u \in Turno : Sentado(u) => Sentado(u)'
        BY <3>2, <4>1, <4>2
      <4>4. \A g \in Slots : Llamando(g) \/ Saliendo(g) => g = h \/ Llamando(g)' \/ Saliendo(g)'
        BY ONLY <3>2, <4>1, <4>2
      <4>5. Llamando(h) => Sentado(t)'
        BY ONLY <3>2, <4>1, <4>2
      <4>6. ~Saliendo(h)
        BY <2>16 DEF AsignarTurnoASilla
      <4> QED BY ONLY <2>1, <2>2, <3>1, <3>2, <4>3, <4>4, <4>5, <4>6
    <3>4. CASE turno[t] # "EN_COLA"
      BY <2>2, <2>16, <3>1, <3>4 DEF AsignarTurnoASilla
    <3> QED BY <3>3, <3>4
  <2>9. ASSUME NEW h \in Slots, ConfirmarCrea(h) PROVE Bien'
    BY <2>2, <2>9 DEF ConfirmarCrea
  <2>17. ASSUME NEW h \in Slots, ConfirmarActiva(h) PROVE Bien'
    BY <2>2, <2>17 DEF ConfirmarActiva
  <2>10. ASSUME NEW h \in Slots, ConfirmarTurno(h) PROVE Bien'
    <3>1. /\ \A g \in Slots : g # h => hilo'[g] = hilo[g]
          /\ hilo[h].pc = "conf_turno" /\ hilo'[h].pc = "libre"
          /\ hilo[h].turno \in Turno /\ turno'[hilo[h].turno] = "EN_USO"
          /\ \A u \in Turno : u # hilo[h].turno => turno'[u] = turno[u]
          /\ UNCHANGED <<sillaDe, sesion, silla, reinicios, fallas>>
      BY <2>10 DEF ConfirmarTurno
    <3>2. /\ sesion[hilo[h].turno] \notin {"ninguna", "PENDIENTE"}
          /\ sesion[hilo[h].turno] \in EstadoSesion
      BY <3>1
    <3>3. \A u \in Turno : Sentado(u) => Sentado(u)'
      BY ONLY <3>1, <3>2 DEF EstadoSesion, Abierta
    <3>4. \A g \in Slots : (Llamando(g) => Llamando(g)') /\ (Saliendo(g) => Saliendo(g)')
      BY ONLY <3>1
    <3>5. Entera /\ silla[s] = "RESERVADA"
      BY <3>1
    <3> QED BY ONLY <2>2, <3>3, <3>4, <3>5
  <2>11. ASSUME NEW h \in Slots, VencerLee(h) \/ VencerLibera(h) PROVE Bien'
    BY <2>2, <2>11 DEF VencerLee, VencerLibera, DevolverSilla
  <2>18. ASSUME NEW h \in Slots, VencerCancela(h) PROVE Bien'
    BY <2>2, <2>18 DEF VencerCancela
  <2>12. ASSUME NEW h \in Slots, LiberaSesion(h) PROVE Bien'
    <3>1. /\ \A g \in Slots : g # h => hilo'[g] = hilo[g]
          /\ hilo[h].pc = "ses_libera" /\ hilo[h].turno \in Turno
          /\ silla'[sillaDe[hilo[h].turno]] = "LIBRE" /\ sillaDe[hilo[h].turno] \in Silla
          /\ UNCHANGED <<sillaDe, sesion, reinicios, fallas>>
      BY <2>12 DEF LiberaSesion
    <3>2. sillaDe[hilo[h].turno] # s
      BY ONLY <2>1, <3>1
    <3>3. silla'[s] = silla[s]
      BY <2>12, <3>2 DEF LiberaSesion
    <3>4. \A u \in Turno : turno'[u] = turno[u] \/ turno[u] = "EN_USO"
      BY <2>12 DEF LiberaSesion
    <3>5. \A u \in Turno : Sentado(u) => Sentado(u)'
      BY ONLY <3>1, <3>4 DEF Abierta
    <3>6. \A g \in Slots : (Llamando(g) => Llamando(g)') /\ (Saliendo(g) => Saliendo(g)')
      BY ONLY <3>1, <3>2
    <3>7. Entera /\ silla[s] = "RESERVADA"
      BY <3>1, <3>3
    <3> QED BY ONLY <2>2, <3>5, <3>6, <3>7
  <2>13. CASE SinLlamada
    BY <2>2, <2>13 DEF SinLlamada, OcupaAjeno, VuelveEnergia, VenceHuerfana
  <2>14. CASE Arranque
    BY <2>2, <2>14 DEF Arranque, ArranqueLee, ArranqueSigue, ArranqueTurno
  <2>15. ~Reiniciar /\ \A h \in Hilos : ~Falla(h)
    BY DEF Reiniciar, Falla
  <2> QED BY <2>4, <2>5, <2>6, <2>7, <2>8, <2>9, <2>10, <2>11, <2>12, <2>13, <2>14, <2>15,
             <2>16, <2>17, <2>18, PasoDeLaCola DEF Brava
<1>3. /\ IInv /\ Vida /\ ReservadaConDuenio /\ [Next]_vars
            => (IInv /\ Vida /\ ReservadaConDuenio)'
  BY <1>2, IInvInductiva, VidaInductiva
<1> QED BY <1>1, <1>3, InicioIInv, VidaInductiva, PTL DEF Spec

\* The phases of the bootstrap in which no window is armed yet.
Temprano == {"pago_lee", "pago", "ventana_lee"}

\* A window expires once: its timer is armed, or the bootstrap has the turn to look at,
\* or one call is expiring it.
UnVencimientoDe(t) ==
    /\ \A g, h \in Slots :
          TurnoDe(g) = t /\ TurnoDe(h) = t /\ hilo[g].pc \in Vencimiento
            /\ hilo[h].pc \in Vencimiento
             => g = h
    /\ timer[t] = "ventana" \/ (t \in arranque.lista /\ arranque.fase = "ventana") =>
          ~EnCurso(t, Vencimiento)
    /\ ~(timer[t] = "ventana" /\ t \in arranque.lista /\ arranque.fase = "ventana")
    /\ arranque.fase \in Temprano => timer[t] # "ventana"
ArranqueTemprano ==
    arranque.fase \in Temprano => \A h \in Slots : hilo[h].pc \in {"libre", "expira", "ses_libera"}
UnVencimiento == \A t \in Turno : UnVencimientoDe(t) /\ ArranqueTemprano

\* UnVencimiento is inductive next to IInv and Vida.
LEMMA UnVencimientoInductivo ==
    /\ Init => UnVencimiento
    /\ IInv /\ Vida /\ UnVencimiento /\ [Next]_vars => UnVencimiento'
<1> USE HilosAssumption, NadaAssumption DEF EnCurso, En, TurnoDe, SillaDe, Slots, Vencimiento,
    UnVencimientoDe, ArranqueTemprano, Temprano
<1>1. Init => UnVencimiento
  BY DEF Init, UnVencimiento, Libre
<1>2. ASSUME IInv, Vida, UnVencimiento, [Next]_vars PROVE UnVencimiento'
  <2>1. SUFFICES ASSUME NEW r \in Turno PROVE UnVencimientoDe(r)' /\ ArranqueTemprano'
    BY DEF UnVencimiento
  <2> DEFINE Bien == UnVencimientoDe(r) /\ ArranqueTemprano
  <2>2. Bien
    BY <1>2 DEF UnVencimiento
  <2>3. SUFFICES Bien'
    OBVIOUS
  <2>4. CASE UNCHANGED vars
    BY <2>2, <2>4 DEF vars
  <2>5. CASE Mansa
    BY <2>2, <2>5 DEF Mansa, Tranquilos
  <2> USE <1>2, <2>2 DEF IInv, TypeOK, Coherente, BienPuesta, SinTurno, ConSilla, Asignando,
      Llamada, fijo, proceso, Libre, Empieza, Sigue, Termina, SigueAsignando
  <2>6. ASSUME NEW h \in Hilos, NEW t \in Turno, Confirmar(h, t) \/ CierraSesion(h, t) PROVE Bien'
    BY <2>6 DEF Confirmar, Atiende, CierraSesion
  <2>7. ASSUME NEW h \in Hilos, NEW t \in Turno, DispararTimer(h, t) PROVE Bien'
    BY <2>7 DEF DispararTimer, Timers, UnVencimiento
  <2>8. ASSUME NEW h \in Slots, AsignarReserva(h) \/ AsignarDevuelve(h) PROVE Bien'
    BY <2>8 DEF AsignarReserva, AsignarDevuelve
  <2>9. ASSUME NEW h \in Slots, AsignarTurnoASilla(h) PROVE Bien'
    <3>1. /\ \A g \in Slots : g # h => hilo'[g] = hilo[g]
          /\ hilo[h].pc = "asg_asigna" /\ hilo'[h].pc \in {"asg_turno", "asg_devuelve"}
          /\ UNCHANGED arranque
          /\ timer'[r] # timer[r] => turno[r] = "EN_COLA"
      BY <2>9 DEF AsignarTurnoASilla
    <3>2. turno[r] = "EN_COLA" =>
              /\ ~EnCurso(r, Vencimiento)
              /\ r \in arranque.lista => arranque.fase = "pago"
      BY DEF Vida, VidaDe, AntesDeSilla
    <3> QED BY ONLY <2>2, <3>1, <3>2, h \in Slots, r \in Turno
            DEF UnVencimientoDe, ArranqueTemprano, EnCurso, TurnoDe, Vencimiento, Temprano
  <2>10. ASSUME NEW h \in Slots, ConfirmarCrea(h) \/ ConfirmarActiva(h) \/ ConfirmarTurno(h)
         PROVE  Bien'
    BY <2>10 DEF ConfirmarCrea, ConfirmarActiva, ConfirmarTurno
  <2>11. ASSUME NEW h \in Slots, VencerLee(h) PROVE Bien'
    BY <2>11 DEF VencerLee
  <2>12. ASSUME NEW h \in Slots, VencerCancela(h) \/ VencerLibera(h) PROVE Bien'
    BY <2>12 DEF VencerCancela, VencerLibera
  <2>13. ASSUME NEW h \in Slots, LiberaSesion(h) PROVE Bien'
    BY <2>13 DEF LiberaSesion
  <2>14. CASE SinLlamada
    BY <2>14 DEF SinLlamada, OcupaAjeno, VuelveEnergia, VenceHuerfana
  <2>15. CASE ArranqueLee \/ ArranqueSigue
    BY <2>15 DEF ArranqueLee, ArranqueSigue
  <2>16. ASSUME NEW t \in Turno, ArranqueTurno(t) PROVE Bien'
    BY <2>16 DEF ArranqueTurno, UnVencimiento
  <2>17. ASSUME NEW h \in Hilos, Falla(h) PROVE Bien'
    BY <2>17 DEF Falla
  <2>18. CASE Reiniciar
    BY <2>18 DEF Reiniciar
  <2> QED BY <2>4, <2>5, <2>6, <2>7, <2>8, <2>9, <2>10, <2>11, <2>12, <2>13, <2>14, <2>15,
             <2>16, <2>17, <2>18, PasoDeLaCola DEF Brava, Arranque
<1> QED BY <1>1, <1>2

\* On a chair where no confirmation met its own expiry, nor was cut short: a turn is
\* confirmed or expires, and one whose session is open and that is not EN_USO yet has
\* the call that will write it.
SinCruceDe(t) ==
    /\ EnCurso(t, {"ven_libera"}) => turno[t] # "ASIGNADO"
    /\ sillaDe[t] \in Silla /\ ~cruzada[sillaDe[t]] =>
        /\ EnCurso(t, Confirmada) \/ sesion[t] # "ninguna" =>
              ~EnCurso(t, {"ven_cancela", "ven_libera"})
        /\ EnCurso(t, {"conf_activa", "ven_cancela"}) => turno[t] = "ASIGNADO"
        /\ EnCurso(t, {"conf_crea"}) /\ sesion[t] = "ninguna" => turno[t] = "ASIGNADO"
        /\ turno[t] = "ASIGNADO" /\ sesion[t] # "ninguna" =>
              EnCurso(t, {"conf_activa", "conf_turno"})
SinCruce == \A t \in Turno : SinCruceDe(t)

\* SinCruce is inductive next to IInv, Vida and UnVencimiento.
LEMMA SinCruceInductivo ==
    /\ Init => SinCruce
    /\ IInv /\ Vida /\ UnVencimiento /\ SinCruce /\ [Next]_vars => SinCruce'
<1> USE HilosAssumption, NadaAssumption DEF EnCurso, En, TurnoDe, SillaDe, Slots, SinCruceDe,
    Confirmada
<1>1. Init => SinCruce
  BY DEF Init, SinCruce, Libre
<1>2. ASSUME IInv, Vida, UnVencimiento, SinCruce, [Next]_vars PROVE SinCruce'
  <2>1. SUFFICES ASSUME NEW r \in Turno PROVE SinCruceDe(r)'
    BY DEF SinCruce
  <2>2. SinCruceDe(r) /\ VidaDe(r) /\ UnVencimientoDe(r)
    BY <1>2 DEF SinCruce, Vida, UnVencimiento
  <2>4. CASE UNCHANGED vars
    BY <2>2, <2>4 DEF vars
  <2>5. CASE Mansa
    BY <1>2, <2>2, <2>5 DEF Mansa, Tranquilos, VidaDe, AntesDeSilla, Vencimiento, IInv, TypeOK
  <2> USE <1>2, <2>2 DEF IInv, TypeOK, Coherente, BienPuesta, SinTurno, ConSilla, Asignando,
      Llamada, fijo, proceso, Libre, Empieza, Sigue, Termina, SigueAsignando
  <2>6. ASSUME NEW h \in Hilos, NEW t \in Turno, Confirmar(h, t) PROVE SinCruceDe(r)'
    <3>1. /\ \A g \in Slots : g # h => hilo'[g] = hilo[g]
          /\ hilo[h].pc = "libre" /\ hilo'[h].pc = "conf_crea" /\ hilo'[h].turno = t
          /\ turno[t] = "ASIGNADO" /\ sillaDe[t] \in Silla
          /\ UNCHANGED <<turno, sillaDe, sesion>>
      BY <2>6 DEF Confirmar, Atiende, Confirmable
    <3>2. cruzada' = [cruzada EXCEPT ![sillaDe[t]] = @ \/ \E g \in Slots : Venciendo(g, t)]
      BY <2>6 DEF Confirmar
    <3>3. \A x \in Silla : cruzada[x] => cruzada'[x]
      BY <3>1, <3>2, Zenon DEF IInv, TypeOK
    <3>4. (\E g \in Slots : Venciendo(g, t)) => cruzada'[sillaDe[t]]
      BY <3>1, <3>2, Zenon DEF IInv, TypeOK
    <3>5. EnCurso(t, {"ven_cancela"}) => \E g \in Slots : Venciendo(g, t)
      BY DEF Venciendo
    <3> QED BY ONLY <2>2, <3>1, <3>3, <3>4, <3>5, h \in Hilos, t \in Turno, r \in Turno
            DEF SinCruceDe, EnCurso, En, TurnoDe, Confirmada, Slots
  <2>7. ASSUME NEW h \in Hilos, NEW t \in Turno, DispararTimer(h, t) \/ CierraSesion(h, t)
        PROVE  SinCruceDe(r)'
    BY <2>7 DEF DispararTimer, CierraSesion, Abierta
  <2>8. ASSUME NEW h \in Slots, AsignarReserva(h) \/ AsignarDevuelve(h) PROVE SinCruceDe(r)'
    <3>1. /\ \A g \in Slots : g # h => hilo'[g] = hilo[g]
          /\ hilo[h].pc \in {"asg_reserva", "asg_devuelve"}
          /\ hilo'[h].pc \in {"asg_asigna", "asg_turno"}
          /\ UNCHANGED <<turno, sillaDe, sesion, cruzada>>
      BY <2>8 DEF AsignarReserva, AsignarDevuelve
    <3> QED BY ONLY <2>2, <3>1, h \in Slots, r \in Turno
            DEF SinCruceDe, EnCurso, En, TurnoDe, Confirmada
  <2>9. ASSUME NEW h \in Slots, AsignarTurnoASilla(h) PROVE SinCruceDe(r)'
    BY <2>9 DEF AsignarTurnoASilla, VidaDe, AntesDeSilla, Vencimiento
  <2>10. ASSUME NEW h \in Slots, ConfirmarCrea(h) PROVE SinCruceDe(r)'
    BY <2>10 DEF ConfirmarCrea
  <2>11. ASSUME NEW h \in Slots, ConfirmarActiva(h) PROVE SinCruceDe(r)'
    BY <2>11 DEF ConfirmarActiva, VidaDe
  <2>12. ASSUME NEW h \in Slots, ConfirmarTurno(h) PROVE SinCruceDe(r)'
    BY <2>12 DEF ConfirmarTurno, VidaDe, Abriendo, Abierta
  <2>13. ASSUME NEW h \in Slots, VencerLee(h) PROVE SinCruceDe(r)'
    <3>1. /\ \A g \in Slots : g # h => hilo'[g] = hilo[g]
          /\ hilo[h].pc = "ven_lee" /\ UNCHANGED <<turno, sillaDe, sesion>>
          /\ \/ hilo'[h].pc = "libre"
             \/ hilo'[h].pc = "ven_cancela" /\ hilo'[h].turno = hilo[h].turno
      BY <2>13 DEF VencerLee
    <3>2. sillaDe[r] \in Silla /\ cruzada[sillaDe[r]] => cruzada'[sillaDe[r]]
      BY <2>13 DEF VencerLee
    <3>3. hilo[h].turno = r /\ hilo'[h].pc = "ven_cancela" =>
              /\ turno[r] = "ASIGNADO"
              /\ EnCurso(r, Confirmada) /\ sillaDe[r] \in Silla => cruzada'[sillaDe[r]]
      <4> SUFFICES ASSUME hilo[h].turno = r, hilo'[h].pc = "ven_cancela"
                   PROVE  /\ turno[r] = "ASIGNADO"
                          /\ EnCurso(r, Confirmada) /\ sillaDe[r] \in Silla => cruzada'[sillaDe[r]]
        OBVIOUS
      <4>1. turno[r] = "ASIGNADO"
        BY <2>13 DEF VencerLee
      <4>2. cruzada' = [cruzada EXCEPT ![sillaDe[r]] = @ \/ \E g \in Slots : Confirmando(g, r)]
        BY <2>13, <4>1 DEF VencerLee
      <4>3. EnCurso(r, Confirmada) => \E g \in Slots : Confirmando(g, r)
        BY DEF Confirmando
      <4>4. cruzada \in [Silla -> BOOLEAN]
        OBVIOUS
      <4>5. sillaDe[r] \in Silla =>
                cruzada'[sillaDe[r]] = (cruzada[sillaDe[r]] \/ \E g \in Slots : Confirmando(g, r))
        BY ONLY <4>2, <4>4, Zenon
      <4> QED BY ONLY <4>1, <4>3, <4>5, Zenon
    <3> QED BY ONLY <2>2, <3>1, <3>2, <3>3, h \in Slots, r \in Turno
         DEF SinCruceDe, EnCurso, En, TurnoDe, Confirmada
  <2>14. ASSUME NEW h \in Slots, VencerCancela(h) PROVE SinCruceDe(r)'
    <3>1. /\ \A g \in Slots : g # h => hilo'[g] = hilo[g]
          /\ hilo[h].pc = "ven_cancela" /\ hilo'[h].pc = "ven_libera"
          /\ hilo'[h].turno = hilo[h].turno /\ hilo[h].turno \in Turno
          /\ turno'[hilo[h].turno] = "CANCELADA"
          /\ hilo[h].turno # r => turno'[r] = turno[r]
          /\ UNCHANGED <<sillaDe, sesion, cruzada>>
      BY <2>14 DEF VencerCancela
    <3>2. CASE hilo[h].turno # r
      BY ONLY <2>2, <3>1, <3>2, h \in Slots, r \in Turno
         DEF SinCruceDe, EnCurso, En, TurnoDe, Confirmada
    <3>3. CASE hilo[h].turno = r
      <4>1. \A g \in Slots : g # h /\ hilo[g].turno = r => hilo[g].pc # "ven_cancela"
        BY ONLY <2>2, <3>1, <3>3, h \in Slots DEF UnVencimientoDe, Vencimiento, TurnoDe
      <4> QED BY ONLY <2>2, <3>1, <3>3, <4>1, h \in Slots, r \in Turno
              DEF SinCruceDe, EnCurso, En, TurnoDe, Confirmada
    <3> QED BY <3>2, <3>3
  <2>15. ASSUME NEW h \in Slots, VencerLibera(h) PROVE SinCruceDe(r)'
    BY <2>15 DEF VencerLibera
  <2>16. ASSUME NEW h \in Slots, LiberaSesion(h) PROVE SinCruceDe(r)'
    BY <2>16 DEF LiberaSesion
  <2>17. CASE SinLlamada
    BY <2>17 DEF SinLlamada, OcupaAjeno, VuelveEnergia, VenceHuerfana
  <2>18. CASE ArranqueLee \/ ArranqueSigue
    BY <2>18 DEF ArranqueLee, ArranqueSigue
  <2>19. ASSUME NEW t \in Turno, ArranqueTurno(t) PROVE SinCruceDe(r)'
    BY <2>19 DEF ArranqueTurno
  <2>20. ASSUME NEW h \in Hilos, Falla(h) PROVE SinCruceDe(r)'
    BY <2>20 DEF Falla, AMedias, VidaDe
  <2>21. CASE Reiniciar
    BY <2>21 DEF Reiniciar, AMedias, VidaDe
  <2> QED BY <2>4, <2>5, <2>6, <2>7, <2>8, <2>9, <2>10, <2>11, <2>12, <2>13, <2>14, <2>15,
             <2>16, <2>17, <2>18, <2>19, <2>20, <2>21, PasoDeLaCola DEF Brava, Arranque
<1> QED BY <1>1, <1>2

\* Who holds the chair s: a turn that has it, or a call that took it for a turn or is
\* about to give it back.
TieneTurno(t, s) ==
    /\ sillaDe[t] = s
    /\ \/ turno[t] = "ASIGNADO" /\ sesion[t] # "cerrada"
       \/ Abierta(t)
       \/ EnCurso(t, {"ses_libera"})
TieneLlamada(h, s) ==
    SillaDe(h) = s /\ hilo[h].pc \in {"asg_asigna", "asg_devuelve", "ven_libera"}

\* Where no confirmation met its own expiry, one of them does, and the chair is taken.
UnDuenioDe(s) ==
    ~cruzada[s] =>
        /\ \A t, u \in Turno : TieneTurno(t, s) /\ TieneTurno(u, s) => t = u
        /\ \A g, h \in Slots : TieneLlamada(g, s) /\ TieneLlamada(h, s) => g = h
        /\ \A t \in Turno, h \in Slots : ~TieneTurno(t, s) \/ ~TieneLlamada(h, s)
        /\ \A t \in Turno : TieneTurno(t, s) => silla[s] \in {"RESERVADA", "EN_USO"}
        /\ \A h \in Slots : TieneLlamada(h, s) => silla[s] \in {"RESERVADA", "EN_USO"}
UnDuenio == \A s \in Silla : UnDuenioDe(s)

\* UnDuenio is inductive next to the invariants above.
LEMMA UnDuenioInductivo ==
    /\ Init => UnDuenio
    /\ IInv /\ Vida /\ UnVencimiento /\ SinCruce /\ UnDuenio /\ [Next]_vars => UnDuenio'
<1> USE HilosAssumption, NadaAssumption DEF EnCurso, En, TurnoDe, SillaDe, Slots, UnDuenioDe,
    TieneTurno, TieneLlamada, Abierta
<1>1. Init => UnDuenio
  BY DEF Init, UnDuenio, Libre
<1>2. ASSUME IInv, Vida, UnVencimiento, SinCruce, UnDuenio, [Next]_vars PROVE UnDuenio'
  <2>1. SUFFICES ASSUME NEW s \in Silla PROVE UnDuenioDe(s)'
    BY DEF UnDuenio
  <2>2. UnDuenioDe(s)
    BY <1>2 DEF UnDuenio
  <2>4. CASE UNCHANGED vars
    BY <2>2, <2>4 DEF vars
  <2>5. CASE Mansa
    <3>1. /\ \A t \in Turno : TieneTurno(t, s)' => TieneTurno(t, s)
          /\ \A h \in Slots : TieneLlamada(h, s)' => TieneLlamada(h, s)
      <4>1. \A h \in Slots : hilo'[h] = hilo[h] \/ hilo'[h].pc \in Tranquilos
        BY <2>5 DEF Mansa
      <4>2. \A t \in Turno : turno'[t] = turno[t] \/ turno'[t] # "ASIGNADO"
        BY <2>5 DEF Mansa, AntesDeSilla, SinPagar
      <4>3. UNCHANGED <<sillaDe, sesion>>
        BY <2>5 DEF Mansa
      <4> QED BY ONLY <4>1, <4>2, <4>3
              DEF TieneTurno, TieneLlamada, Tranquilos, EnCurso, TurnoDe, SillaDe, Abierta
    <3>2. UNCHANGED <<silla, cruzada>>
      BY <2>5 DEF Mansa
    <3> QED BY ONLY <2>2, <3>1, <3>2 DEF UnDuenioDe
  <2> USE <1>2, <2>2 DEF IInv, TypeOK, Coherente, BienPuesta, SinTurno, ConSilla, Asignando,
      Llamada, fijo, proceso, Libre, Empieza, Sigue, Termina, SigueAsignando
  <2>6. ASSUME NEW h \in Hilos, NEW t \in Turno, Confirmar(h, t) PROVE UnDuenioDe(s)'
    BY <2>6 DEF Confirmar, Atiende
  <2>7. ASSUME NEW h \in Hilos, NEW t \in Turno, DispararTimer(h, t) PROVE UnDuenioDe(s)'
    BY <2>7 DEF DispararTimer
  <2>3. ASSUME NEW h \in Hilos, NEW t \in Turno, CierraSesion(h, t) PROVE UnDuenioDe(s)'
    BY <2>3 DEF CierraSesion
  <2>8. ASSUME NEW h \in Slots, AsignarReserva(h) PROVE UnDuenioDe(s)'
    <3>1. /\ \A g \in Slots : g # h => hilo'[g] = hilo[g]
          /\ hilo[h].pc = "asg_reserva" /\ SillaDe(h) \in Silla
          /\ UNCHANGED <<turno, sillaDe, sesion, cruzada>>
      BY <2>8 DEF AsignarReserva
    <3>2. \/ UNCHANGED silla /\ hilo'[h].pc = "asg_turno"
          \/ /\ silla[SillaDe(h)] = "LIBRE" /\ silla'[SillaDe(h)] = "RESERVADA"
             /\ \A x \in Silla : x # SillaDe(h) => silla'[x] = silla[x]
             /\ hilo'[h].pc = "asg_asigna" /\ hilo'[h].silla = SillaDe(h)
      BY <2>8 DEF AsignarReserva, Reservable
    <3>3. \A t \in Turno : TieneTurno(t, s)' => TieneTurno(t, s)
      BY ONLY <3>1, <3>2, h \in Slots DEF TieneTurno, EnCurso, TurnoDe, Abierta
    <3>4. \A g \in Slots : TieneLlamada(g, s)' =>
              TieneLlamada(g, s) \/ (g = h /\ SillaDe(h) = s /\ hilo'[h].pc = "asg_asigna")
      BY ONLY <3>1, <3>2, h \in Slots DEF TieneLlamada, SillaDe
    <3> QED BY ONLY <2>2, <3>1, <3>2, <3>3, <3>4, h \in Slots, s \in Silla DEF UnDuenioDe
  <2>22. ASSUME NEW h \in Slots, AsignarDevuelve(h) PROVE UnDuenioDe(s)'
    BY <2>22 DEF AsignarDevuelve, DevolverSilla
  <2>9. ASSUME NEW h \in Slots, AsignarTurnoASilla(h) PROVE UnDuenioDe(s)'
    <3>1. CASE turno[TurnoDe(h)] # "EN_COLA"
      <4>1. /\ \A g \in Slots : g # h => hilo'[g] = hilo[g]
            /\ hilo[h].pc = "asg_asigna" /\ hilo'[h].pc = "asg_devuelve"
            /\ hilo'[h].silla = hilo[h].silla
            /\ UNCHANGED <<turno, sillaDe, sesion, silla, cruzada>>
        BY <2>9, <3>1 DEF AsignarTurnoASilla
      <4> QED BY ONLY <2>2, <4>1, h \in Slots
              DEF UnDuenioDe, TieneTurno, TieneLlamada, EnCurso, TurnoDe, SillaDe, Abierta
    <3>2. CASE turno[TurnoDe(h)] = "EN_COLA"
      <4> PICK d \in Turno : d = hilo[h].turno
        BY <2>9 DEF AsignarTurnoASilla
      <4>1. /\ \A g \in Slots : g # h => hilo'[g] = hilo[g]
            /\ hilo[h].pc = "asg_asigna" /\ hilo'[h].pc = "asg_turno"
            /\ \A t \in Turno : t # d => turno'[t] = turno[t] /\ sillaDe'[t] = sillaDe[t]
            /\ sillaDe'[d] = hilo[h].silla
            /\ UNCHANGED <<sesion, silla, cruzada>>
        BY <2>9, <3>2 DEF AsignarTurnoASilla
      <4>2. sesion[d] = "ninguna" /\ ~EnCurso(d, {"ses_libera"})
        BY <3>2 DEF Vida, VidaDe, AntesDeSilla
      <4>3. \A t \in Turno : TieneTurno(t, s)' =>
                TieneTurno(t, s) \/ (t = d /\ TieneLlamada(h, s))
        BY ONLY <4>1, <4>2, h \in Slots
           DEF TieneTurno, TieneLlamada, EnCurso, TurnoDe, SillaDe, Abierta
      <4>4. \A g \in Slots : TieneLlamada(g, s)' => TieneLlamada(g, s) /\ g # h
        BY ONLY <4>1, h \in Slots DEF TieneLlamada, SillaDe
      <4> QED BY ONLY <2>2, <4>1, <4>3, <4>4, h \in Slots DEF UnDuenioDe
    <3> QED BY <3>1, <3>2
  <2>10. ASSUME NEW h \in Slots, ConfirmarCrea(h) PROVE UnDuenioDe(s)'
    <3>1. /\ \A g \in Slots : g # h => hilo'[g] = hilo[g]
          /\ hilo'[h].pc \in {"libre", "conf_activa"}
          /\ UNCHANGED <<turno, sillaDe, silla, cruzada>>
          /\ \A t \in Turno : \/ sesion'[t] = sesion[t]
                              \/ sesion[t] = "ninguna" /\ sesion'[t] = "PENDIENTE"
      BY <2>10 DEF ConfirmarCrea
    <3>2. /\ \A t \in Turno : TieneTurno(t, s)' => TieneTurno(t, s)
          /\ \A g \in Slots : TieneLlamada(g, s)' => TieneLlamada(g, s)
      BY ONLY <3>1 DEF TieneTurno, TieneLlamada, EnCurso, TurnoDe, SillaDe, Abierta
    <3> QED BY ONLY <2>2, <3>1, <3>2 DEF UnDuenioDe
  <2>11. ASSUME NEW h \in Slots, ConfirmarActiva(h) PROVE UnDuenioDe(s)'
    BY <2>11 DEF ConfirmarActiva, Vida, VidaDe, SinCruce, SinCruceDe, Confirmada
  <2>12. ASSUME NEW h \in Slots, ConfirmarTurno(h) PROVE UnDuenioDe(s)'
    BY <2>12 DEF ConfirmarTurno, Vida, VidaDe, Confirmada
  <2>13. ASSUME NEW h \in Slots, VencerLee(h) PROVE UnDuenioDe(s)'
    BY <2>13 DEF VencerLee
  <2>14. ASSUME NEW h \in Slots, VencerCancela(h) PROVE UnDuenioDe(s)'
    BY <2>14 DEF VencerCancela, Vida, VidaDe, SinCruce, SinCruceDe, ConSesion, Abriendo
  <2>15. ASSUME NEW h \in Slots, VencerLibera(h) PROVE UnDuenioDe(s)'
    BY <2>15 DEF VencerLibera, DevolverSilla
  <2>16. ASSUME NEW h \in Slots, LiberaSesion(h) PROVE UnDuenioDe(s)'
    BY <2>16 DEF LiberaSesion, Vida, VidaDe, SinCruce, SinCruceDe, ConSesion, Abriendo
  <2>17. CASE SinLlamada
    BY <2>17 DEF SinLlamada, OcupaAjeno, VuelveEnergia, VenceHuerfana
  <2>18. CASE ArranqueLee \/ ArranqueSigue
    BY <2>18 DEF ArranqueLee, ArranqueSigue
  <2>19. ASSUME NEW t \in Turno, ArranqueTurno(t) PROVE UnDuenioDe(s)'
    BY <2>19 DEF ArranqueTurno
  <2>20. ASSUME NEW h \in Hilos, Falla(h) PROVE UnDuenioDe(s)'
    BY <2>20 DEF Falla, AMedias
  <2>21. CASE Reiniciar
    BY <2>21 DEF Reiniciar, AMedias
  <2> QED BY <2>3, <2>4, <2>5, <2>6, <2>7, <2>8, <2>9, <2>10, <2>11, <2>12, <2>13, <2>14, <2>15,
             <2>16, <2>17, <2>18, <2>19, <2>20, <2>21, <2>22, PasoDeLaCola DEF Brava, Arranque
<1> QED BY <1>1, <1>2

\* intentarAsignar: however its runs overlap with the confirmations, the expiries, the
\* crashes and the failed calls, a chair is given to one turn at a time, unless a
\* confirmation met its own expiry on it or was cut short.
THEOREM UnTurnoPorSilla == Spec => []UnaSillaUnTurno
<1> DEFINE Inv == IInv /\ Vida /\ UnVencimiento /\ SinCruce /\ UnDuenio
<1>1. Init => Inv
  BY InicioIInv, VidaInductiva, UnVencimientoInductivo, SinCruceInductivo, UnDuenioInductivo
<1>2. Inv /\ [Next]_vars => Inv'
  BY IInvInductiva, VidaInductiva, UnVencimientoInductivo, SinCruceInductivo,
     UnDuenioInductivo
<1>3. Inv => UnaSillaUnTurno
  BY DEF UnDuenio, UnDuenioDe, TieneTurno, UnaSillaUnTurno, Ocupa
<1> QED BY <1>1, <1>2, <1>3, PTL DEF Spec

-----------------------------------------------------------------------------
(***************************************************************************)
(* Wake-ups.                                                               *)
(***************************************************************************)
\* A turn that waits is woken: TurnoConDespertador for one turn, with what makes it
\* inductive.  Before any crash the session of an assigned turn is that of a
\* confirmation in flight: the one that finds it created leaves the turn to that one.
DespertadorDe(t) ==
    fallas = 0 =>
        /\ turno[t] = "ESPERANDO_PAGO" =>
              \/ timer[t] = "pago"
              \/ EnCurso(t, {"expira", "encola"})
              \/ arranque.fase = "pago_lee"
              \/ arranque.fase = "pago" /\ t \in arranque.lista
        /\ turno[t] = "ASIGNADO" =>
              \/ timer[t] = "ventana"
              \/ EnCurso(t, {"ven_lee", "ven_cancela", "conf_crea", "conf_activa", "conf_turno"})
              \/ arranque.fase \in {"pago_lee", "pago", "ventana_lee"}
              \/ arranque.fase = "ventana" /\ t \in arranque.lista
              \/ reinicios > 0 /\ sesion[t] # "ninguna"
        /\ turno[t] = "ASIGNADO" /\ sesion[t] # "ninguna" /\ reinicios = 0 =>
              EnCurso(t, {"conf_activa", "conf_turno"})
Despertador == \A t \in Turno : DespertadorDe(t)

\* Despertador is inductive next to IInv and Vida, unless a payment or a cancellation
\* reaches a turn that is past them: it takes the timer of the window with it.
LEMMA DespertadorInductivo ==
    ASSUME ~Tardias
    PROVE  /\ Init => Despertador
           /\ IInv /\ Vida /\ Despertador /\ [Next]_vars => Despertador'
<1> USE HilosAssumption, NadaAssumption DEF EnCurso, En, TurnoDe, SillaDe, Slots, DespertadorDe
<1>1. Init => Despertador
  BY DEF Init, Despertador
<1>2. ASSUME IInv, Vida, Despertador, [Next]_vars PROVE Despertador'
  <2>1. SUFFICES ASSUME NEW r \in Turno PROVE DespertadorDe(r)'
    BY DEF Despertador
  <2>2. DespertadorDe(r) /\ VidaDe(r)
    BY <1>2 DEF Despertador, Vida
  <2>3. CASE UNCHANGED vars
    BY <2>2, <2>3 DEF vars
  <2> USE <1>2, <2>2 DEF IInv, TypeOK, Coherente, BienPuesta, SinTurno, ConSilla, Asignando,
      Llamada, fijo, proceso, Libre, Empieza, Sigue, Termina, SigueAsignando
  <2>4. CASE Afuera
    BY <2>4 DEF Afuera, OcupaAjeno, VuelveEnergia, VenceHuerfana, VenceVale
  <2>5. ASSUME NEW t \in Turno, Unirse(t) PROVE DespertadorDe(r)'
    BY <2>5 DEF Unirse
  <2>6. ASSUME NEW h \in Hilos, NEW t \in Turno, Cancelar(h, t) PROVE DespertadorDe(r)'
    BY <2>6 DEF Cancelar, Atiende
  <2>7. ASSUME NEW h \in Hilos, NEW t \in Turno, PagoAprobado(h, t) PROVE DespertadorDe(r)'
    BY <2>7 DEF PagoAprobado, Atiende
  <2>8. ASSUME NEW h \in Hilos, NEW t \in Turno, Confirmar(h, t) PROVE DespertadorDe(r)'
    BY <2>8 DEF Confirmar, Atiende, Confirmable
  <2>9. ASSUME NEW h \in Hilos, NEW t \in Turno, DispararTimer(h, t) PROVE DespertadorDe(r)'
    BY <2>9 DEF DispararTimer, VidaDe, AntesDeSilla, SinPagar
  <2>10. ASSUME NEW h \in Hilos, NEW t \in Turno, CierraSesion(h, t) PROVE DespertadorDe(r)'
    BY <2>10 DEF CierraSesion
  <2>11. ASSUME NEW h \in Hilos, NEW v \in Vale, Canjear(h, v) PROVE DespertadorDe(r)'
    BY <2>11 DEF Canjear, Atiende
  <2>12. ASSUME NEW h \in Hilos, Tick(h) PROVE DespertadorDe(r)'
    BY <2>12 DEF Tick, Atiende
  <2>13. ASSUME NEW h \in Slots, ExpirarEsperaPago(h) PROVE DespertadorDe(r)'
    BY <2>13 DEF ExpirarEsperaPago
  <2>14. ASSUME NEW h \in Slots, Encolar(h) PROVE DespertadorDe(r)'
    BY <2>14 DEF Encolar
  <2>15. ASSUME NEW h \in Slots, AsignarTurno(h) \/ AsignarLibres(h) PROVE DespertadorDe(r)'
    BY <2>15 DEF AsignarTurno, AsignarLibres
  <2>16. ASSUME NEW h \in Slots, AsignarReserva(h) \/ AsignarDevuelve(h)
         PROVE  DespertadorDe(r)'
    BY <2>16 DEF AsignarReserva, AsignarDevuelve
  <2>17. ASSUME NEW h \in Slots, AsignarTurnoASilla(h) PROVE DespertadorDe(r)'
    BY <2>17 DEF AsignarTurnoASilla, VidaDe, AntesDeSilla
  <2>18. ASSUME NEW h \in Slots, ConfirmarCrea(h) PROVE DespertadorDe(r)'
    BY <2>18 DEF ConfirmarCrea
  <2>19. ASSUME NEW h \in Slots, ConfirmarActiva(h) PROVE DespertadorDe(r)'
    BY <2>19 DEF ConfirmarActiva, VidaDe
  <2>20. ASSUME NEW h \in Slots, ConfirmarTurno(h) PROVE DespertadorDe(r)'
    BY <2>20 DEF ConfirmarTurno
  <2>21. ASSUME NEW h \in Slots, VencerLee(h) PROVE DespertadorDe(r)'
    BY <2>21 DEF VencerLee
  <2>22. ASSUME NEW h \in Slots, VencerCancela(h) PROVE DespertadorDe(r)'
    BY <2>22 DEF VencerCancela
  <2>23. ASSUME NEW h \in Slots, VencerLibera(h) PROVE DespertadorDe(r)'
    BY <2>23 DEF VencerLibera
  <2>24. ASSUME NEW h \in Slots, CanjearCrea(h) \/ CanjearDevuelve(h) PROVE DespertadorDe(r)'
    BY <2>24 DEF CanjearCrea, CanjearDevuelve
  <2>25. ASSUME NEW h \in Slots, LiberaSesion(h) PROVE DespertadorDe(r)'
    BY <2>25 DEF LiberaSesion
  <2>26. CASE ArranqueLee \/ ArranqueSigue
    BY <2>26 DEF ArranqueLee, ArranqueSigue
  <2>27. ASSUME NEW t \in Turno, ArranqueTurno(t) PROVE DespertadorDe(r)'
    BY <2>27 DEF ArranqueTurno, VidaDe, AntesDeSilla, SinPagar
  <2>28. CASE Reiniciar \/ \E h \in Hilos : Falla(h)
    BY <2>28, ReiniciosAssumption, FallasAssumption DEF Reiniciar, Falla
  <2> QED BY <2>3, <2>4, <2>5, <2>6, <2>7, <2>8, <2>9, <2>10, <2>11, <2>12, <2>13, <2>14,
             <2>15, <2>16, <2>17, <2>18, <2>19, <2>20, <2>21, <2>22, <2>23, <2>24, <2>25,
             <2>26, <2>27, <2>28
          DEF Next, Pedido, Paso, Arranque
<1> QED BY <1>1, <1>2

\* ColaService's timers and its bootstrap: a turn that waits for its payment, or for its
\* customer, is woken, whatever the order in which the timers fire, the calls overlap
\* and the backend restarts, while no payment and no cancellation reaches a turn that is
\* past them.
THEOREM NadieEsperaEnVano ==
    ASSUME ~Tardias
    PROVE  Spec => []TurnoConDespertador
<1> DEFINE Inv == IInv /\ Vida /\ Despertador
<1>1. Init => Inv
  BY InicioIInv, VidaInductiva, DespertadorInductivo
<1>2. Inv /\ [Next]_vars => Inv'
  BY IInvInductiva, VidaInductiva, DespertadorInductivo
<1>3. Inv => TurnoConDespertador
  BY DEF Despertador, DespertadorDe, TurnoConDespertador
<1> QED BY <1>1, <1>2, <1>3, PTL DEF Spec
=============================================================================
