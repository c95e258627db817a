---------------------------- MODULE Cortes_proofs ----------------------------
(***************************************************************************)
(* What TLAPS proves of Cortes for any times, bounds and order of the      *)
(* steps within a unit:                                                    *)
(*                                                                         *)
(*   TipoCorrecto     every variable has its type: a voucher is never for  *)
(*                    more than the whole turn;                            *)
(*   SeApagaSolo      a contact with current always has a toggle_after     *)
(*                    pending, no later than Margen after the end;         *)
(*   EsperaNoSube     the time until the chair is free goes up only when a *)
(*                    cut is compensated or the return pulse is dated, and *)
(*                    then by no more than its ON took;                    *)
(*                                                                         *)
(* with BaseRapida or without it, and with BaseRapida                      *)
(*                                                                         *)
(*   ServidoEsPagado  a massage closed as served gave what was paid;       *)
(*   ValeEsLoQueFalta one closed by a cut and its voucher add up to it,    *)
(*                                                                         *)
(* both but for what the readings cannot see of each cut.                  *)
(*                                                                         *)
(* ApagaSolo is not inductive.  A resume asks for its toggle_after before  *)
(* it claims the cut, with an end that it computed from the instant of the *)
(* cut: that instant has to be before the end of the massage               *)
(* (CorteAntesDelFin), or the ON would ask for one unit and Margen and the *)
(* end it writes would already be over.  The pass dates the cut by         *)
(* readings, which lie in the past (LecturasPasadas), and the past of a    *)
(* session that runs is before its end because its timer is set for then   *)
(* (FinProgramado).                                                        *)
(*                                                                         *)
(* The last two speak of a closed session; what makes them inductive are   *)
(* the accounts of the open one (Cuenta): the time in the dark is paid by  *)
(* the resumes, by the cut that is registered, or is forgiven, and while   *)
(* the session is in the dark without anybody having noted it, what is     *)
(* forgiven of that cut has not been used up (SinNotar).                   *)
(***************************************************************************)
EXTENDS Cortes, TLAPS

\* The types in parts, each about what changes together.
Salud == [hay: BOOLEAN, online: BOOLEAN, rele: BOOLEAN,
          chequeo: 0..MaxHora, ultimoOnline: 0..MaxHora, ultimoRele: 0..MaxHora]
Temporizador == [que: {"ninguno", "fin", "retorno", "salida"}, cuando: Nat]
Reanudacion == [pc: {"libre", "leer", "reclamar", "programar"}, fin: Nat, devuelve: Nat]

TipoSala == hora \in 1..MaxHora /\ luz \in BOOLEAN /\ red \in BOOLEAN
TipoAparato == rele \in BOOLEAN /\ autoOff \in Nat
TipoNube == nube \in BOOLEAN /\ api \in BOOLEAN /\ desfase \in 0..Demora
TipoFila ==
    /\ estado \in {"ACTIVA", "SALIDA", "COMPLETADA", "CANCELADA"}
    /\ fin \in Nat /\ interrumpida \in Nat /\ compensado \in Nat /\ salidaHasta \in Nat
    /\ motivo \in {"ninguno", "tiempo_cumplido", "completada_tras_reinicio",
                   "corte_sobre_el_final", "corte_de_energia", "parada_de_emergencia"}
    /\ vale \in 0..Duracion \div Minuto
TipoProceso ==
    /\ vivo \in BOOLEAN /\ comando \in Nat /\ toca \subseteq {"latido", "pasada"}
    /\ salud \in Salud /\ timer \in Temporizador /\ reanuda \in Reanudacion
TipoCuentas ==
    /\ apagones \in 0..MaxFallos /\ fallas \in 0..MaxFallos /\ caidas \in 0..MaxFallos
    /\ masaje \in Nat
Tipos == TipoSala /\ TipoAparato /\ TipoNube /\ TipoFila /\ TipoProceso /\ TipoCuentas

\* What is remembered of the chair lies in the past.
LecturasPasadas ==
    /\ Inicio <= hora /\ comando <= hora
    /\ salud.chequeo <= hora /\ salud.ultimoOnline <= hora /\ salud.ultimoRele <= hora

\* A process that is down has neither timers nor a resume.
CaidaSinPendientes == ~vivo => timer.que = "ninguno" /\ reanuda.pc = "libre"

\* The session that runs has not reached its end, and something will end it then.
FinProgramado ==
    vivo /\ estado = "ACTIVA" /\ interrumpida = 0 =>
        /\ hora <= fin
        /\ reanuda.pc = "programar" \/ timer = Timer("fin", fin)

\* A cut lies in the past and before the end of the massage.
CorteAntesDelFin ==
    estado = "ACTIVA" /\ interrumpida > 0 => interrumpida <= fin /\ interrumpida <= hora

\* The resume in progress: the end that it computed is still ahead, its ON
\* asked for a toggle_after no later than Margen after it, and once claimed
\* it is the end of the session.
ReanudaCoherente ==
    /\ reanuda.pc = "reclamar" =>
        /\ hora <= reanuda.fin
        /\ estado = "ACTIVA" /\ luz /\ rele => autoOff <= reanuda.fin + Margen
    /\ reanuda.pc = "programar" /\ estado = "ACTIVA" => reanuda.fin = fin

\* The return pulse starts no later than it was announced.
RetornoAnunciado ==
    estado = "SALIDA" /\ timer.que = "retorno" =>
        /\ salidaHasta = timer.cuando + Retorno
        /\ hora <= timer.cuando

IInv ==
    /\ Tipos /\ LecturasPasadas /\ CaidaSinPendientes /\ FinProgramado
    /\ CorteAntesDelFin /\ ReanudaCoherente /\ RetornoAnunciado /\ ApagaSolo

\* The pulse in progress: only after the massage, only in a process that runs,
\* and late by no more than it has waited.
Pulsacion == [pc: {"libre", "pide", "escribe"}, espera: 0..Latencia]
PulsoBien ==
    /\ pulso \in Pulsacion
    /\ pulso.pc = "libre" => pulso.espera = 0
    /\ pulso.pc # "libre" => vivo /\ estado # "ACTIVA"
    /\ pulso.pc # "libre" /\ estado = "SALIDA" => hora + Retorno <= salidaHasta + pulso.espera

USE TiemposAssumption, CotasAssumption
    DEF TiemposAssumption, CotasAssumption, Inicio, local, equipo, cloud, fila, proceso

-----------------------------------------------------------------------------
(* Types.                                                                  *)

LEMMA Partes == TypeOK <=> Tipos /\ pulso \in Pulsacion
BY Zenon DEF TypeOK, Tipos, TipoSala, TipoAparato, TipoNube, TipoFila, TipoProceso, TipoCuentas,
       Salud, Temporizador, Reanudacion, Pulsacion

\* A voucher is for whole minutes, and for no more than the turn.
LEMMA MinutosAcotados ==
    ASSUME NEW resto \in Int
    PROVE  MinutosDelVale(resto, Duracion, Minuto) \in 0..Duracion \div Minuto
<1> DEFINE q == (resto + Minuto - 1) \div Minuto
           d == Duracion \div Minuto
<1>1. q \in Int /\ d \in Nat
  OBVIOUS
<1> HIDE DEF q, d
<1>2. Menor(d, Mayor(1, q)) \in 0..d
  BY <1>1 DEF Menor, Mayor
<1> QED
  BY <1>2 DEF MinutosDelVale, q, d

LEMMA SinVale == 0 \in 0..Duracion \div Minuto
OBVIOUS

-----------------------------------------------------------------------------
(* The initial state, and the steps one by one.                            *)

\* A session that has just started: its timer is set, and its toggle_after too.
LEMMA InitBien == Init => IInv
<1> SUFFICES ASSUME Init PROVE IInv
  OBVIOUS
<1> USE DEF Init
<1>1. Inicio + Duracion + Gracia \in Nat /\ Inicio + Duracion + Gracia + Margen \in Nat
  OBVIOUS
<1>2. Tipos
  <2>1. TipoSala /\ TipoAparato /\ TipoNube /\ TipoCuentas
    BY <1>1 DEF TipoSala, TipoAparato, TipoNube, TipoCuentas
  <2>2. TipoFila
    BY <1>1, SinVale DEF TipoFila
  <2>3. salud \in Salud
    <3> HIDE DEF Init
    <3>1. SinSalud \in Salud
      BY DEF SinSalud, Salud
    <3>2. 0 \in 0..MaxHora /\ 1 \in 0..MaxHora
      OBVIOUS
    <3>3. salud = [SinSalud EXCEPT !.hay = TRUE, !.online = TRUE, !.chequeo = 1,
                                   !.ultimoOnline = 1]
      BY DEF Init
    <3> QED
      BY <3>1, <3>2, <3>3 DEF Salud
  <2>4. timer \in Temporizador /\ reanuda \in Reanudacion
    BY <1>1 DEF Temporizador, Timer, Reanudacion, NoReanuda
  <2>5. TipoProceso
    BY <2>3, <2>4 DEF TipoProceso
  <2> QED
    BY <2>1, <2>2, <2>5 DEF Tipos
<1>3. LecturasPasadas /\ CaidaSinPendientes /\ FinProgramado
  BY <1>1 DEF LecturasPasadas, SinSalud, CaidaSinPendientes, FinProgramado, Timer, NoReanuda
<1>4. CorteAntesDelFin /\ ReanudaCoherente /\ RetornoAnunciado /\ ApagaSolo
  BY <1>1 DEF CorteAntesDelFin, ReanudaCoherente, RetornoAnunciado, ApagaSolo, NoReanuda, Timer
<1> QED
  BY <1>2, <1>3, <1>4 DEF IInv

\* A reading is of now.
LEMMA LatidoConserva == IInv /\ Latido => IInv'
<1> SUFFICES ASSUME IInv, Latido PROVE IInv'
  OBVIOUS
<1> USE DEF IInv, Latido
<1>1. TipoSala /\ TipoAparato /\ TipoNube /\ TipoFila /\ TipoProceso /\ TipoCuentas
  BY DEF Tipos
<1>2. salud' \in Salud /\ salud'.chequeo <= hora /\ salud'.ultimoOnline <= hora
      /\ salud'.ultimoRele <= hora
  <2>1. CASE UNCHANGED salud
    BY <1>1, <2>1 DEF TipoProceso, LecturasPasadas
  <2>2. CASE salud' = [hay |-> TRUE, online |-> nube, rele |-> rele, chequeo |-> hora,
                       ultimoOnline |-> IF nube THEN hora ELSE salud.ultimoOnline,
                       ultimoRele |-> IF nube /\ rele THEN hora ELSE salud.ultimoRele]
    <3> HIDE DEF IInv, Latido
    <3>1. LecturasPasadas
      BY DEF IInv
    <3> QED
      BY <1>1, <2>2, <3>1
         DEF TipoSala, TipoNube, TipoAparato, TipoProceso, Salud, LecturasPasadas
  <2> QED
    BY <2>1, <2>2
<1>3. Tipos'
  <2>1. TipoSala' /\ TipoAparato' /\ TipoNube' /\ TipoFila' /\ TipoCuentas'
    BY <1>1 DEF TipoSala, TipoAparato, TipoNube, TipoFila, TipoCuentas
  <2>2. TipoProceso'
    BY <1>1, <1>2 DEF TipoProceso
  <2> QED
    BY <2>1, <2>2 DEF Tipos
<1>4. LecturasPasadas'
  BY <1>2 DEF LecturasPasadas
<1>5. CaidaSinPendientes' /\ FinProgramado' /\ CorteAntesDelFin' /\ RetornoAnunciado'
  BY DEF CaidaSinPendientes, FinProgramado, CorteAntesDelFin, RetornoAnunciado
<1>6. ReanudaCoherente' /\ ApagaSolo'
  BY DEF ReanudaCoherente, ApagaSolo
<1> QED
  BY <1>3, <1>4, <1>5, <1>6

\* The premises and the cloud write neither the session nor the process, and
\* only take the current or the contact away.
LEMMA EntornoConserva == IInv /\ Entorno => IInv'
<1> SUFFICES ASSUME IInv, Entorno PROVE IInv'
  OBVIOUS
<1>1. TipoSala /\ TipoAparato /\ TipoNube /\ TipoFila /\ TipoProceso /\ TipoCuentas
  BY DEF IInv, Tipos
<1>2. UNCHANGED <<hora, fila, proceso, masaje>>
  BY DEF Entorno, Apagon, Repone, NubeVe, NubeFalla, AutoOff
<1>3. TipoSala' /\ TipoAparato' /\ TipoNube' /\ TipoCuentas'
  <2> USE DEF TipoSala, TipoAparato, TipoNube, TipoCuentas
  <2>1. CASE NubeVe
    <3>1. Alcanzable \in BOOLEAN
      BY Zenon DEF Alcanzable
    <3> QED
      BY <1>1, <2>1, <3>1 DEF NubeVe
  <2>2. PuedeFallar => apagones + 1 \in 0..MaxFallos /\ fallas + 1 \in 0..MaxFallos
                       /\ caidas + 1 \in 0..MaxFallos
    BY <1>1 DEF PuedeFallar
  <2>3. CASE Apagon \/ NubeFalla
    <3>1. apagones' \in 0..MaxFallos /\ fallas' \in 0..MaxFallos
      BY <1>1, <2>2, <2>3 DEF Apagon, NubeFalla
    <3>2. luz' \in {luz, FALSE} /\ red' \in {red, FALSE} /\ autoOff' \in {autoOff, 0}
      BY <2>3 DEF Apagon, NubeFalla
    <3>3. api' \in {api, TRUE, FALSE} /\ UNCHANGED <<hora, rele, nube, desfase, caidas, masaje>>
      BY <2>3 DEF Apagon, NubeFalla
    <3>4. luz' \in BOOLEAN /\ red' \in BOOLEAN /\ api' \in BOOLEAN
      BY Zenon, <1>1, <3>2, <3>3
    <3>5. autoOff' \in Nat
      BY <1>1, <3>2
    <3> QED
      BY <1>1, <3>1, <3>3, <3>4, <3>5
  <2>4. CASE Repone
    BY <1>1, <2>4 DEF Repone
  <2>5. CASE AutoOff
    BY <1>1, <2>5 DEF AutoOff
  <2> QED
    BY <2>1, <2>2, <2>3, <2>4, <2>5 DEF Entorno
<1>4. Tipos'
  <2>1. TipoFila' /\ TipoProceso'
    BY <1>1, <1>2 DEF TipoFila, TipoProceso
  <2> QED
    BY <1>3, <2>1 DEF Tipos
<1>5. LecturasPasadas' /\ CaidaSinPendientes' /\ FinProgramado'
  BY <1>2 DEF IInv, LecturasPasadas, CaidaSinPendientes, FinProgramado
<1>6. CorteAntesDelFin' /\ RetornoAnunciado'
  BY <1>2 DEF IInv, CorteAntesDelFin, RetornoAnunciado
<1>7. luz' /\ rele' => luz /\ rele /\ autoOff' = autoOff
  BY <1>1 DEF Entorno, Apagon, Repone, NubeVe, NubeFalla, AutoOff, TipoSala, TipoAparato
<1>8. ReanudaCoherente' /\ ApagaSolo'
  BY <1>2, <1>7 DEF IInv, ReanudaCoherente, ApagaSolo
<1> QED
  BY <1>4, <1>5, <1>6, <1>8 DEF IInv

\* Time moves on only when nothing is due: a session that runs has its timer
\* ahead.
LEMMA TicConserva == IInv /\ Tic => IInv'
<1> SUFFICES ASSUME IInv, Tic PROVE IInv'
  OBVIOUS
<1>1. TipoSala /\ TipoAparato /\ TipoNube /\ TipoFila /\ TipoProceso /\ TipoCuentas
  BY DEF IInv, Tipos
<1>2. UNCHANGED <<luz, red, apagones, rele, autoOff, nube, api, fallas, salud, comando, fila,
                  timer, reanuda, vivo, caidas>>
      /\ hora' = hora + 1 /\ hora < MaxHora
  BY DEF Tic
<1>3. Tipos'
  <2>1. TipoSala' /\ TipoAparato' /\ TipoNube'
    BY <1>1 DEF Tic, TipoSala, TipoAparato, TipoNube
  <2>2. TipoCuentas' /\ TipoFila'
    BY <1>1 DEF Tic, TipoCuentas, TipoFila
  <2>3. TipoProceso'
    BY <1>1 DEF Tic, TipoProceso
  <2> QED
    BY <2>1, <2>2, <2>3 DEF Tipos
<1>4. reanuda.pc = "libre" /\ (timer.que # "ninguno" => hora' <= timer.cuando)
  <2>1. CASE vivo
    BY <1>1, <2>1 DEF Tic, NadaPendiente, TipoSala, TipoProceso, Temporizador
  <2>2. CASE ~vivo
    BY <2>2 DEF IInv, CaidaSinPendientes
  <2> QED
    BY <2>1, <2>2
<1>5. LecturasPasadas' /\ CaidaSinPendientes'
  BY <1>1, <1>2 DEF IInv, LecturasPasadas, CaidaSinPendientes, TipoSala, TipoProceso, Salud
<1>6. FinProgramado'
  BY <1>2, <1>4 DEF IInv, FinProgramado, Timer
<1>7. CorteAntesDelFin' /\ RetornoAnunciado' /\ ReanudaCoherente' /\ ApagaSolo'
  BY <1>1, <1>2, <1>4
     DEF IInv, CorteAntesDelFin, RetornoAnunciado, ReanudaCoherente, ApagaSolo, TipoSala, TipoFila
<1> QED
  BY <1>3, <1>5, <1>6, <1>7 DEF IInv

\* A command is of now, and only an ON closes the contact.
LEMMA Ordenes ==
    ASSUME IInv, Apaga
    PROVE  /\ rele' \in BOOLEAN /\ autoOff' \in Nat /\ comando' \in Nat /\ comando' <= hora
           /\ rele' => rele /\ autoOff' = autoOff
<1>1. TipoSala /\ TipoAparato /\ TipoProceso /\ LecturasPasadas
  BY DEF IInv, Tipos
<1>2. CASE Responde
  <2>1. rele' = FALSE /\ autoOff' = 0 /\ comando' = hora
    BY <1>2 DEF Apaga
  <2>2. ~rele'
    BY Zenon, <2>1
  <2>3. autoOff' \in Nat /\ comando' \in Nat /\ comando' <= hora
    BY <1>1, <2>1 DEF TipoSala
  <2>4. rele' \in BOOLEAN
    BY <2>1
  <2> QED
    BY <2>2, <2>3, <2>4
<1>3. CASE ~Responde
  BY <1>1, <1>3 DEF Apaga, TipoAparato, TipoProceso, LecturasPasadas
<1> QED
  BY <1>2, <1>3

\* What the steps that command the relay and write the row leave alone.
ajeno == <<hora, luz, red, apagones, nube, desfase, api, fallas, salud, caidas, masaje>>

\* A session that is not ACTIVA any more asks nothing of its end.
LEMMA CierreConserva ==
    ASSUME IInv, UNCHANGED ajeno, estado' # "ACTIVA", vivo' \in BOOLEAN,
           TipoFila', timer' \in Temporizador, toca' \subseteq {"latido", "pasada"},
           reanuda' \in Reanudacion, CaidaSinPendientes', RetornoAnunciado',
           reanuda'.pc = "reclamar" => reanuda' = reanuda,
           rele' \in BOOLEAN, autoOff' \in Nat, comando' \in Nat, comando' <= hora,
           luz' /\ rele' => autoOff' > 0
    PROVE  IInv'
<1>1. TipoSala /\ TipoNube /\ TipoProceso /\ TipoCuentas
  BY DEF IInv, Tipos
<1>2. Tipos'
  <2>1. TipoSala' /\ TipoAparato' /\ TipoNube' /\ TipoCuentas'
    BY <1>1 DEF ajeno, TipoSala, TipoAparato, TipoNube, TipoCuentas
  <2>2. TipoProceso'
    BY <1>1 DEF ajeno, TipoProceso
  <2> QED
    BY <2>1, <2>2 DEF Tipos
<1>3. LecturasPasadas' /\ ReanudaCoherente'
  BY DEF IInv, LecturasPasadas, ReanudaCoherente, ajeno
<1>4. FinProgramado' /\ CorteAntesDelFin' /\ ApagaSolo'
  BY DEF FinProgramado, CorteAntesDelFin, ApagaSolo
<1> QED
  BY <1>2, <1>3, <1>4 DEF IInv

\* cerrarYLiberar with an OFF.
LEMMA CierraBien ==
    ASSUME IInv, UNCHANGED ajeno, UNCHANGED reanuda, vivo' = TRUE, NEW como, NEW por, NEW minutos,
           Apaga, Cierra(como, por, minutos), timer' = SinTimer,
           como \in {"COMPLETADA", "CANCELADA"},
           por \in {"ninguno", "tiempo_cumplido", "completada_tras_reinicio",
                    "corte_sobre_el_final", "corte_de_energia", "parada_de_emergencia"},
           minutos \in 0..Duracion \div Minuto, toca' \subseteq {"latido", "pasada"}
    PROVE  IInv'
<1>1. TipoFila /\ TipoProceso
  BY DEF IInv, Tipos
<1>2. TipoFila'
  BY <1>1 DEF TipoFila, Cierra
<1>3. timer' \in Temporizador /\ timer'.que = "ninguno"
  BY DEF SinTimer, Temporizador
<1>4. CaidaSinPendientes' /\ RetornoAnunciado'
  BY <1>3 DEF IInv, CaidaSinPendientes, RetornoAnunciado
<1>5. reanuda' \in Reanudacion /\ estado' # "ACTIVA"
  BY <1>1 DEF TipoProceso, Cierra
<1>6. luz' /\ rele' => autoOff' > 0
  BY Ordenes DEF ajeno, IInv, ApagaSolo
<1> QED
  BY <1>2, <1>3, <1>4, <1>5, <1>6, Ordenes, CierreConserva

\* finalizarSesion: the exit, if the chair has one, is announced with its return.
LEMMA TerminaBien ==
    ASSUME IInv, UNCHANGED ajeno, UNCHANGED <<reanuda, toca>>, vivo' = TRUE, NEW por, Termina(por),
           por \in {"tiempo_cumplido", "completada_tras_reinicio"}
    PROVE  IInv'
<1>1. TipoSala /\ TipoFila /\ TipoProceso
  BY DEF IInv, Tipos
<1>2. Apaga
  BY DEF Termina
<1>3. CASE Retorno = 0
  <2>1. Cierra("COMPLETADA", por, 0) /\ timer' = SinTimer
    BY <1>3 DEF Termina
  <2>2. toca' \subseteq {"latido", "pasada"}
    BY <1>1 DEF TipoProceso
  <2> QED
    BY <1>2, <2>1, <2>2, CierraBien, SinVale
<1>4. CASE Retorno # 0
  <2>1. /\ estado' = "SALIDA" /\ motivo' = por
        /\ salidaHasta' = hora + Pausa + Retorno
        /\ timer' = Timer("retorno", hora + Pausa)
        /\ UNCHANGED <<fin, interrumpida, compensado, vale>>
    BY <1>4 DEF Termina
  <2>2. TipoFila'
    BY <1>1, <2>1 DEF TipoFila, TipoSala
  <2>3. timer' \in Temporizador
    BY <1>1, <2>1 DEF Temporizador, Timer, TipoSala
  <2>4. CaidaSinPendientes' /\ RetornoAnunciado'
    BY <1>1, <2>1 DEF CaidaSinPendientes, RetornoAnunciado, Timer, ajeno, TipoSala
  <2>5. luz' /\ rele' => autoOff' > 0
    BY <1>2, Ordenes DEF ajeno, IInv, ApagaSolo
  <2>6. reanuda' \in Reanudacion /\ toca' \subseteq {"latido", "pasada"}
    BY <1>1 DEF TipoProceso
  <2> QED
    BY <1>2, <2>1, <2>2, <2>3, <2>4, <2>5, <2>6, Ordenes, CierreConserva
<1> QED
  BY <1>3, <1>4

\* registrarCorte: a cut between the start and the end, of a session that runs.
LEMMA RegistraBien ==
    ASSUME IInv, UNCHANGED ajeno, UNCHANGED <<vivo, rele, autoOff, comando>>, vivo,
           estado = "ACTIVA", interrumpida = 0, NEW cuando \in Nat \ {0},
           cuando <= hora, cuando <= fin, registrarCorte(cuando),
           timer' \in Temporizador, toca' \subseteq {"latido", "pasada"},
           reanuda' \in Reanudacion, reanuda'.pc = "leer" \/ reanuda' = reanuda
    PROVE  IInv'
<1>1. TipoSala /\ TipoAparato /\ TipoNube /\ TipoFila /\ TipoProceso /\ TipoCuentas
  BY DEF IInv, Tipos
<1>2. interrumpida' = cuando /\ UNCHANGED <<estado, fin, compensado, salidaHasta, motivo, vale>>
  BY DEF registrarCorte
<1>3. Tipos'
  <2>1. TipoSala' /\ TipoAparato' /\ TipoNube' /\ TipoCuentas'
    BY <1>1 DEF ajeno, TipoSala, TipoAparato, TipoNube, TipoCuentas
  <2>2. TipoFila' /\ TipoProceso'
    BY <1>1, <1>2 DEF ajeno, TipoFila, TipoProceso
  <2> QED
    BY <2>1, <2>2 DEF Tipos
<1>4. LecturasPasadas' /\ CaidaSinPendientes' /\ FinProgramado'
  BY <1>2 DEF IInv, ajeno, LecturasPasadas, CaidaSinPendientes, FinProgramado
<1>5. CorteAntesDelFin' /\ RetornoAnunciado' /\ ReanudaCoherente' /\ ApagaSolo'
  BY <1>2 DEF IInv, ajeno, CorteAntesDelFin, RetornoAnunciado, ReanudaCoherente, ApagaSolo
<1> QED
  BY <1>3, <1>4, <1>5 DEF IInv

\* What changes nothing but the callbacks that are due, a timer of a session
\* that no longer asks for it and the start of a resume.
LEMMA OmiteBien ==
    ASSUME IInv, UNCHANGED ajeno, UNCHANGED <<vivo, rele, autoOff, comando, fila>>,
           toca' \subseteq {"latido", "pasada"},
           \/ timer' = timer
           \/ timer' = SinTimer /\ (estado = "ACTIVA" /\ interrumpida = 0 => timer.que # "fin"),
           reanuda' \in Reanudacion,
           \/ reanuda' = reanuda
           \/ /\ vivo /\ reanuda'.pc \in {"leer", "libre"} /\ reanuda.pc # "programar"
    PROVE  IInv'
<1>1. TipoSala /\ TipoAparato /\ TipoNube /\ TipoFila /\ TipoProceso /\ TipoCuentas
  BY DEF IInv, Tipos
<1>2. timer' \in Temporizador
  BY <1>1 DEF TipoProceso, SinTimer, Temporizador
<1>3. Tipos'
  <2>1. TipoSala' /\ TipoAparato' /\ TipoNube' /\ TipoCuentas'
    BY <1>1 DEF ajeno, TipoSala, TipoAparato, TipoNube, TipoCuentas
  <2>2. TipoFila' /\ TipoProceso'
    BY <1>1, <1>2 DEF ajeno, TipoFila, TipoProceso
  <2> QED
    BY <2>1, <2>2 DEF Tipos
<1>4. LecturasPasadas' /\ CaidaSinPendientes'
  BY DEF IInv, ajeno, LecturasPasadas, CaidaSinPendientes, SinTimer
<1>5. FinProgramado' /\ RetornoAnunciado'
  BY DEF IInv, ajeno, FinProgramado, RetornoAnunciado, SinTimer, Timer
<1>6. CorteAntesDelFin' /\ ReanudaCoherente' /\ ApagaSolo'
  BY DEF IInv, ajeno, CorteAntesDelFin, ReanudaCoherente, ApagaSolo
<1> QED
  BY <1>3, <1>4, <1>5, <1>6 DEF IInv

\* A cut found at the close leaves more than Resto to give, so it is before the end.
LEMMA TimerFinConserva == IInv /\ TimerFin => IInv'
<1> SUFFICES ASSUME IInv, TimerFin PROVE IInv'
  OBVIOUS
<1>1. TipoSala /\ TipoAparato /\ TipoFila /\ TipoProceso
  BY DEF IInv, Tipos
<1>2. UNCHANGED ajeno /\ UNCHANGED <<vivo, reanuda, toca>> /\ vivo
  BY DEF TimerFin, Vencido, ajeno
<1>3. toca' \subseteq {"latido", "pasada"} /\ reanuda' \in Reanudacion
  BY <1>1, <1>2 DEF TipoProceso
<1>4. CASE /\ estado # "ACTIVA" \/ interrumpida > 0
           /\ timer' = SinTimer
           /\ UNCHANGED <<equipo, comando, fila>>
  BY <1>1, <1>2, <1>3, <1>4, OmiteBien DEF TipoFila
<1>5. CASE /\ estado = "ACTIVA" /\ interrumpida = 0 /\ CorteAlCerrar
           /\ registrarCorte(VistoAlCierre)
           /\ timer' = SinTimer
           /\ UNCHANGED <<equipo, comando>>
  <2>1. VistoAlCierre \in Nat \ {0} /\ VistoAlCierre <= hora
    BY <1>1 DEF IInv, LecturasPasadas, VistoAlCierre, CorteAlCierre, Mayor, TipoSala,
                TipoProceso, Salud
  <2>2. VistoAlCierre <= fin
    BY <1>1, <1>5, <2>1 DEF CorteAlCerrar, TipoFila
  <2>3. timer' \in Temporizador
    BY <1>5 DEF SinTimer, Temporizador
  <2> QED
    BY <1>2, <1>3, <1>5, <2>1, <2>2, <2>3, RegistraBien
<1>6. CASE estado = "ACTIVA" /\ Termina("tiempo_cumplido")
  <2>1. vivo' = TRUE
    BY <1>1, <1>2 DEF TipoProceso
  <2> QED
    BY <1>2, <1>6, <2>1, TerminaBien
<1> QED
  BY <1>4, <1>5, <1>6 DEF TimerFin

\* The timer of the return is not one of a session that runs.
LEMMA TimerRetornoConserva == IInv /\ TimerRetorno => IInv'
<1> SUFFICES ASSUME IInv, TimerRetorno PROVE IInv'
  OBVIOUS
<1>1. TipoProceso
  BY DEF IInv, Tipos
<1>2. UNCHANGED ajeno /\ UNCHANGED <<vivo, rele, autoOff, comando, fila, reanuda, toca>>
      /\ timer' = SinTimer /\ timer.que = "retorno"
  BY DEF TimerRetorno, Vencido, ajeno
<1> QED
  BY <1>1, <1>2, OmiteBien DEF TipoProceso

\* The return pulse asks for its own toggle_after, of a chair that is no
\* longer in its massage; without an answer the exit is closed.
LEMMA RetornoEnciendeConserva == IInv /\ PulsoBien /\ RetornoEnciende => IInv'
<1> SUFFICES ASSUME IInv, PulsoBien, RetornoEnciende PROVE IInv'
  OBVIOUS
<1>1. TipoSala /\ TipoAparato /\ TipoFila /\ TipoProceso
  BY DEF IInv, Tipos
<1>2. UNCHANGED ajeno /\ UNCHANGED <<vivo, reanuda, toca>> /\ vivo /\ pulso.pc = "pide"
  BY DEF RetornoEnciende, ajeno
<1>3. toca' \subseteq {"latido", "pasada"} /\ reanuda' \in Reanudacion /\ vivo' = TRUE
      /\ estado # "ACTIVA"
  BY <1>1, <1>2 DEF TipoProceso, PulsoBien
<1>4. CASE Enciende(Retorno) /\ UNCHANGED <<fila, timer>>
  <2>1. rele' \in BOOLEAN /\ autoOff' \in Nat /\ comando' \in Nat /\ comando' <= hora
        /\ autoOff' > 0
    BY <1>1, <1>4 DEF Enciende, TipoSala
  <2>2. TipoFila' /\ timer' \in Temporizador /\ estado' # "ACTIVA"
    BY <1>1, <1>3, <1>4 DEF TipoFila, TipoProceso
  <2>3. CaidaSinPendientes' /\ RetornoAnunciado'
    BY <1>2, <1>4 DEF IInv, CaidaSinPendientes, RetornoAnunciado, ajeno
  <2> QED
    BY <1>2, <1>3, <2>1, <2>2, <2>3, CierreConserva
<1>5. CASE ~Responde /\ timer' = SinTimer /\ UNCHANGED <<equipo, comando>>
  <2>1. CASE Cierra("COMPLETADA", motivo, 0)
    <3>1. Apaga
      BY <1>5 DEF Apaga
    <3> QED
      BY <1>1, <1>2, <1>3, <1>5, <2>1, <3>1, CierraBien, SinVale DEF TipoFila
  <2>2. CASE UNCHANGED fila
    BY <1>2, <1>3, <1>5, <2>2, OmiteBien
  <2> QED
    BY <2>1, <2>2 DEF RetornoEnciende
<1> QED
  BY <1>4, <1>5 DEF RetornoEnciende

\* The timer of the end of the pulse takes the place of one that no massage needs.
LEMMA RetornoEscribeConserva == IInv /\ PulsoBien /\ RetornoEscribe => IInv'
<1> SUFFICES ASSUME IInv, PulsoBien, RetornoEscribe PROVE IInv'
  OBVIOUS
<1>1. TipoSala /\ TipoAparato /\ TipoFila /\ TipoProceso
  BY DEF IInv, Tipos
<1>2. UNCHANGED ajeno /\ UNCHANGED <<equipo, comando, estado, fin, interrumpida, compensado,
                                    motivo, vale, vivo, reanuda, toca>>
      /\ vivo /\ pulso.pc = "escribe" /\ timer' = Timer("salida", hora + Retorno)
      /\ salidaHasta' \in {hora + Retorno, salidaHasta}
  BY DEF RetornoEscribe, ajeno
<1>3. toca' \subseteq {"latido", "pasada"} /\ reanuda' \in Reanudacion /\ vivo' \in BOOLEAN
      /\ estado' # "ACTIVA"
  BY <1>1, <1>2 DEF TipoProceso, PulsoBien
<1>4. TipoFila' /\ timer' \in Temporizador /\ timer'.que = "salida"
  BY <1>1, <1>2 DEF TipoFila, TipoSala, Temporizador, Timer
<1>5. CaidaSinPendientes' /\ RetornoAnunciado'
  BY <1>2, <1>4 DEF CaidaSinPendientes, RetornoAnunciado
<1>6. rele' \in BOOLEAN /\ autoOff' \in Nat /\ comando' \in Nat /\ comando' <= hora
      /\ (luz' /\ rele' => autoOff' > 0)
  BY <1>1, <1>2 DEF IInv, TipoAparato, TipoProceso, LecturasPasadas, ApagaSolo, ajeno
<1> QED
  BY <1>2, <1>3, <1>4, <1>5, <1>6, CierreConserva

\* The steps that end with cerrarYLiberar; a timer of the exit that finds it
\* closed changes nothing.
LEMMA CierresConservan == IInv /\ (TimerSalida \/ Parada \/ PasadaCierra) => IInv'
<1> SUFFICES ASSUME IInv, TimerSalida \/ Parada \/ PasadaCierra PROVE IInv'
  OBVIOUS
<1>0. CASE TimerSalida /\ estado # "SALIDA"
  <2>1. UNCHANGED ajeno /\ UNCHANGED <<vivo, rele, autoOff, comando, fila, reanuda, toca>>
        /\ timer' = SinTimer /\ timer.que = "salida"
    BY <1>0 DEF TimerSalida, Vencido, ajeno
  <2> QED
    BY <2>1, OmiteBien DEF IInv, Tipos, TipoProceso
<1> SUFFICES ASSUME TimerSalida => estado = "SALIDA" PROVE IInv'
  BY <1>0
<1>1. TipoSala /\ TipoFila /\ TipoProceso
  BY DEF IInv, Tipos
<1>2. UNCHANGED ajeno /\ UNCHANGED <<vivo, reanuda>> /\ vivo /\ toca' \subseteq toca
  BY DEF TimerSalida, Parada, PasadaCierra, EmpiezaPasada, Vencido, ajeno
<1>3. toca' \subseteq {"latido", "pasada"} /\ vivo' = TRUE
  BY <1>1, <1>2 DEF TipoProceso
<1>4. Apaga /\ timer' = SinTimer
  BY DEF TimerSalida, Parada, PasadaCierra, CierraPorCorte
<1>5. MinutosDelVale(fin - interrumpida, Duracion, Minuto) \in 0..Duracion \div Minuto
  BY <1>1, MinutosAcotados DEF TipoFila
<1>6. PICK como \in {"COMPLETADA", "CANCELADA"},
           por \in {motivo, "corte_sobre_el_final", "corte_de_energia", "parada_de_emergencia"},
           minutos \in 0..Duracion \div Minuto : Cierra(como, por, minutos)
  BY <1>5, SinVale DEF TimerSalida, Parada, PasadaCierra, CierraPorCorte
<1>7. por \in {"ninguno", "tiempo_cumplido", "completada_tras_reinicio", "corte_sobre_el_final",
               "corte_de_energia", "parada_de_emergencia"}
  BY <1>1 DEF TipoFila
<1> QED
  BY <1>2, <1>3, <1>4, <1>6, <1>7, CierraBien

\* The pass: a cut dated by the readings is a cut of a session that runs.
LEMMA PasadaConserva ==
    IInv /\ (PasadaReanuda \/ PasadaRegistra \/ PasadaReleAbierto \/ PasadaOmite) => IInv'
<1> SUFFICES ASSUME IInv, PasadaReanuda \/ PasadaRegistra \/ PasadaReleAbierto \/ PasadaOmite
             PROVE  IInv'
  OBVIOUS
<1>1. TipoSala /\ TipoFila /\ TipoProceso
  BY DEF IInv, Tipos
<1>2. EmpiezaPasada /\ UNCHANGED <<equipo, comando, timer>>
  BY DEF PasadaReanuda, PasadaRegistra, PasadaReleAbierto, PasadaOmite
<1>3. UNCHANGED ajeno /\ UNCHANGED <<vivo, rele, autoOff, comando, timer>> /\ vivo
      /\ reanuda.pc = "libre" /\ toca' \subseteq toca
  BY <1>2 DEF EmpiezaPasada, ajeno
<1>4. toca' \subseteq {"latido", "pasada"} /\ timer' \in Temporizador
  BY <1>1, <1>3 DEF TipoProceso
<1>5. [reanuda EXCEPT !.pc = "leer"] \in Reanudacion /\ [reanuda EXCEPT !.pc = "leer"].pc = "leer"
  BY <1>1 DEF TipoProceso, Reanudacion
<1>6. CASE PasadaReanuda \/ PasadaOmite
  <2>1. UNCHANGED fila /\ reanuda' \in {reanuda, [reanuda EXCEPT !.pc = "leer"]}
    BY <1>6 DEF PasadaReanuda, PasadaOmite
  <2>2. reanuda' \in Reanudacion /\ (reanuda' = reanuda \/ reanuda'.pc = "leer")
    BY <1>1, <1>5, <2>1 DEF TipoProceso
  <2> QED
    BY <1>3, <1>4, <2>1, <2>2, OmiteBien
<1>7. estado = "ACTIVA" /\ interrumpida = 0 => hora <= fin
  BY <1>3 DEF IInv, FinProgramado
<1>8. CASE PasadaRegistra
  <2> DEFINE cuando == inicioDelCorte(Inicio, salud.ultimoOnline, salud.chequeo)
  <2>1. registrarCorte(cuando) /\ estado = "ACTIVA" /\ interrumpida = 0 /\ reanuda' = reanuda
    BY <1>8 DEF PasadaRegistra, SinConexion
  <2>2. cuando \in Nat \ {0} /\ cuando <= hora
    BY <1>1 DEF IInv, LecturasPasadas, inicioDelCorte, Mayor, TipoSala, TipoProceso, Salud
  <2>3. cuando <= fin
    BY <1>1, <1>7, <2>1, <2>2 DEF TipoSala, TipoFila
  <2>4. reanuda' \in Reanudacion
    BY <1>1, <2>1 DEF TipoProceso
  <2> HIDE DEF cuando
  <2> QED
    BY <1>3, <1>4, <2>1, <2>2, <2>3, <2>4, RegistraBien
<1>9. CASE PasadaReleAbierto
  <2>1. registrarCorte(salud.chequeo) /\ estado = "ACTIVA" /\ interrumpida = 0
        /\ reanuda' = [reanuda EXCEPT !.pc = "leer"] /\ arranqueYaAsentado
    BY <1>9 DEF PasadaReleAbierto, ReleAbierto
  <2>2. salud.chequeo \in Nat \ {0} /\ salud.chequeo <= hora
    BY <1>1, <2>1 DEF IInv, LecturasPasadas, arranqueYaAsentado, TipoProceso, Salud
  <2>3. salud.chequeo <= fin
    BY <1>1, <1>7, <2>1, <2>2 DEF TipoSala, TipoFila
  <2> QED
    BY <1>3, <1>4, <1>5, <2>1, <2>2, <2>3, RegistraBien
<1> QED
  BY <1>6, <1>8, <1>9

\* The end that a resume computes is ahead, because the cut was before the end.
LEMMA FinDelante ==
    ASSUME IInv, estado = "ACTIVA", interrumpida > 0
    PROVE  /\ Devolver(hora, interrumpida, Reinicio) \in Nat
           /\ fin + Devolver(hora, interrumpida, Reinicio) > hora
<1>1. TipoSala /\ TipoFila
  BY DEF IInv, Tipos
<1>2. interrumpida <= fin /\ interrumpida <= hora
  BY DEF IInv, CorteAntesDelFin
<1>3. hora \in Nat /\ fin \in Nat /\ interrumpida \in Nat
  BY <1>1 DEF TipoSala, TipoFila
<1>4. Devolver(hora, interrumpida, Reinicio) = (hora - interrumpida) + Reinicio
  BY <1>2, <1>3 DEF Devolver, Mayor
<1> QED
  BY <1>2, <1>3, <1>4

\* The ON asks for the end that the claim will write, and Margen.
LEMMA ReanudaEnciendeConserva == IInv /\ ReanudaEnciende => IInv'
<1> SUFFICES ASSUME IInv, ReanudaEnciende PROVE IInv'
  OBVIOUS
<1>1. TipoSala /\ TipoAparato /\ TipoNube /\ TipoFila /\ TipoProceso /\ TipoCuentas
  BY DEF IInv, Tipos
<1>2. UNCHANGED ajeno /\ UNCHANGED <<fila, timer, toca, vivo>> /\ vivo
      /\ reanuda.pc = "leer"
  BY DEF ReanudaEnciende, ajeno
<1>3. CASE ~(estado = "ACTIVA" /\ interrumpida > 0 /\ Responde)
  <2>1. reanuda' = NoReanuda /\ UNCHANGED <<equipo, comando>>
    BY <1>3 DEF ReanudaEnciende
  <2>2. reanuda' \in Reanudacion /\ reanuda'.pc = "libre"
    BY <2>1 DEF NoReanuda, Reanudacion
  <2>3. toca' \subseteq {"latido", "pasada"}
    BY <1>1, <1>2 DEF TipoProceso
  <2> QED
    BY <1>2, <2>1, <2>2, <2>3, OmiteBien
<1>4. CASE estado = "ACTIVA" /\ interrumpida > 0 /\ Responde
  <2> DEFINE devuelve == Devolver(hora, interrumpida, Reinicio)
             nuevoFin == fin + devuelve
  <2>1. devuelve \in Nat /\ nuevoFin \in Nat /\ nuevoFin > hora
    BY <1>1, <1>4, FinDelante DEF TipoFila
  <2>2. /\ Enciende(nuevoFin - hora + Margen)
        /\ reanuda' = [pc |-> "reclamar", fin |-> nuevoFin, devuelve |-> devuelve]
    <3>1. nuevoFin > hora
      BY <2>1
    <3> QED
      BY <1>4, <3>1 DEF ReanudaEnciende
  <2> HIDE DEF devuelve, nuevoFin
  <2>3. rele' = TRUE /\ autoOff' = nuevoFin + Margen /\ comando' = hora
    BY <1>1, <2>1, <2>2 DEF Enciende, TipoSala
  <2>4. Tipos'
    <3>1. reanuda' \in Reanudacion
      BY <2>1, <2>2 DEF Reanudacion
    <3>2. TipoAparato'
      BY <2>1, <2>3 DEF TipoAparato
    <3>3. TipoProceso'
      BY <1>1, <1>2, <2>3, <3>1 DEF TipoProceso, TipoSala, ajeno
    <3>4. TipoSala' /\ TipoNube' /\ TipoFila' /\ TipoCuentas'
      BY <1>1, <1>2 DEF TipoSala, TipoNube, TipoFila, TipoCuentas, ajeno
    <3> QED
      BY <3>1, <3>2, <3>3, <3>4 DEF Tipos
  <2>5. LecturasPasadas' /\ CaidaSinPendientes' /\ FinProgramado' /\ CorteAntesDelFin'
        /\ RetornoAnunciado'
    BY <1>1, <1>2, <1>4, <2>3
       DEF IInv, LecturasPasadas, CaidaSinPendientes, FinProgramado, CorteAntesDelFin,
           RetornoAnunciado, ajeno, TipoFila, TipoSala
  <2>6. ReanudaCoherente'
    BY <1>1, <1>2, <2>1, <2>2, <2>3 DEF ReanudaCoherente, ajeno, TipoSala
  <2>7. ApagaSolo'
    BY <1>1, <1>2, <1>4, <2>1, <2>3 DEF ApagaSolo, TipoSala, TipoFila
  <2> QED
    BY <2>4, <2>5, <2>6, <2>7 DEF IInv
<1> QED
  BY <1>3, <1>4

\* The claim makes the end that was computed the end of the session.
LEMMA ReanudaReclamaConserva == IInv /\ ReanudaReclama => IInv'
<1> SUFFICES ASSUME IInv, ReanudaReclama PROVE IInv'
  OBVIOUS
<1>1. TipoSala /\ TipoAparato /\ TipoNube /\ TipoFila /\ TipoProceso /\ TipoCuentas
  BY DEF IInv, Tipos
<1>2. UNCHANGED ajeno /\ vivo /\ reanuda.pc = "reclamar"
      /\ UNCHANGED <<equipo, comando, estado, salidaHasta, motivo, vale, timer, toca, vivo>>
  BY DEF ReanudaReclama, ajeno
<1>3. CASE ~(estado = "ACTIVA" /\ interrumpida > 0)
  <2>1. reanuda' = NoReanuda /\ UNCHANGED fila
    BY <1>2, <1>3 DEF ReanudaReclama
  <2>2. reanuda' \in Reanudacion /\ reanuda'.pc = "libre"
    BY <2>1 DEF NoReanuda, Reanudacion
  <2>3. toca' \subseteq {"latido", "pasada"}
    BY <1>1, <1>2 DEF TipoProceso
  <2> QED
    BY <1>2, <2>1, <2>2, <2>3, OmiteBien
<1>4. CASE estado = "ACTIVA" /\ interrumpida > 0
  <2>1. /\ interrumpida' = 0 /\ fin' = reanuda.fin /\ compensado' = compensado + reanuda.devuelve
        /\ reanuda' = [reanuda EXCEPT !.pc = "programar"]
    BY <1>4 DEF ReanudaReclama
  <2>2. reanuda' \in Reanudacion /\ reanuda'.pc = "programar" /\ reanuda'.fin = reanuda.fin
        /\ reanuda.fin \in Nat /\ reanuda.devuelve \in Nat
    BY <1>1, <2>1 DEF TipoProceso, Reanudacion
  <2>3. Tipos'
    <3>1. TipoFila'
      BY <1>1, <1>2, <2>1, <2>2 DEF TipoFila
    <3>2. TipoProceso' /\ TipoAparato'
      BY <1>1, <1>2, <2>2 DEF TipoProceso, TipoAparato, ajeno
    <3>3. TipoSala' /\ TipoNube' /\ TipoCuentas'
      BY <1>1, <1>2 DEF TipoSala, TipoNube, TipoCuentas, ajeno
    <3> QED
      BY <3>1, <3>2, <3>3 DEF Tipos
  <2>4. LecturasPasadas' /\ CaidaSinPendientes'
    BY <1>2 DEF IInv, LecturasPasadas, CaidaSinPendientes, ajeno
  <2>5. FinProgramado' /\ CorteAntesDelFin' /\ RetornoAnunciado'
    BY <1>2, <1>4, <2>1, <2>2
       DEF IInv, FinProgramado, CorteAntesDelFin, ReanudaCoherente, RetornoAnunciado, ajeno
  <2>6. ReanudaCoherente' /\ ApagaSolo'
    BY <1>2, <1>4, <2>1, <2>2 DEF IInv, ReanudaCoherente, ApagaSolo, ajeno
  <2> QED
    BY <2>3, <2>4, <2>5, <2>6 DEF IInv
<1> QED
  BY <1>3, <1>4

\* The timer is set for the end of the session.
LEMMA ReanudaProgramaConserva == IInv /\ ReanudaPrograma => IInv'
<1> SUFFICES ASSUME IInv, ReanudaPrograma PROVE IInv'
  OBVIOUS
<1>1. TipoSala /\ TipoAparato /\ TipoNube /\ TipoFila /\ TipoProceso /\ TipoCuentas
  BY DEF IInv, Tipos
<1>2. UNCHANGED ajeno /\ UNCHANGED <<equipo, comando, fila, toca, vivo>> /\ vivo
      /\ reanuda.pc = "programar"
      /\ timer' = Timer("fin", reanuda.fin) /\ reanuda' = NoReanuda
  BY DEF ReanudaPrograma, ajeno
<1>3. timer' \in Temporizador /\ timer'.que = "fin" /\ reanuda' \in Reanudacion
      /\ reanuda'.pc = "libre"
  BY <1>1, <1>2 DEF TipoProceso, Reanudacion, Temporizador, Timer, NoReanuda
<1>4. Tipos'
  <2>1. TipoSala' /\ TipoAparato' /\ TipoNube' /\ TipoFila' /\ TipoCuentas'
    BY <1>1, <1>2 DEF TipoSala, TipoAparato, TipoNube, TipoFila, TipoCuentas, ajeno
  <2>2. TipoProceso'
    BY <1>1, <1>2, <1>3 DEF TipoProceso, ajeno
  <2> QED
    BY <2>1, <2>2 DEF Tipos
<1>5. LecturasPasadas' /\ CaidaSinPendientes' /\ FinProgramado'
  BY <1>2, <1>3
     DEF IInv, LecturasPasadas, CaidaSinPendientes, FinProgramado, ReanudaCoherente, ajeno
<1>6. CorteAntesDelFin' /\ RetornoAnunciado' /\ ReanudaCoherente' /\ ApagaSolo'
  BY <1>2, <1>3
     DEF IInv, CorteAntesDelFin, RetornoAnunciado, ReanudaCoherente, ApagaSolo, ajeno
<1> QED
  BY <1>4, <1>5, <1>6 DEF IInv

\* A crash forgets the readings, the timer and the resume; the row stays.
LEMMA CaeConserva == IInv /\ Cae => IInv'
<1> SUFFICES ASSUME IInv, Cae PROVE IInv'
  OBVIOUS
<1>1. TipoSala /\ TipoAparato /\ TipoNube /\ TipoFila /\ TipoProceso /\ TipoCuentas
  BY DEF IInv, Tipos
<1>2. /\ vivo' = FALSE /\ caidas' = caidas + 1 /\ PuedeFallar
      /\ salud' = SinSalud /\ comando' = 0 /\ timer' = SinTimer /\ reanuda' = NoReanuda
      /\ toca' = {} /\ UNCHANGED <<hora, local, equipo, cloud, fila, masaje>>
  BY DEF Cae
<1>3. salud' \in Salud /\ timer' \in Temporizador /\ reanuda' \in Reanudacion
      /\ timer'.que = "ninguno" /\ reanuda'.pc = "libre"
  BY <1>2 DEF SinSalud, Salud, SinTimer, Temporizador, NoReanuda, Reanudacion
<1>4. Tipos'
  <2>1. TipoSala' /\ TipoAparato' /\ TipoNube' /\ TipoFila'
    BY <1>1, <1>2 DEF TipoSala, TipoAparato, TipoNube, TipoFila
  <2>2. TipoCuentas'
    BY <1>1, <1>2 DEF TipoCuentas, PuedeFallar
  <2>3. vivo' \in BOOLEAN /\ comando' \in Nat /\ toca' \subseteq {"latido", "pasada"}
    BY <1>2
  <2>4. TipoProceso'
    BY <1>3, <2>3 DEF TipoProceso
  <2> QED
    BY <2>1, <2>2, <2>4 DEF Tipos
<1>5. LecturasPasadas'
  BY <1>1, <1>2 DEF IInv, LecturasPasadas, SinSalud, TipoSala
<1>6. ~vivo'
  BY Zenon, <1>2
<1>7. CaidaSinPendientes' /\ FinProgramado' /\ CorteAntesDelFin'
  BY <1>2, <1>3, <1>6 DEF IInv, CaidaSinPendientes, FinProgramado, CorteAntesDelFin
<1>8. RetornoAnunciado' /\ ReanudaCoherente' /\ ApagaSolo'
  BY <1>2, <1>3 DEF IInv, RetornoAnunciado, ReanudaCoherente, ApagaSolo
<1> QED
  BY <1>4, <1>5, <1>7, <1>8 DEF IInv

\* onApplicationBootstrap closes what is due and sets the timer of the rest.
LEMMA ArrancaConserva == IInv /\ Arranca => IInv'
<1> SUFFICES ASSUME IInv, Arranca PROVE IInv'
  OBVIOUS
<1>1. TipoSala /\ TipoAparato /\ TipoNube /\ TipoFila /\ TipoProceso /\ TipoCuentas
  BY DEF IInv, Tipos
<1>2. UNCHANGED ajeno /\ UNCHANGED <<reanuda, toca>> /\ ~vivo /\ vivo' = TRUE
  BY DEF Arranca, ajeno
<1>3. timer.que = "ninguno" /\ reanuda.pc = "libre"
  BY <1>2 DEF IInv, CaidaSinPendientes
<1>4. toca' \subseteq {"latido", "pasada"} /\ reanuda' \in Reanudacion
  BY <1>1, <1>2 DEF TipoProceso
<1>5. CASE Termina("completada_tras_reinicio")
  BY <1>2, <1>5, TerminaBien
<1>6. CASE Apaga /\ Cierra("COMPLETADA", motivo, 0) /\ timer' = SinTimer
  BY <1>1, <1>2, <1>4, <1>6, CierraBien, SinVale DEF TipoFila
<1>7. CASE UNCHANGED <<equipo, comando, fila>>
            /\ \/ /\ estado = "ACTIVA" /\ interrumpida = 0 /\ fin > hora
                  /\ timer' = Timer("fin", fin)
               \/ /\ estado = "SALIDA" /\ salidaHasta > hora
                  /\ timer' = IF salidaHasta - Retorno > hora
                              THEN Timer("retorno", salidaHasta - Retorno)
                              ELSE Timer("salida", salidaHasta)
               \/ /\ estado \in {"COMPLETADA", "CANCELADA"} \/ interrumpida > 0
                  /\ timer' = timer
  <2>1. timer' \in Temporizador
    BY <1>1, <1>7 DEF TipoSala, TipoFila, TipoProceso, Temporizador, Timer
  <2>2. Tipos'
    <3>1. TipoSala' /\ TipoAparato' /\ TipoNube' /\ TipoFila' /\ TipoCuentas'
      BY <1>1, <1>2, <1>7 DEF TipoSala, TipoAparato, TipoNube, TipoFila, TipoCuentas, ajeno
    <3>2. vivo' \in BOOLEAN
      BY <1>2
    <3>3. TipoProceso'
      BY <1>1, <1>2, <1>4, <1>7, <2>1, <3>2 DEF TipoProceso, ajeno
    <3> QED
      BY <3>1, <3>3 DEF Tipos
  <2>3. FinProgramado' /\ RetornoAnunciado'
    BY <1>1, <1>2, <1>3, <1>7
       DEF FinProgramado, RetornoAnunciado, Timer, TipoSala, TipoFila, ajeno
  <2>4. LecturasPasadas' /\ CaidaSinPendientes'
    BY <1>2, <1>3, <1>7 DEF IInv, LecturasPasadas, CaidaSinPendientes, ajeno
  <2>5. CorteAntesDelFin' /\ ReanudaCoherente' /\ ApagaSolo'
    BY <1>2, <1>3, <1>7 DEF IInv, CorteAntesDelFin, ReanudaCoherente, ApagaSolo, ajeno
  <2> QED
    BY <2>2, <2>3, <2>4, <2>5 DEF IInv
<1> QED
  BY <1>5, <1>6, <1>7 DEF Arranca

\* The inductive invariant.
LEMMA QuietoConserva == IInv /\ UNCHANGED vars => IInv'
<1> SUFFICES ASSUME IInv, UNCHANGED vars PROVE IInv'
  OBVIOUS
<1>1. TipoSala /\ TipoAparato /\ TipoNube /\ TipoFila /\ TipoProceso /\ TipoCuentas
  BY DEF IInv, Tipos
<1>2. UNCHANGED ajeno /\ UNCHANGED <<vivo, rele, autoOff, comando, fila, timer, reanuda, toca>>
  BY DEF vars, ajeno
<1> QED
  BY <1>1, <1>2, OmiteBien DEF TipoProceso

LEMMA InvariantePaso == IInv /\ PulsoBien /\ [Next]_vars => IInv'
BY LatidoConserva, PasadaConserva, CierresConservan, ReanudaEnciendeConserva,
   ReanudaReclamaConserva, ReanudaProgramaConserva, TimerFinConserva, TimerRetornoConserva,
   RetornoEnciendeConserva, RetornoEscribeConserva, CaeConserva, ArrancaConserva,
   EntornoConserva, TicConserva, QuietoConserva
   DEF Next, Pasa, Reanuda, Timers, Pulso

\* What leaves the pulse and the clock alone keeps it: no step takes a session
\* back to its massage, and only the end of the massage announces an exit.
LEMMA PulsoSigue ==
    ASSUME IInv, PulsoBien, UNCHANGED <<pulso, hora>>, vivo => vivo',
           estado' = "ACTIVA" => estado = "ACTIVA",
           estado' = "SALIDA" => estado = "ACTIVA" \/ UNCHANGED <<estado, salidaHasta>>
    PROVE  PulsoBien'
BY DEF PulsoBien, Pulsacion

LEMMA PulsoPaso == IInv /\ PulsoBien /\ [Next]_vars => PulsoBien'
<1> SUFFICES ASSUME IInv, PulsoBien, [Next]_vars PROVE PulsoBien'
  OBVIOUS
<1>1. TipoSala /\ TipoFila /\ TipoProceso /\ pulso \in Pulsacion
  BY DEF IInv, Tipos, PulsoBien
<1>2. CASE UNCHANGED vars \/ Latido \/ Entorno \/ ReanudaEnciende \/ ReanudaReclama
           \/ ReanudaPrograma
  <2>1. UNCHANGED <<pulso, hora, vivo, estado, salidaHasta>>
    BY <1>2 DEF vars, Latido, Entorno, Apagon, Repone, NubeVe, NubeFalla, AutoOff,
                ReanudaEnciende, ReanudaReclama, ReanudaPrograma
  <2> QED
    BY <2>1, PulsoSigue
<1>3. CASE Pasa \/ Parada \/ TimerSalida \/ TimerFin \/ Arranca
  <2>1. UNCHANGED <<pulso, hora>>
    BY <1>3 DEF Pasa, PasadaCierra, PasadaReanuda, PasadaRegistra, PasadaReleAbierto, PasadaOmite,
                EmpiezaPasada, Parada, TimerSalida, TimerFin, Arranca
  <2>2. vivo => vivo'
    BY <1>3 DEF Pasa, PasadaCierra, PasadaReanuda, PasadaRegistra, PasadaReleAbierto, PasadaOmite,
                EmpiezaPasada, Parada, TimerSalida, TimerFin, Arranca
  <2>3. \/ UNCHANGED <<estado, salidaHasta>>
        \/ estado' \in {"COMPLETADA", "CANCELADA"}
        \/ estado = "ACTIVA" /\ estado' = "SALIDA"
    <3>1. CASE Pasa
      BY <3>1 DEF Pasa, PasadaCierra, PasadaReanuda, PasadaRegistra, PasadaReleAbierto,
                  PasadaOmite, CierraPorCorte, Cierra, registrarCorte
    <3>2. CASE Parada \/ TimerSalida
      BY <3>2 DEF Parada, TimerSalida, Cierra
    <3>3. CASE TimerFin
      BY <3>3 DEF TimerFin, Termina, Cierra, registrarCorte
    <3>4. CASE Arranca
      BY <3>4 DEF Arranca, Termina, Cierra
    <3> QED
      BY <1>3, <3>1, <3>2, <3>3, <3>4
  <2> QED
    BY <2>1, <2>2, <2>3, PulsoSigue
<1>4. CASE TimerRetorno
  <2>1. UNCHANGED <<hora, estado, salidaHasta, vivo>> /\ vivo /\ timer.que = "retorno"
        /\ pulso' = IF estado = "SALIDA" THEN [pulso EXCEPT !.pc = "pide"] ELSE pulso
    BY <1>4 DEF TimerRetorno, Vencido
  <2>2. CASE estado = "SALIDA"
    <3>1. salidaHasta = timer.cuando + Retorno /\ hora <= timer.cuando
      BY <2>1, <2>2 DEF IInv, RetornoAnunciado
    <3>2. pulso' \in Pulsacion /\ pulso'.pc = "pide" /\ pulso'.espera \in Nat
      BY <1>1, <2>1, <2>2 DEF Pulsacion
    <3>3. hora + Retorno <= salidaHasta + pulso'.espera
      BY <1>1, <3>1, <3>2 DEF TipoSala, TipoProceso, Temporizador
    <3> QED
      BY <2>1, <2>2, <3>2, <3>3 DEF PulsoBien
  <2>3. CASE estado # "SALIDA"
    BY <2>1, <2>3, PulsoSigue
  <2> QED
    BY <2>2, <2>3
<1>5. CASE RetornoEnciende
  <2>1. UNCHANGED <<hora, vivo>> /\ vivo /\ pulso.pc = "pide"
    BY <1>5 DEF RetornoEnciende
  <2>2. CASE pulso' = [pulso EXCEPT !.pc = "escribe"] /\ UNCHANGED fila
    BY <1>1, <2>1, <2>2 DEF PulsoBien, Pulsacion
  <2>3. CASE pulso' = NoPulso
    BY <2>3 DEF PulsoBien, Pulsacion, NoPulso
  <2> QED
    BY <1>5, <2>2, <2>3 DEF RetornoEnciende
<1>6. CASE RetornoEscribe \/ Cae
  <2>1. pulso' = NoPulso
    BY <1>6 DEF RetornoEscribe, Cae
  <2> QED
    BY <2>1 DEF PulsoBien, Pulsacion, NoPulso
<1>7. CASE Tic
  <2>1. UNCHANGED <<vivo, estado, salidaHasta>> /\ hora' = hora + 1
        /\ pulso' = IF pulso.pc = "pide" THEN [pulso EXCEPT !.espera = @ + 1] ELSE pulso
    BY <1>7 DEF Tic
  <2>2. pulso.pc = "libre" \/ (pulso.pc = "pide" /\ pulso.espera < Latencia)
    BY <1>7 DEF Tic, NadaPendiente, PulsoBien
  <2>3. CASE pulso.pc = "libre"
    BY <2>1, <2>3 DEF PulsoBien, Pulsacion
  <2>4. CASE pulso.pc = "pide" /\ pulso.espera < Latencia
    <3>1. pulso' \in Pulsacion /\ pulso'.pc = "pide" /\ pulso'.espera = pulso.espera + 1
          /\ pulso.espera \in Nat
      BY <1>1, <2>1, <2>4 DEF Pulsacion
    <3> QED
      BY <1>1, <2>1, <2>4, <3>1 DEF PulsoBien, TipoSala, TipoFila
  <2> QED
    BY <2>2, <2>3, <2>4
<1> QED
  BY <1>2, <1>3, <1>4, <1>5, <1>6, <1>7 DEF Next, Reanuda, Timers, Pulso

LEMMA Invariante == Spec => [](IInv /\ PulsoBien)
<1>1. Init => PulsoBien
  BY DEF Init, PulsoBien, Pulsacion, NoPulso
<1>2. IInv /\ PulsoBien /\ [Next]_vars => (IInv /\ PulsoBien)'
  BY InvariantePaso, PulsoPaso
<1> QED
  BY InitBien, <1>1, <1>2, PTL DEF Spec

-----------------------------------------------------------------------------
(* The theorems.                                                           *)

\* Whatever the times, the orders and the faults, every variable has its type;
\* in particular cerrarPorCorte issues no voucher for more than the turn.
THEOREM TipoCorrecto == Spec => []TypeOK
<1>1. IInv /\ PulsoBien => TypeOK
  BY Partes DEF IInv, PulsoBien
<1> QED
  BY <1>1, Invariante, PTL

\* toggle_after, which every ON carries: a relay that the backend forgets opens
\* by itself, no later than Margen after the end of the session.
THEOREM SeApagaSolo == Spec => []ApagaSolo
<1>1. IInv => ApagaSolo
  BY DEF IInv
<1> QED
  BY <1>1, Invariante, PTL

\* What those who wait are told, while the massage and while the exit last.
LEMMA EsperaEnMasaje ==
    estado = "ACTIVA" /\ interrumpida = 0 =>
        segundosHastaProximaSilla =
            Mayor(0, fin - hora) + (IF Retorno > 0 THEN Pausa + Retorno ELSE 0)
BY DEF segundosHastaProximaSilla, reloj, calcularReloj

LEMMA EsperaEnSalida ==
    estado = "SALIDA" /\ interrumpida = 0 =>
        segundosHastaProximaSilla = Mayor(0, salidaHasta - hora)
BY DEF segundosHastaProximaSilla, reloj, calcularReloj

LEMMA EsperaEnMasajePrima ==
    estado' = "ACTIVA" /\ interrumpida' = 0 =>
        segundosHastaProximaSilla' =
            Mayor(0, fin' - hora') + (IF Retorno > 0 THEN Pausa + Retorno ELSE 0)
BY DEF segundosHastaProximaSilla, reloj, calcularReloj

LEMMA EsperaEnSalidaPrima ==
    estado' = "SALIDA" /\ interrumpida' = 0 =>
        segundosHastaProximaSilla' = Mayor(0, salidaHasta' - hora')
BY DEF segundosHastaProximaSilla, reloj, calcularReloj

LEMMA ConDatoCorre ==
    segundosHastaProximaSilla # SinDato => estado \in {"ACTIVA", "SALIDA"} /\ interrumpida = 0
BY DEF segundosHastaProximaSilla

LEMMA ConDatoCorrePrima ==
    segundosHastaProximaSilla' # SinDato' =>
        estado' \in {"ACTIVA", "SALIDA"} /\ interrumpida' = 0
BY DEF segundosHastaProximaSilla

\* What a step may do to a session that runs on both sides of it: nothing, but
\* for the time that passes; end the massage, and announce the exit; date the
\* return pulse, late by no more than its ON took.
LEMMA PasoDeLaEspera ==
    ASSUME IInv, PulsoBien, Next, vivo, fin' = fin,
           estado \in {"ACTIVA", "SALIDA"}, interrumpida = 0,
           estado' \in {"ACTIVA", "SALIDA"}, interrumpida' = 0
    PROVE  \/ estado' = estado /\ salidaHasta' = salidaHasta /\ hora' \in {hora, hora + 1}
           \/ /\ estado = "ACTIVA" /\ estado' = "SALIDA" /\ Retorno # 0
              /\ salidaHasta' = hora + Pausa + Retorno /\ hora' = hora
           \/ /\ estado = "SALIDA" /\ estado' = "SALIDA" /\ hora' = hora
              /\ pulso.pc = "escribe" /\ pulso'.pc = "libre"
              /\ salidaHasta' = hora + Retorno /\ salidaHasta' <= salidaHasta + pulso.espera
<1>1. TipoSala /\ TipoFila /\ TipoProceso
  BY DEF IInv, Tipos
<1>2. CASE Latido \/ Entorno \/ Cae \/ Tic \/ ReanudaEnciende \/ ReanudaPrograma
           \/ TimerRetorno
  <2>1. UNCHANGED fila /\ hora' \in {hora, hora + 1}
    BY <1>2 DEF Latido, Entorno, Apagon, Repone, NubeVe, NubeFalla, AutoOff, Cae, Tic,
                ReanudaEnciende, ReanudaPrograma, TimerRetorno
  <2> QED
    BY <2>1
<1>3. CASE ReanudaReclama
  BY <1>3 DEF ReanudaReclama
<1>4. CASE PasadaReanuda \/ PasadaRegistra \/ PasadaReleAbierto \/ PasadaOmite
  <2>1. UNCHANGED hora /\ UNCHANGED <<estado, salidaHasta>>
    BY <1>4 DEF PasadaReanuda, PasadaRegistra, PasadaReleAbierto, PasadaOmite, EmpiezaPasada,
                registrarCorte
  <2> QED
    BY <2>1
<1>5. ~Parada /\ ~PasadaCierra /\ (TimerSalida => UNCHANGED <<hora, fila>>)
  BY DEF TimerSalida, Parada, PasadaCierra, CierraPorCorte, Cierra
<1>6. CASE TimerFin
  <2>1. CASE UNCHANGED fila \/ registrarCorte(VistoAlCierre)
    BY <1>6, <2>1 DEF TimerFin, registrarCorte
  <2>2. CASE estado = "ACTIVA" /\ Termina("tiempo_cumplido")
    BY <1>6, <2>2 DEF TimerFin, Termina, Cierra
  <2> QED
    BY <1>6, <2>1, <2>2 DEF TimerFin
<1>7. CASE RetornoEnciende
  BY <1>7 DEF RetornoEnciende, Cierra
<1>8. CASE RetornoEscribe
  <2>1. pulso.pc = "escribe" /\ pulso'.pc = "libre" /\ UNCHANGED <<hora, estado>>
        /\ salidaHasta' = IF estado = "SALIDA" THEN hora + Retorno ELSE salidaHasta
    BY <1>8 DEF RetornoEscribe, NoPulso
  <2>2. estado = "SALIDA" => hora + Retorno <= salidaHasta + pulso.espera
    BY <2>1 DEF PulsoBien
  <2> QED
    BY <2>1, <2>2
<1>9. ~Arranca
  BY DEF Arranca
<1> QED
  BY <1>2, <1>3, <1>4, <1>5, <1>6, <1>7, <1>8, <1>9 DEF Next, Pasa, Reanuda, Timers, Pulso

\* Less is left of an end that is nearer, later.
LEMMA FaltaMenos ==
    ASSUME NEW a \in Nat, NEW b \in Nat, a <= b, NEW h \in Nat, NEW k \in Nat, h <= k
    PROVE  /\ Mayor(0, a - k) \in Nat /\ Mayor(0, b - h) \in Nat
           /\ Mayor(0, a - k) <= Mayor(0, b - h)
BY DEF Mayor

\* segundosHastaProximaSilla, which those who wait for a chair are shown, goes
\* up only when a cut is compensated or when iniciarRetorno dates the pulse
\* after its ON: then by no more than the ON took, and to no more than the
\* pulse.  finalizarSesion gives the chair no more time than calcularReloj had
\* counted.
THEOREM EsperaNoSube == Spec => LiberarNoSube
<1> DEFINE Data == /\ pulso.pc = "escribe" /\ pulso'.pc = "libre"
                   /\ segundosHastaProximaSilla'
                          <= Menor(Retorno, segundosHastaProximaSilla + pulso.espera)
           Baja == segundosHastaProximaSilla' <= segundosHastaProximaSilla
           Paso == LoVeQuienEspera /\ fin' = fin => \/ Baja
                                                    \/ Data
<1>1. IInv /\ PulsoBien /\ (IInv /\ PulsoBien)' /\ [Next]_vars => [Paso]_vars
  <2> SUFFICES ASSUME IInv, PulsoBien, IInv', Next, fin' = fin, LoVeQuienEspera
               PROVE  Baja \/ Data
    OBVIOUS
  <2>0. vivo /\ SinDato \notin {segundosHastaProximaSilla, segundosHastaProximaSilla'}
    BY DEF LoVeQuienEspera
  <2>1. estado \in {"ACTIVA", "SALIDA"} /\ interrumpida = 0
    BY <2>0, ConDatoCorre
  <2>2. estado' \in {"ACTIVA", "SALIDA"} /\ interrumpida' = 0
    BY <2>0, ConDatoCorrePrima DEF SinDato
  <2>3. TipoSala /\ TipoFila /\ TipoSala' /\ TipoFila'
    BY DEF IInv, Tipos
  <2>4. \/ estado' = estado /\ salidaHasta' = salidaHasta /\ hora' \in {hora, hora + 1}
        \/ /\ estado = "ACTIVA" /\ estado' = "SALIDA" /\ Retorno # 0
           /\ salidaHasta' = hora + Pausa + Retorno /\ hora' = hora
        \/ /\ estado = "SALIDA" /\ estado' = "SALIDA" /\ hora' = hora
           /\ pulso.pc = "escribe" /\ pulso'.pc = "libre"
           /\ salidaHasta' = hora + Retorno /\ salidaHasta' <= salidaHasta + pulso.espera
    BY <2>0, <2>1, <2>2, PasoDeLaEspera
  <2>5. /\ fin \in Nat /\ fin' \in Nat /\ fin' <= fin /\ salidaHasta \in Nat
        /\ salidaHasta' \in Nat /\ hora \in Nat /\ hora' \in Nat
    BY <2>3 DEF TipoSala, TipoFila
  <2>6. CASE estado' = "ACTIVA"
    <3>1. estado = "ACTIVA" /\ hora <= hora'
      BY <2>3, <2>4, <2>6 DEF TipoSala
    <3>2. /\ Mayor(0, fin' - hora') \in Nat /\ Mayor(0, fin - hora) \in Nat
          /\ Mayor(0, fin' - hora') <= Mayor(0, fin - hora)
      BY <2>5, <3>1, FaltaMenos
    <3>3. segundosHastaProximaSilla =
              Mayor(0, fin - hora) + (IF Retorno > 0 THEN Pausa + Retorno ELSE 0)
      BY <2>1, <3>1, EsperaEnMasaje
    <3>4. segundosHastaProximaSilla' =
              Mayor(0, fin' - hora') + (IF Retorno > 0 THEN Pausa + Retorno ELSE 0)
      BY <2>2, <2>6, EsperaEnMasajePrima
    <3> QED
      BY <3>2, <3>3, <3>4
  <2>7. CASE estado = "SALIDA"
    <3>1. segundosHastaProximaSilla = Mayor(0, salidaHasta - hora)
      BY <2>1, <2>7, EsperaEnSalida
    <3>2. estado' = "SALIDA" /\ segundosHastaProximaSilla' = Mayor(0, salidaHasta' - hora')
      BY <2>2, <2>4, <2>7, EsperaEnSalidaPrima
    <3>3. CASE salidaHasta' = salidaHasta /\ hora' \in {hora, hora + 1}
      <4>1. salidaHasta' <= salidaHasta /\ hora <= hora'
        BY <2>5, <3>3
      <4>2. Mayor(0, salidaHasta' - hora') <= Mayor(0, salidaHasta - hora)
        BY <2>5, <4>1, FaltaMenos
      <4> QED
        BY <3>1, <3>2, <4>2
    <3>4. CASE /\ pulso.pc = "escribe" /\ pulso'.pc = "libre" /\ hora' = hora
               /\ salidaHasta' = hora + Retorno /\ salidaHasta' <= salidaHasta + pulso.espera
      <4>1. pulso.espera \in Nat
        BY DEF PulsoBien, Pulsacion
      <4>2. segundosHastaProximaSilla' = Retorno
        BY <2>5, <3>2, <3>4 DEF Mayor
      <4>3. segundosHastaProximaSilla \in Nat
            /\ Retorno <= segundosHastaProximaSilla + pulso.espera
        BY <2>5, <3>1, <3>4, <4>1 DEF Mayor
      <4>4. Menor(Retorno, segundosHastaProximaSilla + pulso.espera) = Retorno
        BY <4>1, <4>3 DEF Menor
      <4> QED
        BY <3>4, <4>2, <4>4
    <3> QED
      BY <2>4, <2>7, <3>3, <3>4
  <2>8. CASE estado = "ACTIVA" /\ estado' = "SALIDA"
    <3>1. salidaHasta' - hora' = Pausa + Retorno /\ Retorno > 0
      BY <2>3, <2>4, <2>8 DEF TipoSala, TipoFila
    <3>2. segundosHastaProximaSilla' = Pausa + Retorno
      BY <2>2, <2>8, <3>1, EsperaEnSalidaPrima DEF Mayor
    <3>3. segundosHastaProximaSilla = Mayor(0, fin - hora) + (Pausa + Retorno)
      BY <2>1, <2>8, <3>1, EsperaEnMasaje
    <3> QED
      BY <2>3, <3>2, <3>3 DEF Mayor, TipoSala, TipoFila
  <2> QED
    BY <2>1, <2>2, <2>6, <2>7, <2>8
<1>2. Spec => [][Paso]_vars
  BY <1>1, Invariante, PTL DEF Spec
<1> QED
  BY <1>2 DEF LiberarNoSube

-----------------------------------------------------------------------------
(* The accounts of a session, without failures of the cloud or restarts.   *)

\* The units without current so far, and what they may come to: what the
\* resumes gave back and what was forgiven for each loss of the device.
oscuro == hora - Inicio - masaje
perdonado == apagones * PerdidaPorCorte
credito == compensado + perdonado

SoloApagones == fallas = 0 /\ caidas = 0

\* There is a reading in each unit.
LecturaAlDia ==
    /\ salud.hay
    /\ IF "latido" \in toca THEN salud.chequeo = hora - 1 \/ hora = Inicio + 1
                            ELSE salud.chequeo = hora \/ hora = Inicio

\* The last order that the device took while the session runs.
ultimaOrden == Mayor(comando, Inicio)

\* Where a resume that is about to claim the cut stands.
ReanudaPaga ==
    reanuda.pc = "reclamar" =>
        /\ interrumpida > 0 /\ reanuda.devuelve >= hora - interrumpida
        /\ reanuda.fin = fin + reanuda.devuelve /\ reanuda.fin > hora
        /\ luz /\ rele => autoOff >= reanuda.fin
        /\ ~(luz /\ rele) => oscuro + PerdidaPorCorte <= credito + (hora - interrumpida)

\* The session is in the dark and nobody knows yet: since when, at most, by
\* the delay of the cloud, by the last reading that took the contact for
\* closed, by the last order; and there was a pass in each unit.
SinNotar ==
    /\ nube /\ ~Alcanzable => oscuro + PerdidaPorCorte <= credito + desfase
    /\ salud.online /\ salud.rele
           => oscuro + PerdidaPorCorte <= credito + Demora + (hora - salud.chequeo)
    /\ oscuro + PerdidaPorCorte <= credito + (hora - ultimaOrden)
    /\ "pasada" \notin toca => oscuro + 1 <= credito

CuentaAbierta ==
    /\ motivo = "ninguno" /\ fin = Inicio + Duracion + Gracia + compensado
    /\ oscuro <= credito + (IF interrumpida > 0 THEN hora - interrumpida ELSE 0)
    /\ reanuda.pc = "programar" => hora < fin
    /\ interrumpida = 0 /\ luz /\ rele => autoOff >= fin
    /\ ReanudaPaga
    /\ interrumpida = 0 /\ ~(luz /\ rele) => fin <= hora \/ SinNotar

CuentaCerrada ==
    /\ DaLoPagado /\ ValePorLoQueFalta
    /\ estado = "SALIDA" => motivo # "corte_de_energia"

Cuenta ==
    SoloApagones =>
        /\ vivo /\ api /\ LecturaAlDia
        /\ estado = "ACTIVA" => CuentaAbierta
        /\ estado # "ACTIVA" => CuentaCerrada

Numeros ==
    /\ hora \in Nat /\ masaje \in Nat /\ fin \in Nat /\ interrumpida \in Nat /\ autoOff \in Nat
    /\ compensado \in Nat /\ apagones \in Nat /\ comando \in Nat /\ vale \in Nat
    /\ fallas \in Nat /\ caidas \in Nat /\ salud.chequeo \in Nat /\ timer.cuando \in Nat
    /\ desfase \in 0..Demora /\ Inicio <= hora /\ comando <= hora /\ salud.chequeo <= hora
    /\ salud.ultimoOnline \in Nat /\ salud.ultimoRele \in Nat
    /\ salud.ultimoOnline <= hora /\ salud.ultimoRele <= hora
    /\ reanuda.fin \in Nat /\ reanuda.devuelve \in Nat
    /\ {luz, red, rele, nube, api} \subseteq BOOLEAN

LEMMA NumerosBien == IInv => Numeros
<1> SUFFICES ASSUME IInv PROVE Numeros
  OBVIOUS
<1>1. TipoSala /\ TipoAparato /\ TipoNube /\ TipoFila /\ TipoProceso /\ TipoCuentas
      /\ LecturasPasadas
  BY DEF IInv, Tipos
<1>2. Duracion \div Minuto \in Nat
  OBVIOUS
<1>3. 0..Duracion \div Minuto \subseteq Nat /\ 0..MaxHora \subseteq Nat
  BY <1>2
<1>4. /\ salud.chequeo \in Nat /\ salud.ultimoOnline \in Nat /\ salud.ultimoRele \in Nat
      /\ timer.cuando \in Nat /\ reanuda.fin \in Nat /\ reanuda.devuelve \in Nat
  BY <1>1 DEF TipoProceso, Salud, Temporizador, Reanudacion
<1>5. {luz, red, rele, nube, api} \subseteq BOOLEAN
  BY <1>1 DEF TipoSala, TipoAparato, TipoNube
<1> QED
  BY <1>1, <1>3, <1>4, <1>5
     DEF Numeros, LecturasPasadas, TipoSala, TipoAparato, TipoNube, TipoFila, TipoProceso,
         TipoCuentas

LEMMA PerdidaAcotada ==
    /\ PerdidaPorCorte \in Nat
    /\ PerdidaPorCorte >= Asentado + 1 /\ PerdidaPorCorte >= Demora + 2
BY DEF PerdidaPorCorte, Mayor

\* One loss more forgives one PerdidaPorCorte more.
LEMMA Perdones ==
    ASSUME apagones \in Nat
    PROVE  /\ perdonado \in Nat
           /\ apagones' = apagones => perdonado' = perdonado
           /\ apagones' = apagones + 1 => perdonado' = perdonado + PerdidaPorCorte
<1>1. PerdidaPorCorte \in Nat /\ PerdidaPorCorte' = PerdidaPorCorte
  BY PerdidaAcotada DEF PerdidaPorCorte, Mayor
<1> DEFINE p == PerdidaPorCorte
<1> HIDE DEF p
<1>2. p \in Nat
  BY <1>1 DEF p
<1>3. apagones * p \in Nat /\ (apagones + 1) * p = apagones * p + p
  BY <1>2
<1> QED
  BY <1>1, <1>3 DEF perdonado, p

\* A voucher is worth at least what was missing, or the whole turn.
LEMMA ValeAlcanza ==
    ASSUME NEW resto \in Int
    PROVE  LET v == MinutosDelVale(resto, Duracion, Minuto)
           IN  v * Minuto >= resto \/ v * Minuto >= Duracion
<1> DEFINE q == (resto + Minuto - 1) \div Minuto
           d == Duracion \div Minuto
<1>1. q \in Int /\ q * Minuto >= resto
  OBVIOUS
<1>2. d \in Nat /\ d * Minuto = Duracion
  OBVIOUS
<1>3. q <= 1 => Minuto >= resto
  <2> SUFFICES ASSUME q <= 1 PROVE Minuto >= resto
    OBVIOUS
  <2> HIDE DEF q
  <2>1. q * Minuto <= Minuto
    BY <1>1
  <2> QED
    BY <1>1, <2>1
<1>4. MinutosDelVale(resto, Duracion, Minuto) = Menor(d, Mayor(1, q))
  BY DEF MinutosDelVale
<1> HIDE DEF q, d
<1>5. Menor(d, Mayor(1, q)) \in {d, 1, q} /\ (Menor(d, Mayor(1, q)) = 1 => q <= 1 \/ d = 1)
  BY <1>1, <1>2 DEF Menor, Mayor
<1> QED
  BY <1>1, <1>2, <1>3, <1>4, <1>5

\* An account that was closed stays closed, whatever the device goes through.
LEMMA CerradaQueda ==
    ASSUME Numeros, SoloApagones, CuentaCerrada, apagones' \in {apagones, apagones + 1},
           UNCHANGED <<masaje, motivo, vale, estado>>
    PROVE  CuentaCerrada'
<1>1. /\ perdonado \in Nat /\ perdonado' \in Nat /\ perdonado <= perdonado'
  BY Perdones, PerdidaAcotada DEF Numeros
<1>2. DaLoPagado'
  BY <1>1 DEF CuentaCerrada, DaLoPagado, SoloApagones, perdonado, Numeros
<1>3. ValePorLoQueFalta'
  <2> DEFINE w == vale * Minuto
  <2>1. w \in Nat /\ w' = w
    BY DEF Numeros
  <2> HIDE DEF w
  <2>2. /\ ValePorLoQueFalta <=> (motivo = "corte_de_energia" /\ SoloApagones
                                  => masaje + w + perdonado >= Duracion)
        /\ ValePorLoQueFalta' <=> (motivo' = "corte_de_energia" /\ SoloApagones'
                                  => masaje' + w' + perdonado' >= Duracion)
    BY DEF ValePorLoQueFalta, SoloApagones, perdonado, w
  <2> QED
    BY <1>1, <2>1, <2>2 DEF CuentaCerrada, Numeros
<1> QED
  BY <1>2, <1>3 DEF CuentaCerrada

\* The failures that are counted do not go away.
LEMMA SinFallasAntes ==
    ASSUME Numeros, [Next]_vars, SoloApagones'
    PROVE  SoloApagones
BY DEF Numeros, SoloApagones, vars, Next, Latido, Pasa, Reanuda, Timers, Parada, Cae, Arranca,
       Entorno, Tic, PasadaCierra, PasadaReanuda, PasadaRegistra, PasadaReleAbierto, PasadaOmite,
       EmpiezaPasada, ReanudaEnciende, ReanudaReclama, ReanudaPrograma, TimerFin, TimerRetorno,
       Pulso, RetornoEnciende, RetornoEscribe, TimerSalida, Apagon, Repone, NubeVe, NubeFalla, AutoOff

\* A session that has just started owes nothing.
LEMMA CuentaInicial == Init => Cuenta
<1> SUFFICES ASSUME Init PROVE Cuenta
  OBVIOUS
<1>1. Numeros
  BY InitBien, NumerosBien
<1>2. perdonado \in Nat
  BY <1>1, Perdones DEF Numeros
<1>3. LecturaAlDia
  BY DEF Init, LecturaAlDia, SinSalud
<1>4. CuentaAbierta
  BY <1>1, <1>2 DEF Init, CuentaAbierta, ReanudaPaga, SinNotar, oscuro, credito, NoReanuda, Numeros
<1> QED
  BY <1>3, <1>4 DEF Init, Cuenta

\* A reading that takes the contact for closed in the dark has the cloud mistaken.
LEMMA CuentaLatido ==
    ASSUME IInv, Cuenta, SoloApagones, Latido
    PROVE  Cuenta'
<1>1. Numeros /\ vivo /\ api /\ LecturaAlDia
  BY NumerosBien DEF Cuenta
<1>2. /\ UNCHANGED <<hora, luz, red, apagones, rele, autoOff, nube, desfase, api, fallas, comando,
                     estado, fin, interrumpida, compensado, motivo, vale, reanuda, vivo, caidas,
                     masaje>>
      /\ salud'.hay /\ salud'.online = nube /\ salud'.rele = rele /\ salud'.chequeo = hora
      /\ "latido" \notin toca' /\ ("pasada" \in toca' <=> "pasada" \in toca)
  BY <1>1 DEF Latido
<1>3. perdonado \in Nat /\ perdonado' = perdonado
  BY <1>1, <1>2, Perdones DEF Numeros
<1>4. LecturaAlDia'
  BY <1>2 DEF LecturaAlDia
<1>5. ASSUME estado = "ACTIVA" PROVE CuentaAbierta'
  <2>1. CuentaAbierta
    BY <1>5 DEF Cuenta
  <2>2. ReanudaPaga'
    BY <1>2, <1>3, <2>1 DEF CuentaAbierta, ReanudaPaga, oscuro, credito, PerdidaPorCorte
  <2>3. SinNotar /\ ~(luz /\ rele) => SinNotar'
    BY <1>1, <1>2, <1>3, PerdidaAcotada
       DEF SinNotar, Numeros, oscuro, credito, Alcanzable, PerdidaPorCorte, ultimaOrden, Mayor
  <2> QED
    BY <1>2, <1>3, <2>1, <2>2, <2>3 DEF CuentaAbierta, oscuro, credito
<1>6. ASSUME estado # "ACTIVA" PROVE CuentaCerrada'
  BY <1>1, <1>2, <1>6, CerradaQueda DEF Cuenta
<1> QED
  BY <1>1, <1>2, <1>4, <1>5, <1>6 DEF Cuenta

\* A loss of the device pays for the time in the dark that it opens.
LEMMA CuentaApagon ==
    ASSUME IInv, Cuenta, SoloApagones, Apagon
    PROVE  Cuenta'
<1>1. Numeros /\ vivo /\ api /\ LecturaAlDia
  BY NumerosBien DEF Cuenta
<1>2. /\ UNCHANGED <<hora, rele, nube, desfase, api, fallas, salud, comando, estado, fin, interrumpida,
                     compensado, motivo, vale, reanuda, toca, vivo, caidas, masaje>>
      /\ apagones' = apagones + 1 /\ (luz' => luz) /\ (luz' => autoOff' = autoOff)
  BY DEF Apagon
<1>3. perdonado \in Nat /\ perdonado' = perdonado + PerdidaPorCorte
  BY <1>1, <1>2, Perdones DEF Numeros
<1>4. LecturaAlDia'
  BY <1>1, <1>2 DEF LecturaAlDia
<1>5. ASSUME estado = "ACTIVA" PROVE CuentaAbierta'
  <2>1. CuentaAbierta
    BY <1>5 DEF Cuenta
  <2>2. oscuro' = oscuro /\ credito' = credito + PerdidaPorCorte
    <3>1. oscuro' = oscuro /\ compensado' = compensado /\ compensado \in Nat
      BY <1>1, <1>2 DEF oscuro, Numeros
    <3> QED
      BY <1>3, <3>1, PerdidaAcotada DEF credito
  <2>3. PerdidaPorCorte' = PerdidaPorCorte
    BY DEF PerdidaPorCorte, Mayor
  <2>4. /\ oscuro \in Int /\ credito \in Nat
        /\ oscuro <= credito + (IF interrumpida > 0 THEN hora - interrumpida ELSE 0)
    BY <1>1, <1>3, <2>1 DEF CuentaAbierta, oscuro, credito, Numeros
  <2>5. ReanudaPaga'
    BY <1>1, <1>2, <2>1, <2>2, <2>3, <2>4, PerdidaAcotada DEF CuentaAbierta, ReanudaPaga, Numeros
  <2>6. interrumpida = 0 => SinNotar'
    BY <1>1, <1>2, <2>2, <2>3, <2>4, PerdidaAcotada DEF SinNotar, Numeros, ultimaOrden, Mayor
  <2> QED
    BY <1>1, <1>2, <2>1, <2>2, <2>4, <2>5, <2>6, PerdidaAcotada DEF CuentaAbierta, Numeros
<1>6. ASSUME estado # "ACTIVA" PROVE CuentaCerrada'
  BY <1>1, <1>2, <1>6, CerradaQueda DEF Cuenta
<1> QED
  BY <1>1, <1>2, <1>4, <1>5, <1>6 DEF Cuenta

\* A device that is back has its contact open; the cloud that notices it no
\* longer excuses the dark, and the contact opens by itself only after the end.
LEMMA CuentaEntorno ==
    ASSUME IInv, Cuenta, SoloApagones, Repone \/ NubeVe \/ AutoOff
    PROVE  Cuenta'
<1>1. Numeros /\ vivo /\ api /\ LecturaAlDia
  BY NumerosBien DEF Cuenta
<1>2. /\ UNCHANGED <<hora, apagones, api, fallas, salud, comando, estado, fin, interrumpida,
                     compensado, motivo, vale, reanuda, toca, vivo, caidas, masaje>>
  BY <1>1 DEF Repone, NubeVe, AutoOff
<1>7. luz' /\ rele' => luz /\ rele /\ autoOff' = autoOff
  BY Zenon DEF Repone, NubeVe, AutoOff
<1>3. perdonado \in Nat /\ perdonado' = perdonado
  BY <1>1, <1>2, Perdones DEF Numeros
<1>4. LecturaAlDia'
  BY <1>1, <1>2 DEF LecturaAlDia
<1>5. ASSUME estado = "ACTIVA" PROVE CuentaAbierta'
  <2>1. CuentaAbierta
    BY <1>5 DEF Cuenta
  <2>2. oscuro' = oscuro /\ credito' = credito /\ oscuro \in Int /\ credito \in Nat
    BY <1>1, <1>2, <1>3 DEF oscuro, credito, Numeros
  <2>3. PerdidaPorCorte' = PerdidaPorCorte
    BY DEF PerdidaPorCorte, Mayor
  <2>4. luz /\ rele /\ ~(luz' /\ rele') => autoOff <= hora
    BY <1>1 DEF Repone, NubeVe, AutoOff, ApagadoPropio, Numeros
  <2>5. ReanudaPaga'
    BY <1>1, <1>2, <1>7, <2>1, <2>2, <2>3, <2>4 DEF CuentaAbierta, ReanudaPaga, Numeros
  <2>6. SinNotar /\ ~(luz /\ rele) => SinNotar'
    <3>1. nube' /\ ~Alcanzable' => nube /\ ~Alcanzable /\ desfase' = desfase
      <4>1. CASE Repone
        BY <4>1, Zenon DEF Repone, Alcanzable
      <4>2. CASE NubeVe
        BY <4>2, Zenon DEF NubeVe, Alcanzable
      <4>3. CASE AutoOff
        BY <4>3, Zenon DEF AutoOff, Alcanzable
      <4> QED
        BY <4>1, <4>2, <4>3
    <3>2. UNCHANGED ultimaOrden
      BY <1>2 DEF ultimaOrden, Mayor
    <3> QED
      BY <1>2, <2>2, <2>3, <3>1, <3>2 DEF SinNotar
  <2>7. interrumpida = 0 /\ ~(luz' /\ rele') => fin <= hora \/ SinNotar'
    BY <1>1, <2>1, <2>4, <2>6 DEF CuentaAbierta, Numeros
  <2> QED
    BY <1>2, <1>7, <2>1, <2>2, <2>5, <2>7 DEF CuentaAbierta
<1>6. ASSUME estado # "ACTIVA" PROVE CuentaCerrada'
  BY <1>1, <1>2, <1>6, CerradaQueda DEF Cuenta
<1> QED
  BY <1>1, <1>2, <1>4, <1>5, <1>6 DEF Cuenta

\* A unit in the dark that nobody has noted is one of those forgiven: the
\* clock moves on after the pass and the reading of the unit.
LEMMA CuentaTic ==
    ASSUME IInv, Cuenta, SoloApagones, Tic
    PROVE  Cuenta'
<1>1. Numeros /\ vivo /\ api /\ LecturaAlDia /\ FinProgramado
  BY NumerosBien DEF Cuenta, IInv
<1>2. /\ UNCHANGED <<luz, red, rele, autoOff, nube, apagones, api, fallas, salud, comando, estado, fin,
                     interrumpida, compensado, motivo, vale, reanuda, vivo, caidas>>
      /\ hora' = hora + 1 /\ toca = {} /\ reanuda.pc = "libre"
      /\ timer.que # "ninguno" => timer.cuando > hora
      /\ toca' = {"latido", "pasada"}
      /\ nube # Alcanzable => desfase' = desfase + 1
      /\ masaje' = IF luz /\ rele /\ estado = "ACTIVA" THEN masaje + 1 ELSE masaje
  BY <1>1 DEF Tic, NadaPendiente
<1>3. perdonado \in Nat /\ perdonado' = perdonado
  BY <1>1, <1>2, Perdones DEF Numeros
<1>4. LecturaAlDia'
  BY <1>1, <1>2 DEF LecturaAlDia, Numeros
<1>5. ASSUME estado = "ACTIVA" PROVE CuentaAbierta'
  <2>1. CuentaAbierta
    BY <1>5 DEF Cuenta
  <2>2. /\ credito' = credito /\ oscuro \in Int /\ credito \in Nat
        /\ oscuro' = IF luz /\ rele THEN oscuro ELSE oscuro + 1
    BY <1>1, <1>2, <1>3, <1>5 DEF oscuro, credito, Numeros
  <2>3. PerdidaPorCorte' = PerdidaPorCorte
    BY DEF PerdidaPorCorte, Mayor
  <2>4. interrumpida = 0 => hora < fin
    BY <1>1, <1>2, <1>5 DEF FinProgramado, Timer, Numeros
  <2>5. ReanudaPaga'
    BY <1>2 DEF ReanudaPaga
  <2>6. interrumpida = 0 /\ ~(luz /\ rele) => SinNotar
    BY <1>1, <2>1, <2>4 DEF CuentaAbierta, Numeros
  <2>7. SinNotar /\ ~(luz /\ rele) => SinNotar'
    <3>1. Alcanzable \in BOOLEAN /\ nube \in BOOLEAN /\ Alcanzable' = Alcanzable
      BY <1>1, <1>2 DEF Alcanzable, Numeros
    <3>2. nube' /\ ~Alcanzable' => nube /\ ~Alcanzable /\ desfase' = desfase + 1
      BY <1>2, <3>1
    <3>3. ultimaOrden \in Nat /\ ultimaOrden' = ultimaOrden
      BY <1>1, <1>2 DEF ultimaOrden, Mayor, Numeros
    <3> QED
      BY <1>1, <1>2, <2>2, <2>3, <3>2, <3>3, PerdidaAcotada DEF SinNotar, Numeros
  <2>8. oscuro' <= credito' + (IF interrumpida' > 0 THEN hora' - interrumpida' ELSE 0)
    <3>1. oscuro <= credito + (IF interrumpida > 0 THEN hora - interrumpida ELSE 0)
      BY <2>1 DEF CuentaAbierta
    <3>2. interrumpida = 0 /\ ~(luz /\ rele) => oscuro + 1 <= credito
      BY <1>2, <2>6 DEF SinNotar
    <3> QED
      BY <1>1, <1>2, <2>2, <3>1, <3>2 DEF Numeros
  <2> QED
    BY <1>2, <2>1, <2>5, <2>6, <2>7, <2>8 DEF CuentaAbierta
<1>6. ASSUME estado # "ACTIVA" PROVE CuentaCerrada'
  <2>1. masaje' = masaje
    BY <1>2, <1>6
  <2> QED
    BY <1>1, <1>2, <1>6, <2>1, CerradaQueda DEF Cuenta
<1> QED
  BY <1>1, <1>2, <1>4, <1>5, <1>6 DEF Cuenta

\* What leaves the session and the device as they were, and the pass of the
\* unit done only when it may be.
LEMMA CuentaSigue ==
    ASSUME Numeros, Cuenta, SoloApagones,
           UNCHANGED <<hora, luz, red, rele, autoOff, nube, desfase, apagones, api, fallas, salud,
                       comando, estado, fin, interrumpida, compensado, motivo, vale, vivo, caidas,
                       masaje>>,
           "latido" \in toca' <=> "latido" \in toca,
           \/ "pasada" \in toca' <=> "pasada" \in toca
           \/ estado = "ACTIVA" /\ interrumpida = 0 /\ ~(luz /\ rele) /\ SinNotar => oscuro + 1 <= credito,
           reanuda' = reanuda \/ reanuda'.pc \in {"libre", "leer"}
    PROVE  Cuenta'
<1>1. perdonado \in Nat /\ perdonado' = perdonado
  BY Perdones DEF Numeros
<1>2. LecturaAlDia'
  BY DEF LecturaAlDia, Cuenta
<1>3. ASSUME estado = "ACTIVA" PROVE CuentaAbierta'
  <2>1. CuentaAbierta
    BY <1>3 DEF Cuenta
  <2>2. oscuro' = oscuro /\ credito' = credito /\ PerdidaPorCorte' = PerdidaPorCorte
    BY <1>1 DEF oscuro, credito, PerdidaPorCorte, Mayor
  <2>3. ReanudaPaga'
    BY <2>1, <2>2 DEF CuentaAbierta, ReanudaPaga
  <2>4. interrumpida = 0 /\ ~(luz /\ rele) /\ SinNotar => SinNotar'
    BY <1>3, <2>2 DEF SinNotar, Alcanzable, ultimaOrden, Mayor
  <2> QED
    BY <2>1, <2>2, <2>3, <2>4 DEF CuentaAbierta
<1>4. ASSUME estado # "ACTIVA" PROVE CuentaCerrada'
  BY <1>4, CerradaQueda DEF Cuenta
<1> QED
  BY <1>2, <1>3, <1>4 DEF Cuenta

\* A session that is closed: its account is settled by whoever closes it.
LEMMA CuentaCierra ==
    ASSUME Cuenta, SoloApagones, UNCHANGED <<hora, api, salud, vivo>>,
           "latido" \in toca' <=> "latido" \in toca, estado' # "ACTIVA", CuentaCerrada'
    PROVE  Cuenta'
BY DEF Cuenta, LecturaAlDia

\* A cut is dated in the past, where the session owed nothing but what is forgiven.
LEMMA CuentaRegistra ==
    ASSUME Numeros, Cuenta, SoloApagones, estado = "ACTIVA", interrumpida = 0,
           NEW cuando \in Nat \ {0}, cuando <= hora, registrarCorte(cuando),
           UNCHANGED <<hora, apagones, api, salud, vivo, masaje>>,
           "latido" \in toca' <=> "latido" \in toca,
           reanuda' = reanuda \/ reanuda'.pc \in {"libre", "leer"}
    PROVE  Cuenta'
<1>1. perdonado \in Nat /\ perdonado' = perdonado
  BY Perdones DEF Numeros
<1>2. interrumpida' = cuando /\ UNCHANGED <<estado, fin, compensado, motivo>>
  BY DEF registrarCorte
<1>3. CuentaAbierta
  BY DEF Cuenta
<1>4. LecturaAlDia'
  BY DEF LecturaAlDia, Cuenta
<1>5. oscuro' = oscuro /\ credito' = credito /\ oscuro \in Int /\ credito \in Nat
  BY <1>1, <1>2 DEF oscuro, credito, Numeros
<1>6. ReanudaPaga'
  BY <1>3 DEF CuentaAbierta, ReanudaPaga
<1>7. oscuro' <= credito' + (IF interrumpida' > 0 THEN hora' - interrumpida' ELSE 0)
  BY <1>2, <1>3, <1>5 DEF CuentaAbierta, Numeros
<1>8. CuentaAbierta'
  BY <1>2, <1>3, <1>6, <1>7 DEF CuentaAbierta
<1> QED
  BY <1>2, <1>4, <1>8 DEF Cuenta

\* A massage that ends by its timer has lasted what was paid, and the dark.
LEMMA CuentaTermina ==
    ASSUME Numeros, Cuenta, SoloApagones, estado = "ACTIVA", interrumpida = 0, hora = fin,
           Termina("tiempo_cumplido"),
           UNCHANGED <<hora, apagones, api, fallas, salud, vivo, caidas, masaje, toca>>
    PROVE  Cuenta'
<1>1. perdonado \in Nat /\ perdonado' = perdonado
  BY Perdones DEF Numeros
<1>2. CuentaAbierta
  BY DEF Cuenta
<1>3. estado' # "ACTIVA" /\ motivo' = "tiempo_cumplido"
  BY DEF Termina, Cierra
<1>4. masaje + perdonado >= Duracion + Gracia
  BY <1>1, <1>2 DEF CuentaAbierta, oscuro, credito, Numeros
<1>5. CuentaCerrada'
  <2>1. masaje' + perdonado' >= Duracion + Gracia
    BY <1>1, <1>4
  <2> QED
    BY <1>3, <2>1 DEF CuentaCerrada, DaLoPagado, ValePorLoQueFalta, perdonado
<1> QED
  BY <1>3, <1>5, CuentaCierra

\* A session that a cut closes has given what it had given at the cut, and
\* the voucher is for the rest.
LEMMA CuentaCorte ==
    ASSUME Numeros, Cuenta, SoloApagones, estado = "ACTIVA", interrumpida > 0, CierraPorCorte,
           UNCHANGED <<hora, apagones, api, fallas, salud, vivo, caidas, masaje>>,
           "latido" \in toca' <=> "latido" \in toca
    PROVE  Cuenta'
<1>1. perdonado \in Nat /\ perdonado' = perdonado
  BY Perdones DEF Numeros
<1>2. CuentaAbierta
  BY DEF Cuenta
<1>3. masaje + perdonado + (fin - interrumpida) >= Duracion + Gracia
  BY <1>1, <1>2 DEF CuentaAbierta, oscuro, credito, Numeros
<1>4. CASE fin - interrumpida <= Resto
  <2>1. estado' = "COMPLETADA" /\ motivo' = "corte_sobre_el_final"
    BY <1>4 DEF CierraPorCorte, Cierra
  <2>2. masaje' + Resto + perdonado' >= Duracion + Gracia
    BY <1>1, <1>3, <1>4 DEF Numeros
  <2>3. CuentaCerrada'
    BY <2>1, <2>2 DEF CuentaCerrada, DaLoPagado, ValePorLoQueFalta, perdonado
  <2> QED
    BY <2>1, <2>3, CuentaCierra
<1>5. CASE ~(fin - interrumpida <= Resto)
  <2> DEFINE v == MinutosDelVale(fin - interrumpida, Duracion, Minuto)
  <2>1. estado' = "CANCELADA" /\ motivo' = "corte_de_energia" /\ vale' = v
    BY <1>5 DEF CierraPorCorte, Cierra
  <2>2. fin - interrumpida \in Int
    BY DEF Numeros
  <2>3. v * Minuto >= fin - interrumpida \/ v * Minuto >= Duracion
    BY <2>2, ValeAlcanza
  <2>4. v * Minuto \in Int
    <3>1. v \in 0..Duracion \div Minuto
      BY <2>2, MinutosAcotados
    <3>2. Duracion \div Minuto \in Nat
      OBVIOUS
    <3> HIDE DEF v
    <3>3. v \in Int
      BY <3>1, <3>2
    <3> QED
      BY <3>3
  <2> DEFINE w == v * Minuto
  <2> HIDE DEF w
  <2>5. masaje + w + perdonado >= Duracion
    <3>1. w \in Int /\ (w >= fin - interrumpida \/ w >= Duracion)
      BY <2>3, <2>4 DEF w
    <3> QED
      BY <1>1, <1>3, <3>1 DEF Numeros
  <2>6. vale' * Minuto = w
    BY <2>1 DEF w
  <2> HIDE DEF v
  <2>7. masaje' + vale' * Minuto + perdonado' >= Duracion
    BY <1>1, <2>5, <2>6
  <2>8. CuentaCerrada'
    BY <2>1, <2>7 DEF CuentaCerrada, DaLoPagado, ValePorLoQueFalta, perdonado
  <2> QED
    BY <2>1, <2>8, CuentaCierra
<1> QED
  BY <1>4, <1>5

\* finalizarSesion: at the end, or a cut found by looking at the device.
LEMMA CuentaTimerFin ==
    ASSUME BaseRapida, IInv, Cuenta, SoloApagones, TimerFin
    PROVE  Cuenta'
<1>1. Numeros /\ vivo /\ FinProgramado
  BY NumerosBien DEF Cuenta, IInv
<1>2. UNCHANGED <<hora, luz, red, apagones, nube, desfase, api, fallas, salud, reanuda, toca, vivo,
                  caidas, masaje>>
  BY DEF TimerFin
<1>3. CASE (estado # "ACTIVA" \/ interrumpida > 0) /\ UNCHANGED <<equipo, comando, fila>>
  BY <1>1, <1>2, <1>3, CuentaSigue
<1>4. CASE estado = "ACTIVA" /\ interrumpida = 0 /\ CorteAlCerrar /\ registrarCorte(VistoAlCierre)
  <2>1. VistoAlCierre \in Nat \ {0} /\ VistoAlCierre <= hora
    BY <1>1 DEF VistoAlCierre, CorteAlCierre, Mayor, Numeros
  <2> QED
    BY <1>1, <1>2, <1>4, <2>1, CuentaRegistra
<1>5. CASE estado = "ACTIVA" /\ interrumpida = 0 /\ Termina("tiempo_cumplido")
  <2>1. timer.cuando <= hora /\ reanuda.pc # "programar"
    BY DEF TimerFin, Vencido
  <2>2. timer = Timer("fin", fin) /\ hora <= fin
    BY <1>1, <1>5, <2>1 DEF FinProgramado
  <2>3. hora = fin
    BY <1>1, <2>1, <2>2 DEF Timer, Numeros
  <2> QED
    BY <1>1, <1>2, <1>5, <2>3, CuentaTermina
<1> QED
  BY <1>3, <1>4, <1>5 DEF TimerFin

\* The exit phase and the emergency stop come after the account, or cancel it.
LEMMA CuentaFuera ==
    ASSUME IInv, PulsoBien, Cuenta, SoloApagones,
           TimerRetorno \/ TimerSalida \/ Pulso \/ Parada
    PROVE  Cuenta'
<1>1. Numeros
  BY NumerosBien
<1>2. UNCHANGED <<hora, apagones, api, fallas, salud, toca, vivo, caidas, masaje>>
  BY DEF TimerRetorno, TimerSalida, Parada, Pulso, RetornoEnciende, RetornoEscribe
<1>3. perdonado \in Nat /\ perdonado' = perdonado
  BY <1>1, <1>2, Perdones DEF Numeros
<1>4. CASE Parada
  <2>1. estado' = "CANCELADA" /\ motivo' = "parada_de_emergencia"
    BY <1>4 DEF Parada, Cierra
  <2>2. CuentaCerrada'
    BY <2>1 DEF CuentaCerrada, DaLoPagado, ValePorLoQueFalta
  <2> QED
    BY <1>2, <2>1, <2>2, CuentaCierra
<1>5. CASE TimerRetorno \/ RetornoEscribe \/ (TimerSalida /\ estado # "SALIDA")
  <2>1. UNCHANGED <<luz, red, rele, autoOff, nube, desfase, comando, estado, fin, interrumpida,
                    compensado, motivo, vale, reanuda>>
    BY <1>5 DEF TimerRetorno, RetornoEscribe, TimerSalida
  <2> QED
    BY <1>1, <1>2, <2>1, CuentaSigue
<1>6. CASE RetornoEnciende \/ (TimerSalida /\ estado = "SALIDA")
  <2>1. estado # "ACTIVA" /\ motivo' = motivo
    BY <1>6 DEF RetornoEnciende, TimerSalida, Cierra, PulsoBien
  <2>2. UNCHANGED <<estado, vale>> \/ (estado = "SALIDA" /\ estado' = "COMPLETADA")
    BY <1>6 DEF RetornoEnciende, TimerSalida, Cierra
  <2>3. CuentaCerrada
    BY <2>1 DEF Cuenta
  <2>4. DaLoPagado'
    BY <1>2, <1>3, <2>1, <2>3 DEF CuentaCerrada, DaLoPagado, SoloApagones, perdonado
  <2>5. CASE UNCHANGED <<estado, vale>>
    <3>1. CuentaCerrada'
      BY <1>1, <1>2, <2>1, <2>3, <2>5, CerradaQueda
    <3> QED
      BY <1>2, <2>1, <2>5, <3>1, CuentaCierra
  <2>6. CASE estado = "SALIDA" /\ estado' = "COMPLETADA"
    <3>1. CuentaCerrada'
      BY <2>1, <2>3, <2>4, <2>6 DEF CuentaCerrada, ValePorLoQueFalta
    <3> QED
      BY <1>2, <2>6, <3>1, CuentaCierra
  <2> QED
    BY <2>2, <2>5, <2>6
<1> QED
  BY <1>4, <1>5, <1>6 DEF Pulso

\* A pass that finds nothing to do has a reading of this unit or of the last
\* one, and that reading or a recent order bounds the dark.
LEMMA CuentaOmite ==
    ASSUME IInv, Cuenta, SoloApagones, PasadaOmite
    PROVE  Cuenta'
<1>1. Numeros /\ vivo /\ LecturaAlDia
  BY NumerosBien DEF Cuenta
<1>2. /\ UNCHANGED <<hora, luz, red, rele, autoOff, nube, desfase, apagones, api, fallas, salud,
                     comando, estado, fin, interrumpida, compensado, motivo, vale, vivo, caidas,
                     masaje, reanuda>>
      /\ "latido" \in toca' <=> "latido" \in toca
  BY DEF PasadaOmite, EmpiezaPasada
<1>3. ASSUME estado = "ACTIVA", interrumpida = 0, SinNotar PROVE oscuro + 1 <= credito
  <2>1. perdonado \in Nat
    BY <1>1, Perdones DEF Numeros
  <2>2. oscuro \in Int /\ credito \in Nat
    BY <1>1, <2>1 DEF oscuro, credito, Numeros
  <2>3. ~SinConexion /\ ~ReleAbierto
    BY <1>3 DEF PasadaOmite
  <2>4. ultimaOrden \in Nat /\ Inicio <= ultimaOrden
    BY <1>1 DEF ultimaOrden, Mayor, Numeros
  <2>5. oscuro + PerdidaPorCorte <= credito + (hora - ultimaOrden)
    BY <1>3 DEF SinNotar
  <2>6. CASE hora - ultimaOrden <= 1 \/ hora - ultimaOrden <= Asentado
    BY <1>1, <2>2, <2>4, <2>5, <2>6, PerdidaAcotada DEF Numeros
  <2>7. CASE ~(hora - ultimaOrden <= 1) /\ ~(hora - ultimaOrden <= Asentado)
    <3>1. hora - salud.chequeo <= 1 /\ salud.hay
      BY <1>1, <2>4, <2>7 DEF LecturaAlDia, Numeros
    <3>2. esFresca
      BY <1>1, <3>1 DEF esFresca, Numeros
    <3>3. arranqueYaAsentado
      <4>1. ultimaOrden = IF comando > Inicio THEN comando ELSE Inicio
        BY <1>1 DEF ultimaOrden, Mayor, Numeros
      <4>2. salud.chequeo > ultimaOrden /\ hora - ultimaOrden > Asentado
        BY <1>1, <2>4, <2>7, <3>1 DEF Numeros
      <4> QED
        BY <4>1, <4>2 DEF arranqueYaAsentado
    <3>4. salud.online /\ salud.rele
      BY <1>3, <2>3, <3>2, <3>3 DEF SinConexion, ReleAbierto
    <3>5. oscuro + PerdidaPorCorte <= credito + Demora + (hora - salud.chequeo)
      BY <1>3, <3>4 DEF SinNotar
    <3> QED
      BY <1>1, <2>2, <3>1, <3>5, PerdidaAcotada DEF Numeros
  <2> QED
    BY <2>6, <2>7
<1> QED
  BY <1>1, <1>2, <1>3, CuentaSigue

LEMMA CuentaPasa ==
    ASSUME IInv, Cuenta, SoloApagones, Pasa
    PROVE  Cuenta'
<1>1. Numeros /\ vivo /\ LecturaAlDia
  BY NumerosBien DEF Cuenta
<1>2. ASSUME EmpiezaPasada
      PROVE  /\ UNCHANGED <<hora, luz, red, nube, desfase, apagones, api, fallas, salud, vivo,
                            caidas, masaje>>
             /\ "latido" \in toca' <=> "latido" \in toca
             /\ reanuda.pc = "libre"
  BY <1>2 DEF EmpiezaPasada
<1>3. CASE PasadaOmite
  BY <1>3, CuentaOmite
<1>4. CASE PasadaCierra
  BY <1>1, <1>2, <1>4, CuentaCorte DEF PasadaCierra, PasadoUmbral
<1>5. CASE PasadaReanuda
  BY <1>1, <1>2, <1>5, CuentaSigue DEF PasadaReanuda, VuelveEnergia
<1>6. CASE PasadaRegistra
  <2> DEFINE cuando == inicioDelCorte(Inicio, salud.ultimoOnline, salud.chequeo)
  <2>1. cuando \in Nat \ {0} /\ cuando <= hora
    BY <1>1 DEF inicioDelCorte, Mayor, Numeros
  <2> QED
    BY <1>1, <1>2, <1>6, <2>1, CuentaRegistra DEF PasadaRegistra, SinConexion
<1>7. CASE PasadaReleAbierto
  <2>1. salud.chequeo \in Nat \ {0} /\ salud.chequeo <= hora
    BY <1>1, <1>7 DEF PasadaReleAbierto, ReleAbierto, arranqueYaAsentado, Numeros
  <2>2. reanuda'.pc = "leer"
    <3>1. reanuda \in Reanudacion
      BY DEF IInv, Tipos, TipoProceso
    <3> QED
      BY <1>7, <3>1 DEF PasadaReleAbierto, Reanudacion
  <2> QED
    BY <1>1, <1>2, <1>7, <2>1, <2>2, CuentaRegistra DEF PasadaReleAbierto, ReleAbierto
<1> QED
  BY <1>3, <1>4, <1>5, <1>6, <1>7 DEF Pasa

\* The ON of a resume goes with an end that gives back the time in the dark.
LEMMA CuentaEnciende ==
    ASSUME IInv, Cuenta, SoloApagones, ReanudaEnciende
    PROVE  Cuenta'
<1>1. Numeros /\ vivo /\ LecturaAlDia /\ CorteAntesDelFin
  BY NumerosBien DEF Cuenta, IInv
<1>2. UNCHANGED <<hora, luz, red, nube, desfase, apagones, api, fallas, salud, estado, fin,
                  interrumpida, compensado, motivo, vale, vivo, caidas, masaje, toca>>
  BY DEF ReanudaEnciende
<1>3. CASE reanuda' = NoReanuda /\ UNCHANGED <<equipo, comando>>
  BY <1>1, <1>2, <1>3, CuentaSigue DEF NoReanuda
<1>4. CASE ~(estado = "ACTIVA" /\ interrumpida > 0 /\ Responde)
  <2>1. reanuda' = NoReanuda /\ UNCHANGED <<equipo, comando>>
    BY <1>4 DEF ReanudaEnciende
  <2> QED
    BY <1>3, <2>1
<1>5. CASE estado = "ACTIVA" /\ interrumpida > 0 /\ Responde
  <2> DEFINE devuelve == Devolver(hora, interrumpida, Reinicio)
             nuevoFin == fin + devuelve
  <2>1. /\ devuelve \in Nat /\ devuelve >= hora - interrumpida
        /\ nuevoFin = fin + devuelve /\ nuevoFin \in Nat /\ nuevoFin > hora
    BY <1>1, <1>5 DEF Devolver, Mayor, CorteAntesDelFin, Numeros
  <2>2. /\ Enciende(nuevoFin - hora + Margen)
        /\ reanuda' = [pc |-> "reclamar", fin |-> nuevoFin, devuelve |-> devuelve]
    <3>1. nuevoFin > hora
      BY <2>1
    <3> QED
      BY <1>5, <3>1 DEF ReanudaEnciende
  <2> HIDE DEF devuelve, nuevoFin
  <2>3. luz /\ rele' = TRUE /\ autoOff' = nuevoFin + Margen
    BY <1>1, <1>5, <2>1, <2>2 DEF Enciende, Responde, Alcanzable, Numeros
  <2>4. autoOff' >= nuevoFin
    BY <2>1, <2>3
  <2>5. CuentaAbierta
    BY <1>5 DEF Cuenta
  <2>6. /\ reanuda'.pc = "reclamar" /\ reanuda'.fin = nuevoFin
        /\ reanuda'.devuelve = devuelve
    BY <2>2
  <2>7. perdonado \in Nat /\ perdonado' = perdonado
    BY <1>1, <1>2, Perdones DEF Numeros
  <2>8. oscuro' = oscuro /\ credito' = credito
    BY <1>2, <2>7 DEF oscuro, credito
  <2>9. luz' /\ rele'
    BY <1>2, <2>3
  <2>10. ReanudaPaga'
    BY <1>2, <1>5, <2>1, <2>4, <2>6, <2>9 DEF ReanudaPaga
  <2>11. CuentaAbierta'
    BY <1>2, <1>5, <2>5, <2>6, <2>8, <2>10 DEF CuentaAbierta
  <2>12. LecturaAlDia'
    BY <1>1, <1>2 DEF LecturaAlDia
  <2> QED
    BY <1>1, <1>2, <1>5, <2>11, <2>12 DEF Cuenta
<1> QED
  BY <1>4, <1>5

\* Once claimed, the dark up to now is paid; what came after it is forgiven.
LEMMA CuentaReclama ==
    ASSUME IInv, Cuenta, SoloApagones, ReanudaReclama
    PROVE  Cuenta'
<1>1. Numeros /\ vivo /\ LecturaAlDia
  BY NumerosBien DEF Cuenta
<1>2. UNCHANGED <<hora, luz, red, rele, autoOff, nube, desfase, apagones, api, fallas, salud, comando,
                  estado, motivo, vale, vivo, caidas, masaje, toca>>
  BY DEF ReanudaReclama
<1>3. CASE reanuda' = NoReanuda /\ UNCHANGED <<fin, interrumpida, compensado>>
  BY <1>1, <1>2, <1>3, CuentaSigue DEF NoReanuda
<1>4. CASE /\ estado = "ACTIVA" /\ interrumpida > 0 /\ interrumpida' = 0 /\ fin' = reanuda.fin
           /\ compensado' = compensado + reanuda.devuelve
           /\ reanuda' = [reanuda EXCEPT !.pc = "programar"]
  <2>1. CuentaAbierta /\ reanuda.pc = "reclamar"
    BY <1>4 DEF Cuenta, ReanudaReclama
  <2>2. /\ reanuda.devuelve >= hora - interrumpida
        /\ reanuda.fin = fin + reanuda.devuelve /\ reanuda.fin > hora
        /\ luz /\ rele => autoOff >= reanuda.fin
        /\ ~(luz /\ rele) => oscuro + PerdidaPorCorte <= credito + (hora - interrumpida)
    BY <2>1 DEF CuentaAbierta, ReanudaPaga
  <2>3. perdonado \in Nat /\ perdonado' = perdonado
    BY <1>1, <1>2, Perdones DEF Numeros
  <2>4. /\ oscuro' = oscuro /\ oscuro \in Int /\ credito \in Nat
        /\ credito' = credito + reanuda.devuelve /\ PerdidaPorCorte' = PerdidaPorCorte
    BY <1>1, <1>2, <1>4, <2>3 DEF oscuro, credito, PerdidaPorCorte, Mayor, Numeros
  <2>5. reanuda'.pc = "programar"
    <3>1. reanuda \in Reanudacion
      BY DEF IInv, Tipos, TipoProceso
    <3> QED
      BY <1>4, <3>1 DEF Reanudacion
  <2>6. ReanudaPaga'
    BY <2>5 DEF ReanudaPaga
  <2>7. ~(luz' /\ rele') => SinNotar'
    <3>1. ultimaOrden' \in Nat /\ ultimaOrden' <= hora
      BY <1>1, <1>2 DEF ultimaOrden, Mayor, Numeros
    <3>2. ~(luz' /\ rele') => oscuro' + PerdidaPorCorte' <= credito'
      BY <1>1, <1>2, <2>2, <2>4, PerdidaAcotada DEF Numeros
    <3> QED
      BY <1>1, <1>2, <2>4, <3>1, <3>2, PerdidaAcotada DEF SinNotar, Numeros
  <2>8. motivo' = "ninguno" /\ fin' = Inicio + Duracion + Gracia + compensado'
    BY <1>1, <1>2, <1>4, <2>1, <2>2 DEF CuentaAbierta, Numeros
  <2>9. oscuro' <= credito'
    BY <1>1, <1>4, <2>1, <2>2, <2>4 DEF CuentaAbierta, Numeros
  <2>10. CuentaAbierta'
    <3>1. luz' /\ rele' => autoOff' >= fin'
      BY <1>2, <1>4, <2>2
    <3>2. hora' < fin' /\ interrumpida' = 0
      BY <1>1, <1>2, <1>4, <2>2 DEF Numeros
    <3>3. credito' \in Int
      BY <1>1, <2>1, <2>4 DEF CuentaAbierta, ReanudaPaga, Numeros
    <3>4. oscuro' <= credito' + (IF interrumpida' > 0 THEN hora' - interrumpida' ELSE 0)
      BY <2>9, <3>2, <3>3
    <3> QED
      BY <2>6, <2>7, <2>8, <3>1, <3>2, <3>4 DEF CuentaAbierta
  <2>11. LecturaAlDia'
    BY <1>1, <1>2 DEF LecturaAlDia
  <2> QED
    BY <1>1, <1>2, <1>4, <2>10, <2>11 DEF Cuenta
<1> QED
  BY <1>3, <1>4 DEF ReanudaReclama

LEMMA CuentaReanuda ==
    ASSUME IInv, Cuenta, SoloApagones, Reanuda
    PROVE  Cuenta'
<1>1. CASE ReanudaPrograma
  BY <1>1, NumerosBien, CuentaSigue DEF ReanudaPrograma, NoReanuda
<1> QED
  BY <1>1, CuentaEnciende, CuentaReclama DEF Reanuda

\* What is not one of these steps is a failure that is counted, or the start
\* of a backend that was down.
LEMMA CuentaPaso ==
    ASSUME BaseRapida, IInv, PulsoBien, Cuenta, [Next]_vars
    PROVE  Cuenta'
<1> SUFFICES ASSUME SoloApagones' PROVE Cuenta'
  BY DEF Cuenta
<1>1. Numeros
  BY NumerosBien
<1>2. SoloApagones
  BY <1>1, SinFallasAntes
<1>3. vivo /\ api
  BY <1>2 DEF Cuenta
<1>4. ~Cae /\ ~Arranca /\ ~NubeFalla
  BY <1>1, <1>2, <1>3 DEF Cae, Arranca, NubeFalla, SoloApagones, Numeros
<1>5. CASE UNCHANGED vars
  BY <1>1, <1>2, <1>5, CuentaSigue DEF vars
<1>6. CASE Entorno
  BY <1>2, <1>4, <1>6, CuentaApagon, CuentaEntorno DEF Entorno
<1>7. CASE Timers \/ Pulso \/ Parada
  BY <1>2, <1>7, CuentaTimerFin, CuentaFuera DEF Timers
<1> QED
  BY <1>2, <1>4, <1>5, <1>6, <1>7, CuentaLatido, CuentaPasa, CuentaReanuda, CuentaTic DEF Next

LEMMA Cuentas == ASSUME BaseRapida PROVE Spec => []Cuenta
<1>1. IInv /\ PulsoBien /\ Cuenta /\ [Next]_vars => Cuenta'
  BY CuentaPaso
<1> QED
  BY CuentaInicial, <1>1, Invariante, PTL DEF Spec

LEMMA CuentaDada == Cuenta => DaLoPagado /\ ValePorLoQueFalta
BY DEF Cuenta, CuentaAbierta, CuentaCerrada, DaLoPagado, ValePorLoQueFalta, SoloApagones

\* Whatever the device goes through and however often, a massage that is
\* closed as served has lasted the minutes that were paid, but for
\* PerdidaPorCorte for each loss.
THEOREM ServidoEsPagado == ASSUME BaseRapida PROVE Spec => []DaLoPagado
<1>1. Cuenta => DaLoPagado
  BY CuentaDada
<1> QED
  BY <1>1, Cuentas, PTL

\* A session that a cut closes leaves a voucher that, with the massage it
\* gave, adds up to the minutes that were paid, but for the same.
THEOREM ValeEsLoQueFalta == ASSUME BaseRapida PROVE Spec => []ValePorLoQueFalta
<1>1. Cuenta => ValePorLoQueFalta
  BY CuentaDada
<1> QED
  BY <1>1, Cuentas, PTL
=============================================================================
