------------------------------- MODULE Cobros -------------------------------
(***************************************************************************)
(* What PagosService promises, without calls in flight, rows or statuses:  *)
(* the life of a payment as its customer and the owner see it.  A payment  *)
(* that was made is taken once, to hand over what it bought or to be       *)
(* reviewed; what it bought is given once, and a turn to one payment only; *)
(* the owner resolves a review once, and a resolution by voucher issues    *)
(* one.  Pagos implements it (Pagos!ImplementaCobros).                     *)
(***************************************************************************)
CONSTANTS
    Pago,   \* payments
    Turno   \* what one payment only can buy

VARIABLES
    ref,      \* what each payment is for
    pagados,  \* the payments that have been made
    entrega,  \* "nada", "tomado" to hand it over, or "dado"
    lista,    \* "fuera" of the owner's list, "en_lista", or how it was resolved
    conVale   \* the payments a voucher was issued for

vars == <<ref, pagados, entrega, lista, conVale>>

Resoluciones == {"emitir_vale", "marcar_reembolsado", "ignorar"}

Init ==
    /\ pagados = {}
    /\ entrega = [p \in Pago |-> "nada"]
    /\ lista = [p \in Pago |-> "fuera"]
    /\ conVale = {}

Pagar(p) ==
    /\ p \notin pagados
    /\ pagados' = pagados \cup {p}
    /\ UNCHANGED <<ref, entrega, lista, conVale>>

\* One notification among all of them takes the payment.
Tomar(p) ==
    /\ p \in pagados /\ entrega[p] = "nada" /\ lista[p] = "fuera"
    /\ entrega' = [entrega EXCEPT ![p] = "tomado"]
    /\ UNCHANGED <<ref, pagados, lista, conVale>>

\* The chair runs, or the turn is in the queue.
Dar(p) ==
    /\ entrega[p] = "tomado"
    /\ ref[p] \in Turno => \A q \in Pago : ref[q] = ref[p] => entrega[q] # "dado"
    /\ entrega' = [entrega EXCEPT ![p] = "dado"]
    /\ UNCHANGED <<ref, pagados, lista, conVale>>

\* The payment could not be handed over, or was refunded.
Derivar(p) ==
    /\ p \in pagados /\ lista[p] = "fuera"
    /\ lista' = [lista EXCEPT ![p] = "en_lista"]
    /\ UNCHANGED <<ref, pagados, entrega, conVale>>

Resolver(p, a) ==
    /\ lista[p] = "en_lista"
    /\ lista' = [lista EXCEPT ![p] = a]
    /\ UNCHANGED <<ref, pagados, entrega, conVale>>

Emitir(p) ==
    /\ lista[p] = "emitir_vale" /\ p \notin conVale
    /\ conVale' = conVale \cup {p}
    /\ UNCHANGED <<ref, pagados, entrega, lista>>

Next ==
    \E p \in Pago :
        \/ Pagar(p) \/ Tomar(p) \/ Dar(p) \/ Derivar(p) \/ Emitir(p)
        \/ \E a \in Resoluciones : Resolver(p, a)

Spec == Init /\ [][Next]_vars
=============================================================================
