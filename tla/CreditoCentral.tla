--------------------------- MODULE CreditoCentral ---------------------------
(***************************************************************************)
(* What the store and the Central together promise about the credit of a   *)
(* return, whatever queue carries the facts: a credit is consumed by one   *)
(* sale at most, and only before the Central knows of the return; the      *)
(* Central learns of a return once, with the use that was made of its      *)
(* credit; and it settles a sale only after the returns whose credit the   *)
(* sale consumed.                                                          *)
(***************************************************************************)
CONSTANTS Venda, Devolucao, Nenhuma, Nada

VARIABLES
  consumo,    \* the sale that consumed the credit of a return
  credito,    \* what the Central knows of a return: its consumption, or Nada
  liquidada   \* the sales the Central has settled

vars == <<consumo, credito, liquidada>>

Init ==
  /\ consumo = [d \in Devolucao |-> Nenhuma]
  /\ credito = [d \in Devolucao |-> Nada]
  /\ liquidada = {}

\* a sale is concluded and consumes the credits of the returns in D
Consumir(v, D) ==
  /\ v \notin liquidada
  /\ \A d \in D : consumo[d] = Nenhuma /\ credito[d] = Nada
  /\ consumo' = [d \in Devolucao |-> IF d \in D THEN v ELSE consumo[d]]
  /\ UNCHANGED <<credito, liquidada>>

Materializar(d) ==
  /\ credito[d] = Nada
  /\ credito' = [credito EXCEPT ![d] = consumo[d]]
  /\ UNCHANGED <<consumo, liquidada>>

Liquidar(v) ==
  /\ v \notin liquidada
  /\ \A d \in Devolucao : consumo[d] = v => credito[d] = v
  /\ liquidada' = liquidada \cup {v}
  /\ UNCHANGED <<consumo, credito>>

Next ==
  \/ \E v \in Venda : Liquidar(v) \/ \E D \in SUBSET Devolucao : Consumir(v, D)
  \/ \E d \in Devolucao : Materializar(d)

Spec == Init /\ [][Next]_vars

=============================================================================
