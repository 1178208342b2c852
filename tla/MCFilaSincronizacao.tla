------------------------ MODULE MCFilaSincronizacao ------------------------
(* The instances of FilaSincronizacao that TLC checks. *)
EXTENDS FilaSincronizacao, TLC

CONSTANTS v1, v2, v3, d1, d2, n1, worker, manual, comando

\* every NFC-e version is of the first sale
MCVendaDaNota == [n \in Nota |-> v1]

Simetria == Permutations(Venda)

============================================================================
