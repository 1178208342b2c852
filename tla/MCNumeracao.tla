---------------------------- MODULE MCNumeracao ----------------------------
(* The instances of Numeracao that TLC checks. *)
EXTENDS Numeracao, TLC

CONSTANTS h1, h2, t1, t2, worker, comando, l1, l2

\* every hub is activated for the first store
MCLojaInicial == [h \in Hub |-> l1]

Simetria == Permutations(Hub) \cup Permutations(Terminal) \cup Permutations(Repositor)

============================================================================
