--------------------------- MODULE MCRecebimento ---------------------------
(* Receipts of the two origins that the Central gives the same identifier. *)
EXTENDS Recebimento

MCRecebMesmoId == {<<"LOJA", 1>>, <<"DISTRIBUICAO", 1>>}

============================================================================
