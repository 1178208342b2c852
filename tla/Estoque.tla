------------------------------ MODULE Estoque ------------------------------
(***************************************************************************)
(* The balance of one SKU in the hub: CatalogoItemHub.estoque_disponivel,  *)
(* what the sales of all terminals reserve and take from it, the returns   *)
(* and receipts that add to it, and the import of the catalogue that       *)
(* overwrites it with the balance of the Central.                          *)
(*                                                                         *)
(* A terminal operation holds the lock of the hub and of the row of the    *)
(* catalogue: one step.  The import asks the Central, decides whether to   *)
(* keep the local balance, reads it without a lock and writes it: three.   *)
(* Payments are left out: they only forbid to change the items of a sale.  *)
(***************************************************************************)
EXTENDS Integers, FiniteSets, FiniteSetsExt

CONSTANTS
  VendaEst,     \* sales
  DevolEst,     \* returns
  RecebEst,     \* goods receipts, checked in the store and waiting for the Central
  NadaEst,      \* no import, no sale
  SaldoInicial, \* balance of hub and Central at the start
  QtdReceb,     \* units of a receipt
  MaxQtd,       \* bound of the model: units of an item
  CargaDurante  \* an import may deliver a document before its entry in the hub

ASSUME ConstantesEstoque ==
  /\ SaldoInicial \in Nat /\ QtdReceb \in Nat /\ MaxQtd \in Nat \ {0}
  /\ CargaDurante \in BOOLEAN
  /\ IsFiniteSet(VendaEst) /\ IsFiniteSet(DevolEst) /\ IsFiniteSet(RecebEst)
  /\ VendaEst \cap DevolEst = {} /\ (VendaEst \cup DevolEst) \cap RecebEst = {}

VARIABLES
  saldo,     \* CatalogoItemHub.estoque_disponivel
  vendavel,  \* CatalogoItemHub.vendavel
  vendaEst,  \* VendaHub and its item of the SKU
  devolEst,  \* VendaDevolucaoHub
  eventoEst, \* status of the event of each document
  entrada,   \* returns and receipts added to the balance of the hub
  central,   \* documents that the Central has processed
  carga      \* the import of the catalogue in progress

varsEstoque == <<saldo, vendavel, vendaEst, devolEst, eventoEst, entrada, central, carga>>

DocumentoEst == VendaEst \cup DevolEst \cup RecebEst
Qtd == 1..MaxQtd
LinhaVendaEst == [status : {"ABERTA", "FINALIZADA", "CANCELADA"}, qtd : 0..MaxQtd]
LinhaDevolEst == [tipo : {"NENHUMA", "LOCAL", "ONLINE"}, venda : VendaEst \cup {NadaEst}, qtd : 0..MaxQtd]
StatusEventoEst == {"NENHUM", "PENDENTE", "SINCRONIZADO", "CONFLITO"}
SemCarga == [op |-> "nenhuma"]
Carga == {SemCarga} \cup [op : {"resposta"}, docs : SUBSET DocumentoEst]
                    \cup [op : {"gravar"}, docs : SUBSET DocumentoEst, valor : Int]

TypeOKEstoque ==
  /\ saldo \in Int /\ vendavel \in BOOLEAN
  /\ vendaEst \in [VendaEst -> LinhaVendaEst]
  /\ devolEst \in [DevolEst -> LinhaDevolEst]
  /\ eventoEst \in [DocumentoEst -> StatusEventoEst]
  /\ entrada \subseteq DevolEst \cup RecebEst
  /\ central \subseteq DocumentoEst
  /\ carga \in Carga

InitEstoque ==
  /\ saldo = SaldoInicial
  /\ vendavel = (SaldoInicial > 0)
  /\ vendaEst = [v \in VendaEst |-> [status |-> "ABERTA", qtd |-> 0]]
  /\ devolEst = [d \in DevolEst |-> [tipo |-> "NENHUMA", venda |-> NadaEst, qtd |-> 0]]
  /\ eventoEst = [x \in DocumentoEst |-> IF x \in RecebEst THEN "PENDENTE" ELSE "NENHUM"]
  /\ entrada = {}
  /\ central = {}
  /\ carga = SemCarga

-----------------------------------------------------------------------------
(* Balances *)

Quantidade(x) ==
  CASE x \in VendaEst -> -vendaEst[x].qtd
    [] x \in DevolEst -> devolEst[x].qtd
    [] OTHER -> QtdReceb
Total(D) == SumFunction([x \in D |-> Quantidade(x)])

\* the Central's balance once it has processed the documents D
SaldoCom(D) == SaldoInicial + Total(D)

Com(status) == {v \in VendaEst : vendaEst[v].status = status}
Reserva == -Total(Com("ABERTA"))
Movimento == -Total(Com("FINALIZADA"))

\* calcular_disponivel_local without the sale being changed
\* mutant: without the movements of the concluded sales
MutDisponivelSem(v) == saldo - (Reserva - vendaEst[v].qtd)
DisponivelSem(v) == saldo - Movimento - (Reserva - vendaEst[v].qtd)

-----------------------------------------------------------------------------
(* Sales: adicionar_item, alterar_quantidade_item, remover_item, ... *)

AdicionarItem(v, q) ==
  /\ vendaEst[v].status = "ABERTA"
  /\ vendavel
  /\ vendaEst[v].qtd + q \in 0..MaxQtd
  /\ vendaEst[v].qtd + q <= DisponivelSem(v)
  /\ vendaEst' = [vendaEst EXCEPT ![v].qtd = @ + q]
  /\ UNCHANGED <<saldo, vendavel, devolEst, eventoEst, entrada, central, carga>>

\* only an increase is checked against the balance
AlterarQuantidade(v, q) ==
  /\ vendaEst[v].status = "ABERTA"
  /\ vendaEst[v].qtd > 0
  /\ q > vendaEst[v].qtd => vendavel /\ q <= DisponivelSem(v)
  /\ vendaEst' = [vendaEst EXCEPT ![v].qtd = q]
  /\ UNCHANGED <<saldo, vendavel, devolEst, eventoEst, entrada, central, carga>>

RemoverItem(v) ==
  /\ vendaEst[v].status = "ABERTA"
  /\ vendaEst[v].qtd > 0
  /\ vendaEst' = [vendaEst EXCEPT ![v].qtd = 0]
  /\ UNCHANGED <<saldo, vendavel, devolEst, eventoEst, entrada, central, carga>>

CancelarVendaEst(v) ==
  /\ vendaEst[v].status = "ABERTA"
  /\ vendaEst' = [vendaEst EXCEPT ![v].status = "CANCELADA"]
  /\ UNCHANGED <<saldo, vendavel, devolEst, eventoEst, entrada, central, carga>>

\* the balance may have fallen under the reservations since the item entered
FinalizarVendaEst(v) ==
  /\ vendaEst[v].status = "ABERTA"
  /\ vendaEst[v].qtd > 0
  /\ vendaEst[v].qtd <= DisponivelSem(v)
  /\ vendaEst' = [vendaEst EXCEPT ![v].status = "FINALIZADA"]
  /\ UNCHANGED <<saldo, vendavel, devolEst, eventoEst, entrada, central, carga>>

\* on_commit of a sale or of a local return; a crash before it loses the event
EnfileirarEst(x) ==
  /\ eventoEst[x] = "NENHUM"
  /\ \/ x \in Com("FINALIZADA")
     \/ x \in DevolEst /\ devolEst[x].tipo = "LOCAL"
  /\ eventoEst' = [eventoEst EXCEPT ![x] = "PENDENTE"]
  /\ UNCHANGED <<saldo, vendavel, vendaEst, devolEst, entrada, central, carga>>

-----------------------------------------------------------------------------
(* Returns *)

Devolvido(v, D) == Total({d \in D : devolEst[d].venda = v})
Locais == {d \in DevolEst : devolEst[d].tipo = "LOCAL"}

\* finalizar_devolucao_local counts the local returns of the sale only
DevolverLocal(d, v, q) ==
  /\ devolEst[d].tipo = "NENHUMA"
  /\ vendaEst[v].status = "FINALIZADA"
  /\ Devolvido(v, Locais) + q <= vendaEst[v].qtd
  /\ devolEst' = [devolEst EXCEPT ![d] = [tipo |-> "LOCAL", venda |-> v, qtd |-> q]]
  /\ saldo' = saldo + q
  /\ entrada' = entrada \cup {d}
  /\ UNCHANGED <<vendavel, vendaEst, eventoEst, central, carga>>

\* finalizar_devolucao_online: the Central validates and registers it
DevolverOnline(d, v, q) ==
  /\ devolEst[d].tipo = "NENHUMA"
  /\ v \in central
  /\ Devolvido(v, central \cap DevolEst) + q <= vendaEst[v].qtd
  /\ devolEst' = [devolEst EXCEPT ![d] = [tipo |-> "ONLINE", venda |-> v, qtd |-> q]]
  /\ central' = central \cup {d}
  /\ UNCHANGED <<saldo, vendavel, vendaEst, eventoEst, entrada, carga>>

\* _espelhar_devolucao_online, at once or when the call is repeated
\* mutant: the repeated call enters it again
MutNaoEspelhada(d) == TRUE
NaoEspelhada(d) == d \notin entrada
EspelharOnline(d) ==
  /\ devolEst[d].tipo = "ONLINE"
  /\ NaoEspelhada(d)
  /\ saldo' = saldo + devolEst[d].qtd
  /\ entrada' = entrada \cup {d}
  /\ UNCHANGED <<vendavel, vendaEst, devolEst, eventoEst, central, carga>>

-----------------------------------------------------------------------------
(* The outbox, as the balance sees it: PENDENTE, PROCESSANDO and ERRO are one *)

\* returns are sent after their sale; the Central refuses what exceeds the sale
AceitaCentral(x) ==
  x \in DevolEst =>
    Devolvido(devolEst[x].venda, central \cap DevolEst) + devolEst[x].qtd <= vendaEst[devolEst[x].venda].qtd
Enviavel(x) ==
  /\ eventoEst[x] = "PENDENTE"
  /\ x \notin central
  /\ x \in DevolEst => devolEst[x].venda \in central

CentralProcessaEst(x) ==
  /\ Enviavel(x) /\ AceitaCentral(x)
  /\ central' = central \cup {x}
  /\ UNCHANGED <<saldo, vendavel, vendaEst, devolEst, eventoEst, entrada, carga>>

RecusarEst(x) ==
  /\ Enviavel(x) /\ ~AceitaCentral(x)
  /\ eventoEst' = [eventoEst EXCEPT ![x] = "CONFLITO"]
  /\ UNCHANGED <<saldo, vendavel, vendaEst, devolEst, entrada, central, carga>>

\* of a receipt: aplicar_movimentos_recebimento_confirmado
ConfirmarEst(x) ==
  /\ eventoEst[x] = "PENDENTE"
  /\ x \in central
  /\ eventoEst' = [eventoEst EXCEPT ![x] = "SINCRONIZADO"]
  /\ IF x \in RecebEst
     THEN /\ saldo' = saldo + QtdReceb
          /\ vendavel' = (saldo + QtdReceb > 0)
          /\ entrada' = entrada \cup {x}
     ELSE UNCHANGED <<saldo, vendavel, entrada>>
  /\ UNCHANGED <<vendaEst, devolEst, central, carga>>

-----------------------------------------------------------------------------
(* sincronizar_catalogo *)

PedirCatalogo ==
  /\ carga = SemCarga
  /\ carga' = [op |-> "resposta", docs |-> central]
  /\ UNCHANGED <<saldo, vendavel, vendaEst, devolEst, eventoEst, entrada, central>>

\* _existe_evento_estoque_pendente
\* mutant: a conflict keeps the local balance too
MutExistePendente == \E x \in VendaEst \cup DevolEst : eventoEst[x] \in {"PENDENTE", "CONFLITO"}
ExistePendente == \E x \in VendaEst \cup DevolEst : eventoEst[x] = "PENDENTE"

LerCatalogo ==
  /\ carga.op = "resposta"
  /\ carga' = [op |-> "gravar", docs |-> carga.docs,
               valor |-> IF ExistePendente THEN saldo ELSE SaldoCom(carga.docs)]
  /\ UNCHANGED <<saldo, vendavel, vendaEst, devolEst, eventoEst, entrada, central>>

GravarCatalogo ==
  /\ carga.op = "gravar"
  /\ CargaDurante \/ carga.docs \cap (DevolEst \cup RecebEst) \subseteq entrada
  /\ saldo' = carga.valor
  /\ vendavel' = (carga.valor > 0)
  /\ carga' = SemCarga
  /\ UNCHANGED <<vendaEst, devolEst, eventoEst, entrada, central>>

-----------------------------------------------------------------------------
Outbox(x) == CentralProcessaEst(x) \/ RecusarEst(x) \/ ConfirmarEst(x)
Catalogo == PedirCatalogo \/ LerCatalogo \/ GravarCatalogo

VendaStep(v) ==
  \/ \E q \in Qtd : AdicionarItem(v, q) \/ AlterarQuantidade(v, q)
  \/ RemoverItem(v) \/ CancelarVendaEst(v) \/ FinalizarVendaEst(v)

DevolStep(d) ==
  \/ \E v \in VendaEst, q \in Qtd : DevolverLocal(d, v, q) \/ DevolverOnline(d, v, q)
  \/ EspelharOnline(d)

NextEstoque ==
  \/ \E v \in VendaEst : VendaStep(v)
  \/ \E d \in DevolEst : DevolStep(d)
  \/ \E x \in DocumentoEst : EnfileirarEst(x) \/ Outbox(x)
  \/ Catalogo

\* The worker sends and imports for ever; no fairness for the operators.  The
\* on_commit of a committed document runs: after a crash before it the event of
\* a sale is lost, its returns wait for ever and no balance is imported again.
JustoEstoque ==
  /\ \A x \in DocumentoEst : WF_varsEstoque(EnfileirarEst(x)) /\ WF_varsEstoque(Outbox(x))
  /\ WF_varsEstoque(Catalogo)
SpecEstoque == InitEstoque /\ [][NextEstoque]_varsEstoque

-----------------------------------------------------------------------------
(* Properties *)

\* What is in the store: sales out, returns in, receipts in when they were
\* checked.  An online return is in the store when the Central accepted it.
Fisico == SaldoInicial - Movimento + Total(DevolEst) + Total(RecebEst)

\* The store never sells what it does not have, whatever the terminals, the
\* returns and an import that overwrites the balance do meanwhile
\* (vendas.py validar_disponibilidade and finalizar_venda, catalogo.py
\* sincronizar_catalogo).
SemVendaAlem == Fisico >= 0

\* The balance of the hub follows the Central's: when nobody sells and returns
\* any more, imports end up writing it (sincronizar_catalogo, and
\* _existe_evento_estoque_pendente that postpones it).
SaldoConverge == JustoEstoque => <>[](saldo = SaldoCom(central))
============================================================================
