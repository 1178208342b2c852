---------------------------- MODULE Recebimento ----------------------------
(***************************************************************************)
(* Goods receipts of the store: imported by the worker in a list and then  *)
(* one by one with their items, checked by an operator, told to the        *)
(* Central by an event of the outbox, entered in the stock when the        *)
(* Central confirms it (core/services/recebimentos.py,                     *)
(* integracao/services/recebimentos.py, and of sync.py the handlers).      *)
(* A receipt is an origin and the identifier the Central gives it there.   *)
(***************************************************************************)
EXTENDS Naturals

CONSTANTS
  Receb,       \* receipts: a subset of OrigemRec \X identifiers
  ChamadorRec, \* callers of the outbox
  MaxVersao    \* bound of the model: the version of the items that ends the changes

OrigemRec == {"LOJA", "DISTRIBUICAO"}
ASSUME ConstantesRecebimento ==
  /\ \A r \in Receb : r[1] \in OrigemRec
  /\ MaxVersao \in Nat \ {0}

VARIABLES
  centralRec, \* at the Central: status and version of the items
  receb,      \* RecebimentoMercadoriaHub, version of its items and of those checked
  movRec,     \* RecebimentoMercadoriaMovimentoEstoqueHub of its items
  entradas,   \* times its items were added to the stock
  recente,    \* the row received last (recebido_central_em) of each identifier
  leitura,    \* answer of the Central that the worker is about to store
  eventoRec,  \* its event in the outbox
  chamadaRec  \* answer a caller of the outbox is about to handle

varsRecebimento == <<centralRec, receb, movRec, entradas, recente, leitura, eventoRec, chamadaRec>>

Versao == 0..MaxVersao
Remoto == {"ABERTO", "EM_CONFERENCIA", "CONCLUIDO", "CANCELADO"}
SemLeitura == [op |-> "nenhuma"]
Leitura == {SemLeitura} \cup [op : {"lista", "detalhe"}, rec : Receb, remoto : Remoto, versao : Versao]
SemChamada == [op |-> "nenhuma"]
Chamada == {SemChamada} \cup [op : {"confirmado", "conflito", "erro", "rejeitado"}, rec : Receb]

TypeOKRecebimento ==
  /\ centralRec \in [Receb -> [status : Remoto, versao : Versao]]
  /\ receb \in [Receb -> [local : {"AUSENTE", "PENDENTE", "CONFERIDO", "SINCRONIZADO", "CONFLITO"},
                          remoto : Remoto, itens : Versao, conferidos : Versao]]
  /\ movRec \in [Receb -> {"NENHUM", "PENDENTE", "APLICADO", "REJEITADO"}]
  /\ entradas \in [Receb -> Nat]
  /\ recente \subseteq Receb
  /\ leitura \in Leitura
  /\ eventoRec \in [Receb -> {"NENHUM", "PENDENTE", "SINCRONIZADO", "CONFLITO"}]
  /\ chamadaRec \in [ChamadorRec -> Chamada]

\* version 0 stands for no items
InitRecebimento ==
  /\ centralRec = [r \in Receb |-> [status |-> "ABERTO", versao |-> 1]]
  /\ receb = [r \in Receb |-> [local |-> "AUSENTE", remoto |-> "ABERTO", itens |-> 0, conferidos |-> 0]]
  /\ movRec = [r \in Receb |-> "NENHUM"]
  /\ entradas = [r \in Receb |-> 0]
  /\ recente = {}
  /\ leitura = SemLeitura
  /\ eventoRec = [r \in Receb |-> "NENHUM"]
  /\ chamadaRec = [c \in ChamadorRec |-> SemChamada]

-----------------------------------------------------------------------------
(* The Central *)

ConferenciaNaCentral(r) ==
  /\ centralRec[r].status = "ABERTO"
  /\ centralRec' = [centralRec EXCEPT ![r].status = "EM_CONFERENCIA"]
  /\ UNCHANGED <<receb, movRec, entradas, recente, leitura, eventoRec, chamadaRec>>

AlterarNaCentral(r) ==
  /\ centralRec[r].status \in {"ABERTO", "EM_CONFERENCIA"}
  /\ \/ /\ \A x \in Receb : centralRec[x].versao < MaxVersao
        /\ centralRec' = [centralRec EXCEPT ![r].versao = @ + 1]
     \/ centralRec' = [centralRec EXCEPT ![r].status = "CANCELADO"]
  /\ UNCHANGED <<receb, movRec, entradas, recente, leitura, eventoRec, chamadaRec>>

-----------------------------------------------------------------------------
(* Import: _sincronizar_lista, sincronizar_recebimento_detalhe *)

Ler(op, r) == [op |-> op, rec |-> r, remoto |-> centralRec[r].status, versao |-> centralRec[r].versao]

PedirLista(r) ==
  /\ leitura = SemLeitura
  /\ leitura' = Ler("lista", r)
  /\ UNCHANGED <<centralRec, receb, movRec, entradas, recente, eventoRec, chamadaRec>>

MesmoId(r) == {x \in Receb : x[2] = r[2]}
Recebida(r) == recente' = (recente \ MesmoId(r)) \cup {r}

\* the detail is asked for when the row was PENDENTE, and stored later
GravarLista ==
  /\ leitura.op = "lista"
  /\ LET r == leitura.rec IN
       /\ receb' = [receb EXCEPT ![r].remoto = leitura.remoto,
                                 ![r].local = IF @ = "AUSENTE" THEN "PENDENTE" ELSE @]
       /\ leitura' = IF receb'[r].local = "PENDENTE" THEN Ler("detalhe", r) ELSE SemLeitura
       /\ Recebida(r)
  /\ UNCHANGED <<centralRec, movRec, entradas, eventoRec, chamadaRec>>

\* mutant: the items are replaced without looking at the status again
MutTrocaItens(r) == TRUE
TrocaItens(r) == receb[r].local = "PENDENTE"

GravarDetalhe ==
  /\ leitura.op = "detalhe"
  /\ LET r == leitura.rec IN
       /\ receb' = [receb EXCEPT ![r].remoto = leitura.remoto,
                                 ![r].itens = IF TrocaItens(r) THEN leitura.versao ELSE @]
       /\ Recebida(r)
  /\ leitura' = SemLeitura
  /\ UNCHANGED <<centralRec, movRec, entradas, eventoRec, chamadaRec>>

\* the worker stops, or the request for the detail fails
PerderLeitura ==
  /\ leitura # SemLeitura
  /\ leitura' = SemLeitura
  /\ UNCHANGED <<centralRec, receb, movRec, entradas, recente, eventoRec, chamadaRec>>

-----------------------------------------------------------------------------
(* Checking in the store: the operator counts the items that were on the   *)
(* screen.  Movement and event are written in the same transaction.        *)

\* _normalizar_itens_conferencia: the count names every item of the receipt and
\* no other
ContagemCompleta(r, v) == v = receb[r].itens

\* one movement for each item
RegistrarMovimentos(r) == movRec' = [movRec EXCEPT ![r] = IF @ = "NENHUM" THEN "PENDENTE" ELSE @]
EnfileirarRecebimento(r) == eventoRec' = [eventoRec EXCEPT ![r] = "PENDENTE"]

FinalizarRecebimento(r, v) ==
  /\ receb[r].local = "PENDENTE"
  /\ receb[r].remoto = "EM_CONFERENCIA"
  /\ receb[r].itens > 0
  /\ ContagemCompleta(r, v)
  /\ receb' = [receb EXCEPT ![r].local = "CONFERIDO", ![r].conferidos = v]
  /\ RegistrarMovimentos(r)
  /\ EnfileirarRecebimento(r)
  /\ UNCHANGED <<centralRec, entradas, recente, leitura, chamadaRec>>

-----------------------------------------------------------------------------
(* Outbox *)

\* the Central answers the same to every request for the event it processed
Responder(r) ==
  IF centralRec[r].status \in {"EM_CONFERENCIA", "CONCLUIDO"} THEN "confirmado" ELSE "conflito"

\* the answer is lost, or the request never arrives
\* mutants: taken for a confirmation; taken for a conflict
MutSemRespostaConfirma == "confirmado"
MutSemRespostaConflito == "conflito"
SemResposta == "erro"

EnviarRec(c, r) ==
  /\ chamadaRec[c] = SemChamada
  /\ eventoRec[r] = "PENDENTE"
  /\ \/ /\ chamadaRec' = [chamadaRec EXCEPT ![c] = [op |-> Responder(r), rec |-> r]]
        /\ centralRec' = [centralRec EXCEPT ![r].status = IF @ = "EM_CONFERENCIA" THEN "CONCLUIDO" ELSE @]
     \/ /\ chamadaRec' = [chamadaRec EXCEPT ![c] = [op |-> SemResposta, rec |-> r]]
        /\ \/ centralRec' = [centralRec EXCEPT ![r].status = IF @ = "EM_CONFERENCIA" THEN "CONCLUIDO" ELSE @]
           \/ UNCHANGED centralRec
  /\ UNCHANGED <<receb, movRec, entradas, recente, leitura, eventoRec>>

\* _marcar_retry saves the status without looking at it
RetryRec(c) ==
  /\ chamadaRec[c].op = "erro"
  /\ eventoRec' = [eventoRec EXCEPT ![chamadaRec[c].rec] = "PENDENTE"]
  /\ chamadaRec' = [chamadaRec EXCEPT ![c] = SemChamada]
  /\ UNCHANGED <<centralRec, receb, movRec, entradas, recente, leitura>>

\* the row that the event of r confirms: distributions are searched with
\* their origin, the others by identifier alone, the last received first
LinhaDoEvento(r) ==
  IF r[1] = "DISTRIBUICAO" THEN r ELSE CHOOSE x \in MesmoId(r) : x \in recente

\* mutant: the movements are applied again
MutAplica(x) == movRec[x] \in {"PENDENTE", "APLICADO"}
Aplica(x) == movRec[x] = "PENDENTE"

MarcarConfirmado(x) ==
  receb' = [receb EXCEPT ![x].local = "SINCRONIZADO", ![x].remoto = "CONCLUIDO"]

ConfirmarRec(c) ==
  /\ chamadaRec[c].op = "confirmado"
  /\ LET r == chamadaRec[c].rec
         x == LinhaDoEvento(r) IN
       /\ IF Aplica(x)
          THEN /\ movRec' = [movRec EXCEPT ![x] = "APLICADO"]
               /\ entradas' = [entradas EXCEPT ![x] = @ + 1]
          ELSE UNCHANGED <<movRec, entradas>>
       /\ MarcarConfirmado(x)
       /\ eventoRec' = [eventoRec EXCEPT ![r] = "SINCRONIZADO"]
  /\ chamadaRec' = [chamadaRec EXCEPT ![c] = SemChamada]
  /\ UNCHANGED <<centralRec, recente, leitura>>

RejeitarMovimentos(x) == movRec' = [movRec EXCEPT ![x] = IF @ = "PENDENTE" THEN "REJEITADO" ELSE @]

\* the receipt first, then the event, in separate transactions
RejeitarRec(c) ==
  /\ chamadaRec[c].op = "conflito"
  /\ LET x == LinhaDoEvento(chamadaRec[c].rec) IN
       /\ RejeitarMovimentos(x)
       /\ receb' = [receb EXCEPT ![x].local = "CONFLITO"]
  /\ chamadaRec' = [chamadaRec EXCEPT ![c].op = "rejeitado"]
  /\ UNCHANGED <<centralRec, entradas, recente, leitura, eventoRec>>

ConflitoRec(c) ==
  /\ chamadaRec[c].op = "rejeitado"
  /\ eventoRec' = [eventoRec EXCEPT ![chamadaRec[c].rec] = "CONFLITO"]
  /\ chamadaRec' = [chamadaRec EXCEPT ![c] = SemChamada]
  /\ UNCHANGED <<centralRec, receb, movRec, entradas, recente, leitura>>

\* the hub stops; the event, in PROCESSANDO, is taken again
CairRec(c) ==
  /\ chamadaRec[c] # SemChamada
  /\ chamadaRec' = [chamadaRec EXCEPT ![c] = SemChamada]
  /\ UNCHANGED <<centralRec, receb, movRec, entradas, recente, leitura, eventoRec>>

-----------------------------------------------------------------------------
ImportarRec == (\E r \in Receb : PedirLista(r)) \/ GravarLista \/ GravarDetalhe
Tratar(c) == RetryRec(c) \/ ConfirmarRec(c) \/ RejeitarRec(c) \/ ConflitoRec(c)

NextRecebimento ==
  \/ \E r \in Receb : ConferenciaNaCentral(r) \/ AlterarNaCentral(r)
                       \/ \E v \in Versao \ {0} : FinalizarRecebimento(r, v)
  \/ ImportarRec \/ PerderLeitura
  \/ \E c \in ChamadorRec : Tratar(c) \/ CairRec(c) \/ \E r \in Receb : EnviarRec(c, r)
SpecRecebimento == InitRecebimento /\ [][NextRecebimento]_varsRecebimento

-----------------------------------------------------------------------------
(* Properties *)

\* The items of a receipt are entered in the stock once at most, although two
\* callers may handle two confirmations of its event and an error answered
\* late takes a confirmed event back (aplicar_movimentos_recebimento_confirmado).
EntradaUmaVez == \A r \in Receb : entradas[r] <= 1

\* What was counted is what the receipt holds: a detail of the Central that
\* was asked for before the count and arrives after it changes no item
\* (atualizar_recebimento_por_payload, finalizar_recebimento).
ItensConferidos ==
  \A r \in Receb : receb[r].conferidos # 0 => receb[r].itens = receb[r].conferidos

\* Only the Central's confirmation of the receipt itself enters it in the stock
\* and ends it (_marcar_recebimento_confirmado).
EntradaConfirmada ==
  \A r \in Receb : entradas[r] > 0 \/ receb[r].local = "SINCRONIZADO" =>
    centralRec[r].status = "CONCLUIDO" /\ receb[r].conferidos # 0

\* A receipt that the Central processed is never rejected in the store, nor the
\* other way round.
SemDesencontro ==
  \A r \in Receb : /\ receb[r].local = "SINCRONIZADO" => entradas[r] = 1
                   /\ movRec[r] = "REJEITADO" => centralRec[r].status # "CONCLUIDO"

\* What enters the stock is the receipt that was counted, once, and the store and
\* the Central agree on its end (recebimentos.py finalizar_recebimento,
\* aplicar_movimentos_recebimento_confirmado, sync.py
\* _marcar_recebimento_em_conflito).
EntradaFiel == EntradaUmaVez /\ ItensConferidos /\ SemDesencontro
============================================================================
