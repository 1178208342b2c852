-------------------------- MODULE Recebimento_proofs --------------------------
(***************************************************************************)
(* Proofs about Recebimento, for any receipts whose identifiers at the     *)
(* Central tell them apart, any callers of the outbox and any number of    *)
(* changes of the items at the Central.                                    *)
(*                                                                         *)
(* The hub acts on what it was told some time ago.  The invariant says     *)
(* which part of that can not become false: a receipt that was once in     *)
(* EM_CONFERENCIA is never ABERTO again, CONCLUIDO and CANCELADO are final *)
(* (Fim, Resposta), and a counted receipt keeps its items (Contado).       *)
(***************************************************************************)
EXTENDS Recebimento, TLAPS

\* the hypothesis of the theorems: without it the confirmation of one receipt
\* may find the row of another
IdsDistintos == \A r, x \in Receb : r[2] = x[2] => r = x

-----------------------------------------------------------------------------
(* The types *)

LinhaRec == [local : {"AUSENTE", "PENDENTE", "CONFERIDO", "SINCRONIZADO", "CONFLITO"},
             remoto : Remoto, itens : Versao, conferidos : Versao]

LEMMA TiposDeLeitura ==
  ASSUME NEW l \in Leitura
  PROVE  /\ l.op \in {"nenhuma", "lista", "detalhe"}
         /\ l.op # "nenhuma" => l.rec \in Receb /\ l.remoto \in Remoto /\ l.versao \in Versao
         /\ l.op = "nenhuma" => l = SemLeitura
  BY DEF Leitura, SemLeitura

LEMMA TiposDeChamada ==
  ASSUME NEW k \in Chamada
  PROVE  /\ k.op \in {"nenhuma", "confirmado", "conflito", "erro", "rejeitado"}
         /\ k.op # "nenhuma" => k.rec \in Receb
         /\ k.op = "nenhuma" => k = SemChamada
  BY DEF Chamada, SemChamada

\* the Central's statuses only go forward
Avanca(a, b) ==
  /\ b = "ABERTO" => a = "ABERTO"
  /\ a = "CONCLUIDO" => b = "CONCLUIDO"
  /\ a = "CANCELADO" => b = "CANCELADO"

LEMMA CentralAvanca ==
  ASSUME TypeOKRecebimento, NextRecebimento
  PROVE  \A r \in Receb : Avanca(centralRec[r].status, centralRec'[r].status)
<1> USE DEF TypeOKRecebimento, Avanca
<1>1. ASSUME NEW r \in Receb, ConferenciaNaCentral(r) \/ AlterarNaCentral(r)
      PROVE  \A x \in Receb : Avanca(centralRec[x].status, centralRec'[x].status)
  <2>1. CASE ConferenciaNaCentral(r)
    BY <2>1 DEF ConferenciaNaCentral
  <2>2. CASE AlterarNaCentral(r)
    <3>1. CASE centralRec' = [centralRec EXCEPT ![r].versao = @ + 1]
      BY <3>1
    <3>2. CASE /\ centralRec[r].status \in {"ABERTO", "EM_CONFERENCIA"}
               /\ centralRec' = [centralRec EXCEPT ![r].status = "CANCELADO"]
      BY <3>2
    <3>3. QED
      BY <2>2, <3>1, <3>2 DEF AlterarNaCentral
  <2>3. QED
    BY <1>1, <2>1, <2>2
<1>2. ASSUME NEW c \in ChamadorRec, NEW r \in Receb, EnviarRec(c, r)
      PROVE  \A x \in Receb : Avanca(centralRec[x].status, centralRec'[x].status)
  <2>1. CASE centralRec' = [centralRec EXCEPT ![r].status = IF @ = "EM_CONFERENCIA" THEN "CONCLUIDO" ELSE @]
    BY <2>1
  <2>2. QED
    BY <1>2, <2>1 DEF EnviarRec
<1>3. ASSUME UNCHANGED centralRec
      PROVE  \A x \in Receb : Avanca(centralRec[x].status, centralRec'[x].status)
  BY <1>3
<1>4. QED
  BY <1>1, <1>2, <1>3 DEF NextRecebimento, ImportarRec, Tratar, PedirLista, GravarLista, GravarDetalhe,
     PerderLeitura, FinalizarRecebimento, RetryRec, ConfirmarRec, RejeitarRec, ConflitoRec, CairRec

-----------------------------------------------------------------------------
(* The invariant *)

\* a row the hub stores is the last received of its identifier
Vista(r) == receb[r].local # "AUSENTE" => r \in recente

\* before the count nothing was written or sent; after it the items are those
\* counted, and the Central had started the checking
Contado(r) ==
  /\ receb[r].remoto # "ABERTO" => centralRec[r].status # "ABERTO"
  /\ receb[r].local \in {"AUSENTE", "PENDENTE"} =>
       receb[r].conferidos = 0 /\ movRec[r] = "NENHUM" /\ eventoRec[r] = "NENHUM"
  /\ receb[r].local \notin {"AUSENTE", "PENDENTE"} =>
       /\ receb[r].conferidos # 0 /\ receb[r].itens = receb[r].conferidos
       /\ movRec[r] # "NENHUM" /\ centralRec[r].status # "ABERTO"

\* the movement tells how often the items were entered, and how the receipt ended
Fim(r) ==
  /\ entradas[r] = IF movRec[r] = "APLICADO" THEN 1 ELSE 0
  /\ movRec[r] = "APLICADO" => centralRec[r].status = "CONCLUIDO"
  /\ movRec[r] = "REJEITADO" => centralRec[r].status = "CANCELADO"
  /\ receb[r].local = "SINCRONIZADO" => movRec[r] = "APLICADO"

\* what was read of the Central, and what it answered, was true and is final
Lida == leitura.op # "nenhuma" /\ leitura.remoto # "ABERTO" => centralRec[leitura.rec].status # "ABERTO"
Resposta(c) ==
  chamadaRec[c].op # "nenhuma" =>
    /\ eventoRec[chamadaRec[c].rec] # "NENHUM"
    /\ chamadaRec[c].op = "confirmado" => centralRec[chamadaRec[c].rec].status = "CONCLUIDO"
    /\ chamadaRec[c].op \in {"conflito", "rejeitado"} => centralRec[chamadaRec[c].rec].status = "CANCELADO"

InvRecebimento ==
  /\ TypeOKRecebimento
  /\ \A r \in Receb : Vista(r) /\ Contado(r) /\ Fim(r)
  /\ Lida
  /\ \A c \in ChamadorRec : Resposta(c)

-----------------------------------------------------------------------------
(* Types *)

LEMMA TipoInicialRec == InitRecebimento => TypeOKRecebimento
  BY ConstantesRecebimento DEF InitRecebimento, TypeOKRecebimento, Remoto, Versao, Leitura, Chamada

\* the Central's steps
LEMMA TipoCentral ==
  ASSUME TypeOKRecebimento, NEW r \in Receb, ConferenciaNaCentral(r) \/ AlterarNaCentral(r)
  PROVE  TypeOKRecebimento'
<1> USE DEF TypeOKRecebimento
<1>1. CASE ConferenciaNaCentral(r)
  BY <1>1 DEF ConferenciaNaCentral, Remoto
<1>2. CASE AlterarNaCentral(r)
  <2>1. CASE /\ centralRec[r].versao < MaxVersao
             /\ centralRec' = [centralRec EXCEPT ![r].versao = @ + 1]
    <3>1. centralRec[r].versao + 1 \in Versao
      BY <2>1, ConstantesRecebimento DEF Versao
    <3>2. QED
      BY <1>2, <2>1, <3>1 DEF AlterarNaCentral
  <2>2. CASE centralRec' = [centralRec EXCEPT ![r].status = "CANCELADO"]
    BY <1>2, <2>2 DEF AlterarNaCentral, Remoto
  <2>3. QED
    BY <1>2, <2>1, <2>2 DEF AlterarNaCentral
<1>3. QED
  BY <1>1, <1>2

\* the import and the count
LEMMA TipoLoja ==
  ASSUME TypeOKRecebimento,
         ImportarRec \/ PerderLeitura \/ \E r \in Receb, v \in Versao \ {0} : FinalizarRecebimento(r, v)
  PROVE  TypeOKRecebimento'
<1> USE DEF TypeOKRecebimento
<1>1. ASSUME NEW r \in Receb, NEW op \in {"lista", "detalhe"} PROVE Ler(op, r) \in Leitura
  BY <1>1 DEF Ler, Leitura
<1>2. ASSUME NEW r \in Receb, PedirLista(r) PROVE TypeOKRecebimento'
  BY <1>2, <1>1 DEF PedirLista
<1>3. CASE GravarLista
  <2> DEFINE r == leitura.rec
             l == [receb[r] EXCEPT !.remoto = leitura.remoto, !.local = IF @ = "AUSENTE" THEN "PENDENTE" ELSE @]
  <2>1. r \in Receb /\ leitura.remoto \in Remoto
    BY <1>3, TiposDeLeitura DEF GravarLista
  <2>2. l \in LinhaRec
    <3>1. receb[r] \in LinhaRec
      BY <2>1 DEF LinhaRec
    <3>2. ASSUME NEW x \in LinhaRec, NEW m \in Remoto
          PROVE  [x EXCEPT !.remoto = m, !.local = IF @ = "AUSENTE" THEN "PENDENTE" ELSE @] \in LinhaRec
      BY DEF LinhaRec
    <3>3. QED
      BY <2>1, <3>1, <3>2
  <2>3. receb' = [receb EXCEPT ![r] = l]
    BY <1>3, <2>1 DEF GravarLista
  <2>4. leitura' \in Leitura
    BY <1>3, <1>1, <2>1 DEF GravarLista, Leitura
  <2>5. recente' \subseteq Receb
    BY <1>3, <2>1 DEF GravarLista, Recebida
  <2> HIDE DEF l
  <2>6. QED
    BY <1>3, <2>1, <2>2, <2>3, <2>4, <2>5 DEF GravarLista, LinhaRec
<1>4. CASE GravarDetalhe
  <2> DEFINE r == leitura.rec
             l == [receb[r] EXCEPT !.remoto = leitura.remoto,
                                   !.itens = IF TrocaItens(r) THEN leitura.versao ELSE @]
  <2>1. r \in Receb /\ leitura.remoto \in Remoto /\ leitura.versao \in Versao
    BY <1>4, TiposDeLeitura DEF GravarDetalhe
  <2>2. l \in LinhaRec
    BY <2>1 DEF LinhaRec
  <2>3. receb' = [receb EXCEPT ![r] = l]
    BY <1>4, <2>1 DEF GravarDetalhe
  <2>4. recente' \subseteq Receb
    BY <1>4, <2>1 DEF GravarDetalhe, Recebida
  <2> HIDE DEF l
  <2>5. QED
    BY <1>4, <2>1, <2>2, <2>3, <2>4 DEF GravarDetalhe, LinhaRec, Leitura
<1>5. CASE PerderLeitura
  BY <1>5 DEF PerderLeitura, Leitura
<1>6. ASSUME NEW r \in Receb, NEW v \in Versao, FinalizarRecebimento(r, v) PROVE TypeOKRecebimento'
  <2> DEFINE l == [receb[r] EXCEPT !.local = "CONFERIDO", !.conferidos = v]
  <2>1. l \in LinhaRec
    BY DEF LinhaRec
  <2>2. receb' = [receb EXCEPT ![r] = l]
    BY <1>6 DEF FinalizarRecebimento
  <2>3. movRec' \in [Receb -> {"NENHUM", "PENDENTE", "APLICADO", "REJEITADO"}]
    BY <1>6 DEF FinalizarRecebimento, RegistrarMovimentos
  <2>4. eventoRec' \in [Receb -> {"NENHUM", "PENDENTE", "SINCRONIZADO", "CONFLITO"}]
    BY <1>6 DEF FinalizarRecebimento, EnfileirarRecebimento
  <2>5. receb' \in [Receb -> LinhaRec]
    BY <2>1, <2>2 DEF LinhaRec
  <2>6. QED
    BY <1>6, <2>3, <2>4, <2>5 DEF FinalizarRecebimento, LinhaRec
<1>7. QED
  BY <1>2, <1>3, <1>4, <1>5, <1>6 DEF ImportarRec

\* the outbox; with distinct identifiers the row that is searched is a receipt
LEMMA LinhaPropria ==
  ASSUME IdsDistintos, NEW r \in Receb, Vista(r), receb[r].local # "AUSENTE"
  PROVE  LinhaDoEvento(r) = r
<1>1. MesmoId(r) = {r}
  BY DEF IdsDistintos, MesmoId
<1>2. QED
  BY <1>1 DEF LinhaDoEvento, Vista

LEMMA TipoFila ==
  ASSUME TypeOKRecebimento, NEW c \in ChamadorRec, NEW r \in Receb, EnviarRec(c, r)
  PROVE  TypeOKRecebimento'
<1> USE DEF TypeOKRecebimento
<1>1. centralRec' \in [Receb -> [status : Remoto, versao : Versao]]
  <2>1. CASE centralRec' = [centralRec EXCEPT ![r].status = IF @ = "EM_CONFERENCIA" THEN "CONCLUIDO" ELSE @]
    BY <2>1 DEF Remoto
  <2>2. QED
    BY <2>1 DEF EnviarRec
<1>2. \A k \in {Responder(r), SemResposta} : [op |-> k, rec |-> r] \in Chamada
  BY DEF Chamada, Responder, SemResposta
<1>3. QED
  BY <1>1, <1>2 DEF EnviarRec

\* whatever row the event finds
LEMMA TipoTratar ==
  ASSUME TypeOKRecebimento, NEW c \in ChamadorRec, Tratar(c) \/ CairRec(c)
  PROVE  TypeOKRecebimento'
<1> USE DEF TypeOKRecebimento
<1>1. [chamadaRec EXCEPT ![c] = SemChamada] \in [ChamadorRec -> Chamada]
  BY DEF Chamada
<1>2. ASSUME NEW r, NEW s \in {"PENDENTE", "SINCRONIZADO", "CONFLITO"}
      PROVE  [eventoRec EXCEPT ![r] = s] \in [Receb -> {"NENHUM", "PENDENTE", "SINCRONIZADO", "CONFLITO"}]
  OBVIOUS
<1>3. ASSUME NEW x PROVE [receb EXCEPT ![x].local = "CONFLITO"] \in [Receb -> LinhaRec]
  BY DEF LinhaRec
<1>4. CASE RetryRec(c)
  BY <1>1, <1>2, <1>4 DEF RetryRec
<1>5. CASE ConfirmarRec(c)
  <2> DEFINE x == LinhaDoEvento(chamadaRec[c].rec)
  <2>1. MarcarConfirmado(x) /\ UNCHANGED <<centralRec, recente, leitura>>
    BY <1>5 DEF ConfirmarRec
  <2>2. receb' \in [Receb -> LinhaRec]
    <3>1. ASSUME NEW l \in LinhaRec
          PROVE  [l EXCEPT !.local = "SINCRONIZADO", !.remoto = "CONCLUIDO"] \in LinhaRec
      BY DEF LinhaRec, Remoto
    <3>2. receb \in [Receb -> LinhaRec]
      BY DEF LinhaRec
    <3>3. receb' = [receb EXCEPT ![x] = [receb[x] EXCEPT !.local = "SINCRONIZADO", !.remoto = "CONCLUIDO"]]
      BY <2>1, <3>2 DEF MarcarConfirmado, LinhaRec
    <3>4. QED
      BY <3>1, <3>2, <3>3
  <2>3. /\ movRec' \in [Receb -> {"NENHUM", "PENDENTE", "APLICADO", "REJEITADO"}]
        /\ entradas' \in [Receb -> Nat]
    <3>1. CASE Aplica(x)
      <4>1. /\ movRec' = [movRec EXCEPT ![x] = "APLICADO"]
            /\ entradas' = [entradas EXCEPT ![x] = @ + 1]
        BY <1>5, <3>1 DEF ConfirmarRec
      <4>2. CASE x \in Receb
        BY <4>1, <4>2
      <4>3. CASE x \notin Receb
        <5>1. movRec' = movRec /\ entradas' = entradas
          BY <4>1, <4>3
        <5>2. QED
          BY <5>1
      <4>4. QED
        BY <4>2, <4>3
    <3>2. CASE ~Aplica(x)
      BY <1>5, <3>2 DEF ConfirmarRec
    <3>3. QED
      BY <3>1, <3>2
  <2>4. /\ chamadaRec' = [chamadaRec EXCEPT ![c] = SemChamada]
        /\ eventoRec' = [eventoRec EXCEPT ![chamadaRec[c].rec] = "SINCRONIZADO"]
    BY <1>5 DEF ConfirmarRec
  <2>5. QED
    BY <1>1, <1>2, <2>1, <2>2, <2>3, <2>4 DEF LinhaRec
<1>6. CASE RejeitarRec(c)
  <2> DEFINE x == LinhaDoEvento(chamadaRec[c].rec)
  <2>1. /\ receb' = [receb EXCEPT ![x].local = "CONFLITO"]
        /\ RejeitarMovimentos(x)
        /\ chamadaRec' = [chamadaRec EXCEPT ![c].op = "rejeitado"]
        /\ chamadaRec[c].op = "conflito"
        /\ UNCHANGED <<centralRec, entradas, recente, leitura, eventoRec>>
    BY <1>6 DEF RejeitarRec
  <2>2. movRec' \in [Receb -> {"NENHUM", "PENDENTE", "APLICADO", "REJEITADO"}]
    BY <2>1 DEF RejeitarMovimentos
  <2>3. [chamadaRec[c] EXCEPT !.op = "rejeitado"] \in Chamada
    BY <2>1 DEF Chamada, SemChamada
  <2>4. chamadaRec' \in [ChamadorRec -> Chamada]
    BY <2>1, <2>3
  <2>5. QED
    BY <1>3, <2>1, <2>2, <2>4 DEF LinhaRec
<1>7. CASE ConflitoRec(c)
  BY <1>1, <1>2, <1>7 DEF ConflitoRec
<1>8. CASE CairRec(c)
  BY <1>1, <1>8 DEF CairRec
<1>9. QED
  BY <1>4, <1>5, <1>6, <1>7, <1>8 DEF Tratar

\* Every variable keeps its type (Central, receipts, movements, entries, answers).
THEOREM TipoRecebimento == SpecRecebimento => []TypeOKRecebimento
<1>1. ASSUME TypeOKRecebimento, [NextRecebimento]_varsRecebimento PROVE TypeOKRecebimento'
  <2>1. CASE NextRecebimento
    BY <1>1, <2>1, TipoCentral, TipoLoja, TipoFila, TipoTratar DEF NextRecebimento
  <2>2. CASE UNCHANGED varsRecebimento
    BY <1>1, <2>2 DEF TypeOKRecebimento, varsRecebimento
  <2>3. QED
    BY <1>1, <2>1, <2>2
<1>2. QED
  BY <1>1, TipoInicialRec, PTL DEF SpecRecebimento

-----------------------------------------------------------------------------
(* The invariant is kept *)

LEMMA InvInicialRec == InitRecebimento => InvRecebimento
  BY TipoInicialRec DEF InitRecebimento, InvRecebimento, Vista, Contado, Fim, Lida, Resposta,
     SemLeitura, SemChamada

AvancaTudo == \A r \in Receb : Avanca(centralRec[r].status, centralRec'[r].status)

\* steps of the Central, of the reading and of the sending leave the rows alone
LEMMA LinhasMantidas ==
  ASSUME InvRecebimento, TypeOKRecebimento', AvancaTudo,
         UNCHANGED <<receb, movRec, entradas, recente, eventoRec>>
  PROVE  \A r \in Receb : Vista(r)' /\ Contado(r)' /\ Fim(r)'
  BY DEF InvRecebimento, AvancaTudo, Avanca, Vista, Contado, Fim

\* a row that a step does not change
LEMMA LinhaIntacta ==
  ASSUME InvRecebimento, AvancaTudo, NEW x \in Receb,
         receb'[x] = receb[x], movRec'[x] = movRec[x], entradas'[x] = entradas[x],
         eventoRec[x] = "NENHUM" => eventoRec'[x] = "NENHUM"
  PROVE  Contado(x)' /\ Fim(x)'
<1>1. Contado(x) /\ Fim(x) /\ Avanca(centralRec[x].status, centralRec'[x].status)
  BY DEF InvRecebimento, AvancaTudo
<1>2. Contado(x)'
  BY <1>1 DEF Contado, Avanca
<1>3. Fim(x)'
  BY <1>1 DEF Fim, Avanca
<1>4. QED
  BY <1>2, <1>3

LEMMA LidaMantida ==
  ASSUME InvRecebimento, AvancaTudo, leitura' = leitura \/ leitura' = SemLeitura
  PROVE  Lida'
<1>1. leitura.op # "nenhuma" => leitura.rec \in Receb
  BY TiposDeLeitura DEF InvRecebimento, TypeOKRecebimento
<1>2. QED
  BY <1>1 DEF InvRecebimento, AvancaTudo, Avanca, Lida, SemLeitura

\* an answer stays true as long as its caller holds it
LEMMA RespostasMantidas ==
  ASSUME InvRecebimento, AvancaTudo,
         \A r \in Receb : eventoRec'[r] = "NENHUM" => eventoRec[r] = "NENHUM",
         NEW c \in ChamadorRec, chamadaRec'[c] = chamadaRec[c] \/ chamadaRec'[c] = SemChamada
  PROVE  Resposta(c)'
<1>1. chamadaRec[c].op # "nenhuma" => chamadaRec[c].rec \in Receb
  BY TiposDeChamada DEF InvRecebimento, TypeOKRecebimento
<1>2. Resposta(c)
  BY DEF InvRecebimento
<1>3. CASE chamadaRec'[c] = SemChamada
  BY <1>3 DEF Resposta, SemChamada
<1>4. CASE chamadaRec'[c] = chamadaRec[c]
  BY <1>1, <1>2, <1>4 DEF AvancaTudo, Avanca, Resposta
<1>5. QED
  BY <1>3, <1>4

LEMMA InvCentralRec ==
  ASSUME InvRecebimento, TypeOKRecebimento', AvancaTudo, NEW r \in Receb,
         ConferenciaNaCentral(r) \/ AlterarNaCentral(r)
  PROVE  InvRecebimento'
<1>1. UNCHANGED <<receb, movRec, entradas, recente, leitura, eventoRec, chamadaRec>>
  BY DEF ConferenciaNaCentral, AlterarNaCentral
<1>2. \A x \in Receb : Vista(x)' /\ Contado(x)' /\ Fim(x)'
  BY <1>1, LinhasMantidas
<1>3. Lida'
  BY <1>1, LidaMantida
<1>4. \A c \in ChamadorRec : Resposta(c)'
  BY <1>1, RespostasMantidas
<1>5. QED
  BY <1>2, <1>3, <1>4 DEF InvRecebimento

\* the receipt that a step changes and the others
LEMMA InvImportar ==
  ASSUME InvRecebimento, TypeOKRecebimento', AvancaTudo, IdsDistintos, ImportarRec \/ PerderLeitura
  PROVE  InvRecebimento'
<1> USE DEF InvRecebimento
<1>1. ASSUME UNCHANGED <<eventoRec, chamadaRec>> PROVE \A c \in ChamadorRec : Resposta(c)'
  BY <1>1, RespostasMantidas
<1>2. ASSUME NEW r \in Receb, PedirLista(r) PROVE InvRecebimento'
  <2>1. /\ leitura' = Ler("lista", r)
        /\ UNCHANGED <<centralRec, receb, movRec, entradas, recente, eventoRec, chamadaRec>>
    BY <1>2 DEF PedirLista
  <2>2. \A x \in Receb : Vista(x)' /\ Contado(x)' /\ Fim(x)'
    BY <2>1, LinhasMantidas
  <2>3. Lida'
    BY <2>1 DEF Lida, Ler
  <2>4. QED
    BY <1>1, <2>1, <2>2, <2>3
<1>3. CASE PerderLeitura
  <2>1. /\ leitura' = SemLeitura
        /\ UNCHANGED <<centralRec, receb, movRec, entradas, recente, eventoRec, chamadaRec>>
    BY <1>3 DEF PerderLeitura
  <2>2. \A x \in Receb : Vista(x)' /\ Contado(x)' /\ Fim(x)'
    BY <2>1, LinhasMantidas
  <2>3. Lida'
    BY <2>1, LidaMantida
  <2>4. QED
    BY <1>1, <2>1, <2>2, <2>3
<1>4. CASE GravarLista
  <2>1. PICK r \in Receb :
        /\ leitura.op = "lista" /\ leitura.rec = r
        /\ receb' = [receb EXCEPT ![r].remoto = leitura.remoto,
                                  ![r].local = IF @ = "AUSENTE" THEN "PENDENTE" ELSE @]
        /\ recente' = (recente \ MesmoId(r)) \cup {r}
        /\ leitura' \in {Ler("detalhe", r), SemLeitura}
        /\ UNCHANGED <<centralRec, movRec, entradas, eventoRec, chamadaRec>>
    BY <1>4, TiposDeLeitura DEF GravarLista, Recebida, TypeOKRecebimento
  <2>2. /\ receb'[r] = [receb[r] EXCEPT !.remoto = leitura.remoto,
                                        !.local = IF @ = "AUSENTE" THEN "PENDENTE" ELSE @]
        /\ \A x \in Receb : x # r => receb'[x] = receb[x]
    BY <2>1 DEF TypeOKRecebimento
  <2>3. /\ receb'[r].remoto = leitura.remoto
        /\ receb'[r].local = IF receb[r].local = "AUSENTE" THEN "PENDENTE" ELSE receb[r].local
        /\ receb'[r].itens = receb[r].itens /\ receb'[r].conferidos = receb[r].conferidos
    BY <2>1, <2>2 DEF TypeOKRecebimento
  <2>4. \A x \in Receb : Vista(x)'
    <3>1. MesmoId(r) = {r}
      BY <2>1 DEF MesmoId, IdsDistintos
    <3>2. QED
      BY <2>1, <2>2, <3>1 DEF Vista
  <2>5. \A x \in Receb : Contado(x)'
    <3>1. Contado(r)'
      BY <2>1, <2>3 DEF Contado, Lida
    <3>2. \A x \in Receb : x # r => Contado(x)'
      BY <2>1, <2>2, LinhaIntacta
    <3>3. QED
      BY <3>1, <3>2
  <2>6. \A x \in Receb : Fim(x)'
    <3>1. Fim(r)'
      BY <2>1, <2>3 DEF Fim
    <3>2. \A x \in Receb : x # r => Fim(x)'
      BY <2>1, <2>2, LinhaIntacta
    <3>3. QED
      BY <3>1, <3>2
  <2>7. Lida'
    BY <2>1 DEF Lida, Ler, SemLeitura
  <2>8. QED
    BY <1>1, <2>1, <2>4, <2>5, <2>6, <2>7
<1>5. CASE GravarDetalhe
  <2>1. PICK r \in Receb :
        /\ leitura.op = "detalhe" /\ leitura.rec = r
        /\ receb' = [receb EXCEPT ![r].remoto = leitura.remoto,
                                  ![r].itens = IF TrocaItens(r) THEN leitura.versao ELSE @]
        /\ recente' = (recente \ MesmoId(r)) \cup {r}
        /\ leitura' = SemLeitura
        /\ UNCHANGED <<centralRec, movRec, entradas, eventoRec, chamadaRec>>
    BY <1>5, TiposDeLeitura DEF GravarDetalhe, Recebida, TypeOKRecebimento
  <2>2. /\ receb'[r] = [receb[r] EXCEPT !.remoto = leitura.remoto,
                                        !.itens = IF TrocaItens(r) THEN leitura.versao ELSE @]
        /\ \A x \in Receb : x # r => receb'[x] = receb[x]
    BY <2>1 DEF TypeOKRecebimento
  <2>3. /\ receb'[r].remoto = leitura.remoto
        /\ receb[r].local # "PENDENTE" => receb'[r].itens = receb[r].itens
        /\ receb'[r].local = receb[r].local /\ receb'[r].conferidos = receb[r].conferidos
    BY <2>1, <2>2 DEF TypeOKRecebimento, TrocaItens
  <2>4. \A x \in Receb : Vista(x)'
    <3>1. MesmoId(r) = {r}
      BY <2>1 DEF MesmoId, IdsDistintos
    <3>2. QED
      BY <2>1, <2>2, <3>1 DEF Vista
  <2>5. \A x \in Receb : Contado(x)'
    <3>1. Contado(r)'
      BY <2>1, <2>3 DEF Contado, Lida
    <3>2. \A x \in Receb : x # r => Contado(x)'
      BY <2>1, <2>2, LinhaIntacta
    <3>3. QED
      BY <3>1, <3>2
  <2>6. \A x \in Receb : Fim(x)'
    <3>1. Fim(r)'
      BY <2>1, <2>3 DEF Fim
    <3>2. \A x \in Receb : x # r => Fim(x)'
      BY <2>1, <2>2, LinhaIntacta
    <3>3. QED
      BY <3>1, <3>2
  <2>7. Lida'
    BY <2>1 DEF Lida, SemLeitura
  <2>8. QED
    BY <1>1, <2>1, <2>4, <2>5, <2>6, <2>7
<1>6. QED
  BY <1>2, <1>3, <1>4, <1>5 DEF ImportarRec

LEMMA InvFinalizar ==
  ASSUME InvRecebimento, TypeOKRecebimento', AvancaTudo,
         NEW r \in Receb, NEW v \in Versao \ {0}, FinalizarRecebimento(r, v)
  PROVE  InvRecebimento'
<1> USE DEF InvRecebimento
<1>1. /\ receb[r].local = "PENDENTE" /\ receb[r].remoto = "EM_CONFERENCIA" /\ receb[r].itens = v /\ v # 0
      /\ receb' = [receb EXCEPT ![r].local = "CONFERIDO", ![r].conferidos = v]
      /\ movRec' = [movRec EXCEPT ![r] = IF @ = "NENHUM" THEN "PENDENTE" ELSE @]
      /\ eventoRec' = [eventoRec EXCEPT ![r] = "PENDENTE"]
      /\ UNCHANGED <<centralRec, entradas, recente, leitura, chamadaRec>>
  BY DEF FinalizarRecebimento, ContagemCompleta, RegistrarMovimentos, EnfileirarRecebimento
<1>2. /\ receb'[r].local = "CONFERIDO" /\ receb'[r].conferidos = v
      /\ receb'[r].itens = v /\ receb'[r].remoto = "EM_CONFERENCIA"
      /\ \A x \in Receb : x # r => receb'[x] = receb[x]
  BY <1>1 DEF TypeOKRecebimento
<1>3. Contado(r) /\ Fim(r) /\ Vista(r)
  OBVIOUS
<1>4. movRec'[r] = "PENDENTE" /\ \A x \in Receb : x # r => movRec'[x] = movRec[x] /\ eventoRec'[x] = eventoRec[x]
  BY <1>1, <1>3 DEF TypeOKRecebimento, Contado
<1>5. Contado(r)' /\ Fim(r)'
  BY <1>1, <1>2, <1>3, <1>4 DEF Contado, Fim
<1>6. \A x \in Receb : x # r => Contado(x)' /\ Fim(x)'
  BY <1>1, <1>2, <1>4, LinhaIntacta
<1>7. \A x \in Receb : Vista(x)'
  BY <1>1, <1>2, <1>3 DEF Vista
<1>8. Lida'
  BY <1>1, LidaMantida
<1>9. \A c \in ChamadorRec : Resposta(c)'
  <2>1. \A x \in Receb : eventoRec'[x] = "NENHUM" => eventoRec[x] = "NENHUM"
    BY <1>1, <1>4 DEF TypeOKRecebimento
  <2>2. QED
    BY <1>1, <2>1, RespostasMantidas
<1>10. QED
  BY <1>5, <1>6, <1>7, <1>8, <1>9

\* a receipt with an event was counted, so the Central does not answer a conflict
\* to one that it is still checking
LEMMA InvEnviar ==
  ASSUME InvRecebimento, TypeOKRecebimento', AvancaTudo,
         NEW c \in ChamadorRec, NEW r \in Receb, EnviarRec(c, r)
  PROVE  InvRecebimento'
<1> USE DEF InvRecebimento
<1>1. UNCHANGED <<receb, movRec, entradas, recente, leitura, eventoRec>> /\ eventoRec[r] = "PENDENTE"
  BY DEF EnviarRec
<1>2. centralRec[r].status # "ABERTO" /\ centralRec[r].status \in Remoto
  <2>1. Contado(r)
    OBVIOUS
  <2>2. QED
    BY <1>1, <2>1 DEF TypeOKRecebimento, Contado
<1>3. PICK k \in {"confirmado", "conflito", "erro"} :
        /\ chamadaRec' = [chamadaRec EXCEPT ![c] = [op |-> k, rec |-> r]]
        /\ k = "confirmado" => centralRec'[r].status = "CONCLUIDO"
        /\ k = "conflito" => centralRec'[r].status = "CANCELADO"
  <2>1. CASE /\ chamadaRec' = [chamadaRec EXCEPT ![c] = [op |-> Responder(r), rec |-> r]]
             /\ centralRec' = [centralRec EXCEPT ![r].status = IF @ = "EM_CONFERENCIA" THEN "CONCLUIDO" ELSE @]
    <3>1. centralRec'[r].status = IF centralRec[r].status = "EM_CONFERENCIA" THEN "CONCLUIDO" ELSE centralRec[r].status
      BY <2>1 DEF TypeOKRecebimento
    <3>2. Responder(r) \in {"confirmado", "conflito"}
      BY DEF Responder
    <3>3. /\ Responder(r) = "confirmado" => centralRec'[r].status = "CONCLUIDO"
          /\ Responder(r) = "conflito" => centralRec'[r].status = "CANCELADO"
      BY <1>2, <3>1 DEF Responder, Remoto
    <3>4. QED
      BY <2>1, <3>2, <3>3
  <2>2. CASE chamadaRec' = [chamadaRec EXCEPT ![c] = [op |-> SemResposta, rec |-> r]]
    BY <2>2 DEF SemResposta
  <2>3. QED
    BY <2>1, <2>2 DEF EnviarRec
<1>4. \A x \in Receb : Vista(x)' /\ Contado(x)' /\ Fim(x)'
  BY <1>1, LinhasMantidas
<1>5. Lida'
  BY <1>1, LidaMantida
<1>6. ASSUME NEW d \in ChamadorRec PROVE Resposta(d)'
  <2>1. CASE d = c
    <3>1. chamadaRec'[d] = [op |-> k, rec |-> r]
      BY <1>3, <2>1 DEF TypeOKRecebimento
    <3>2. QED
      BY <1>1, <1>3, <3>1 DEF Resposta
  <2>2. CASE d # c
    <3>1. chamadaRec'[d] = chamadaRec[d]
      BY <1>3, <2>2 DEF TypeOKRecebimento
    <3>2. QED
      BY <1>1, <3>1, RespostasMantidas
  <2>3. QED
    BY <2>1, <2>2
<1>7. QED
  BY <1>4, <1>5, <1>6

\* the row that an answer is about: that of the receipt itself, already counted
LEMMA LinhaDaResposta ==
  ASSUME InvRecebimento, IdsDistintos, NEW c \in ChamadorRec, chamadaRec[c].op # "nenhuma"
  PROVE  /\ chamadaRec[c].rec \in Receb
         /\ receb[chamadaRec[c].rec].local \notin {"AUSENTE", "PENDENTE"}
         /\ LinhaDoEvento(chamadaRec[c].rec) = chamadaRec[c].rec
<1>1. chamadaRec[c].rec \in Receb
  BY TiposDeChamada DEF InvRecebimento, TypeOKRecebimento
<1>2. Resposta(c) /\ Contado(chamadaRec[c].rec) /\ Vista(chamadaRec[c].rec)
  BY <1>1 DEF InvRecebimento
<1>3. receb[chamadaRec[c].rec].local \notin {"AUSENTE", "PENDENTE"}
  BY <1>2 DEF Resposta, Contado
<1>4. QED
  BY <1>1, <1>2, <1>3, LinhaPropria

\* the error and the end of a conflict change the event alone
LEMMA InvEvento ==
  ASSUME InvRecebimento, TypeOKRecebimento', AvancaTudo, IdsDistintos,
         NEW c \in ChamadorRec, RetryRec(c) \/ ConflitoRec(c) \/ CairRec(c)
  PROVE  InvRecebimento'
<1> USE DEF InvRecebimento
<1>1. /\ UNCHANGED <<centralRec, receb, movRec, entradas, recente, leitura>>
      /\ chamadaRec' = [chamadaRec EXCEPT ![c] = SemChamada]
  BY DEF RetryRec, ConflitoRec, CairRec
<1>2. \A x \in Receb : eventoRec[x] = "NENHUM" <=> eventoRec'[x] = "NENHUM"
  <2>1. CASE CairRec(c)
    BY <2>1 DEF CairRec
  <2>2. CASE RetryRec(c) \/ ConflitoRec(c)
    <3>1. chamadaRec[c].op # "nenhuma"
      BY <2>2 DEF RetryRec, ConflitoRec
    <3>2. PICK r \in Receb : chamadaRec[c].rec = r
      BY <3>1, LinhaDaResposta
    <3>3. eventoRec[r] # "NENHUM"
      BY <3>1, <3>2 DEF Resposta
    <3>4. \E s \in {"PENDENTE", "CONFLITO"} : eventoRec' = [eventoRec EXCEPT ![r] = s]
      BY <2>2, <3>2 DEF RetryRec, ConflitoRec
    <3>5. QED
      BY <3>3, <3>4 DEF TypeOKRecebimento
  <2>3. QED
    BY <2>1, <2>2
<1>3. \A x \in Receb : Contado(x)' /\ Fim(x)'
  BY <1>1, <1>2, LinhaIntacta
<1>4. \A x \in Receb : Vista(x)'
  BY <1>1 DEF Vista
<1>5. Lida'
  BY <1>1, LidaMantida
<1>6. \A d \in ChamadorRec : Resposta(d)'
  <2>1. \A d \in ChamadorRec : chamadaRec'[d] \in {chamadaRec[d], SemChamada}
    BY <1>1 DEF TypeOKRecebimento
  <2>2. QED
    BY <1>2, <2>1, RespostasMantidas
<1>7. QED
  BY <1>3, <1>4, <1>5, <1>6

\* the Central had ended the receipt, so its movement was not rejected
LEMMA InvConfirmar ==
  ASSUME InvRecebimento, TypeOKRecebimento', AvancaTudo, IdsDistintos,
         NEW c \in ChamadorRec, ConfirmarRec(c)
  PROVE  InvRecebimento'
<1> USE DEF InvRecebimento
<1>1. PICK r \in Receb : /\ chamadaRec[c].rec = r /\ LinhaDoEvento(r) = r
                         /\ receb[r].local \notin {"AUSENTE", "PENDENTE"}
  BY LinhaDaResposta DEF ConfirmarRec
<1>2. /\ IF Aplica(r)
         THEN /\ movRec' = [movRec EXCEPT ![r] = "APLICADO"]
              /\ entradas' = [entradas EXCEPT ![r] = @ + 1]
         ELSE UNCHANGED <<movRec, entradas>>
      /\ receb' = [receb EXCEPT ![r].local = "SINCRONIZADO", ![r].remoto = "CONCLUIDO"]
      /\ eventoRec' = [eventoRec EXCEPT ![r] = "SINCRONIZADO"]
      /\ chamadaRec' = [chamadaRec EXCEPT ![c] = SemChamada]
      /\ UNCHANGED <<centralRec, recente, leitura>>
  BY <1>1 DEF ConfirmarRec, MarcarConfirmado
<1>3. Contado(r) /\ Fim(r) /\ Vista(r) /\ Resposta(c)
  OBVIOUS
<1>4. centralRec[r].status = "CONCLUIDO"
  BY <1>1, <1>3 DEF ConfirmarRec, Resposta
<1>5. movRec'[r] = "APLICADO" /\ entradas'[r] = 1
  <2>1. CASE movRec[r] = "PENDENTE"
    BY <1>2, <1>3, <2>1 DEF Aplica, Fim, TypeOKRecebimento
  <2>2. CASE movRec[r] = "APLICADO"
    BY <1>2, <1>3, <2>2 DEF Aplica, Fim
  <2>3. QED
    BY <1>1, <1>3, <1>4, <2>1, <2>2 DEF TypeOKRecebimento, Contado, Fim
<1>6. /\ receb'[r].local = "SINCRONIZADO" /\ receb'[r].remoto = "CONCLUIDO"
      /\ receb'[r].itens = receb[r].itens /\ receb'[r].conferidos = receb[r].conferidos
      /\ \A x \in Receb : x # r => receb'[x] = receb[x]
  BY <1>2 DEF TypeOKRecebimento
<1>7. /\ \A x \in Receb : x # r => movRec'[x] = movRec[x] /\ entradas'[x] = entradas[x] /\ eventoRec'[x] = eventoRec[x]
      /\ eventoRec'[r] = "SINCRONIZADO"
  BY <1>2 DEF TypeOKRecebimento
<1>8. Contado(r)' /\ Fim(r)'
  BY <1>1, <1>2, <1>3, <1>4, <1>5, <1>6 DEF Contado, Fim
<1>9. \A x \in Receb : x # r => Contado(x)' /\ Fim(x)'
  BY <1>6, <1>7, LinhaIntacta
<1>10. \A x \in Receb : Vista(x)'
  BY <1>1, <1>2, <1>3, <1>6 DEF Vista
<1>11. Lida'
  BY <1>2, LidaMantida
<1>12. \A d \in ChamadorRec : Resposta(d)'
  <2>1. \A d \in ChamadorRec : chamadaRec'[d] \in {chamadaRec[d], SemChamada}
    BY <1>2 DEF TypeOKRecebimento
  <2>2. \A x \in Receb : eventoRec'[x] = "NENHUM" => eventoRec[x] = "NENHUM"
    BY <1>7
  <2>3. QED
    BY <2>1, <2>2, RespostasMantidas
<1>13. QED
  BY <1>8, <1>9, <1>10, <1>11, <1>12

\* the Central had cancelled the receipt, so its movement was not applied
LEMMA InvRejeitar ==
  ASSUME InvRecebimento, TypeOKRecebimento', AvancaTudo, IdsDistintos,
         NEW c \in ChamadorRec, RejeitarRec(c)
  PROVE  InvRecebimento'
<1> USE DEF InvRecebimento
<1>1. PICK r \in Receb : /\ chamadaRec[c].rec = r /\ LinhaDoEvento(r) = r
                         /\ receb[r].local \notin {"AUSENTE", "PENDENTE"}
  BY LinhaDaResposta DEF RejeitarRec
<1>2. /\ movRec' = [movRec EXCEPT ![r] = IF @ = "PENDENTE" THEN "REJEITADO" ELSE @]
      /\ receb' = [receb EXCEPT ![r].local = "CONFLITO"]
      /\ chamadaRec' = [chamadaRec EXCEPT ![c].op = "rejeitado"]
      /\ UNCHANGED <<centralRec, entradas, recente, leitura, eventoRec>>
  BY <1>1 DEF RejeitarRec, RejeitarMovimentos
<1>3. Contado(r) /\ Fim(r) /\ Vista(r) /\ Resposta(c)
  OBVIOUS
<1>4. centralRec[r].status = "CANCELADO" /\ eventoRec[r] # "NENHUM"
  BY <1>1, <1>3 DEF RejeitarRec, Resposta
<1>5. movRec'[r] = "REJEITADO" /\ entradas'[r] = 0
  BY <1>1, <1>2, <1>3, <1>4 DEF TypeOKRecebimento, Contado, Fim
<1>6. /\ receb'[r].local = "CONFLITO" /\ receb'[r].remoto = receb[r].remoto
      /\ receb'[r].itens = receb[r].itens /\ receb'[r].conferidos = receb[r].conferidos
      /\ \A x \in Receb : x # r => receb'[x] = receb[x] /\ movRec'[x] = movRec[x]
  BY <1>2 DEF TypeOKRecebimento
<1>7. Contado(r)' /\ Fim(r)'
  BY <1>1, <1>2, <1>3, <1>4, <1>5, <1>6 DEF Contado, Fim
<1>8. \A x \in Receb : x # r => Contado(x)' /\ Fim(x)'
  BY <1>2, <1>6, LinhaIntacta
<1>9. \A x \in Receb : Vista(x)'
  BY <1>1, <1>2, <1>3, <1>6 DEF Vista
<1>10. Lida'
  BY <1>2, LidaMantida
<1>11. ASSUME NEW d \in ChamadorRec PROVE Resposta(d)'
  <2>1. CASE d = c
    <3>1. chamadaRec'[c].op = "rejeitado" /\ chamadaRec'[c].rec = r
      <4>1. chamadaRec[c] \in [op : {"confirmado", "conflito", "erro", "rejeitado"}, rec : Receb]
        BY DEF RejeitarRec, TypeOKRecebimento, Chamada, SemChamada
      <4>2. chamadaRec'[c] = [chamadaRec[c] EXCEPT !.op = "rejeitado"]
        BY <1>2 DEF TypeOKRecebimento
      <4>3. QED
        BY <1>1, <4>1, <4>2
    <3>2. QED
      BY <1>2, <1>4, <2>1, <3>1 DEF Resposta
  <2>2. CASE d # c
    <3>1. chamadaRec'[d] = chamadaRec[d]
      BY <1>2, <2>2 DEF TypeOKRecebimento
    <3>2. QED
      BY <1>2, <3>1, RespostasMantidas
  <2>3. QED
    BY <2>1, <2>2
<1>12. QED
  BY <1>7, <1>8, <1>9, <1>10, <1>11

\* The invariant holds in every state when the identifiers of the Central tell
\* the receipts apart.
THEOREM InvarianteRecebimento ==
  ASSUME IdsDistintos
  PROVE  SpecRecebimento => []InvRecebimento
<1>1. ASSUME InvRecebimento, [NextRecebimento]_varsRecebimento PROVE InvRecebimento'
  <2>1. CASE NextRecebimento
    <3>1. TypeOKRecebimento' /\ AvancaTudo
      BY <1>1, <2>1, TipoCentral, TipoLoja, TipoFila, TipoTratar, CentralAvanca
         DEF InvRecebimento, NextRecebimento, AvancaTudo
    <3>2. QED
      BY <1>1, <2>1, <3>1, InvCentralRec, InvImportar, InvFinalizar, InvEnviar, InvEvento, InvConfirmar,
         InvRejeitar DEF NextRecebimento, Tratar
  <2>2. CASE UNCHANGED varsRecebimento
    BY <1>1, <2>2 DEF InvRecebimento, TypeOKRecebimento, Vista, Contado, Fim, Lida, Resposta, varsRecebimento
  <2>3. QED
    BY <1>1, <2>1, <2>2
<1>2. QED
  BY <1>1, InvInicialRec, PTL DEF SpecRecebimento

\* What enters the stock is the receipt that was counted, with the items that were
\* counted, once, whatever answers the callers of the outbox handle and in which
\* order; the store rejects no receipt that the Central ended
\* (aplicar_movimentos_recebimento_confirmado, finalizar_recebimento).
THEOREM EntradaFielSempre ==
  ASSUME IdsDistintos
  PROVE  SpecRecebimento => []EntradaFiel
<1>1. InvRecebimento => EntradaFiel
  <2>1. SUFFICES ASSUME InvRecebimento, NEW r \in Receb
                 PROVE  /\ entradas[r] <= 1
                        /\ receb[r].conferidos # 0 => receb[r].itens = receb[r].conferidos
                        /\ receb[r].local = "SINCRONIZADO" => entradas[r] = 1
                        /\ movRec[r] = "REJEITADO" => centralRec[r].status # "CONCLUIDO"
    BY DEF EntradaFiel, EntradaUmaVez, ItensConferidos, SemDesencontro
  <2>2. Fim(r) /\ Contado(r)
    BY <2>1 DEF InvRecebimento
  <2>3. QED
    BY <2>2 DEF Fim, Contado
<1>2. QED
  BY <1>1, InvarianteRecebimento, PTL

\* Stock that entered, and a receipt that ended in the store, were counted there
\* and confirmed by the Central (_marcar_recebimento_confirmado).  It needs the
\* distinct identifiers: the run recebimento_mesmo_id refutes it without them.
THEOREM EntradaConfirmadaSempre ==
  ASSUME IdsDistintos
  PROVE  SpecRecebimento => []EntradaConfirmada
<1>1. InvRecebimento => EntradaConfirmada
  <2>1. SUFFICES ASSUME InvRecebimento, NEW r \in Receb, entradas[r] > 0 \/ receb[r].local = "SINCRONIZADO"
                 PROVE  centralRec[r].status = "CONCLUIDO" /\ receb[r].conferidos # 0
    BY DEF EntradaConfirmada
  <2>2. Fim(r) /\ Contado(r)
    BY <2>1 DEF InvRecebimento
  <2>3. movRec[r] = "APLICADO"
    BY <2>1, <2>2 DEF Fim
  <2>4. QED
    BY <2>2, <2>3 DEF Fim, Contado
<1>2. QED
  BY <1>1, InvarianteRecebimento, PTL

============================================================================
