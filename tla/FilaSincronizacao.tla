------------------------- MODULE FilaSincronizacao -------------------------
(***************************************************************************)
(* The outbox of the store hub: core/services/sync.py, with the writers    *)
(* that feed it (sales, local returns, NFC-e versions), the provisional    *)
(* credit that a return issues and an exchange sale consumes, the callers  *)
(* that drain it (the SyncWorker thread, the management command and the    *)
(* manual retry of pendencias_sync.py) and the Central that receives it.   *)
(*                                                                         *)
(* A step is one database transaction, one autocommitted write or one      *)
(* message.  Rows locked by a transaction that spans two steps are in      *)
(* chamada[c].trava; every write to a row of EventoSyncHub waits for them. *)
(***************************************************************************)
EXTENDS Naturals, FiniteSets

CONSTANTS
  Venda,             \* sales
  Devolucao,         \* local returns
  Nota,              \* versions of NFC-e documents: events without dependency
  VendaDaNota,       \* the sale of each of them
  Chamador,          \* callers of sincronizar_eventos_pendentes
  Manual,            \* the callers that are a manual retry of one event
  Nenhuma,           \* no sale
  Nada,              \* nothing received
  Limite,            \* batch limit of a caller (50 in the code)
  MaxQuedas,         \* bound of the model: crashes of the hub
  RespostasCentral   \* kinds of per-event results the Central may return

Evento == Venda \cup Devolucao \cup Nota

Payload == [creditos : SUBSET Devolucao, oficiais : SUBSET Devolucao,
            deps : SUBSET Devolucao, consumo : Venda \cup {Nenhuma}]

\* OK: PROCESSADO or DUPLICADO with a usable mapping.  DIVERGENTE: confirmed,
\* with another document.  INVALIDO: confirmed, but the local confirmation
\* raises.  CONFLITO: refused for good.  ERRO: anything else.
Resposta == {"OK", "DIVERGENTE", "INVALIDO", "CONFLITO", "ERRO"}

ASSUME Conjuntos ==
  /\ IsFiniteSet(Venda) /\ IsFiniteSet(Devolucao) /\ IsFiniteSet(Nota)
  /\ Venda \cap Devolucao = {} /\ Venda \cap Nota = {} /\ Devolucao \cap Nota = {}
  /\ VendaDaNota \in [Nota -> Venda]
  /\ Manual \subseteq Chamador
  /\ Nenhuma \notin Venda
  /\ Nada \notin Payload \cup Venda \cup {Nenhuma}
  /\ Limite \in Nat \ {0}
  /\ MaxQuedas \in Nat
  /\ RespostasCentral \subseteq Resposta

VARIABLES
  venda,        \* VendaHub.status
  pagamento,    \* returns whose provisional credit is an active payment of the sale
  devolucao,    \* VendaDevolucaoHub: status, venda_origem, venda_troca, confirmado_central_em
  usado,        \* the sale of the USO movement of the return's credit
  vale,         \* ValeTrocaHub of the return
  evento,       \* EventoSyncHub rows
  antes,        \* for each row, the rows created before it (criado_em, id)
  aEnfileirar,  \* on_commit callbacks that have not run yet (memory)
  chamada,      \* calls of sincronizar_eventos_pendentes in progress (memory)
  rede,         \* every request item ever sent to the Central
  central,      \* the payload with which the Central processed the event
  quedas        \* crashes so far

local == <<venda, pagamento, devolucao, usado, vale>>
vars == <<venda, pagamento, devolucao, usado, vale, evento, antes, aEnfileirar,
          chamada, rede, central, quedas>>

StatusVenda == {"NENHUMA", "ABERTA", "FINALIZADA", "CANCELADA"}
StatusVale == {"NENHUM", "ABERTO", "USADO", "CANCELADO", "OFICIAL"}
StatusEvento == {"AUSENTE", "PENDENTE", "PROCESSANDO", "SINCRONIZADO", "ERRO", "CONFLITO"}
\* mutant: a row left in PROCESSANDO is not taken again
MutAtivosSemProcessando == {"PENDENTE", "ERRO"}
Ativos == {"PENDENTE", "ERRO", "PROCESSANDO"}

Vazio == [creditos |-> {}, oficiais |-> {}, deps |-> {}, consumo |-> Nenhuma]

Ociosa == [fase |-> "livre", trava |-> {}, alvo |-> {},
           pronto |-> [e \in Evento |-> Vazio],
           resultado |-> [e \in Evento |-> "ERRO"]]

LinhaDevolucao == [status : {"NENHUMA", "FINALIZADA", "CONFLITO"},
                   origem : Venda \cup {Nenhuma},
                   troca : Venda \cup {Nenhuma},
                   confirmada : BOOLEAN]

LinhaEvento == [status : StatusEvento, tentado : BOOLEAN, adiado : BOOLEAN, payload : Payload]

EstadoChamada == [fase : {"livre", "verificado", "preparando", "enviando", "processando"},
                  trava : SUBSET Evento,
                  alvo : SUBSET Evento,
                  pronto : [Evento -> Payload],
                  resultado : [Evento -> Resposta \cup {"GRAVAR_CONFLITO"}]]

Pedido == [evento : Evento, payload : Payload]

TypeOK ==
  /\ venda \in [Venda -> StatusVenda]
  /\ pagamento \in [Venda -> SUBSET Devolucao]
  /\ devolucao \in [Devolucao -> LinhaDevolucao]
  /\ usado \in [Devolucao -> Venda \cup {Nenhuma}]
  /\ vale \in [Devolucao -> StatusVale]
  /\ evento \in [Evento -> LinhaEvento]
  /\ antes \in [Evento -> SUBSET Evento]
  /\ aEnfileirar \subseteq Evento
  /\ chamada \in [Chamador -> EstadoChamada]
  /\ rede \subseteq Pedido
  /\ central \in [Evento -> Payload \cup {Nada}]
  /\ quedas \in 0..MaxQuedas

Init ==
  /\ venda = [v \in Venda |-> "NENHUMA"]
  /\ pagamento = [v \in Venda |-> {}]
  /\ devolucao = [d \in Devolucao |-> [status |-> "NENHUMA", origem |-> Nenhuma,
                                       troca |-> Nenhuma, confirmada |-> FALSE]]
  /\ usado = [d \in Devolucao |-> Nenhuma]
  /\ vale = [d \in Devolucao |-> "NENHUM"]
  /\ evento = [e \in Evento |-> [status |-> "AUSENTE", tentado |-> FALSE,
                                 adiado |-> FALSE, payload |-> Vazio]]
  /\ antes = [e \in Evento |-> {}]
  /\ aEnfileirar = {}
  /\ chamada = [c \in Chamador |-> Ociosa]
  /\ rede = {}
  /\ central = [e \in Evento |-> Nada]
  /\ quedas = 0

----------------------------------------------------------------------------
(* Helpers shared by the writers and the callers. *)

Travado == UNION {chamada[c].trava : c \in Chamador}

Provisorio(d) == vale[d] \in {"ABERTO", "USADO", "CANCELADO"}

TrocaAberta(d) == devolucao[d].troca # Nenhuma /\ venda[devolucao[d].troca] = "ABERTA"

TrocasDe(v) == {d \in Devolucao : devolucao[d].troca = v}

\* mutants of VinculoPermitido: the lock of the event row, the refusal of a return
\* already sent, and the refusal of a credit linked to another sale are missing
MutVinculoSemTrava(v, d) ==
  /\ Provisorio(d)
  /\ evento[d].status \in {"AUSENTE", "PENDENTE"} /\ ~evento[d].tentado
  /\ devolucao[d].status = "FINALIZADA" /\ ~devolucao[d].confirmada
  /\ venda[v] = "ABERTA" /\ v # devolucao[d].origem
  /\ devolucao[d].troca \in {v, Nenhuma}
  /\ usado[d] \in {v, Nenhuma}

MutVinculoDepoisDoEnvio(v, d) ==
  /\ Provisorio(d)
  /\ d \notin Travado
  /\ devolucao[d].status = "FINALIZADA" /\ ~devolucao[d].confirmada
  /\ venda[v] = "ABERTA" /\ v # devolucao[d].origem
  /\ devolucao[d].troca \in {v, Nenhuma}
  /\ usado[d] \in {v, Nenhuma}

MutVinculoOutraVenda(v, d) ==
  /\ Provisorio(d)
  /\ d \notin Travado
  /\ evento[d].status \in {"AUSENTE", "PENDENTE"} /\ ~evento[d].tentado
  /\ devolucao[d].status = "FINALIZADA" /\ ~devolucao[d].confirmada
  /\ venda[v] = "ABERTA" /\ v # devolucao[d].origem
  /\ usado[d] \in {v, Nenhuma}

\* vincular_credito_provisorio: every refusal of the link of credit d to sale v
VinculoPermitido(v, d) ==
  /\ Provisorio(d)
  /\ d \notin Travado
  /\ evento[d].status \in {"AUSENTE", "PENDENTE"} /\ ~evento[d].tentado
  /\ devolucao[d].status = "FINALIZADA" /\ ~devolucao[d].confirmada
  /\ venda[v] = "ABERTA" /\ v # devolucao[d].origem
  /\ devolucao[d].troca \in {v, Nenhuma}
  /\ usado[d] \in {v, Nenhuma}

PayloadDevolucao(d) == [Vazio EXCEPT !.consumo = usado[d]]

\* mutant: the dependencies are left out of the payload
MutPayloadVendaSemDeps(v, dependencias) ==
  [creditos |-> pagamento[v],
   oficiais |-> {d \in pagamento[v] : ~Provisorio(d)},
   consumo |-> Nenhuma]

PayloadVenda(v, dependencias) ==
  [creditos |-> pagamento[v],
   oficiais |-> {d \in pagamento[v] : ~Provisorio(d)},
   deps |-> dependencias,
   consumo |-> Nenhuma]

----------------------------------------------------------------------------
(* The store: sales, returns and the credit that links them. *)

\* obter_ou_criar_venda_aberta
AbrirVenda(v) ==
  /\ venda[v] = "NENHUMA"
  /\ venda' = [venda EXCEPT ![v] = "ABERTA"]
  /\ UNCHANGED <<pagamento, devolucao, usado, vale, evento, antes, aEnfileirar,
                 chamada, rede, central, quedas>>

\* cancelar_venda; validar_venda_sem_pagamento_ativo refuses an active payment
CancelarVenda(v) ==
  /\ venda[v] = "ABERTA"
  /\ pagamento[v] = {}
  /\ venda' = [venda EXCEPT ![v] = "CANCELADA"]
  /\ UNCHANGED <<pagamento, devolucao, usado, vale, evento, antes, aEnfileirar,
                 chamada, rede, central, quedas>>

\* finalizar_devolucao_local; a credit exists only when the net value is positive
FinalizarDevolucao(d, v, credito) ==
  /\ devolucao[d].status = "NENHUMA"
  /\ venda[v] = "FINALIZADA"
  /\ devolucao' = [devolucao EXCEPT ![d].status = "FINALIZADA", ![d].origem = v]
  /\ vale' = [vale EXCEPT ![d] = IF credito THEN "ABERTO" ELSE "NENHUM"]
  /\ aEnfileirar' = aEnfileirar \cup {d}
  /\ UNCHANGED <<venda, pagamento, usado, evento, antes, chamada, rede, central, quedas>>

\* adicionar_pagamento_vale_troca with a provisional document
AplicarCredito(v, d) ==
  /\ VinculoPermitido(v, d)
  /\ vale[d] = "ABERTO"
  /\ d \notin pagamento[v]
  /\ devolucao' = [devolucao EXCEPT ![d].troca = v]
  /\ pagamento' = [pagamento EXCEPT ![v] = @ \cup {d}]
  /\ UNCHANGED <<venda, usado, vale, evento, antes, aEnfileirar, chamada, rede,
                 central, quedas>>

\* remover_pagamento; the return keeps venda_troca
RemoverPagamento(v, d) ==
  /\ venda[v] = "ABERTA"
  /\ d \in pagamento[v]
  /\ pagamento' = [pagamento EXCEPT ![v] = @ \ {d}]
  /\ UNCHANGED <<venda, devolucao, usado, vale, evento, antes, aEnfileirar, chamada,
                 rede, central, quedas>>

\* finalizar_venda; _consumir_vale consumes each credit, the ones in esgotados wholly
FinalizarVenda(v, esgotados) ==
  /\ venda[v] = "ABERTA"
  /\ \A d \in pagamento[v] : VinculoPermitido(v, d) /\ vale[d] = "ABERTO"
  /\ venda' = [venda EXCEPT ![v] = "FINALIZADA"]
  /\ devolucao' = [d \in Devolucao |->
        IF d \in pagamento[v] THEN [devolucao[d] EXCEPT !.troca = v] ELSE devolucao[d]]
  /\ usado' = [d \in Devolucao |-> IF d \in pagamento[v] THEN v ELSE usado[d]]
  /\ vale' = [d \in Devolucao |->
        IF d \in pagamento[v] \cap esgotados THEN "USADO" ELSE vale[d]]
  /\ aEnfileirar' = aEnfileirar \cup {v}
  /\ UNCHANGED <<pagamento, evento, antes, chamada, rede, central, quedas>>

\* marcar_nfce_alterada_para_sync
AlterarNfce(n) ==
  /\ venda[VendaDaNota[n]] = "FINALIZADA"
  /\ evento[n].status = "AUSENTE" /\ n \notin aEnfileirar
  /\ aEnfileirar' = aEnfileirar \cup {n}
  /\ UNCHANGED <<venda, pagamento, devolucao, usado, vale, evento, antes, chamada,
                 rede, central, quedas>>

Loja ==
  \/ \E v \in Venda : \/ AbrirVenda(v)
                      \/ CancelarVenda(v)
                      \/ \E esgotados \in SUBSET pagamento[v] : FinalizarVenda(v, esgotados)
  \/ \E v \in Venda, d \in Devolucao :
        \/ AplicarCredito(v, d)
        \/ RemoverPagamento(v, d)
        \/ \E credito \in BOOLEAN : FinalizarDevolucao(d, v, credito)
  \/ \E n \in Nota : AlterarNfce(n)

----------------------------------------------------------------------------
(* The writers of the queue: enfileirar_*, after the commit. *)

PayloadInicial(e) ==
  CASE e \in Venda -> PayloadVenda(e, {d \in pagamento[e] : usado[d] = e /\ Provisorio(d)})
    [] e \in Devolucao -> PayloadDevolucao(e)
    [] e \in Nota -> Vazio

\* _criar_ou_atualizar_evento
Criar(e) ==
  /\ evento' = [evento EXCEPT ![e] = [status |-> "PENDENTE", tentado |-> FALSE,
                                      adiado |-> FALSE, payload |-> PayloadInicial(e)]]
  /\ antes' = [antes EXCEPT ![e] = {f \in Evento : evento[f].status # "AUSENTE"}]

\* enfileirar_venda_finalizada, enfileirar_devolucao_finalizada: an existing row is
\* returned as it is.  enfileirar_nfce_atualizada runs it for the sale first.
Enfileirar(e) ==
  /\ e \in aEnfileirar
  /\ e \in Nota => evento[VendaDaNota[e]].status # "AUSENTE"
  /\ aEnfileirar' = aEnfileirar \ {e}
  /\ IF evento[e].status = "AUSENTE" THEN Criar(e) ELSE UNCHANGED <<evento, antes>>
  /\ UNCHANGED <<local, chamada, rede, central, quedas>>

EnfileirarVendaDaNota(n) ==
  /\ n \in aEnfileirar
  /\ evento[VendaDaNota[n]].status = "AUSENTE"
  /\ Criar(VendaDaNota[n])
  /\ UNCHANGED <<local, aEnfileirar, chamada, rede, central, quedas>>

\* evento.save with status and proxima_tentativa_em
Gravar(e, status, adiado) ==
  evento' = [evento EXCEPT ![e] = [evento[e] EXCEPT !.status = status, !.adiado = adiado]]

\* The hub stops: memory is lost, open transactions roll back.  Nothing scans for
\* sales or returns without an event when it starts again.
Cair ==
  /\ quedas < MaxQuedas
  /\ quedas' = quedas + 1
  /\ aEnfileirar' = {}
  /\ chamada' = [c \in Chamador |-> Ociosa]
  /\ UNCHANGED <<local, evento, antes, rede, central>>

\* proxima_tentativa_em is reached (it is read for the active statuses only)
Vencer(e) ==
  /\ evento[e].status \in Ativos
  /\ evento[e].adiado
  /\ Gravar(e, evento[e].status, FALSE)
  /\ UNCHANGED <<local, antes, aEnfileirar, chamada, rede, central, quedas>>

----------------------------------------------------------------------------
(* sincronizar_eventos_pendentes, first transaction. *)

\* _detalhar_dependencia, the dependency the manual retry knows of
DependenciaVisivel(e) == e \in Venda /\ \E d \in evento[e].payload.deps : Provisorio(d)

\* tentar_reprocessar_evento, up to its call of sincronizar_eventos_pendentes
VerificarRetry(c, e) ==
  /\ c \in Manual
  /\ chamada[c].fase = "livre"
  /\ evento[e].status \in {"ERRO", "PENDENTE"}
  /\ ~DependenciaVisivel(e)
  /\ e \notin Travado
  /\ Gravar(e, evento[e].status, FALSE)
  /\ chamada' = [chamada EXCEPT ![c] = [Ociosa EXCEPT !.fase = "verificado", !.alvo = {e}]]
  /\ UNCHANGED <<local, antes, aEnfileirar, rede, central, quedas>>

MaisAntigos(S, k) == {e \in S : Cardinality(S \cap antes[e]) < k}

Lote(c) ==
  MaisAntigos({e \in Evento : /\ evento[e].status \in Ativos
                              /\ ~evento[e].adiado
                              /\ chamada[c].fase = "verificado" => e \in chamada[c].alvo},
              Limite)

\* mutants of Preparado: the sale keeps the payload it was enqueued with; the snapshot
\* is not fixed by the first attempt
MutPreparadoSoDevolucao(e) ==
  IF ~evento[e].tentado /\ e \in Devolucao /\ ~TrocaAberta(e) THEN PayloadDevolucao(e)
  ELSE evento[e].payload

MutPreparadoSempre(e) ==
  IF e \in Devolucao /\ ~TrocaAberta(e) THEN PayloadDevolucao(e)
  ELSE IF e \in Venda /\ TrocasDe(e) # {} THEN PayloadVenda(e, TrocasDe(e))
  ELSE evento[e].payload

\* _preparar_evento_troca: the payload is computed again until the first attempt
Preparado(e) ==
  IF evento[e].tentado THEN evento[e].payload
  ELSE IF e \in Devolucao /\ ~TrocaAberta(e) THEN PayloadDevolucao(e)
  ELSE IF e \in Venda /\ TrocasDe(e) # {} THEN PayloadVenda(e, TrocasDe(e))
  ELSE evento[e].payload

\* _consumo_troca_devolucao raises for what _preparar_evento_troca computes
Divergente(d) ==
  /\ d \in Devolucao
  /\ ~evento[d].tentado /\ ~TrocaAberta(d)
  /\ usado[d] # Nenhuma
  /\ \/ usado[d] # devolucao[d].troca
     \/ venda[usado[d]] # "FINALIZADA"
     \/ d \notin pagamento[usado[d]]

\* select_for_update of the batch, and the payloads
Selecionar(c) ==
  /\ \/ chamada[c].fase = "livre" /\ c \notin Manual
     \/ chamada[c].fase = "verificado"
  /\ Lote(c) # {}
  /\ Lote(c) \cap Travado = {}
  /\ chamada' = [chamada EXCEPT ![c] =
        [Ociosa EXCEPT !.fase = "preparando",
                       !.trava = Lote(c),
                       !.alvo = {e \in Lote(c) : ~Divergente(e)},
                       !.pronto = [e \in Evento |-> IF e \in Lote(c) THEN Preparado(e) ELSE Vazio]]]
  /\ UNCHANGED <<local, evento, antes, aEnfileirar, rede, central, quedas>>

\* the manual retry finds that its event is no longer to be sent
DesistirRetry(c) ==
  /\ chamada[c].fase = "verificado"
  /\ Lote(c) = {}
  /\ chamada' = [chamada EXCEPT ![c] = Ociosa]
  /\ UNCHANGED <<local, evento, antes, aEnfileirar, rede, central, quedas>>

\* mutants of Bloqueado: the return waits for the exchange instead of the original
\* sale; the sale does not wait
MutBloqueadoPelaTroca(e, payload) ==
  \/ /\ e \in Devolucao /\ devolucao[e].troca # Nenhuma
     /\ evento[devolucao[e].troca].status # "SINCRONIZADO"
  \/ /\ e \in Venda
     /\ \E d \in payload.deps : ~devolucao[d].confirmada

MutBloqueadoSoDevolucao(e, payload) ==
  /\ e \in Devolucao
  /\ \/ TrocaAberta(e)
     \/ evento[devolucao[e].origem].status # "SINCRONIZADO"

\* _evento_bloqueado_por_dependencia
Bloqueado(e, payload) ==
  \/ /\ e \in Devolucao
     /\ \/ TrocaAberta(e)
        \/ evento[devolucao[e].origem].status # "SINCRONIZADO"
  \/ /\ e \in Venda
     /\ \E d \in payload.deps : \/ ~devolucao[d].confirmada
                                \/ devolucao[d].status = "CONFLITO"
                                \/ evento[d].status # "SINCRONIZADO"

\* the dependencies are read, the rows are marked, the transaction commits and the
\* request leaves
Marcar(c) ==
  LET ch == chamada[c]
      enviados == {e \in ch.alvo : ~Bloqueado(e, ch.pronto[e])}
  IN
  /\ ch.fase = "preparando"
  /\ evento' = [e \in Evento |->
        IF e \notin ch.trava THEN evento[e]
        ELSE [status |-> IF e \in enviados THEN "PROCESSANDO"
                         ELSE IF e \in ch.alvo THEN evento[e].status ELSE "ERRO",
              tentado |-> evento[e].tentado \/ e \in enviados,
              adiado |-> evento[e].adiado \/ e \notin enviados,
              payload |-> IF e \in ch.alvo THEN ch.pronto[e] ELSE evento[e].payload]]
  /\ rede' = rede \cup {[evento |-> e, payload |-> ch.pronto[e]] : e \in enviados}
  /\ chamada' = [chamada EXCEPT ![c] =
        IF enviados = {} THEN Ociosa
        ELSE [Ociosa EXCEPT !.fase = "enviando", !.alvo = enviados]]
  /\ UNCHANGED <<local, antes, aEnfileirar, central, quedas>>

----------------------------------------------------------------------------
(* The Central: idempotent by event, late or never for any request. *)

CentralProcessa(m) ==
  /\ m \in rede
  /\ central[m.evento] = Nada
  /\ central' = [central EXCEPT ![m.evento] = m.payload]
  /\ UNCHANGED <<local, evento, antes, aEnfileirar, chamada, rede, quedas>>

Coerente(e, r) ==
  /\ r \in {"OK", "DIVERGENTE", "INVALIDO"} => central[e] # Nada
  /\ r = "CONFLITO" => central[e] = Nada
  /\ r = "DIVERGENTE" => e \in Devolucao

Responder(c, r) ==
  /\ chamada[c].fase = "enviando"
  /\ \A e \in chamada[c].alvo : Coerente(e, r[e])
  /\ chamada' = [chamada EXCEPT ![c].fase = "processando",
                                ![c].resultado = [e \in Evento |-> IF e \in DOMAIN r THEN r[e] ELSE "ERRO"]]
  /\ UNCHANGED <<local, evento, antes, aEnfileirar, rede, central, quedas>>

\* RetaguardaError: every event of the batch is to be retried
Falhar(c) == Responder(c, [e \in chamada[c].alvo |-> "ERRO"])

----------------------------------------------------------------------------
(* sincronizar_eventos_pendentes, the loop over the results, oldest first. *)

Tratando(c, e) ==
  /\ chamada[c].fase = "processando"
  /\ e \in MaisAntigos(chamada[c].alvo, 1)

Tratado(c, e) ==
  chamada' = [chamada EXCEPT ![c] =
        IF chamada[c].alvo = {e} THEN Ociosa
        ELSE [chamada[c] EXCEPT !.alvo = chamada[c].alvo \ {e}]]

\* _canonicalizar_devolucao_confirmada: the consumption in the payload and the one the
\* Central returns must be the local one
ConsumoConfere(e) ==
  e \in Devolucao /\ usado[e] # Nenhuma =>
     evento[e].payload.consumo = usado[e] /\ central[e].consumo = usado[e]

\* mutant: the row is marked before the return is confirmed
MutConfirmarSemCanonicalizar(c, e) ==
  /\ Tratando(c, e)
  /\ e \notin Travado
  /\ chamada[c].resultado[e] = "OK" /\ ConsumoConfere(e)
  /\ Gravar(e, "SINCRONIZADO", FALSE)
  /\ Tratado(c, e)
  /\ UNCHANGED <<local, antes, aEnfileirar, rede, central, quedas>>

Confirmar(c, e) ==
  /\ Tratando(c, e)
  /\ e \notin Travado
  /\ chamada[c].resultado[e] = "OK" /\ ConsumoConfere(e)
  /\ Gravar(e, "SINCRONIZADO", FALSE)
  /\ IF e \in Devolucao
     THEN /\ devolucao' = [devolucao EXCEPT ![e].status = "FINALIZADA", ![e].confirmada = TRUE]
          /\ vale' = [vale EXCEPT ![e] = IF @ = "NENHUM" THEN @ ELSE "OFICIAL"]
     ELSE UNCHANGED <<devolucao, vale>>
  /\ Tratado(c, e)
  /\ UNCHANGED <<venda, pagamento, usado, antes, aEnfileirar, rede, central, quedas>>

\* _marcar_retry, saved over whatever another caller has written since
Retry(c, e) ==
  /\ Tratando(c, e)
  /\ e \notin Travado
  /\ \/ chamada[c].resultado[e] \in {"ERRO", "INVALIDO"}
     \/ chamada[c].resultado[e] = "OK" /\ ~ConsumoConfere(e)
  /\ Gravar(e, "ERRO", TRUE)
  /\ Tratado(c, e)
  /\ UNCHANGED <<local, antes, aEnfileirar, rede, central, quedas>>

\* _marcar_devolucao_em_conflito
DevolucaoEmConflito(e) ==
  IF e \in Devolucao
  THEN /\ devolucao' = [devolucao EXCEPT ![e].status = "CONFLITO"]
       /\ vale' = [vale EXCEPT ![e] = IF @ = "ABERTO" THEN "CANCELADO" ELSE @]
  ELSE UNCHANGED <<devolucao, vale>>

\* ConciliacaoDevolucaoConflito: event and return in one transaction
ConflitoLocal(c, e) ==
  /\ Tratando(c, e)
  /\ e \notin Travado
  /\ chamada[c].resultado[e] = "DIVERGENTE"
  /\ Gravar(e, "CONFLITO", evento[e].adiado)
  /\ DevolucaoEmConflito(e)
  /\ Tratado(c, e)
  /\ UNCHANGED <<venda, pagamento, usado, antes, aEnfileirar, rede, central, quedas>>

\* CONFLITO from the Central: the return first, the event in a later write
ConflitoCentral(c, e) ==
  /\ Tratando(c, e)
  /\ chamada[c].resultado[e] = "CONFLITO"
  /\ DevolucaoEmConflito(e)
  /\ chamada' = [chamada EXCEPT ![c] =
        [chamada[c] EXCEPT !.resultado = [chamada[c].resultado EXCEPT ![e] = "GRAVAR_CONFLITO"]]]
  /\ UNCHANGED <<venda, pagamento, usado, evento, antes, aEnfileirar, rede, central, quedas>>

GravarConflito(c, e) ==
  /\ Tratando(c, e)
  /\ e \notin Travado
  /\ chamada[c].resultado[e] = "GRAVAR_CONFLITO"
  /\ Gravar(e, "CONFLITO", evento[e].adiado)
  /\ Tratado(c, e)
  /\ UNCHANGED <<local, antes, aEnfileirar, rede, central, quedas>>

----------------------------------------------------------------------------

Fila ==
  \/ \E e \in Evento : Enfileirar(e) \/ Vencer(e)
  \/ \E n \in Nota : EnfileirarVendaDaNota(n)
  \/ Cair
  \/ \E m \in rede : CentralProcessa(m)

Chamada(c) ==
  \/ Selecionar(c)
  \/ DesistirRetry(c)
  \/ Marcar(c)
  \/ Falhar(c)
  \/ \E r \in [chamada[c].alvo -> RespostasCentral] : Responder(c, r)
  \/ \E e \in Evento : \/ VerificarRetry(c, e)
                       \/ Confirmar(c, e)
                       \/ Retry(c, e)
                       \/ ConflitoLocal(c, e)
                       \/ ConflitoCentral(c, e)
                       \/ GravarConflito(c, e)

Next == Loja \/ Fila \/ \E c \in Chamador : Chamada(c)

Spec == Init /\ [][Next]_vars

----------------------------------------------------------------------------
(* Safety. *)

\* An exchange sale is sent only when every return linked to it is materialised at
\* the Central and confirmed here: _evento_bloqueado_por_dependencia with the
\* dependencies that _preparar_evento_troca writes.
VendaSoDepoisDaDevolucao ==
  \A m \in rede : m.evento \in Venda =>
     \A d \in TrocasDe(m.evento) : devolucao[d].confirmada /\ central[d] # Nada

\* Every request for an event carries the snapshot of its first attempt, whoever
\* sends it and however often: "a primeira tentativa fixa o snapshot".
ReenvioIdentico ==
  \A m, n \in rede : m.evento = n.evento => m = n

\* What the Central was told of the use of a return's credit is what the store did
\* with it, from the moment it is told and ever after: the lock and the refusals of
\* vincular_credito_provisorio against _preparar_evento_troca.
CreditoConferido ==
  \A d \in Devolucao : central[d] # Nada => central[d].consumo = usado[d]

\* A credit is an active payment of one sale at most, and a consumed credit is still a
\* payment of the finalised sale that consumed it (venda_troca is never cleared).
CreditoEmUmaVenda ==
  \A d \in Devolucao :
     /\ \A v, w \in Venda : d \in pagamento[v] \cap pagamento[w] => v = w
     /\ usado[d] # Nenhuma => /\ venda[usado[d]] = "FINALIZADA"
                              /\ d \in pagamento[usado[d]]

\* A row marked SINCRONIZADO was processed by the Central with the payload the row
\* holds, and its return was confirmed here: the stale writes of two callers never
\* mark a row that nobody confirmed.
SincronizadoConfirmado ==
  \A e \in Evento : evento[e].status = "SINCRONIZADO" =>
     /\ central[e] = evento[e].payload
     /\ e \in Devolucao => devolucao[e].confirmada

\* The reconciliation of a return never meets a consumption that differs from the one
\* sent or from the one the Central answers: the exceptions of
\* _consumo_troca_devolucao and of _canonicalizar_devolucao_confirmada stay unused.
ConciliacaoFecha ==
  /\ \A d \in Devolucao : evento[d].status \in Ativos => ~Divergente(d)
  /\ \A c \in Chamador, d \in Devolucao :
        Tratando(c, d) /\ chamada[c].resultado[d] = "OK" => ConsumoConfere(d)

\* An exchange sale goes to the Central with the official documents of its credits,
\* the ones the Central answered for their returns.
VendaComValeOficial ==
  \A m \in rede : m.evento \in Venda => m.payload.oficiais = m.payload.creditos

(* The inductive invariant behind them, in named parts. *)

Existe(e) == evento[e].status # "AUSENTE"

Preparando(c) == chamada[c].fase = "preparando"

\* A row, or a callback that will write it, exists for a finalised sale only; an
\* attempted row exists; locked rows are active, of one transaction each, and only
\* while that transaction is open; what a caller has sent was attempted.
Lastro ==
  /\ \A v \in Venda : Existe(v) \/ v \in aEnfileirar => venda[v] = "FINALIZADA"
  /\ \A n \in Nota : n \in aEnfileirar => venda[VendaDaNota[n]] = "FINALIZADA"
  /\ \A e \in Evento : evento[e].tentado => Existe(e)
  /\ \A c \in Chamador : ~Preparando(c) => chamada[c].trava = {}
  /\ \A c \in Chamador : \A e \in chamada[c].trava : evento[e].status \in Ativos
  /\ \A c, k \in Chamador : c # k => chamada[c].trava \cap chamada[k].trava = {}
  /\ \A c \in Chamador : Preparando(c) => chamada[c].alvo \subseteq chamada[c].trava
  /\ \A c \in Chamador : chamada[c].fase \in {"enviando", "processando"} =>
        \A e \in chamada[c].alvo : evento[e].tentado

\* A credit that is a payment is linked to that sale; a consumed one is a payment of a
\* finalised sale.
Vinculo ==
  /\ \A v \in Venda : \A d \in pagamento[v] : devolucao[d].troca = v
  /\ \A d \in Devolucao : usado[d] # Nenhuma =>
        /\ devolucao[d].troca = usado[d]
        /\ venda[usado[d]] = "FINALIZADA"
        /\ d \in pagamento[usado[d]]

\* An attempted row was sent with the payload it holds.  The payload of a return that
\* was attempted, and the one an open transaction has prepared, tell the consumption
\* there is; the one prepared for a sale names every return linked to it.
Retrato ==
  /\ \A m \in rede : evento[m.evento].tentado /\ evento[m.evento].payload = m.payload
  /\ \A e \in Evento : evento[e].tentado => \E m \in rede : m.evento = e
  /\ \A d \in Devolucao :
        Existe(d) /\ (evento[d].tentado \/ usado[d] = Nenhuma) => evento[d].payload.consumo = usado[d]
  /\ \A c \in Chamador : \A e \in chamada[c].trava :
        /\ evento[e].tentado => chamada[c].pronto[e] = evento[e].payload
        /\ e \in Devolucao => chamada[c].pronto[e].consumo = usado[e]
        /\ e \in Venda /\ ~evento[e].tentado => TrocasDe(e) \subseteq chamada[c].pronto[e].deps

\* What the Central holds was sent; a confirmed return is there; a favourable result
\* that a caller still has to handle is about an event that is there.
NaCentral ==
  /\ \A e \in Evento : central[e] # Nada => \E m \in rede : m.evento = e /\ m.payload = central[e]
  /\ \A d \in Devolucao : devolucao[d].confirmada => central[d] # Nada
  /\ \A c \in Chamador, e \in Evento :
        (/\ chamada[c].fase = "processando" /\ e \in chamada[c].alvo
         /\ chamada[c].resultado[e] \in {"OK", "DIVERGENTE", "INVALIDO"})
        => central[e] # Nada

IInv == /\ Lastro /\ Vinculo /\ Retrato /\ NaCentral
        /\ VendaSoDepoisDaDevolucao /\ SincronizadoConfirmado

(* Action properties. *)

\* Once a return was sent, its credit and its exchange sale do not change any more
\* (vincular_credito_provisorio: "Devolucao ja enviada a Central").
TransmitidaNaoMuda ==
  [][\A d \in Devolucao : evento[d].tentado =>
        /\ usado'[d] = usado[d]
        /\ devolucao'[d].troca = devolucao[d].troca]_vars

\* A row in CONFLITO is left for administrative review: no call takes it back.
ConflitoTerminal ==
  [][\A e \in Evento : evento[e].status = "CONFLITO" => evento'[e].status = "CONFLITO"]_vars

----------------------------------------------------------------------------
(* Refinement: the queue keeps the promise of CreditoCentral. *)

creditoNaCentral == [d \in Devolucao |-> IF central[d] = Nada THEN Nada ELSE central[d].consumo]
liquidadas == {v \in Venda : central[v] # Nada}

Credito == INSTANCE CreditoCentral
             WITH consumo <- usado, credito <- creditoNaCentral, liquidada <- liquidadas

\* Every behaviour of the outbox, with its retries, stale writes and crashes, is one
\* of CreditoCentral.
CreditoSpec == Credito!Spec

----------------------------------------------------------------------------
(* Liveness.  The worker thread cycles for ever (SyncWorker.run), the callbacks of a
   commit run, a retry time comes, the Central processes what it receives and does
   not fail every call for ever; and a sale does not stay open for ever, because
   fechar_caixa refuses to close a session that has one. *)

Atende(c) == Responder(c, [e \in chamada[c].alvo |-> "OK"])

Justica ==
  /\ \A c \in Chamador \ Manual :
        /\ WF_vars(Selecionar(c))
        /\ WF_vars(Marcar(c))
        /\ WF_vars(Falhar(c))
        /\ SF_vars(Atende(c))
        /\ \A e \in Evento : WF_vars(Confirmar(c, e)) /\ WF_vars(Retry(c, e))
  /\ \A e \in Evento : WF_vars(Enfileirar(e)) /\ WF_vars(Vencer(e))
  /\ \A n \in Nota : WF_vars(EnfileirarVendaDaNota(n))
  /\ \A e \in Evento : WF_vars(\E m \in rede : m.evento = e /\ CentralProcessa(m))
  /\ \A v \in Venda :
        SF_vars(CancelarVenda(v) \/ \E esgotados \in SUBSET pagamento[v] : FinalizarVenda(v, esgotados))

SpecJusta == Spec /\ Justica

\* Without crashes and refusals, every event that a commit leaves to be enqueued ends
\* up confirmed, the ones that wait for other events included: the waits of
\* _evento_bloqueado_por_dependencia never close a circle.
EntregaFinal ==
  \A e \in Evento : (e \in aEnfileirar) ~> (evento[e].status = "SINCRONIZADO" \/ quedas > 0)

\* A crash while a batch is being sent leaves its rows in PROCESSANDO; they are taken
\* again and confirmed.
RetomaProcessando ==
  \A e \in Evento : (evento[e].status = "PROCESSANDO") ~> (evento[e].status = "SINCRONIZADO")

============================================================================
