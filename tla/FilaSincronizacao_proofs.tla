---------------------- MODULE FilaSincronizacao_proofs ----------------------
(***************************************************************************)
(* Theorems about FilaSincronizacao, for every set of sales, returns,      *)
(* notes and callers, every batch limit and every number of crashes.       *)
(***************************************************************************)
EXTENDS FilaSincronizacao, TLAPS

(***************************************************************************)
(* Types.                                                                  *)
(***************************************************************************)

\* The empty payload and the idle caller are values of their types.
LEMMA Repouso ==
  /\ Vazio \in Payload
  /\ Ociosa \in EstadoChamada
  /\ Ociosa.fase = "livre" /\ Ociosa.trava = {} /\ Ociosa.alvo = {}
BY Conjuntos DEF Vazio, Payload, Ociosa, EstadoChamada, Resposta

\* What a writer or _preparar_evento_troca computes is a payload.
LEMMA Payloads ==
  ASSUME TypeOK
  PROVE  /\ \A d \in Devolucao : PayloadDevolucao(d) \in Payload
         /\ \A v \in Venda, S \in SUBSET Devolucao : PayloadVenda(v, S) \in Payload
         /\ \A e \in Evento : PayloadInicial(e) \in Payload
         /\ \A e \in Evento : Preparado(e) \in Payload
<1>1. \A d \in Devolucao : PayloadDevolucao(d) \in Payload
  BY Repouso DEF TypeOK, PayloadDevolucao, Vazio, Payload
<1>2. \A v \in Venda, S \in SUBSET Devolucao : PayloadVenda(v, S) \in Payload
  BY DEF TypeOK, PayloadVenda, Payload
<1>3. ASSUME NEW e \in Evento
      PROVE  PayloadInicial(e) \in Payload
  <2>1. CASE e \in Venda
    <3>1. {d \in pagamento[e] : usado[d] = e /\ Provisorio(d)} \in SUBSET Devolucao
      BY <2>1 DEF TypeOK
    <3>2. PayloadVenda(e, {d \in pagamento[e] : usado[d] = e /\ Provisorio(d)}) \in Payload
      BY <1>2, <2>1, <3>1
    <3> QED
      BY <2>1, <3>2, Conjuntos DEF PayloadInicial
  <2>2. CASE e \in Devolucao
    BY <1>1, <2>2, Conjuntos DEF PayloadInicial
  <2>3. CASE e \in Nota
    BY <2>3, Repouso, Conjuntos DEF PayloadInicial
  <2> QED
    BY <2>1, <2>2, <2>3 DEF Evento
<1>4. \A e \in Evento : Preparado(e) \in Payload
  BY <1>1, <1>2 DEF Preparado, TypeOK, LinhaEvento, TrocasDe
<1> QED
  BY <1>1, <1>2, <1>3, <1>4

LEMMA TipoInicial == Init => TypeOK
BY Repouso, Conjuntos
   DEF Init, TypeOK, StatusVenda, StatusVale, StatusEvento, LinhaDevolucao, LinhaEvento,
       Payload, Vazio

\* A step of the store keeps the types.
LEMMA TipoLoja == TypeOK /\ Loja => TypeOK'
<1> SUFFICES ASSUME TypeOK, Loja PROVE TypeOK'
  OBVIOUS
<1> USE DEF TypeOK
<1>1. ASSUME NEW v \in Venda, AbrirVenda(v) \/ CancelarVenda(v) PROVE TypeOK'
  BY <1>1 DEF AbrirVenda, CancelarVenda, StatusVenda
<1>2. ASSUME NEW v \in Venda, NEW esgotados \in SUBSET pagamento[v], FinalizarVenda(v, esgotados)
      PROVE  TypeOK'
  BY <1>2, SMTT(30) DEF FinalizarVenda, StatusVenda, StatusVale, LinhaDevolucao, Evento
<1>3. ASSUME NEW v \in Venda, NEW d \in Devolucao, AplicarCredito(v, d) PROVE TypeOK'
  BY <1>3 DEF AplicarCredito, LinhaDevolucao
<1>4. ASSUME NEW v \in Venda, NEW d \in Devolucao, RemoverPagamento(v, d) PROVE TypeOK'
  BY <1>4 DEF RemoverPagamento
<1>5. ASSUME NEW v \in Venda, NEW d \in Devolucao, NEW credito \in BOOLEAN,
             FinalizarDevolucao(d, v, credito)
      PROVE  TypeOK'
  <2>1. devolucao' \in [Devolucao -> LinhaDevolucao]
    BY <1>5, ZenonT(60) DEF FinalizarDevolucao, LinhaDevolucao
  <2>2. vale' \in [Devolucao -> StatusVale]
    BY <1>5 DEF FinalizarDevolucao, StatusVale
  <2>3. aEnfileirar' \subseteq Evento
    BY <1>5 DEF FinalizarDevolucao, Evento
  <2>4. QED
    BY <1>5, <2>1, <2>2, <2>3 DEF FinalizarDevolucao
<1>6. ASSUME NEW n \in Nota, AlterarNfce(n) PROVE TypeOK'
  BY <1>6 DEF AlterarNfce, Evento
<1> QED
  BY <1>1, <1>2, <1>3, <1>4, <1>5, <1>6 DEF Loja

\* The creation of a row keeps the types of the queue.
LEMMA TipoCriar ==
  ASSUME TypeOK, NEW e \in Evento, Criar(e)
  PROVE  evento' \in [Evento -> LinhaEvento] /\ antes' \in [Evento -> SUBSET Evento]
BY Payloads DEF TypeOK, Criar, LinhaEvento, StatusEvento

\* A save of a row keeps its type, and changes no other row and no payload.
LEMMA TipoGravar ==
  ASSUME TypeOK, NEW e \in Evento, NEW s \in StatusEvento, NEW a \in BOOLEAN, Gravar(e, s, a)
  PROVE  /\ evento' \in [Evento -> LinhaEvento]
         /\ \A f \in Evento \ {e} : evento'[f] = evento[f]
         /\ evento'[e].status = s
         /\ evento'[e].tentado = evento[e].tentado
         /\ evento'[e].payload = evento[e].payload
<1>1. evento[e] \in LinhaEvento
  BY DEF TypeOK
<1>2. /\ [evento[e] EXCEPT !.status = s, !.adiado = a] \in LinhaEvento
      /\ [evento[e] EXCEPT !.status = s, !.adiado = a].status = s
      /\ [evento[e] EXCEPT !.status = s, !.adiado = a].tentado = evento[e].tentado
      /\ [evento[e] EXCEPT !.status = s, !.adiado = a].payload = evento[e].payload
  BY <1>1 DEF LinhaEvento
<1> QED
  BY <1>2 DEF Gravar, TypeOK

LEMMA TipoFila == TypeOK /\ Fila => TypeOK'
<1> SUFFICES ASSUME TypeOK, Fila PROVE TypeOK'
  OBVIOUS
<1>1. ASSUME NEW e \in Evento, Enfileirar(e) PROVE TypeOK'
  BY <1>1, TipoCriar DEF Enfileirar, TypeOK, local
<1>2. ASSUME NEW e \in Evento, Vencer(e) PROVE TypeOK'
  BY <1>2, TipoGravar DEF Vencer, TypeOK, local, LinhaEvento
<1>3. ASSUME NEW n \in Nota, EnfileirarVendaDaNota(n) PROVE TypeOK'
  <2>1. VendaDaNota[n] \in Evento
    BY Conjuntos DEF Evento
  <2> QED
    BY <1>3, <2>1, TipoCriar DEF EnfileirarVendaDaNota, TypeOK, local
<1>4. CASE Cair
  BY <1>4, Repouso, Conjuntos DEF Cair, TypeOK, local
<1>5. ASSUME NEW m \in rede, CentralProcessa(m) PROVE TypeOK'
  BY <1>5 DEF CentralProcessa, TypeOK, local, Pedido
<1> QED
  BY <1>1, <1>2, <1>3, <1>4, <1>5 DEF Fila

\* The removal of a handled event leaves a caller of the type.
LEMMA TipoTratado ==
  ASSUME TypeOK, NEW c \in Chamador, NEW e \in Evento, Tratado(c, e)
  PROVE  chamada' \in [Chamador -> EstadoChamada]
BY Repouso, ZenonT(60) DEF TypeOK, Tratado, EstadoChamada

\* A return in conflict keeps the types of returns and credits.
LEMMA TipoConflito ==
  ASSUME TypeOK, NEW e \in Evento, DevolucaoEmConflito(e)
  PROVE  devolucao' \in [Devolucao -> LinhaDevolucao] /\ vale' \in [Devolucao -> StatusVale]
<1>1. CASE e \in Devolucao
  <2>1. [devolucao[e] EXCEPT !.status = "CONFLITO"] \in LinhaDevolucao
    BY <1>1, SMTT(30) DEF TypeOK, LinhaDevolucao
  <2>2. devolucao' \in [Devolucao -> LinhaDevolucao]
    BY <1>1, <2>1 DEF TypeOK, DevolucaoEmConflito
  <2>3. vale' \in [Devolucao -> StatusVale]
    BY <1>1 DEF TypeOK, DevolucaoEmConflito, StatusVale
  <2> QED
    BY <2>2, <2>3
<1>2. CASE e \notin Devolucao
  BY <1>2 DEF TypeOK, DevolucaoEmConflito
<1> QED
  BY <1>1, <1>2

LEMMA TipoChamada == \A c \in Chamador : TypeOK /\ Chamada(c) => TypeOK'
<1> SUFFICES ASSUME NEW c \in Chamador, TypeOK, Chamada(c) PROVE TypeOK'
  OBVIOUS
<1>1. CASE Selecionar(c)
  <2>1. Lote(c) \in SUBSET Evento
    BY DEF Lote, MaisAntigos
  <2>2. [e \in Evento |-> IF e \in Lote(c) THEN Preparado(e) ELSE Vazio] \in [Evento -> Payload]
    BY Payloads, Repouso
  <2>3. chamada' \in [Chamador -> EstadoChamada]
    BY <1>1, <2>1, <2>2, Repouso DEF Selecionar, TypeOK, EstadoChamada
  <2> QED
    BY <1>1, <2>3 DEF Selecionar, TypeOK, local
<1>2. CASE DesistirRetry(c)
  BY <1>2, Repouso DEF DesistirRetry, TypeOK, local
<1>3. CASE Marcar(c)
  <2> DEFINE ch == chamada[c]
             enviados == {e \in ch.alvo : ~Bloqueado(e, ch.pronto[e])}
  <2>1. ch \in EstadoChamada /\ enviados \in SUBSET Evento
    BY DEF TypeOK, EstadoChamada
  <2> HIDE DEF enviados
  <2>2. evento' \in [Evento -> LinhaEvento]
    BY <1>3, <2>1 DEF Marcar, TypeOK, LinhaEvento, StatusEvento, EstadoChamada, enviados
  <2>3. rede' \subseteq Pedido
    BY <1>3, <2>1 DEF Marcar, TypeOK, Pedido, EstadoChamada, enviados
  <2>4. chamada' \in [Chamador -> EstadoChamada]
    BY <1>3, <2>1, Repouso DEF Marcar, TypeOK, EstadoChamada, enviados
  <2> QED
    BY <1>3, <2>2, <2>3, <2>4 DEF Marcar, TypeOK, local
<1>4. ASSUME NEW r \in [chamada[c].alvo -> Resposta], Responder(c, r) PROVE TypeOK'
  <2>1. [e \in Evento |-> IF e \in DOMAIN r THEN r[e] ELSE "ERRO"] \in [Evento -> Resposta]
    BY DEF Resposta
  <2>2. [chamada[c] EXCEPT !.fase = "processando",
                           !.resultado = [e \in Evento |-> IF e \in DOMAIN r THEN r[e] ELSE "ERRO"]]
           \in EstadoChamada
    BY <2>1, ZenonT(60) DEF TypeOK, EstadoChamada
  <2> QED
    BY <1>4, <2>2 DEF Responder, TypeOK, local
<1>5. CASE Falhar(c)
  BY <1>4, <1>5 DEF Falhar, Resposta
<1>6. ASSUME NEW e \in Evento, VerificarRetry(c, e) PROVE TypeOK'
  <2>1. evento' \in [Evento -> LinhaEvento]
    BY <1>6, TipoGravar DEF VerificarRetry, TypeOK, LinhaEvento
  <2>2. chamada' \in [Chamador -> EstadoChamada]
    BY <1>6, Repouso, ZenonT(60) DEF VerificarRetry, TypeOK, EstadoChamada
  <2> QED
    BY <1>6, <2>1, <2>2 DEF VerificarRetry, TypeOK, local
<1>7. ASSUME NEW e \in Evento, Confirmar(c, e) PROVE TypeOK'
  <2>1. evento' \in [Evento -> LinhaEvento]
    BY <1>7, TipoGravar DEF Confirmar, StatusEvento
  <2>2. CASE e \in Devolucao
    <3>1. [devolucao[e] EXCEPT !.status = "FINALIZADA", !.confirmada = TRUE] \in LinhaDevolucao
      BY <2>2, ZenonT(60) DEF TypeOK, LinhaDevolucao
    <3>2. devolucao' \in [Devolucao -> LinhaDevolucao]
      BY <1>7, <2>2, <3>1 DEF Confirmar, TypeOK
    <3>3. vale' \in [Devolucao -> StatusVale]
      BY <1>7, <2>2 DEF Confirmar, TypeOK, StatusVale
    <3> QED
      BY <1>7, <2>1, <3>2, <3>3, TipoTratado DEF Confirmar, TypeOK
  <2>3. CASE e \notin Devolucao
    BY <1>7, <2>1, <2>3, TipoTratado DEF Confirmar, TypeOK
  <2> QED
    BY <2>2, <2>3
<1>8. ASSUME NEW e \in Evento, Retry(c, e) \/ GravarConflito(c, e) PROVE TypeOK'
  <2>1. evento' \in [Evento -> LinhaEvento]
    BY <1>8, TipoGravar DEF Retry, GravarConflito, StatusEvento, TypeOK, LinhaEvento
  <2> QED
    BY <1>8, <2>1, TipoTratado DEF Retry, GravarConflito, TypeOK, local
<1>9. ASSUME NEW e \in Evento, ConflitoLocal(c, e) PROVE TypeOK'
  <2>1. evento' \in [Evento -> LinhaEvento]
    BY <1>9, TipoGravar DEF ConflitoLocal, StatusEvento, TypeOK, LinhaEvento
  <2> QED
    BY <1>9, <2>1, TipoTratado, TipoConflito DEF ConflitoLocal, TypeOK
<1>10. ASSUME NEW e \in Evento, ConflitoCentral(c, e) PROVE TypeOK'
  <2> DEFINE gravar == [chamada[c].resultado EXCEPT ![e] = "GRAVAR_CONFLITO"]
  <2>1. gravar \in [Evento -> Resposta \cup {"GRAVAR_CONFLITO"}]
    BY DEF TypeOK, EstadoChamada
  <2>2. chamada' = [chamada EXCEPT ![c] = [chamada[c] EXCEPT !.resultado = gravar]]
    BY <1>10 DEF ConflitoCentral
  <2> HIDE DEF gravar
  <2>3. [chamada[c] EXCEPT !.resultado = gravar] \in EstadoChamada
    BY <2>1, ZenonT(60) DEF TypeOK, EstadoChamada
  <2> QED
    BY <1>10, <2>2, <2>3, TipoConflito DEF ConflitoCentral, TypeOK
<1>11. ASSUME NEW r \in [chamada[c].alvo -> RespostasCentral], Responder(c, r) PROVE TypeOK'
  BY <1>4, <1>11, Conjuntos
<1> QED
  BY <1>1, <1>2, <1>3, <1>5, <1>6, <1>7, <1>8, <1>9, <1>10, <1>11 DEF Chamada

LEMMA TipoPasso == TypeOK /\ [Next]_vars => TypeOK'
<1>1. TypeOK /\ UNCHANGED vars => TypeOK'
  BY DEF TypeOK, vars
<1> QED
  BY <1>1, TipoLoja, TipoFila, TipoChamada DEF Next

\* Every variable keeps its type.
THEOREM TipoCorreto == Spec => []TypeOK
BY TipoInicial, TipoPasso, PTL DEF Spec

(***************************************************************************)
(* The inductive invariant.  The steps fall into five kinds: a step of the *)
(* store, the creation of a row, the selection of a batch, its marking and *)
(* sending, and the quiet steps, which change no payload, take no lock and *)
(* send nothing.                                                           *)
(***************************************************************************)

Favoravel == {"OK", "DIVERGENTE", "INVALIDO"}

\* What a quiet step may do to the rows of the queue and to the Central.
FilaCalma ==
  \A e \in Evento :
     /\ evento'[e].tentado = evento[e].tentado
     /\ evento'[e].payload = evento[e].payload
     /\ evento'[e].status = "AUSENTE" <=> evento[e].status = "AUSENTE"
     /\ evento'[e].status = "SINCRONIZADO" =>
           \/ evento[e].status = "SINCRONIZADO"
           \/ central[e] # Nada /\ (e \in Devolucao => devolucao'[e].confirmada)
     /\ \/ central'[e] = central[e]
        \/ central[e] = Nada /\ \E m \in rede : m.evento = e /\ m.payload = central'[e]

\* What it may do to the callers.
ChamadaCalma ==
  \A c \in Chamador :
     /\ chamada'[c].trava # {} =>
           /\ chamada'[c] = chamada[c]
           /\ \A e \in chamada[c].trava : evento'[e].status = evento[e].status
     /\ chamada'[c].fase = "preparando" => chamada'[c] = chamada[c]
     /\ chamada'[c].fase \in {"enviando", "processando"} =>
           /\ chamada[c].fase \in {"enviando", "processando"}
           /\ chamada'[c].alvo \subseteq chamada[c].alvo
     /\ chamada'[c].fase = "processando" =>
           \A e \in chamada'[c].alvo : chamada'[c].resultado[e] \in Favoravel => central[e] # Nada

\* What it may do to the returns.
LojaCalma ==
  /\ UNCHANGED <<venda, pagamento, usado>>
  /\ \A d \in Devolucao :
        /\ devolucao'[d].troca = devolucao[d].troca
        /\ devolucao[d].confirmada => devolucao'[d].confirmada
        /\ devolucao'[d].confirmada => devolucao[d].confirmada \/ central[d] # Nada

Calmo == LojaCalma /\ FilaCalma /\ ChamadaCalma /\ rede' = rede /\ aEnfileirar' \subseteq aEnfileirar

\* Nothing is locked in an idle call, and a call that is open keeps what Lastro says.
LEMMA CairCalmo == TypeOK /\ IInv /\ Cair => Calmo
BY Repouso DEF Cair, Calmo, LojaCalma, FilaCalma, ChamadaCalma, local, TypeOK

LEMMA CentralCalma ==
  ASSUME TypeOK, IInv, NEW m \in rede, CentralProcessa(m)
  PROVE  Calmo
<1>1. m.evento \in Evento /\ m.payload \in Payload
  BY DEF TypeOK, Pedido
<1>2. FilaCalma
  <2>1. \A e \in Evento : central'[e] = IF e = m.evento THEN m.payload ELSE central[e]
    BY <1>1 DEF CentralProcessa, TypeOK
  <2> QED
    BY <1>1, <2>1 DEF CentralProcessa, FilaCalma, local
<1>3. ChamadaCalma
  BY DEF CentralProcessa, ChamadaCalma, IInv, NaCentral, Favoravel, TypeOK, EstadoChamada
<1> QED
  BY <1>2, <1>3 DEF CentralProcessa, Calmo, LojaCalma, local

LEMMA VencerCalmo ==
  ASSUME TypeOK, IInv, NEW e \in Evento, Vencer(e)
  PROVE  Calmo
<1>1. evento[e].status \in StatusEvento
  BY DEF TypeOK, LinhaEvento
<1>2. \A f \in Evento : /\ evento'[f].status = evento[f].status
                        /\ evento'[f].tentado = evento[f].tentado
                        /\ evento'[f].payload = evento[f].payload
  BY <1>1, TipoGravar DEF Vencer
<1>3. FilaCalma
  BY <1>2 DEF Vencer, FilaCalma
<1>4. ChamadaCalma
  BY <1>2 DEF Vencer, ChamadaCalma, IInv, NaCentral, Favoravel, TypeOK, EstadoChamada
<1> QED
  BY <1>3, <1>4 DEF Vencer, Calmo, LojaCalma, local

LEMMA RetryManualCalmo ==
  ASSUME TypeOK, IInv, NEW c \in Chamador, NEW e \in Evento, VerificarRetry(c, e)
  PROVE  Calmo
<1>1. evento[e].status \in StatusEvento
  BY DEF TypeOK, LinhaEvento
<1>2. \A f \in Evento : /\ evento'[f].status = evento[f].status
                        /\ evento'[f].tentado = evento[f].tentado
                        /\ evento'[f].payload = evento[f].payload
  BY <1>1, TipoGravar DEF VerificarRetry
<1>3. FilaCalma
  BY <1>2 DEF VerificarRetry, FilaCalma
<1>4. /\ \A k \in Chamador \ {c} : chamada'[k] = chamada[k]
      /\ chamada'[c].trava = {} /\ chamada'[c].fase = "verificado"
  BY Repouso DEF VerificarRetry, TypeOK, EstadoChamada
<1>5. ChamadaCalma
  BY <1>2, <1>4 DEF ChamadaCalma, IInv, NaCentral, Favoravel, TypeOK, EstadoChamada
<1> QED
  BY <1>3, <1>5 DEF VerificarRetry, Calmo, LojaCalma, local

LEMMA DesistirCalmo ==
  ASSUME TypeOK, IInv, NEW c \in Chamador, DesistirRetry(c)
  PROVE  Calmo
<1>1. /\ \A k \in Chamador \ {c} : chamada'[k] = chamada[k]
      /\ chamada'[c] = Ociosa
  BY DEF DesistirRetry, TypeOK
<1>2. ChamadaCalma
  BY <1>1, Repouso DEF DesistirRetry, ChamadaCalma, IInv, NaCentral, Favoravel, TypeOK, EstadoChamada
<1> QED
  BY <1>2 DEF DesistirRetry, Calmo, LojaCalma, FilaCalma, local

LEMMA ResponderCalmo ==
  ASSUME TypeOK, IInv, NEW c \in Chamador, NEW r \in [chamada[c].alvo -> Resposta], Responder(c, r)
  PROVE  Calmo
<1>1. chamada[c] \in EstadoChamada
  BY DEF TypeOK
<1>2. /\ \A k \in Chamador \ {c} : chamada'[k] = chamada[k]
      /\ chamada'[c].fase = "processando" /\ chamada[c].fase = "enviando"
      /\ chamada'[c].alvo = chamada[c].alvo /\ chamada'[c].trava = chamada[c].trava
      /\ \A e \in chamada[c].alvo : chamada'[c].resultado[e] = r[e]
  BY <1>1 DEF Responder, TypeOK, EstadoChamada
<1>3. chamada[c].trava = {}
  BY <1>2 DEF IInv, Lastro, Preparando
<1>4. \A e \in chamada[c].alvo : r[e] \in Favoravel => central[e] # Nada
  BY DEF Responder, Coerente, Favoravel
<1>5. ChamadaCalma
  BY <1>1, <1>2, <1>3, <1>4 DEF Responder, ChamadaCalma, IInv, NaCentral, Favoravel, TypeOK, EstadoChamada
<1> QED
  BY <1>5 DEF Responder, Calmo, LojaCalma, FilaCalma, local

\* The end of the handling of one result.
LEMMA TratadoCalmo ==
  ASSUME TypeOK, IInv, NEW c \in Chamador, NEW e \in Evento, Tratando(c, e), Tratado(c, e),
         \A f \in Evento \ {e} : evento'[f] = evento[f],
         e \notin Travado
  PROVE  ChamadaCalma
<1>1. chamada[c] \in EstadoChamada
  BY DEF TypeOK
<1>2. /\ \A k \in Chamador \ {c} : chamada'[k] = chamada[k]
      /\ chamada'[c] = Ociosa \/ chamada'[c] = [chamada[c] EXCEPT !.alvo = chamada[c].alvo \ {e}]
  BY DEF Tratado, TypeOK
<1>3. chamada[c].trava = {} /\ chamada[c].fase = "processando"
  BY DEF IInv, Lastro, Preparando, Tratando
<1>4. \A k \in Chamador : \A f \in chamada[k].trava : evento'[f].status = evento[f].status
  <2>1. \A k \in Chamador : e \notin chamada[k].trava /\ chamada[k].trava \subseteq Evento
    BY DEF Travado, TypeOK, EstadoChamada
  <2> QED
    BY <2>1
<1>5. \A k \in Chamador : chamada[k].fase = "processando" =>
         \A f \in chamada[k].alvo : chamada[k].resultado[f] \in Favoravel => central[f] # Nada
  BY DEF IInv, NaCentral, Favoravel, TypeOK, EstadoChamada
<1>6. CASE chamada'[c] = Ociosa
  BY <1>2, <1>4, <1>5, <1>6, Repouso DEF ChamadaCalma
<1>7. CASE chamada'[c] = [chamada[c] EXCEPT !.alvo = chamada[c].alvo \ {e}]
  <2>1. /\ chamada'[c].fase = "processando" /\ chamada'[c].trava = {}
        /\ chamada'[c].alvo = chamada[c].alvo \ {e}
        /\ chamada'[c].resultado = chamada[c].resultado
    BY <1>1, <1>3, <1>7 DEF EstadoChamada
  <2> QED
    BY <1>2, <1>3, <1>4, <1>5, <2>1 DEF ChamadaCalma
<1> QED
  BY <1>2, <1>6, <1>7

\* The event whose result is handled exists, and was attempted.
LEMMA TratandoTentado ==
  ASSUME TypeOK, IInv, NEW c \in Chamador, NEW e \in Evento, Tratando(c, e)
  PROVE  /\ evento[e].tentado /\ evento[e].status # "AUSENTE"
         /\ chamada[c].resultado[e] \in Favoravel => central[e] # Nada
<1>1. e \in chamada[c].alvo /\ chamada[c].fase = "processando"
  BY DEF Tratando, MaisAntigos
<1> QED
  BY <1>1 DEF IInv, Lastro, NaCentral, Existe, Favoravel

LEMMA ConfirmarCalmo ==
  ASSUME TypeOK, IInv, NEW c \in Chamador, NEW e \in Evento, Confirmar(c, e)
  PROVE  Calmo
<1>1. /\ \A f \in Evento \ {e} : evento'[f] = evento[f]
      /\ evento'[e].status = "SINCRONIZADO"
      /\ evento'[e].tentado = evento[e].tentado /\ evento'[e].payload = evento[e].payload
  BY TipoGravar DEF Confirmar, StatusEvento
<1>2. central[e] # Nada /\ evento[e].status # "AUSENTE"
  BY TratandoTentado DEF Confirmar, Favoravel
<1>3. /\ \A d \in Devolucao \ {e} : devolucao'[d] = devolucao[d]
      /\ e \in Devolucao => devolucao'[e].confirmada /\ devolucao'[e].troca = devolucao[e].troca
  BY DEF Confirmar, TypeOK, LinhaDevolucao
<1>4. FilaCalma
  BY <1>1, <1>2, <1>3 DEF Confirmar, FilaCalma
<1>5. ChamadaCalma
  BY <1>1, TratadoCalmo DEF Confirmar
<1>6. LojaCalma
  BY <1>2, <1>3 DEF Confirmar, LojaCalma
<1> QED
  BY <1>4, <1>5, <1>6 DEF Confirmar, Calmo

\* A return in conflict keeps its exchange sale and its confirmation.
LEMMA ConflitoCalmo ==
  ASSUME TypeOK, NEW e \in Evento, DevolucaoEmConflito(e), UNCHANGED <<venda, pagamento, usado>>
  PROVE  LojaCalma
BY DEF DevolucaoEmConflito, LojaCalma, TypeOK, LinhaDevolucao

LEMMA GravacoesCalmas ==
  ASSUME TypeOK, IInv, NEW c \in Chamador, NEW e \in Evento,
         Retry(c, e) \/ GravarConflito(c, e) \/ ConflitoLocal(c, e)
  PROVE  Calmo
<1>1. \E s \in {"ERRO", "CONFLITO"}, a \in BOOLEAN : Gravar(e, s, a)
  BY DEF Retry, GravarConflito, ConflitoLocal, TypeOK, LinhaEvento
<1>2. /\ \A f \in Evento \ {e} : evento'[f] = evento[f]
      /\ evento'[e].status \in {"ERRO", "CONFLITO"}
      /\ evento'[e].tentado = evento[e].tentado /\ evento'[e].payload = evento[e].payload
  BY <1>1, TipoGravar DEF StatusEvento
<1>3. /\ Tratando(c, e) /\ Tratado(c, e) /\ e \notin Travado
      /\ UNCHANGED <<venda, pagamento, usado, aEnfileirar, rede, central>>
  BY DEF Retry, GravarConflito, ConflitoLocal, local
<1>4. evento[e].status # "AUSENTE"
  BY <1>3, TratandoTentado
<1>5. FilaCalma
  BY <1>2, <1>3, <1>4 DEF FilaCalma
<1>6. ChamadaCalma
  BY <1>2, <1>3, TratadoCalmo
<1>7. LojaCalma
  BY <1>3, ConflitoCalmo DEF Retry, GravarConflito, ConflitoLocal, local, LojaCalma
<1> QED
  BY <1>3, <1>5, <1>6, <1>7 DEF Calmo

LEMMA ConflitoCentralCalmo ==
  ASSUME TypeOK, IInv, NEW c \in Chamador, NEW e \in Evento, ConflitoCentral(c, e)
  PROVE  Calmo
<1> DEFINE gravar == [chamada[c].resultado EXCEPT ![e] = "GRAVAR_CONFLITO"]
<1>1. chamada[c] \in EstadoChamada
  BY DEF TypeOK
<1>2. /\ \A f \in Evento \ {e} : gravar[f] = chamada[c].resultado[f]
      /\ gravar[e] = "GRAVAR_CONFLITO"
  BY <1>1 DEF EstadoChamada
<1>3. chamada' = [chamada EXCEPT ![c] = [chamada[c] EXCEPT !.resultado = gravar]]
  BY DEF ConflitoCentral
<1> HIDE DEF gravar
<1>4. /\ \A k \in Chamador \ {c} : chamada'[k] = chamada[k]
      /\ chamada'[c].fase = chamada[c].fase /\ chamada'[c].alvo = chamada[c].alvo
      /\ chamada'[c].trava = chamada[c].trava /\ chamada'[c].resultado = gravar
  BY <1>1, <1>3 DEF TypeOK, EstadoChamada
<1>5. chamada[c].trava = {} /\ chamada[c].fase = "processando"
  BY DEF IInv, Lastro, Preparando, Tratando, ConflitoCentral
<1>6. ChamadaCalma
  BY <1>1, <1>2, <1>4, <1>5
     DEF ConflitoCentral, ChamadaCalma, IInv, NaCentral, Favoravel, TypeOK, EstadoChamada
<1>7. LojaCalma
  BY ConflitoCalmo DEF ConflitoCentral
<1> QED
  BY <1>6, <1>7 DEF ConflitoCentral, Calmo, FilaCalma

\* A quiet step keeps every part of the invariant.
LEMMA CalmoMantem ==
  ASSUME TypeOK, TypeOK', IInv, Calmo
  PROVE  IInv'
<1> USE DEF Calmo
<1>1. Lastro'
  <2>1. \A e \in Evento : Existe(e)' <=> Existe(e)
    BY DEF Existe, FilaCalma
  <2>2. \A c \in Chamador : chamada'[c].trava # {} \/ Preparando(c)' => chamada'[c] = chamada[c]
    BY DEF ChamadaCalma, Preparando
  <2>3. /\ \A v \in Venda : Existe(v)' \/ v \in aEnfileirar' => venda'[v] = "FINALIZADA"
        /\ \A n \in Nota : n \in aEnfileirar' => venda'[VendaDaNota[n]] = "FINALIZADA"
    BY <2>1 DEF IInv, Lastro, LojaCalma, Evento
  <2>4. \A e \in Evento : evento'[e].tentado => Existe(e)'
    BY <2>1 DEF IInv, Lastro, FilaCalma
  <2>5. \A c \in Chamador : ~Preparando(c)' => chamada'[c].trava = {}
    BY <2>2 DEF IInv, Lastro, Preparando
  <2>6. \A c \in Chamador : \A e \in chamada'[c].trava : evento'[e].status \in Ativos
    BY <2>2 DEF IInv, Lastro, ChamadaCalma
  <2>7. \A c, k \in Chamador : c # k => chamada'[c].trava \cap chamada'[k].trava = {}
    BY <2>2 DEF IInv, Lastro
  <2>8. \A c \in Chamador : Preparando(c)' => chamada'[c].alvo \subseteq chamada'[c].trava
    BY <2>2 DEF IInv, Lastro, Preparando
  <2>9. \A c \in Chamador : chamada'[c].fase \in {"enviando", "processando"} =>
           \A e \in chamada'[c].alvo : evento'[e].tentado
    BY DEF IInv, Lastro, ChamadaCalma, FilaCalma, TypeOK, EstadoChamada
  <2> QED
    BY <2>3, <2>4, <2>5, <2>6, <2>7, <2>8, <2>9 DEF Lastro
<1>2. Vinculo'
  BY DEF IInv, Vinculo, LojaCalma, TypeOK
<1>3. Retrato'
  <2>1. \A m \in rede' : evento'[m.evento].tentado /\ evento'[m.evento].payload = m.payload
    BY DEF IInv, Retrato, FilaCalma, TypeOK, Pedido
  <2>2. \A e \in Evento : evento'[e].tentado => \E m \in rede' : m.evento = e
    BY DEF IInv, Retrato, FilaCalma
  <2>3. \A d \in Devolucao :
          Existe(d)' /\ (evento'[d].tentado \/ usado'[d] = Nenhuma) => evento'[d].payload.consumo = usado'[d]
    BY DEF IInv, Retrato, FilaCalma, LojaCalma, Existe, Evento
  <2>4. \A c \in Chamador : \A e \in chamada'[c].trava :
          /\ evento'[e].tentado => chamada'[c].pronto[e] = evento'[e].payload
          /\ e \in Devolucao => chamada'[c].pronto[e].consumo = usado'[e]
          /\ e \in Venda /\ ~evento'[e].tentado => TrocasDe(e)' \subseteq chamada'[c].pronto[e].deps
    <3>1. \A c \in Chamador : \A e \in chamada'[c].trava : chamada'[c] = chamada[c] /\ e \in Evento
      BY DEF ChamadaCalma, TypeOK, EstadoChamada
    <3>2. \A v \in Venda : TrocasDe(v)' = TrocasDe(v)
      BY DEF TrocasDe, LojaCalma
    <3> QED
      BY <3>1, <3>2 DEF IInv, Retrato, FilaCalma, LojaCalma
  <2> QED
    BY <2>1, <2>2, <2>3, <2>4 DEF Retrato
<1>4. NaCentral'
  <2>1. \A e \in Evento : central[e] # Nada => central'[e] # Nada
    BY DEF FilaCalma
  <2>2. \A e \in Evento : central'[e] # Nada => \E m \in rede' : m.evento = e /\ m.payload = central'[e]
    BY DEF FilaCalma, IInv, NaCentral
  <2>3. \A d \in Devolucao : devolucao'[d].confirmada => central'[d] # Nada
    BY <2>1 DEF LojaCalma, IInv, NaCentral, Evento
  <2>4. \A c \in Chamador, e \in Evento :
          (/\ chamada'[c].fase = "processando" /\ e \in chamada'[c].alvo
           /\ chamada'[c].resultado[e] \in {"OK", "DIVERGENTE", "INVALIDO"})
          => central'[e] # Nada
    BY <2>1 DEF ChamadaCalma, Favoravel
  <2> QED
    BY <2>2, <2>3, <2>4 DEF NaCentral
<1>5. VendaSoDepoisDaDevolucao'
  <2>1. \A d \in Devolucao : central[d] # Nada => central'[d] # Nada
    BY DEF FilaCalma, Evento
  <2>2. \A v \in Venda : TrocasDe(v)' = TrocasDe(v)
    BY DEF TrocasDe, LojaCalma
  <2> QED
    BY <2>1, <2>2 DEF IInv, VendaSoDepoisDaDevolucao, LojaCalma, TrocasDe
<1>6. SincronizadoConfirmado'
  <2> SUFFICES ASSUME NEW e \in Evento, evento'[e].status = "SINCRONIZADO"
               PROVE  central'[e] = evento'[e].payload /\ (e \in Devolucao => devolucao'[e].confirmada)
    BY DEF SincronizadoConfirmado
  <2>1. evento[e].payload \in Payload
    BY DEF TypeOK, LinhaEvento
  <2>2. evento'[e].payload = evento[e].payload
    BY DEF FilaCalma
  <2>3. CASE evento[e].status = "SINCRONIZADO"
    BY <2>1, <2>2, <2>3, Conjuntos DEF IInv, SincronizadoConfirmado, FilaCalma, LojaCalma
  <2>4. CASE central[e] # Nada /\ (e \in Devolucao => devolucao'[e].confirmada)
    <3>1. \E m \in rede : m.evento = e /\ m.payload = central[e]
      BY <2>4 DEF IInv, NaCentral
    <3>2. central[e] = evento[e].payload
      BY <3>1 DEF IInv, Retrato
    <3> QED
      BY <2>2, <2>4, <3>2 DEF FilaCalma
  <2> QED
    BY <2>3, <2>4 DEF FilaCalma
<1> QED
  BY <1>1, <1>2, <1>3, <1>4, <1>5, <1>6 DEF IInv

\* The first state has no row, no request and nothing at the Central.
LEMMA InicioVale == Init => IInv
<1> SUFFICES ASSUME Init PROVE IInv
  OBVIOUS
<1>1. TypeOK
  BY TipoInicial
<1>2. Lastro
  BY Repouso DEF Init, Lastro, Existe, Preparando, Evento
<1>3. Vinculo /\ VendaSoDepoisDaDevolucao /\ SincronizadoConfirmado
  BY DEF Init, Vinculo, VendaSoDepoisDaDevolucao, SincronizadoConfirmado
<1>4. Retrato
  BY Repouso DEF Init, Retrato, Existe, Evento
<1>5. NaCentral
  BY Repouso DEF Init, NaCentral
<1> QED
  BY <1>2, <1>3, <1>4, <1>5 DEF IInv

\* What a step of the store may do.
LojaSegue ==
  /\ \A v \in Venda : venda[v] = "FINALIZADA" =>
        venda'[v] = "FINALIZADA" /\ TrocasDe(v)' \subseteq TrocasDe(v)
  /\ \A d \in Devolucao :
        /\ devolucao'[d].confirmada = devolucao[d].confirmada
        /\ \/ usado'[d] = usado[d]
           \/ /\ usado[d] = Nenhuma /\ usado'[d] # Nenhuma
              /\ ~evento[d].tentado /\ d \notin Travado
  /\ \A v \in Venda : v \in aEnfileirar' => v \in aEnfileirar \/ venda'[v] = "FINALIZADA"
  /\ \A n \in Nota : n \in aEnfileirar' => n \in aEnfileirar \/ venda'[VendaDaNota[n]] = "FINALIZADA"
  /\ Vinculo'

LEMMA LojaFora == Loja => UNCHANGED <<evento, antes, chamada, rede, central, quedas>>
BY DEF Loja, AbrirVenda, CancelarVenda, FinalizarVenda, AplicarCredito, RemoverPagamento,
       FinalizarDevolucao, AlterarNfce

LEMMA LojaMuda ==
  ASSUME TypeOK, IInv, Loja
  PROVE  LojaSegue
<1> USE Conjuntos
<1>1. ASSUME NEW v \in Venda, AbrirVenda(v) \/ CancelarVenda(v) PROVE LojaSegue
  <2>1. /\ UNCHANGED <<pagamento, devolucao, usado, aEnfileirar>>
        /\ \A w \in Venda : venda[w] = "FINALIZADA" => venda'[w] = "FINALIZADA"
    BY <1>1 DEF AbrirVenda, CancelarVenda, TypeOK
  <2>2. Vinculo'
    BY <2>1 DEF IInv, Vinculo, TypeOK
  <2> QED
    BY <2>1, <2>2 DEF LojaSegue, TrocasDe
<1>2. ASSUME NEW v \in Venda, NEW esgotados \in SUBSET pagamento[v], FinalizarVenda(v, esgotados)
      PROVE  LojaSegue
  <2>1. /\ \A d \in Devolucao : /\ usado'[d] = IF d \in pagamento[v] THEN v ELSE usado[d]
                                /\ devolucao'[d].troca = IF d \in pagamento[v] THEN v ELSE devolucao[d].troca
                                /\ devolucao'[d].confirmada = devolucao[d].confirmada
        /\ \A w \in Venda : venda'[w] = IF w = v THEN "FINALIZADA" ELSE venda[w]
        /\ pagamento' = pagamento /\ venda[v] = "ABERTA"
        /\ aEnfileirar' = aEnfileirar \cup {v}
    BY <1>2 DEF FinalizarVenda, TypeOK, LinhaDevolucao
  <2>2. \A d \in pagamento[v] : d \in Devolucao /\ VinculoPermitido(v, d) /\ devolucao[d].troca = v
    BY <1>2 DEF FinalizarVenda, TypeOK, IInv, Vinculo
  <2>3. \A d \in pagamento[v] : usado[d] = Nenhuma
    BY <2>1, <2>2 DEF VinculoPermitido, IInv, Vinculo
  <2>4. Vinculo'
    <3>1. \A w \in Venda : \A d \in pagamento'[w] : devolucao'[d].troca = w
      BY <2>1, <2>2 DEF IInv, Vinculo, TypeOK
    <3>2. ASSUME NEW d \in Devolucao, usado'[d] # Nenhuma
          PROVE  devolucao'[d].troca = usado'[d] /\ venda'[usado'[d]] = "FINALIZADA" /\ d \in pagamento'[usado'[d]]
      BY <2>1, <2>2, <3>2 DEF IInv, Vinculo, TypeOK
    <3> QED
      BY <3>1, <3>2 DEF Vinculo
  <2>5. \A d \in Devolucao : \/ usado'[d] = usado[d]
                             \/ /\ usado[d] = Nenhuma /\ usado'[d] # Nenhuma
                                /\ ~evento[d].tentado /\ d \notin Travado
    BY <2>1, <2>2, <2>3 DEF VinculoPermitido
  <2>6. \A w \in Venda : venda[w] = "FINALIZADA" =>
           venda'[w] = "FINALIZADA" /\ TrocasDe(w)' \subseteq TrocasDe(w)
    BY <2>1 DEF TrocasDe
  <2>7. \A n \in Nota : n \in aEnfileirar' => n \in aEnfileirar
    BY <2>1
  <2> QED
    BY <2>1, <2>4, <2>5, <2>6, <2>7 DEF LojaSegue
<1>3. ASSUME NEW v \in Venda, NEW d \in Devolucao, AplicarCredito(v, d) PROVE LojaSegue
  <2>1. /\ \A x \in Devolucao : /\ devolucao'[x].troca = IF x = d THEN v ELSE devolucao[x].troca
                                /\ devolucao'[x].confirmada = devolucao[x].confirmada
        /\ \A w \in Venda : pagamento'[w] = IF w = v THEN pagamento[v] \cup {d} ELSE pagamento[w]
        /\ UNCHANGED <<venda, usado, aEnfileirar>>
        /\ venda[v] = "ABERTA" /\ devolucao[d].troca \in {v, Nenhuma} /\ usado[d] \in {v, Nenhuma}
    BY <1>3 DEF AplicarCredito, VinculoPermitido, TypeOK, LinhaDevolucao
  <2>2. usado[d] = Nenhuma
    BY <2>1 DEF IInv, Vinculo
  <2>3. Vinculo'
    BY <2>1, <2>2 DEF IInv, Vinculo, TypeOK
  <2>4. \A w \in Venda : venda[w] = "FINALIZADA" => TrocasDe(w)' \subseteq TrocasDe(w)
    BY <2>1 DEF TrocasDe
  <2> QED
    BY <2>1, <2>3, <2>4 DEF LojaSegue
<1>4. ASSUME NEW v \in Venda, NEW d \in Devolucao, RemoverPagamento(v, d) PROVE LojaSegue
  <2>1. /\ \A w \in Venda : pagamento'[w] = IF w = v THEN pagamento[v] \ {d} ELSE pagamento[w]
        /\ UNCHANGED <<venda, devolucao, usado, aEnfileirar>>
        /\ venda[v] = "ABERTA"
    BY <1>4 DEF RemoverPagamento, TypeOK
  <2>2. Vinculo'
    BY <2>1 DEF IInv, Vinculo, TypeOK
  <2> QED
    BY <2>1, <2>2 DEF LojaSegue, TrocasDe
<1>5. ASSUME NEW v \in Venda, NEW d \in Devolucao, NEW credito \in BOOLEAN,
             FinalizarDevolucao(d, v, credito)
      PROVE  LojaSegue
  <2>1. /\ \A x \in Devolucao : /\ devolucao'[x].troca = devolucao[x].troca
                                /\ devolucao'[x].confirmada = devolucao[x].confirmada
        /\ UNCHANGED <<venda, pagamento, usado>>
        /\ aEnfileirar' = aEnfileirar \cup {d}
    BY <1>5 DEF FinalizarDevolucao, TypeOK, LinhaDevolucao
  <2>2. Vinculo'
    BY <2>1 DEF IInv, Vinculo, TypeOK
  <2>3. \A e \in Venda \cup Nota : e \in aEnfileirar' => e \in aEnfileirar
    BY <2>1
  <2> QED
    BY <2>1, <2>2, <2>3 DEF LojaSegue, TrocasDe
<1>6. ASSUME NEW n \in Nota, AlterarNfce(n) PROVE LojaSegue
  <2>1. /\ UNCHANGED <<venda, pagamento, devolucao, usado>>
        /\ aEnfileirar' = aEnfileirar \cup {n} /\ venda[VendaDaNota[n]] = "FINALIZADA"
    BY <1>6 DEF AlterarNfce
  <2>2. Vinculo'
    BY <2>1 DEF IInv, Vinculo, TypeOK
  <2>3. \A v \in Venda : v \in aEnfileirar' => v \in aEnfileirar
    BY <2>1
  <2> QED
    BY <2>1, <2>2, <2>3 DEF LojaSegue, TrocasDe
<1> QED
  BY <1>1, <1>2, <1>3, <1>4, <1>5, <1>6 DEF Loja

\* A step of the store keeps every part of the invariant.
LEMMA LojaMantem ==
  ASSUME TypeOK, TypeOK', IInv, Loja
  PROVE  IInv'
<1>1. UNCHANGED <<evento, antes, chamada, rede, central, quedas>>
  BY LojaFora
<1>2. LojaSegue
  BY LojaMuda
<1>3. Lastro'
  BY <1>1, <1>2, Conjuntos DEF IInv, Lastro, LojaSegue, Existe, Preparando
<1>4. \A v \in Venda : Existe(v) => TrocasDe(v)' \subseteq TrocasDe(v)
  BY <1>2 DEF IInv, Lastro, LojaSegue
<1>5. Retrato'
  <2>1. \A m \in rede' : evento'[m.evento].tentado /\ evento'[m.evento].payload = m.payload
    BY <1>1 DEF IInv, Retrato
  <2>2. \A e \in Evento : evento'[e].tentado => \E m \in rede' : m.evento = e
    BY <1>1 DEF IInv, Retrato
  <2>3. \A d \in Devolucao :
          Existe(d)' /\ (evento'[d].tentado \/ usado'[d] = Nenhuma) => evento'[d].payload.consumo = usado'[d]
    BY <1>1, <1>2 DEF IInv, Retrato, LojaSegue, Existe
  <2>4. \A c \in Chamador : \A e \in chamada'[c].trava :
          /\ evento'[e].tentado => chamada'[c].pronto[e] = evento'[e].payload
          /\ e \in Devolucao => chamada'[c].pronto[e].consumo = usado'[e]
          /\ e \in Venda /\ ~evento'[e].tentado => TrocasDe(e)' \subseteq chamada'[c].pronto[e].deps
    <3>1. \A c \in Chamador : \A e \in chamada[c].trava : Existe(e) /\ e \in Travado
      BY DEF IInv, Lastro, Ativos, Existe, Travado
    <3> QED
      BY <1>1, <1>2, <1>4, <3>1 DEF IInv, Retrato, LojaSegue
  <2> QED
    BY <2>1, <2>2, <2>3, <2>4 DEF Retrato
<1>6. NaCentral' /\ SincronizadoConfirmado'
  BY <1>1, <1>2 DEF IInv, NaCentral, SincronizadoConfirmado, LojaSegue
<1>7. VendaSoDepoisDaDevolucao'
  <2>1. \A m \in rede : Existe(m.evento)
    BY DEF IInv, Retrato, Lastro, TypeOK, Pedido
  <2> QED
    BY <1>1, <1>2, <1>4, <2>1 DEF IInv, VendaSoDepoisDaDevolucao, LojaSegue, TrocasDe
<1> QED
  BY <1>2, <1>3, <1>5, <1>6, <1>7 DEF IInv, LojaSegue

\* The creation of a row keeps every part of the invariant.
LEMMA CriarMantem ==
  ASSUME TypeOK, TypeOK', IInv, NEW e \in Evento, Criar(e),
         evento[e].status = "AUSENTE",
         e \in Venda => venda[e] = "FINALIZADA",
         aEnfileirar' \subseteq aEnfileirar,
         UNCHANGED <<local, chamada, rede, central, quedas>>
  PROVE  IInv'
<1>1. /\ \A f \in Evento \ {e} : evento'[f] = evento[f]
      /\ evento'[e].status = "PENDENTE" /\ ~evento'[e].tentado
      /\ evento'[e].payload = PayloadInicial(e)
  BY DEF Criar, TypeOK
<1>2. ~evento[e].tentado
  BY DEF IInv, Lastro, Existe
<1>3. \A m \in rede : m.evento # e /\ m.evento \in Evento
  BY <1>2 DEF IInv, Retrato, TypeOK, Pedido
<1>4. \A c \in Chamador : \A f \in chamada[c].trava : f # e /\ f \in Evento
  BY DEF IInv, Lastro, Ativos, TypeOK, EstadoChamada
<1>5. \A f \in Evento : evento'[f].tentado = evento[f].tentado
  BY <1>1, <1>2 DEF TypeOK, LinhaEvento
<1>6. UNCHANGED <<venda, pagamento, devolucao, usado>>
  BY DEF local
<1>7. Lastro'
  <2>1. /\ \A v \in Venda : Existe(v)' \/ v \in aEnfileirar' => venda'[v] = "FINALIZADA"
        /\ \A n \in Nota : n \in aEnfileirar' => venda'[VendaDaNota[n]] = "FINALIZADA"
    BY <1>1, <1>6 DEF IInv, Lastro, Existe, Evento
  <2>2. \A f \in Evento : evento'[f].tentado => Existe(f)'
    BY <1>1, <1>5 DEF IInv, Lastro, Existe
  <2>3. \A c \in Chamador : \A f \in chamada'[c].trava : evento'[f].status \in Ativos
    BY <1>1, <1>4 DEF IInv, Lastro
  <2>4. \A c \in Chamador : chamada[c].fase \in {"enviando", "processando"} =>
           \A f \in chamada[c].alvo : evento'[f].tentado
    BY <1>5 DEF IInv, Lastro, TypeOK, EstadoChamada
  <2> QED
    BY <2>1, <2>2, <2>3, <2>4 DEF IInv, Lastro, Preparando
<1>8. Vinculo' /\ VendaSoDepoisDaDevolucao'
  BY <1>6 DEF IInv, Vinculo, VendaSoDepoisDaDevolucao, TrocasDe
<1>9. Retrato'
  <2>1. \A m \in rede' : evento'[m.evento].tentado /\ evento'[m.evento].payload = m.payload
    BY <1>1, <1>3 DEF IInv, Retrato
  <2>2. \A f \in Evento : evento'[f].tentado => \E m \in rede' : m.evento = f
    BY <1>5 DEF IInv, Retrato
  <2>3. \A d \in Devolucao :
          Existe(d)' /\ (evento'[d].tentado \/ usado'[d] = Nenhuma) => evento'[d].payload.consumo = usado'[d]
    <3>1. e \in Devolucao => evento'[e].payload.consumo = usado[e]
      BY <1>1, Conjuntos DEF PayloadInicial, PayloadDevolucao, Vazio
    <3> QED
      BY <1>1, <1>6, <3>1 DEF IInv, Retrato, Existe, Evento
  <2>4. \A c \in Chamador : \A f \in chamada'[c].trava :
          /\ evento'[f].tentado => chamada'[c].pronto[f] = evento'[f].payload
          /\ f \in Devolucao => chamada'[c].pronto[f].consumo = usado'[f]
          /\ f \in Venda /\ ~evento'[f].tentado => TrocasDe(f)' \subseteq chamada'[c].pronto[f].deps
    BY <1>1, <1>4, <1>6 DEF IInv, Retrato, TrocasDe
  <2> QED
    BY <2>1, <2>2, <2>3, <2>4 DEF Retrato
<1>10. NaCentral'
  BY <1>6 DEF IInv, NaCentral
<1>11. SincronizadoConfirmado'
  BY <1>1, <1>6 DEF IInv, SincronizadoConfirmado
<1> QED
  BY <1>7, <1>8, <1>9, <1>10, <1>11 DEF IInv

\* What select_for_update and _preparar_evento_troca leave in the call.
LEMMA Selecionado ==
  ASSUME TypeOK, IInv, NEW c \in Chamador, Selecionar(c)
  PROVE  /\ \A k \in Chamador \ {c} : chamada'[k] = chamada[k]
         /\ chamada'[c].fase = "preparando"
         /\ chamada'[c].trava \subseteq Evento /\ chamada'[c].trava \cap Travado = {}
         /\ chamada'[c].alvo \subseteq chamada'[c].trava
         /\ \A e \in chamada'[c].trava : /\ evento[e].status \in Ativos
                                         /\ chamada'[c].pronto[e] = Preparado(e)
<1>1. Lote(c) \subseteq Evento /\ \A e \in Lote(c) : evento[e].status \in Ativos
  BY DEF Lote, MaisAntigos
<1>2. /\ \A k \in Chamador \ {c} : chamada'[k] = chamada[k]
      /\ chamada'[c].fase = "preparando" /\ chamada'[c].trava = Lote(c)
      /\ chamada'[c].alvo \subseteq Lote(c)
      /\ chamada'[c].pronto = [e \in Evento |-> IF e \in Lote(c) THEN Preparado(e) ELSE Vazio]
  BY <1>1 DEF Selecionar, TypeOK, Ociosa
<1> QED
  BY <1>1, <1>2 DEF Selecionar

\* A prepared payload tells the consumption there is, and names the linked returns.
LEMMA PreparadoConfere ==
  ASSUME TypeOK, IInv, NEW e \in Evento, evento[e].status \in Ativos
  PROVE  /\ evento[e].tentado => Preparado(e) = evento[e].payload
         /\ e \in Devolucao => Preparado(e).consumo = usado[e]
         /\ e \in Venda /\ ~evento[e].tentado => TrocasDe(e) \subseteq Preparado(e).deps
<1>1. Existe(e)
  BY DEF Existe, Ativos
<1>2. CASE evento[e].tentado
  BY <1>1, <1>2 DEF Preparado, IInv, Retrato
<1>3. CASE ~evento[e].tentado /\ e \in Devolucao
  <2>1. CASE TrocaAberta(e)
    <3>1. usado[e] = Nenhuma
      BY <1>3, <2>1 DEF TrocaAberta, IInv, Vinculo
    <3> QED
      BY <1>1, <1>3, <2>1, <3>1, Conjuntos DEF Preparado, IInv, Retrato
  <2>2. CASE ~TrocaAberta(e)
    BY <1>3, <2>2, Conjuntos DEF Preparado, PayloadDevolucao, Vazio
  <2> QED
    BY <2>1, <2>2
<1>4. CASE ~evento[e].tentado /\ e \in Venda
  BY <1>4, Conjuntos DEF Preparado, PayloadVenda
<1> QED
  BY <1>2, <1>3, <1>4

\* The selection of a batch keeps every part of the invariant.
LEMMA SelecionarMantem ==
  ASSUME TypeOK, TypeOK', IInv, NEW c \in Chamador, Selecionar(c)
  PROVE  IInv'
<1>1. UNCHANGED <<local, evento, antes, aEnfileirar, rede, central, quedas>>
  BY DEF Selecionar
<1>2. UNCHANGED <<venda, pagamento, devolucao, usado, vale>>
  BY <1>1 DEF local
<1>3. \A k \in Chamador : Preparando(k) => Preparando(k)'
  BY Selecionado DEF Preparando
<1>4. Lastro'
  <2>1. \A k \in Chamador \ {c} : chamada[k].trava \subseteq Travado
    BY DEF Travado
  <2>2. \A a, b \in Chamador : a # b => chamada'[a].trava \cap chamada'[b].trava = {}
    BY <2>1, Selecionado DEF IInv, Lastro
  <2> QED
    BY <1>1, <1>2, <2>2, Selecionado DEF IInv, Lastro, Existe, Preparando
<1>5. Vinculo' /\ VendaSoDepoisDaDevolucao' /\ SincronizadoConfirmado'
  BY <1>1, <1>2 DEF IInv, Vinculo, VendaSoDepoisDaDevolucao, SincronizadoConfirmado, TrocasDe
<1>6. Retrato'
  <2>1. \A k \in Chamador : \A e \in chamada'[k].trava :
          /\ evento[e].tentado => chamada'[k].pronto[e] = evento[e].payload
          /\ e \in Devolucao => chamada'[k].pronto[e].consumo = usado[e]
          /\ e \in Venda /\ ~evento[e].tentado => TrocasDe(e) \subseteq chamada'[k].pronto[e].deps
    BY Selecionado, PreparadoConfere DEF IInv, Retrato
  <2> QED
    BY <1>1, <1>2, <2>1 DEF IInv, Retrato, Existe, TrocasDe
<1>7. NaCentral'
  BY <1>1, <1>2, Selecionado DEF IInv, NaCentral
<1> QED
  BY <1>4, <1>5, <1>6, <1>7 DEF IInv

\* What the end of the first transaction writes, and what leaves with it.
LEMMA Marcado ==
  ASSUME TypeOK, IInv, NEW c \in Chamador, Marcar(c)
  PROVE  \E enviados \in SUBSET chamada[c].alvo :
           /\ \A e \in enviados : ~Bloqueado(e, chamada[c].pronto[e])
           /\ \A k \in Chamador \ {c} : chamada'[k] = chamada[k]
           /\ chamada'[c].trava = {} /\ chamada'[c].fase \in {"livre", "enviando"}
           /\ chamada'[c].alvo = enviados
           /\ rede' = rede \cup {[evento |-> e, payload |-> chamada[c].pronto[e]] : e \in enviados}
           /\ \A e \in Evento \ chamada[c].trava : evento'[e] = evento[e]
           /\ \A e \in chamada[c].trava :
                /\ evento'[e].status \in Ativos
                /\ evento'[e].tentado = (evento[e].tentado \/ e \in enviados)
                /\ evento'[e].payload = IF e \in chamada[c].alvo THEN chamada[c].pronto[e]
                                        ELSE evento[e].payload
<1> DEFINE ch == chamada[c]
           enviados == {e \in ch.alvo : ~Bloqueado(e, ch.pronto[e])}
<1>1. /\ ch \in EstadoChamada /\ ch.trava \subseteq Evento /\ Preparando(c)
      /\ \A e \in ch.trava : evento[e].status \in Ativos
  BY DEF TypeOK, EstadoChamada, Marcar, Preparando, IInv, Lastro
<1>2. enviados \in SUBSET ch.alvo /\ \A e \in enviados : ~Bloqueado(e, ch.pronto[e])
  OBVIOUS
<1>3. /\ \A e \in Evento \ ch.trava : evento'[e] = evento[e]
      /\ \A e \in ch.trava :
           /\ evento'[e].status = IF e \in enviados THEN "PROCESSANDO"
                                  ELSE IF e \in ch.alvo THEN evento[e].status ELSE "ERRO"
           /\ evento'[e].tentado = (evento[e].tentado \/ e \in enviados)
           /\ evento'[e].payload = IF e \in ch.alvo THEN ch.pronto[e] ELSE evento[e].payload
      /\ rede' = rede \cup {[evento |-> e, payload |-> ch.pronto[e]] : e \in enviados}
      /\ chamada' = [chamada EXCEPT ![c] =
            IF enviados = {} THEN Ociosa ELSE [Ociosa EXCEPT !.fase = "enviando", !.alvo = enviados]]
  BY <1>1 DEF Marcar
<1> HIDE DEF enviados
<1>4. /\ \A k \in Chamador \ {c} : chamada'[k] = chamada[k]
      /\ chamada'[c].trava = {} /\ chamada'[c].fase \in {"livre", "enviando"}
      /\ chamada'[c].alvo = enviados
  BY <1>3, Repouso DEF TypeOK, EstadoChamada, Ociosa
<1>5. \A e \in ch.trava : evento'[e].status \in Ativos
  BY <1>1, <1>3 DEF Ativos
<1> QED
  BY <1>2, <1>3, <1>4, <1>5

\* The marking and sending of a batch keeps every part of the invariant.
LEMMA MarcarMantem ==
  ASSUME TypeOK, TypeOK', IInv, NEW c \in Chamador, Marcar(c)
  PROVE  IInv'
<1> DEFINE ch == chamada[c]
<1>1. PICK enviados \in SUBSET ch.alvo :
           /\ \A e \in enviados : ~Bloqueado(e, ch.pronto[e])
           /\ \A k \in Chamador \ {c} : chamada'[k] = chamada[k]
           /\ chamada'[c].trava = {} /\ chamada'[c].fase \in {"livre", "enviando"}
           /\ chamada'[c].alvo = enviados
           /\ rede' = rede \cup {[evento |-> e, payload |-> ch.pronto[e]] : e \in enviados}
           /\ \A e \in Evento \ ch.trava : evento'[e] = evento[e]
           /\ \A e \in ch.trava :
                /\ evento'[e].status \in Ativos
                /\ evento'[e].tentado = (evento[e].tentado \/ e \in enviados)
                /\ evento'[e].payload = IF e \in ch.alvo THEN ch.pronto[e] ELSE evento[e].payload
  BY Marcado
<1>2. /\ Preparando(c) /\ ch.trava \subseteq Evento
      /\ ch.alvo \subseteq ch.trava /\ enviados \subseteq ch.trava
      /\ \A e \in ch.trava : evento[e].status \in Ativos
      /\ \A k \in Chamador \ {c} : chamada[k].trava \cap ch.trava = {}
  BY DEF Marcar, Preparando, IInv, Lastro, TypeOK, EstadoChamada
<1>3. UNCHANGED <<venda, pagamento, devolucao, usado, vale, antes, aEnfileirar, central, quedas>>
  BY DEF Marcar, local
<1>4. /\ \A e \in ch.trava : /\ evento[e].tentado => ch.pronto[e] = evento[e].payload
                             /\ e \in Devolucao => ch.pronto[e].consumo = usado[e]
                             /\ e \in Venda /\ ~evento[e].tentado => TrocasDe(e) \subseteq ch.pronto[e].deps
  BY DEF IInv, Retrato
<1>5. \A e \in Evento : /\ Existe(e)' <=> Existe(e)
                        /\ evento[e].tentado => evento'[e].tentado /\ evento'[e].payload = evento[e].payload
  BY <1>1, <1>2, <1>4, ZenonT(60) DEF Existe, Ativos
<1>6. \A m \in rede' : \/ m \in rede /\ m.evento \in Evento
                       \/ /\ m.evento \in enviados /\ m.payload = ch.pronto[m.evento]
                          /\ m = [evento |-> m.evento, payload |-> m.payload]
  BY <1>1 DEF TypeOK, Pedido
<1>7. Lastro'
  <2>1. /\ \A v \in Venda : Existe(v)' \/ v \in aEnfileirar' => venda'[v] = "FINALIZADA"
        /\ \A n \in Nota : n \in aEnfileirar' => venda'[VendaDaNota[n]] = "FINALIZADA"
    BY <1>3, <1>5 DEF IInv, Lastro, Evento
  <2>2. \A e \in Evento : evento'[e].tentado => Existe(e)'
    BY <1>1, <1>2, <1>5 DEF IInv, Lastro, Existe, Ativos
  <2>3. \A k \in Chamador : ~Preparando(k)' => chamada'[k].trava = {}
    BY <1>1 DEF IInv, Lastro, Preparando
  <2>4. \A k \in Chamador : \A e \in chamada'[k].trava : evento'[e].status \in Ativos
    BY <1>1, <1>2, SMTT(30) DEF IInv, Lastro, TypeOK, EstadoChamada
  <2>5. \A a, b \in Chamador : a # b => chamada'[a].trava \cap chamada'[b].trava = {}
    BY <1>1 DEF IInv, Lastro
  <2>6. \A k \in Chamador : Preparando(k)' => chamada'[k].alvo \subseteq chamada'[k].trava
    BY <1>1 DEF IInv, Lastro, Preparando
  <2>7. \A k \in Chamador : chamada'[k].fase \in {"enviando", "processando"} =>
           \A e \in chamada'[k].alvo : evento'[e].tentado
    BY <1>1, <1>2, <1>5, ZenonT(60) DEF IInv, Lastro, TypeOK, EstadoChamada
  <2> QED
    BY <2>1, <2>2, <2>3, <2>4, <2>5, <2>6, <2>7 DEF Lastro
<1>8. Vinculo'
  BY <1>3 DEF IInv, Vinculo
<1>9. Retrato'
  <2>1. ASSUME NEW m \in rede'
        PROVE  evento'[m.evento].tentado /\ evento'[m.evento].payload = m.payload
    <3>1. CASE m \in rede /\ m.evento \in Evento
      BY <1>5, <3>1 DEF IInv, Retrato
    <3>2. CASE m.evento \in enviados /\ m.payload = ch.pronto[m.evento]
      BY <1>1, <1>2, <3>2
    <3> QED
      BY <1>6, <3>1, <3>2
  <2>2. ASSUME NEW e \in Evento, evento'[e].tentado
        PROVE  \E m \in rede' : m.evento = e
    <3>1. CASE e \in enviados
      <4>1. [evento |-> e, payload |-> ch.pronto[e]] \in rede'
        BY <1>1, <3>1
      <4> QED
        BY <4>1
    <3>2. CASE e \notin enviados
      <4>1. evento[e].tentado
        BY <1>1, <2>2, <3>2
      <4> QED
        BY <1>1, <4>1 DEF IInv, Retrato
    <3> QED
      BY <3>1, <3>2
  <2>3. ASSUME NEW d \in Devolucao, Existe(d)', evento'[d].tentado \/ usado'[d] = Nenhuma
        PROVE  evento'[d].payload.consumo = usado'[d]
    <3>1. d \in Evento
      BY DEF Evento
    <3>2. CASE d \in ch.alvo
      BY <1>1, <1>2, <1>3, <1>4, <3>2
    <3>3. CASE d \notin ch.alvo
      <4>1. evento'[d].payload = evento[d].payload
        BY <1>1, <3>1, <3>3
      <4>2. evento'[d].tentado => evento[d].tentado
        BY <1>1, <3>1, <3>3
      <4>3. Existe(d) /\ (evento[d].tentado \/ usado[d] = Nenhuma)
        BY <1>3, <1>5, <2>3, <3>1, <4>2
      <4> QED
        BY <1>3, <4>1, <4>3 DEF IInv, Retrato
    <3> QED
      BY <3>2, <3>3
  <2>4. \A k \in Chamador : \A e \in chamada'[k].trava :
          /\ evento'[e].tentado => chamada'[k].pronto[e] = evento'[e].payload
          /\ e \in Devolucao => chamada'[k].pronto[e].consumo = usado'[e]
          /\ e \in Venda /\ ~evento'[e].tentado => TrocasDe(e)' \subseteq chamada'[k].pronto[e].deps
    <3>1. \A k \in Chamador : \A e \in chamada'[k].trava :
             k # c /\ chamada'[k] = chamada[k] /\ evento'[e] = evento[e]
      BY <1>1, <1>2 DEF TypeOK, EstadoChamada
    <3> QED
      BY <1>3, <3>1 DEF IInv, Retrato, TrocasDe
  <2> QED
    BY <2>1, <2>2, <2>3, <2>4 DEF Retrato
<1>10. NaCentral'
  BY <1>1, <1>3 DEF IInv, NaCentral
<1>11. VendaSoDepoisDaDevolucao'
  <2>1. ASSUME NEW m \in rede', m.evento \in Venda, NEW d \in TrocasDe(m.evento)
        PROVE  devolucao[d].confirmada /\ central[d] # Nada
    <3>1. d \in Devolucao
      BY DEF TrocasDe
    <3>2. CASE m \in rede
      BY <2>1, <3>2 DEF IInv, VendaSoDepoisDaDevolucao
    <3>3. CASE m.evento \in enviados /\ ~evento[m.evento].tentado
      <4>1. d \in ch.pronto[m.evento].deps
        BY <1>2, <1>4, <2>1, <3>3
      <4>2. devolucao[d].confirmada
        BY <1>1, <2>1, <3>3, <4>1 DEF Bloqueado
      <4> QED
        BY <3>1, <4>2 DEF IInv, NaCentral
    <3>4. CASE m.evento \in enviados /\ evento[m.evento].tentado
      <4>1. PICK n \in rede : n.evento = m.evento
        BY <1>2, <3>4 DEF IInv, Retrato
      <4> QED
        BY <2>1, <4>1 DEF IInv, VendaSoDepoisDaDevolucao
    <3> QED
      BY <1>6, <3>2, <3>3, <3>4
  <2> QED
    BY <1>3, <2>1 DEF VendaSoDepoisDaDevolucao, TrocasDe
<1>12. SincronizadoConfirmado'
  BY <1>1, <1>2, <1>3 DEF IInv, SincronizadoConfirmado, Ativos
<1> QED
  BY <1>7, <1>8, <1>9, <1>10, <1>11, <1>12 DEF IInv

LEMMA PassoMantem == TypeOK /\ TypeOK' /\ IInv /\ [Next]_vars => IInv'
<1> SUFFICES ASSUME TypeOK, TypeOK', IInv, [Next]_vars PROVE IInv'
  OBVIOUS
<1>1. CASE UNCHANGED vars
  <2>1. Lastro' /\ Vinculo' /\ NaCentral'
    BY <1>1 DEF vars, IInv, Lastro, Vinculo, NaCentral, Existe, Preparando
  <2>2. Retrato'
    BY <1>1 DEF vars, IInv, Retrato, Existe, TrocasDe
  <2>3. VendaSoDepoisDaDevolucao' /\ SincronizadoConfirmado'
    BY <1>1 DEF vars, IInv, VendaSoDepoisDaDevolucao, SincronizadoConfirmado, TrocasDe
  <2> QED
    BY <2>1, <2>2, <2>3 DEF IInv
<1>2. CASE Loja
  BY <1>2, LojaMantem
<1>3. ASSUME NEW e \in Evento, Enfileirar(e) PROVE IInv'
  <2>1. /\ aEnfileirar' \subseteq aEnfileirar /\ e \in aEnfileirar
        /\ UNCHANGED <<local, chamada, rede, central, quedas>>
    BY <1>3 DEF Enfileirar
  <2>2. CASE evento[e].status = "AUSENTE"
    <3>1. Criar(e)
      BY <1>3, <2>2 DEF Enfileirar
    <3>2. e \in Venda => venda[e] = "FINALIZADA"
      BY <2>1 DEF IInv, Lastro
    <3> QED
      BY <2>1, <2>2, <3>1, <3>2, CriarMantem
  <2>3. CASE evento[e].status # "AUSENTE"
    <3>1. UNCHANGED <<venda, pagamento, devolucao, usado, evento, chamada, rede, central>>
      BY <1>3, <2>3 DEF Enfileirar, local
    <3>2. FilaCalma /\ LojaCalma
      BY <3>1 DEF FilaCalma, LojaCalma
    <3>3. ChamadaCalma
      BY <3>1 DEF ChamadaCalma, IInv, NaCentral, Favoravel, TypeOK, EstadoChamada
    <3> QED
      BY <2>1, <3>1, <3>2, <3>3, CalmoMantem DEF Calmo
  <2> QED
    BY <2>2, <2>3
<1>4. ASSUME NEW n \in Nota, EnfileirarVendaDaNota(n) PROVE IInv'
  <2>1. /\ VendaDaNota[n] \in Venda /\ VendaDaNota[n] \in Evento
        /\ Criar(VendaDaNota[n]) /\ evento[VendaDaNota[n]].status = "AUSENTE"
        /\ n \in aEnfileirar
        /\ UNCHANGED <<local, aEnfileirar, chamada, rede, central, quedas>>
    BY <1>4, Conjuntos DEF EnfileirarVendaDaNota, Evento
  <2>2. venda[VendaDaNota[n]] = "FINALIZADA"
    BY <2>1 DEF IInv, Lastro
  <2> QED
    BY <2>1, <2>2, CriarMantem
<1>5. ASSUME NEW e \in Evento, Vencer(e) PROVE IInv'
  BY <1>5, VencerCalmo, CalmoMantem
<1>6. CASE Cair
  BY <1>6, CairCalmo, CalmoMantem
<1>7. ASSUME NEW m \in rede, CentralProcessa(m) PROVE IInv'
  BY <1>7, CentralCalma, CalmoMantem
<1>8. ASSUME NEW c \in Chamador, Chamada(c) PROVE IInv'
  <2>1. CASE Selecionar(c)
    BY <2>1, SelecionarMantem
  <2>2. CASE DesistirRetry(c)
    BY <2>2, DesistirCalmo, CalmoMantem
  <2>3. CASE Marcar(c)
    BY <2>3, MarcarMantem
  <2>4. ASSUME NEW r \in [chamada[c].alvo -> Resposta], Responder(c, r) PROVE IInv'
    BY <2>4, ResponderCalmo, CalmoMantem
  <2>5. CASE Falhar(c)
    <3>1. [e \in chamada[c].alvo |-> "ERRO"] \in [chamada[c].alvo -> Resposta]
      BY DEF Resposta
    <3> QED
      BY <2>4, <2>5, <3>1 DEF Falhar
  <2>6. ASSUME NEW r \in [chamada[c].alvo -> RespostasCentral], Responder(c, r) PROVE IInv'
    BY <2>4, <2>6, Conjuntos
  <2>7. ASSUME NEW e \in Evento, VerificarRetry(c, e) PROVE IInv'
    BY <2>7, RetryManualCalmo, CalmoMantem
  <2>8. ASSUME NEW e \in Evento, Confirmar(c, e) PROVE IInv'
    BY <2>8, ConfirmarCalmo, CalmoMantem
  <2>9. ASSUME NEW e \in Evento, Retry(c, e) \/ GravarConflito(c, e) \/ ConflitoLocal(c, e) PROVE IInv'
    BY <2>9, GravacoesCalmas, CalmoMantem
  <2>10. ASSUME NEW e \in Evento, ConflitoCentral(c, e) PROVE IInv'
    BY <2>10, ConflitoCentralCalmo, CalmoMantem
  <2> QED
    BY <1>8, <2>1, <2>2, <2>3, <2>5, <2>6, <2>7, <2>8, <2>9, <2>10 DEF Chamada
<1> QED
  BY <1>1, <1>2, <1>3, <1>4, <1>5, <1>6, <1>7, <1>8 DEF Next, Fila

LEMMA InvarianteVale == Spec => [](TypeOK /\ IInv)
<1>1. Init => TypeOK /\ IInv
  BY TipoInicial, InicioVale
<1>2. (TypeOK /\ IInv) /\ [Next]_vars => (TypeOK /\ IInv)'
  BY TipoPasso, PassoMantem
<1> QED
  BY <1>1, <1>2, PTL DEF Spec

(***************************************************************************)
(* What follows from the invariant.                                        *)
(***************************************************************************)

\* The inductive invariant holds in every reachable state.
THEOREM Invariante == Spec => []IInv
BY InvarianteVale, PTL

\* An exchange sale is sent only after the returns linked to it are confirmed.
THEOREM VendaDepoisDaDevolucao == Spec => []VendaSoDepoisDaDevolucao
<1>1. IInv => VendaSoDepoisDaDevolucao
  BY DEF IInv
<1> QED
  BY <1>1, Invariante, PTL

\* A row marked SINCRONIZADO was processed by the Central as it stands.
THEOREM SincronizadoVale == Spec => []SincronizadoConfirmado
<1>1. IInv => SincronizadoConfirmado
  BY DEF IInv
<1> QED
  BY <1>1, Invariante, PTL

\* Two requests for one event carry the payload its row holds.
LEMMA ReenvioSegue == TypeOK /\ IInv => ReenvioIdentico
<1> SUFFICES ASSUME TypeOK, IInv, NEW m \in rede, NEW n \in rede, m.evento = n.evento
             PROVE  m = n
  BY DEF ReenvioIdentico
<1>1. m \in Pedido /\ n \in Pedido
  BY DEF TypeOK
<1>2. m.payload = n.payload
  BY DEF IInv, Retrato
<1>3. m = [evento |-> m.evento, payload |-> m.payload] /\ n = [evento |-> n.evento, payload |-> n.payload]
  BY <1>1 DEF Pedido
<1> QED
  BY <1>2, <1>3

\* Every request for an event carries the snapshot of its first attempt.
THEOREM ReenvioVale == Spec => []ReenvioIdentico
BY InvarianteVale, ReenvioSegue, PTL

\* What is at the Central is the payload of a row that was attempted.
LEMMA NaCentralTentado ==
  ASSUME TypeOK, IInv, NEW e \in Evento, central[e] # Nada
  PROVE  /\ evento[e].tentado /\ Existe(e)
         /\ central[e] = evento[e].payload
<1>1. PICK m \in rede : m.evento = e /\ m.payload = central[e]
  BY DEF IInv, NaCentral
<1> QED
  BY <1>1 DEF IInv, Retrato, Lastro

LEMMA CreditoSegue == TypeOK /\ IInv => CreditoConferido
<1> SUFFICES ASSUME TypeOK, IInv, NEW d \in Devolucao, central[d] # Nada
             PROVE  central[d].consumo = usado[d]
  BY DEF CreditoConferido
<1>1. d \in Evento
  BY DEF Evento
<1> QED
  BY <1>1, NaCentralTentado DEF IInv, Retrato

\* The Central is told of the use of a credit what the store did with it.
THEOREM CreditoVale == Spec => []CreditoConferido
BY InvarianteVale, CreditoSegue, PTL

LEMMA UmaVendaSegue == TypeOK /\ IInv => CreditoEmUmaVenda
BY DEF IInv, Vinculo, CreditoEmUmaVenda, TypeOK

\* A credit is a payment of one sale at most, and stays one of the sale that consumed it.
THEOREM CreditoUnico == Spec => []CreditoEmUmaVenda
BY InvarianteVale, UmaVendaSegue, PTL

LEMMA ConciliacaoSegue == TypeOK /\ IInv => ConciliacaoFecha
<1> SUFFICES ASSUME TypeOK, IInv PROVE ConciliacaoFecha
  OBVIOUS
<1>1. \A d \in Devolucao : ~Divergente(d)
  BY DEF Divergente, IInv, Vinculo
<1>2. ASSUME NEW c \in Chamador, NEW d \in Devolucao, Tratando(c, d), chamada[c].resultado[d] = "OK"
      PROVE  ConsumoConfere(d)
  <2>1. d \in Evento
    BY DEF Evento
  <2>2. central[d] # Nada
    BY <1>2, <2>1, TratandoTentado DEF Favoravel
  <2>3. central[d].consumo = usado[d] /\ central[d] = evento[d].payload
    BY <2>1, <2>2, CreditoSegue, NaCentralTentado DEF CreditoConferido
  <2> QED
    BY <2>3 DEF ConsumoConfere
<1> QED
  BY <1>1, <1>2 DEF ConciliacaoFecha

\* The reconciliation of a return never meets a consumption that differs.
THEOREM ConciliacaoVale == Spec => []ConciliacaoFecha
BY InvarianteVale, ConciliacaoSegue, PTL

\* Nothing but a step of the store changes the use of a credit or its exchange sale.
LEMMA ForaDaLoja ==
  ASSUME TypeOK, IInv, [Next]_vars, ~Loja
  PROVE  usado' = usado /\ \A d \in Devolucao : devolucao'[d].troca = devolucao[d].troca
<1> DEFINE Q == usado' = usado /\ \A d \in Devolucao : devolucao'[d].troca = devolucao[d].troca
<1>1. CASE UNCHANGED vars
  BY <1>1 DEF vars
<1>2. CASE Fila
  BY <1>2 DEF Fila, Enfileirar, Vencer, EnfileirarVendaDaNota, Cair, CentralProcessa, local
<1>3. ASSUME NEW c \in Chamador, Chamada(c) PROVE Q
  <2>1. CASE Selecionar(c) \/ DesistirRetry(c) \/ Marcar(c) \/ Falhar(c)
             \/ \E r \in [chamada[c].alvo -> RespostasCentral] : Responder(c, r)
    BY <2>1 DEF Selecionar, DesistirRetry, Marcar, Falhar, Responder, local
  <2>2. ASSUME NEW e \in Evento, VerificarRetry(c, e) PROVE Q
    BY <2>2 DEF VerificarRetry, local
  <2>3. ASSUME NEW e \in Evento, Confirmar(c, e) PROVE Q
    BY <2>3, ConfirmarCalmo DEF Calmo, LojaCalma
  <2>4. ASSUME NEW e \in Evento, Retry(c, e) \/ GravarConflito(c, e) \/ ConflitoLocal(c, e) PROVE Q
    BY <2>4, GravacoesCalmas DEF Calmo, LojaCalma
  <2>5. ASSUME NEW e \in Evento, ConflitoCentral(c, e) PROVE Q
    BY <2>5, ConflitoCentralCalmo DEF Calmo, LojaCalma
  <2> QED
    BY <1>3, <2>1, <2>2, <2>3, <2>4, <2>5 DEF Chamada
<1> QED
  BY <1>1, <1>2, <1>3 DEF Next

LEMMA TransmitidaPasso ==
  ASSUME TypeOK, IInv, [Next]_vars, NEW d \in Devolucao, evento[d].tentado
  PROVE  usado'[d] = usado[d] /\ devolucao'[d].troca = devolucao[d].troca
<1>1. CASE ~Loja
  BY <1>1, ForaDaLoja
<1>2. CASE Loja
  <2>1. usado'[d] = usado[d]
    BY <1>2, LojaMuda DEF LojaSegue
  <2>2. ASSUME NEW v \in Venda, NEW esgotados \in SUBSET pagamento[v], FinalizarVenda(v, esgotados)
        PROVE  devolucao'[d].troca = devolucao[d].troca
    <3>1. d \notin pagamento[v]
      BY <2>2 DEF FinalizarVenda, VinculoPermitido
    <3> QED
      BY <2>2, <3>1 DEF FinalizarVenda
  <2>3. ASSUME NEW v \in Venda, NEW x \in Devolucao, AplicarCredito(v, x)
        PROVE  devolucao'[d].troca = devolucao[d].troca
    <3>1. x # d
      BY <2>3 DEF AplicarCredito, VinculoPermitido
    <3> QED
      BY <2>3, <3>1 DEF AplicarCredito, TypeOK
  <2>4. ASSUME NEW v \in Venda, NEW x \in Devolucao, NEW credito \in BOOLEAN, FinalizarDevolucao(x, v, credito)
        PROVE  devolucao'[d].troca = devolucao[d].troca
    BY <2>4 DEF FinalizarDevolucao, TypeOK, LinhaDevolucao
  <2> QED
    BY <1>2, <2>1, <2>2, <2>3, <2>4
       DEF Loja, AbrirVenda, CancelarVenda, RemoverPagamento, AlterarNfce
<1> QED
  BY <1>1, <1>2

\* Once a return was sent, its credit and its exchange sale do not change any more.
THEOREM TransmitidaVale == Spec => TransmitidaNaoMuda
<1>1. TypeOK /\ IInv /\ [Next]_vars =>
        [\A d \in Devolucao : evento[d].tentado =>
             /\ usado'[d] = usado[d]
             /\ devolucao'[d].troca = devolucao[d].troca]_vars
  BY TransmitidaPasso
<1> QED
  BY <1>1, InvarianteVale, PTL DEF Spec, TransmitidaNaoMuda

(***************************************************************************)
(* The outbox implements CreditoCentral.                                   *)
(***************************************************************************)

LEMMA RefinaInicio == Init => Credito!Init
BY DEF Init, Credito!Init, creditoNaCentral, liquidadas, Evento

\* The conclusion of a sale consumes the credits that pay it.
LEMMA RefinaVenda ==
  ASSUME TypeOK, IInv, NEW v \in Venda, NEW esgotados \in SUBSET pagamento[v], FinalizarVenda(v, esgotados)
  PROVE  Credito!Next
<1>1. pagamento[v] \in SUBSET Devolucao /\ v \in Evento
  BY DEF TypeOK, Evento
<1>2. v \notin liquidadas
  BY <1>1, NaCentralTentado DEF FinalizarVenda, IInv, Lastro, liquidadas
<1>3. ASSUME NEW d \in pagamento[v]
      PROVE  usado[d] = Nenhuma /\ creditoNaCentral[d] = Nada
  <2>1. d \in Devolucao /\ d \in Evento /\ VinculoPermitido(v, d)
    BY <1>1 DEF FinalizarVenda, Evento
  <2>2. usado[d] = Nenhuma
    BY <2>1 DEF VinculoPermitido, IInv, Vinculo
  <2>3. central[d] = Nada
    BY <2>1, NaCentralTentado DEF VinculoPermitido
  <2> QED
    BY <2>1, <2>2, <2>3 DEF creditoNaCentral
<1>4. /\ usado' = [d \in Devolucao |-> IF d \in pagamento[v] THEN v ELSE usado[d]]
      /\ central' = central
  BY DEF FinalizarVenda
<1>5. UNCHANGED <<creditoNaCentral, liquidadas>>
  BY <1>4 DEF creditoNaCentral, liquidadas
<1>6. Credito!Consumir(v, pagamento[v])
  BY <1>2, <1>3, <1>4, <1>5 DEF Credito!Consumir
<1> QED
  BY <1>1, <1>6 DEF Credito!Next

\* What the Central processes is the materialisation of a return, with the use made
\* of its credit, the settlement of a sale, or an event of no interest here.
LEMMA RefinaCentral ==
  ASSUME TypeOK, IInv, NEW m \in rede, CentralProcessa(m)
  PROVE  Credito!Next \/ UNCHANGED Credito!vars
<1>1. m.evento \in Evento /\ m.payload \in Payload /\ m.payload # Nada
  BY Conjuntos DEF TypeOK, Pedido
<1>2. /\ usado' = usado /\ central[m.evento] = Nada
      /\ \A e \in Evento : central'[e] = IF e = m.evento THEN m.payload ELSE central[e]
  BY <1>1 DEF CentralProcessa, TypeOK, local
<1>3. evento[m.evento].tentado /\ evento[m.evento].payload = m.payload /\ Existe(m.evento)
  BY <1>1 DEF IInv, Retrato, Lastro
<1>4. CASE m.evento \in Devolucao
  <2> DEFINE d == m.evento
  <2>1. m.payload.consumo = usado[d]
    BY <1>3, <1>4 DEF IInv, Retrato
  <2>2. creditoNaCentral[d] = Nada
    BY <1>2, <1>4 DEF creditoNaCentral
  <2>3. creditoNaCentral' = [creditoNaCentral EXCEPT ![d] = usado[d]]
    BY <1>1, <1>2, <1>4, <2>1 DEF creditoNaCentral, Evento
  <2>4. liquidadas' = liquidadas
    BY <1>2, <1>4, Conjuntos DEF liquidadas, Evento
  <2>5. Credito!Materializar(d)
    BY <1>2, <2>2, <2>3, <2>4 DEF Credito!Materializar
  <2> QED
    BY <1>4, <2>5 DEF Credito!Next
<1>5. CASE m.evento \in Venda
  <2> DEFINE v == m.evento
  <2>1. v \notin liquidadas
    BY <1>2 DEF liquidadas
  <2>2. ASSUME NEW d \in Devolucao, usado[d] = v
        PROVE  creditoNaCentral[d] = v
    <3>1. usado[d] # Nenhuma
      BY <1>5, <2>2, Conjuntos
    <3>2. d \in TrocasDe(v)
      BY <2>2, <3>1 DEF IInv, Vinculo, TrocasDe
    <3>3. central[d] # Nada
      BY <1>5, <3>2 DEF IInv, VendaSoDepoisDaDevolucao
    <3> QED
      BY <2>2, <3>3, CreditoSegue DEF CreditoConferido, creditoNaCentral
  <2>3. liquidadas' = liquidadas \cup {v}
    BY <1>1, <1>2, <1>5 DEF liquidadas, Evento
  <2>4. creditoNaCentral' = creditoNaCentral
    BY <1>2, <1>5, Conjuntos DEF creditoNaCentral, Evento
  <2>5. Credito!Liquidar(v)
    BY <1>2, <2>1, <2>2, <2>3, <2>4 DEF Credito!Liquidar
  <2> QED
    BY <1>5, <2>5 DEF Credito!Next
<1>6. CASE m.evento \in Nota
  <2>1. \A e \in Venda \cup Devolucao : e \in Evento /\ central'[e] = central[e]
    BY <1>2, <1>6, Conjuntos DEF Evento
  <2> QED
    BY <1>2, <2>1 DEF Credito!vars, creditoNaCentral, liquidadas
<1> QED
  BY <1>1, <1>4, <1>5, <1>6 DEF Evento

\* No other step is seen by CreditoCentral.
LEMMA RefinaPasso ==
  ASSUME TypeOK, IInv, [Next]_vars
  PROVE  [Credito!Next]_(Credito!vars)
<1>1. ASSUME usado' = usado, central' = central
      PROVE  UNCHANGED Credito!vars
  BY <1>1 DEF Credito!vars, creditoNaCentral, liquidadas
<1>2. CASE Loja
  <2>1. central' = central
    BY <1>2, LojaFora
  <2>2. ASSUME NEW v \in Venda, NEW esgotados \in SUBSET pagamento[v], FinalizarVenda(v, esgotados)
        PROVE  Credito!Next
    BY <2>2, RefinaVenda
  <2>3. \/ \E v \in Venda : \E esgotados \in SUBSET pagamento[v] : FinalizarVenda(v, esgotados)
        \/ usado' = usado
    BY <1>2 DEF Loja, AbrirVenda, CancelarVenda, AplicarCredito, RemoverPagamento,
                FinalizarDevolucao, AlterarNfce
  <2> QED
    BY <1>1, <2>1, <2>2, <2>3
<1>3. ASSUME NEW m \in rede, CentralProcessa(m)
      PROVE  Credito!Next \/ UNCHANGED Credito!vars
  BY <1>3, RefinaCentral
<1>4. \/ central' = central
      \/ \E m \in rede : CentralProcessa(m)
  <2>1. CASE UNCHANGED vars
    BY <2>1 DEF vars
  <2>2. CASE Loja
    BY <2>2, LojaFora
  <2>3. CASE Fila
    BY <2>3 DEF Fila, Enfileirar, Vencer, EnfileirarVendaDaNota, Cair
  <2>4. ASSUME NEW c \in Chamador, Chamada(c) PROVE central' = central
    <3>1. CASE Selecionar(c) \/ DesistirRetry(c) \/ Marcar(c) \/ Falhar(c)
               \/ \E r \in [chamada[c].alvo -> RespostasCentral] : Responder(c, r)
      BY <3>1 DEF Selecionar, DesistirRetry, Marcar, Falhar, Responder
    <3>2. ASSUME NEW e \in Evento,
                 \/ VerificarRetry(c, e) \/ Confirmar(c, e) \/ Retry(c, e)
                 \/ ConflitoLocal(c, e) \/ ConflitoCentral(c, e) \/ GravarConflito(c, e)
          PROVE  central' = central
      BY <3>2 DEF VerificarRetry, Confirmar, Retry, ConflitoLocal, ConflitoCentral, GravarConflito
    <3> QED
      BY <2>4, <3>1, <3>2 DEF Chamada
  <2> QED
    BY <2>1, <2>2, <2>3, <2>4 DEF Next
<1> QED
  BY <1>1, <1>2, <1>3, <1>4, ForaDaLoja

\* Every behaviour of the outbox is one of CreditoCentral.
THEOREM Refinamento == Spec => CreditoSpec
<1>1. Init => Credito!Init
  BY RefinaInicio
<1>2. TypeOK /\ IInv /\ [Next]_vars => [Credito!Next]_(Credito!vars)
  BY RefinaPasso
<1> QED
  BY <1>1, <1>2, InvarianteVale, PTL DEF Spec, CreditoSpec, Credito!Spec

(***************************************************************************)
(* One caller: the exchange sale goes with its official documents.         *)
(***************************************************************************)

\* With two callers the property fails: one confirms the return between the payload
\* and the dependencies of a batch of the other.
UmChamador == \A c, k \in Chamador : c = k

\* A confirmed return has its official document, for ever.
Definitivas ==
  \A d \in Devolucao : devolucao[d].confirmada => ~Provisorio(d) /\ devolucao[d].status # "NENHUMA"

\* The credits of a payload are linked to the sale, and the official ones are of them.
DoVinculo(v, p) == p.creditos \subseteq TrocasDe(v) /\ p.oficiais \subseteq p.creditos

Oficiais ==
  /\ \A v \in Venda : Existe(v) => DoVinculo(v, evento[v].payload)
  /\ \A c \in Chamador : \A v \in chamada[c].trava \cap Venda :
        /\ DoVinculo(v, chamada[c].pronto[v])
        /\ ~evento[v].tentado =>
              \A d \in chamada[c].pronto[v].creditos :
                 devolucao[d].confirmada => d \in chamada[c].pronto[v].oficiais

InvOficial == Definitivas /\ Oficiais /\ VendaComValeOficial

LEMMA InicioOficial == Init => InvOficial
<1> SUFFICES ASSUME Init PROVE InvOficial
  OBVIOUS
<1>1. /\ \A d \in Devolucao : ~devolucao[d].confirmada
      /\ \A e \in Evento : ~Existe(e)
      /\ rede = {}
  BY DEF Init, Existe
<1>2. \A c \in Chamador : chamada[c].trava = {}
  BY Repouso DEF Init
<1> QED
  BY <1>1, <1>2 DEF InvOficial, Definitivas, Oficiais, VendaComValeOficial, Evento

\* Once a return is linked it stays linked; the store confirms nothing.
LEMMA LojaLigada ==
  ASSUME TypeOK, Loja, NEW d \in Devolucao
  PROVE  /\ devolucao[d].troca # Nenhuma => devolucao'[d].troca = devolucao[d].troca
         /\ devolucao'[d].confirmada = devolucao[d].confirmada
<1>1. ASSUME NEW v \in Venda, NEW esgotados \in SUBSET pagamento[v], FinalizarVenda(v, esgotados)
      PROVE  /\ devolucao[d].troca # Nenhuma => devolucao'[d].troca = devolucao[d].troca
             /\ devolucao'[d].confirmada = devolucao[d].confirmada
  BY <1>1 DEF FinalizarVenda, VinculoPermitido, TypeOK, LinhaDevolucao
<1>2. ASSUME NEW v \in Venda, NEW x \in Devolucao, AplicarCredito(v, x)
      PROVE  /\ devolucao[d].troca # Nenhuma => devolucao'[d].troca = devolucao[d].troca
             /\ devolucao'[d].confirmada = devolucao[d].confirmada
  BY <1>2 DEF AplicarCredito, VinculoPermitido, TypeOK, LinhaDevolucao
<1>3. ASSUME NEW v \in Venda, NEW x \in Devolucao, NEW credito \in BOOLEAN, FinalizarDevolucao(x, v, credito)
      PROVE  /\ devolucao'[d].troca = devolucao[d].troca
             /\ devolucao'[d].confirmada = devolucao[d].confirmada
  BY <1>3 DEF FinalizarDevolucao, TypeOK, LinhaDevolucao
<1> QED
  BY <1>1, <1>2, <1>3 DEF Loja, AbrirVenda, CancelarVenda, RemoverPagamento, AlterarNfce

\* No step makes the document of a confirmed return provisional again.
LEMMA DefinitivasMantem ==
  ASSUME TypeOK, Definitivas, [Next]_vars
  PROVE  Definitivas'
<1>1. CASE UNCHANGED <<devolucao, vale>>
  BY <1>1 DEF Definitivas, Provisorio
<1>2. ASSUME NEW v \in Venda, NEW esgotados \in SUBSET pagamento[v], FinalizarVenda(v, esgotados)
      PROVE  Definitivas'
  <2>1. \A d \in pagamento[v] : ~devolucao[d].confirmada
    BY <1>2 DEF FinalizarVenda, VinculoPermitido
  <2>2. ASSUME NEW d \in Devolucao, devolucao'[d].confirmada
        PROVE  vale'[d] = vale[d] /\ devolucao'[d] = devolucao[d]
    <3>1. d \notin pagamento[v]
      BY <1>2, <2>1, <2>2 DEF FinalizarVenda, TypeOK, LinhaDevolucao
    <3> QED
      BY <1>2, <3>1 DEF FinalizarVenda, TypeOK
  <2> QED
    BY <2>2 DEF Definitivas, Provisorio
<1>3. ASSUME NEW v \in Venda, NEW x \in Devolucao, AplicarCredito(v, x)
      PROVE  Definitivas'
  <2>1. /\ vale' = vale
        /\ \A d \in Devolucao : /\ devolucao'[d].confirmada = devolucao[d].confirmada
                                /\ devolucao'[d].status = devolucao[d].status
    BY <1>3 DEF AplicarCredito, TypeOK, LinhaDevolucao
  <2> QED
    BY <2>1 DEF Definitivas, Provisorio
<1>4. ASSUME NEW v \in Venda, NEW x \in Devolucao, NEW credito \in BOOLEAN, FinalizarDevolucao(x, v, credito)
      PROVE  Definitivas'
  <2>1. ~devolucao[x].confirmada
    BY <1>4 DEF FinalizarDevolucao, Definitivas
  <2>2. /\ ~devolucao'[x].confirmada
        /\ \A d \in Devolucao \ {x} : devolucao'[d] = devolucao[d] /\ vale'[d] = vale[d]
    BY <1>4, <2>1 DEF FinalizarDevolucao, TypeOK, LinhaDevolucao
  <2> QED
    BY <2>2 DEF Definitivas, Provisorio
<1>5. ASSUME NEW c \in Chamador, NEW e \in Evento, Confirmar(c, e), e \in Devolucao
      PROVE  Definitivas'
  <2>1. /\ devolucao'[e].status = "FINALIZADA" /\ vale'[e] \in {"NENHUM", "OFICIAL"}
        /\ \A d \in Devolucao \ {e} : devolucao'[d] = devolucao[d] /\ vale'[d] = vale[d]
    BY <1>5 DEF Confirmar, TypeOK, LinhaDevolucao, StatusVale
  <2> QED
    BY <2>1 DEF Definitivas, Provisorio
<1>6. ASSUME NEW e \in Devolucao, DevolucaoEmConflito(e)
      PROVE  Definitivas'
  <2>1. /\ devolucao'[e].confirmada = devolucao[e].confirmada /\ devolucao'[e].status = "CONFLITO"
        /\ vale'[e] = IF vale[e] = "ABERTO" THEN "CANCELADO" ELSE vale[e]
        /\ \A d \in Devolucao \ {e} : devolucao'[d] = devolucao[d] /\ vale'[d] = vale[d]
    BY <1>6 DEF DevolucaoEmConflito, TypeOK, LinhaDevolucao
  <2> QED
    BY <2>1 DEF Definitivas, Provisorio
<1>7. \/ UNCHANGED <<devolucao, vale>>
      \/ \E v \in Venda : \E esgotados \in SUBSET pagamento[v] : FinalizarVenda(v, esgotados)
      \/ \E v \in Venda, x \in Devolucao : AplicarCredito(v, x)
      \/ \E v \in Venda, x \in Devolucao : \E credito \in BOOLEAN : FinalizarDevolucao(x, v, credito)
      \/ \E c \in Chamador, e \in Evento : Confirmar(c, e) /\ e \in Devolucao
      \/ \E e \in Devolucao : DevolucaoEmConflito(e)
  <2>1. CASE UNCHANGED vars
    BY <2>1 DEF vars
  <2>2. CASE Loja
    BY <2>2 DEF Loja, AbrirVenda, CancelarVenda, RemoverPagamento, AlterarNfce
  <2>3. CASE Fila
    BY <2>3 DEF Fila, Enfileirar, Vencer, EnfileirarVendaDaNota, Cair, CentralProcessa, local
  <2>4. ASSUME NEW c \in Chamador, Chamada(c)
        PROVE  \/ UNCHANGED <<devolucao, vale>>
               \/ \E e \in Evento : Confirmar(c, e) /\ e \in Devolucao
               \/ \E e \in Devolucao : DevolucaoEmConflito(e)
    <3>1. CASE Selecionar(c) \/ DesistirRetry(c) \/ Marcar(c) \/ Falhar(c)
               \/ \E r \in [chamada[c].alvo -> RespostasCentral] : Responder(c, r)
      BY <3>1 DEF Selecionar, DesistirRetry, Marcar, Falhar, Responder, local
    <3>2. ASSUME NEW e \in Evento, VerificarRetry(c, e) \/ Retry(c, e) \/ GravarConflito(c, e)
          PROVE  UNCHANGED <<devolucao, vale>>
      BY <3>2 DEF VerificarRetry, Retry, GravarConflito, local
    <3>3. ASSUME NEW e \in Evento, Confirmar(c, e), e \notin Devolucao
          PROVE  UNCHANGED <<devolucao, vale>>
      BY <3>3 DEF Confirmar
    <3>4. ASSUME NEW e \in Evento, ConflitoLocal(c, e) \/ ConflitoCentral(c, e)
          PROVE  UNCHANGED <<devolucao, vale>> \/ (e \in Devolucao /\ DevolucaoEmConflito(e))
      BY <3>4 DEF ConflitoLocal, ConflitoCentral, DevolucaoEmConflito
    <3> QED
      BY <2>4, <3>1, <3>2, <3>3, <3>4 DEF Chamada
  <2> QED
    BY <2>1, <2>2, <2>3, <2>4 DEF Next
<1> QED
  BY <1>1, <1>2, <1>3, <1>4, <1>5, <1>6, <1>7

\* A step that confirms nothing while a batch is being prepared.
LEMMA OficialCalmo ==
  ASSUME TypeOK, IInv, InvOficial, Definitivas', Calmo,
         \A c \in Chamador : chamada'[c].trava # {} =>
            \A d \in Devolucao : devolucao'[d].confirmada => devolucao[d].confirmada
  PROVE  InvOficial'
<1>1. \A v \in Venda : TrocasDe(v)' = TrocasDe(v)
  BY DEF Calmo, LojaCalma, TrocasDe
<1>2. \A v \in Venda : Existe(v)' => DoVinculo(v, evento[v].payload)' 
  BY <1>1 DEF Calmo, FilaCalma, InvOficial, Oficiais, Existe, DoVinculo, Evento
<1>3. ASSUME NEW c \in Chamador, NEW v \in chamada'[c].trava \cap Venda
      PROVE  /\ chamada'[c].pronto[v].creditos \subseteq TrocasDe(v)'
             /\ chamada'[c].pronto[v].oficiais \subseteq chamada'[c].pronto[v].creditos
             /\ ~evento'[v].tentado =>
                   \A d \in chamada'[c].pronto[v].creditos :
                      devolucao'[d].confirmada => d \in chamada'[c].pronto[v].oficiais
  <2>1. chamada'[c] = chamada[c] /\ evento'[v].tentado = evento[v].tentado
    BY <1>3 DEF Calmo, ChamadaCalma, FilaCalma, Evento
  <2>2. /\ DoVinculo(v, chamada[c].pronto[v])
        /\ ~evento[v].tentado =>
              \A d \in chamada[c].pronto[v].creditos :
                 devolucao[d].confirmada => d \in chamada[c].pronto[v].oficiais
    BY <1>3, <2>1 DEF InvOficial, Oficiais
  <2>3. \A d \in chamada[c].pronto[v].creditos : d \in Devolucao
    BY <2>2 DEF DoVinculo, TrocasDe
  <2> QED
    BY <1>1, <1>3, <2>1, <2>2, <2>3 DEF DoVinculo
<1>4. VendaComValeOficial'
  BY DEF Calmo, InvOficial, VendaComValeOficial
<1> QED
  BY <1>2, <1>3, <1>4 DEF InvOficial, Oficiais, DoVinculo

LEMMA LojaOficial ==
  ASSUME TypeOK, IInv, InvOficial, Definitivas', Loja
  PROVE  InvOficial'
<1>1. UNCHANGED <<evento, chamada, rede>>
  BY LojaFora
<1>2. \A v \in Venda : TrocasDe(v) \subseteq TrocasDe(v)'
  BY LojaLigada, Conjuntos DEF TrocasDe
<1>3. \A d \in Devolucao : devolucao'[d].confirmada = devolucao[d].confirmada
  BY LojaLigada
<1>4. ASSUME NEW v \in Venda, Existe(v)
      PROVE  DoVinculo(v, evento[v].payload)'
  BY <1>1, <1>2, <1>4 DEF InvOficial, Oficiais, DoVinculo
<1>5. ASSUME NEW c \in Chamador, NEW v \in chamada[c].trava \cap Venda
      PROVE  /\ chamada[c].pronto[v].creditos \subseteq TrocasDe(v)'
             /\ chamada[c].pronto[v].oficiais \subseteq chamada[c].pronto[v].creditos
             /\ ~evento[v].tentado =>
                   \A d \in chamada[c].pronto[v].creditos :
                      devolucao'[d].confirmada => d \in chamada[c].pronto[v].oficiais
  <2>1. /\ DoVinculo(v, chamada[c].pronto[v])
        /\ ~evento[v].tentado =>
              \A d \in chamada[c].pronto[v].creditos :
                 devolucao[d].confirmada => d \in chamada[c].pronto[v].oficiais
    BY <1>5 DEF InvOficial, Oficiais
  <2>2. \A d \in chamada[c].pronto[v].creditos : d \in Devolucao
    BY <2>1 DEF DoVinculo, TrocasDe
  <2> QED
    BY <1>2, <1>3, <1>5, <2>1, <2>2 DEF DoVinculo
<1>6. VendaComValeOficial'
  BY <1>1 DEF InvOficial, VendaComValeOficial
<1>7. \A v \in Venda : Existe(v)' <=> Existe(v)
  BY <1>1 DEF Existe
<1> QED
  BY <1>1, <1>4, <1>5, <1>6, <1>7 DEF InvOficial, Oficiais, DoVinculo

LEMMA CriarOficial ==
  ASSUME TypeOK, IInv, InvOficial, NEW e \in Evento, Criar(e), evento[e].status = "AUSENTE",
         UNCHANGED <<local, chamada, rede>>
  PROVE  InvOficial'
<1>1. /\ \A f \in Evento \ {e} : evento'[f] = evento[f]
      /\ evento'[e].payload = PayloadInicial(e) /\ ~evento'[e].tentado
  BY DEF Criar, TypeOK
<1>2. \A c \in Chamador : \A f \in chamada[c].trava : f # e /\ f \in Evento
  BY DEF IInv, Lastro, Ativos, TypeOK, EstadoChamada
<1>3. UNCHANGED <<devolucao, vale>>
  BY DEF local
<1>4. e \in Venda => DoVinculo(e, PayloadInicial(e))
  <2>1. SUFFICES ASSUME e \in Venda PROVE DoVinculo(e, PayloadInicial(e))
    OBVIOUS
  <2>2. /\ PayloadInicial(e).creditos = pagamento[e]
        /\ PayloadInicial(e).oficiais = {d \in pagamento[e] : ~Provisorio(d)}
    BY <2>1, Conjuntos DEF PayloadInicial, PayloadVenda
  <2>3. pagamento[e] \subseteq TrocasDe(e)
    BY <2>1 DEF IInv, Vinculo, TypeOK, TrocasDe
  <2> QED
    BY <2>2, <2>3 DEF DoVinculo
<1>5. \A v \in Venda : TrocasDe(v)' = TrocasDe(v)
  BY <1>3 DEF TrocasDe
<1>6. ASSUME NEW v \in Venda, Existe(v)'
      PROVE  /\ evento'[v].payload.creditos \subseteq TrocasDe(v)
             /\ evento'[v].payload.oficiais \subseteq evento'[v].payload.creditos
  <2>1. CASE v = e
    BY <1>1, <1>4, <1>6, <2>1 DEF DoVinculo
  <2>2. CASE v # e
    BY <1>1, <1>6, <2>2 DEF InvOficial, Oficiais, DoVinculo, Existe, Evento
  <2> QED
    BY <2>1, <2>2
<1>7. \A c \in Chamador : \A v \in chamada[c].trava \cap Venda :
        /\ DoVinculo(v, chamada[c].pronto[v])
        /\ ~evento'[v].tentado =>
              \A d \in chamada[c].pronto[v].creditos :
                 devolucao[d].confirmada => d \in chamada[c].pronto[v].oficiais
  BY <1>1, <1>2 DEF InvOficial, Oficiais
<1>8. Oficiais'
  BY <1>3, <1>5, <1>6, <1>7 DEF Oficiais, DoVinculo
<1> QED
  BY <1>3, <1>8 DEF InvOficial, Definitivas, Provisorio, VendaComValeOficial

\* The payload a sale is prepared with names the confirmed returns as official.
LEMMA PreparadoOficial ==
  ASSUME TypeOK, IInv, InvOficial, NEW v \in Venda, Existe(v)
  PROVE  /\ DoVinculo(v, Preparado(v))
         /\ ~evento[v].tentado =>
               \A d \in Preparado(v).creditos : devolucao[d].confirmada => d \in Preparado(v).oficiais
<1>1. DoVinculo(v, evento[v].payload) /\ v \in Evento /\ v \notin Devolucao
  BY Conjuntos DEF InvOficial, Oficiais, Evento
<1>2. CASE evento[v].tentado
  BY <1>1, <1>2 DEF Preparado
<1>3. CASE ~evento[v].tentado /\ TrocasDe(v) # {}
  <2>1. Preparado(v) = PayloadVenda(v, TrocasDe(v))
    BY <1>1, <1>3 DEF Preparado
  <2>2. /\ Preparado(v).creditos = pagamento[v]
        /\ Preparado(v).oficiais = {d \in pagamento[v] : ~Provisorio(d)}
    BY <2>1 DEF PayloadVenda
  <2>3. pagamento[v] \subseteq TrocasDe(v) /\ pagamento[v] \subseteq Devolucao
    BY DEF IInv, Vinculo, TypeOK, TrocasDe
  <2> QED
    BY <2>2, <2>3 DEF DoVinculo, InvOficial, Definitivas
<1>4. CASE ~evento[v].tentado /\ TrocasDe(v) = {}
  <2>1. Preparado(v) = evento[v].payload
    BY <1>1, <1>4 DEF Preparado
  <2>2. evento[v].payload.creditos = {}
    BY <1>1, <1>4 DEF DoVinculo
  <2> QED
    BY <1>1, <2>1, <2>2
<1> QED
  BY <1>2, <1>3, <1>4

LEMMA SelecionarOficial ==
  ASSUME TypeOK, IInv, InvOficial, NEW c \in Chamador, Selecionar(c)
  PROVE  InvOficial'
<1>1. UNCHANGED <<devolucao, vale, evento, rede>>
  BY DEF Selecionar, local
<1>2. \A v \in Venda : TrocasDe(v)' = TrocasDe(v)
  BY <1>1 DEF TrocasDe
<1>3. ASSUME NEW k \in Chamador, NEW v \in chamada'[k].trava \cap Venda
      PROVE  /\ DoVinculo(v, chamada'[k].pronto[v])
             /\ ~evento[v].tentado =>
                   \A d \in chamada'[k].pronto[v].creditos :
                      devolucao[d].confirmada => d \in chamada'[k].pronto[v].oficiais
  <2>1. CASE k = c
    <3>1. Existe(v) /\ chamada'[k].pronto[v] = Preparado(v)
      BY <1>3, <2>1, Selecionado DEF Existe, Ativos
    <3> QED
      BY <1>3, <3>1, PreparadoOficial
  <2>2. CASE k # c
    BY <1>3, <2>2, Selecionado DEF InvOficial, Oficiais
  <2> QED
    BY <2>1, <2>2
<1>4. Oficiais'
  <2>1. \A v \in Venda : Existe(v)' => DoVinculo(v, evento[v].payload)'
    BY <1>1, <1>2 DEF InvOficial, Oficiais, DoVinculo, Existe
  <2> QED
    BY <1>1, <1>2, <1>3, <2>1 DEF Oficiais, DoVinculo
<1> QED
  BY <1>1, <1>4 DEF InvOficial, Definitivas, Provisorio, VendaComValeOficial

LEMMA MarcarOficial ==
  ASSUME TypeOK, IInv, InvOficial, UmChamador, NEW c \in Chamador, Marcar(c)
  PROVE  InvOficial'
<1>1. PICK ch : ch = chamada[c]
  OBVIOUS
<1>2. PICK enviados \in SUBSET ch.alvo :
           /\ \A e \in enviados : ~Bloqueado(e, ch.pronto[e])
           /\ chamada'[c].trava = {}
           /\ rede' = rede \cup {[evento |-> e, payload |-> ch.pronto[e]] : e \in enviados}
           /\ \A e \in Evento \ ch.trava : evento'[e] = evento[e]
           /\ \A e \in ch.trava :
                /\ evento'[e].status \in Ativos
                /\ evento'[e].payload = IF e \in ch.alvo THEN ch.pronto[e] ELSE evento[e].payload
  BY <1>1, Marcado
<1>3. /\ ch.trava \subseteq Evento /\ enviados \subseteq ch.trava
      /\ \A e \in ch.trava : Existe(e)
  BY <1>1, <1>2 DEF Marcar, Preparando, IInv, Lastro, TypeOK, EstadoChamada, Existe, Ativos
<1>4. UNCHANGED <<devolucao, vale>>
  BY DEF Marcar, local
<1>5. \A k \in Chamador : chamada'[k].trava = {}
  BY <1>2 DEF UmChamador
<1>6. \A v \in ch.trava \cap Venda :
        /\ DoVinculo(v, ch.pronto[v])
        /\ ~evento[v].tentado =>
              \A d \in ch.pronto[v].creditos : devolucao[d].confirmada => d \in ch.pronto[v].oficiais
  BY <1>1 DEF InvOficial, Oficiais
<1>7. ASSUME NEW v \in Venda, Existe(v)'
      PROVE  DoVinculo(v, evento'[v].payload)
  <2>1. CASE v \in ch.trava
    <3>1. Existe(v)
      BY <1>3, <2>1
    <3>2. DoVinculo(v, evento[v].payload)
      BY <3>1 DEF InvOficial, Oficiais
    <3>3. evento'[v].payload = ch.pronto[v] \/ evento'[v].payload = evento[v].payload
      BY <1>2, <2>1
    <3> QED
      BY <1>6, <1>7, <2>1, <3>2, <3>3
  <2>2. CASE v \notin ch.trava
    <3>1. evento'[v] = evento[v]
      BY <1>2, <2>2 DEF Evento
    <3> QED
      BY <1>7, <3>1 DEF InvOficial, Oficiais, Existe
  <2> QED
    BY <2>1, <2>2
<1>8. Oficiais'
  BY <1>4, <1>5, <1>7 DEF Oficiais, DoVinculo, TrocasDe
\* a first sending: every credit was confirmed, here and when the payload was computed
<1>9. ASSUME NEW e \in enviados, e \in Venda
      PROVE  ch.pronto[e].oficiais = ch.pronto[e].creditos
  <2>1. e \in ch.trava /\ DoVinculo(e, ch.pronto[e])
    BY <1>3, <1>6, <1>9
  <2>2. CASE evento[e].tentado
    <3>1. ch.pronto[e] = evento[e].payload
      BY <1>1, <2>1, <2>2 DEF IInv, Retrato
    <3>2. PICK m \in rede : m.evento = e /\ evento[e].payload = m.payload
      BY <1>9, <2>2 DEF IInv, Retrato, Evento
    <3> QED
      BY <1>9, <3>1, <3>2 DEF InvOficial, VendaComValeOficial
  <2>3. CASE ~evento[e].tentado
    <3>1. TrocasDe(e) \subseteq ch.pronto[e].deps
      BY <1>1, <1>9, <2>1, <2>3 DEF IInv, Retrato
    <3>2. \A d \in ch.pronto[e].deps : devolucao[d].confirmada
      BY <1>2, <1>9 DEF Bloqueado
    <3> QED
      BY <1>6, <1>9, <2>1, <2>3, <3>1, <3>2 DEF DoVinculo
  <2> QED
    BY <2>2, <2>3
<1>10. VendaComValeOficial'
  <2>1. \A m \in rede' : m \in rede \/ \E e \in enviados : m.evento = e /\ m.payload = ch.pronto[e]
    BY <1>2
  <2> QED
    BY <1>9, <2>1 DEF InvOficial, VendaComValeOficial
<1> QED
  BY <1>4, <1>8, <1>10 DEF InvOficial, Definitivas, Provisorio

LEMMA PassoOficial ==
  ASSUME UmChamador
  PROVE  TypeOK /\ IInv /\ InvOficial /\ [Next]_vars => InvOficial'
<1> SUFFICES ASSUME TypeOK, IInv, InvOficial, [Next]_vars PROVE InvOficial'
  OBVIOUS
<1>1. Definitivas'
  BY DefinitivasMantem DEF InvOficial
\* a quiet step that confirms nothing
<1>2. ASSUME Calmo, UNCHANGED devolucao
      PROVE  InvOficial'
  BY <1>1, <1>2, OficialCalmo
<1>3. CASE UNCHANGED vars
  <2>1. Oficiais' /\ VendaComValeOficial'
    BY <1>3 DEF vars, InvOficial, Oficiais, VendaComValeOficial, Existe, DoVinculo, TrocasDe
  <2> QED
    BY <1>1, <2>1 DEF InvOficial
<1>4. CASE Loja
  BY <1>1, <1>4, LojaOficial
<1>5. ASSUME NEW e \in Evento, Enfileirar(e)
      PROVE  InvOficial'
  <2>1. UNCHANGED <<local, chamada, rede, devolucao>>
    BY <1>5 DEF Enfileirar, local
  <2>2. CASE evento[e].status = "AUSENTE"
    BY <1>5, <2>1, <2>2, CriarOficial DEF Enfileirar
  <2>3. CASE evento[e].status # "AUSENTE"
    <3>1. UNCHANGED evento
      BY <1>5, <2>3 DEF Enfileirar
    <3>2. Oficiais' /\ VendaComValeOficial'
      BY <2>1, <3>1 DEF InvOficial, Oficiais, VendaComValeOficial, Existe, DoVinculo, TrocasDe
    <3> QED
      BY <1>1, <3>2 DEF InvOficial
  <2> QED
    BY <2>2, <2>3
<1>6. ASSUME NEW n \in Nota, EnfileirarVendaDaNota(n)
      PROVE  InvOficial'
  <2>1. VendaDaNota[n] \in Evento
    BY Conjuntos DEF Evento
  <2> QED
    BY <1>6, <2>1, CriarOficial DEF EnfileirarVendaDaNota
<1>7. CASE Cair \/ (\E e \in Evento : Vencer(e)) \/ \E m \in rede : CentralProcessa(m)
  <2>1. Calmo
    BY <1>7, CairCalmo, VencerCalmo, CentralCalma
  <2>2. UNCHANGED devolucao
    BY <1>7 DEF Cair, Vencer, CentralProcessa, local
  <2> QED
    BY <1>2, <2>1, <2>2
<1>8. ASSUME NEW c \in Chamador, Chamada(c)
      PROVE  InvOficial'
  <2>1. CASE Selecionar(c)
    BY <2>1, SelecionarOficial
  <2>2. CASE Marcar(c)
    BY <2>2, MarcarOficial
  <2>3. CASE DesistirRetry(c)
    BY <1>2, <2>3, DesistirCalmo DEF DesistirRetry, local
  <2>4. ASSUME NEW r \in [chamada[c].alvo -> Resposta], Responder(c, r) PROVE InvOficial'
    BY <1>2, <2>4, ResponderCalmo DEF Responder, local
  <2>5. CASE Falhar(c)
    <3>1. [e \in chamada[c].alvo |-> "ERRO"] \in [chamada[c].alvo -> Resposta]
      BY DEF Resposta
    <3> QED
      BY <2>4, <2>5, <3>1 DEF Falhar
  <2>6. ASSUME NEW r \in [chamada[c].alvo -> RespostasCentral], Responder(c, r) PROVE InvOficial'
    BY <2>4, <2>6, Conjuntos
  <2>7. ASSUME NEW e \in Evento, VerificarRetry(c, e) PROVE InvOficial'
    <3>1. UNCHANGED devolucao
      BY <2>7, Zenon DEF VerificarRetry, local
    <3> QED
      BY <1>2, <2>7, <3>1, RetryManualCalmo
  \* the only caller confirms: no batch is being prepared
  <2>8. ASSUME NEW e \in Evento, Confirmar(c, e) PROVE InvOficial'
    <3>1. chamada'[c].trava = {}
      <4>1. chamada[c].trava = {} /\ chamada[c] \in EstadoChamada
        BY <2>8 DEF Confirmar, Tratando, IInv, Lastro, Preparando, TypeOK
      <4>2. chamada'[c] = Ociosa \/ chamada'[c] = [chamada[c] EXCEPT !.alvo = chamada[c].alvo \ {e}]
        BY <2>8 DEF Confirmar, Tratado, TypeOK
      <4> QED
        BY <4>1, <4>2, Repouso DEF EstadoChamada
    <3>2. \A k \in Chamador : chamada'[k].trava = {}
      BY <3>1 DEF UmChamador
    <3> QED
      BY <1>1, <2>8, <3>2, ConfirmarCalmo, OficialCalmo
  <2>9. ASSUME NEW e \in Evento,
               Retry(c, e) \/ GravarConflito(c, e) \/ ConflitoLocal(c, e) \/ ConflitoCentral(c, e)
        PROVE  InvOficial'
    <3>1. Calmo
      BY <2>9, GravacoesCalmas, ConflitoCentralCalmo
    <3>2. \A d \in Devolucao : devolucao'[d].confirmada = devolucao[d].confirmada
      <4>1. UNCHANGED devolucao \/ DevolucaoEmConflito(e)
        BY <2>9, Zenon DEF Retry, GravarConflito, ConflitoLocal, ConflitoCentral, local
      <4> QED
        BY <4>1 DEF DevolucaoEmConflito, TypeOK, LinhaDevolucao
    <3> QED
      BY <1>1, <3>1, <3>2, OficialCalmo
  <2> QED
    BY <1>8, <2>1, <2>2, <2>3, <2>5, <2>6, <2>7, <2>8, <2>9 DEF Chamada
<1> QED
  BY <1>3, <1>4, <1>5, <1>6, <1>7, <1>8 DEF Next, Fila

\* With one caller, an exchange sale goes to the Central with the official documents
\* of its credits, whatever is confirmed late, refused or interrupted
\* (_preparar_evento_troca, sync.py:378).
THEOREM ValeOficialVale ==
  ASSUME UmChamador
  PROVE  Spec => []VendaComValeOficial
<1>1. Init => InvOficial
  BY InicioOficial
<1>2. TypeOK /\ IInv /\ InvOficial /\ [Next]_vars => InvOficial'
  BY PassoOficial
<1>3. InvOficial => VendaComValeOficial
  BY DEF InvOficial
<1> QED
  BY <1>1, <1>2, <1>3, InvarianteVale, PTL DEF Spec

=============================================================================
